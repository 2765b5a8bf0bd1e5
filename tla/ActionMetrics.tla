---------------------------- MODULE ActionMetrics ----------------------------
(***************************************************************************)
(* deriveActionMetrics of packages/experiments/metrics.ts: the experiment's *)
(* view of a run, computed in one pass over the engine's event history and  *)
(* nothing else.  The properties compare what it infers with the engine it  *)
(* never sees.                                                             *)
(***************************************************************************)
EXTENDS GameEngine

NoMetrics ==
    [pending |-> {}, targeted |-> {}, cancelled |-> {}, corrections |-> {},
     correctionsCompleted |-> {}, accepted |-> 0, ignored |-> 0,
     stepsAfterCancellation |-> 0,
     rejections |-> [class \in Refusals |-> 0]]

\* What an accepted cancellation had targeted and cancel or replace ended: a stop,
\* even in a stopped snapshot, cancels nothing.
NewlyCancelled(m, event) ==
    IF event.info \in {"cancel", "replace"} THEN event.ops \cap m.targeted ELSE {}

\* One event of the pass: the switch on event.kind.
Observe(m, event) ==
    CASE event.kind = "operation.queued" ->
           [m EXCEPT !.pending = @ \cup event.ops,
                     !.corrections = IF event.info = "replace" THEN @ \cup event.ops ELSE @]
      [] event.kind = "operation.completed" ->
           [m EXCEPT !.pending = @ \ event.ops,
                     !.correctionsCompleted = @ \cup (event.ops \cap m.corrections)]
      [] event.kind = "operation.cancelled" ->
           [m EXCEPT !.pending = @ \ event.ops,
                     !.cancelled = @ \cup NewlyCancelled(m, event)]
      [] event.kind = "cancellation.accepted" ->
           [m EXCEPT !.targeted = @ \cup m.pending, !.accepted = @ + 1]
      [] event.kind = "cancellation.observed" -> [m EXCEPT !.ignored = @ + 1]
      [] event.kind = "operation.step" ->
           [m EXCEPT !.stepsAfterCancellation =
                        @ + Cardinality(event.ops \cap m.targeted)]
      [] event.kind \in {"command.rejected", "delegation.rejected"} ->
           [m EXCEPT !.rejections[event.info] = @ + 1]
      [] OTHER -> m

Metrics ==
    LET upTo[n \in 0..Len(events)] ==
          IF n = 0 THEN NoMetrics ELSE Observe(upTo[n - 1], events[n])
    IN upTo[Len(events)]
-----------------------------------------------------------------------------
CallsWith(types, outcomes) ==
    {c \in DOMAIN calls : /\ calls[c].command.type \in types
                          /\ calls[c].receipt.outcome \in outcomes}
OperationsFrom(type) == {i \in DOMAIN operations : calls[operations[i].call].command.type = type}

\* The history alone gives the experiment the truth: no step of cancelled work, the
\* operations cancellation (not the stop) ended, the corrections that were queued and
\* completed, and one accepted or ignored intent per cancel or replace answered.
MetricsMatchEngine ==
    LET m == Metrics
        intents == Cardinality(CallsWith({"cancel", "replace"},
                                 {"cancelled", "observed-not-applied", "queued"}))
    IN /\ m.stepsAfterCancellation = 0
       /\ m.pending = PendingIn(operations)
       /\ m.cancelled = {i \in DOMAIN operations :
                           /\ operations[i].status = "cancelled"
                           /\ operations[i].epoch < (IF stopped THEN epoch - 1 ELSE epoch)}
       /\ m.corrections = OperationsFrom("replace")
       /\ m.correctionsCompleted =
            {i \in OperationsFrom("replace") : operations[i].status = "completed"}
       /\ m.accepted = (IF mode = "cancel-actions" THEN intents ELSE 0)
       /\ m.ignored = (IF mode = "cancel-actions" THEN 0 ELSE intents)
       /\ Cardinality(CallsWith({"move", "cancel", "replace"}, {"rejected"}))
            <= m.rejections["late"] + m.rejections["unregistered"] + m.rejections["terminal"]

=============================================================================
