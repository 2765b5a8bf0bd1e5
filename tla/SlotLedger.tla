----------------------------- MODULE SlotLedger -----------------------------
(***************************************************************************)
(* What a directory of experiment records promises: every planned trial is  *)
(* begun once, by one attempt, and settled once, by that attempt's word or  *)
(* as interrupted; what is written stays as it is.                          *)
(***************************************************************************)
CONSTANTS Slots, Attempts, Words, Interrupted, None

VARIABLE ledger     \* per slot: the attempt that began it, and how it was settled

Open == [attempt |-> None, word |-> None]

Init == ledger = [s \in Slots |-> Open]

Begin(s, a) ==
    /\ ledger[s] = Open
    /\ ledger' = [ledger EXCEPT ![s].attempt = a]

Settle(s, w) ==
    /\ ledger[s].attempt # None /\ ledger[s].word = None
    /\ ledger' = [ledger EXCEPT ![s].word = w]

Next == \E s \in Slots:
    \/ \E a \in Attempts: Begin(s, a)
    \/ \E w \in Words \cup {Interrupted}: Settle(s, w)

Spec == Init /\ [][Next]_ledger
=============================================================================
