--------------------------- MODULE MCDelegatedWork ---------------------------
(* Constant values for the model checking of DelegatedWork, and a view       *)
(* without the audit log, which no step and no property here depends on:    *)
(* MaxRejections lies above the refusals these instances can produce.       *)
EXTENDS DelegatedWork, TLC

MCCommands == {[type |-> "move", cargo |-> "red", destination |-> "right"], Cancel}
Interchangeable == Permutations(CallIds) \cup Permutations(Delegations)
WithoutLog == <<cargo, mode, operations, delegations, calls, epoch, stopped, now,
                barrier, lastStepAt, sessionVars, serviceVars, wire, outputs, creates, heard>>
=============================================================================
