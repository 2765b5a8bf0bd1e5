--------------------------- MODULE MCActionMetrics ---------------------------
(* Constant values and symmetry for the model checking of ActionMetrics. *)
EXTENDS ActionMetrics, TLC

Command(type, destination) == [type |-> type, cargo |-> "red", destination |-> destination]

\* Work, work of the opposite direction that is added or replaces it, and a cancellation.
MCCommands == {Command("move", "right"), Command("move", "left"), Command("replace", "left"), Cancel}
AllModes == {"voice-only", "cancel-actions"}
=============================================================================
