---------------------------- MODULE MCGameEngine ----------------------------
(* Constant values and symmetry for the model checking of GameEngine. *)
EXTENDS GameEngine, TLC

Command(type, piece, destination) ==
    [type |-> type, cargo |-> piece, destination |-> destination]

\* Work, work of the opposite direction that replaces it, and a cancellation.
MCCommands == {Command("move", "red", "right"), Command("replace", "red", "left"), Cancel}
AllModes == {"voice-only", "cancel-actions"}

Interchangeable == Permutations(CallIds) \cup Permutations(Delegations)
=============================================================================
