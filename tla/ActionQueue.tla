----------------------------- MODULE ActionQueue -----------------------------
(***************************************************************************)
(* What the engine promises its host, without time, epochs, receipts or a  *)
(* log: jobs are numbered as they are issued, the oldest live job alone    *)
(* moves its piece of cargo, one cell at a time, and a fence or a halt     *)
(* retires every live job where its cargo happens to be.                   *)
(***************************************************************************)
EXTENDS Integers, Sequences

CONSTANTS Cargo, Right

VARIABLES
    issued,    \* every job, in the order it was issued
    live,      \* the numbers of the jobs not yet retired
    position,  \* where each piece of cargo is
    halted

queueVars == <<issued, live, position, halted>>

Jobs == [cargo: Cargo, destination: {"left", "right"}]

Goal(job) == IF job.destination = "left" THEN 0 ELSE Right

Oldest(i) == i \in live /\ \A j \in live : i <= j

Init ==
    /\ issued = <<>>
    /\ live = {}
    /\ position = [c \in Cargo |-> 0]
    /\ halted = FALSE

Submit(job) ==
    /\ ~halted
    /\ issued' = Append(issued, job)
    /\ live' = live \cup {Len(issued) + 1}
    /\ UNCHANGED <<position, halted>>

\* A replacement retires everything live and is itself the only live job.
Supersede(job) ==
    /\ ~halted
    /\ issued' = Append(issued, job)
    /\ live' = {Len(issued) + 1}
    /\ UNCHANGED <<position, halted>>

Fence ==
    /\ ~halted
    /\ live' = {}
    /\ UNCHANGED <<issued, position, halted>>

\* One cell towards the goal; a job that is at its goal retires.
Serve(i) ==
    /\ ~halted
    /\ Oldest(i)
    /\ LET c == issued[i].cargo
           goal == Goal(issued[i])
       IN \E cell \in {position[c] - 1, position[c], position[c] + 1} :
            /\ position[c] < goal => cell = position[c] + 1
            /\ position[c] = goal => cell = position[c]
            /\ position[c] > goal => cell = position[c] - 1
            /\ position' = [position EXCEPT ![c] = cell]
            /\ live' = IF cell = goal THEN live \ {i} ELSE live
    /\ UNCHANGED <<issued, halted>>

Halt ==
    /\ ~halted
    /\ halted' = TRUE
    /\ live' = {}
    /\ UNCHANGED <<issued, position>>

Next ==
    \/ \E job \in Jobs : Submit(job) \/ Supersede(job)
    \/ Fence
    \/ \E i \in live : Serve(i)
    \/ Halt

Spec == Init /\ [][Next]_queueVars
=============================================================================
