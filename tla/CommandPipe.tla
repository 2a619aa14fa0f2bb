---------------------------- MODULE CommandPipe ----------------------------
(***************************************************************************)
(* What the line protocol of MainController promises to whoever prints: a  *)
(* pipe of commands, at most Capacity of them unfinished, which the        *)
(* mainboard takes in the order they were submitted, each exactly once.    *)
(***************************************************************************)
EXTENDS Integers, Sequences

CONSTANTS Command, Capacity

VARIABLES
    submitted,  \* every command put into the pipe
    accepted,   \* those the mainboard has taken
    finished    \* how many of them it has executed

vars == <<submitted, accepted, finished>>

Init == submitted = <<>> /\ accepted = <<>> /\ finished = 0

Submit(c) ==
    /\ Len(submitted) - finished < Capacity
    /\ submitted' = Append(submitted, c)
    /\ UNCHANGED <<accepted, finished>>

Accept ==
    /\ Len(accepted) < Len(submitted)
    /\ accepted' = Append(accepted, submitted[Len(accepted) + 1])
    /\ UNCHANGED <<submitted, finished>>

Finish ==
    /\ finished < Len(accepted)
    /\ finished' = finished + 1
    /\ UNCHANGED <<submitted, accepted>>

Next == Accept \/ Finish \/ \E c \in Command : Submit(c)

Spec == Init /\ [][Next]_vars
=============================================================================
