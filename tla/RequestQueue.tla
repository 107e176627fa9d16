---------------------------- MODULE RequestQueue ----------------------------
(***************************************************************************)
(* What a request queue promises: each request that waits leaves once,     *)
(* taken or dropped, and the one taken has the highest priority of those   *)
(* that wait for nothing else, the earliest among equals.  Requests are    *)
(* numbered in order of arrival; dropped and taken ones never come back.   *)
(***************************************************************************)
EXTENDS Integers, Sequences

CONSTANT Priorities

VARIABLES
    priority,   \* the priority of each request that has arrived
    waiting,    \* those that wait
    taken       \* those that were taken

Ahead(o, p) ==
    \/ priority[o] > priority[p]
    \/ priority[o] = priority[p] /\ o <= p

Init ==
    /\ priority = <<>>
    /\ waiting = {}
    /\ taken = {}

Put ==
    /\ \E p \in Priorities : priority' = Append(priority, p)
    /\ waiting' = waiting \cup {Len(priority')}
    /\ taken' = taken

Take ==
    /\ \E o \in waiting :
        /\ \A p \in waiting : Ahead(o, p)
        /\ waiting' = waiting \ {o}
        /\ taken' = taken \cup {o}
    /\ priority' = priority

Drop ==
    /\ \E o \in waiting : waiting' = waiting \ {o}
    /\ UNCHANGED <<priority, taken>>

Next == Put \/ Take \/ Drop

Spec == Init /\ [][Next]_<<priority, waiting, taken>>
=============================================================================
