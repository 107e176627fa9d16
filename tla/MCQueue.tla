------------------------------ MODULE MCQueue ------------------------------
(***************************************************************************)
(* Small instances of QueueManager: two request ids, two priorities.  The  *)
(* requests of one queue either wait for data or are announced to their    *)
(* client under the lock; the instance MayBePending has both.              *)
(***************************************************************************)
EXTENDS QueueManager, TLC

CONSTANTS a, b

MCIds == {a, b}
MCPriorities == {0, 1}
AlwaysPending == {TRUE}
MayBePending == {TRUE, FALSE}
=============================================================================
