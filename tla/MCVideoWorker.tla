---------------------------- MODULE MCVideoWorker ----------------------------
(***************************************************************************)
(* Small instances of VideoWorker.                                         *)
(***************************************************************************)
EXTENDS VideoWorker, TLC

CONSTANTS a, b

MCIds == {a, b}
OnePriority == {0}
AlwaysPending == {TRUE}
=============================================================================
