----------------------------- MODULE MCLlmWorker -----------------------------
(***************************************************************************)
(* Small instances of LlmWorker: two ids, three requests.                  *)
(***************************************************************************)
EXTENDS LlmWorker, TLC

CONSTANTS a, b

MCIds == {a, b}
OnePriority == {0}
NeverPending == {FALSE}
=============================================================================
