----------------------------- MODULE MCGpuServer -----------------------------
(***************************************************************************)
(* Small instances of GpuServer: three connections for two places, one     *)
(* request id that may be queued under several workloads.                  *)
(***************************************************************************)
EXTENDS GpuServer, TLC

CONSTANT anId

MCIds == {anId}
=============================================================================
