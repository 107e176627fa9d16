-------------------------- MODULE MCAudioRecovery --------------------------
(***************************************************************************)
(* Two requests: one that asks for every stage, and one that transcribes.  *)
(***************************************************************************)
EXTENDS AudioRecovery

Full == <<"transcribe", "diarize", "embed">>
MCRequests == {Full, <<"transcribe">>}
MCStuck == {"whisper"}
=============================================================================
