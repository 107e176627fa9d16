---------------------------- MODULE WhisperModels ----------------------------
(***************************************************************************)
(* Which whisper model runs (whisper_models.py): the configured model is a *)
(* ceiling, clamped at start-up to what the card can hold beside the       *)
(* diarization models (server.py _resolve_whisper_ceiling), and a request  *)
(* gets the model it asks for up to the ceiling.  One model stands for the *)
(* variants of a size, but for the smallest and the largest.  Sizes are in *)
(* tenths of a gigabyte.                                                   *)
(***************************************************************************)
EXTENDS Integers, FiniteSetsExt

WHISPER_MODEL_RANK ==
    [tiny |-> 1, tiny_en |-> 1, base |-> 2, small |-> 3, medium |-> 4,
     large |-> 5, large_v3 |-> 5]
WHISPER_MODEL_VRAM_GB ==
    [tiny |-> 5, tiny_en |-> 5, base |-> 7, small |-> 12, medium |-> 25,
     large |-> 30, large_v3 |-> 30]

Models == DOMAIN WHISPER_MODEL_RANK
PREFERRED_BY_RANK == <<"tiny", "base", "small", "medium", "large_v3">>

NoModel == "none"       \* nothing requested, or a name nobody knows
Undetected == -1        \* no card was detected

\* Mutated form: a model the server knows is what the client gets.
TrustRequested(requested, ceiling) ==
    IF requested \in Models THEN requested ELSE ceiling

ResolveEffective(requested, ceiling) ==
    IF requested \in Models /\ WHISPER_MODEL_RANK[requested] <= WHISPER_MODEL_RANK[ceiling]
    THEN requested
    ELSE ceiling

LargestFittingModel(total, coresident, headroom) ==
    LET budget == total - coresident - headroom
        fitting == {WHISPER_MODEL_RANK[m] :
                        m \in {n \in Models : WHISPER_MODEL_VRAM_GB[n] <= budget}}
    IN  PREFERRED_BY_RANK[Max(fitting \cup {1})]

HardwareCeiling(configured, total, coresident, headroom) ==
    IF total = Undetected
    THEN configured
    ELSE ResolveEffective(configured, LargestFittingModel(total, coresident, headroom))
=============================================================================
