----------------------------- MODULE MCDecisions -----------------------------
(***************************************************************************)
(* The decisions the server computes without waiting for anything, over    *)
(* all small inputs: the room plan of module MCRoomPlan, and the whisper   *)
(* model of a request.  A behaviour is about one of the two.               *)
(***************************************************************************)
EXTENDS MCRoomPlan, WhisperModels

CONSTANTS
    CardSizes,      \* total memory of the cards, or Undetected
    Coresidents,    \* what the diarization models take
    Headrooms       \* vram_headroom_gb

ASSUME AskAssumption ==
    /\ CardSizes \subseteq Nat \cup {Undetected}
    /\ Coresidents \subseteq Nat /\ Headrooms \subseteq Nat

VARIABLE ask        \* the model decision, or NoAsk

MCCardSizes == {Undetected} \cup 0..70
NoAsk == [configured |-> NoModel]

Asks == [configured : Models, requested : Models \cup {NoModel},
         total : CardSizes, coresident : Coresidents, headroom : Headrooms]

NothingToEvict ==
    /\ candidates = <<>> /\ victims = <<>> /\ decided = TRUE /\ bytes = 1
    /\ budget = [total |-> CardSize, free |-> CardSize, resident |-> 0,
                 reservedTransient |-> 0, headroom |-> 0]

DecisionInit ==
    \/ Init /\ ask = NoAsk
    \/ NothingToEvict /\ ask \in Asks

DecisionNext == Next /\ UNCHANGED ask

DecisionSpec == DecisionInit /\ [][DecisionNext]_<<budget, bytes, candidates, victims, decided, ask>>
-----------------------------------------------------------------------------
Ceiling == HardwareCeiling(ask.configured, ask.total, ask.coresident, ask.headroom)
Run == ResolveEffective(ask.requested, Ceiling)
RoomBeside(m) == WHISPER_MODEL_VRAM_GB[m] + ask.coresident + ask.headroom <= ask.total

\* Whatever a client asks for, the model that runs fits into the reservation of
\* the configured model, which the arbiter never changes (whisper_models.py:10
\* "every allowed variant is <= the ceiling"), and on the card beside the
\* diarization models when any model does; what the configuration and the card
\* allow is not withheld either.
WhisperFits ==
    ask # NoAsk =>
        /\ WHISPER_MODEL_VRAM_GB[Run] <= WHISPER_MODEL_VRAM_GB[ask.configured]
        /\ ask.total # Undetected /\ RoomBeside("tiny") => RoomBeside(Run)
        /\ \A m \in {ask.requested} \cap Models :
            /\ WHISPER_MODEL_RANK[m] <= WHISPER_MODEL_RANK[ask.configured]
            /\ ask.total = Undetected \/ RoomBeside(m)
            => Run = m
=============================================================================
