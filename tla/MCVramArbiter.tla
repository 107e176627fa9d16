--------------------------- MODULE MCVramArbiter ---------------------------
(***************************************************************************)
(* The deployed workers on a small card: audio asks for whisper with       *)
(* pyannote, and its recovery may recreate the pyannote processor; llm     *)
(* asks for its model and KV headroom; video asks for transient memory     *)
(* only.  Sizes are in gigabytes, the llm's halved; the llm does not fit   *)
(* beside what audio asks for.  An audio request may ask for whisper only; *)
(* that multiplies the states by four and is left to the proofs.           *)
(***************************************************************************)
EXTENDS VramArbiter

MCRegistry == <<"whisper", "pyannote", "llm">>
MCSize == [whisper |-> 3, pyannote |-> 2, llm |-> 6]
MCJobs == {"audio", "llm", "video"}
Plain(models) == [models |-> models, transient |-> 0]
MCNeeds ==
    [audio |-> {Plain(<<"whisper", "pyannote">>)},
     llm   |-> {[models |-> <<"llm">>, transient |-> 1]},
     video |-> {[models |-> <<>>, transient |-> 2]}]
MCHandles == [audio |-> {{"pyannote"}}, llm |-> {}, video |-> {}]
MCForeignUse == {0}

(***************************************************************************)
(* Two workers that share a model, and a second model that does not fit    *)
(* beside it: the waiting and the hold counts above one.                   *)
(***************************************************************************)
SharedRegistry == <<"shared", "other">>
SharedSize == [shared |-> 3, other |-> 3]
SharedJobs == {"first", "second"}
SharedNeeds ==
    [first  |-> {Plain(<<"shared">>), [models |-> <<>>, transient |-> 2]},
     second |-> {Plain(<<"shared">>), Plain(<<"other">>)}]
SharedHandles == [first |-> {}, second |-> {{"other"}}]
=============================================================================
