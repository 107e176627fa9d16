--------------------------- MODULE AudioRecovery ---------------------------
(***************************************************************************)
(* An audio request from its lease to its answer (worker.py), and what     *)
(* happens when it times out: cancel flags, the wait for idle processors,  *)
(* the recreation of a stuck one (orchestrator/resident_processor_         *)
(* handle.py), the end of its task and the clean-up of GPU memory, which   *)
(* holds up the event loop.  Processors (processors/base_processor.py) run *)
(* their GPU calls on a thread of their own, first come first served;      *)
(* loads and unloads of their resident models run on the same thread.  The *)
(* answer is sent when the lease is released; its send is left out.        *)
(*                                                                         *)
(* An instance <<p, i>> is processor p after i recreations.  The arbiter   *)
(* is reduced to its promise: under the admission lock it loads what the   *)
(* request needs, and other admissions evict what no lease holds.          *)
(***************************************************************************)
EXTENDS Integers, Sequences, FiniteSets, SequencesExt

CONSTANTS
    Requests,       \* the stages a request may ask for, in order
    MaxRequests,    \* bound: how many requests are served
    Stuck           \* the processors whose inference may never return

Stages == {"transcribe", "diarize", "embed"}
Processors == {"whisper", "pyannote"}
Models == {"whisper", "pyannote", "embedding"}

ModelOf == [transcribe |-> "whisper", diarize |-> "pyannote", embed |-> "embedding"]
ProcessorOf == [transcribe |-> "whisper", diarize |-> "pyannote", embed |-> "pyannote"]
Owner == [whisper |-> "whisper", pyannote |-> "pyannote", embedding |-> "pyannote"]

\* Only the first stage of a request transcribes.
ASSUME RequestAssumption ==
    /\ Requests \subseteq Seq(Stages)
    /\ \A todo \in Requests : \A i \in DOMAIN todo : todo[i] = "transcribe" => i = 1
    /\ MaxRequests \in Nat
    /\ Stuck \subseteq Processors

VARIABLES
    gen,         \* gen[p]: the recreations of p; the handle's processor is <<p, gen[p]>>
    weights,     \* weights[x]: the models instance x has on the card
    exec,        \* exec[x]: the calls given to x's executor thread
    busy,        \* busy[x]: the thread runs the first of them
    flag,        \* flag[x]: _cancelled_request_id: a request, None or AnyRequest
    processing,  \* processing[x]: _is_processing, the opposite of _operation_complete
    down,        \* down[x]: "up", "signalled" by shutdown, or its executor "closed"
    loaded,      \* the residents marked loaded
    held,        \* the residents the lease holds
    lock,        \* the admission lock: free, this worker's, or another admission's
    pc,          \* the worker
    req,         \* the request it serves, numbered in order
    idle,        \* idle[p]: what wait_for_idle returned
    watch,       \* the processor the recovery is at
    woken,       \* the wait for _operation_complete is over
    task,        \* the coroutine _process_request
    swallowed    \* history: a failed swap was discarded with its task

procVars == <<gen, weights, exec, busy, flag, processing, down>>
residentVars == <<loaded, held, lock>>
workerVars == <<pc, req, idle, watch, woken>>
vars == <<procVars, residentVars, workerVars, task, swallowed>>

None == 0
AnyRequest == -1
Instances == Processors \X (0..MaxRequests)
Live(p) == <<p, gen[p]>>

\* pc and outcome; the stages todo, the first of them in progress at an
\* instance; cold: this request's admission built whisper, in its variant.
NoTask == [pc |-> "none", todo |-> <<>>, at |-> <<"whisper", 0>>, outcome |-> "none",
           cold |-> FALSE]

\* The task is inside an operation of its processor.
Operating == task.pc \in {"swap", "begun", "run", "tail"}

\* _check_cancelled raises for request r on instance x.
Cancelled(x, r) == flag[x] \in {r, AnyRequest}

Required == {ModelOf[s] : s \in Range(task.todo)}
-----------------------------------------------------------------------------
(* The coroutine _process_request, stage after stage *)

Finish(outcome) == task' = [task EXCEPT !.pc = "done", !.outcome = outcome]

\* The first stage of todo fails: only embeddings may be missing from a result.
StageFails(todo) == Finish(IF Head(todo) = "embed" THEN "ok" ELSE "failed")

\* _end_operation: wake the recovery if it waits for this processor.
EndOperation ==
    /\ processing' = [processing EXCEPT ![task.at] = FALSE]
    /\ woken' = (woken \/ (pc = "waitIdle" /\ Live(watch) = task.at))

\* _begin_operation: clears the cancel flag, whoever set it.
BeginOperation(x, ended) ==
    /\ processing' = [ended EXCEPT ![x] = TRUE]
    /\ flag' = [flag EXCEPT ![x] = None]

(***************************************************************************)
(* The start of the next stage, in the same turn of the event loop as the  *)
(* end of the one before: `ended` is `processing` after that.  A processor *)
(* that is shut down, or has no weights, raises before it begins.          *)
(***************************************************************************)
Advance(todo, ended) ==
    \/ /\ todo \in {<<>>, <<"embed">>}           \* nothing left, or no segments
       /\ Finish("ok")
       /\ processing' = ended
       /\ UNCHANGED <<exec, flag>>
    \/ /\ todo # <<>>
       /\ LET x == Live(ProcessorOf[Head(todo)])
              m == ModelOf[Head(todo)]
          IN  \/ /\ down[x] # "up" \/ m \notin weights[x]
                 /\ StageFails(todo)
                 /\ processing' = ended
                 /\ UNCHANGED <<exec, flag>>
              \/ /\ down[x] = "up" /\ m \in weights[x]
                 /\ BeginOperation(x, ended)
                 /\ \/ /\ task' = [task EXCEPT !.pc = "begun", !.todo = todo, !.at = x]
                       /\ exec' = exec
                    \/ /\ Head(todo) = "transcribe" /\ ~task.cold   \* another variant
                       /\ task' = [task EXCEPT !.pc = "swap", !.todo = todo, !.at = x,
                                               !.outcome = "none"]
                       /\ exec' = [exec EXCEPT ![x] =
                                     Append(@, [kind |-> "swap", model |-> m, req |-> req])]

\* The first progress message is sent.
TaskStarts ==
    /\ task.pc = "start"
    /\ Advance(task.todo, processing)
    /\ UNCHANGED <<gen, weights, busy, down, residentVars, workerVars, swallowed>>

SwapReturns ==
    /\ task.pc = "swap" /\ task.outcome # "none"
    /\ \/ /\ task.outcome = "ok"
          /\ task' = [task EXCEPT !.pc = "begun"]
          /\ UNCHANGED <<processing, woken>>
       \/ /\ task.outcome # "ok"
          /\ Finish(task.outcome)
          /\ EndOperation
    /\ UNCHANGED <<gen, weights, exec, busy, flag, down, residentVars, pc, req, idle, watch,
                   swallowed>>

\* The stage's first progress message is sent: give the call to the thread.
\* A closed executor raises; when it is gone the default executor takes the call,
\* which the flag set by shutdown() ends at once.
CallModel ==
    /\ task.pc = "begun"
    /\ \/ /\ down[task.at] # "closed"
          /\ exec' = [exec EXCEPT ![task.at] =
                        Append(@, [kind |-> "infer", model |-> ModelOf[Head(task.todo)],
                                   req |-> req])]
          /\ task' = [task EXCEPT !.pc = "run", !.outcome = "none"]
          /\ UNCHANGED <<processing, woken>>
       \/ /\ down[task.at] = "closed"
          /\ StageFails(task.todo) /\ EndOperation
          /\ exec' = exec
    /\ UNCHANGED <<gen, weights, busy, flag, down, residentVars, pc, req, idle, watch, swallowed>>

ModelReturns ==
    /\ task.pc = "run" /\ task.outcome # "none"
    /\ \/ /\ task.outcome = "ok"
          /\ task' = [task EXCEPT !.pc = "tail"]
          /\ UNCHANGED <<processing, woken>>
       \/ /\ task.outcome = "error"
          /\ StageFails(task.todo) /\ EndOperation
       \/ /\ task.outcome = "dropped"
          /\ Finish("failed") /\ EndOperation
    /\ UNCHANGED <<gen, weights, exec, busy, flag, down, residentVars, pc, req, idle, watch,
                   swallowed>>

\* The stage's last progress message is sent, and the next stage begins.
StageEnds ==
    /\ task.pc = "tail"
    /\ woken' = (woken \/ (pc = "waitIdle" /\ Live(watch) = task.at))
    /\ Advance(Tail(task.todo), [processing EXCEPT ![task.at] = FALSE])
    /\ UNCHANGED <<gen, weights, busy, down, residentVars, pc, req, idle, watch, swallowed>>

\* The client is gone: the third progress message in a row fails, and the
\* request flags itself.
ClientGone ==
    /\ task.pc \in {"begun", "tail"}
    /\ flag' = [x \in Instances |-> IF x = Live(x[1]) THEN req ELSE flag[x]]
    /\ UNCHANGED <<gen, weights, exec, busy, processing, down, residentVars, workerVars, task,
                   swallowed>>

\* Here the recovery runs without an await: no other coroutine can step.
RecoveryRuns == pc \in {"check", "discard", "sync"}

TaskStep ==
    /\ ~RecoveryRuns
    /\ \/ TaskStarts \/ SwapReturns \/ CallModel \/ ModelReturns \/ StageEnds \/ ClientGone
-----------------------------------------------------------------------------
(* The executor threads *)

Awaits(job) ==
    /\ task.pc \in {"swap", "run"} /\ task.outcome = "none"
    /\ job.kind \in {"swap", "infer"} /\ job.req = req

\* The result of a call reaches the task, if it still waits for one.
Deliver(job, outcome) ==
    task' = IF Awaits(job) THEN [task EXCEPT !.outcome = outcome] ELSE task

Pop(x) ==
    /\ exec' = [exec EXCEPT ![x] = Tail(@)]
    /\ busy' = [busy EXCEPT ![x] = FALSE]

\* The calls x's thread has not begun, and those it has.
Pending(x) == IF busy[x] THEN Tail(exec[x]) ELSE exec[x]
Begun(x) == IF busy[x] THEN <<Head(exec[x])>> ELSE <<>>

\* A call begins: an inference looks at the flag first, a swap drops the
\* variant it replaces.
CallBegins(x) ==
    /\ ~busy[x] /\ exec[x] # <<>>
    /\ LET job == Head(exec[x])
       IN  \/ /\ job.kind = "infer" /\ Cancelled(x, job.req)
              /\ Pop(x)
              /\ Deliver(job, "error")
              /\ weights' = weights
           \/ /\ job.kind # "infer" \/ ~Cancelled(x, job.req)
              /\ busy' = [busy EXCEPT ![x] = TRUE]
              /\ weights' = [weights EXCEPT ![x] = IF job.kind = "swap" THEN @ \ {job.model} ELSE @]
              /\ UNCHANGED <<exec, task>>
    /\ UNCHANGED <<gen, flag, processing, down, residentVars, workerVars, swallowed>>

\* The first call of x's queue, which its thread runs.
Running(x, kind) == busy[x] /\ Head(exec[x]).kind = kind

\* It ends past its last look at the flag, or it fails, cancelled or not.
InferenceEnds(x) ==
    /\ Running(x, "infer")
    /\ \E outcome \in {"ok", "error"} : Deliver(Head(exec[x]), outcome)
    /\ Pop(x)
    /\ UNCHANGED <<gen, weights, flag, processing, down, residentVars, workerVars, swallowed>>

SwapEnds(x) ==
    /\ Running(x, "swap")
    /\ \/ /\ weights' = [weights EXCEPT ![x] = @ \cup {"whisper"}]
          /\ Deliver(Head(exec[x]), "ok")
       \/ /\ weights' = weights
          /\ Deliver(Head(exec[x]), "swapError")
    /\ Pop(x)
    /\ UNCHANGED <<gen, flag, processing, down, residentVars, workerVars, swallowed>>

\* A resident's load ends, and the admission that awaits it goes on or raises.
LoadEnds(x) ==
    /\ Running(x, "load")
    /\ \/ /\ weights' = [weights EXCEPT ![x] = @ \cup {Head(exec[x]).model}]
          /\ loaded' = loaded \cup {Head(exec[x]).model}
          /\ pc' = "admit"
          /\ lock' = lock
       \/ /\ pc' = "idle" /\ lock' = "free"
          /\ UNCHANGED <<weights, loaded>>
    /\ Pop(x)
    /\ UNCHANGED <<gen, flag, processing, down, held, req, idle, watch, woken, task, swallowed>>

\* A resident's unload ends, and with it the admission that evicted it.
UnloadEnds(x) ==
    /\ Running(x, "unload")
    /\ weights' = [weights EXCEPT ![x] = @ \ {Head(exec[x]).model}]
    /\ loaded' = loaded \ {Head(exec[x]).model}
    /\ lock' = "free"
    /\ Pop(x)
    /\ UNCHANGED <<gen, flag, processing, down, held, workerVars, task, swallowed>>
-----------------------------------------------------------------------------
(* Admission: the arbiter's promise *)

Dispatch(kind, m) ==
    LET x == Live(Owner[m])
    IN  exec' = [exec EXCEPT ![x] = Append(@, [kind |-> kind, model |-> m, req |-> req])]

\* Another admission evicts a resident that no lease holds.
OtherEvicts ==
    /\ lock = "free" /\ ~RecoveryRuns
    /\ \E m \in loaded \ held : Dispatch("unload", m)
    /\ lock' = "other"
    /\ UNCHANGED <<gen, weights, busy, flag, processing, down, loaded, held, workerVars, task,
                   swallowed>>

\* The worker takes the next request from its queue and asks for a lease.
TakeRequest ==
    /\ pc = "idle" /\ req < MaxRequests
    /\ req' = req + 1
    /\ \E stages \in Requests : task' = [NoTask EXCEPT !.todo = stages]
    /\ pc' = "acquire"
    /\ UNCHANGED <<procVars, residentVars, idle, watch, woken, swallowed>>

EnterAdmission ==
    /\ pc = "acquire" /\ lock = "free"
    /\ lock' = "worker" /\ pc' = "admit"
    /\ UNCHANGED <<procVars, loaded, held, req, idle, watch, woken, task, swallowed>>

LoadRequired ==
    /\ pc = "admit"
    /\ \E i \in DOMAIN task.todo :
        LET m == ModelOf[task.todo[i]]
        IN  /\ m \notin loaded
            /\ \A k \in 1..(i - 1) : ModelOf[task.todo[k]] \in loaded
            /\ Dispatch("load", m)
            /\ task' = [task EXCEPT !.cold = @ \/ m = "whisper"]
    /\ pc' = "loading"
    /\ UNCHANGED <<gen, weights, busy, flag, processing, down, residentVars, req, idle, watch,
                   woken, swallowed>>

\* The lease is granted and the task created.
GrantLease ==
    /\ pc = "admit" /\ Required \subseteq loaded
    /\ held' = Required /\ lock' = "free"
    /\ task' = [task EXCEPT !.pc = "start"]
    /\ pc' = "serve"
    /\ UNCHANGED <<procVars, loaded, req, idle, watch, woken, swallowed>>
-----------------------------------------------------------------------------
(* The worker, lease in hand *)

\* The request ends: its task is gone, and the lease is released.
Release ==
    /\ task' = NoTask
    /\ held' = {}
    /\ pc' = "idle"

TaskReturns ==
    /\ pc = "serve" /\ task.pc = "done" /\ task.outcome # "swapError"
    /\ Release
    /\ UNCHANGED <<procVars, loaded, lock, req, idle, watch, woken, swallowed>>

\* WhisperModelSwapError is caught: recreate whisper under the barrier.
SwapErrorRaised ==
    /\ pc = "serve" /\ task.pc = "done" /\ task.outcome = "swapError"
    /\ idle' = [p \in Processors |-> p # "whisper"]
    /\ watch' = "whisper"
    /\ task' = [task EXCEPT !.outcome = "raised"]
    /\ pc' = "barrier"
    /\ UNCHANGED <<procVars, residentVars, req, woken, swallowed>>

\* processing_timeout, maybe as the task ends: flag both processors, then see
\* whether they are idle.
TimesOut ==
    /\ pc = "serve"
    /\ flag' = [x \in Instances |-> IF x = Live(x[1]) THEN req ELSE flag[x]]
    /\ watch' = "whisper"
    /\ pc' = "check"
    /\ UNCHANGED <<gen, weights, exec, busy, processing, down, residentVars, req, idle, woken,
                   task, swallowed>>

\* Mutated form: waits for ever.
WaitsForEver == pc = "waitIdle" /\ woken

\* wait_for_idle returns: woken, or after wait_timeout.
WaitReturns == pc = "waitIdle"

\* Mutated form: takes the timeout for an answer.
AlwaysIdle == TRUE

\* What it returns.
WentIdle == woken

\* Where the recovery goes on, given what it knows of both processors.
Onward(known) ==
    CASE ~known["whisper"] -> pc' = "barrier" /\ watch' = "whisper"
      [] known["whisper"] /\ ~known["pyannote"] -> pc' = "barrier" /\ watch' = "pyannote"
      [] known["whisper"] /\ known["pyannote"] -> pc' = "discard" /\ watch' = watch

Learn(answer) ==
    /\ idle' = [idle EXCEPT ![watch] = answer]
    /\ IF watch = "whisper" THEN pc' = "check" /\ watch' = "pyannote" ELSE Onward(idle')

\* wait_for_idle: an idle processor answers at once, without an await.
CheckIdle ==
    /\ pc = "check"
    /\ \/ /\ processing[Live(watch)]
          /\ pc' = "waitIdle" /\ woken' = FALSE
          /\ UNCHANGED <<idle, watch>>
       \/ /\ ~processing[Live(watch)]
          /\ Learn(TRUE)
          /\ woken' = woken
    /\ UNCHANGED <<procVars, residentVars, req, task, swallowed>>

IdleWaitEnds ==
    /\ WaitReturns
    /\ Learn(WentIdle)
    /\ UNCHANGED <<procVars, residentVars, req, woken, task, swallowed>>

EnterBarrier ==
    /\ pc = "barrier" /\ lock = "free"
    /\ lock' = "worker" /\ pc' = "signal"
    /\ UNCHANGED <<procVars, loaded, held, req, idle, watch, woken, task, swallowed>>

\* shutdown(), on a thread of the default executor: the flags ...
ShutdownSignals ==
    /\ pc = "signal"
    /\ down' = [down EXCEPT ![Live(watch)] = "signalled"]
    /\ flag' = [flag EXCEPT ![Live(watch)] = IF processing[Live(watch)] THEN AnyRequest ELSE @]
    /\ pc' = "close"
    /\ UNCHANGED <<gen, weights, exec, busy, processing, residentVars, req, idle, watch, woken,
                   task, swallowed>>

\* ... then the executor takes no more calls ...
ShutdownCloses ==
    /\ pc = "close"
    /\ down' = [down EXCEPT ![Live(watch)] = "closed"]
    /\ pc' = "drain"
    /\ UNCHANGED <<gen, weights, exec, busy, flag, processing, residentVars, req, idle, watch,
                   woken, task, swallowed>>

\* ... and when it has ended those it had, the weights are freed.
Drained ==
    /\ pc = "drain" /\ exec[Live(watch)] = <<>>
    /\ weights' = [weights EXCEPT ![Live(watch)] = {}]
    /\ pc' = "rebind"
    /\ UNCHANGED <<gen, exec, busy, flag, processing, down, residentVars, req, idle, watch, woken,
                   task, swallowed>>

\* Mutated form: frees the weights although a call may still run.
FreeAnyway(x) == weights' = [weights EXCEPT ![x] = {}]

\* After the timeout the weights are leaked.
Leak(x) == weights' = weights

DrainTimesOut ==
    /\ pc = "drain" /\ exec[Live(watch)] # <<>>
    /\ LET x == Live(watch)
       IN  /\ exec' = [exec EXCEPT ![x] = Begun(x)]
           /\ task' = IF \E job \in Range(Pending(x)) : Awaits(job)
                      THEN [task EXCEPT !.outcome = "dropped"] ELSE task
           /\ Leak(x)
    /\ pc' = "rebind"
    /\ UNCHANGED <<gen, busy, flag, processing, down, residentVars, req, idle, watch, woken,
                   swallowed>>

Residents(p) == {m \in Models : Owner[m] = p}

\* Mutated form: the residents stay marked loaded.
ResetNothing(p) == UNCHANGED <<loaded, held>>

\* ResidentModel.rebind on each resident of p.
ResetResidents(p) ==
    /\ loaded' = loaded \ Residents(p)
    /\ held' = held \ Residents(p)

\* A new instance, its residents rebound to it; then the next stuck one.
Rebind ==
    /\ pc = "rebind"
    /\ gen' = [gen EXCEPT ![watch] = @ + 1]
    /\ ResetResidents(watch)
    /\ lock' = "free"
    /\ Onward([idle EXCEPT ![watch] = TRUE])
    /\ idle' = [idle EXCEPT ![watch] = TRUE]
    /\ UNCHANGED <<weights, exec, busy, flag, processing, down, req, woken, task, swallowed>>

\* The call of a cancelled task is dropped unless the thread has begun it.
CancelCall ==
    LET x       == task.at
        waiting == {i \in DOMAIN exec[x] : Awaits(exec[x][i]) /\ ~(busy[x] /\ i = 1)}
    IN  \/ waiting = {} /\ exec' = exec
        \/ \E i \in waiting : exec' = [exec EXCEPT ![x] = RemoveAt(@, i)]

\* After a failed swap there is no task left to discard.
SwapRecovered ==
    /\ pc = "discard" /\ task.outcome = "raised"
    /\ Release
    /\ UNCHANGED <<procVars, loaded, lock, req, idle, watch, woken, swallowed>>

\* Cancel the task and discard its outcome; then wait for the GPU, on the event
\* loop (_cleanup_gpu_memory).
Discard ==
    /\ pc = "discard" /\ task.outcome # "raised"
    /\ CancelCall
    /\ processing' = [processing EXCEPT ![task.at] = @ /\ ~Operating]
    /\ swallowed' = (swallowed \/ (task.outcome = "swapError" /\ "whisper" \in loaded))
    /\ task' = NoTask
    /\ pc' = "sync"
    /\ UNCHANGED <<gen, weights, busy, flag, down, residentVars, req, idle, watch, woken>>

\* torch.cuda.synchronize returns, and the lease is released.
Synchronized ==
    /\ pc = "sync"
    /\ Release
    /\ UNCHANGED <<procVars, loaded, lock, req, idle, watch, woken, swallowed>>
-----------------------------------------------------------------------------
\* The worker is idle; earlier requests may have left residents on the card.
Init ==
    /\ gen = [p \in Processors |-> 0]
    /\ loaded \in SUBSET Models
    /\ weights = [x \in Instances |-> IF x[2] = 0 THEN {m \in loaded : Owner[m] = x[1]} ELSE {}]
    /\ exec = [x \in Instances |-> <<>>]
    /\ busy = [x \in Instances |-> FALSE]
    /\ flag = [x \in Instances |-> None]
    /\ processing = [x \in Instances |-> FALSE]
    /\ down = [x \in Instances |-> "up"]
    /\ held = {} /\ lock = "free"
    /\ pc = "idle" /\ req = 0
    /\ idle = [p \in Processors |-> TRUE]
    /\ watch = "whisper" /\ woken = FALSE
    /\ task = NoTask /\ swallowed = FALSE

\* The worker between taking a request and its answer; LoadEnds is its wait.
WorkerStep ==
    \/ EnterAdmission \/ LoadRequired \/ GrantLease
    \/ TaskReturns \/ SwapErrorRaised \/ TimesOut
    \/ CheckIdle \/ IdleWaitEnds
    \/ EnterBarrier \/ ShutdownSignals \/ ShutdownCloses \/ Drained \/ DrainTimesOut
    \/ Rebind \/ SwapRecovered \/ Discard

CallEnds(x) == SwapEnds(x) \/ LoadEnds(x) \/ UnloadEnds(x)

Next ==
    \/ TakeRequest \/ OtherEvicts
    \/ WorkerStep \/ Synchronized \/ TaskStep
    \/ \E x \in Instances : CallBegins(x) \/ CallEnds(x) \/ InferenceEnds(x)

Spec == Init /\ [][Next]_vars

\* A kernel that may never end is on the GPU.
GpuHangs == \E x \in Instances : x[1] \in Stuck /\ Running(x, "infer")

\* The worker goes on when it can, timeouts included; threads begin and end
\* their calls, but an inference on a stuck processor may never return, nor may
\* a wait for the GPU that runs it.  The task need not step: a client may stop
\* reading its progress messages.
Fairness ==
    /\ WF_vars(WorkerStep)
    /\ WF_vars(~GpuHangs /\ Synchronized)
    /\ \A x \in Instances :
        /\ WF_vars(CallBegins(x)) /\ WF_vars(CallEnds(x))
        /\ x[1] \notin Stuck => WF_vars(InferenceEnds(x))

FairSpec == Spec /\ Fairness
-----------------------------------------------------------------------------
(* Properties *)

Job == [kind : {"load", "unload", "swap", "infer"}, model : Models, req : 0..MaxRequests]

Leased == {"serve", "check", "waitIdle", "barrier", "signal", "close", "drain", "rebind", "discard",
           "sync"}

TypeOK ==
    /\ gen \in [Processors -> 0..MaxRequests]
    /\ weights \in [Instances -> SUBSET Models]
    /\ exec \in [Instances -> Seq(Job)]
    /\ busy \in [Instances -> BOOLEAN]
    /\ flag \in [Instances -> {AnyRequest} \cup 0..MaxRequests]
    /\ processing \in [Instances -> BOOLEAN]
    /\ down \in [Instances -> {"up", "signalled", "closed"}]
    /\ loaded \subseteq Models /\ held \subseteq Models
    /\ lock \in {"free", "worker", "other"}
    /\ pc \in {"idle", "acquire", "admit", "loading"} \cup Leased
    /\ req \in 0..MaxRequests
    /\ idle \in [Processors -> BOOLEAN]
    /\ watch \in Processors /\ woken \in BOOLEAN
    /\ task.pc \in {"none", "start", "swap", "begun", "run", "tail", "done"}
    /\ swallowed \in BOOLEAN

\* Whatever runs on a card uses weights that are there: neither an eviction nor
\* the shutdown of a stuck processor frees them under a call
\* (base_processor.py:154-158).
InferenceHasWeights ==
    \A x \in Instances : Running(x, "infer") => Head(exec[x]).model \in weights[x]

\* A request that starts finds the weights of every model its lease promises
\* (worker.py:308 "The required models are guaranteed resident by the arbiter
\* lease").  The code breaks it: no run checks it but in the weaker form below.
LeasedModelsAreThere ==
    task.pc = "start" => \A m \in Required : m \in weights[Live(Owner[m])]

\* The one way to break that promise is a whisper swap that fails while its
\* request is timed out: its error is discarded with the task.
OnlySwallowedSwapBreaksLease ==
    task.pc = "start" =>
        \A m \in Required : m \in weights[Live(Owner[m])] \/ (m = "whisper" /\ swallowed)

InferenceUnderLease(p) ==
    Running(Live(p), "infer") => pc \in Leased /\ Head(exec[Live(p)]).req = req

\* No processor in service runs an inference whose lease is gone
\* (worker.py:281 "If the processors went idle the task has already finished").
NoInferenceOutlivesLease == \A p \in Processors : InferenceUnderLease(p)

\* Whisper, the first stage, never does: the recovery ends or replaces it.
WhisperEndsUnderLease == InferenceUnderLease("whisper")

\* Every lease ends and its request can be answered, also when whisper's GPU call
\* never returns, but for one way: the recovery that replaced whisper waits for the
\* GPU after all, on the event loop, for as long as the old call is stuck on it.
\* Then the promise "The client is told PROCESSING_TIMEOUT by the caller regardless"
\* (worker.py:248) is not kept, nor does anything else run on the loop (290, 573).
EveryLeaseEnds ==
    pc = "acquire" ~> (pc = "idle" \/ [](pc = "sync" /\ GpuHangs))
=============================================================================
