------------------------------ MODULE LlmWorker ------------------------------
(***************************************************************************)
(* The LLM worker (llm_worker.py) with its queue (module QueueManager), the *)
(* generation it starts (processors/llm_processor.py) and the single        *)
(* executor thread that runs it.  The lease keeps the model resident: what  *)
(* the arbiter does for it is module VramArbiter; here a lease is granted   *)
(* with the model loaded, and other admissions may evict it in between.     *)
(* Stopping the worker is left out.                                         *)
(***************************************************************************)
EXTENDS QueueManager

VARIABLES
    stage,       \* where _process of the current request stands
    gen,         \* the generate() coroutine: its state, or how it ended
    job,         \* its job on the executor: its state, or its result
    jobOf,       \* the request the job generates for
    flag,        \* _cancelled_request_id
    weights,     \* the model is loaded
    answers      \* history: the answers sent about each request

queueVars == <<entry, heap, requests, notEmpty, sending, current, handed, aged>>
llmVars   == <<queueVars, stage, gen, job, jobOf, flag, weights, answers>>

Requests == 1..MaxEnqueues
Results == {"text", "cancelled", "tooLong", "error"}
Leased == stage \in {"waiting", "draining", "telling"}
-----------------------------------------------------------------------------
(* generate() and its executor thread *)

\* Mutated form: the flag of an earlier cancellation stays.
BeginKeepingFlag == UNCHANGED flag

\* _begin_operation(): a stale cancellation is cleared.
BeginOperation == flag' = None

\* generate() begins its operation and hands its job to the executor.
GenerateBegins ==
    /\ gen = "new"
    /\ gen' = "running"
    /\ BeginOperation
    /\ job' = "queued" /\ jobOf' = current
    /\ UNCHANGED <<queueVars, stage, weights, answers>>

\* _generate_sync() looks for the model and for room in its context.
JobStarts ==
    /\ job = "queued"
    /\ job' \in IF weights THEN {"streaming", "tooLong"} ELSE {"error"}
    /\ UNCHANGED <<queueVars, stage, gen, jobOf, flag, weights, answers>>

\* The stream ends, fails, or its next chunk meets the flag.
StreamEnds ==
    /\ job = "streaming"
    /\ \/ job' \in {"text", "error"}
       \/ flag # None /\ flag = entry[jobOf].id /\ job' = "cancelled"
    /\ UNCHANGED <<queueVars, stage, gen, jobOf, flag, weights, answers>>

\* The loop resumes generate() with the result of its job; _end_operation().
GenerateReturns ==
    /\ job \in Results /\ gen = "running"
    /\ gen' = job /\ job' = "none"
    /\ UNCHANGED <<queueVars, stage, jobOf, flag, weights, answers>>
-----------------------------------------------------------------------------
(* LlmWorker._run_loop and _process *)

\* An expired request is dropped, another waits for its lease.
TakeRequest ==
    /\ stage = "idle" /\ Dequeue
    /\ stage' = IF entry'[current'].timeoutExpired THEN "finishing" ELSE "acquiring"
    /\ UNCHANGED <<gen, job, jobOf, flag, weights, answers>>

SkipCancelled ==
    /\ DequeueNothing
    /\ UNCHANGED <<stage, gen, job, jobOf, flag, weights, answers>>

Tell(answer) == answers' = [answers EXCEPT ![current] = Append(@, answer)]

\* acquire() grants the lease with the model resident, or raises.
AcquireReturns ==
    /\ stage = "acquiring"
    /\ \/ stage' = "waiting" /\ gen' = "new" /\ weights' = TRUE /\ UNCHANGED answers
       \/ stage' = "finishing" /\ Tell("error") /\ UNCHANGED <<gen, weights>>
    /\ UNCHANGED <<queueVars, job, jobOf, flag>>

\* The generation is over in time; the lease is released, then the client told.
WaitReturns ==
    /\ stage = "waiting" /\ gen \in Results
    /\ stage' = "finishing" /\ Tell(gen)
    /\ gen' = "none"
    /\ UNCHANGED <<queueVars, job, jobOf, flag, weights>>

\* The processing timeout: cancel() raises the flag of the request.
TimesOut ==
    /\ stage = "waiting" /\ gen \notin Results
    /\ stage' = "draining"
    /\ flag' = entry[current].id
    /\ UNCHANGED <<queueVars, gen, job, jobOf, weights, answers>>

\* Mutated form: goes on as soon as the cancellation is raised.
DrainNothing ==
    /\ stage = "draining"
    /\ stage' = "telling" /\ Tell("timeout")
    /\ gen' = "none"
    /\ UNCHANGED <<queueVars, job, jobOf, flag, weights>>

\* Mutated form: waits for the cancellation to be noticed.
DrainCancelled ==
    /\ stage = "draining" /\ gen = "cancelled"
    /\ stage' = "telling" /\ Tell("timeout")
    /\ gen' = "none"
    /\ UNCHANGED <<queueVars, job, jobOf, flag, weights>>

\* Mutated form: the drained generation ends as one that was in time.
DrainAndFallThrough ==
    /\ stage = "draining" /\ gen \in Results
    /\ stage' = "telling"
    /\ answers' = [answers EXCEPT ![current] = @ \o <<"timeout", gen>>]
    /\ gen' = "none"
    /\ UNCHANGED <<queueVars, job, jobOf, flag, weights>>

\* The cancelled generation has ended, whatever it made of it; its client is
\* told under the lease.
Drained ==
    /\ stage = "draining" /\ gen \in Results
    /\ stage' = "telling" /\ Tell("timeout")
    /\ gen' = "none"
    /\ UNCHANGED <<queueVars, job, jobOf, flag, weights>>

\* The answer is sent or its connection gone; a lease still held is released.
Finish ==
    /\ stage \in {"telling", "finishing"} /\ WorkerDone
    /\ stage' = "idle"
    /\ UNCHANGED <<gen, job, jobOf, flag, weights, answers>>

\* Another admission evicts the idle model, on the executor behind its jobs.
OtherEvicts ==
    /\ weights /\ ~Leased /\ job \notin {"queued", "streaming"}
    /\ weights' = FALSE
    /\ UNCHANGED <<queueVars, stage, gen, job, jobOf, flag, answers>>
-----------------------------------------------------------------------------
LlmInit ==
    /\ Init
    /\ stage = "idle" /\ gen = "none" /\ job = "none" /\ jobOf = None
    /\ flag = None /\ weights = FALSE
    /\ answers = [o \in Requests |-> <<>>]

Handlers ==
    /\ \/ \E i \in Ids, p \in Priorities : Enqueue(i, p, FALSE)
       \/ \E i \in Ids : Cancel(i)
       \/ Age
    /\ UNCHANGED <<stage, gen, job, jobOf, flag, weights, answers>>

ExecutorStep == JobStarts \/ StreamEnds

LoopStep ==
    \/ TakeRequest \/ SkipCancelled \/ AcquireReturns
    \/ GenerateBegins \/ GenerateReturns
    \/ WaitReturns \/ Drained \/ Finish

LlmNext == Handlers \/ ExecutorStep \/ LoopStep \/ TimesOut \/ OtherEvicts

LlmSpec == LlmInit /\ [][LlmNext]_llmVars

\* The loop runs what is ready, acquire ends by its deadline, a connection takes
\* or refuses the answer.  Nothing is assumed of the executor: a call into the
\* model may never return.
FairLlmSpec == LlmSpec /\ WF_llmVars(LoopStep)
-----------------------------------------------------------------------------
(* Properties *)

LlmTypeOK ==
    /\ stage \in {"idle", "acquiring", "waiting", "draining", "telling", "finishing"}
    /\ (stage = "idle") = (current = None)
    /\ gen \in {"none", "new", "running"} \cup Results
    /\ job \in {"none", "queued", "streaming"} \cup Results
    /\ jobOf \in Requests \cup {None} /\ flag \in Ids \cup {None}
    /\ weights \in BOOLEAN

\* The executor works for the request that holds the lease, with the model in
\* place: no generation outlives its lease, and none stands behind the one of an
\* earlier request (llm_worker.py:104 "so the executor thread actually stops
\* before the next request's _begin_operation").
JobIsTheLeaseHolders ==
    job # "none" => Leased /\ jobOf = current /\ weights

\* A generation is cut short only by the timeout of its own request, also when an
\* earlier request of the same id was cancelled.
CancelsItsOwn ==
    "cancelled" \in {job, gen} => stage = "draining" /\ jobOf = current

\* No request is answered twice, and the worker gets done with none unanswered but
\* one that expired in the queue, whatever its lease, generation and timeout
\* come to.
OneAnswerEach ==
    \A o \in handed :
        /\ Len(answers[o]) <= 1
        /\ o # current /\ answers[o] = <<>> => entry[o].timeoutExpired

\* A request that expired in the queue is answered by the time the worker takes
\* another (queue_manager.py:208 "Return it so worker can notify client of the
\* timeout").
ExpiredIsAnswered ==
    \A o \in handed : o # current /\ entry[o].timeoutExpired => answers[o] # <<>>

\* The worker gets done with every request it takes, also through the drain,
\* unless the call into the model it waits for never returns: the drain has no
\* bound of its own.  Clients take what they are sent, or their connection
\* fails: a timed out one is told under the lease.
LlmServingEnds ==
    \A o \in Requests :
        (current = o) ~> (current # o \/ [](job \in {"queued", "streaming"}))
=============================================================================
