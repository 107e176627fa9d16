# Verification of the meeting-analysis GPU server

TLA+ models of `gpu_server` from the message a client sends to the answer it gets:
connections, their limits and handlers; the three request queues; the audio, LLM and
video workers with what they run on the card and how they recover when it hangs; the
VRAM arbiter with the models it loads and evicts; and the arithmetic behind its
decisions. TLC checks small instances; TLAPS proves the safety properties that the
passing runs check, of every part, for every value of the constants.

All paths below are relative to `src/gpu_server/` in the repository's copy.

## 1. Inventory

The server is one Python process. An asyncio event loop runs the connection
handlers and three serial workers (audio, LLM, video). Blocking GPU work runs on
one single-thread executor per processor. Nothing is persisted, so there is no
crash recovery beyond removing orphaned temporary files at start.

| Component | State it keeps | Operations | Talks to |
|---|---|---|---|
| `server.py` | pending and authenticated connections, info and two rate limiters of each | connect, authenticate, dispatch of each message, cancel, resume, start, stop | queues (enqueue, cancel, update_websocket), video worker (uploads) |
| `queue_manager.py` (three instances) | heap of entries, lookup by id, `_not_empty` event, lock | enqueue, mark_data_ready, dequeue, cancel, update_websocket | called by handlers; its worker waits on the event |
| `worker.py` (audio) | running flag, current request, two processor handles | serve, process, recover from timeout | queue, arbiter (lease, barrier), processors |
| `llm_worker.py` | running flag | serve, drain on timeout | queue, arbiter, LLM processor |
| `video_worker.py` | pending uploads by id, running flag, upload checker, encoder | register, receive and finalise an upload, upload timeout, encode, deliver | queue, arbiter, encoder |
| `orchestrator/vram_arbiter.py` | registry with last use, transient bytes, admission lock, release event | acquire, lease release, admission barrier | resident models, probe, policy |
| `orchestrator/resident_model.py` | loaded, hold count, evicting, epoch, load lock | load, unload, reserve, cancel, begin, end, rebind | processor's executor |
| `orchestrator/resident_processor_handle.py` | current processor, its residents | recreate | processor, residents |
| `orchestrator/vram_budget.py`, `eviction_policy.py` | none (pure) | can_fit, shortfall, select_victims | arbiter |
| `processors/base_processor.py` and its three subclasses | cancel flag, idle event, executor, model | cancel, wait_for_idle, operations, shutdown | worker, handle |
| `processors/video_encoder.py` | subprocess | encode, cancel | video worker |
| the rest (`protocol`, `validation`, `config`, logging, temp files, ...) | – | parsing, formatting, file I/O | – |

What is hard in it:

* **Concurrency on one loop.** Handlers and workers interleave at every
  `await`; the executor threads change a model's `_loaded` at any moment.
* **Waiting without a lock.** An admission that cannot fit gives up the lock and
  waits for a release, bounded by a deadline; the event it waits for is shared
  and cleared by every attempt.
* **Partial failure.** A load or unload may raise half-way through an admission
  that already holds some models and reserved others.
* **Recovery under a lease.** A stuck processor is torn down and its models
  rebound while the lease still holds them.
* **A heap and a lookup that drift apart.** Cancelled entries stay in the heap;
  pending ones are put back; ids come from clients.

What makes each component correct:

* *Arbiter*: a lease's models are resident while it lasts; hold counts and
  transient bytes match the leases; an admission spares its own models; who waits is
  woken; every acquire ends; a failure leaves nothing behind.
* *Budget and policy*: the headroom is kept on both views; the oldest, and no
  more than needed, are evicted; the victims make enough room.
* *Queue*: order; cancelled requests are never served; the lookup finds exactly
  the live requests; the worker never sleeps beside a request it could serve;
  every request leaves.
* *Audio recovery*: what runs on the card has its weights; no inference
  outlives its lease; a model marked loaded is there, also after a failed swap or
  a recreation; each lease ends and its request is answered, whatever hangs.
* *Video*: an upload that blocks the queue is watched and ends; an encode runs under
  its lease only; files belong to requests; each request gets one final message,
  on the connection its client last had confirmed.
* *LLM*: the executor works for the lease holder; a cancellation hits its own
  request; each request is answered, and once; the worker gets done with each.
* *Server*: places are bounded and freed, the books balance however a connection
  ends, no window lets more in than its limit, every handler ends.
* *Whisper models*: what runs fits into the arbiter's fixed reservation and on the card.

Where the code falls short of this, a property states the most that holds and names the
case in which it fails; section 3 lists these. `PROJECT.json` lists the hazards line by
line with the properties that cover them, and says of the three uncovered ones why no
property does.

## 2. Modules

| Module | Models | Used by |
|---|---|---|
| `GpuServer` | `server.py`: connections, authentication, both rate limiters, the message handlers | `MCGpuServer`, `GpuServerProofs` |
| `VideoWorker` | `video_worker.py`, `temp_video_file.py`, the process control of `video_encoder.py`, the video handlers of `server.py`, `update_websocket`; extends `QueueManager` | `MCVideoWorker`, `VideoWorkerProofs` |
| `LlmWorker` | `llm_worker.py`, `llm_processor.py` (generation); extends `QueueManager` | `MCLlmWorker`, `LlmWorkerProofs` |
| `WhisperModels` | `whisper_models.py` | `MCDecisions`, `DecisionsProofs` |
| `VramBudget` | `vram_budget.py`: `can_fit`, `shortfall_bytes`, and what they should mean | `VramArbiter`, `MCRoomPlan`, `VramBudgetProofs` |
| `EvictionPolicy` | `eviction_policy.py`: the loop, and the set it selects | `VramArbiter`, `MCRoomPlan`, `VramBudgetProofs` |
| `GpuLeases` | abstract specification: what a lease promises | instantiated by `VramArbiter` |
| `VramArbiter` | `vram_arbiter.py` with the flags of `resident_model.py` and the rebind of `resident_processor_handle.py` | `MCVramArbiter`, `VramArbiterProofs` |
| `RequestQueue` | abstract specification: a priority queue that may drop | instantiated by `QueueManager` |
| `QueueManager` | `queue_manager.py` with its worker's loop | `MCQueue`, `VideoWorker`, `LlmWorker`, `QueueManagerProofs` |
| `AudioRecovery` | `worker.py` from lease to answer, `base_processor.py`, the operations of the whisper and pyannote processors, `recreate` | `MCAudioRecovery`, `AudioRecoveryProofs` |
| `MCRoomPlan`, `MCDecisions`, `MCVramArbiter`, `MCQueue`, `MCAudioRecovery`, `MCVideoWorker`, `MCLlmWorker`, `MCGpuServer` | instances for TLC; the first two also say what is asked of the decisions | the runs, `DecisionsProofs` |
| `VramBudgetProofs`, `DecisionsProofs`, `VramArbiterProofs`, `QueueManagerProofs`, `AudioRecoveryProofs`, `VideoWorkerProofs`, `LlmWorkerProofs`, `GpuServerProofs` | theorems | – |

The modules fit together at these seams. `VideoWorker` and `LlmWorker` extend
`QueueManager`, so that a worker's step that takes a request, or a handler's that
cancels one, is the queue's own action. `VramArbiter` instantiates `GpuLeases`, which
is all that the workers' modules assume of it: a lease is granted with its models
loaded, or the acquire fails, and no other admission touches a held model. `GpuServer`
sees a queue as the set of ids its lookup finds.

### VramArbiter

A *job* is a worker, which runs one `acquire` at a time. `pc[j]` is the place
where its coroutine stands. Coroutines are not preempted: `running = j` says that
j's code between two awaits is under way, and no other coroutine may step until
j awaits or ends. Executor threads are not bound by it (`ExecutorLoads`,
`ExecutorUnloads`).

| Code | Action |
|---|---|
| top of `acquire`'s loop: clear the event, sample the deadline, take the lock | `BeginAttempt`, `GetLock` |
| `_try_admit`, one turn of the loop over the keys | `HoldKey`, or `MakeRoomForKey` … `LoadKey`, `ExecutorLoads`, `LoadReturns`, `HoldKey` |
| `_try_admit`, the transient bytes | `MakeRoomForTransient` … `GrantWithTransient`, or `GrantWithoutTransient` |
| `_make_room`: early return, reservations, choice | `MakeRoom` (in the three actions that call it) |
| `_make_room`: loop over the reservations | `EvictNext`, `ExecutorUnloads`, `UnloadReturns`; the tail is `CancelReservations` |
| `_load_with_oom_retry` | `LoadRetries`, `LoadFails` |
| return `None`, leave the lock, wait | `BlockOnHeld`, `Park`, `WaitTimesOut` |
| `GpuLease.release` | `Release` |
| `admission_barrier` and `recreate` | `EnterBarrier`, `GetBarrier`, `Rebind` |

The loop of `_make_room` cancels the reservations that stand before a victim
when it reaches them; `EvictNext` does so in the step that starts the victim's
unload, which no other coroutine can tell apart since there is no await between.
`last_used` is kept as a rank. The probe's reading is the true free memory less
what foreign processes use, chosen from `ForeignUse` at each reading; the runs use
0, the proofs any finite or infinite set of naturals. Sizes are estimates and the
estimates are taken to be exact: an out-of-memory load is a choice of the
environment, not computed.

The wait is the one of the deployed Python 3.10 (`environment.yml:9`): up to 3.11
`asyncio.wait_for` wraps the coroutine in a task, which starts one turn of the loop
later. `pc = "parking"` is the gap, in which another attempt may clear the event. Two
variables are history, for the two properties that have an exception: `missed`, the jobs
whose set event another attempt cleared in that gap, until their next attempt; and
`stranded`, the models that a pass left flagged because an unload raised in it, until a
recovery recreates them.

### QueueManager

Entries are numbered in order of arrival. All operations run under the queue's
lock and await nothing there, so each is one action, except `enqueue`, which may
await the client's progress message with the lock held: `sending` then names the
entry whose `enqueue` is not over (`SlowSend`; only the audio queue passes a
callback, see `server.py:808`). `dequeue` drops the cancelled entries it meets,
which `CancelledAheadOf` collects, and then does one of three things:
`DequeueNothing`, `DequeuePending`, `Dequeue`. Clients choose the ids and may use any id
at any time; `again`, a history, marks the requests that arrived under an id of which the
heap held an entry. `Age` lets `request_timeout` pass
for the entries in order of arrival. `Enqueue` takes the id, the priority and whether
data is still to come as parameters, since `VideoWorker` registers the upload in the
same step. Left out: `get_position` (reads only) and `clear` (no caller);
`update_websocket` is in `VideoWorker`.

### AudioRecovery

Three kinds of actors: the audio worker (`pc`), the coroutine `_process_request` it
waits for (`task`), and the executor thread of every processor instance ever made
(`exec`, first come first served, and `busy`). An instance is `<<p, i>>`: processor p
after i recreations, so a shut down one goes on beside its successor.

| Code | Action |
|---|---|
| `_serve`: acquire, lease, task | `TakeRequest`, `EnterAdmission`, `LoadRequired`, `LoadEnds`, `GrantLease` |
| `_process_request`, stage by stage | `TaskStarts`, `SwapReturns`, `CallModel`, `ModelReturns`, `StageEnds`, each from one await to the next; `Advance` is the turn from the end of a stage to the first await of the next |
| `send_progress`, the third failure in a row | `ClientGone` |
| `_transcribe_sync`, `_diarize_sync`, `_extract_embeddings_sync`, `_swap_sync` on the thread | `CallBegins`, `InferenceEnds`, `SwapEnds` |
| `_serve`: result, failed swap | `TaskReturns`, `SwapErrorRaised` |
| `_recover_from_timeout` | `TimesOut`, `CheckIdle`, `IdleWaitEnds`, `EnterBarrier`, the shutdown, `Rebind`, `Discard`; after a failed swap `SwapRecovered` |
| `_cleanup_gpu_memory`, the wait for the GPU | `Synchronized`, from `pc = "sync"` on |
| `shutdown` on a thread of the default executor | `ShutdownSignals`, `ShutdownCloses`, `Drained` or `DrainTimesOut` |

`RecoveryRuns` marks the points where the recovery runs from one await to the
next, so the task cannot step there; the wait for the GPU is one of them, because
`torch.cuda.synchronize` holds up the event loop. The lease ends there too; the answer,
sent after it, is left out. A progress message is an await that may last
for ever. The arbiter is reduced to what `GpuLeases` promises: the lock, loads of
what is required, evictions of what no lease holds. The flags of `shutdown` are
set between two turns of the loop, not in the middle of one. Whether a request
asks for another whisper variant is a free choice unless its own admission built
whisper, which then has the variant asked for. `swallowed` is history: a swap error
was discarded while whisper was marked loaded.

### VideoWorker

No handler of a video request awaits between its change of the uploads and its change
of the queue, because the video queue's lock is never held over a send; so each is one
step. A file is named by the request it was made for: `disk` holds the files that
exist, `upload` what `_pending_uploads` has under each id, `input` what the encode task
holds. A client's connections are numbered.

| Code | Action |
|---|---|
| `_handle_video_encode_request`: upload, full queue, resume | `RequestUpload`, `RejectUpload`, `Resume` (with `UpdateWebsocket`) |
| `_handle_video_data`: a chunk, the empty last one | `ReceiveChunk`, `FinalizeUpload` |
| `_check_upload_timeouts` | `FallSilent` (time), `CheckUploadTimeout` |
| `_handle_cancel` | `HandleCancel` |
| `start`: the loop, its back-off | `TakeRequest`, `SkipCancelled`, `BackOff` |
| `_serve`: lease, wait, answer, delivery, `finally` | `AcquireReturns`, `EncodeReturns`, `Answer`, `SendChunk`, `SendEnd`, `DeliveryBreaks`, `Finish` |
| `_recover_video_timeout` | `EncodeTimesOut`, `IdleWaitEnds`, `CancelTask`, `TaskDrained` |
| `_encode` and the encoder's `encode`, from await to await | `TaskStarts`, `TaskGreets`, `StartFfmpeg`, `TaskSeesExit`, `TaskCloses`, `TaskReaps` |
| the process | `FfmpegExits` |

A request that names a shared file is refused before it reaches the queue: `server.py`
uses `Path` (919, 1061) without importing it, and the handler answers the error (1043).
So every video request is an upload and waits for its data.
Progress messages during the encode neither end nor change it and are left out; the
codec, the command line and the parsing of ffmpeg's output too. `reused` is history:
ids under which a client asked anew while they were in use.

### LlmWorker

`stage` is where `_process` stands, `gen` the coroutine of `generate()`, `job` what it
put on the executor. `OtherEvicts` is another admission that unloads the model while
no lease holds it.

| Code | Action |
|---|---|
| `_run_loop`, `_process` up to the lease | `TakeRequest`, `SkipCancelled`, `AcquireReturns` |
| `generate`: operation begins, job submitted; its result | `GenerateBegins` (with `BeginOperation`), `GenerateReturns` |
| `_generate_sync` on the thread | `JobStarts`, `StreamEnds` |
| `wait_for` of the generation; its timeout; the drain | `WaitReturns`, `TimesOut`, `Drained` |
| the answer, the end of `_process` | `Tell`, `Finish` |

### GpuServer

`at[c]` is the place where connection c's coroutine stands: it runs to its next await,
so that other connections come, vanish and are handled in between. A peer may vanish at
any of them (`Disconnect`); the coroutine learns of it at its next send or receive
(`Ends`, `Raises`).

| Code | Action |
|---|---|
| `_handle_connection`: limit, places | `Connect` (`AtLimit`), `Admit`, `Reply`, and `Ends` or `Raises` with `Forget` |
| `_authenticate` | `AuthSucceeds`, `AuthFails` |
| `_handle_message`: message limiter, dispatch | `Hear`, `TooManyMessages`, `HandleOther` |
| `_handle_process_request`, `_handle_llm_request`, `_handle_video_encode_request`: request limiter, validation, enqueue, progress | `TooManyRequests`, `HandleRequest`, `Enqueue`, `QueueIsFull`, `ProgressSent` |
| `_handle_cancel` | `HandleCancel`, `Cancel` (`FirstQueueWith`) |
| `RateLimitTracker`, `MessageRateLimiter` | `LaterThan`, `Recent`, `Capped`, `MessageAllowed`, `RequestAllowed`, `RecordMessage`, `RecordRequest` |

The clock is discrete and the limiters see its value; `let` and `heard` are histories of
what they let in, without their trimming. The limiters keep their times in the order of
the clock, so what their filter leaves is a tail of the list; `LaterThan` says which
(`LaterThanFilters` proves that it is the filter, `server.py:88-89`).

### WhisperModels

The tables and the three functions of `whisper_models.py`, with one model for the
variants of a size. `MCDecisions` adds `Ceiling` (start-up) and `Run` (what
`transcribe` asks for).

## 3. Runs

| Run | Question | Instance |
|---|---|---|
| `arbiter_safety` | Do the accounts, the residency and the promise hold, with failing loads and unloads, recoveries, forced attempts? When may a reservation outlive its pass, or a job wait without a lease to wake it? | 3 models, 3 jobs as deployed, one need each, card 8; 537 k states |
| `arbiter_liveness` | Does every acquire end, hold or no hold released, wakeup lost or not? | 2 jobs sharing a model, one with a recovery; 31 k states |
| `decisions` | Is the arithmetic right, does the loop take the oldest and enough of them, does the whisper model of a request fit? | all lists of ≤ 3 candidates of sizes 1–2 and ages 0–2, all readings of a card of 6; all models on all cards of 0–7 GB; 132 k states |
| `queue` | The promised order (`RequestQueue`), cancellation, the lookup, when the worker sleeps; does every request leave, unless one that waits for data stays? | 3 requests, 2 ids used at any time, 2 priorities, pending or not, slow sends; 199 k states |
| `audio_recovery` | Through timeouts, failures, stuck calls and evictions: are weights there, does whisper end under its lease, does every lease end unless the GPU hangs? | 2 requests (all stages; transcription only), any residents at the start; 58 k states |
| `video_worker` | Do files, lease, connection and answer stay with their request through timeouts, resumes, cancels, ids in use asked for again and failed deliveries, and which waits end? | 2 requests, 2 clients with 2 connections, uploads and outputs of 1 chunk; 172 k states |
| `llm_worker` | Does the executor work for the lease holder only, does a cancellation hit its own request, is no request answered twice and none but an expired one left without answer? | 3 requests, 2 ids used at any time, evictions in between; 198 k states |
| `server` | Do limit and books hold, do the windows, does each handler end and each place get freed? | 3 connections, limit 2, 2 workloads, 2 messages; 42 k states |
| `lease_outlived` | Does every inference end under its lease? (violated) | as `audio_recovery` |
| `transient_holder` | Is every holder waited for? (violated) | as `arbiter_safety` |
| `queue_stall` | Does the worker sleep only when it must? (violated) | 3 requests |
| `expired_unanswered` | Is a client told that its LLM request expired? (violated) | as `llm_worker` |

**Bounds.** Three jobs are all the workers there are. The card of 8 with sizes
3, 2 and 6 (the LLM's 13 GB halved) is the smallest on which each of these
happens: two models fit and the third does not; one victim is not enough; a
transient alone tips the balance; an admission waits behind a held model; a
forced attempt overcommits. Audio asks for both its models; that it may ask for whisper
only is left to the theorems, which state every property of that run for any needs. `audio` recreates its pyannote processor in that run,
which covers a recreation of some but not all of the models a lease holds. The
liveness instance has two jobs because waiting, barging and forcing already need two;
its jobs share a model, which no two deployed workers do: it is more general there.
Deadlock is checked in all arbiter runs. Queues
stop when their bounded arrivals are served, so their configurations turn the
deadlock check off; three requests are needed for a head, one behind it and one
that is cancelled between them, and two ids let two of them share one. A full queue only
rejects, which the runs of the workers reach. Two audio requests are enough: what a recovery leaves behind,
a marked model or a running call, meets the next request; and since the first may
find any residents on the card, it stands for any later one. Its runs stop after
the second answer, so they turn the deadlock check off.

Two video requests are enough: each hazard is between the request that is served and
one that is queued or takes its id; two connections of a client make one resume; with
one chunk an upload is empty, full, or finalized, and a delivery breaks before, after or
without it. Three LLM requests let one of the same id follow a cancelled one with another
between them. Three connections on two places are one at the limit while one leaves.
The clock of the server run makes one tick: the message window of 1 slides past it and
the request window of 2 does not, so both sides of a window's edge occur; the limiters
remember more entries than the limits, as configured. These runs stop when their
bounded arrivals are served, hence without the deadlock check.

**Fairness.** `FairSpec` of the arbiter: the loop runs every ready callback in
turn, but a job's next step is disabled while another coroutine runs between two
awaits, and `GetLock` can be disabled again and again, hence strong fairness of
a job's own steps (`asyncio.Lock` is first come first served, and `waiters` models
that). Executor calls end (weak fairness). The deadline passes for a job that
comes back again and again to a point where the clock is read (strong fairness,
since it is not enabled in between). Nothing makes a holder release or a worker
ask, so `AcquireEnds` holds even when no lease is ever returned. `FairSpec` of the
queue: the worker's loop runs and each request it serves ends, which the workers'
processing timeouts give, up to the exceptions that the workers' own properties name; a
send to a client ends, which the server does not enforce (`server.py:304-309` turns
keep-alive timeouts off): the run says what holds for clients that read or are gone. The
same is assumed of the sends of all workers and handlers below.

`FairVideoSpec`: the loop runs the worker and its task; a lease is granted or refused by
the arbiter's deadline; the checker looks at the uploads every ten seconds and time
passes for a silent one; a connection takes or refuses what is sent; the timer of a
request ends its encode. Nothing is assumed of ffmpeg, killed or not: `ServingEnds`
names the wait for a killed one that never exits.
`FairLlmSpec`: the same of the loop. Nothing is assumed of the executor: a call into the
model may never return, which `LlmServingEnds` names, and the timer need not strike.
`FairSpec` of the server: a connection
that can go on does; a peer reads what it is sent or is gone; the wait for the
authentication message has a timeout. A silent client that has authenticated may stay
for ever, and does in the model.

`FairSpec` of the recovery: the worker steps when it can, timeouts included; threads begin
their calls and end loads, unloads and swaps; an inference ends unless its
processor is in `Stuck`, which holds whisper in the run. The wait for the GPU returns
if no call that may be stuck is on it (`GpuHangs`): a kernel that ends ends the wait, one
that hangs may hold it for ever, which `EveryLeaseEnds` names. The task itself need not
step. With pyannote stuck as well `EveryLeaseEnds` fails, as a consequence of
`lease_outlived`: a call that outlived its lease blocks the next unload of pyannote,
which holds the admission lock.

**Findings.** Each violation run is a place where the code does something else
than a comment next to it says; `PROJECT.json` "findings" quotes both.

* `_has_held_evictable` does not count transient bytes, so nobody waits for a video
  encode (`transient_holder`).
* A timed out task may begin its next stage while the recovery waits for, or
  recreates, another processor; the flag that should stop it is cleared by
  `_begin_operation`, and its inference outlives the lease (`lease_outlived`).
  `WhisperEndsUnderLease` shows that the first stage cannot.
* A cancelled pending head leaves the worker asleep beside a ready request
  (`queue_stall`). `SleepsBehindCancelledOnly` shows that this is the only way.
* An LLM request that expired in the queue is handed over so that the client can be told
  (`queue_manager.py:208`), marked cancelled, and skipped as such by the worker
  (`llm_worker.py:69-70`): it gets no answer (`expired_unanswered`). `OneAnswerEach` says
  that no other is without one, and would hold of a worker that answers these too.

**Observations.** These came up while modelling. Where a definition is named as failing,
TLC finds the counterexample when it is checked on the instance given; the others are
exceptions that checked properties name.

* On the deployed Python the release event can be cleared between a failed attempt and
  its wait; the waiter then sleeps until its deadline, half an hour
  (`vram_arbiter.py:148,161`), although line 143 says "no lost wakeup".
  `WaitsBesideLease` names this case by `missed` and says that it is the only one;
  `AcquireEnds` still holds, by the deadline.
* A failing unload strands the reservations after it (`vram_arbiter.py:314`): those models
  can be neither used nor evicted until a recovery recreates them, if one does. `NoStrandedReservation`
  names them by `stranded` and says that nothing else leaves a reservation behind.
* After a recovery that replaced a stuck processor, `_cleanup_gpu_memory` waits for the GPU
  on the event loop with the lease held (`worker.py:290,573`). A kernel that never ends
  then holds up the whole server, and the client is not "told PROCESSING_TIMEOUT by the
  caller regardless" (`worker.py:248`). `EveryLeaseEnds` says that no other wait of the
  recovery can last for ever.
* A failed whisper swap is discarded with its timed out task, and the model stays marked
  loaded (`worker.py:287`; `LeasedModelsAreThere` fails in `audio_recovery`).
  `OnlySwallowedSwapBreaksLease`, which the run checks, says that this is the only way
  to a lease whose model is not there.
* A resume is confirmed also when the worker has taken the request and will
  answer on the socket it copied (`server.py:981`; `ServedKnowsItsClient` fails in
  `video_worker`). `QueuedKnowsItsClient` says that queued requests are safe.
* If a killed ffmpeg does not exit, the worker awaits its task without a bound
  (`video_worker.py:462`, `video_encoder.py:243`), and the lease does not "release
  regardless" (`video_worker.py:452`). `ServingEnds` names the case; `EncodesUnderLease`
  holds in it, so the memory stays reserved too.
* A client that cancels a video request and asks again under the id before the cancelled
  entry is dropped loses the new request's lookup entry (`queue_manager.py:184`). Its
  upload then completes, but `mark_data_ready` finds nothing, a complete upload is never
  stale (`video_worker.py:239`), and the request waits in the queue for ever; at its head
  it blocks every request behind it, since the worker looks at the head only. The same
  happens to the earlier of two requests under one id, whose upload and lookup entry the
  later one takes. `PendingEnds` exempts exactly these requests;
  `LookupLostOnlyByReuse` says which can lose their lookup entry.
* `server.py` does not import `Path`: every video request for a shared file is answered
  with INTERNAL_ERROR (919, 1061, 1043).
* The limiters remember 200 requests and 1000 messages, whatever limits are configured
  (`config.py:185,188`); a limit above what is remembered is never reached. `RatesBounded`
  is about limits up to these.
* The validators of the codec options in `validation.py` have no caller, and a JSON message
  that is not an object raises in the dispatch, which ends its connection (`Raises`).

`shortfall_bytes` is counted from an
availability clamped at zero, so on an over-committed card freeing it is not enough:
hence the condition in `VictimsMakeRoom` and in `ShortfallMakesRoom`. Nothing checks that
a client gives a request an id that is free: the queue's, the LLM worker's and the
video worker's models let it. The properties of the video worker about one request's
upload, file and connection exempt such ids by `reused`.

## 4. Proofs

Every invariant and every action property that a passing run checks is stated by a
theorem below, and each refinement by one.

Assumptions: the constants' `ASSUME`s of the modules, and where a theorem needs more, its
own `ASSUME`, which says how a worker uses its queue:

* `LlmImplementsQueue`, `EachIsAnsweredOnce`: `FALSE \in Pendings`, requests may come with
  their data, as all LLM requests do. `WorkerIsSignalled`: `TRUE \notin Pendings`, no
  request waits for data, as in the audio and LLM queues; in the video queue it is false
  (`queue_stall`).

Nothing is assumed of `Jobs` and the registry but that they are finite, nor of sizes,
needs and recoveries beyond their types; nothing of the number of requests, clients,
ids and connections, of what hangs (`Stuck`), what raises, or of the card.
`RequestAssumption` says that a transcription is the first stage of an audio request, as
`_process_request` has it. `RatesBounded` itself says that it is about limits up to what
a limiter remembers.
`HandleAssumption` says that a model that some worker's recovery recreates is not
asked for by another worker: whisper and pyannote belong to the audio worker
alone. Without it, `rebind` would zero the hold of somebody else.

| Theorem | States |
|---|---|
| `TypeCorrect` | `Spec => []TypeOK` |
| `HoldsAreCounted` | `Spec => []HoldAccounting`: a hold count is the number of holders |
| `HeldIsResident` | `Spec => []HeldStaysResident` |
| `OwnModelsAreSpared` | `Spec => []OwnModelsSpared` |
| `ArbiterKeepsPromise` | `Spec => KeepsPromise`: the arbiter implements `GpuLeases` |
| `TransientIsAccounted` | `Spec => []TransientAccounting`: the transient bytes are those of the leases |
| `NothingStaysReserved` | `Spec => []NoStrandedReservation` |
| `WaiterIsWoken` | `Spec => []WaitsBesideLease` |
| `EvictionMakesRoom` | the arbiter's victims make room for a need whenever all idle models together do, unless the card was over-committed |
| `FitsIffHeadroomKept` | a positive need fits exactly when both views keep the headroom |
| `ShortfallMakesRoom` | freeing the shortfall makes room unless the card was over-committed |
| `VictimsCoverShortfall` | the victims free the shortfall whenever all candidates together do |
| `LoopTakesTheVictims` | the sort and loop of `select_victims` take the set of victims of the specification, for any list |
| `NeverOverAdmits` | `DecisionSpec => []FitsIffNotOversubscribing` |
| `OldestAreTaken` | `DecisionSpec => []LoopTakesTheOldest` |
| `EnoughIsEvicted` | `DecisionSpec => []VictimsMakeRoom` |
| `WhisperAlwaysFits` | `DecisionSpec => []WhisperFits` |
| `CancelledIsNeverServed` | `Spec => []CancelledNeverServed` of the queue |
| `LookupIsLostOnlyByReuse` | `Spec => []LookupLostOnlyByReuse` |
| `SleepsOnlyBehindCancelled` | `Spec => []SleepsBehindCancelledOnly` |
| `WorkerIsSignalled` | `Spec => []FirstIsSignalled`, when no request waits for data |
| `QueueKeepsItsOrder` | `Spec => KeepsQueueOrder`: the queue implements `RequestQueue` |
| `TypeCorrect` (audio) | `Spec => []TypeOK` of `AudioRecovery` |
| `NoWeightsFreedUnderCall` | `Spec => []InferenceHasWeights` |
| `WhisperIsLeased` | `Spec => []WhisperEndsUnderLease` |
| `LeasedModelsArePresent` | `Spec => []OnlySwallowedSwapBreaksLease` |
| `ExecutorServesLeaseHolder` | `LlmSpec => []JobIsTheLeaseHolders` |
| `CancellationIsOnesOwn` | `LlmSpec => []CancelsItsOwn` |
| `LlmImplementsQueue` | `LlmSpec => Spec` of `QueueManager`, when requests may come with their data |
| `EachIsAnsweredOnce` | `LlmSpec => []OneAnswerEach`, likewise |
| `EncodeNeedsItsLease` | `VideoSpec => []EncodesUnderLease` |
| `FilesHaveOwners` | `VideoSpec => []FilesBelongToRequests` |
| `VideoImplementsQueue` | `VideoSpec => Spec` of `QueueManager` |
| `PendingIsAlwaysWatched` | `VideoSpec => []PendingIsWatched` |
| `InputStaysThere` | `VideoSpec => []InputStays` |
| `ClientsStayKnown` | `VideoSpec => []QueuedKnowsItsClient` |
| `VideoIsAnsweredOnce` | `VideoSpec => []AnsweredOnce` |
| `ConnectionLimit` | `Spec => []PlacesBounded` of the server |
| `BooksAlwaysBalance` | `Spec => []BooksBalance` |
| `RatesAreBounded` | `Spec => []RatesBounded` |

### Arbiter

The inductive invariant is

    IInv == TypeOK /\ AdmitInv /\ GoalInv /\ HoldsInv /\ PassInv
            /\ OwnModelsSpared /\ HoldAccounting /\ HeldStaysResident

and its parts are needed for this reason. `HeldStaysResident` is threatened by
`ExecutorUnloads`, which clears `_loaded` of a victim: it must be known that a
victim is reserved, that only the pass that owns the lock has victims, and that
a reserved model has no holder. `AdmitInv` says that a job inside an admission
owns the lock, so there is one pass at a time, also against a recovery inside the
barrier. `GoalInv` ties the pass's variables to the owner's place. `PassInv` says
that what the pass reserved is flagged `evicting`, loaded and unprotected.
`HoldsInv` says what each job holds at each place: the models already taken,
disjoint from those still to take, all from its need, nothing when idle.
`HoldAccounting` then turns `try_reserve`'s test on the count into "nobody holds it",
which closes the circle. `HoldAccounting` itself is a statement about
cardinalities: every action changes the holders of a model by one job at most,
and the lemmas `CountWith` and `CountWithout` carry the count along. The proof
of each conjunct has one step per action, grouped by what the action touches.

`ArbiterKeepsPromise` maps a lease to what the job holds less what it recreated
since. A grant maps to `Grant` because everything the job holds is resident
(`CoveredIsHeld`, `GrantIsGrant`); an unload maps to `Evict` because its victim has
no holder; a rebind maps to `Recreate`, where `HandleAssumption` is used; all else
stutters.

`NothingStaysReserved` and `WaiterIsWoken` are inductive beside `IInv`. For the first, every
way out of a pass, but an unload that raises, goes through `CancelReservations` or has
nothing left to cancel. For the second, an attempt blocks only because somebody holds a
model it would have to evict, and nobody but a lease does (`HoldAccounting`, and one
admission at a time); the last lease that goes sets the event, which wakes who sleeps and is
found by who does not sleep yet, unless an attempt clears it first, which is `missed`.
`TransientAccounting` is about a sum over the jobs: a grant
and a release change one summand (`GrantAdds`, `ReleaseSubtracts`).

### Sums, sort and loop

`VramBudgetProofs` is about folds over sets and sequences of any size. The library's
induction theorems cannot be instantiated here, so an induction is an argument about
a smallest counterexample: a set of naturals that is not empty has a least member
(`LeastOf`, from the library's well-founded order), and a claim about finite sets that
fails, fails for a set that no element can be removed from (`MinimalSubset`). A fold is
first shown to satisfy its recursion (`SumIsFold`, `LoopIsFold`; `SumsExist`, `LoopExists`
say that a function that does exists), and then sums grow and shrink with their
sets (`SumWithout`, `SumPicks`, `SumGrows`).

`VictimsCoverShortfall`: the first candidate that is spared has only victims ahead of it,
and it is spared because they cover the shortfall. `LoopTakesTheVictims` has two halves. The sort puts each candidate at
the place one after the number of candidates ahead of it, and the places are all
taken once (`PlacesAreTaken`). The loop then keeps `Covers` (what is freed is the
sum of the first n, as long as they are wanted) and `Takes` (what is taken are those of the first n
whose predecessors do not cover the shortfall); at the end that is the definition of
`Victims`. `DecisionsProofs` applies these to the lists and budgets of the `decisions`
run; there, keys are three, but the theorem about the loop knows no bound.
`WhisperFits` rests on the catalogue: the larger a variant's rank, the larger its model,
and what is asked for is cut at the rank the card allows.

### Queue

The inductive invariant is

    IInv == TypeOK /\ LookupSound /\ LaterCameAgain
            /\ CancelledNeverServed /\ LookupLostOnlyByReuse

`dequeue` removes the lookup entry of an id when it drops a cancelled entry of that id,
without looking whether it is the same request. `LookupSound` says that what the lookup
finds is a live entry of that id; `LaterCameAgain` that of two entries of one id on the heap
the later is marked `again`. Together they say which entry a cancel hits and which lookup
entry a dropped one takes along.
`SleepsBehindCancelledOnly` is proved on top of it: only `Cancel` and `DequeuePending`
can leave the event down beside a first request that is ready, and `AheadIsTotal`
(priority and arrival order any two entries) says what stands before it.
`WorkerIsSignalled` carries the stronger fact that no entry is pending.
`QueueKeepsItsOrder` maps the waiting requests to the live ones, those in the heap that are
not cancelled: `Dequeue` maps to `Take` of the first because all that is ahead of it in the
heap was cancelled, `Cancel` maps to `Drop`, and removing cancelled entries to a stutter.

### Audio recovery

    IInv == TypeInv /\ ShapeInv /\ GenInv /\ TaskInv /\ CallInv /\ MoveInv
            /\ LeaseInv /\ WeightInv /\ RecoveryInv /\ RaisedInv /\ ResidentInv

is one invariant for the three theorems. Two facts carry it. `CallInv` says what can be
in a thread's queue: of the request in service, the one call its task waits for; of earlier
requests, only a call that has begun, and never on the whisper in service. `MoveInv` says
that at most one load or unload is under way at a time, and an unload is of what the
lease does not hold (`LeaseInv`: a lease holds all it requires that is loaded).
Together they give `WeightInv`: the weights of a call are there and no unload stands
before it in the queue. The rest is bookkeeping these need: an instance is replaced
at most once in a request (`GenInv`), so a closed one is never in service again
(`ShapeInv`); the task operates on one instance at a time (`TaskInv`).

`WhisperIsLeased` needs `RecoveryInv`: once the recovery has seen whisper idle, the task is
past its transcription, which is the first stage, and cannot come back; and a whisper that
does not go idle is recreated before the lease ends. For pyannote there are two stages,
which is why `lease_outlived` is violated. `ResidentInv` says that what is marked loaded
is there, and names the exceptions: between the shutdown and the rebind, during a swap,
and after a failed one that was discarded (`swallowed`); `RaisedInv` says that a failed
swap whose error was raised has whisper replaced before the lease ends. While the recovery
waits for the GPU there is no task any more, so what relates calls to the request in service
is said of the rest of the lease (`Serving`).

### LLM worker

`JobInv` ties three coroutines together: `generate()` exists exactly while the worker
waits for it, its job only while `generate()` waits for that, and the cancel flag is down
while the request is in time. The drain makes it inductive: the worker leaves "draining"
only when the generation has ended, so the executor is empty when the lease is
released. It holds also when a call into the model never returns. `LlmImplementsQueue`
shows each step of the worker and its handlers to be a step of `QueueManager` or a
stutter, so that `QueueInvariant` carries over; `EachIsAnsweredOnce` needs it for "a
request is handed over once", and adds `AnswerInv`, which counts the answers by what is
known of a request. Both assume `FALSE \in Pendings`: LLM requests come with their data.

### Video

`EncodeInv` says that the task exists exactly under the lease, that a process exists
only where the task waits for one, and that a task reaps a killed process only while the
worker drains it. The last part is why the second cancellation, which the recovery sends
when `wait_for_idle` gives up, cannot drop a process. No assumption on exits is made.

`FileInv` is for the files. `UploadsOwned` says that an upload registered under an id is
that of a request of this id which is queued, served, or lost its output file;
`FilesKnown` that each file is registered or held by the task. Both handlers that remove
a request from the queue and clean-ups go by id, so the argument needs that what the
queue's lookup finds under an id has that id (`LookupSound`, here without any
assumption on how ids arrive): a cancel or clean-up of one id then touches no owner of an
upload of another.

`ServiceInv` says that an id in use names one request, the one the lookup finds. With it
`InputInv` says that a queued or served request whose data comes over the websocket owns
the upload registered under its id, complete exactly when it waits for no data, with its
file on the disk, and that the encode reads that file. `PendingIsWatched` and
`InputStays` follow. `ClientInv` is `QueuedKnowsItsClient` with the shape of its lists; a
resume moves the socket and the promise of the entry the lookup finds, so it needs
`ServiceInv` too. All three except the ids in `reused`, whose uploads and lookup entry the later
request takes over. `ReplyInv` counts the answers by the stage of the worker (`SentInv`):
nothing is sent before the outcome is known, a delivery streams chunks and no
final message, and a finished request's last message is its only final one.

`VideoImplementsQueue` is the counterpart of `LlmImplementsQueue`, for any use of ids.

### Server

`IInv` is the type of `at`, `BooksBalance` and `PlacesBounded`. The limit alone is not
inductive: a connection becomes a client without looking at the limit again, and only the
balance says that it had a place among the pending until then.

`RatesAreBounded` relates each limiter's list to the history of all it ever let in
(`Counts`): the list is the tail of the history that contains every time within the
window (`Remembers`), and any entry and the one `limit` places before it are a window
apart (`Spaced`), so that no stretch of a window's length has more than `limit`
(`SpacingBounds`). The cap on the lists does not cut into the window as long as the limit is
not above it, which is the property's condition.

### What is only model-checked

Liveness under fairness is out of the prover's reach: `AcquireEnds`, `EveryRequestLeaves`,
`EveryLeaseEnds`, `PendingEnds`, `ServingEnds`, `LlmServingEnds`, `HandlerEnds` and
`PlaceIsFreed` are checked on the instances above. So are the four violations, where a
counterexample is the result. That the bounded instances reach what they are meant to
(a second victim, a forced attempt, a full queue, both edges of a window) is TLC's to show
as well.

## 5. Not modelled

* *Start and stop* of the server and of the workers: the process ends with them,
  and nothing is persisted that a restart could find but orphaned temporary files, which
  the audio worker removes when it starts (`worker.py:109`).
* *Message formats and validation* (`protocol.py`, `binary_protocol.py`, `validation.py`):
  pure parsing; the server's model takes from it that a message is valid, is refused,
  or raises.
* *Configuration, logging, driver queries, model hub access, start-up*: I/O.
* *Inference*, audio conversion, alignment of speakers, the ffmpeg command line
  and the parsing of its progress: library calls and numeric code; the models say when
  such a call begins, ends, fails, or never returns.
* *Output files* of encodes and the wiped audio file: each lives within one call of one
  owner. *Backoff*: the models take any delay.
* `ResidentModel`'s epoch fence and load lock: loads, unloads and rebinds all run
  under the admission lock, so neither is ever needed in the server.
* A factory that raises in `recreate`: the handle then keeps the shut down processor.
