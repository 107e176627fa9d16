----------------------------- MODULE VideoWorker -----------------------------
(***************************************************************************)
(* Video requests from the message handlers of the server (server.py) over *)
(* their uploads (video_worker.py, utils/temp_video_file.py) and the video *)
(* queue to the worker, its encode task, the ffmpeg process                *)
(* (processors/video_encoder.py) and the answer.  The queue is module      *)
(* QueueManager.  Its lock never awaits for video requests, so a handler   *)
(* that changes an upload and the queue does so in one step; the worker    *)
(* and its task run between any two of their awaits.                       *)
(*                                                                         *)
(* A file is named by the request it was made for.  A client is named by   *)
(* its request id, and its connections are numbered; what is sent on an    *)
(* old connection is lost or raises.  A client may ask under any id at any *)
(* time.  A request for a file on the shared filesystem never gets here:   *)
(* server.py does not import the Path it validates such a file with, and   *)
(* answers with an internal error.  Stopping the server is left out.       *)
(***************************************************************************)
EXTENDS QueueManager

CONSTANTS
    MaxConns,    \* bound: connections of one client
    MaxChunks    \* bound: chunks of an upload and of an output

\* The requests of this queue are enqueued before their data.
ASSUME VideoAssumption ==
    MaxConns \in Nat \ {0} /\ MaxChunks \in Nat \ {0} /\ TRUE \in Pendings

VARIABLES
    upload,     \* _pending_uploads, under each id
    disk,       \* the input files that exist
    socket,     \* the websocket of each queued request: a connection
    conn,       \* the number of each client's last connection
    stage,      \* where _serve of the current request stands
    websocket,  \* the connection _serve answers on
    task,       \* where the encode task stands
    input,      \* the file the encode task holds, or None
    ffmpeg,     \* the process of the encode task
    outcome,    \* what _serve will answer
    promised,   \* history: the connection a request was last confirmed on
    reused,     \* history: ids asked for again while in use
    dropped,    \* history: requests whose output file could not be made
    sent        \* history: what was sent about each request

queueVars   == <<entry, heap, requests, notEmpty, sending, current, handed, aged>>
uploadVars  == <<upload, disk>>
clientVars  == <<socket, conn, promised, reused>>
encodeVars  == <<task, input, ffmpeg>>
workerVars  == <<stage, websocket, outcome, dropped, sent>>
videoVars   == <<queueVars, uploadVars, clientVars, encodeVars, workerVars>>

Requests == 1..MaxEnqueues
NoUpload == [by |-> None, size |-> 0, complete |-> FALSE, silent |-> FALSE]

Registered(i) == upload[i] # NoUpload
InUse(i) ==
    Registered(i) \/ \E o \in heap \cup {current} : o # None /\ entry[o].id = i
-----------------------------------------------------------------------------
(* The pending uploads: video_worker.py and utils/temp_video_file.py *)

\* register_upload(): a new file takes the place of another; that one is
\* deleted with its last reference, which the encode task may hold.
Register(i, o) ==
    /\ upload' = [upload EXCEPT ![i] = [NoUpload EXCEPT !.by = o]]
    /\ disk' = (disk \ ({upload[i].by} \ {input})) \cup {o}

CleanUp(i) ==
    /\ upload' = [upload EXCEPT ![i] = NoUpload]
    /\ disk' = disk \ {upload[i].by}

\* The encode task has ended and holds its input no longer.
LetGoOfInput ==
    /\ input' = None
    /\ disk' = disk \ ({input} \ {upload[i].by : i \in Ids})
    /\ UNCHANGED upload

\* append() refuses what comes for a finalized file or beyond the size limit.
TakesData(i) == ~upload[i].complete /\ upload[i].size < MaxChunks

\* finalize() refuses a file without data, and is idempotent.
HasData(i) == upload[i].size > 0

\* A chunk of data of a known upload.
ReceiveChunk(i) ==
    /\ Registered(i) /\ TakesData(i)
    /\ upload' = [upload EXCEPT ![i].size = @ + 1, ![i].silent = FALSE]
    /\ UNCHANGED <<disk, queueVars, clientVars, encodeVars, workerVars>>

\* Mutated form: the queue is not told.
FinalizeOnly(i) ==
    /\ Registered(i) /\ HasData(i)
    /\ upload' = [upload EXCEPT ![i].complete = TRUE]
    /\ UNCHANGED <<disk, queueVars, clientVars, encodeVars, workerVars>>

\* The empty final frame: the upload is complete, now or before, and its
\* request ready if the queue still finds it.
FinalizeUpload(i) ==
    /\ Registered(i) /\ HasData(i)
    /\ upload' = [upload EXCEPT ![i].complete = TRUE]
    /\ IF requests[i] # None THEN MarkDataReady(i) ELSE UNCHANGED queueVars
    /\ UNCHANGED <<disk, clientVars, encodeVars, workerVars>>

HandleVideoData(i) == ReceiveChunk(i) \/ FinalizeUpload(i)

\* data_upload_timeout has passed since the last write.
FallSilent(i) ==
    /\ Registered(i) /\ ~upload[i].complete /\ ~upload[i].silent
    /\ upload' = [upload EXCEPT ![i].silent = TRUE]
    /\ UNCHANGED <<disk, queueVars, clientVars, encodeVars, workerVars>>

\* Mutated form: the queue keeps the request.
CheckUploadOnly(i) ==
    /\ upload[i].silent /\ ~upload[i].complete
    /\ CleanUp(i)
    /\ UNCHANGED <<queueVars, clientVars, encodeVars, workerVars>>

\* _check_upload_timeouts() finds a stale upload; the client is not told.
CheckUploadTimeout(i) ==
    /\ upload[i].silent /\ ~upload[i].complete
    /\ CleanUp(i)
    /\ IF requests[i] # None THEN Cancel(i) ELSE UNCHANGED queueVars
    /\ UNCHANGED <<clientVars, encodeVars, workerVars>>
-----------------------------------------------------------------------------
(* The message handlers: server.py *)

\* The request just queued is confirmed on its client's connection.
Confirm(i) ==
    /\ socket' = [socket EXCEPT ![Len(entry')] = conn[i]]
    /\ promised' = [promised EXCEPT ![Len(entry')] = conn[i]]
    /\ reused' = IF InUse(i) THEN reused \cup {i} ELSE reused
    /\ UNCHANGED conn

\* A request whose data will come over the websocket.
RequestUpload(i) ==
    /\ \E p \in Priorities : Enqueue(i, p, TRUE)
    /\ Register(i, Len(entry'))
    /\ Confirm(i)
    /\ UNCHANGED <<encodeVars, workerVars>>

\* The same in front of a full queue: what was registered before it under its
\* id is gone too.
RejectUpload(i) ==
    /\ Registered(i) /\ Cardinality(heap) >= MaxSize
    /\ upload' = [upload EXCEPT ![i] = NoUpload]
    /\ disk' = disk \ ({upload[i].by} \ {input})
    /\ reused' = reused \cup {i}
    /\ UNCHANGED <<queueVars, socket, conn, promised, encodeVars, workerVars>>

\* Mutated form: the entry keeps the connection it came on.
KeepWebsocket(i, c) == UNCHANGED socket

\* update_websocket(): the queue no longer finds a request the worker took.
UpdateWebsocket(i, c) ==
    socket' = IF requests[i] = None THEN socket ELSE [socket EXCEPT ![requests[i]] = c]

\* A client is back on a new connection and names the size the server has; the
\* resume is confirmed whatever update_websocket found.
Resume(i) ==
    /\ Registered(i) /\ HasData(i) /\ conn[i] < MaxConns
    /\ conn' = [conn EXCEPT ![i] = @ + 1]
    /\ UpdateWebsocket(i, conn'[i])
    /\ promised' = [promised EXCEPT ![upload[i].by] = conn'[i]]
    /\ UNCHANGED <<queueVars, uploadVars, reused, encodeVars, workerVars>>

\* What the checks before it refuse leaves no trace but in the rate limiter.
HandleVideoEncodeRequest(i) ==
    RequestUpload(i) \/ RejectUpload(i) \/ Resume(i)

\* Mutated form: deletes the upload also when the queue knows no such request.
CancelAnything(i) ==
    /\ IF requests[i] # None THEN Cancel(i) ELSE UNCHANGED queueVars
    /\ CleanUp(i)
    /\ UNCHANGED <<clientVars, encodeVars, workerVars>>

\* _handle_cancel() of a request the video queue finds.
HandleCancel(i) ==
    /\ Cancel(i)
    /\ CleanUp(i)
    /\ UNCHANGED <<clientVars, encodeVars, workerVars>>
-----------------------------------------------------------------------------
(* The encode task: VideoWorker._encode and VideoEncoderProcessor.encode *)

Processing == task \in {"preparing", "running", "closing", "reaping"}

\* The task has ended with this outcome, which _serve finds.
TaskEnds(result) == task' = "done" /\ outcome' = result

\* _encode() looks for its input.
TaskStarts ==
    /\ task = "new"
    /\ IF upload[entry[current].id].complete
       THEN task' = "greeting" /\ input' = upload[entry[current].id].by /\ UNCHANGED outcome
       ELSE TaskEnds("failure") /\ UNCHANGED input
    /\ UNCHANGED <<queueVars, uploadVars, clientVars, ffmpeg, stage, websocket, dropped, sent>>

\* Its first progress message went out; there may be no codec to encode with.
TaskGreets ==
    /\ task = "greeting"
    /\ \/ task' = "preparing" /\ UNCHANGED outcome
       \/ TaskEnds("failure")
    /\ UNCHANGED <<queueVars, uploadVars, clientVars, input, ffmpeg, stage, websocket, dropped, sent>>

\* The process is started, or cannot be.
StartFfmpeg ==
    /\ task = "preparing"
    /\ \/ task' = "running" /\ ffmpeg' = "alive" /\ UNCHANGED outcome
       \/ TaskEnds("failure") /\ UNCHANGED ffmpeg
    /\ UNCHANGED <<queueVars, uploadVars, clientVars, input, stage, websocket, dropped, sent>>

FfmpegExits ==
    /\ ffmpeg' \in (CASE ffmpeg = "alive" -> {"ok", "failed"} [] ffmpeg = "killed" -> {"failed"}
                      [] OTHER -> {})
    /\ UNCHANGED <<queueVars, uploadVars, clientVars, task, input, workerVars>>

\* The task reads the end of the output and the exit code, and when it was
\* good tells the client that the encoding is complete.
TaskSeesExit ==
    /\ task = "running" /\ ffmpeg \in {"ok", "failed"}
    /\ ffmpeg' = "none"
    /\ IF ffmpeg = "ok" THEN task' = "closing" /\ UNCHANGED outcome ELSE TaskEnds("failure")
    /\ UNCHANGED <<queueVars, uploadVars, clientVars, input, stage, websocket, dropped, sent>>

TaskCloses ==
    /\ task = "closing"
    /\ TaskEnds("success")
    /\ UNCHANGED <<queueVars, uploadVars, clientVars, input, ffmpeg, stage, websocket, dropped, sent>>

\* A cancelled task has killed ffmpeg and awaits its exit.
TaskReaps ==
    /\ task = "reaping" /\ ffmpeg \in {"ok", "failed"}
    /\ ffmpeg' = "none"
    /\ TaskEnds("failure")
    /\ UNCHANGED <<queueVars, uploadVars, clientVars, input, stage, websocket, dropped, sent>>

TaskStep == TaskStarts \/ TaskGreets \/ StartFfmpeg \/ TaskSeesExit \/ TaskCloses \/ TaskReaps
-----------------------------------------------------------------------------
(* The worker: VideoWorker.start and _serve *)

\* wait_for_request() hands over a request: it waited too long, or _serve
\* takes its connection and makes its output file, outside its try block.
TakeRequest ==
    /\ stage = "idle" /\ Dequeue
    /\ websocket' = socket[current']
    /\ IF entry'[current'].timeoutExpired
       THEN stage' = "expired" /\ UNCHANGED dropped
       ELSE \/ stage' = "acquiring" /\ UNCHANGED dropped
            \/ stage' = "backoff" /\ dropped' = dropped \cup {current'}
    /\ UNCHANGED <<uploadVars, clientVars, encodeVars, outcome, sent>>

SkipCancelled ==
    /\ DequeueNothing \/ DequeuePending
    /\ UNCHANGED <<uploadVars, clientVars, encodeVars, workerVars>>

\* The exception of _serve ends in start(), which goes on after a pause.
BackOff ==
    /\ stage = "backoff" /\ WorkerDone
    /\ stage' = "idle"
    /\ UNCHANGED <<uploadVars, clientVars, encodeVars, websocket, outcome, dropped, sent>>

\* The arbiter grants the transient reservation, or acquire raises.
AcquireReturns ==
    /\ stage = "acquiring"
    /\ \/ stage' = "encoding" /\ task' = "new" /\ UNCHANGED outcome
       \/ stage' = "answering" /\ outcome' = "failure" /\ UNCHANGED task
    /\ UNCHANGED <<queueVars, uploadVars, clientVars, input, ffmpeg, websocket, dropped, sent>>

\* The lease is released, and only then is anything sent.
EncodeReturns ==
    /\ stage = "encoding" /\ task = "done"
    /\ stage' = "answering" /\ task' = "none"
    /\ LetGoOfInput
    /\ UNCHANGED <<queueVars, clientVars, ffmpeg, websocket, outcome, dropped, sent>>

\* Mutated form: leaves the process to end by itself.
LeaveFfmpeg == UNCHANGED ffmpeg

\* encoder.cancel() kills the process once there is one.
KillFfmpeg == ffmpeg' = IF task = "running" /\ ffmpeg = "alive" THEN "killed" ELSE ffmpeg

\* Mutated form: does not wait for the process.
DropTask == task' = "done" /\ UNCHANGED ffmpeg

\* task.cancel(): the task ends where it waits, but with a process it has yet
\* to kill it and wait for its exit.
CancelTask ==
    IF task = "running"
    THEN task' = "reaping" /\ KillFfmpeg
    ELSE task' = "done" /\ UNCHANGED ffmpeg

\* The processing timeout cancels the encoder.  One that is not processing is
\* idle at once, else it is waited for.
EncodeTimesOut ==
    /\ stage = "encoding" /\ task # "done"
    /\ IF Processing
       THEN stage' = "recovering" /\ KillFfmpeg /\ UNCHANGED task
       ELSE stage' = "draining" /\ CancelTask
    /\ UNCHANGED <<queueVars, uploadVars, clientVars, input, websocket, outcome, dropped, sent>>

\* wait_for_idle() returns, whether the encoder went idle or 30 s have passed.
IdleWaitEnds ==
    /\ stage = "recovering"
    /\ stage' = "draining" /\ CancelTask
    /\ UNCHANGED <<queueVars, uploadVars, clientVars, input, websocket, outcome, dropped, sent>>

\* The cancelled task has ended, and the lease is released.
TaskDrained ==
    /\ stage = "draining" /\ task = "done"
    /\ stage' = "answering" /\ outcome' = "timeout" /\ task' = "none"
    /\ LetGoOfInput
    /\ UNCHANGED <<queueVars, clientVars, ffmpeg, websocket, dropped, sent>>

Tell(message, next) ==
    /\ sent' = [sent EXCEPT ![current] = Append(@, message)]
    /\ stage' = next

Answer ==
    /\ \/ stage = "expired" /\ Tell("expired", "finishing")
       \/ /\ stage = "answering" /\ outcome # "success"
          /\ Tell(outcome, "finishing")
       \/ /\ stage = "answering" /\ outcome = "success"
          /\ Tell("success", "streaming")
    /\ UNCHANGED <<queueVars, uploadVars, clientVars, encodeVars, websocket, outcome, dropped>>

Chunks(s) == Len(SelectSeq(s, LAMBDA x : x = "chunk"))

SendChunk ==
    /\ stage = "streaming" /\ Chunks(sent[current]) < MaxChunks
    /\ Tell("chunk", "streaming")
    /\ UNCHANGED <<queueVars, uploadVars, clientVars, encodeVars, websocket, outcome, dropped>>

SendEnd ==
    /\ stage = "streaming"
    /\ Tell("end", "finishing")
    /\ UNCHANGED <<queueVars, uploadVars, clientVars, encodeVars, websocket, outcome, dropped>>

\* Mutated form: ends the stream and goes on to report the failure.
EndBrokenDelivery ==
    /\ stage = "streaming"
    /\ sent' = [sent EXCEPT ![current] = @ \o <<"end", "failure">>]
    /\ stage' = "finishing"
    /\ UNCHANGED <<queueVars, uploadVars, clientVars, encodeVars, websocket, outcome, dropped>>

\* A read of the output or a send raises: _serve reports a failure after all.
DeliveryBreaks ==
    /\ stage = "streaming"
    /\ Tell("failure", "finishing")
    /\ UNCHANGED <<queueVars, uploadVars, clientVars, encodeVars, websocket, outcome, dropped>>

\* Mutated form: leaves the input file to the upload timeout.
FinishKeepingUpload ==
    /\ stage = "finishing"
    /\ WorkerDone
    /\ stage' = "idle" /\ outcome' = "none" /\ websocket' = None
    /\ UNCHANGED <<uploadVars, clientVars, encodeVars, dropped, sent>>

\* The finally block: the upload now registered under the id is cleaned up.
Finish ==
    /\ stage = "finishing"
    /\ CleanUp(entry[current].id)
    /\ WorkerDone
    /\ stage' = "idle" /\ outcome' = "none" /\ websocket' = None
    /\ UNCHANGED <<clientVars, encodeVars, dropped, sent>>

ServeStep ==
    \/ TakeRequest \/ SkipCancelled \/ BackOff
    \/ AcquireReturns \/ EncodeReturns \/ IdleWaitEnds \/ TaskDrained
    \/ Answer \/ SendChunk \/ SendEnd \/ DeliveryBreaks \/ Finish
-----------------------------------------------------------------------------
VideoInit ==
    /\ Init
    /\ upload = [i \in Ids |-> NoUpload] /\ disk = {}
    /\ socket = [o \in Requests |-> None] /\ promised = socket
    /\ conn = [i \in Ids |-> 1]
    /\ stage = "idle" /\ websocket = None /\ outcome = "none"
    /\ task = "none" /\ input = None /\ ffmpeg = "none"
    /\ reused = {} /\ dropped = {}
    /\ sent = [o \in Requests |-> <<>>]

RequestAges == Age /\ UNCHANGED <<uploadVars, clientVars, encodeVars, workerVars>>

VideoNext ==
    \/ \E i \in Ids :
        \/ HandleVideoEncodeRequest(i) \/ HandleVideoData(i) \/ HandleCancel(i)
        \/ FallSilent(i) \/ CheckUploadTimeout(i)
    \/ RequestAges
    \/ TaskStep \/ FfmpegExits \/ EncodeTimesOut
    \/ ServeStep

VideoSpec == VideoInit /\ [][VideoNext]_videoVars

\* Time passes for an upload that gets no data and the checker looks every ten
\* seconds; the loop runs the worker and its task, and its timer ends an encode
\* that goes on; a lease is granted by the arbiter's deadline and a connection
\* takes or refuses what is sent.  Nothing is assumed of ffmpeg: also one that
\* was killed may never exit.
FairVideoSpec ==
    /\ VideoSpec
    /\ \A i \in Ids : WF_videoVars(FallSilent(i)) /\ WF_videoVars(CheckUploadTimeout(i))
    /\ WF_videoVars(TaskStep) /\ WF_videoVars(ServeStep) /\ WF_videoVars(EncodeTimesOut)
-----------------------------------------------------------------------------
(* Properties *)

Leased == stage \in {"encoding", "recovering", "draining"}

VideoTypeOK ==
    /\ upload \in [Ids -> [by : Requests \cup {None}, size : 0..MaxChunks,
                           complete : BOOLEAN, silent : BOOLEAN]]
    /\ disk \subseteq Requests /\ dropped \subseteq Requests
    /\ reused \subseteq Ids /\ conn \in [Ids -> 1..MaxConns]
    /\ socket \in [Requests -> 0..MaxConns] /\ promised \in [Requests -> 0..MaxConns]
    /\ websocket \in 0..MaxConns /\ input \in Requests \cup {None}
    /\ (stage = "idle") = (current = None)
    /\ (task # "none") = Leased
    /\ ffmpeg \in {"none", "alive", "killed", "ok", "failed"}
    /\ outcome \in {"none", "success", "failure", "timeout"}

\* A queued request that waits for its data has an upload that the timeout
\* checker watches (video_worker.py:231 "Periodically check for stale uploads
\* and cancel them"), unless its client asked again under the id while it was in
\* use.
PendingIsWatched ==
    \A o \in Live : LET i == entry[o].id IN
        entry[o].pending /\ i \notin reused => upload[i].by = o /\ ~upload[i].complete

\* An encode runs only under the lease that reserves its memory, also when it
\* is killed, cancelled before it starts, or slow to die (video_worker.py:297
\* "Lease (and the transient NVENC reservation) RELEASED here").
EncodesUnderLease == ffmpeg # "none" => Leased

\* ffmpeg reads the file its own request uploaded, and no handler, timeout
\* check or clean-up deletes it meanwhile, unless its client reuses the id.
InputStays ==
    ffmpeg # "none" /\ entry[current].id \notin reused =>
        input = current /\ input \in disk

\* An input file belongs to a queued or running request; what may be left
\* behind is that of a request whose output file could not be made.
FilesBelongToRequests ==
    \A o \in disk : o \in Live \cup dropped \cup {current, input}

Final == {"end", "failure", "timeout", "expired"}

\* Every request the worker is done with got one final message, the last one
\* sent about it; none goes without but those whose output file could not be
\* made, which happens outside the block that answers (video_worker.py:272-278).
AnsweredOnce ==
    \A o \in handed :
        /\ \A k \in DOMAIN sent[o] : sent[o][k] \in Final => k = Len(sent[o])
        /\ o # current /\ o \notin dropped =>
            sent[o] # <<>> /\ sent[o][Len(sent[o])] \in Final

\* A queued request will be answered on the connection its client last had
\* confirmed (queue_manager.py:260 "for resume after reconnect").
QueuedKnowsItsClient ==
    \A o \in Live : entry[o].id \notin reused => socket[o] = promised[o]

\* The same of the request the worker serves.
ServedKnowsItsClient ==
    current # None => websocket = promised[current]

\* A request that waits for its data becomes ready or is cancelled, as long as
\* the queue finds it under its id and no other request of the id has taken its
\* upload away.  A client that asks again under an id in use does one or both,
\* also after a cancel, whose entry dequeue forgets by id (queue_manager.py:184):
\* then nothing may end the wait, for a complete upload is never stale
\* (video_worker.py:239), and a request that waits at the head of the queue blocks
\* it for ever.
PendingEnds ==
    \A o \in Requests :
        LET i == entry[o].id
            waits == o \in Live /\ entry[o].pending
            lost == requests[i] # o \/ (i \in reused /\ upload[i].by # o)
        IN  waits ~> (~waits \/ lost)

\* The worker gets done with every request it takes, unless it waits for the
\* exit of a killed ffmpeg that never comes: of that case the promise of
\* video_worker.py:452, "the lease releases regardless", does not hold, because
\* the cancelled task is awaited without a bound (462).
ServingEnds ==
    \A o \in Requests :
        (current = o) ~> (current # o \/ [](task = "reaping" /\ ffmpeg = "killed"))
=============================================================================
