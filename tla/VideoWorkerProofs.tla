-------------------------- MODULE VideoWorkerProofs --------------------------
(***************************************************************************)
(* For any number of requests, connections and chunks, any reuse of ids,   *)
(* and also when a killed process never exits: the memory of an encode is  *)
(* reserved as long as its process lives, and an input file belongs to a   *)
(* request.  The video queue is used as module QueueManager allows, as     *)
(* long as clients ask under ids that are free.  The second half is what a *)
(* client relies on: a request that waits for its data is watched, its     *)
(* input is there while it is encoded, it is answered once, and on the     *)
(* connection its client last had confirmed.  An id asked for again while  *)
(* it is in use voids the first, the second and the last of these.         *)
(***************************************************************************)
EXTENDS VideoWorker, QueueManagerProofs

\* Between lease and process stands the task: it is there exactly while the
\* lease is held, and only where it waits for its process is there one.  That a
\* task is reaped only once the lease waits for nothing else keeps the second
\* cancellation, at the end of the recovery, from dropping the process.
EncodeInv ==
    /\ (task # "none") = Leased
    /\ ffmpeg # "none" => task \in {"running", "reaping"}
    /\ task = "reaping" => stage = "draining"

LEMMA HandlersKeepEncode ==
  ASSUME EncodeInv, UNCHANGED <<stage, task, ffmpeg>>
  PROVE  EncodeInv'
BY DEF EncodeInv, Leased

LEMMA TaskKeepsEncode ==
  ASSUME EncodeInv, TaskStep \/ FfmpegExits
  PROVE  EncodeInv'
<1>1. CASE TaskStarts
  BY <1>1 DEF TaskStarts, TaskEnds, EncodeInv, Leased
<1>2. CASE TaskGreets
  BY <1>2 DEF TaskGreets, TaskEnds, EncodeInv, Leased
<1>3. CASE StartFfmpeg
  BY <1>3 DEF StartFfmpeg, TaskEnds, EncodeInv, Leased
<1>4. CASE TaskSeesExit
  BY <1>4 DEF TaskSeesExit, TaskEnds, EncodeInv, Leased
<1>5. CASE TaskCloses
  BY <1>5 DEF TaskCloses, TaskEnds, EncodeInv, Leased
<1>6. CASE TaskReaps
  BY <1>6 DEF TaskReaps, TaskEnds, EncodeInv, Leased
<1>7. CASE FfmpegExits
  <2>1. ffmpeg # "none" /\ UNCHANGED <<stage, task>>
    BY <1>7 DEF FfmpegExits, workerVars
  <2> QED
    BY <2>1 DEF EncodeInv, Leased
<1> QED
  BY <1>1, <1>2, <1>3, <1>4, <1>5, <1>6, <1>7 DEF TaskStep

LEMMA ServeKeepsEncode ==
  ASSUME EncodeInv, ServeStep \/ EncodeTimesOut
  PROVE  EncodeInv'
<1>1. CASE TakeRequest
  BY <1>1 DEF TakeRequest, encodeVars, EncodeInv, Leased
<1>2. CASE SkipCancelled
  BY <1>2, HandlersKeepEncode DEF SkipCancelled, encodeVars, workerVars
<1>3. CASE BackOff
  BY <1>3 DEF BackOff, encodeVars, EncodeInv, Leased
<1>4. CASE AcquireReturns
  BY <1>4 DEF AcquireReturns, EncodeInv, Leased
<1>5. CASE EncodeReturns
  BY <1>5 DEF EncodeReturns, EncodeInv, Leased
<1>6. CASE EncodeTimesOut
  BY <1>6 DEF EncodeTimesOut, CancelTask, KillFfmpeg, Processing, EncodeInv, Leased
<1>7. CASE IdleWaitEnds
  BY <1>7 DEF IdleWaitEnds, CancelTask, KillFfmpeg, EncodeInv, Leased
<1>8. CASE TaskDrained
  BY <1>8 DEF TaskDrained, EncodeInv, Leased
<1>9. CASE Answer \/ SendChunk \/ SendEnd \/ DeliveryBreaks
  BY <1>9 DEF Answer, SendChunk, SendEnd, DeliveryBreaks, Tell, encodeVars, EncodeInv, Leased
<1>10. CASE Finish
  BY <1>10 DEF Finish, encodeVars, EncodeInv, Leased
<1> QED
  BY <1>1, <1>2, <1>3, <1>4, <1>5, <1>6, <1>7, <1>8, <1>9, <1>10 DEF ServeStep

LEMMA EncodeInvariant == VideoSpec => []EncodeInv
<1>1. VideoInit => EncodeInv
  BY DEF VideoInit, EncodeInv, Leased
<1>2. EncodeInv /\ [VideoNext]_videoVars => EncodeInv'
  <2> SUFFICES ASSUME EncodeInv, [VideoNext]_videoVars PROVE EncodeInv'
    OBVIOUS
  <2>1. ASSUME NEW i \in Ids,
               \/ HandleVideoEncodeRequest(i) \/ HandleVideoData(i) \/ HandleCancel(i)
               \/ FallSilent(i) \/ CheckUploadTimeout(i)
        PROVE  EncodeInv'
    BY <2>1, HandlersKeepEncode
       DEF HandleVideoEncodeRequest, HandleVideoData, RequestUpload, RejectUpload,
           Resume, ReceiveChunk, FinalizeUpload, HandleCancel,
           FallSilent, CheckUploadTimeout, encodeVars, workerVars
  <2>2. CASE RequestAges
    BY <2>2, HandlersKeepEncode DEF RequestAges, encodeVars, workerVars
  <2>3. CASE TaskStep \/ FfmpegExits
    BY <2>3, TaskKeepsEncode
  <2>4. CASE ServeStep \/ EncodeTimesOut
    BY <2>4, ServeKeepsEncode
  <2>5. CASE UNCHANGED videoVars
    BY <2>5, HandlersKeepEncode DEF videoVars, encodeVars, workerVars
  <2> QED
    BY <2>1, <2>2, <2>3, <2>4, <2>5 DEF VideoNext
<1> QED
  BY <1>1, <1>2, PTL DEF VideoSpec

\* An encode runs only under the lease that reserves its memory: through the
\* normal end, the timeout and both its cancellations (video_worker.py:297,452).
THEOREM EncodeNeedsItsLease == VideoSpec => []EncodesUnderLease
<1>1. EncodeInv => EncodesUnderLease
  BY DEF EncodeInv, EncodesUnderLease
<1> QED
  BY <1>1, EncodeInvariant, PTL
-----------------------------------------------------------------------------
(* The video requests in their queue *)

\* A handler, the worker or time takes a step of the queue, or leaves it alone.
LEMMA VideoStepIsQueueStep ==
  ASSUME [VideoNext]_videoVars
  PROVE  [Next]_vars
<1>1. ASSUME UNCHANGED queueVars PROVE [Next]_vars
  BY <1>1 DEF queueVars, vars
<1>2. ASSUME NEW i \in Ids, HandleVideoEncodeRequest(i) PROVE [Next]_vars
  <2>1. CASE RequestUpload(i)
    BY <2>1, VideoAssumption DEF RequestUpload, Next
  <2>2. CASE RejectUpload(i) \/ Resume(i)
    BY <1>1, <2>2 DEF RejectUpload, Resume
  <2> QED
    BY <1>2, <2>1, <2>2 DEF HandleVideoEncodeRequest
<1>3. ASSUME NEW i \in Ids, HandleVideoData(i) PROVE [Next]_vars
  BY <1>1, <1>3, VideoAssumption DEF HandleVideoData, ReceiveChunk, FinalizeUpload, Next
<1>4. ASSUME NEW i \in Ids, HandleCancel(i) \/ FallSilent(i) \/ CheckUploadTimeout(i)
      PROVE  [Next]_vars
  BY <1>1, <1>4 DEF HandleCancel, FallSilent, CheckUploadTimeout, Next
<1>5. CASE RequestAges
  BY <1>5 DEF RequestAges, Next
<1>6. CASE TaskStep \/ FfmpegExits \/ EncodeTimesOut
  BY <1>1, <1>6 DEF TaskStep, TaskStarts, TaskGreets, StartFfmpeg, TaskSeesExit, TaskCloses,
                    TaskReaps, FfmpegExits, EncodeTimesOut
<1>7. CASE ServeStep
  <2>1. CASE TakeRequest \/ SkipCancelled \/ BackOff \/ Finish
    BY <2>1 DEF TakeRequest, SkipCancelled, BackOff, Finish, Next, WorkerStep
  <2>2. CASE AcquireReturns \/ EncodeReturns \/ IdleWaitEnds \/ TaskDrained
    BY <1>1, <2>2 DEF AcquireReturns, EncodeReturns, IdleWaitEnds, TaskDrained
  <2>3. CASE Answer \/ SendChunk \/ SendEnd \/ DeliveryBreaks
    BY <1>1, <2>3 DEF Answer, SendChunk, SendEnd, DeliveryBreaks
  <2> QED
    BY <1>7, <2>1, <2>2, <2>3 DEF ServeStep
<1>8. CASE UNCHANGED videoVars
  BY <1>1, <1>8 DEF videoVars
<1> QED
  BY <1>2, <1>3, <1>4, <1>5, <1>6, <1>7, <1>8 DEF VideoNext

\* The handlers of video_worker.py and server.py take the queue's steps and no
\* others, whatever ids clients use: what is proved of the queue holds of the
\* queue of video requests, all of which wait for their data.
THEOREM VideoImplementsQueue == VideoSpec => Spec
<1>1. VideoInit => Init
  BY DEF VideoInit
<1>2. [VideoNext]_videoVars => [Next]_vars
  BY VideoStepIsQueueStep
<1> QED
  BY <1>1, <1>2, PTL DEF VideoSpec, Spec
-----------------------------------------------------------------------------
(* The input files *)

\* What the files need of the queue, also when clients ask under ids in use.
QueueShape ==
    /\ entry \in Seq(QueuedRequest) /\ heap \subseteq DOMAIN entry
    /\ requests \in [Ids -> DOMAIN entry \cup {None}]
    /\ current \in DOMAIN entry \cup {None}
    /\ LookupSound

IdsStay == \A o \in DOMAIN entry : o \in DOMAIN entry' /\ entry'[o].id = entry[o].id

LEMMA EnqueueKeepsShape ==
  ASSUME QueueShape, NEW i \in Ids, NEW p \in Priorities, NEW d \in BOOLEAN, Enqueue(i, p, d)
  PROVE  /\ QueueShape' /\ IdsStay /\ Live \subseteq Live'
         /\ Len(entry') \in DOMAIN entry' /\ Len(entry') # None
         /\ Len(entry') \in Live' /\ entry'[Len(entry')].id = i
<1> DEFINE e == [id |-> i, priority |-> p, pending |-> d,
                 cancelled |-> FALSE, timeoutExpired |-> FALSE, again |-> OnHeap(i)]
           n == Len(entry')
<1>1. /\ entry \in Seq(QueuedRequest) /\ heap \subseteq DOMAIN entry
      /\ requests \in [Ids -> DOMAIN entry \cup {None}]
      /\ current \in DOMAIN entry \cup {None} /\ LookupSound
  BY DEF QueueShape
<1>2. /\ entry' = Append(entry, e) /\ heap' = heap \cup {n}
      /\ requests' = [requests EXCEPT ![i] = n] /\ current' = current
  BY DEF Enqueue
<1>3. e \in QueuedRequest
  BY DEF QueuedRequest, OnHeap
<1>4. /\ entry' \in Seq(QueuedRequest) /\ DOMAIN entry' = DOMAIN entry \cup {n}
      /\ n \notin DOMAIN entry /\ n # None /\ entry'[n] = e
      /\ \A o \in DOMAIN entry : entry'[o] = entry[o]
  BY <1>1, <1>2, <1>3 DEF None
<1>5. LookupSound'
  BY <1>1, <1>2, <1>4 DEF LookupSound
<1>6. QueueShape'
  BY <1>1, <1>2, <1>4, <1>5 DEF QueueShape
<1> QED
  BY <1>1, <1>2, <1>4, <1>6 DEF IdsStay, Live

LEMMA MarkDataReadyKeepsShape ==
  ASSUME QueueShape, NEW i \in Ids, MarkDataReady(i)
  PROVE  QueueShape' /\ IdsStay /\ Live \subseteq Live' /\ current' = current
<1> DEFINE q == requests[i]
           e == [entry[q] EXCEPT !.pending = FALSE]
<1>1. /\ entry \in Seq(QueuedRequest) /\ heap \subseteq DOMAIN entry
      /\ q \in DOMAIN entry /\ entry[q] \in QueuedRequest
  BY DEF QueueShape, LookupSound, MarkDataReady
<1>2. entry' = [entry EXCEPT ![q] = e] /\ UNCHANGED <<heap, requests, current>>
  BY DEF MarkDataReady
<1>3. e \in QueuedRequest /\ e.id = entry[q].id /\ e.cancelled = entry[q].cancelled
  BY <1>1, MarkedRequest
<1>4. /\ entry' \in Seq(QueuedRequest) /\ DOMAIN entry' = DOMAIN entry
      /\ \A o \in DOMAIN entry : /\ entry'[o].id = entry[o].id
                                 /\ entry'[o].cancelled = entry[o].cancelled
  BY <1>1, <1>2, <1>3
<1> QED
  BY <1>1, <1>2, <1>4 DEF QueueShape, LookupSound, IdsStay, Live

LEMMA CancelKeepsShape ==
  ASSUME QueueShape, NEW i \in Ids, Cancel(i)
  PROVE  /\ QueueShape' /\ IdsStay /\ current' = current
         /\ \A o \in Live : entry[o].id # i => o \in Live'
<1> DEFINE q == requests[i]
           e == [entry[q] EXCEPT !.cancelled = TRUE]
<1>1. /\ entry \in Seq(QueuedRequest) /\ heap \subseteq DOMAIN entry
      /\ requests \in [Ids -> DOMAIN entry \cup {None}]
      /\ q \in DOMAIN entry /\ entry[q] \in QueuedRequest /\ entry[q].id = i
  BY DEF QueueShape, LookupSound, Cancel
<1>2. /\ entry' = [entry EXCEPT ![q] = e] /\ UNCHANGED <<heap, current>>
      /\ requests' = [requests EXCEPT ![i] = None]
  BY DEF Cancel
<1>3. e \in QueuedRequest /\ e.id = entry[q].id
  BY <1>1, MarkedRequest
<1>4. /\ entry' \in Seq(QueuedRequest) /\ DOMAIN entry' = DOMAIN entry
      /\ \A o \in DOMAIN entry : entry'[o].id = entry[o].id
      /\ \A o \in DOMAIN entry : o # q => entry'[o] = entry[o]
  BY <1>1, <1>2, <1>3
<1>5. \A j \in Ids : requests'[j] # None => j # i /\ requests'[j] = requests[j]
  BY <1>1, <1>2
<1>6. LookupSound'
  BY <1>1, <1>2, <1>4, <1>5 DEF QueueShape, LookupSound
<1>7. QueueShape'
  BY <1>1, <1>2, <1>4, <1>6 DEF QueueShape
<1> QED
  BY <1>1, <1>2, <1>4, <1>7 DEF IdsStay, Live

LEMMA SkipKeepsShape ==
  ASSUME QueueShape, DequeueNothing \/ DequeuePending
  PROVE  QueueShape' /\ IdsStay /\ Live \subseteq Live' /\ current' = current
<1>1. /\ entry' = entry /\ current' = current
      /\ \E S \in SUBSET (heap \ Live) : Forget(S) /\ heap' = heap \ S
  <2>1. CASE DequeueNothing
    <3>1. heap \in SUBSET (heap \ Live) /\ heap' = heap \ heap
      BY <2>1 DEF DequeueNothing
    <3> QED
      BY <2>1, <3>1 DEF DequeueNothing
  <2>2. CASE DequeuePending
    <3>1. PICK o \in heap : Forget(CancelledAheadOf(o)) /\ heap' = heap \ CancelledAheadOf(o)
      BY <2>2 DEF DequeuePending
    <3>2. CancelledAheadOf(o) \in SUBSET (heap \ Live)
      BY DEF CancelledAheadOf
    <3> QED
      BY <2>2, <3>1, <3>2 DEF DequeuePending
  <2> QED
    BY <2>1, <2>2
<1>2. PICK S \in SUBSET (heap \ Live) : Forget(S) /\ heap' = heap \ S
  BY <1>1
<1>3. \A i \in Ids : /\ requests'[i] # None => requests'[i] = requests[i]
                     /\ requests'[i] # None => \A o \in S : entry[o].id # i
  BY <1>2 DEF Forget
<1>4. requests' \in [Ids -> DOMAIN entry \cup {None}]
  BY <1>2 DEF Forget, QueueShape
<1>5. LookupSound'
  BY <1>1, <1>2, <1>3 DEF LookupSound, QueueShape
<1> QED
  BY <1>1, <1>2, <1>4, <1>5 DEF QueueShape, IdsStay, Live

LEMMA DequeueKeepsShape ==
  ASSUME QueueShape, Dequeue
  PROVE  QueueShape' /\ IdsStay /\ current = None /\ Live \subseteq Live' \cup {current'}
<1>1. PICK o \in heap :
        /\ IsFirst(o) /\ Forget(CancelledAheadOf(o) \cup {o})
        /\ heap' = heap \ (CancelledAheadOf(o) \cup {o})
        /\ current' = o
        /\ entry' = [entry EXCEPT ![o].timeoutExpired = o <= aged,
                                  ![o].cancelled = @ \/ o <= aged]
  BY DEF Dequeue
<1> DEFINE late == o <= aged
           e == [entry[o] EXCEPT !.timeoutExpired = late, !.cancelled = @ \/ late]
<1>2. /\ entry \in Seq(QueuedRequest) /\ heap \subseteq DOMAIN entry
      /\ o \in DOMAIN entry /\ entry[o] \in QueuedRequest /\ ~entry[o].cancelled
  BY <1>1 DEF QueueShape, IsFirst, Live
<1>3. entry' = [entry EXCEPT ![o] = e] /\ e \in QueuedRequest /\ e.id = entry[o].id
  <2>1. entry' = [entry EXCEPT ![o] = e]
    BY <1>1, <1>2
  <2>2. late \in BOOLEAN
    OBVIOUS
  <2> HIDE DEF late
  <2> QED
    BY <1>2, <2>1, <2>2, HandedRequest
<1> HIDE DEF e
<1>4. /\ entry' \in Seq(QueuedRequest) /\ DOMAIN entry' = DOMAIN entry
      /\ \A p \in DOMAIN entry : entry'[p].id = entry[p].id
      /\ \A p \in DOMAIN entry : p # o => entry'[p] = entry[p]
  BY <1>2, <1>3
<1>5. \A i \in Ids : requests'[i] # None =>
        requests'[i] = requests[i] /\ \A p \in CancelledAheadOf(o) \cup {o} : entry[p].id # i
  BY <1>1 DEF Forget
<1>6. requests' \in [Ids -> DOMAIN entry' \cup {None}]
  BY <1>1, <1>4 DEF Forget, QueueShape
<1>7. LookupSound'
  BY <1>1, <1>2, <1>4, <1>5 DEF LookupSound, QueueShape
<1>8. QueueShape'
  BY <1>1, <1>2, <1>4, <1>6, <1>7 DEF QueueShape
<1>9. Live \subseteq Live' \cup {current'}
  BY <1>1, <1>2, <1>4 DEF Live, CancelledAheadOf
<1> QED
  BY <1>4, <1>8, <1>9 DEF IdsStay, Dequeue, WorkerWakes

\* Each registered upload is that of a request under its own id which is queued,
\* served, or lost its output file; each file is registered or being read.
UploadsOwned ==
    \A i \in Ids : upload[i].by # None =>
        /\ upload[i].by \in DOMAIN entry /\ entry[upload[i].by].id = i
        /\ upload[i].by \in Live \cup dropped \cup {current}

FilesKnown == \A o \in disk : o # None /\ (o = input \/ \E i \in Ids : upload[i].by = o)

Uploads == [by : Nat, size : Nat, complete : BOOLEAN, silent : BOOLEAN]

FileInv ==
    /\ QueueShape
    /\ upload \in [Ids -> Uploads]
    /\ UploadsOwned
    /\ FilesKnown
    /\ task \in {"none", "new"} => input = None
    /\ stage = "backoff" => current \in dropped

LEMMA OwnersStay ==
  ASSUME UploadsOwned, IdsStay,
         Live \cup dropped \cup {current} \subseteq Live' \cup dropped' \cup {current'} \cup {None},
         \A i \in Ids : upload'[i].by = upload[i].by
  PROVE  UploadsOwned'
BY DEF UploadsOwned, IdsStay

\* Steps that change no upload but may change the queue and the worker.
LEMMA QueueKeepsFiles ==
  ASSUME FileInv, QueueShape', IdsStay, UNCHANGED <<uploadVars, task, input>>,
         Live \cup dropped \cup {current} \subseteq Live' \cup dropped' \cup {current'} \cup {None},
         stage' = "backoff" => current' \in dropped'
  PROVE  FileInv'
<1>1. UploadsOwned'
  BY OwnersStay DEF FileInv, uploadVars
<1>2. FilesKnown'
  BY DEF FileInv, FilesKnown, uploadVars
<1> QED
  BY <1>1, <1>2 DEF FileInv, uploadVars

\* A request's upload is registered in the place of another one.
LEMMA RegisterKeepsFiles ==
  ASSUME FileInv, NEW i \in Ids, NEW p \in Priorities, Enqueue(i, p, TRUE),
         Register(i, Len(entry')), UNCHANGED <<task, input, stage, dropped>>
  PROVE  FileInv'
<1> DEFINE n == Len(entry')
<1>1. /\ QueueShape' /\ IdsStay /\ Live \subseteq Live'
      /\ n \in DOMAIN entry' /\ n # None /\ n \in Live' /\ entry'[n].id = i
  BY EnqueueKeepsShape DEF FileInv
<1>2. current' = current /\ n \in Nat
  BY <1>1 DEF Enqueue, QueueShape
<1>3. /\ upload' = [upload EXCEPT ![i] = [NoUpload EXCEPT !.by = n]]
      /\ disk' = (disk \ ({upload[i].by} \ {input})) \cup {n}
  BY DEF Register
<1>4. [NoUpload EXCEPT !.by = n] \in Uploads /\ [NoUpload EXCEPT !.by = n].by = n
  BY <1>2 DEF NoUpload, Uploads, None
<1>5. /\ upload' \in [Ids -> Uploads] /\ upload'[i].by = n
      /\ \A j \in Ids : j # i => upload'[j] = upload[j]
  BY <1>3, <1>4 DEF FileInv
<1>6. UploadsOwned'
  <2>1. ASSUME NEW j \in Ids, j # i, upload[j].by # None
        PROVE  /\ upload[j].by \in DOMAIN entry' /\ entry'[upload[j].by].id = j
               /\ upload[j].by \in Live' \cup dropped' \cup {current'}
    BY <1>1, <1>2, <2>1 DEF FileInv, UploadsOwned, IdsStay
  <2> QED
    BY <1>1, <1>5, <2>1 DEF UploadsOwned
<1>7. FilesKnown'
  BY <1>1, <1>3, <1>5 DEF FileInv, FilesKnown
<1> QED
  BY <1>1, <1>2, <1>5, <1>6, <1>7 DEF FileInv

\* Those whose id is not i are still queued, served, or known to be dropped.
OwnersStayBut(i) ==
    \A o \in DOMAIN entry \cap (Live \cup dropped \cup {current}) :
        entry[o].id # i => o \in Live' \cup dropped' \cup {current'}

\* An upload is forgotten; its file is deleted unless it is being read.
LEMMA ForgettingKeepsFiles ==
  ASSUME FileInv, QueueShape', IdsStay, NEW i \in Ids,
         upload' = [upload EXCEPT ![i] = NoUpload],
         \/ disk' = disk \ {upload[i].by}
         \/ disk' = disk \ ({upload[i].by} \ {input}),
         OwnersStayBut(i),
         UNCHANGED <<task, input>>,
         stage' = "backoff" => current' \in dropped'
  PROVE  FileInv'
<1>1. NoUpload \in Uploads /\ NoUpload.by = None
  BY DEF NoUpload, Uploads, None
<1>2. /\ upload' \in [Ids -> Uploads] /\ upload'[i].by = None
      /\ \A j \in Ids : j # i => upload'[j] = upload[j]
  BY <1>1 DEF FileInv
<1>3. UploadsOwned'
  BY <1>2 DEF FileInv, UploadsOwned, IdsStay, OwnersStayBut
<1>4. FilesKnown'
  BY <1>2 DEF FileInv, FilesKnown
<1> QED
  BY <1>2, <1>3, <1>4 DEF FileInv

\* The task ends its hold on the input.
LEMMA LettingGoKeepsFiles ==
  ASSUME FileInv, LetGoOfInput, UNCHANGED <<queueVars, dropped>>, stage' # "backoff"
  PROVE  FileInv'
<1>1. QueueShape' /\ IdsStay /\ Live' = Live /\ current' = current
  BY DEF FileInv, QueueShape, LookupSound, IdsStay, Live, queueVars
<1>2. UploadsOwned'
  BY <1>1, OwnersStay DEF FileInv, LetGoOfInput
<1>3. FilesKnown'
  BY DEF FileInv, FilesKnown, LetGoOfInput
<1> QED
  BY <1>1, <1>2, <1>3 DEF FileInv, LetGoOfInput

\* Steps that change what is known of an upload, not whose it is.
LEMMA WritingKeepsFiles ==
  ASSUME FileInv, QueueShape', IdsStay, current' = current, Live \subseteq Live',
         upload' \in [Ids -> Uploads], \A i \in Ids : upload'[i].by = upload[i].by,
         UNCHANGED <<disk, task, input, stage, dropped>>
  PROVE  FileInv'
<1>1. UploadsOwned'
  BY OwnersStay
     DEF FileInv
<1>2. FilesKnown'
  BY DEF FileInv, FilesKnown
<1> QED
  BY <1>1, <1>2 DEF FileInv

LEMMA IdleQueue ==
  ASSUME QueueShape, UNCHANGED queueVars
  PROVE  QueueShape' /\ IdsStay /\ Live' = Live /\ current' = current
BY DEF QueueShape, LookupSound, IdsStay, Live, queueVars

LEMMA RequestsKeepFiles ==
  ASSUME FileInv, NEW i \in Ids, HandleVideoEncodeRequest(i)
  PROVE  FileInv'
<1>1. CASE RequestUpload(i)
  BY <1>1, RegisterKeepsFiles DEF RequestUpload, Confirm, encodeVars, workerVars
<1>2. CASE RejectUpload(i)
  <2>1. QueueShape' /\ IdsStay /\ Live' = Live /\ current' = current
    BY <1>2, IdleQueue DEF RejectUpload, FileInv
  <2>2. /\ upload' = [upload EXCEPT ![i] = NoUpload]
        /\ disk' = disk \ ({upload[i].by} \ {input})
        /\ UNCHANGED <<task, input, stage, dropped>>
    BY <1>2 DEF RejectUpload, encodeVars, workerVars
  <2>3. stage' = "backoff" => current' \in dropped'
    BY <2>1, <2>2 DEF FileInv
  <2>4. OwnersStayBut(i)
    BY <2>1, <2>2 DEF OwnersStayBut
  <2> QED
    BY <2>1, <2>2, <2>3, <2>4, ForgettingKeepsFiles
<1>3. CASE Resume(i)
  <2>1. QueueShape' /\ IdsStay /\ Live' = Live /\ current' = current
    BY <1>3, IdleQueue DEF Resume, FileInv
  <2> QED
    BY <1>3, <2>1, QueueKeepsFiles DEF Resume, encodeVars, workerVars, FileInv
<1> QED
  BY <1>1, <1>2, <1>3 DEF HandleVideoEncodeRequest

LEMMA WritesKeepFiles ==
  ASSUME FileInv, NEW i \in Ids, HandleVideoData(i) \/ FallSilent(i)
  PROVE  FileInv'
<1>1. /\ upload[i] \in Uploads
      /\ UNCHANGED <<disk, task, input, stage, dropped>>
  BY DEF FileInv, HandleVideoData, ReceiveChunk, FinalizeUpload, FallSilent, encodeVars, workerVars
<1>2. CASE ReceiveChunk(i)
  <2>1. [upload[i] EXCEPT !.size = @ + 1, !.silent = FALSE] \in Uploads
    <3>1. upload[i].size + 1 \in Nat
      BY <1>1 DEF Uploads
    <3>2. [upload[i] EXCEPT !.size = upload[i].size + 1] \in Uploads
      BY <1>1, <3>1 DEF Uploads
    <3> QED
      BY <1>1, <3>1, <3>2 DEF Uploads
  <2>2. upload' = [upload EXCEPT ![i] = [upload[i] EXCEPT !.size = @ + 1, !.silent = FALSE]]
    BY <1>2 DEF ReceiveChunk, FileInv
  <2>3. upload' \in [Ids -> Uploads] /\ \A j \in Ids : upload'[j].by = upload[j].by
    BY <1>1, <2>1, <2>2 DEF FileInv, Uploads
  <2> QED
    BY <1>1, <1>2, <2>3, IdleQueue, WritingKeepsFiles DEF ReceiveChunk, FileInv
<1>3. CASE FinalizeUpload(i)
  <2>1. [upload[i] EXCEPT !.complete = TRUE] \in Uploads
    BY <1>1 DEF Uploads
  <2>2. upload' \in [Ids -> Uploads] /\ \A j \in Ids : upload'[j].by = upload[j].by
    BY <1>1, <1>3, <2>1 DEF FinalizeUpload, FileInv, Uploads
  <2>3. QueueShape' /\ IdsStay /\ Live \subseteq Live' /\ current' = current
    BY <1>3, MarkDataReadyKeepsShape, IdleQueue DEF FinalizeUpload, FileInv
  <2> QED
    BY <1>1, <2>2, <2>3, WritingKeepsFiles
<1>4. CASE FallSilent(i)
  <2>1. [upload[i] EXCEPT !.silent = TRUE] \in Uploads
    BY <1>1 DEF Uploads
  <2>2. upload' \in [Ids -> Uploads] /\ \A j \in Ids : upload'[j].by = upload[j].by
    BY <1>1, <1>4, <2>1 DEF FallSilent, FileInv, Uploads
  <2> QED
    BY <1>1, <1>4, <2>2, IdleQueue, WritingKeepsFiles DEF FallSilent, FileInv
<1> QED
  BY <1>2, <1>3, <1>4 DEF HandleVideoData

LEMMA CancelsKeepFiles ==
  ASSUME FileInv, NEW i \in Ids, HandleCancel(i) \/ CheckUploadTimeout(i)
  PROVE  FileInv'
<1>1. /\ upload' = [upload EXCEPT ![i] = NoUpload] /\ disk' = disk \ {upload[i].by}
      /\ UNCHANGED <<task, input, stage, dropped>>
      /\ Cancel(i) \/ UNCHANGED queueVars
  BY DEF HandleCancel, CheckUploadTimeout, CleanUp, encodeVars, workerVars
<1>2. /\ QueueShape' /\ IdsStay /\ current' = current
      /\ \A o \in Live : entry[o].id # i => o \in Live'
  BY <1>1, CancelKeepsShape, IdleQueue DEF FileInv
<1>3. OwnersStayBut(i)
  BY <1>1, <1>2 DEF OwnersStayBut
<1>4. stage' = "backoff" => current' \in dropped'
  BY <1>1, <1>2 DEF FileInv
<1> QED
  BY <1>1, <1>2, <1>3, <1>4, ForgettingKeepsFiles

LEMMA TaskKeepsFiles ==
  ASSUME FileInv, EncodeInv, TaskStep \/ FfmpegExits \/ EncodeTimesOut
  PROVE  FileInv'
<1>1. UNCHANGED queueVars /\ UNCHANGED <<uploadVars, dropped>>
  BY DEF TaskStep, TaskStarts, TaskGreets, StartFfmpeg, TaskSeesExit, TaskCloses, TaskReaps,
         FfmpegExits, EncodeTimesOut, workerVars
<1>2. QueueShape' /\ IdsStay /\ Live' = Live /\ current' = current
  BY <1>1, IdleQueue DEF FileInv
<1>3. UploadsOwned'
  BY <1>1, <1>2, OwnersStay DEF FileInv, uploadVars
<1>4. stage' = "backoff" => stage = "backoff"
  BY DEF TaskStep, TaskStarts, TaskGreets, StartFfmpeg, TaskSeesExit, TaskCloses, TaskReaps,
         FfmpegExits, EncodeTimesOut, workerVars
<1>5. CASE TaskStarts
  <2>1. input = None /\ task' \in {"greeting", "done"}
    BY <1>5 DEF TaskStarts, TaskEnds, FileInv
  <2>2. FilesKnown'
    BY <1>1, <2>1 DEF FileInv, FilesKnown, uploadVars
  <2> QED
    BY <1>1, <1>2, <1>3, <1>4, <2>1, <2>2 DEF FileInv, uploadVars
<1>6. CASE ~TaskStarts
  <2>1. input' = input
    BY <1>6 DEF TaskStep, TaskGreets, StartFfmpeg, TaskSeesExit, TaskCloses, TaskReaps,
                FfmpegExits, EncodeTimesOut
  <2>2. task' \in {"none", "new"} => task \in {"none", "new"}
    BY <1>6 DEF TaskStep, TaskGreets, StartFfmpeg, TaskSeesExit, TaskCloses, TaskReaps,
                FfmpegExits, EncodeTimesOut, CancelTask, TaskEnds
  <2>3. FilesKnown'
    BY <1>1, <2>1 DEF FileInv, FilesKnown, uploadVars
  <2> QED
    BY <1>1, <1>2, <1>3, <1>4, <2>1, <2>2, <2>3 DEF FileInv, uploadVars
<1> QED
  BY <1>5, <1>6

LEMMA ServeKeepsFiles ==
  ASSUME FileInv, EncodeInv, ServeStep
  PROVE  FileInv'
<1>1. CASE TakeRequest
  <2>1. QueueShape' /\ IdsStay /\ current = None /\ Live \subseteq Live' \cup {current'}
    BY <1>1, DequeueKeepsShape DEF TakeRequest, FileInv
  <2>2. UNCHANGED <<uploadVars, task, input>> /\ dropped \subseteq dropped'
    BY <1>1 DEF TakeRequest, encodeVars
  <2>3. stage' = "backoff" => current' \in dropped'
    BY <1>1 DEF TakeRequest
  <2> QED
    BY <2>1, <2>2, <2>3, QueueKeepsFiles
<1>2. CASE SkipCancelled
  <2>1. QueueShape' /\ IdsStay /\ Live \subseteq Live' /\ current' = current
    BY <1>2, SkipKeepsShape DEF SkipCancelled, FileInv
  <2>2. UNCHANGED <<uploadVars, task, input, dropped, stage>>
    BY <1>2 DEF SkipCancelled, encodeVars, workerVars
  <2>3. stage' = "backoff" => current' \in dropped'
    BY <2>1, <2>2 DEF FileInv
  <2> QED
    BY <2>1, <2>2, <2>3, QueueKeepsFiles
<1>3. CASE BackOff
  <2>1. /\ UNCHANGED <<entry, heap, requests, uploadVars, task, input, dropped>>
        /\ current' = None /\ stage' = "idle" /\ current \in dropped
    BY <1>3 DEF BackOff, WorkerDone, encodeVars, FileInv
  <2>2. QueueShape' /\ IdsStay /\ Live' = Live
    BY <2>1 DEF FileInv, QueueShape, LookupSound, IdsStay, Live
  <2> QED
    BY <2>1, <2>2, QueueKeepsFiles
<1>4. CASE AcquireReturns
  <2>1. task = "none" /\ input = None
    BY <1>4 DEF AcquireReturns, EncodeInv, FileInv, Leased
  <2>2. UNCHANGED queueVars /\ UNCHANGED <<uploadVars, input, dropped>> /\ stage' # "backoff"
    BY <1>4 DEF AcquireReturns
  <2>3. QueueShape' /\ IdsStay /\ Live' = Live /\ current' = current
    BY <2>2, IdleQueue DEF FileInv
  <2>4. UploadsOwned'
    BY <2>2, <2>3, OwnersStay DEF FileInv, uploadVars
  <2>5. FilesKnown'
    BY <2>2 DEF FileInv, FilesKnown, uploadVars
  <2> QED
    BY <2>1, <2>2, <2>3, <2>4, <2>5 DEF FileInv, uploadVars
<1>5. CASE EncodeReturns \/ TaskDrained
  BY <1>5, LettingGoKeepsFiles DEF EncodeReturns, TaskDrained
<1>6. CASE IdleWaitEnds
  <2>1. task # "none" /\ task' # "none" /\ task' # "new"
    BY <1>6 DEF IdleWaitEnds, CancelTask, EncodeInv, Leased
  <2>2. UNCHANGED queueVars /\ UNCHANGED <<uploadVars, input, dropped>> /\ stage' # "backoff"
    BY <1>6 DEF IdleWaitEnds
  <2>3. QueueShape' /\ IdsStay /\ Live' = Live /\ current' = current
    BY <2>2, IdleQueue DEF FileInv
  <2>4. UploadsOwned'
    BY <2>2, <2>3, OwnersStay DEF FileInv, uploadVars
  <2>5. FilesKnown'
    BY <2>2 DEF FileInv, FilesKnown, uploadVars
  <2> QED
    BY <2>1, <2>2, <2>3, <2>4, <2>5 DEF FileInv, uploadVars
<1>7. CASE Answer \/ SendChunk \/ SendEnd \/ DeliveryBreaks
  <2>1. UNCHANGED queueVars /\ UNCHANGED <<uploadVars, task, input, dropped>> /\ stage' # "backoff"
    BY <1>7 DEF Answer, SendChunk, SendEnd, DeliveryBreaks, Tell, encodeVars
  <2>2. QueueShape' /\ IdsStay /\ Live' = Live /\ current' = current
    BY <2>1, IdleQueue DEF FileInv
  <2> QED
    BY <2>1, <2>2, QueueKeepsFiles
<1>8. CASE Finish
  <2> DEFINE i == entry[current].id
  <2>1. /\ UNCHANGED <<entry, heap, requests, task, input, dropped>>
        /\ current # None /\ current' = None /\ stage' = "idle"
        /\ upload' = [upload EXCEPT ![i] = NoUpload] /\ disk' = disk \ {upload[i].by}
    BY <1>8 DEF Finish, WorkerDone, CleanUp, encodeVars
  <2>2. QueueShape' /\ IdsStay /\ Live' = Live
    BY <2>1 DEF FileInv, QueueShape, LookupSound, IdsStay, Live
  <2>3. i \in Ids
    <3>1. current \in DOMAIN entry /\ entry \in Seq(QueuedRequest)
      BY <2>1 DEF FileInv, QueueShape
    <3>2. entry[current] \in QueuedRequest
      BY <3>1
    <3> QED
      BY <3>2 DEF QueuedRequest
  <2>4. OwnersStayBut(i)
    BY <2>1, <2>2 DEF OwnersStayBut
  <2> HIDE DEF i
  <2> QED
    BY <2>1, <2>2, <2>3, <2>4, ForgettingKeepsFiles
<1> QED
  BY <1>1, <1>2, <1>3, <1>4, <1>5, <1>6, <1>7, <1>8 DEF ServeStep

LEMMA InitHasNoFiles == VideoInit => FileInv
<1> SUFFICES ASSUME VideoInit PROVE FileInv
  OBVIOUS
<1>1. /\ entry = <<>> /\ heap = {} /\ current = None /\ requests = [i \in Ids |-> None]
      /\ upload = [i \in Ids |-> NoUpload] /\ disk = {} /\ stage = "idle" /\ input = None
  BY DEF VideoInit, Init
<1>2. entry \in Seq(QueuedRequest)
  BY <1>1
<1>3. QueueShape
  BY <1>1, <1>2 DEF QueueShape, LookupSound
<1>4. NoUpload \in Uploads /\ NoUpload.by = None
  BY DEF NoUpload, Uploads, None
<1> QED
  BY <1>1, <1>3, <1>4 DEF FileInv, UploadsOwned, FilesKnown

LEMMA StepKeepsFiles == EncodeInv /\ FileInv /\ [VideoNext]_videoVars => FileInv'
<1> SUFFICES ASSUME EncodeInv, FileInv, [VideoNext]_videoVars PROVE FileInv'
  OBVIOUS
<1>1. ASSUME NEW i \in Ids, HandleVideoEncodeRequest(i) PROVE FileInv'
  BY <1>1, RequestsKeepFiles
<1>2. ASSUME NEW i \in Ids, HandleVideoData(i) \/ FallSilent(i) PROVE FileInv'
  BY <1>2, WritesKeepFiles
<1>3. ASSUME NEW i \in Ids, HandleCancel(i) \/ CheckUploadTimeout(i) PROVE FileInv'
  BY <1>3, CancelsKeepFiles
<1>4. CASE RequestAges \/ UNCHANGED videoVars
  <2>1. UNCHANGED <<entry, heap, requests, current, uploadVars, task, input, stage, dropped>>
    BY <1>4 DEF RequestAges, Age, videoVars, queueVars, encodeVars, workerVars
  <2>2. QueueShape' /\ IdsStay /\ Live' = Live
    BY <2>1 DEF FileInv, QueueShape, LookupSound, IdsStay, Live
  <2>3. stage' = "backoff" => current' \in dropped'
    BY <2>1 DEF FileInv
  <2> QED
    BY <2>1, <2>2, <2>3, QueueKeepsFiles
<1>5. CASE TaskStep \/ FfmpegExits \/ EncodeTimesOut
  BY <1>5, TaskKeepsFiles
<1>6. CASE ServeStep
  BY <1>6, ServeKeepsFiles
<1> QED
  BY <1>1, <1>2, <1>3, <1>4, <1>5, <1>6 DEF VideoNext

\* An input file belongs to a request that is queued or served, for any number of
\* clients that cancel, resume, fall silent or ask under ids in use: no handler,
\* timeout or clean-up leaves one behind but that of a failed output file
\* (video_worker.py:273-274,319-324).
THEOREM FilesHaveOwners == VideoSpec => []FilesBelongToRequests
<1>1. FileInv => FilesBelongToRequests
  BY DEF FileInv, UploadsOwned, FilesKnown, FilesBelongToRequests
<1> QED
  BY <1>1, EncodeInvariant, InitHasNoFiles, StepKeepsFiles, PTL DEF VideoSpec
-----------------------------------------------------------------------------
(* What a client relies on *)

\* The requests the queue still holds, cancelled ones included, and the one the
\* worker serves: while one of them has an id, the id is in use.
InService == (heap \cup {current}) \ {None}

OneInService ==
    \A o, p \in InService :
        entry[o].id = entry[p].id /\ entry[o].id \notin reused => o = p

LiveIsFound == \A o \in Live : entry[o].id \notin reused => requests[entry[o].id] = o

\* An id in use names one request, and the queue finds it by its id while it is
\* queued.
ServiceInv ==
    /\ DOMAIN entry \subseteq Requests
    /\ current \notin heap
    /\ OneInService
    /\ LiveIsFound
    /\ current # None => ~entry[current].pending
-----------------------------------------------------------------------------
(* What the operations of the queue change *)

IdsAndDataStay ==
    /\ DOMAIN entry \subseteq DOMAIN entry'
    /\ \A o \in DOMAIN entry : /\ entry'[o].id = entry[o].id
                               /\ entry'[o].pending = entry[o].pending

LEMMA ShapeFacts ==
  ASSUME QueueShape
  PROVE  /\ entry \in Seq(QueuedRequest) /\ heap \subseteq DOMAIN entry /\ Live \subseteq heap
         /\ requests \in [Ids -> DOMAIN entry \cup {None}]
         /\ current \in DOMAIN entry \cup {None} /\ None \notin DOMAIN entry
         /\ \A o \in DOMAIN entry :
              entry[o] \in QueuedRequest /\ entry[o].id \in Ids /\ entry[o].pending \in BOOLEAN
         /\ \A i \in Ids : requests[i] # None => requests[i] \in Live /\ entry[requests[i]].id = i
<1>1. entry \in Seq(QueuedRequest)
  BY DEF QueueShape
<1>2. \A o \in DOMAIN entry : entry[o] \in QueuedRequest
  BY <1>1
<1>3. \A o \in DOMAIN entry : entry[o].id \in Ids /\ entry[o].pending \in BOOLEAN
  BY <1>2 DEF QueuedRequest
<1>4. None \notin DOMAIN entry
  BY <1>1 DEF None
<1> QED
  BY <1>1, <1>2, <1>3, <1>4 DEF QueueShape, LookupSound, Live

\* A request under id i has arrived as entry n.
Arrived(i, d, n) ==
    /\ n \notin DOMAIN entry /\ n \in DOMAIN entry' /\ n \in Requests
    /\ DOMAIN entry' = DOMAIN entry \cup {n}
    /\ heap' = heap \cup {n} /\ Live' = Live \cup {n} /\ current' = current
    /\ requests' = [requests EXCEPT ![i] = n]
    /\ entry'[n].id = i /\ entry'[n].pending = d
    /\ IdsAndDataStay

LEMMA EnqueueFacts ==
  ASSUME QueueShape, NEW i \in Ids, NEW p \in Priorities, NEW d \in BOOLEAN, Enqueue(i, p, d)
  PROVE  Arrived(i, d, Len(entry'))
<1> DEFINE e == [id |-> i, priority |-> p, pending |-> d,
                 cancelled |-> FALSE, timeoutExpired |-> FALSE, again |-> OnHeap(i)]
           n == Len(entry')
<1>1. entry \in Seq(QueuedRequest) /\ heap \subseteq DOMAIN entry
  BY DEF QueueShape
<1>2. /\ entry' = Append(entry, e) /\ heap' = heap \cup {n} /\ Len(entry) < MaxEnqueues
      /\ requests' = [requests EXCEPT ![i] = n] /\ current' = current
  BY DEF Enqueue
<1>3. e \in QueuedRequest /\ e.id = i /\ e.pending = d /\ ~e.cancelled
  BY DEF QueuedRequest, OnHeap
<1> HIDE DEF e
<1>4. /\ n = Len(entry) + 1 /\ DOMAIN entry' = DOMAIN entry \cup {n}
      /\ n \notin DOMAIN entry /\ entry'[n] = e
      /\ \A o \in DOMAIN entry : entry'[o] = entry[o]
  BY <1>1, <1>2, <1>3
<1>5. n \in Requests
  <2>1. Len(entry) \in Nat /\ MaxEnqueues \in Nat
    BY <1>1, QueueAssumption
  <2> QED
    BY <1>2, <1>4, <2>1 DEF Requests
<1>6. Live' = Live \cup {n}
  BY <1>1, <1>2, <1>3, <1>4 DEF Live
<1> QED
  BY <1>2, <1>3, <1>4, <1>5, <1>6 DEF IdsAndDataStay, Arrived

LEMMA CancelFacts ==
  ASSUME QueueShape, NEW i \in Ids, Cancel(i)
  PROVE  /\ requests[i] \in Live /\ entry[requests[i]].id = i
         /\ DOMAIN entry' = DOMAIN entry /\ IdsAndDataStay
         /\ heap' = heap /\ current' = current /\ Live' = Live \ {requests[i]}
         /\ requests' = [requests EXCEPT ![i] = None]
<1> DEFINE q == requests[i]
           e == [entry[q] EXCEPT !.cancelled = TRUE]
<1>1. /\ q \in Live /\ entry[q].id = i /\ q \in DOMAIN entry /\ entry \in Seq(QueuedRequest)
      /\ heap \subseteq DOMAIN entry /\ entry[q] \in QueuedRequest
  BY ShapeFacts DEF Cancel
<1>2. /\ entry' = [entry EXCEPT ![q] = e] /\ UNCHANGED <<heap, current>>
      /\ requests' = [requests EXCEPT ![i] = None]
  BY DEF Cancel
<1>3. /\ e \in QueuedRequest /\ e.id = entry[q].id /\ e.pending = entry[q].pending
      /\ e.cancelled
  BY <1>1, MarkedRequest
<1> HIDE DEF e, q
<1>4. /\ DOMAIN entry' = DOMAIN entry /\ entry'[q] = e
      /\ \A o \in DOMAIN entry : o # q => entry'[o] = entry[o]
  BY <1>1, <1>2
<1>5. Live' = Live \ {q}
  BY <1>1, <1>2, <1>3, <1>4 DEF Live
<1> QED
  BY <1>1, <1>2, <1>3, <1>4, <1>5 DEF IdsAndDataStay, q

LEMMA MarkFacts ==
  ASSUME QueueShape, NEW i \in Ids, MarkDataReady(i)
  PROVE  /\ requests[i] \in Live /\ entry[requests[i]].id = i
         /\ DOMAIN entry' = DOMAIN entry
         /\ UNCHANGED <<heap, requests, current, Live>>
         /\ \A o \in DOMAIN entry : entry'[o].id = entry[o].id
         /\ ~entry'[requests[i]].pending
         /\ \A o \in DOMAIN entry : o # requests[i] => entry'[o].pending = entry[o].pending
<1> DEFINE q == requests[i]
           e == [entry[q] EXCEPT !.pending = FALSE]
<1>1. /\ q \in Live /\ entry[q].id = i /\ q \in DOMAIN entry /\ entry \in Seq(QueuedRequest)
      /\ heap \subseteq DOMAIN entry /\ entry[q] \in QueuedRequest
  BY ShapeFacts DEF MarkDataReady
<1>2. entry' = [entry EXCEPT ![q] = e] /\ UNCHANGED <<heap, requests, current>>
  BY DEF MarkDataReady
<1>3. /\ e \in QueuedRequest /\ e.id = entry[q].id /\ ~e.pending
      /\ e.cancelled = entry[q].cancelled
  BY <1>1, MarkedRequest
<1> HIDE DEF e, q
<1>4. /\ DOMAIN entry' = DOMAIN entry /\ entry'[q] = e
      /\ \A o \in DOMAIN entry : o # q => entry'[o] = entry[o]
  BY <1>1, <1>2
<1>5. Live' = Live
  BY <1>1, <1>2, <1>3, <1>4 DEF Live
<1> QED
  BY <1>1, <1>2, <1>3, <1>4, <1>5 DEF q

\* dequeue takes the entries S off the heap and pops their ids from the lookup.
Popped(S) ==
    /\ heap' = heap \ S
    /\ \A i \in Ids : requests'[i] = IF \E o \in S : entry[o].id = i THEN None ELSE requests[i]

LEMMA SkipFacts ==
  ASSUME QueueShape, DequeueNothing \/ DequeuePending
  PROVE  /\ UNCHANGED <<entry, current, Live>>
         /\ \E S \in SUBSET (heap \ Live) : Popped(S)
<1>1. CASE DequeueNothing
  <2>1. heap \in SUBSET (heap \ Live) /\ heap' = heap \ heap /\ entry' = entry /\ current' = current
    BY <1>1 DEF DequeueNothing
  <2>2. Popped(heap)
    BY <1>1, <2>1 DEF DequeueNothing, Forget, Popped
  <2>3. Live' = Live
    BY <1>1, <2>1 DEF DequeueNothing, Live
  <2> QED
    BY <2>1, <2>2, <2>3
<1>2. CASE DequeuePending
  <2>1. PICK o \in heap : Forget(CancelledAheadOf(o)) /\ heap' = heap \ CancelledAheadOf(o)
    BY <1>2 DEF DequeuePending
  <2>2. CancelledAheadOf(o) \in SUBSET (heap \ Live) /\ entry' = entry /\ current' = current
    BY <1>2 DEF CancelledAheadOf, DequeuePending
  <2>3. Popped(CancelledAheadOf(o))
    BY <2>1 DEF Forget, Popped
  <2>4. Live' = Live
    BY <2>1, <2>2 DEF Live
  <2> QED
    BY <2>2, <2>3, <2>4
<1> QED
  BY <1>1, <1>2

LEMMA DequeueFacts ==
  ASSUME QueueShape, Dequeue
  PROVE  /\ current = None /\ current' \in Live /\ ~entry[current'].pending
         /\ DOMAIN entry' = DOMAIN entry /\ IdsAndDataStay
         /\ Live' = Live \ {current'} /\ handed' = handed \cup {current'}
         /\ \E S \in SUBSET heap : current' \in S /\ S \cap Live = {current'} /\ Popped(S)
<1>1. PICK o \in heap :
        /\ IsFirst(o) /\ ~entry[o].pending /\ Forget(CancelledAheadOf(o) \cup {o})
        /\ heap' = heap \ (CancelledAheadOf(o) \cup {o})
        /\ current' = o /\ handed' = handed \cup {o}
        /\ entry' = [entry EXCEPT ![o].timeoutExpired = o <= aged,
                                  ![o].cancelled = @ \/ o <= aged]
  BY DEF Dequeue
<1>2. entry \in Seq(QueuedRequest) /\ heap \subseteq DOMAIN entry /\ o \in DOMAIN entry
  BY <1>1 DEF QueueShape
<1>3. /\ DOMAIN entry' = DOMAIN entry
      /\ \A q \in DOMAIN entry : q # o => entry'[q] = entry[q]
      /\ \A q \in DOMAIN entry : entry'[q].id = entry[q].id /\ entry'[q].pending = entry[q].pending
  BY <1>1, <1>2, HandedEntry
<1> DEFINE S == CancelledAheadOf(o) \cup {o}
<1>4. o \in Live /\ S \in SUBSET heap /\ o \in S /\ S \cap Live = {o}
  BY <1>1 DEF IsFirst, Live, CancelledAheadOf
<1>5. Popped(S)
  BY <1>1 DEF Forget, Popped
<1>6. heap' = heap \ S /\ current' = o /\ handed' = handed \cup {o} /\ ~entry[o].pending
  BY <1>1
<1>7. current = None
  BY DEF Dequeue, WorkerWakes
<1> HIDE DEF S
<1>8. Live' = Live \ {o}
  BY <1>2, <1>3, <1>4, <1>6 DEF Live
<1> QED
  BY <1>3, <1>4, <1>5, <1>6, <1>7, <1>8 DEF IdsAndDataStay
-----------------------------------------------------------------------------
(* An id in use names one request *)

LEMMA ArrivalKeepsService ==
  ASSUME QueueShape, ServiceInv, NEW i \in Ids, NEW d \in BOOLEAN, NEW n, Arrived(i, d, n),
         reused \subseteq reused', InUse(i) => i \in reused'
  PROVE  ServiceInv'
<1>1. /\ n \notin DOMAIN entry /\ n \in DOMAIN entry' /\ n \in Requests
      /\ DOMAIN entry' = DOMAIN entry \cup {n}
      /\ heap' = heap \cup {n} /\ Live' = Live \cup {n} /\ current' = current
      /\ requests' = [requests EXCEPT ![i] = n]
      /\ entry'[n].id = i /\ IdsAndDataStay
  BY DEF Arrived
<1>2. /\ heap \subseteq DOMAIN entry /\ Live \subseteq heap
      /\ requests \in [Ids -> DOMAIN entry \cup {None}]
      /\ current \in DOMAIN entry \cup {None} /\ None \notin DOMAIN entry
      /\ \A o \in DOMAIN entry : entry[o].id \in Ids
  BY ShapeFacts
<1>3. n # None
  BY <1>1, QueueAssumption DEF Requests, None
<1>4. InService' = InService \cup {n} /\ InService \subseteq DOMAIN entry
  BY <1>1, <1>2, <1>3 DEF InService
<1>5. \A o \in InService : entry'[o].id = entry[o].id
  BY <1>1, <1>4 DEF IdsAndDataStay
<1>6. \A o \in InService : entry[o].id = i => i \in reused'
  BY DEF InUse, InService
<1>7. OneInService'
  BY <1>1, <1>4, <1>5, <1>6 DEF OneInService, ServiceInv
<1>8. LiveIsFound'
  <2> SUFFICES ASSUME NEW o \in Live', entry'[o].id \notin reused'
               PROVE  requests'[entry'[o].id] = o
    BY DEF LiveIsFound
  <2>1. CASE o = n
    BY <2>1, <1>1, <1>2
  <2>2. CASE o # n
    <3>1. o \in Live /\ o \in InService /\ o \in DOMAIN entry
      BY <2>2, <1>1, <1>2 DEF InService
    <3>2. entry'[o].id = entry[o].id /\ entry[o].id # i /\ entry[o].id \notin reused
      BY <3>1, <1>5, <1>6
    <3> QED
      BY <3>1, <3>2, <1>1, <1>2 DEF ServiceInv, LiveIsFound
  <2> QED
    BY <2>1, <2>2
<1>9. DOMAIN entry' \subseteq Requests /\ current' \notin heap'
  BY <1>1, <1>2, <1>3 DEF ServiceInv
<1>10. current' # None => ~entry'[current'].pending
  BY <1>1, <1>2 DEF ServiceInv, IdsAndDataStay
<1> QED
  BY <1>7, <1>8, <1>9, <1>10 DEF ServiceInv

\* Steps by which nothing new is in service and what stays queued stays found.
LEMMA LeavingKeepsService ==
  ASSUME QueueShape, ServiceInv, DOMAIN entry' = DOMAIN entry,
         \A o \in DOMAIN entry : entry'[o].id = entry[o].id,
         InService' \subseteq InService, Live' \subseteq Live,
         \A o \in Live' : entry[o].id \notin reused => requests'[entry[o].id] = requests[entry[o].id],
         reused \subseteq reused',
         current' \notin heap', current' # None => ~entry'[current'].pending
  PROVE  ServiceInv'
<1>1. InService \subseteq DOMAIN entry /\ Live \subseteq DOMAIN entry
  BY ShapeFacts DEF InService
<1>2. OneInService'
  BY <1>1 DEF OneInService, ServiceInv
<1>3. LiveIsFound'
  BY <1>1 DEF LiveIsFound, ServiceInv
<1> QED
  BY <1>2, <1>3 DEF ServiceInv

LEMMA CancelKeepsService ==
  ASSUME QueueShape, ServiceInv, NEW i \in Ids, Cancel(i), reused' = reused
  PROVE  ServiceInv'
<1> DEFINE q == requests[i]
<1>1. /\ q \in Live /\ entry[q].id = i
      /\ DOMAIN entry' = DOMAIN entry /\ IdsAndDataStay
      /\ heap' = heap /\ current' = current /\ Live' = Live \ {q}
      /\ requests' = [requests EXCEPT ![i] = None]
  BY CancelFacts
<1>2. /\ Live \subseteq heap /\ heap \subseteq DOMAIN entry
      /\ current \in DOMAIN entry \cup {None} /\ None \notin DOMAIN entry
      /\ requests \in [Ids -> DOMAIN entry \cup {None}]
      /\ \A o \in DOMAIN entry : entry[o].id \in Ids
  BY ShapeFacts
<1> HIDE DEF q
<1>3. ASSUME NEW o \in Live', entry[o].id \notin reused
      PROVE  requests'[entry[o].id] = requests[entry[o].id]
  <2>1. o \in Live /\ o # q /\ o \in InService /\ q \in InService
    BY <1>1, <1>2 DEF InService
  <2>2. entry[o].id # i
    BY <1>1, <1>3, <2>1 DEF ServiceInv, OneInService
  <2> QED
    BY <1>1, <1>2, <2>1, <2>2
<1>4. InService' = InService
  BY <1>1 DEF InService
<1>5. current' \notin heap' /\ (current' # None => ~entry'[current'].pending)
  BY <1>1, <1>2 DEF ServiceInv, IdsAndDataStay
<1> QED
  BY <1>1, <1>3, <1>4, <1>5, LeavingKeepsService DEF IdsAndDataStay

LEMMA MarkKeepsService ==
  ASSUME QueueShape, ServiceInv, NEW i \in Ids, MarkDataReady(i), reused' = reused
  PROVE  ServiceInv'
<1>1. /\ requests[i] \in Live
      /\ DOMAIN entry' = DOMAIN entry /\ UNCHANGED <<heap, requests, current, Live>>
      /\ \A o \in DOMAIN entry : entry'[o].id = entry[o].id
      /\ \A o \in DOMAIN entry : o # requests[i] => entry'[o].pending = entry[o].pending
  BY MarkFacts
<1>2. Live \subseteq heap /\ current \in DOMAIN entry \cup {None}
  BY ShapeFacts
<1>3. current' \notin heap' /\ (current' # None => ~entry'[current'].pending)
  BY <1>1, <1>2 DEF ServiceInv
<1>4. InService' = InService
  BY <1>1 DEF InService
<1> QED
  BY <1>1, <1>3, <1>4, LeavingKeepsService

LEMMA PoppingKeepsService ==
  ASSUME QueueShape, ServiceInv, NEW S \in SUBSET heap, Popped(S),
         DOMAIN entry' = DOMAIN entry, IdsAndDataStay,
         current' = current \/ (current = None /\ current' \in S /\ ~entry[current'].pending),
         Live' = Live \ S, reused' = reused
  PROVE  ServiceInv'
<1>1. /\ Live \subseteq heap /\ heap \subseteq DOMAIN entry
      /\ current \in DOMAIN entry \cup {None} /\ None \notin DOMAIN entry
      /\ \A o \in DOMAIN entry : entry[o].id \in Ids
  BY ShapeFacts
<1>2. ASSUME NEW o \in Live', entry[o].id \notin reused
      PROVE  requests'[entry[o].id] = requests[entry[o].id]
  <2>1. o \in InService /\ o \notin S /\ S \subseteq InService /\ entry[o].id \in Ids
    BY <1>1 DEF InService
  <2>2. \A q \in S : entry[q].id # entry[o].id
    BY <1>2, <2>1 DEF ServiceInv, OneInService
  <2> QED
    BY <2>1, <2>2 DEF Popped
<1>3. InService' \subseteq InService
  BY DEF InService, Popped
<1>4. current' \notin heap'
  BY <1>1 DEF Popped, ServiceInv
<1>5. current' # None => ~entry'[current'].pending
  BY <1>1 DEF ServiceInv, IdsAndDataStay
<1> QED
  BY <1>2, <1>3, <1>4, <1>5, LeavingKeepsService DEF IdsAndDataStay

LEMMA IdleKeepsService ==
  ASSUME QueueShape, ServiceInv, UNCHANGED <<entry, heap, requests>>,
         current' \in {current, None}, reused \subseteq reused'
  PROVE  ServiceInv'
<1>1. Live' = Live /\ InService' \subseteq InService
  BY DEF Live, InService
<1>2. current' \notin heap' /\ (current' # None => ~entry'[current'].pending)
  BY ShapeFacts DEF ServiceInv
<1> QED
  BY <1>1, <1>2, LeavingKeepsService
-----------------------------------------------------------------------------
(* The input of a request that is queued or served *)

Held == (Live \cup {current}) \ {None}

\* A request owns the upload registered under its id, complete once it waits for
\* its data no longer.
InputOf(o) ==
    LET i == entry[o].id IN
    upload[i].by = o /\ (upload[i].complete <=> ~entry[o].pending)

InputsKnown == \A o \in Held : entry[o].id \notin reused => InputOf(o)

RegisteredOnDisk == \A i \in Ids : upload[i].by # None => upload[i].by \in disk

Reading == task \in {"greeting", "preparing", "running", "closing", "reaping"}

InputIsHeld ==
    Reading /\ entry[current].id \notin reused => input = current

InputInv ==
    /\ InputsKnown
    /\ RegisteredOnDisk
    /\ InputIsHeld
    /\ (stage = "idle") = (current = None)

LEMMA HeldFacts ==
  ASSUME QueueShape
  PROVE  Held \subseteq InService /\ InService \subseteq DOMAIN entry
BY ShapeFacts DEF Held, InService

LEMMA InputOfStays ==
  ASSUME NEW o, InputOf(o), entry'[o].id = entry[o].id, entry'[o].pending = entry[o].pending,
         upload'[entry[o].id] = upload[entry[o].id]
  PROVE  InputOf(o)'
BY DEF InputOf, Registered

\* The file that is being encoded is not exchanged by a handler.
LEMMA HandlersKeepInput ==
  ASSUME QueueShape, EncodeInv, InputInv, UNCHANGED <<current, stage, encodeVars>>,
         DOMAIN entry \subseteq DOMAIN entry',
         \A o \in DOMAIN entry : entry'[o].id = entry[o].id,
         reused \subseteq reused'
  PROVE  InputIsHeld' /\ (stage' = "idle") = (current' = None)
<1>1. Reading' => Reading /\ current \in DOMAIN entry
  BY ShapeFacts DEF encodeVars, Reading, EncodeInv, Leased, InputInv
<1> QED
  BY <1>1 DEF InputInv, InputIsHeld, encodeVars

LEMMA RequestUploadKeepsInputs ==
  ASSUME FileInv, EncodeInv, ServiceInv, InputInv, NEW i \in Ids, RequestUpload(i)
  PROVE  ServiceInv' /\ InputInv'
<1> DEFINE n == Len(entry')
<1>1. PICK p \in Priorities : Enqueue(i, p, TRUE)
  BY DEF RequestUpload
<1>2. /\ Register(i, n)
      /\ reused' = IF InUse(i) THEN reused \cup {i} ELSE reused
      /\ UNCHANGED <<encodeVars, stage>>
  BY DEF RequestUpload, Confirm, workerVars
<1>3. Arrived(i, TRUE, n) /\ QueueShape
  BY <1>1, EnqueueFacts DEF FileInv
<1>4. ServiceInv'
  BY <1>2, <1>3, ArrivalKeepsService
<1> HIDE DEF n
<1>5. /\ n \notin DOMAIN entry /\ DOMAIN entry' = DOMAIN entry \cup {n}
      /\ n \in Requests /\ Live' = Live \cup {n} /\ current' = current
      /\ entry'[n].id = i /\ entry'[n].pending /\ IdsAndDataStay
  BY <1>3 DEF Arrived
<1>6. n # None
  BY <1>5, QueueAssumption DEF Requests, None
<1>7. /\ upload \in [Ids -> Uploads] /\ upload'[i] = [NoUpload EXCEPT !.by = n]
      /\ \A j \in Ids : j # i => upload'[j] = upload[j]
      /\ disk' = (disk \ ({upload[i].by} \ {input})) \cup {n}
  BY <1>2 DEF FileInv, Register
<1>8. upload'[i].by = n /\ ~upload'[i].complete
  BY <1>7 DEF NoUpload
<1>9. \A o \in InService : entry[o].id = i => i \in reused'
  BY <1>2 DEF InUse, InService
<1>10. Held' = Held \cup {n} /\ Held \subseteq InService /\ Held \subseteq DOMAIN entry
  BY <1>3, <1>5, <1>6, HeldFacts DEF Held
<1>11. InputsKnown'
  <2> SUFFICES ASSUME NEW o \in Held', entry'[o].id \notin reused' PROVE InputOf(o)'
    BY DEF InputsKnown
  <2>1. CASE o = n
    BY <2>1, <1>2, <1>5, <1>8 DEF InputOf, InputInv
  <2>2. CASE o # n
    <3>1. o \in Held /\ o \in InService /\ o \in DOMAIN entry
      BY <2>2, <1>10
    <3>2. entry'[o].id = entry[o].id /\ entry'[o].pending = entry[o].pending
      BY <3>1, <1>5 DEF IdsAndDataStay
    <3>3. entry[o].id # i /\ entry[o].id \in Ids /\ InputOf(o)
      BY <3>1, <3>2, <1>2, <1>3, <1>9, ShapeFacts DEF InputInv, InputsKnown
    <3> QED
      BY <3>2, <3>3, <1>2, <1>7, InputOfStays
  <2> QED
    BY <2>1, <2>2
<1>12. RegisteredOnDisk'
  <2>1. \A j \in Ids : j # i /\ upload[j].by # None => upload[j].by # upload[i].by
    BY DEF FileInv, UploadsOwned
  <2> QED
    BY <2>1, <1>7, <1>8 DEF RegisteredOnDisk, InputInv
<1>13. InputIsHeld' /\ (stage' = "idle") = (current' = None)
  BY <1>2, <1>3, <1>5, HandlersKeepInput DEF IdsAndDataStay
<1> QED
  BY <1>2, <1>4, <1>5, <1>11, <1>12, <1>13 DEF InputInv

\* A handler that concerns the id i and no other leaves the inputs of the others.
OthersStay(i) ==
    \A o \in Held' : entry[o].id # i /\ entry[o].id \notin reused' =>
        /\ o \in Held /\ entry[o].id \notin reused
        /\ entry'[o].pending = entry[o].pending /\ upload'[entry[o].id] = upload[entry[o].id]

LEMMA HandlerKeepsInputs ==
  ASSUME FileInv, EncodeInv, InputInv, NEW i \in Ids,
         DOMAIN entry' = DOMAIN entry, \A o \in DOMAIN entry : entry'[o].id = entry[o].id,
         UNCHANGED <<current, stage, encodeVars>>, reused \subseteq reused',
         Held' \subseteq Held, OthersStay(i),
         \A o \in Held' : entry[o].id = i /\ i \notin reused' => InputOf(o)',
         RegisteredOnDisk'
  PROVE  InputInv'
<1>1. QueueShape /\ Held \subseteq DOMAIN entry
  BY HeldFacts DEF FileInv
<1>2. InputsKnown'
  <2> SUFFICES ASSUME NEW o \in Held', entry'[o].id \notin reused' PROVE InputOf(o)'
    BY DEF InputsKnown
  <2>1. o \in DOMAIN entry /\ entry'[o].id = entry[o].id
    BY <1>1
  <2>2. CASE entry[o].id # i
    <3>1. /\ InputOf(o) /\ entry'[o].pending = entry[o].pending
          /\ upload'[entry[o].id] = upload[entry[o].id]
      BY <2>1, <2>2 DEF OthersStay, InputInv, InputsKnown
    <3> QED
      BY <2>1, <3>1, InputOfStays
  <2> QED
    BY <2>1, <2>2
<1>3. InputIsHeld' /\ (stage' = "idle") = (current' = None)
  BY <1>1, HandlersKeepInput
<1> QED
  BY <1>2, <1>3 DEF InputInv

\* Without a step of the queue.
LEMMA QuietQueue ==
  ASSUME QueueShape, UNCHANGED queueVars
  PROVE  /\ DOMAIN entry' = DOMAIN entry /\ \A o \in DOMAIN entry : entry'[o].id = entry[o].id
         /\ UNCHANGED <<entry, heap, requests, current, handed, Live, Held>>
BY DEF queueVars, Live, Held

\* A handler writes to the upload of i, or deletes it, and its file with it.
UploadOf(i) ==
    /\ \A j \in Ids : j # i => upload'[j] = upload[j]
    /\ \/ upload'[i].by = upload[i].by /\ disk' = disk
       \/ upload'[i].by = None /\ (disk \ {upload[i].by} \subseteq disk')

LEMMA UploadStaysOnDisk ==
  ASSUME FileInv, RegisteredOnDisk, NEW i \in Ids, UploadOf(i)
  PROVE  RegisteredOnDisk'
<1>1. \A j \in Ids : j # i /\ upload[j].by # None => upload[j].by # upload[i].by
  BY DEF FileInv, UploadsOwned
<1> QED
  BY <1>1 DEF RegisteredOnDisk, UploadOf

LEMMA RejectKeepsInputs ==
  ASSUME FileInv, EncodeInv, ServiceInv, InputInv, NEW i \in Ids, RejectUpload(i)
  PROVE  ServiceInv' /\ InputInv'
<1>1. /\ UNCHANGED queueVars /\ UNCHANGED <<current, stage, encodeVars>>
      /\ reused' = reused \cup {i} /\ QueueShape
      /\ upload' = [upload EXCEPT ![i] = NoUpload]
      /\ disk' = disk \ ({upload[i].by} \ {input})
      /\ upload \in [Ids -> Uploads]
  BY DEF RejectUpload, workerVars, queueVars, FileInv
<1>2. /\ DOMAIN entry' = DOMAIN entry /\ \A o \in DOMAIN entry : entry'[o].id = entry[o].id
      /\ UNCHANGED <<entry, heap, requests, current, handed, Live, Held>>
  BY <1>1, QuietQueue
<1>3. ServiceInv'
  BY <1>1, <1>2, IdleKeepsService
<1>4. UploadOf(i)
  BY <1>1 DEF UploadOf, NoUpload
<1>5. OthersStay(i)
  BY <1>1, <1>2, ShapeFacts, HeldFacts DEF OthersStay
<1>6. RegisteredOnDisk'
  BY <1>4, UploadStaysOnDisk DEF InputInv
<1> QED
  BY <1>1, <1>2, <1>3, <1>5, <1>6, HandlerKeepsInputs

LEMMA ResumeKeepsInputs ==
  ASSUME FileInv, EncodeInv, ServiceInv, InputInv, NEW i \in Ids, Resume(i)
  PROVE  ServiceInv' /\ InputInv'
<1>1. /\ UNCHANGED queueVars /\ UNCHANGED <<current, stage, encodeVars, reused, upload, disk>>
      /\ QueueShape
  BY DEF Resume, workerVars, uploadVars, queueVars, FileInv
<1>2. /\ DOMAIN entry' = DOMAIN entry /\ \A o \in DOMAIN entry : entry'[o].id = entry[o].id
      /\ UNCHANGED <<entry, heap, requests, current, handed, Live, Held>>
  BY <1>1, QuietQueue
<1>3. ServiceInv'
  BY <1>1, <1>2, IdleKeepsService
<1>4. \A o : InputOf(o)' = InputOf(o)
  BY <1>1, <1>2 DEF InputOf, Registered
<1>5. InputsKnown' /\ RegisteredOnDisk'
  BY <1>1, <1>2, <1>4 DEF InputInv, InputsKnown, RegisteredOnDisk
<1>6. InputIsHeld' /\ (stage' = "idle") = (current' = None)
  BY <1>1, <1>2, HandlersKeepInput
<1> QED
  BY <1>1, <1>2, <1>3, <1>5, <1>6 DEF InputInv

\* Data arrives, or fails to.
LEMMA WriteKeepsInputs ==
  ASSUME FileInv, EncodeInv, ServiceInv, InputInv, NEW i \in Ids, ReceiveChunk(i) \/ FallSilent(i)
  PROVE  ServiceInv' /\ InputInv'
<1>1. /\ UNCHANGED queueVars /\ UNCHANGED <<current, stage, encodeVars, reused, disk>>
      /\ QueueShape /\ Registered(i)
  BY DEF ReceiveChunk, FallSilent, workerVars, clientVars, queueVars, FileInv
<1>2. /\ \A j \in Ids : j # i => upload'[j] = upload[j]
      /\ upload'[i].by = upload[i].by /\ upload'[i].complete = upload[i].complete
  <2>1. upload \in [Ids -> Uploads] /\ upload[i] \in Uploads
    BY DEF FileInv
  <2>2. CASE ReceiveChunk(i)
    <3>1. upload' = [upload EXCEPT ![i] = [upload[i] EXCEPT !.size = @ + 1, !.silent = FALSE]]
      BY <2>1, <2>2 DEF ReceiveChunk
    <3> QED
      BY <2>1, <3>1 DEF Uploads
  <2>3. CASE FallSilent(i)
    BY <2>1, <2>3 DEF FallSilent, Uploads
  <2> QED
    BY <2>2, <2>3
<1>3. /\ DOMAIN entry' = DOMAIN entry /\ \A o \in DOMAIN entry : entry'[o].id = entry[o].id
      /\ UNCHANGED <<entry, heap, requests, current, handed, Live, Held>>
  BY <1>1, QuietQueue
<1>4. ServiceInv'
  BY <1>1, <1>3, IdleKeepsService
<1>5. OthersStay(i)
  BY <1>1, <1>2, <1>3, ShapeFacts, HeldFacts DEF OthersStay
<1>6. \A o \in Held' : entry[o].id = i /\ i \notin reused' => InputOf(o)'
  BY <1>1, <1>2, <1>3 DEF InputInv, InputsKnown, InputOf
<1>7. UploadOf(i)
  BY <1>1, <1>2 DEF UploadOf
<1>8. RegisteredOnDisk'
  BY <1>7, UploadStaysOnDisk DEF InputInv
<1> QED
  BY <1>1, <1>3, <1>4, <1>5, <1>6, <1>8, HandlerKeepsInputs

LEMMA FinalizeKeepsInputs ==
  ASSUME FileInv, EncodeInv, ServiceInv, InputInv, NEW i \in Ids, FinalizeUpload(i)
  PROVE  ServiceInv' /\ InputInv'
<1>1. /\ UNCHANGED <<stage, encodeVars, reused, disk>>
      /\ QueueShape /\ Registered(i)
      /\ upload' = [upload EXCEPT ![i].complete = TRUE] /\ upload \in [Ids -> Uploads]
  BY DEF FinalizeUpload, workerVars, clientVars, FileInv
<1>2. /\ \A j \in Ids : j # i => upload'[j] = upload[j]
      /\ upload'[i].by = upload[i].by /\ upload'[i].complete
  BY <1>1 DEF Uploads
<1>3. UploadOf(i)
  BY <1>1, <1>2 DEF UploadOf
<1>4. RegisteredOnDisk'
  BY <1>3, UploadStaysOnDisk DEF InputInv
<1>5. CASE requests[i] # None
  <2>1. MarkDataReady(i)
    BY <1>5 DEF FinalizeUpload
  <2>2. /\ requests[i] \in Live /\ entry[requests[i]].id = i
        /\ DOMAIN entry' = DOMAIN entry
        /\ UNCHANGED <<heap, requests, current, Live>>
        /\ \A o \in DOMAIN entry : entry'[o].id = entry[o].id
        /\ ~entry'[requests[i]].pending
        /\ \A o \in DOMAIN entry : o # requests[i] => entry'[o].pending = entry[o].pending
    BY <1>1, <2>1, MarkFacts
  <2>3. Held' = Held /\ Held \subseteq DOMAIN entry /\ Held \subseteq InService
    BY <1>1, <2>2, HeldFacts DEF Held
  <2>4. OthersStay(i)
    BY <1>1, <1>2, <2>2, <2>3, ShapeFacts DEF OthersStay
  <2>5. requests[i] \in InService
    BY <1>1, <2>2, ShapeFacts DEF InService
  <2>6. ASSUME NEW o \in Held', entry[o].id = i, i \notin reused'
        PROVE  InputOf(o)'
    <3>1. o = requests[i]
      BY <1>1, <2>2, <2>3, <2>5, <2>6 DEF ServiceInv, OneInService
    <3>2. InputOf(o) /\ entry'[o].id = i
      BY <1>1, <2>2, <2>3, <2>6 DEF InputInv, InputsKnown, InputOf
    <3> QED
      BY <1>1, <1>2, <2>2, <2>6, <3>1, <3>2 DEF InputOf
  <2>7. ServiceInv'
    BY <1>1, <2>1, MarkKeepsService
  <2> QED
    BY <1>1, <1>4, <2>2, <2>3, <2>4, <2>6, <2>7, HandlerKeepsInputs
<1>6. CASE requests[i] = None
  <2>1. UNCHANGED queueVars
    BY <1>6 DEF FinalizeUpload
  <2>2. /\ DOMAIN entry' = DOMAIN entry /\ \A o \in DOMAIN entry : entry'[o].id = entry[o].id
        /\ UNCHANGED <<entry, heap, requests, current, handed, Live, Held>>
    BY <1>1, <2>1, QuietQueue
  <2>3. OthersStay(i)
    BY <1>1, <1>2, <2>2, ShapeFacts, HeldFacts DEF OthersStay
  <2>4. ASSUME NEW o \in Held', entry[o].id = i, i \notin reused'
        PROVE  InputOf(o)'
    <3>1. o \notin Live /\ o = current /\ o # None
      BY <1>1, <1>6, <2>2, <2>4, ShapeFacts DEF ServiceInv, LiveIsFound, Held
    <3>2. InputOf(o) /\ ~entry[o].pending
      BY <1>1, <2>2, <2>4, <3>1 DEF InputInv, InputsKnown, InputOf, ServiceInv
    <3> QED
      BY <1>1, <1>2, <2>2, <2>4, <3>2 DEF InputOf
  <2>5. ServiceInv'
    BY <1>1, <2>2, IdleKeepsService
  <2> QED
    BY <1>1, <1>4, <2>2, <2>3, <2>4, <2>5, HandlerKeepsInputs
<1> QED
  BY <1>5, <1>6

\* An upload is deleted with its request, or because it fell silent.
LEMMA DeletionKeepsInputs ==
  ASSUME FileInv, EncodeInv, ServiceInv, InputInv, NEW i \in Ids,
         HandleCancel(i) \/ CheckUploadTimeout(i)
  PROVE  ServiceInv' /\ InputInv'
<1>1. /\ UNCHANGED <<stage, encodeVars, reused>> /\ QueueShape
      /\ upload' = [upload EXCEPT ![i] = NoUpload] /\ disk' = disk \ {upload[i].by}
      /\ upload \in [Ids -> Uploads]
  BY DEF HandleCancel, CheckUploadTimeout, CleanUp, workerVars, clientVars, FileInv
<1>2. UploadOf(i)
  BY <1>1 DEF UploadOf, NoUpload
<1>3. RegisteredOnDisk'
  BY <1>2, UploadStaysOnDisk DEF InputInv
<1>4. CASE Cancel(i)
  <2>1. /\ requests[i] \in Live /\ entry[requests[i]].id = i
        /\ DOMAIN entry' = DOMAIN entry /\ IdsAndDataStay
        /\ heap' = heap /\ current' = current /\ Live' = Live \ {requests[i]}
    BY <1>1, <1>4, CancelFacts
  <2>2. Held \subseteq DOMAIN entry /\ Held \subseteq InService /\ requests[i] \in InService
    BY <1>1, <2>1, HeldFacts, ShapeFacts DEF InService
  <2>3. Held' \subseteq Held /\ requests[i] \notin Held'
    BY <1>1, <2>1, ShapeFacts DEF Held, ServiceInv
  <2>4. OthersStay(i)
    BY <1>1, <2>1, <2>2, <2>3, ShapeFacts DEF OthersStay, IdsAndDataStay
  <2>5. \A o \in Held' : ~(entry[o].id = i /\ i \notin reused')
    BY <1>1, <2>1, <2>2, <2>3 DEF ServiceInv, OneInService
  <2>6. ServiceInv'
    BY <1>1, <1>4, CancelKeepsService
  <2> QED
    BY <1>1, <1>3, <2>1, <2>3, <2>4, <2>5, <2>6, HandlerKeepsInputs DEF IdsAndDataStay
<1>5. CASE ~Cancel(i)
  <2>1. UNCHANGED queueVars /\ requests[i] = None /\ ~upload[i].complete /\ upload[i].silent
    BY <1>5 DEF HandleCancel, CheckUploadTimeout
  <2>2. /\ DOMAIN entry' = DOMAIN entry /\ \A o \in DOMAIN entry : entry'[o].id = entry[o].id
        /\ UNCHANGED <<entry, heap, requests, current, handed, Live, Held>>
    BY <1>1, <2>1, QuietQueue
  <2>3. OthersStay(i)
    BY <1>1, <2>2, ShapeFacts, HeldFacts DEF OthersStay
  <2>4. ASSUME NEW o \in Held', entry[o].id = i, i \notin reused'
        PROVE  FALSE
    <3>1. o \notin Live /\ o = current /\ o # None
      BY <1>1, <2>1, <2>2, <2>4, ShapeFacts DEF ServiceInv, LiveIsFound, Held
    <3>2. InputOf(o) /\ ~entry[o].pending
      BY <1>1, <2>2, <2>4, <3>1 DEF InputInv, InputsKnown, ServiceInv
    <3> QED
      BY <2>1, <2>4, <3>2 DEF InputOf, Registered, NoUpload
  <2>5. ServiceInv'
    BY <1>1, <2>2, IdleKeepsService
  <2> QED
    BY <1>1, <1>3, <2>2, <2>3, <2>4, <2>5, HandlerKeepsInputs
<1> QED
  BY <1>4, <1>5

\* Steps of the worker and its task by which the queue, the uploads and their
\* owners stay.
LEMMA ServingKeepsInputs ==
  ASSUME FileInv, ServiceInv, InputInv, UNCHANGED queueVars, UNCHANGED <<upload, reused>>,
         RegisteredOnDisk', (stage' = "idle") = (stage = "idle"), InputIsHeld'
  PROVE  ServiceInv' /\ InputInv'
<1>1. QueueShape
  BY DEF FileInv
<1>2. UNCHANGED <<entry, heap, requests, current, Live, Held>>
  BY <1>1, QuietQueue
<1>3. ServiceInv'
  BY <1>1, <1>2, IdleKeepsService
<1>4. \A o : InputOf(o)' = InputOf(o)
  BY <1>2 DEF InputOf, Registered
<1>5. InputsKnown'
  BY <1>2, <1>4 DEF InputInv, InputsKnown
<1>6. (stage' = "idle") = (current' = None)
  BY <1>2 DEF InputInv
<1> QED
  BY <1>3, <1>5, <1>6 DEF InputInv

LEMMA TaskKeepsInputs ==
  ASSUME FileInv, EncodeInv, ServiceInv, InputInv,
         TaskStep \/ FfmpegExits \/ EncodeTimesOut \/ IdleWaitEnds
  PROVE  ServiceInv' /\ InputInv'
<1>1. UNCHANGED queueVars /\ UNCHANGED <<upload, disk, reused>>
  BY DEF TaskStep, TaskStarts, TaskGreets, StartFfmpeg, TaskSeesExit, TaskCloses, TaskReaps,
         FfmpegExits, EncodeTimesOut, IdleWaitEnds, workerVars, uploadVars, clientVars
<1>2. (stage' = "idle") = (stage = "idle")
  BY DEF TaskStep, TaskStarts, TaskGreets, StartFfmpeg, TaskSeesExit, TaskCloses, TaskReaps,
         FfmpegExits, EncodeTimesOut, IdleWaitEnds, workerVars
<1>3. RegisteredOnDisk'
  BY <1>1 DEF RegisteredOnDisk, InputInv
<1>4. UNCHANGED <<entry, current>>
  BY <1>1 DEF queueVars
<1>5. CASE TaskStarts
  <2>1. task = "new" /\ current # None
    BY <1>5 DEF TaskStarts, EncodeInv, Leased, InputInv
  <2>2. current \in Held
    BY <2>1 DEF Held
  <2>3. entry[current].id \notin reused => upload[entry[current].id].by = current
    BY <2>2 DEF InputInv, InputsKnown, InputOf
  <2>4. InputIsHeld'
    BY <1>1, <1>4, <1>5, <2>3 DEF TaskStarts, InputIsHeld, Reading, TaskEnds
  <2> QED
    BY <1>1, <1>2, <1>3, <2>4, ServingKeepsInputs
<1>6. CASE ~TaskStarts
  <2>1. input' = input
    BY <1>6 DEF TaskStep, TaskGreets, StartFfmpeg, TaskSeesExit, TaskCloses, TaskReaps,
                FfmpegExits, EncodeTimesOut, IdleWaitEnds
  <2>2. Reading' => Reading
    BY <1>6 DEF TaskStep, TaskGreets, StartFfmpeg, TaskSeesExit, TaskCloses, TaskReaps,
                FfmpegExits, EncodeTimesOut, IdleWaitEnds, CancelTask, TaskEnds, Reading
  <2>3. InputIsHeld'
    BY <1>1, <1>4, <2>1, <2>2 DEF InputIsHeld, InputInv
  <2> QED
    BY <1>1, <1>2, <1>3, <2>3, ServingKeepsInputs
<1> QED
  BY <1>5, <1>6

LEMMA AnsweringKeepsInputs ==
  ASSUME FileInv, EncodeInv, ServiceInv, InputInv,
         \/ AcquireReturns \/ EncodeReturns \/ TaskDrained
         \/ Answer \/ SendChunk \/ SendEnd \/ DeliveryBreaks
  PROVE  ServiceInv' /\ InputInv'
<1>1. UNCHANGED queueVars /\ UNCHANGED <<upload, reused>>
  BY DEF AcquireReturns, EncodeReturns, TaskDrained, LetGoOfInput, Answer, SendChunk, SendEnd,
         DeliveryBreaks, uploadVars, clientVars
<1>2. (stage' = "idle") = (stage = "idle")
  BY DEF AcquireReturns, EncodeReturns, TaskDrained, Answer, SendChunk, SendEnd,
         DeliveryBreaks, Tell
<1>3. RegisteredOnDisk'
  <2>1. CASE EncodeReturns \/ TaskDrained
    BY <2>1 DEF EncodeReturns, TaskDrained, LetGoOfInput, RegisteredOnDisk, InputInv
  <2>2. CASE AcquireReturns \/ Answer \/ SendChunk \/ SendEnd \/ DeliveryBreaks
    <3>1. UNCHANGED <<upload, disk>>
      BY <2>2 DEF AcquireReturns, Answer, SendChunk, SendEnd, DeliveryBreaks, uploadVars
    <3> QED
      BY <3>1 DEF RegisteredOnDisk, InputInv
  <2> QED
    BY <2>1, <2>2
<1>4. ~Reading'
  BY DEF AcquireReturns, EncodeReturns, TaskDrained, Answer, SendChunk, SendEnd,
         DeliveryBreaks, EncodeInv, Leased, Reading, encodeVars
<1>5. InputIsHeld'
  BY <1>4 DEF InputIsHeld
<1> QED
  BY <1>1, <1>2, <1>3, <1>5, ServingKeepsInputs

\* Steps by which the entries of the held requests stay as they are.
LEMMA QueueStepKeepsInputs ==
  ASSUME FileInv, InputInv, DOMAIN entry' = DOMAIN entry, IdsAndDataStay, Held' \subseteq Held,
         UNCHANGED <<upload, disk, reused>>, InputIsHeld',
         (stage' = "idle") = (current' = None)
  PROVE  InputInv'
<1>1. Held \subseteq DOMAIN entry
  BY HeldFacts DEF FileInv
<1>2. InputsKnown'
  <2> SUFFICES ASSUME NEW o \in Held', entry'[o].id \notin reused' PROVE InputOf(o)'
    BY DEF InputsKnown
  <2>1. o \in Held /\ entry'[o].id = entry[o].id /\ entry'[o].pending = entry[o].pending
    BY <1>1 DEF IdsAndDataStay
  <2>2. InputOf(o)
    BY <2>1 DEF InputInv, InputsKnown
  <2> QED
    BY <2>1, <2>2, InputOfStays
<1>3. RegisteredOnDisk'
  BY DEF RegisteredOnDisk, InputInv
<1> QED
  BY <1>2, <1>3 DEF InputInv

LEMMA TakeKeepsInputs ==
  ASSUME FileInv, EncodeInv, ServiceInv, InputInv, TakeRequest \/ SkipCancelled
  PROVE  ServiceInv' /\ InputInv'
<1>1. QueueShape /\ UNCHANGED <<upload, disk, reused>> /\ UNCHANGED encodeVars
  BY DEF FileInv, TakeRequest, SkipCancelled, uploadVars, clientVars
<1>2. CASE TakeRequest
  <2>1. /\ current = None /\ current' \in Live /\ ~entry[current'].pending
        /\ DOMAIN entry' = DOMAIN entry /\ IdsAndDataStay /\ Live' = Live \ {current'}
        /\ \E S \in SUBSET heap : current' \in S /\ S \cap Live = {current'} /\ Popped(S)
    BY <1>1, <1>2, DequeueFacts DEF TakeRequest
  <2>2. PICK S \in SUBSET heap : current' \in S /\ S \cap Live = {current'} /\ Popped(S)
    BY <2>1
  <2>3. Live' = Live \ S
    BY <2>1, <2>2
  <2>4. ServiceInv'
    BY <1>1, <2>1, <2>2, <2>3, PoppingKeepsService
  <2>5. Held' \subseteq Held
    BY <1>1, <2>1, ShapeFacts DEF Held
  <2>6. stage = "idle" /\ stage' # "idle" /\ current' # None
    BY <1>1, <1>2, <2>1, ShapeFacts DEF TakeRequest
  <2>7. ~Reading'
    BY <1>1, <2>6 DEF EncodeInv, Leased, Reading, encodeVars
  <2> QED
    BY <1>1, <2>1, <2>4, <2>5, <2>6, <2>7, QueueStepKeepsInputs DEF InputIsHeld
<1>3. CASE SkipCancelled
  <2>1. UNCHANGED <<entry, current, Live>> /\ \E S \in SUBSET (heap \ Live) : Popped(S)
    BY <1>1, <1>3, SkipFacts DEF SkipCancelled
  <2>2. PICK S \in SUBSET (heap \ Live) : Popped(S)
    BY <2>1
  <2>3. S \in SUBSET heap /\ Live' = Live \ S /\ IdsAndDataStay /\ DOMAIN entry' = DOMAIN entry
    BY <2>1 DEF IdsAndDataStay
  <2>4. ServiceInv'
    BY <1>1, <2>1, <2>2, <2>3, PoppingKeepsService
  <2>5. Held' \subseteq Held /\ stage' = stage
    BY <1>3, <2>1 DEF Held, SkipCancelled, workerVars
  <2>6. InputIsHeld' /\ (stage' = "idle") = (current' = None)
    BY <1>1, <2>1, <2>5 DEF InputIsHeld, InputInv, Reading, encodeVars
  <2> QED
    BY <1>1, <2>3, <2>4, <2>5, <2>6, QueueStepKeepsInputs
<1> QED
  BY <1>2, <1>3

LEMMA DoneKeepsInputs ==
  ASSUME FileInv, EncodeInv, ServiceInv, InputInv, BackOff \/ Finish
  PROVE  ServiceInv' /\ InputInv'
<1>1. /\ QueueShape /\ UNCHANGED <<entry, heap, requests, reused>> /\ UNCHANGED encodeVars
      /\ current # None /\ current' = None /\ stage' = "idle"
  BY DEF FileInv, BackOff, Finish, WorkerDone, clientVars
<1>2. ServiceInv'
  BY <1>1, IdleKeepsService
<1>3. Live' = Live /\ Held' \subseteq Held /\ current \notin Held'
  BY <1>1, ShapeFacts DEF Live, Held, ServiceInv
<1>4. ~Reading'
  BY <1>1 DEF BackOff, Finish, EncodeInv, Leased, Reading, encodeVars
<1>5. InputIsHeld' /\ (stage' = "idle") = (current' = None)
  BY <1>1, <1>4 DEF InputIsHeld
<1>6. CASE BackOff
  BY <1>1, <1>2, <1>3, <1>5, <1>6, QueueStepKeepsInputs DEF BackOff, uploadVars, IdsAndDataStay
<1>7. CASE Finish
  <2> DEFINE i == entry[current].id
  <2>1. /\ upload' = [upload EXCEPT ![i] = NoUpload] /\ disk' = disk \ {upload[i].by}
        /\ upload \in [Ids -> Uploads] /\ i \in Ids
    BY <1>1, <1>7, ShapeFacts DEF Finish, CleanUp, FileInv
  <2> HIDE DEF i
  <2>2. RegisteredOnDisk'
    BY <2>1, UploadStaysOnDisk DEF UploadOf, NoUpload, InputInv
  <2>3. InputsKnown'
    <3> SUFFICES ASSUME NEW o \in Held', entry[o].id \notin reused PROVE InputOf(o)'
      BY <1>1 DEF InputsKnown
    <3>1. o \in Held /\ o \in InService /\ current \in InService /\ o # current
      BY <1>1, <1>3, HeldFacts DEF InService
    <3>2. entry[o].id # i /\ entry[o].id \in Ids
      BY <1>1, <3>1, ShapeFacts, HeldFacts DEF ServiceInv, OneInService, i
    <3>3. InputOf(o)
      BY <3>1 DEF InputInv, InputsKnown
    <3> QED
      BY <1>1, <2>1, <3>2, <3>3, InputOfStays
  <2> QED
    BY <1>1, <1>2, <1>5, <2>2, <2>3 DEF InputInv
<1> QED
  BY <1>6, <1>7

LEMMA InitInputs == VideoInit => ServiceInv /\ InputInv
<1> SUFFICES ASSUME VideoInit PROVE ServiceInv /\ InputInv
  OBVIOUS
<1>1. /\ entry = <<>> /\ heap = {} /\ current = None /\ stage = "idle" /\ task = "none"
      /\ upload = [i \in Ids |-> NoUpload]
  BY DEF VideoInit, Init
<1>2. Live = {} /\ Held = {} /\ InService = {} /\ DOMAIN entry = {}
  BY <1>1 DEF Live, Held, InService
<1>3. ServiceInv
  BY <1>1, <1>2 DEF ServiceInv, OneInService, LiveIsFound
<1> QED
  BY <1>1, <1>2, <1>3
     DEF InputInv, InputsKnown, RegisteredOnDisk, InputIsHeld, Reading, NoUpload, None

LEMMA StepKeepsInputs ==
  FileInv /\ EncodeInv /\ ServiceInv /\ InputInv /\ [VideoNext]_videoVars => ServiceInv' /\ InputInv'
<1> SUFFICES ASSUME FileInv, EncodeInv, ServiceInv, InputInv, [VideoNext]_videoVars
             PROVE  ServiceInv' /\ InputInv'
  OBVIOUS
<1>1. ASSUME NEW i \in Ids, HandleVideoEncodeRequest(i) PROVE ServiceInv' /\ InputInv'
  BY <1>1, RequestUploadKeepsInputs, RejectKeepsInputs, ResumeKeepsInputs
     DEF HandleVideoEncodeRequest
<1>2. ASSUME NEW i \in Ids, HandleVideoData(i) \/ FallSilent(i) PROVE ServiceInv' /\ InputInv'
  BY <1>2, WriteKeepsInputs, FinalizeKeepsInputs DEF HandleVideoData
<1>3. ASSUME NEW i \in Ids, HandleCancel(i) \/ CheckUploadTimeout(i) PROVE ServiceInv' /\ InputInv'
  BY <1>3, DeletionKeepsInputs
<1>4. CASE TaskStep \/ FfmpegExits \/ EncodeTimesOut
  BY <1>4, TaskKeepsInputs
<1>5. CASE ServeStep
  BY <1>5, TaskKeepsInputs, AnsweringKeepsInputs, TakeKeepsInputs, DoneKeepsInputs DEF ServeStep
<1>6. CASE RequestAges \/ UNCHANGED videoVars
  <2>1. /\ UNCHANGED <<entry, heap, requests, current, upload, disk, reused, task, input, stage>>
    BY <1>6 DEF RequestAges, Age, videoVars, queueVars, uploadVars, clientVars, encodeVars, workerVars
  <2>2. ServiceInv'
    BY <2>1, IdleKeepsService DEF FileInv
  <2>3. Held' \subseteq Held /\ IdsAndDataStay /\ DOMAIN entry' = DOMAIN entry
    BY <2>1 DEF Held, Live, IdsAndDataStay
  <2>4. InputIsHeld' /\ (stage' = "idle") = (current' = None)
    BY <2>1 DEF InputInv, InputIsHeld, Reading
  <2> QED
    BY <2>1, <2>2, <2>3, <2>4, QueueStepKeepsInputs
<1> QED
  BY <1>1, <1>2, <1>3, <1>4, <1>5, <1>6 DEF VideoNext

LEMMA InputInvariant == VideoSpec => [](FileInv /\ EncodeInv /\ ServiceInv /\ InputInv)
<1>1. VideoSpec => []EncodeInv
  BY EncodeInvariant
<1>2. VideoInit => FileInv /\ ServiceInv /\ InputInv
  BY InitHasNoFiles, InitInputs
<1>3. EncodeInv /\ FileInv /\ ServiceInv /\ InputInv /\ [VideoNext]_videoVars
        => FileInv' /\ ServiceInv' /\ InputInv'
  BY StepKeepsFiles, StepKeepsInputs
<1> QED
  BY <1>1, <1>2, <1>3, PTL DEF VideoSpec

\* A queued request that waits for its data has an upload of its own that the
\* timeout checker watches, unless its id was asked for again while in use
\* (video_worker.py:231-249).
THEOREM PendingIsAlwaysWatched == VideoSpec => []PendingIsWatched
<1>1. FileInv /\ InputInv => PendingIsWatched
  <2> SUFFICES ASSUME FileInv, InputInv, NEW o \in Live, entry[o].pending,
                      entry[o].id \notin reused
               PROVE  upload[entry[o].id].by = o /\ ~upload[entry[o].id].complete
    BY DEF PendingIsWatched
  <2>1. o \in Held
    BY ShapeFacts DEF FileInv, Held
  <2> QED
    BY <2>1 DEF InputInv, InputsKnown, InputOf
<1> QED
  BY <1>1, InputInvariant, PTL

\* While ffmpeg runs, the input its request uploaded is the file it reads, and
\* the file is there, whatever its client and the others do meanwhile, unless
\* the id was asked for again while in use (video_worker.py:273-274,319-324).
THEOREM InputStaysThere == VideoSpec => []InputStays
<1>1. FileInv /\ EncodeInv /\ InputInv => InputStays
  <2> SUFFICES ASSUME FileInv, EncodeInv, InputInv, ffmpeg # "none",
                      entry[current].id \notin reused
               PROVE  input = current /\ input \in disk
    BY DEF InputStays
  <2>1. Reading /\ current # None
    BY DEF EncodeInv, Leased, Reading, InputInv
  <2>2. input = current /\ current \in Held /\ current \in DOMAIN entry
    BY <2>1, ShapeFacts DEF InputInv, InputIsHeld, Held, FileInv
  <2>3. upload[entry[current].id].by = current
    BY <2>2 DEF InputInv, InputsKnown, InputOf
  <2>4. entry[current].id \in Ids
    BY <2>2, ShapeFacts DEF FileInv
  <2> QED
    BY <2>1, <2>2, <2>3, <2>4 DEF InputInv, RegisteredOnDisk
<1> QED
  BY <1>1, InputInvariant, PTL
-----------------------------------------------------------------------------
(* The connection a request is answered on *)

ClientInv ==
    /\ DOMAIN socket = Requests /\ DOMAIN promised = Requests
    /\ QueuedKnowsItsClient

LEMMA QueueKeepsClients ==
  ASSUME FileInv, ClientInv, UNCHANGED <<socket, promised>>, reused \subseteq reused',
         Live' \subseteq Live, \A o \in DOMAIN entry : entry'[o].id = entry[o].id
  PROVE  ClientInv'
<1>1. Live \subseteq DOMAIN entry
  BY ShapeFacts DEF FileInv
<1> QED
  BY <1>1 DEF ClientInv, QueuedKnowsItsClient

LEMMA ArrivalKeepsClients ==
  ASSUME FileInv, ClientInv, NEW i \in Ids, RequestUpload(i)
  PROVE  ClientInv'
<1> DEFINE n == Len(entry')
<1>1. QueueShape /\ \E p \in Priorities : Enqueue(i, p, TRUE)
  BY DEF RequestUpload, FileInv
<1>2. /\ socket' = [socket EXCEPT ![n] = conn[i]] /\ promised' = [promised EXCEPT ![n] = conn[i]]
      /\ reused \subseteq reused'
  BY DEF RequestUpload, Confirm
<1>3. /\ n \notin DOMAIN entry /\ n \in Requests /\ Live' = Live \cup {n}
      /\ \A o \in DOMAIN entry : entry'[o].id = entry[o].id
  BY <1>1, EnqueueFacts DEF Arrived, IdsAndDataStay
<1> HIDE DEF n
<1>4. Live \subseteq DOMAIN entry
  BY <1>1, ShapeFacts
<1> QED
  BY <1>2, <1>3, <1>4 DEF ClientInv, QueuedKnowsItsClient

\* The queue's entry gets the new connection exactly when the resume of its id is
\* confirmed: the upload found under the id is that entry's.
LEMMA ResumeKeepsClients ==
  ASSUME FileInv, ServiceInv, InputInv, ClientInv, NEW i \in Ids, Resume(i)
  PROVE  ClientInv'
<1> DEFINE c == conn'[i]
           u == upload[i].by
<1>1. /\ QueueShape /\ UNCHANGED queueVars /\ reused' = reused /\ Registered(i)
      /\ socket' = IF requests[i] = None THEN socket ELSE [socket EXCEPT ![requests[i]] = c]
      /\ promised' = [promised EXCEPT ![u] = c]
  BY DEF Resume, UpdateWebsocket, FileInv
<1>2. UNCHANGED <<entry, requests, Live>>
  BY <1>1, QuietQueue
<1> HIDE DEF c, u
<1>3. /\ Live \subseteq DOMAIN entry /\ DOMAIN entry \subseteq Requests /\ None \notin Live
      /\ \A o \in DOMAIN entry : entry[o].id \in Ids
      /\ requests[i] # None => requests[i] \in Live /\ entry[requests[i]].id = i
  BY <1>1, ShapeFacts DEF ServiceInv
<1>4. u # None => entry[u].id = i
  BY DEF FileInv, UploadsOwned, u
<1>5. DOMAIN socket' = Requests /\ DOMAIN promised' = Requests
  BY <1>1 DEF ClientInv
<1>6. ASSUME NEW o \in Live, entry[o].id \notin reused PROVE socket'[o] = promised'[o]
  <2>1. o \in Requests /\ socket[o] = promised[o]
    BY <1>3, <1>6 DEF ClientInv, QueuedKnowsItsClient
  <2>2. CASE entry[o].id = i
    <3>1. requests[i] = o /\ o # None
      BY <1>3, <1>6, <2>2 DEF ServiceInv, LiveIsFound
    <3>2. u = o
      BY <1>1, <1>3, <1>6, <2>2 DEF InputInv, InputsKnown, InputOf, Held, u
    <3> QED
      BY <1>1, <2>1, <3>1, <3>2 DEF ClientInv
  <2>3. CASE entry[o].id # i
    <3>1. requests[i] # o /\ u # o
      BY <1>3, <1>4, <2>3
    <3> QED
      BY <1>1, <2>1, <3>1 DEF ClientInv
  <2> QED
    BY <2>2, <2>3
<1> QED
  BY <1>1, <1>2, <1>5, <1>6 DEF ClientInv, QueuedKnowsItsClient

LEMMA StepKeepsClients ==
  FileInv /\ ServiceInv /\ InputInv /\ ClientInv /\ [VideoNext]_videoVars => ClientInv'
<1> SUFFICES ASSUME FileInv, ServiceInv, InputInv, ClientInv, [VideoNext]_videoVars
             PROVE  ClientInv'
  OBVIOUS
<1>1. QueueShape
  BY DEF FileInv
<1>2. ASSUME UNCHANGED queueVars, UNCHANGED <<socket, promised>>, reused \subseteq reused'
      PROVE  ClientInv'
  BY <1>1, <1>2, QuietQueue, QueueKeepsClients
<1>3. ASSUME NEW i \in Ids, HandleVideoEncodeRequest(i) PROVE ClientInv'
  <2>1. CASE RejectUpload(i)
    BY <1>2, <2>1 DEF RejectUpload
  <2> QED
    BY <1>3, <2>1, ArrivalKeepsClients, ResumeKeepsClients DEF HandleVideoEncodeRequest
<1>4. ASSUME UNCHANGED clientVars PROVE UNCHANGED <<socket, promised>> /\ reused \subseteq reused'
  BY <1>4 DEF clientVars
<1>5. ASSUME NEW i \in Ids, Cancel(i), UNCHANGED clientVars PROVE ClientInv'
  BY <1>1, <1>4, <1>5, CancelFacts, QueueKeepsClients DEF IdsAndDataStay
<1>6. ASSUME NEW i \in Ids, MarkDataReady(i), UNCHANGED clientVars PROVE ClientInv'
  BY <1>1, <1>4, <1>6, MarkFacts, QueueKeepsClients
<1>7. ASSUME NEW i \in Ids,
             HandleVideoData(i) \/ HandleCancel(i) \/ FallSilent(i) \/ CheckUploadTimeout(i)
      PROVE  ClientInv'
  BY <1>2, <1>4, <1>5, <1>6, <1>7
     DEF HandleVideoData, ReceiveChunk, FinalizeUpload, HandleCancel, FallSilent, CheckUploadTimeout
<1>8. CASE TaskStep \/ FfmpegExits \/ EncodeTimesOut
  <2>1. UNCHANGED queueVars /\ UNCHANGED clientVars
    BY <1>8 DEF TaskStep, TaskStarts, TaskGreets, StartFfmpeg, TaskSeesExit, TaskCloses, TaskReaps,
                FfmpegExits, EncodeTimesOut
  <2> QED
    BY <2>1, <1>2, <1>4
<1>9. CASE ServeStep
  <2>1. UNCHANGED clientVars
    BY <1>9 DEF ServeStep, TakeRequest, SkipCancelled, BackOff, AcquireReturns, EncodeReturns,
                IdleWaitEnds, TaskDrained, Answer, SendChunk, SendEnd, DeliveryBreaks, Finish
  <2>2. CASE TakeRequest
    BY <1>1, <1>4, <2>1, <2>2, DequeueFacts, QueueKeepsClients DEF TakeRequest, IdsAndDataStay
  <2>3. CASE SkipCancelled
    BY <1>1, <1>4, <2>1, <2>3, SkipFacts, QueueKeepsClients DEF SkipCancelled
  <2>4. CASE BackOff \/ Finish
    BY <1>4, <2>1, <2>4, QueueKeepsClients DEF BackOff, Finish, WorkerDone, Live
  <2>5. CASE ~(TakeRequest \/ SkipCancelled \/ BackOff \/ Finish)
    <3>1. UNCHANGED queueVars
      BY <1>9, <2>5 DEF ServeStep, AcquireReturns, EncodeReturns, IdleWaitEnds, TaskDrained,
                        Answer, SendChunk, SendEnd, DeliveryBreaks
    <3> QED
      BY <3>1, <2>1, <1>2, <1>4
  <2> QED
    BY <2>2, <2>3, <2>4, <2>5
<1>10. CASE RequestAges
  BY <1>4, <1>10, QueueKeepsClients DEF RequestAges, Age, Live
<1>11. CASE UNCHANGED videoVars
  BY <1>2, <1>4, <1>11 DEF videoVars
<1> QED
  BY <1>3, <1>7, <1>8, <1>9, <1>10, <1>11 DEF VideoNext

\* A queued request will be answered on the connection its client last had
\* confirmed, unless its id was asked for again while in use: a resume that finds
\* an upload finds the queued request it is for (queue_manager.py:260-271).
THEOREM ClientsStayKnown == VideoSpec => []QueuedKnowsItsClient
<1>1. VideoInit => ClientInv
  BY DEF VideoInit, Init, ClientInv, QueuedKnowsItsClient, Live
<1>2. FileInv /\ ServiceInv /\ InputInv /\ ClientInv /\ [VideoNext]_videoVars => ClientInv'
  BY StepKeepsClients
<1>3. ClientInv => QueuedKnowsItsClient
  BY DEF ClientInv
<1> QED
  BY <1>1, <1>2, <1>3, InputInvariant, PTL DEF VideoSpec
-----------------------------------------------------------------------------
(* What is sent about a request *)

Messages == {"expired", "success", "failure", "timeout", "chunk", "end"}

NoFinal(o) == \A k \in 1..Len(sent[o]) : sent[o][k] \notin Final

Finished(o) ==
    /\ Len(sent[o]) > 0 /\ sent[o][Len(sent[o])] \in Final
    /\ \A k \in 1..(Len(sent[o]) - 1) : sent[o][k] \notin Final

SilentStages ==
    {"expired", "acquiring", "encoding", "recovering", "draining", "answering", "backoff"}

\* Nothing is sent about a request before its outcome is known, and nothing more
\* once its last message went out.
SentInv ==
    /\ stage \in SilentStages \cup {"idle", "streaming", "finishing"}
    /\ \A o \in Requests \ handed : sent[o] = <<>>
    /\ \A o \in handed \ {current} : IF o \in dropped THEN sent[o] = <<>> ELSE Finished(o)
    /\ stage \in SilentStages => sent[current] = <<>>
    /\ stage = "streaming" => NoFinal(current)
    /\ stage = "finishing" => Finished(current)

ReplyInv ==
    /\ sent \in [Requests -> Seq(Messages)]
    /\ SentInv
    /\ handed \subseteq DOMAIN entry /\ handed \cap heap = {} /\ dropped \subseteq handed
    /\ current # None => current \in handed
    /\ stage = "answering" => outcome \in {"success", "failure", "timeout"}
    /\ stage = "encoding" /\ task = "done" => outcome \in {"success", "failure"}
    /\ (stage = "backoff") <=> (current \in dropped)

\* Steps that send nothing, and leave the worker where it is.
LEMMA HandlersKeepReplies ==
  ASSUME FileInv, InputInv, ReplyInv, UNCHANGED <<current, handed, sent, dropped>>,
         stage' = stage \/ (stage \in {"encoding", "recovering"}
                            /\ stage' \in {"encoding", "recovering", "draining"}),
         outcome' = outcome \/ stage \in {"encoding", "recovering", "draining"},
         stage' = "encoding" /\ task' = "done" => outcome' \in {"success", "failure"},
         DOMAIN entry \subseteq DOMAIN entry', heap' \cap DOMAIN entry \subseteq heap
  PROVE  ReplyInv'
<1>1. handed \subseteq DOMAIN entry /\ dropped \subseteq handed /\ current \in DOMAIN entry \cup {None}
  BY ShapeFacts DEF ReplyInv, FileInv
<1>2. \A o \in handed : Finished(o)' = Finished(o) /\ NoFinal(o)' = NoFinal(o)
  BY <1>1 DEF Finished, NoFinal, Final
<1>3. stage = stage' \/ (stage' \in SilentStages /\ stage \in SilentStages)
  BY DEF SilentStages
<1>4. stage \in {"streaming", "finishing"} => current \in handed /\ current \in DOMAIN entry
  <2>1. stage \in {"streaming", "finishing"} => current # None
    BY DEF InputInv
  <2> QED
    BY <1>1, <2>1 DEF ReplyInv
<1>5. SentInv'
  <2>1. \A o \in Requests \ handed' : sent'[o] = <<>>
    BY DEF ReplyInv, SentInv
  <2>2. \A o \in handed' \ {current'} : IF o \in dropped' THEN sent'[o] = <<>> ELSE Finished(o)'
    BY <1>2 DEF ReplyInv, SentInv
  <2>3. stage' \in SilentStages => sent'[current'] = <<>>
    BY <1>3 DEF ReplyInv, SentInv
  <2>4. stage' = "streaming" => NoFinal(current)'
    BY <1>2, <1>3, <1>4 DEF ReplyInv, SentInv, SilentStages
  <2>5. stage' = "finishing" => Finished(current)'
    BY <1>2, <1>3, <1>4 DEF ReplyInv, SentInv, SilentStages
  <2>6. stage' \in SilentStages \cup {"idle", "streaming", "finishing"}
    BY <1>3 DEF ReplyInv, SentInv
  <2> QED
    BY <2>1, <2>2, <2>3, <2>4, <2>5, <2>6 DEF SentInv
<1>6. handed' \subseteq DOMAIN entry' /\ handed' \cap heap' = {}
  BY <1>1 DEF ReplyInv
<1>7. (stage' = "backoff") <=> (current' \in dropped')
  BY DEF ReplyInv
<1>8. stage' = "answering" => outcome' \in {"success", "failure", "timeout"}
  BY DEF ReplyInv
<1> QED
  BY <1>5, <1>6, <1>7, <1>8 DEF ReplyInv

LEMMA RequestsKeepReplies ==
  ASSUME FileInv, InputInv, ReplyInv, NEW i \in Ids,
         \/ HandleVideoEncodeRequest(i) \/ HandleVideoData(i) \/ HandleCancel(i)
         \/ FallSilent(i) \/ CheckUploadTimeout(i)
  PROVE  ReplyInv'
<1>1. QueueShape /\ UNCHANGED <<stage, outcome, dropped, sent, task>>
  BY DEF FileInv, HandleVideoEncodeRequest, RequestUpload, RejectUpload, Resume,
         HandleVideoData, ReceiveChunk, FinalizeUpload, HandleCancel, FallSilent,
         CheckUploadTimeout, workerVars, encodeVars
<1>2. ASSUME UNCHANGED <<current, handed>>, DOMAIN entry \subseteq DOMAIN entry',
             heap' \cap DOMAIN entry \subseteq heap
      PROVE  ReplyInv'
  BY <1>1, <1>2, HandlersKeepReplies DEF ReplyInv
<1>3. CASE RequestUpload(i)
  <2> DEFINE n == Len(entry')
  <2>1. \E p \in Priorities : Enqueue(i, p, TRUE)
    BY <1>3 DEF RequestUpload
  <2>2. /\ n \notin DOMAIN entry /\ DOMAIN entry' = DOMAIN entry \cup {n}
        /\ heap' = heap \cup {n} /\ current' = current /\ handed' = handed
    BY <1>1, <2>1, EnqueueFacts DEF Arrived, Enqueue
  <2> HIDE DEF n
  <2> QED
    BY <1>2, <2>2
<1>4. CASE ~RequestUpload(i)
  <2>1. UNCHANGED queueVars \/ Cancel(i) \/ MarkDataReady(i)
    BY <1>4 DEF HandleVideoEncodeRequest, RejectUpload, Resume, HandleVideoData, ReceiveChunk,
                FinalizeUpload, HandleCancel, FallSilent, CheckUploadTimeout
  <2>2. CASE UNCHANGED queueVars
    BY <1>2, <2>2 DEF queueVars
  <2>3. CASE Cancel(i)
    BY <1>1, <1>2, <2>3, CancelFacts DEF Cancel
  <2>4. CASE MarkDataReady(i)
    BY <1>1, <1>2, <2>4, MarkFacts DEF MarkDataReady
  <2> QED
    BY <2>1, <2>2, <2>3, <2>4
<1> QED
  BY <1>3, <1>4

\* Steps of the encode task, and of the worker while the task ends.
LEMMA TaskKeepsReplies ==
  ASSUME FileInv, EncodeInv, InputInv, ReplyInv,
         TaskStep \/ FfmpegExits \/ EncodeTimesOut \/ IdleWaitEnds
  PROVE  ReplyInv'
<1>1. UNCHANGED <<entry, heap, current, handed, sent, dropped>>
  BY DEF TaskStep, TaskStarts, TaskGreets, StartFfmpeg, TaskSeesExit, TaskCloses, TaskReaps,
         FfmpegExits, EncodeTimesOut, IdleWaitEnds, workerVars, clientVars, queueVars
<1>2. CASE TaskStep
  <2>1. /\ stage' = stage /\ stage \in {"encoding", "recovering", "draining"}
        /\ task # "done"
        /\ (task' # "done" /\ outcome' = outcome) \/ outcome' \in {"success", "failure"}
    BY <1>2 DEF TaskStep, TaskStarts, TaskGreets, StartFfmpeg, TaskSeesExit, TaskCloses,
                TaskReaps, TaskEnds, EncodeInv, Leased
  <2> QED
    BY <1>1, <2>1, HandlersKeepReplies
<1>3. CASE FfmpegExits
  <2>1. UNCHANGED <<stage, outcome, task>>
    BY <1>3 DEF FfmpegExits, workerVars
  <2> QED
    BY <1>1, <2>1, HandlersKeepReplies DEF ReplyInv
<1>4. CASE EncodeTimesOut
  <2>1. stage = "encoding" /\ stage' \in {"recovering", "draining"} /\ outcome' = outcome
    BY <1>4 DEF EncodeTimesOut
  <2> QED
    BY <1>1, <2>1, HandlersKeepReplies
<1>5. CASE IdleWaitEnds
  <2>1. stage = "recovering" /\ stage' = "draining" /\ outcome' = outcome
    BY <1>5 DEF IdleWaitEnds
  <2> QED
    BY <1>1, <2>1, HandlersKeepReplies
<1> QED
  BY <1>2, <1>3, <1>4, <1>5

\* Steps of the worker about the current request that send nothing.
LEMMA SilentStepKeepsReplies ==
  ASSUME FileInv, ReplyInv, UNCHANGED <<entry, heap, current, handed, sent, dropped>>,
         stage \in SilentStages \ {"backoff"}, stage' \in SilentStages \ {"backoff"},
         stage' = "answering" => outcome' \in {"success", "failure", "timeout"},
         stage' = "encoding" => task' # "done"
  PROVE  ReplyInv'
<1>1. \A o : Finished(o)' = Finished(o)
  BY DEF Finished, Final
<1>2. SentInv'
  BY <1>1 DEF SentInv, ReplyInv, SilentStages
<1> QED
  BY <1>2 DEF ReplyInv

LEMMA ServeKeepsReplies ==
  ASSUME FileInv, EncodeInv, ReplyInv, AcquireReturns \/ EncodeReturns \/ TaskDrained
  PROVE  ReplyInv'
<1>1. UNCHANGED <<entry, heap, current, handed, sent, dropped>>
  BY DEF AcquireReturns, EncodeReturns, TaskDrained, queueVars, clientVars
<1>2. /\ stage \in {"acquiring", "encoding", "draining"} /\ stage' \in {"encoding", "answering"}
      /\ stage' = "encoding" => task' # "done"
  BY DEF AcquireReturns, EncodeReturns, TaskDrained
<1>3. stage' = "answering" => outcome' \in {"success", "failure", "timeout"}
  BY DEF AcquireReturns, EncodeReturns, TaskDrained, ReplyInv
<1> QED
  BY <1>1, <1>2, <1>3, SilentStepKeepsReplies DEF SilentStages

LEMMA ToldFacts ==
  ASSUME sent \in [Requests -> Seq(Messages)], current \in Requests, NEW a \in Messages,
         sent' = [sent EXCEPT ![current] = Append(@, a)],
         UNCHANGED <<current>>, NoFinal(current)
  PROVE  /\ sent' \in [Requests -> Seq(Messages)]
         /\ \A o \in Requests \ {current} : sent'[o] = sent[o]
         /\ a \notin Final => NoFinal(current)'
         /\ a \in Final => Finished(current)'
<1> DEFINE s == sent[current]
<1>1. s \in Seq(Messages) /\ sent'[current] = Append(s, a)
  OBVIOUS
<1>2. /\ Len(sent'[current]) = Len(s) + 1 /\ sent'[current][Len(s) + 1] = a
      /\ \A k \in 1..Len(s) : sent'[current][k] = s[k] /\ Len(s) \in Nat
  BY <1>1
<1>3. /\ sent' \in [Requests -> Seq(Messages)]
      /\ \A o \in Requests \ {current} : sent'[o] = sent[o]
  BY <1>1
<1>4. \A k \in 1..Len(s) : s[k] \notin Final
  BY DEF NoFinal
<1>5. Len(s) \in Nat
  BY <1>1
<1> HIDE DEF s
<1>6. a \notin Final => NoFinal(current)'
  BY <1>2, <1>4, <1>5 DEF NoFinal
<1>7. a \in Final => Finished(current)'
  BY <1>2, <1>4, <1>5 DEF Finished
<1> QED
  BY <1>3, <1>6, <1>7

LEMMA TellKeepsReplies ==
  ASSUME FileInv, ServiceInv, ReplyInv, current # None, NoFinal(current), stage # "backoff",
         NEW a \in Messages, NEW next, Tell(a, next),
         \/ next = "finishing" /\ a \in Final
         \/ next = "streaming" /\ a \notin Final,
         UNCHANGED <<entry, heap, current, handed, dropped>>
  PROVE  ReplyInv'
<1>1. sent' = [sent EXCEPT ![current] = Append(@, a)] /\ stage' = next
  BY DEF Tell
<1>2. /\ handed \subseteq DOMAIN entry /\ DOMAIN entry \subseteq Requests
      /\ current \in handed /\ current \in Requests
  BY DEF ReplyInv, ServiceInv
<1>3. /\ sent' \in [Requests -> Seq(Messages)]
      /\ \A o \in Requests \ {current} : sent'[o] = sent[o]
      /\ a \notin Final => NoFinal(current)'
      /\ a \in Final => Finished(current)'
  BY <1>1, <1>2, ToldFacts DEF ReplyInv
<1>4. \A o \in Requests \ {current} : Finished(o)' = Finished(o)
  BY <1>3 DEF Finished, Final
<1>5. SentInv'
  <2>1. \A o \in Requests \ handed' : sent'[o] = <<>>
    BY <1>2, <1>3 DEF ReplyInv, SentInv
  <2>2. \A o \in handed' \ {current'} : IF o \in dropped' THEN sent'[o] = <<>> ELSE Finished(o)'
    BY <1>2, <1>3, <1>4 DEF ReplyInv, SentInv
  <2>3. stage' \notin SilentStages
    BY <1>1 DEF SilentStages
  <2>4. /\ stage' = "streaming" => NoFinal(current)'
        /\ stage' = "finishing" => Finished(current)'
    BY <1>1, <1>3
  <2> QED
    BY <1>1, <2>1, <2>2, <2>3, <2>4 DEF SentInv
<1>6. (stage' = "backoff") <=> (current' \in dropped')
  BY <1>1 DEF ReplyInv
<1> QED
  BY <1>1, <1>3, <1>5, <1>6 DEF ReplyInv

LEMMA AnswerKeepsReplies ==
  ASSUME FileInv, ServiceInv, InputInv, ReplyInv, Answer \/ SendChunk \/ SendEnd \/ DeliveryBreaks
  PROVE  ReplyInv'
<1>1. UNCHANGED <<entry, heap, current, handed, dropped>>
  BY DEF Answer, SendChunk, SendEnd, DeliveryBreaks, queueVars, clientVars
<1>2. stage \in {"expired", "answering", "streaming"}
  BY DEF Answer, SendChunk, SendEnd, DeliveryBreaks
<1>3. current # None /\ stage # "backoff"
  BY <1>2 DEF InputInv
<1>4. NoFinal(current)
  <2>1. CASE stage = "streaming"
    BY <2>1 DEF ReplyInv, SentInv
  <2>2. CASE stage # "streaming"
    <3>1. Len(sent[current]) = 0
      BY <1>2, <2>2 DEF ReplyInv, SentInv, SilentStages
    <3> QED
      BY <3>1 DEF NoFinal
  <2> QED
    BY <2>1, <2>2
<1>5. \E a \in Messages : \/ Tell(a, "finishing") /\ a \in Final
                          \/ Tell(a, "streaming") /\ a \notin Final
  <2>1. CASE Answer
    <3>1. CASE stage = "expired"
      BY <2>1, <3>1 DEF Answer, Messages, Final
    <3>2. CASE stage = "answering" /\ outcome # "success"
      BY <2>1, <3>2 DEF Answer, Messages, Final, ReplyInv
    <3>3. CASE stage = "answering" /\ outcome = "success"
      BY <2>1, <3>3 DEF Answer, Messages, Final
    <3> QED
      BY <2>1, <3>1, <3>2, <3>3 DEF Answer
  <2>2. CASE SendChunk
    BY <2>2 DEF SendChunk, Messages, Final, ReplyInv, SentInv
  <2>3. CASE SendEnd
    BY <2>3 DEF SendEnd, Messages, Final
  <2>4. CASE DeliveryBreaks
    BY <2>4 DEF DeliveryBreaks, Messages, Final
  <2> QED
    BY <2>1, <2>2, <2>3, <2>4
<1> QED
  BY <1>1, <1>3, <1>4, <1>5, TellKeepsReplies

LEMMA TakeKeepsReplies ==
  ASSUME FileInv, ServiceInv, ReplyInv, TakeRequest
  PROVE  ReplyInv'
<1>1. QueueShape /\ UNCHANGED <<sent>>
  BY DEF FileInv, TakeRequest, clientVars
<1>2. /\ current = None /\ current' \in Live /\ DOMAIN entry' = DOMAIN entry
      /\ handed' = handed \cup {current'}
      /\ \E S \in SUBSET heap : current' \in S /\ Popped(S)
  BY <1>1, DequeueFacts DEF TakeRequest
<1>3. heap' \subseteq heap \ {current'}
  BY <1>2 DEF Popped
<1>4. /\ Live \subseteq heap /\ heap \subseteq DOMAIN entry /\ None \notin DOMAIN entry
      /\ handed \subseteq DOMAIN entry /\ DOMAIN entry \subseteq Requests
      /\ handed \cap heap = {} /\ dropped \subseteq handed
  BY <1>1, ShapeFacts DEF ReplyInv, ServiceInv
<1>5. current' \in Requests \ handed /\ current' \notin dropped /\ None \notin handed
  BY <1>2, <1>4
<1>6. /\ stage' \in {"expired", "acquiring", "backoff"}
      /\ dropped' = IF stage' = "backoff" THEN dropped \cup {current'} ELSE dropped
  BY DEF TakeRequest
<1>7. \A o : Finished(o)' = Finished(o)
  BY <1>1 DEF Finished, Final
<1>8. SentInv'
  <2>1. \A o \in Requests \ handed' : sent'[o] = <<>>
    BY <1>1, <1>2 DEF ReplyInv, SentInv
  <2>2. \A o \in handed' \ {current'} : IF o \in dropped' THEN sent'[o] = <<>> ELSE Finished(o)'
    <3>1. \A o \in handed' \ {current'} : o \in handed \ {current} /\ (o \in dropped' <=> o \in dropped)
      BY <1>2, <1>5, <1>6
    <3> QED
      BY <3>1, <1>1, <1>7 DEF ReplyInv, SentInv
  <2>3. sent'[current'] = <<>> /\ stage' \in SilentStages /\ stage' \notin {"streaming", "finishing"}
    BY <1>1, <1>5, <1>6 DEF ReplyInv, SentInv, SilentStages
  <2> QED
    BY <2>1, <2>2, <2>3 DEF SentInv
<1>9. /\ handed' \subseteq DOMAIN entry' /\ handed' \cap heap' = {} /\ dropped' \subseteq handed'
      /\ current' \in handed'
  BY <1>2, <1>3, <1>4, <1>6
<1>10. (stage' = "backoff") <=> (current' \in dropped')
  BY <1>5, <1>6
<1> QED
  BY <1>1, <1>6, <1>8, <1>9, <1>10 DEF ReplyInv

LEMMA DoneKeepsReplies ==
  ASSUME FileInv, InputInv, ReplyInv, BackOff \/ Finish
  PROVE  ReplyInv'
<1>1. /\ QueueShape /\ UNCHANGED <<entry, heap, handed, sent, dropped>>
      /\ current # None /\ current' = None /\ stage' = "idle"
      /\ stage \in {"backoff", "finishing"}
  BY DEF FileInv, BackOff, Finish, WorkerDone, clientVars
<1>2. \A o : Finished(o)' = Finished(o)
  BY <1>1 DEF Finished, Final
<1>3. IF current \in dropped THEN sent[current] = <<>> ELSE Finished(current)
  BY <1>1 DEF ReplyInv, SentInv, SilentStages
<1>4. None \notin handed /\ dropped \subseteq handed
  BY <1>1, ShapeFacts DEF ReplyInv
<1>5. SentInv'
  <2>1. \A o \in Requests \ handed' : sent'[o] = <<>>
    BY <1>1 DEF ReplyInv, SentInv
  <2>2. \A o \in handed' \ {current'} : IF o \in dropped' THEN sent'[o] = <<>> ELSE Finished(o)'
    BY <1>1, <1>2, <1>3 DEF ReplyInv, SentInv
  <2> QED
    BY <1>1, <2>1, <2>2 DEF SentInv, SilentStages
<1> QED
  BY <1>1, <1>4, <1>5 DEF ReplyInv

LEMMA StepKeepsReplies ==
  FileInv /\ EncodeInv /\ ServiceInv /\ InputInv /\ ReplyInv /\ [VideoNext]_videoVars => ReplyInv'
<1> SUFFICES ASSUME FileInv, EncodeInv, ServiceInv, InputInv, ReplyInv, [VideoNext]_videoVars
             PROVE  ReplyInv'
  OBVIOUS
<1>1. ASSUME NEW i \in Ids,
             \/ HandleVideoEncodeRequest(i) \/ HandleVideoData(i) \/ HandleCancel(i)
             \/ FallSilent(i) \/ CheckUploadTimeout(i)
      PROVE  ReplyInv'
  BY <1>1, RequestsKeepReplies
<1>2. CASE TaskStep \/ FfmpegExits \/ EncodeTimesOut \/ IdleWaitEnds
  BY <1>2, TaskKeepsReplies
<1>3. CASE SkipCancelled
  <2>1. UNCHANGED <<stage, outcome, dropped, sent, task, handed>>
    BY <1>3 DEF SkipCancelled, workerVars, encodeVars, clientVars, DequeueNothing, DequeuePending
  <2>2. UNCHANGED <<entry, current>> /\ heap' \subseteq heap
    BY <1>3, SkipFacts DEF SkipCancelled, FileInv, Popped
  <2> QED
    BY <2>1, <2>2, HandlersKeepReplies DEF ReplyInv
<1>4. CASE RequestAges \/ UNCHANGED videoVars
  <2>1. UNCHANGED <<stage, outcome, dropped, sent, task, handed, entry, current, heap>>
    BY <1>4 DEF RequestAges, Age, videoVars, queueVars, workerVars, encodeVars, clientVars
  <2> QED
    BY <2>1, HandlersKeepReplies DEF ReplyInv
<1>5. CASE ServeStep
  BY <1>2, <1>3, <1>5, TakeKeepsReplies, DoneKeepsReplies, ServeKeepsReplies, AnswerKeepsReplies
     DEF ServeStep
<1> QED
  BY <1>1, <1>2, <1>4, <1>5 DEF VideoNext

LEMMA InitReplies == VideoInit => ReplyInv
<1> SUFFICES ASSUME VideoInit PROVE ReplyInv
  OBVIOUS
<1>1. /\ handed = {} /\ current = None /\ stage = "idle" /\ dropped = {}
      /\ sent = [o \in Requests |-> <<>>]
  BY DEF VideoInit, Init
<1>2. sent \in [Requests -> Seq(Messages)] /\ \A o \in Requests : sent[o] = <<>>
  BY <1>1
<1>3. SentInv
  BY <1>1, <1>2 DEF SentInv, SilentStages
<1> QED
  BY <1>1, <1>2, <1>3 DEF ReplyInv

\* Every request the worker is done with got one final message, the last one sent
\* about it, on every path through the encode, its timeout and the delivery of
\* its output; only one whose output file could not be made gets none
\* (video_worker.py:115-131,298-318).
THEOREM VideoIsAnsweredOnce == VideoSpec => []AnsweredOnce
<1>1. ServiceInv /\ InputInv /\ ReplyInv => AnsweredOnce
  <2> SUFFICES ASSUME ServiceInv, InputInv, ReplyInv, NEW o \in handed
               PROVE  /\ \A k \in DOMAIN sent[o] : sent[o][k] \in Final => k = Len(sent[o])
                      /\ o # current /\ o \notin dropped =>
                           sent[o] # <<>> /\ sent[o][Len(sent[o])] \in Final
    BY DEF AnsweredOnce
  <2> DEFINE s == sent[o]
  <2>1. s \in Seq(Messages)
    BY DEF ReplyInv, ServiceInv
  <2>2. DOMAIN s = 1..Len(s) /\ Len(s) \in Nat /\ (s = <<>> <=> Len(s) = 0)
    BY <2>1
  <2>3. s = <<>> \/ Finished(o) \/ NoFinal(o)
    <3>1. CASE o = current
      <4>1. stage # "idle"
        BY <3>1, QueueAssumption DEF InputInv, ReplyInv, ServiceInv, Requests, None
      <4> QED
        BY <3>1, <4>1 DEF ReplyInv, SentInv
    <3>2. CASE o # current
      BY <3>2 DEF ReplyInv, SentInv
    <3> QED
      BY <3>1, <3>2
  <2>4. o # current /\ o \notin dropped => Finished(o)
    BY DEF ReplyInv, SentInv
  <2> HIDE DEF s
  <2>5. \A k \in 1..Len(s) : s[k] \in Final => k = Len(s)
    BY <2>2, <2>3 DEF Finished, NoFinal, s
  <2> QED
    BY <2>2, <2>4, <2>5 DEF Finished, s
<1>2. VideoSpec => []ReplyInv
  BY InitReplies, StepKeepsReplies, InputInvariant, PTL DEF VideoSpec
<1> QED
  BY <1>1, <1>2, InputInvariant, PTL
=============================================================================
