--------------------------- MODULE LlmWorkerProofs ---------------------------
(***************************************************************************)
(* What the LLM worker keeps for any number of requests and ids, also when *)
(* a call into the model never returns: its executor works only for the    *)
(* request that holds the lease, a generation is cut short only by its own *)
(* timeout, and every request gets one answer.  The worker uses the queue  *)
(* as module QueueManager allows, so what is proved of the queue holds     *)
(* here as well.                                                           *)
(***************************************************************************)
EXTENDS LlmWorker, QueueManagerProofs

\* The coroutine exists exactly while its lease waits for it, its job exists
\* only while it awaits it, and the flag is down while it is in time.
JobInv ==
    /\ (stage \in {"waiting", "draining"}) = (gen # "none")
    /\ job # "none" => gen = "running"
    /\ gen \notin {"none", "new"} => jobOf = current
    /\ gen # "none" => weights
    /\ gen = "running" /\ stage = "waiting" => flag = None
    /\ "cancelled" \in {job, gen} => stage = "draining"

LEMMA QueueKeepsJob ==
  ASSUME JobInv, UNCHANGED <<current, stage, gen, job, jobOf, flag, weights>>
  PROVE  JobInv'
BY DEF JobInv

LEMMA LoopKeepsJob ==
  ASSUME JobInv, LoopStep
  PROVE  JobInv'
<1>1. CASE TakeRequest
  BY <1>1 DEF TakeRequest, JobInv
<1>2. CASE SkipCancelled
  BY <1>2, QueueKeepsJob DEF SkipCancelled, DequeueNothing
<1>3. CASE AcquireReturns
  BY <1>3 DEF AcquireReturns, queueVars, JobInv
<1>4. CASE GenerateBegins
  BY <1>4 DEF GenerateBegins, BeginOperation, queueVars, JobInv
<1>5. CASE GenerateReturns
  BY <1>5 DEF GenerateReturns, Results, queueVars, JobInv
<1>6. CASE WaitReturns
  BY <1>6 DEF WaitReturns, Results, queueVars, JobInv
<1>7. CASE Drained
  BY <1>7 DEF Drained, Results, queueVars, JobInv
<1>8. CASE Finish
  BY <1>8 DEF Finish, JobInv
<1> QED
  BY <1>1, <1>2, <1>3, <1>4, <1>5, <1>6, <1>7, <1>8 DEF LoopStep

LEMMA StepKeepsJob == JobInv /\ [LlmNext]_llmVars => JobInv'
<1> SUFFICES ASSUME JobInv, [LlmNext]_llmVars PROVE JobInv'
  OBVIOUS
<1>1. CASE Handlers
  <2>1. UNCHANGED current
    BY <1>1 DEF Handlers, Enqueue, Cancel, Age
  <2> QED
    BY <1>1, <2>1, QueueKeepsJob DEF Handlers
<1>2. CASE JobStarts
  BY <1>2 DEF JobStarts, queueVars, JobInv
<1>3. CASE StreamEnds
  BY <1>3 DEF StreamEnds, queueVars, JobInv
<1>4. CASE LoopStep
  BY <1>4, LoopKeepsJob
<1>5. CASE TimesOut
  BY <1>5 DEF TimesOut, queueVars, Results, JobInv
<1>6. CASE OtherEvicts
  BY <1>6 DEF OtherEvicts, Leased, queueVars, JobInv
<1>7. CASE UNCHANGED llmVars
  BY <1>7, QueueKeepsJob DEF llmVars, queueVars
<1> QED
  BY <1>1, <1>2, <1>3, <1>4, <1>5, <1>6, <1>7 DEF LlmNext, ExecutorStep

THEOREM JobInvariant == LlmSpec => []JobInv
<1>1. LlmInit => JobInv
  BY DEF LlmInit, Init, JobInv
<1> QED
  BY <1>1, StepKeepsJob, PTL DEF LlmSpec

\* No generation outlives its lease and none stands behind an earlier one: the
\* drain does what llm_worker.py:104 says, however long the executor takes.
THEOREM ExecutorServesLeaseHolder == LlmSpec => []JobIsTheLeaseHolders
<1>1. JobInv => JobIsTheLeaseHolders
  BY DEF JobInv, JobIsTheLeaseHolders, Leased
<1> QED
  BY <1>1, JobInvariant, PTL

\* A generation is cut short only by its own timeout (base_processor.py:122-127).
THEOREM CancellationIsOnesOwn == LlmSpec => []CancelsItsOwn
<1>1. JobInv => CancelsItsOwn
  BY DEF JobInv, CancelsItsOwn
<1> QED
  BY <1>1, JobInvariant, PTL
-----------------------------------------------------------------------------
(* The worker on its queue *)

\* Every step of the worker and its handlers is a step of the queue or leaves
\* it alone; all LLM requests come with their data.
LEMMA LlmStepIsQueueStep ==
  ASSUME FALSE \in Pendings, [LlmNext]_llmVars
  PROVE  [Next]_vars
<1>1. CASE Handlers
  BY <1>1 DEF Handlers, Next
<1>2. CASE TakeRequest
  BY <1>2 DEF TakeRequest, Next, WorkerStep
<1>3. CASE SkipCancelled
  BY <1>3 DEF SkipCancelled, Next, WorkerStep
<1>4. CASE Finish
  BY <1>4 DEF Finish, Next, WorkerStep
<1>5. ASSUME UNCHANGED queueVars PROVE [Next]_vars
  BY <1>5 DEF queueVars, vars
<1>6. CASE \/ JobStarts \/ StreamEnds \/ AcquireReturns \/ GenerateBegins \/ GenerateReturns
           \/ WaitReturns \/ Drained \/ TimesOut \/ OtherEvicts
  BY <1>5, <1>6 DEF JobStarts, StreamEnds, AcquireReturns, GenerateBegins, GenerateReturns,
                    WaitReturns, Drained, TimesOut, OtherEvicts
<1>7. CASE UNCHANGED llmVars
  BY <1>5, <1>7 DEF llmVars
<1> QED
  BY <1>1, <1>2, <1>3, <1>4, <1>6, <1>7 DEF LlmNext, ExecutorStep, LoopStep

THEOREM LlmImplementsQueue ==
  ASSUME FALSE \in Pendings
  PROVE  LlmSpec => Spec
<1>1. LlmInit => Init
  BY DEF LlmInit
<1>2. [LlmNext]_llmVars => [Next]_vars
  BY LlmStepIsQueueStep
<1> QED
  BY <1>1, <1>2, PTL DEF LlmSpec, Spec
-----------------------------------------------------------------------------
(* The answers *)

Unanswered(o) == o = current /\ stage \in {"acquiring", "waiting", "draining"}

\* How many answers each request has had, by what is known of it.
AnswerInv ==
    /\ Len(entry) <= MaxEnqueues
    /\ answers \in [Requests -> Seq(Results \cup {"timeout"})]
    /\ (stage = "idle") = (current = None)
    /\ current # None => current \in handed
    /\ \A o \in Requests : o \notin handed => answers[o] = <<>>
    /\ \A o \in handed : Unanswered(o) => answers[o] = <<>> /\ ~entry[o].timeoutExpired
    /\ \A o \in handed : ~Unanswered(o) =>
        Len(answers[o]) = IF entry[o].timeoutExpired THEN 0 ELSE 1

LEMMA EntriesAreRequests ==
  ASSUME IInv, AnswerInv
  PROVE  /\ DOMAIN entry \subseteq Requests /\ None \notin DOMAIN entry
         /\ handed \subseteq DOMAIN entry /\ heap \subseteq DOMAIN entry
         /\ entry \in Seq(QueuedRequest)
<1>1. entry \in Seq(QueuedRequest) /\ handed \subseteq DOMAIN entry /\ heap \subseteq DOMAIN entry
  BY DEF IInv, TypeOK
<1>2. DOMAIN entry = 1..Len(entry) /\ Len(entry) \in Nat
  BY <1>1
<1>3. MaxEnqueues \in Nat /\ Len(entry) <= MaxEnqueues
  BY QueueAssumption DEF AnswerInv
<1> QED
  BY <1>1, <1>2, <1>3 DEF Requests, None

\* An answer sent about the current request, which had none.
LEMMA TellKeepsAnswers ==
  ASSUME IInv, AnswerInv, NEW a \in Results \cup {"timeout"}, Tell(a),
         stage \in {"acquiring", "waiting", "draining"}, stage' \in {"telling", "finishing"},
         UNCHANGED queueVars
  PROVE  AnswerInv'
<1>1. UNCHANGED <<entry, current, handed>> /\ answers' = [answers EXCEPT ![current] = Append(@, a)]
  BY DEF queueVars, Tell
<1>2. /\ current \in handed /\ current \in Requests /\ answers[current] = <<>>
      /\ handed \subseteq Requests /\ ~entry[current].timeoutExpired /\ current # None
  <2>1. current # None
    BY DEF AnswerInv
  <2>2. current \in handed /\ handed \subseteq Requests
    BY <2>1, EntriesAreRequests DEF AnswerInv
  <2> QED
    BY <2>1, <2>2 DEF AnswerInv, Unanswered
<1>3. /\ Append(answers[current], a) \in Seq(Results \cup {"timeout"})
      /\ Len(Append(answers[current], a)) = 1
  BY <1>2
<1> DEFINE s == Append(answers[current], a)
<1>4. answers' = [answers EXCEPT ![current] = s]
  BY <1>1
<1> HIDE DEF s
<1>5. answers' \in [Requests -> Seq(Results \cup {"timeout"})] /\ Len(answers'[current]) = 1
      /\ \A o \in Requests : o # current => answers'[o] = answers[o]
  BY <1>2, <1>3, <1>4 DEF AnswerInv, s
<1>6. \A o \in handed : ~Unanswered(o)' /\ (o # current => ~Unanswered(o))
  BY <1>1 DEF Unanswered
<1>7. \A o \in handed : Len(answers'[o]) = IF entry'[o].timeoutExpired THEN 0 ELSE 1
  BY <1>1, <1>2, <1>5, <1>6 DEF AnswerInv
<1> QED
  BY <1>1, <1>2, <1>5, <1>6, <1>7 DEF AnswerInv

\* A step that sends nothing about a request that stays unanswered.
LEMMA SilenceKeepsAnswers ==
  ASSUME IInv, AnswerInv, UNCHANGED <<answers, current, handed>>,
         Len(entry') <= MaxEnqueues,
         \A o \in handed : entry'[o].timeoutExpired = entry[o].timeoutExpired,
         \/ stage' = stage
         \/ {stage, stage'} \subseteq {"acquiring", "waiting", "draining"}
  PROVE  AnswerInv'
<1>1. \A o \in handed : Unanswered(o)' <=> Unanswered(o)
  BY DEF Unanswered
<1>2. (stage' = "idle") = (stage = "idle")
  OBVIOUS
<1> QED
  BY <1>1, <1>2 DEF AnswerInv

LEMMA TakeKeepsAnswers ==
  ASSUME IInv, AnswerInv, TakeRequest
  PROVE  AnswerInv'
<1>1. PICK o \in heap :
        /\ current' = o /\ handed' = handed \cup {o}
        /\ entry' = [entry EXCEPT ![o].timeoutExpired = o <= aged,
                                  ![o].cancelled = @ \/ o <= aged]
  BY DEF TakeRequest, Dequeue
<1>2. /\ stage = "idle" /\ current = None /\ UNCHANGED answers
      /\ stage' = IF entry'[o].timeoutExpired THEN "finishing" ELSE "acquiring"
  BY <1>1 DEF TakeRequest, AnswerInv
<1>3. /\ o \in DOMAIN entry /\ o \in Requests /\ o # None /\ o \notin handed
      /\ handed \subseteq Requests /\ handed \subseteq DOMAIN entry
      /\ entry \in Seq(QueuedRequest)
  BY EntriesAreRequests DEF IInv, CancelledNeverServed
<1>4. Len(entry') = Len(entry) /\ \A p \in DOMAIN entry : p # o => entry'[p] = entry[p]
  BY <1>1, <1>3
<1>5. answers[o] = <<>> /\ \A p \in handed : ~Unanswered(p)
  BY <1>2, <1>3 DEF AnswerInv, Unanswered
<1>6. \A p \in handed : Len(answers[p]) = IF entry'[p].timeoutExpired THEN 0 ELSE 1
  BY <1>3, <1>4, <1>5 DEF AnswerInv
<1>7. \A p \in handed' : Unanswered(p)' <=> p = o /\ ~entry'[o].timeoutExpired
  BY <1>1, <1>2, <1>3 DEF Unanswered
<1>8. \A p \in handed' : Unanswered(p)' => answers'[p] = <<>> /\ ~entry'[p].timeoutExpired
  BY <1>2, <1>5, <1>7
<1>9. \A p \in handed' : ~Unanswered(p)' =>
        Len(answers'[p]) = IF entry'[p].timeoutExpired THEN 0 ELSE 1
  <2> SUFFICES ASSUME NEW p \in handed', ~Unanswered(p)'
               PROVE  Len(answers'[p]) = IF entry'[p].timeoutExpired THEN 0 ELSE 1
    OBVIOUS
  <2>1. CASE p \in handed
    BY <1>2, <1>6, <2>1
  <2>2. CASE p = o
    <3>1. entry'[p].timeoutExpired /\ answers'[p] = <<>>
      BY <1>2, <1>5, <1>7, <2>2
    <3> QED
      BY <3>1
  <2> QED
    BY <1>1, <2>1, <2>2
<1> QED
  BY <1>1, <1>2, <1>3, <1>4, <1>8, <1>9 DEF AnswerInv

LEMMA HandlersKeepAnswers ==
  ASSUME IInv, AnswerInv, Handlers
  PROVE  AnswerInv'
<1>1. entry \in Seq(QueuedRequest) /\ handed \subseteq DOMAIN entry
      /\ handed \cap heap = {} /\ MaxEnqueues \in Nat
  BY QueueAssumption DEF IInv, TypeOK, CancelledNeverServed
<1>2. UNCHANGED <<stage, answers>>
  BY DEF Handlers
<1>3. ASSUME NEW i \in Ids, NEW p \in Priorities, Enqueue(i, p, FALSE)
      PROVE  AnswerInv'
  <2>1. Len(entry') <= MaxEnqueues /\ \A o \in handed : entry'[o] = entry[o]
    BY <1>1, <1>3 DEF Enqueue
  <2> QED
    BY <1>2, <1>3, <2>1, SilenceKeepsAnswers DEF Enqueue
<1>4. ASSUME NEW i \in Ids, Cancel(i)
      PROVE  AnswerInv'
  <2>1. requests[i] \in heap
    BY <1>4 DEF Cancel, IInv, LookupSound
  <2>2. Len(entry') = Len(entry) /\ \A o \in handed : entry'[o] = entry[o]
    BY <1>1, <1>4, <2>1 DEF Cancel
  <2> QED
    BY <1>2, <1>4, <2>2, SilenceKeepsAnswers DEF Cancel, AnswerInv
<1>5. CASE Age
  BY <1>2, <1>5, SilenceKeepsAnswers DEF Age, AnswerInv
<1> QED
  BY <1>3, <1>4, <1>5 DEF Handlers

LEMMA StepKeepsAnswers ==
  ASSUME IInv, AnswerInv, JobInv, [LlmNext]_llmVars
  PROVE  AnswerInv'
<1>1. ASSUME UNCHANGED <<queueVars, stage, answers>> PROVE AnswerInv'
  BY <1>1, SilenceKeepsAnswers DEF queueVars, AnswerInv
<1>2. CASE Handlers
  BY <1>2, HandlersKeepAnswers
<1>3. CASE TakeRequest
  BY <1>3, TakeKeepsAnswers
<1>4. CASE SkipCancelled
  BY <1>4, SilenceKeepsAnswers DEF SkipCancelled, DequeueNothing, AnswerInv
<1>5. CASE AcquireReturns
  <2>1. CASE stage' = "waiting" /\ UNCHANGED answers
    BY <1>5, <2>1, SilenceKeepsAnswers DEF AcquireReturns, queueVars, AnswerInv
  <2>2. CASE stage' = "finishing" /\ Tell("error")
    BY <1>5, <2>2, TellKeepsAnswers DEF AcquireReturns, Results
  <2> QED
    BY <1>5, <2>1, <2>2 DEF AcquireReturns
<1>6. CASE WaitReturns
  BY <1>6, TellKeepsAnswers DEF WaitReturns
<1>7. CASE Drained
  BY <1>7, TellKeepsAnswers DEF Drained
<1>8. CASE TimesOut
  BY <1>8, SilenceKeepsAnswers DEF TimesOut, queueVars, AnswerInv
<1>9. CASE Finish
  <2>1. /\ stage \in {"telling", "finishing"} /\ stage' = "idle" /\ current' = None
        /\ UNCHANGED <<entry, handed, answers>>
    BY <1>9 DEF Finish, WorkerDone
  <2>2. \A o \in handed : ~Unanswered(o) /\ ~Unanswered(o)'
    BY <2>1 DEF Unanswered
  <2> QED
    BY <2>1, <2>2 DEF AnswerInv
<1>10. CASE JobStarts \/ StreamEnds \/ GenerateBegins \/ GenerateReturns \/ OtherEvicts
  BY <1>1, <1>10 DEF JobStarts, StreamEnds, GenerateBegins, GenerateReturns, OtherEvicts
<1>11. CASE UNCHANGED llmVars
  BY <1>1, <1>11 DEF llmVars
<1> QED
  BY <1>2, <1>3, <1>4, <1>5, <1>6, <1>7, <1>8, <1>9, <1>10, <1>11
     DEF LlmNext, ExecutorStep, LoopStep

\* No request is answered twice, and only one that expired in the queue is left
\* without an answer: through timeouts, refused leases and drained generations
\* (llm_worker.py:65-165).
THEOREM EachIsAnsweredOnce ==
  ASSUME FALSE \in Pendings
  PROVE  LlmSpec => []OneAnswerEach
<1>1. LlmInit => AnswerInv
  <2> SUFFICES ASSUME LlmInit PROVE AnswerInv
    OBVIOUS
  <2>1. /\ entry = <<>> /\ stage = "idle" /\ current = None /\ handed = {}
        /\ answers = [o \in Requests |-> <<>>]
    BY DEF LlmInit, Init
  <2>2. Len(entry) <= MaxEnqueues
    BY <2>1, QueueAssumption
  <2>3. answers \in [Requests -> Seq(Results \cup {"timeout"})]
    BY <2>1
  <2> QED
    BY <2>1, <2>2, <2>3 DEF AnswerInv
<1>2. IInv /\ JobInv /\ AnswerInv /\ [LlmNext]_llmVars => AnswerInv'
  BY StepKeepsAnswers
<1>3. LlmSpec => []IInv
  BY LlmImplementsQueue, QueueInvariant, PTL
<1>4. IInv /\ AnswerInv => OneAnswerEach
  <2> SUFFICES ASSUME IInv, AnswerInv, NEW o \in handed
               PROVE  /\ Len(answers[o]) <= 1
                      /\ o # current /\ answers[o] = <<>> => entry[o].timeoutExpired
    BY DEF OneAnswerEach
  <2>1. answers[o] \in Seq(Results \cup {"timeout"})
    BY EntriesAreRequests DEF AnswerInv
  <2>2. answers[o] = <<>> <=> Len(answers[o]) = 0
    BY <2>1
  <2>3. CASE Unanswered(o)
    BY <2>2, <2>3 DEF AnswerInv, Unanswered
  <2>4. CASE ~Unanswered(o)
    BY <2>2, <2>4 DEF AnswerInv
  <2> QED
    BY <2>3, <2>4
<1> QED
  BY <1>1, <1>2, <1>3, <1>4, JobInvariant, PTL DEF LlmSpec
=============================================================================
