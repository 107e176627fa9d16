------------------------ MODULE AudioRecoveryProofs ------------------------
(***************************************************************************)
(* Proofs about AudioRecovery, for any requests, any number of them and    *)
(* any stuck processor: no weights are freed under a GPU call, whisper     *)
(* never runs for a request whose lease is gone, and a request that starts *)
(* finds the models of its lease but for one failed swap.                  *)
(***************************************************************************)
EXTENDS AudioRecovery, SequenceTheorems, TLAPS

(***************************************************************************)
(* The inductive invariant.  A thread's queue holds calls of the task and  *)
(* loads and unloads of the residents.  The arguments turn on two facts:   *)
(* which calls of earlier requests may be left in a queue (CallInv), and   *)
(* what an admission moves is not what the lease holds (MoveInv).          *)
(***************************************************************************)
Outcomes == {"none", "ok", "error", "swapError", "raised", "dropped", "failed"}

TaskType ==
    [pc : {"none", "start", "swap", "begun", "run", "tail", "done"}, todo : Seq(Stages),
     at : Instances, outcome : Outcomes, cold : BOOLEAN]

TypeInv == TypeOK /\ task \in TaskType

IsCall(job) == job.kind \in {"swap", "infer"}
IsMove(job) == job.kind \in {"load", "unload"}

\* The lease has its task: the recovery has not come to its clean-up.
Serving == {"serve", "check", "waitIdle", "barrier", "signal", "close", "drain", "rebind", "discard"}

\* A call of the request being served.
IsCurrent(job) == IsCall(job) /\ pc \in Serving /\ job.req = req

Unlocking == {"admit", "loading", "signal", "close", "drain", "rebind"}
Replacing == {"barrier", "signal", "close", "drain", "rebind"}

\* What is closed is being replaced, or was.
ClosedShape ==
    \A x \in Instances : down[x] = "closed" =>
        x[2] < gen[x[1]] \/ (pc \in {"drain", "rebind"} /\ x = Live(watch))

\* An instance that is not made yet has no calls.
ShapeInv ==
    /\ \A x \in Instances : busy[x] => exec[x] # <<>>
    /\ \A x \in Instances : x[2] > gen[x[1]] => exec[x] = <<>>
    /\ pc \in Unlocking => lock = "worker"
    /\ pc \in {"drain", "rebind"} => down[Live(watch)] = "closed"
    /\ ClosedShape

\* A processor is recreated once in a request.
GenInv ==
    /\ \A p \in Processors : gen[p] <= req
    /\ pc \in {"acquire", "admit", "loading", "serve", "check", "waitIdle"} =>
         \A p \in Processors : gen[p] < req
    /\ pc \in Replacing => gen[watch] < req
    /\ pc \in Replacing => \A p \in Processors : ~idle[p] => gen[p] < req

TaskShape ==
    /\ Operating => task.todo # <<>>
    /\ \A i \in DOMAIN task.todo : task.todo[i] = "transcribe" => i = 1
    /\ task.pc = "swap" => Head(task.todo) = "transcribe"
    /\ task.outcome = "swapError" => task.pc \in {"swap", "done"}
    /\ task.outcome = "raised" => task.pc = "done"
    /\ task.at[2] <= gen[task.at[1]]
    /\ \A x \in Instances : processing[x] <=> x = task.at /\ Operating

TaskInv ==
    /\ task.pc # "none" <=> pc \in Serving
    /\ TaskShape

\* The call at place i of x's queue is what the task waits for.
AwaitedAt(x, i) ==
    LET job == exec[x][i]
    IN  Awaits(job) /\ x = task.at /\ (job.kind = "swap" <=> task.pc = "swap")

Entering == {"acquire", "admit", "loading"}

\* The task waits for the one call of its request; a call of an earlier request
\* has begun, on a processor other than the whisper in service.
CallOK(x, i) ==
    LET job == exec[x][i]
    IN  IsCall(job) =>
          /\ job.req <= req
          /\ pc \in Entering => job.req < req
          /\ job.kind = "swap" => job.model = "whisper"
          /\ IsCurrent(job) => AwaitedAt(x, i)
          /\ ~IsCurrent(job) => i = 1 /\ busy[x] /\ x # Live("whisper")

CallInv ==
    /\ \A x \in Instances : \A i \in DOMAIN exec[x] : CallOK(x, i)
    /\ \A x \in Instances : \A i, k \in DOMAIN exec[x] :
          IsCurrent(exec[x][i]) /\ IsCurrent(exec[x][k]) => i = k

\* One admission at a time moves a model, that of a processor in service, and
\* none that the lease holds.
MoveOK(x, job) ==
    IsMove(job) =>
      /\ x = Live(Owner[job.model])
      /\ job.kind = "load" => pc = "loading"
      /\ job.kind = "unload" => lock = "other" /\ job.model \in loaded \ held

MoveInv ==
    /\ \A x \in Instances : \A i \in DOMAIN exec[x] : MoveOK(x, exec[x][i])
    /\ \A x, y \in Instances : \A i \in DOMAIN exec[x] : \A k \in DOMAIN exec[y] :
          IsMove(exec[x][i]) /\ IsMove(exec[y][k]) => x = y /\ i = k

LeaseInv ==
    /\ pc \in Serving => Required \cap loaded \subseteq held
    /\ task.pc = "start" => Required \subseteq held \cap loaded

\* Nobody is about to unload m at x.
Stays(x, m) ==
    \A i \in DOMAIN exec[x] : exec[x][i].kind = "unload" => exec[x][i].model # m

\* The weights of a call are there, and are not unloaded before it.
HasWeights(x, i) ==
    exec[x][i].kind = "infer" =>
      /\ exec[x][i].model \in weights[x]
      /\ \A k \in 1..(i - 1) : exec[x][k].kind = "unload" => exec[x][k].model # exec[x][i].model

\* Those of the call that is to come are there too, once a swap has ended.
StageHasWeights ==
    task.pc \in {"swap", "begun"} /\ down[task.at] # "closed" =>
      LET m == ModelOf[Head(task.todo)]
      IN  /\ Stays(task.at, m)
          /\ task.pc = "begun" \/ task.outcome = "ok" => m \in weights[task.at]

CallsHaveWeights == \A x \in Instances : \A i \in DOMAIN exec[x] : HasWeights(x, i)

WeightInv == CallsHaveWeights /\ StageHasWeights

\* The recovery knows whether whisper went idle.
WhisperKnown ==
    \/ pc \in {"check", "waitIdle"} /\ watch = "pyannote"
    \/ pc \in Replacing \cup {"discard"}

OnWhisper == Operating /\ task.at = Live("whisper")

\* A task that was seen off whisper never comes back to it.
RecoveryInv ==
    /\ task.pc = "start" =>
         \/ pc \in {"serve", "discard"}
         \/ pc = "check" /\ (watch = "whisper" \/ idle["whisper"])
    /\ WhisperKnown /\ idle["whisper"] => ~OnWhisper
    /\ pc = "waitIdle" /\ watch = "whisper" /\ woken => ~OnWhisper
    /\ pc = "discard" => idle["whisper"]

\* A failed swap is recovered by replacing whisper, until it is no longer loaded.
RaisedInv ==
    task.outcome = "raised" =>
      \/ pc \in Replacing /\ watch = "whisper"
      \/ pc \in Replacing \cup {"discard"} /\ "whisper" \notin loaded

\* Whisper's weights are away for a swap, or for good if it failed.
SwapOut ==
    \/ task.outcome \in {"swapError", "raised"}
    \/ task.pc = "swap" /\ task.outcome = "none" /\ task.at = Live("whisper")

ResidentOK(m) ==
    \/ m \in weights[Live(Owner[m])]
    \/ pc = "rebind" /\ Owner[m] = watch
    \/ m = "whisper" /\ (swallowed \/ SwapOut)

ResidentInv == \A m \in loaded : ResidentOK(m)

IInv ==
    /\ TypeInv /\ ShapeInv /\ GenInv /\ TaskInv /\ CallInv /\ MoveInv
    /\ LeaseInv /\ WeightInv /\ RecoveryInv /\ RaisedInv /\ ResidentInv
-----------------------------------------------------------------------------
(* Facts about the helpers *)

LEMMA Names ==
  /\ \A s \in Stages : ModelOf[s] \in Models /\ ProcessorOf[s] \in Processors
  /\ \A m \in Models : Owner[m] \in Processors
  /\ \A s \in Stages : Owner[ModelOf[s]] = ProcessorOf[s]
  /\ \A s \in Stages : ProcessorOf[s] = "whisper" => s = "transcribe"
  /\ \A m \in Models : Owner[m] = "whisper" => m = "whisper"
BY DEF Stages, Models, Processors, ModelOf, ProcessorOf, Owner

LEMMA LiveIsInstance ==
  ASSUME TypeInv, NEW p \in Processors PROVE Live(p) \in Instances
BY DEF TypeInv, TypeOK, Live, Instances

LEMMA TaskFields ==
  ASSUME TypeInv
  PROVE  /\ task.pc \in {"none", "start", "swap", "begun", "run", "tail", "done"}
         /\ task.todo \in Seq(Stages)
         /\ task.at \in Instances
         /\ task.outcome \in Outcomes
         /\ task.cold \in BOOLEAN
BY DEF TypeInv, TaskType

\* The first of a queue's calls leaves, and the others move up.
LEMMA TailIs ==
  ASSUME NEW S, NEW s \in Seq(S), s # <<>>
  PROVE  /\ Tail(s) \in Seq(S)
         /\ Len(Tail(s)) = Len(s) - 1
         /\ DOMAIN Tail(s) = 1..(Len(s) - 1)
         /\ \A i \in 1..(Len(s) - 1) : Tail(s)[i] = s[i + 1]
         /\ Head(s) = s[1] /\ Head(s) \in S
         /\ Len(s) \in Nat /\ Len(s) >= 1
OBVIOUS

LEMMA AppendIs ==
  ASSUME NEW S, NEW s \in Seq(S), NEW e \in S
  PROVE  /\ Append(s, e) \in Seq(S)
         /\ DOMAIN Append(s, e) = 1..(Len(s) + 1)
         /\ \A i \in DOMAIN s : Append(s, e)[i] = s[i]
         /\ Append(s, e)[Len(s) + 1] = e
         /\ DOMAIN s = 1..Len(s) /\ Len(s) \in Nat
OBVIOUS

\* One of a queue's calls leaves, and those behind it move up.
LEMMA RemoveAtIs ==
  ASSUME NEW S, NEW s \in Seq(S), NEW n \in DOMAIN s
  PROVE  /\ RemoveAt(s, n) \in Seq(S)
         /\ DOMAIN RemoveAt(s, n) = 1..(Len(s) - 1)
         /\ \A i \in 1..(Len(s) - 1) : RemoveAt(s, n)[i] = IF i < n THEN s[i] ELSE s[i + 1]
         /\ DOMAIN s = 1..Len(s) /\ Len(s) \in Nat
<1> DEFINE a == SubSeq(s, 1, n - 1)
           b == SubSeq(s, n + 1, Len(s))
<1>1. n \in Nat /\ 1 <= n /\ n <= Len(s) /\ Len(s) \in Nat /\ DOMAIN s = 1..Len(s)
  OBVIOUS
<1>2. \A i \in 1..(n - 1) : i \in 1..Len(s)
  BY <1>1
<1>3. /\ a \in Seq(S) /\ Len(a) = n - 1
      /\ \A i \in 1..(n - 1) : a[i] = s[i]
  <2>1. 1 \in Int /\ n - 1 \in Int /\ \A i \in 1..(n - 1) : s[i] \in S
    BY <1>1
  <2>2. /\ a \in Seq(S)
        /\ Len(a) = IF 1 <= n - 1 THEN (n - 1) - 1 + 1 ELSE 0
        /\ \A i \in 1..((n - 1) - 1 + 1) : a[i] = s[1 + i - 1]
    BY <2>1, SubSeqProperties
  <2> HIDE DEF a
  <2> QED BY <1>1, <2>2
<1>4. /\ b \in Seq(S) /\ Len(b) = Len(s) - n
      /\ \A i \in 1..(Len(s) - n) : b[i] = s[n + i]
  <2>1. n + 1 \in Int /\ Len(s) \in Int /\ \A i \in (n + 1)..Len(s) : s[i] \in S
    BY <1>1
  <2>2. /\ b \in Seq(S)
        /\ Len(b) = IF n + 1 <= Len(s) THEN Len(s) - (n + 1) + 1 ELSE 0
        /\ \A i \in 1..(Len(s) - (n + 1) + 1) : b[i] = s[(n + 1) + i - 1]
    BY <2>1, SubSeqProperties
  <2> HIDE DEF b
  <2>3. Len(b) = Len(s) - n
    BY <1>1, <2>2
  <2>4. ASSUME NEW i \in 1..(Len(s) - n) PROVE b[i] = s[n + i]
    <3>1. i \in 1..(Len(s) - (n + 1) + 1) /\ (n + 1) + i - 1 = n + i
      BY <1>1
    <3> QED BY <2>2, <3>1
  <2> QED BY <2>2, <2>3, <2>4
<1>5. /\ a \o b \in Seq(S) /\ Len(a \o b) = Len(s) - 1
      /\ \A i \in 1..(Len(s) - 1) : (a \o b)[i] = IF i <= n - 1 THEN a[i] ELSE b[i - (n - 1)]
  <2>1. /\ a \o b \in Seq(S) /\ Len(a \o b) = Len(a) + Len(b)
        /\ \A i \in 1..(Len(a) + Len(b)) : (a \o b)[i] = IF i <= Len(a) THEN a[i] ELSE b[i - Len(a)]
    BY <1>3, <1>4, ConcatProperties
  <2> HIDE DEF a, b
  <2> QED BY <1>1, <1>3, <1>4, <2>1
<1> HIDE DEF a, b
<1>6. ASSUME NEW i \in 1..(Len(s) - 1) PROVE (a \o b)[i] = IF i < n THEN s[i] ELSE s[i + 1]
  <2>1. CASE i < n
    BY <1>1, <1>3, <1>5, <2>1
  <2>2. CASE i >= n
    <3>1. i - (n - 1) \in 1..(Len(s) - n) /\ n + (i - (n - 1)) = i + 1 /\ ~(i <= n - 1)
      BY <1>1, <2>2
    <3>2. (a \o b)[i] = b[i - (n - 1)]
      BY <1>5, <3>1
    <3>3. b[i - (n - 1)] = s[i + 1]
      BY <1>4, <3>1
    <3> QED BY <1>1, <2>2, <3>2, <3>3
  <2>3. i < n \/ i >= n
    BY <1>1
  <2> QED BY <2>1, <2>2, <2>3
<1>7. RemoveAt(s, n) = a \o b
  BY DEF RemoveAt, a, b
<1>8. DOMAIN (a \o b) = 1..(Len(s) - 1)
  BY <1>5, LenProperties
<1> QED BY <1>1, <1>5, <1>6, <1>7, <1>8
-----------------------------------------------------------------------------
(* Types *)

LEMMA FirstInstance == NoTask \in TaskType /\ "whisper" \in Processors /\ "pyannote" \in Processors
<1>1. <<"whisper", 0>> \in Instances
  BY RequestAssumption DEF Instances, Processors
<1>2. <<>> \in Seq(Stages)
  OBVIOUS
<1> QED BY <1>1, <1>2 DEF NoTask, TaskType, Outcomes, Processors

LEMMA RequestsType == \A s \in Requests : [NoTask EXCEPT !.todo = s] \in TaskType
BY FirstInstance, RequestAssumption DEF TaskType

LEMMA PopType ==
  ASSUME TypeInv, NEW x \in Instances, exec[x] # <<>>, Pop(x)
  PROVE  exec' \in [Instances -> Seq(Job)] /\ busy' \in [Instances -> BOOLEAN]
<1>1. exec[x] \in Seq(Job)
  BY DEF TypeInv, TypeOK
<1>2. Tail(exec[x]) \in Seq(Job)
  BY <1>1, HeadTailProperties
<1> QED BY <1>2 DEF TypeInv, TypeOK, Pop

LEMMA DeliverType ==
  ASSUME TypeInv, NEW job, NEW outcome \in Outcomes, Deliver(job, outcome)
  PROVE  task' \in TaskType
BY DEF TypeInv, TaskType, Deliver

LEMMA FinishType ==
  ASSUME TypeInv, NEW outcome \in Outcomes, Finish(outcome) PROVE task' \in TaskType
BY DEF TypeInv, TaskType, Finish

LEMMA StageFailsType == ASSUME TypeInv, NEW todo, StageFails(todo) PROVE task' \in TaskType
BY FinishType DEF StageFails, Outcomes

LEMMA EndOperationType ==
  ASSUME TypeInv, EndOperation
  PROVE  processing' \in [Instances -> BOOLEAN] /\ woken' \in BOOLEAN
<1>1. processing' \in [Instances -> BOOLEAN]
  BY DEF TypeInv, TypeOK, EndOperation
<1>2. woken' \in BOOLEAN
  BY Zenon DEF TypeInv, TypeOK, EndOperation
<1> QED BY <1>1, <1>2

LEMMA AppendType ==
  ASSUME TypeInv, NEW x \in Instances, NEW job \in Job,
         exec' = [exec EXCEPT ![x] = Append(@, job)]
  PROVE  exec' \in [Instances -> Seq(Job)]
<1>1. Append(exec[x], job) \in Seq(Job)
  BY AppendIs DEF TypeInv, TypeOK
<1> QED BY <1>1 DEF TypeInv, TypeOK

LEMMA JobType ==
  ASSUME TypeInv, NEW kind \in {"load", "unload", "swap", "infer"}, NEW m \in Models
  PROVE  [kind |-> kind, model |-> m, req |-> req] \in Job
BY DEF TypeInv, TypeOK, Job

LEMMA DispatchType ==
  ASSUME TypeInv, NEW kind \in {"load", "unload"}, NEW m \in Models, Dispatch(kind, m)
  PROVE  exec' \in [Instances -> Seq(Job)]
<1>1. Live(Owner[m]) \in Instances
  BY Names, LiveIsInstance
<1>2. [kind |-> kind, model |-> m, req |-> req] \in Job
  BY JobType
<1> QED BY <1>1, <1>2, AppendType DEF Dispatch

\* The flags a timeout raises.
LEMMA RaisedFlagsType ==
  ASSUME TypeInv
  PROVE  [x \in Instances |-> IF x = Live(x[1]) THEN req ELSE flag[x]]
           \in [Instances -> {AnyRequest} \cup 0..MaxRequests]
BY DEF TypeInv, TypeOK

LEMMA AdvanceType ==
  ASSUME TypeInv, NEW todo \in Seq(Stages), NEW ended \in [Instances -> BOOLEAN],
         Advance(todo, ended)
  PROVE  /\ task' \in TaskType
         /\ exec' \in [Instances -> Seq(Job)]
         /\ flag' \in [Instances -> {AnyRequest} \cup 0..MaxRequests]
         /\ processing' \in [Instances -> BOOLEAN]
<1> DEFINE x == Live(ProcessorOf[Head(todo)])
           m == ModelOf[Head(todo)]
<1>1. CASE Finish("ok") /\ processing' = ended /\ UNCHANGED <<exec, flag>>
  BY <1>1, FinishType DEF Outcomes, TypeInv, TypeOK
<1>2. CASE StageFails(todo) /\ processing' = ended /\ UNCHANGED <<exec, flag>>
  BY <1>2, StageFailsType DEF TypeInv, TypeOK
<1>3. ASSUME todo # <<>>, BeginOperation(x, ended),
             \/ /\ task' = [task EXCEPT !.pc = "begun", !.todo = todo, !.at = x]
                /\ exec' = exec
             \/ /\ task' = [task EXCEPT !.pc = "swap", !.todo = todo, !.at = x, !.outcome = "none"]
                /\ exec' = [exec EXCEPT ![x] = Append(@, [kind |-> "swap", model |-> m, req |-> req])]
      PROVE  /\ task' \in TaskType
             /\ exec' \in [Instances -> Seq(Job)]
             /\ flag' \in [Instances -> {AnyRequest} \cup 0..MaxRequests]
             /\ processing' \in [Instances -> BOOLEAN]
  <2>1. Head(todo) \in Stages
    BY <1>3, HeadTailProperties
  <2>2. x \in Instances /\ m \in Models
    BY <2>1, Names, LiveIsInstance
  <2>3. [kind |-> "swap", model |-> m, req |-> req] \in Job
    BY <2>2, JobType
  <2> HIDE DEF x, m
  <2>4. task' \in TaskType
    BY <1>3, <2>2 DEF TypeInv, TaskType, Outcomes
  <2>5. exec' \in [Instances -> Seq(Job)]
    <3>1. CASE exec' = exec
      BY <3>1 DEF TypeInv, TypeOK
    <3>2. CASE exec' = [exec EXCEPT ![x] = Append(@, [kind |-> "swap", model |-> m, req |-> req])]
      BY <2>2, <2>3, <3>2, AppendType
    <3> QED BY <1>3, <3>1, <3>2
  <2>6. /\ flag' \in [Instances -> {AnyRequest} \cup 0..MaxRequests]
        /\ processing' \in [Instances -> BOOLEAN]
    BY <1>3, <2>2, RequestAssumption DEF TypeInv, TypeOK, BeginOperation, None
  <2> QED BY <2>4, <2>5, <2>6
<1> QED BY <1>1, <1>2, <1>3 DEF Advance

LEMMA HeadJob ==
  ASSUME TypeInv, NEW x \in Instances, exec[x] # <<>>
  PROVE  /\ Head(exec[x]) \in Job /\ Head(exec[x]) = exec[x][1]
         /\ Head(exec[x]).model \in Models
<1>1. exec[x] \in Seq(Job)
  BY DEF TypeInv, TypeOK
<1>2. Head(exec[x]) \in Job /\ Head(exec[x]) = exec[x][1]
  BY <1>1
<1> QED BY <1>2 DEF Job

LEMMA TypeStep ==
  ASSUME TypeInv, ShapeInv, GenInv, TaskInv, [Next]_vars
  PROVE  TypeInv'
<1>0. CASE UNCHANGED vars
  BY <1>0 DEF TypeInv, TypeOK, Leased, vars, procVars, residentVars, workerVars
<1>1. CASE TakeRequest
  <2>1. req' \in 0..MaxRequests
    BY <1>1, RequestAssumption DEF TypeInv, TypeOK, TakeRequest
  <2>2. task' \in TaskType
    BY <1>1, RequestsType DEF TakeRequest
  <2> QED BY <1>1, <2>1, <2>2 DEF TypeInv, TypeOK, TakeRequest, TaskType, procVars, residentVars
<1>2. CASE OtherEvicts
  <2>1. exec' \in [Instances -> Seq(Job)]
    BY <1>2, DispatchType DEF OtherEvicts, TypeInv, TypeOK
  <2> QED BY <1>2, <2>1 DEF TypeInv, TypeOK, OtherEvicts, workerVars
<1>3. CASE EnterAdmission
  BY <1>3 DEF TypeInv, TypeOK, Leased, EnterAdmission, vars, procVars, residentVars, workerVars
<1>4. CASE LoadRequired
  <2>1. PICK i \in DOMAIN task.todo : Dispatch("load", ModelOf[task.todo[i]])
                                  /\ task' = [task EXCEPT !.cold = @ \/ ModelOf[task.todo[i]] = "whisper"]
    BY <1>4 DEF LoadRequired
  <2>2. task.todo[i] \in Stages
    BY TaskFields
  <2>3. exec' \in [Instances -> Seq(Job)]
    BY <2>1, <2>2, Names, DispatchType
  <2>4. (task.cold \/ ModelOf[task.todo[i]] = "whisper") \in BOOLEAN
    OBVIOUS
  <2>5. task' \in TaskType
    BY <2>1, <2>4 DEF TypeInv, TaskType
  <2> QED BY <1>4, <2>3, <2>5 DEF TypeInv, TypeOK, LoadRequired, TaskType, residentVars
<1>5. CASE GrantLease
  <2>1. Required \subseteq Models
    BY TaskFields, Names DEF Required, Range
  <2>2. task' \in TaskType
    BY <1>5 DEF GrantLease, TypeInv, TaskType
  <2> QED BY <1>5, <2>1, <2>2 DEF TypeInv, TypeOK, GrantLease, procVars, TaskType, Leased
<1>6. CASE TaskReturns
  BY <1>6, FirstInstance DEF TypeInv, TypeOK, TaskReturns, Release, procVars, TaskType
<1>7. CASE SwapErrorRaised
  <2>1. task' \in TaskType
    BY <1>7 DEF SwapErrorRaised, TypeInv, TaskType, Outcomes
  <2> QED BY <1>7, <2>1, FirstInstance DEF TypeInv, TypeOK, SwapErrorRaised, Leased, procVars,
     residentVars, TaskType
<1>8. CASE TimesOut
  BY <1>8, RaisedFlagsType, FirstInstance DEF TypeInv, TypeOK, TimesOut, Leased, residentVars
<1>9. CASE CheckIdle
  <2>1. /\ idle' \in [Processors -> BOOLEAN]
        /\ watch' \in Processors /\ pc' \in Leased /\ woken' \in BOOLEAN
    BY <1>9, FirstInstance DEF TypeInv, TypeOK, CheckIdle, Learn, Onward, Leased
  <2> QED BY <1>9, <2>1 DEF TypeInv, TypeOK, CheckIdle, procVars, residentVars
<1>10. CASE IdleWaitEnds
  <2>1. /\ idle' \in [Processors -> BOOLEAN]
        /\ watch' \in Processors /\ pc' \in Leased /\ woken' \in BOOLEAN
    BY <1>10, FirstInstance DEF TypeInv, TypeOK, IdleWaitEnds, WaitReturns, WentIdle, Learn,
     Onward, Leased
  <2> QED BY <1>10, <2>1 DEF TypeInv, TypeOK, IdleWaitEnds, procVars, residentVars
<1>11. CASE EnterBarrier
  BY <1>11 DEF TypeInv, TypeOK, Leased, EnterBarrier, vars, procVars, residentVars, workerVars
<1>12. CASE ShutdownSignals
  BY <1>12 DEF TypeInv, TypeOK, Leased, ShutdownSignals, vars, procVars, residentVars, workerVars
<1>13. CASE ShutdownCloses
  BY <1>13 DEF TypeInv, TypeOK, Leased, ShutdownCloses, vars, procVars, residentVars, workerVars
<1>14. CASE Drained
  BY <1>14 DEF TypeInv, TypeOK, Leased, Drained, vars, procVars, residentVars, workerVars
<1>15. CASE DrainTimesOut
  <2> DEFINE x == Live(watch)
  <2>1. x \in Instances /\ exec[x] \in Seq(Job) /\ exec[x] # <<>>
    BY <1>15, LiveIsInstance DEF TypeInv, TypeOK, DrainTimesOut
  <2>2. Begun(x) \in Seq(Job)
    BY <2>1, HeadJob DEF Begun
  <2>3. exec' \in [Instances -> Seq(Job)] /\ weights' = weights
    <3> HIDE DEF x
    <3>1. exec' = [exec EXCEPT ![x] = Begun(x)] /\ weights' = weights
      BY <1>15 DEF DrainTimesOut, Leak, x
    <3> QED BY <2>1, <2>2, <3>1 DEF TypeInv, TypeOK
  <2>4. task' = task \/ task' = [task EXCEPT !.outcome = "dropped"]
    BY <1>15 DEF DrainTimesOut
  <2>5. task' \in TaskType
    BY <2>4 DEF TypeInv, TaskType, Outcomes
  <2> QED BY <1>15, <2>3, <2>5 DEF TypeInv, TypeOK, DrainTimesOut, residentVars, Leased, TaskType
<1>16. CASE Rebind
  <2>1. gen' \in [Processors -> 0..MaxRequests]
    <3>1. gen[watch] + 1 \in 0..MaxRequests
      BY <1>16, RequestAssumption DEF TypeInv, TypeOK, GenInv, Rebind, Replacing
    <3> QED BY <1>16, <3>1 DEF TypeInv, TypeOK, Rebind
  <2>2. idle' \in [Processors -> BOOLEAN] /\ watch' \in Processors /\ pc' \in Leased
    BY <1>16, FirstInstance DEF TypeInv, TypeOK, Rebind, Onward, Leased
  <2> QED BY <1>16, <2>1, <2>2 DEF TypeInv, TypeOK, Rebind, ResetResidents
<1>17. CASE Discard
  <2>1. exec' \in [Instances -> Seq(Job)]
    <3>1. CASE exec' = exec
      BY <3>1 DEF TypeInv, TypeOK
    <3>2. ASSUME NEW i \in DOMAIN exec[task.at], exec' = [exec EXCEPT ![task.at] = RemoveAt(@, i)]
          PROVE  exec' \in [Instances -> Seq(Job)]
      <4>1. exec[task.at] \in Seq(Job)
        BY TaskFields DEF TypeInv, TypeOK
      <4>2. RemoveAt(exec[task.at], i) \in Seq(Job)
        BY <4>1, RemoveAtIs
      <4> QED BY <3>2, <4>2, TaskFields DEF TypeInv, TypeOK
    <3> QED BY <1>17, <3>1, <3>2 DEF Discard, CancelCall
  <2>2. processing' \in [Instances -> BOOLEAN]
    BY <1>17 DEF TypeInv, TypeOK, Discard
  <2>3. swallowed' \in BOOLEAN
    BY <1>17, Zenon DEF TypeInv, TypeOK, Discard
  <2> QED BY <1>17, <2>1, <2>2, <2>3, FirstInstance DEF TypeInv, TypeOK, Discard, residentVars, Leased, TaskType
<1>18. CASE TaskStarts
  <2>1. /\ task' \in TaskType
        /\ exec' \in [Instances -> Seq(Job)]
        /\ flag' \in [Instances -> {AnyRequest} \cup 0..MaxRequests]
        /\ processing' \in [Instances -> BOOLEAN]
    BY <1>18, AdvanceType, TaskFields DEF TypeInv, TypeOK, TaskStarts
  <2> QED BY <1>18, <2>1 DEF TypeInv, TypeOK, TaskStarts, TaskType, residentVars, workerVars
<1>19. CASE SwapReturns
  <2>1. task' \in TaskType
    <3>1. task.outcome \in Outcomes
      BY TaskFields
    <3> QED BY <1>19, <3>1, FinishType DEF SwapReturns, TypeInv, TaskType
  <2>2. processing' \in [Instances -> BOOLEAN] /\ woken' \in BOOLEAN
    BY <1>19, EndOperationType DEF SwapReturns, TypeInv, TypeOK
  <2> QED BY <1>19, <2>1, <2>2 DEF TypeInv, TypeOK, SwapReturns, TaskType, residentVars
<1>20. CASE CallModel
  <2>1. ASSUME task' = [task EXCEPT !.pc = "run", !.outcome = "none"] PROVE task' \in TaskType
    BY <2>1 DEF TypeInv, TaskType, Outcomes
  <2>2. task' \in TaskType
    BY <1>20, <2>1, StageFailsType DEF CallModel
  <2>3. processing' \in [Instances -> BOOLEAN] /\ woken' \in BOOLEAN
    BY <1>20, EndOperationType DEF CallModel, TypeInv, TypeOK
  <2>4. Head(task.todo) \in Stages
    BY <1>20, TaskFields, HeadTailProperties DEF CallModel, TaskInv, TaskShape, Operating
  <2>5. [kind |-> "infer", model |-> ModelOf[Head(task.todo)], req |-> req] \in Job
    BY <2>4, Names, JobType
  <2>6. exec' \in [Instances -> Seq(Job)]
    BY <1>20, <2>5, TaskFields, AppendType DEF CallModel, TypeInv, TypeOK
  <2> QED BY <1>20, <2>2, <2>3, <2>6 DEF TypeInv, TypeOK, CallModel, TaskType, residentVars
<1>21. CASE ModelReturns
  <2>1. ASSUME task' = [task EXCEPT !.pc = "tail"] PROVE task' \in TaskType
    BY <2>1 DEF TypeInv, TaskType, Outcomes
  <2>2. task' \in TaskType
    BY <1>21, <2>1, StageFailsType, FinishType DEF ModelReturns, Outcomes
  <2>3. processing' \in [Instances -> BOOLEAN] /\ woken' \in BOOLEAN
    BY <1>21, EndOperationType DEF ModelReturns, TypeInv, TypeOK
  <2> QED BY <1>21, <2>2, <2>3 DEF TypeInv, TypeOK, ModelReturns, TaskType, residentVars
<1>22. CASE StageEnds
  <2>1. Tail(task.todo) \in Seq(Stages)
    BY <1>22, TaskFields, HeadTailProperties DEF StageEnds, TaskInv, TaskShape, Operating
  <2>2. [processing EXCEPT ![task.at] = FALSE] \in [Instances -> BOOLEAN]
    BY DEF TypeInv, TypeOK
  <2>3. /\ task' \in TaskType
        /\ exec' \in [Instances -> Seq(Job)]
        /\ flag' \in [Instances -> {AnyRequest} \cup 0..MaxRequests]
        /\ processing' \in [Instances -> BOOLEAN]
    BY <1>22, <2>1, <2>2, AdvanceType DEF StageEnds
  <2>4. woken' \in BOOLEAN
    BY <1>22, Zenon DEF TypeInv, TypeOK, StageEnds
  <2> QED BY <1>22, <2>3, <2>4 DEF TypeInv, TypeOK, StageEnds, TaskType, residentVars
<1>23. CASE ClientGone
  BY <1>23, RaisedFlagsType DEF TypeInv, TypeOK, ClientGone, residentVars, workerVars
<1>24. ASSUME NEW x \in Instances, CallBegins(x) PROVE TypeInv'
  <2>1. task' \in TaskType
    BY <1>24, DeliverType DEF CallBegins, TypeInv, Outcomes
  <2>2. exec' \in [Instances -> Seq(Job)] /\ busy' \in [Instances -> BOOLEAN]
    <3>1. CASE Pop(x)
      BY <1>24, <3>1, PopType DEF CallBegins
    <3>2. CASE exec' = exec /\ busy' = [busy EXCEPT ![x] = TRUE]
      BY <3>2 DEF TypeInv, TypeOK
    <3> QED BY <1>24, <3>1, <3>2 DEF CallBegins
  <2>3. weights' \in [Instances -> SUBSET Models]
    BY <1>24 DEF TypeInv, TypeOK, CallBegins
  <2> QED BY <1>24, <2>1, <2>2, <2>3 DEF TypeInv, TypeOK, CallBegins, TaskType, residentVars,
     workerVars
<1>25. ASSUME NEW x \in Instances, SwapEnds(x) PROVE TypeInv'
  <2>1. exec[x] # <<>> /\ Pop(x)
    BY <1>25 DEF SwapEnds, Running, ShapeInv
  <2>2. exec' \in [Instances -> Seq(Job)] /\ busy' \in [Instances -> BOOLEAN]
    BY <2>1, PopType
  <2>3. task' \in TaskType
    BY <1>25, DeliverType DEF SwapEnds, Outcomes, TypeInv
  <2>4. weights' \in [Instances -> SUBSET Models] /\ loaded' \subseteq Models
    <3>1. weights[x] \cup {"whisper"} \in SUBSET Models
      BY DEF TypeInv, TypeOK, Models
    <3>2. weights' = weights \/ weights' = [weights EXCEPT ![x] = @ \cup {"whisper"}]
      BY <1>25 DEF SwapEnds
    <3> QED BY <1>25, <3>1, <3>2 DEF TypeInv, TypeOK, SwapEnds, residentVars
  <2>5. pc' \in {"idle", "acquire", "admit", "loading"} \cup Leased /\ lock' \in {"free",
     "worker", "other"}
    BY <1>25 DEF SwapEnds, TypeInv, TypeOK, residentVars, workerVars
  <2> QED BY <1>25, <2>2, <2>3, <2>4, <2>5 DEF TypeInv, TypeOK, SwapEnds, TaskType, residentVars,
     workerVars
<1>26. ASSUME NEW x \in Instances, LoadEnds(x) PROVE TypeInv'
  <2>1. exec[x] # <<>> /\ Pop(x)
    BY <1>26 DEF LoadEnds, Running, ShapeInv
  <2>2. exec' \in [Instances -> Seq(Job)] /\ busy' \in [Instances -> BOOLEAN]
    BY <2>1, PopType
  <2>3. task' \in TaskType
    BY <1>26, DeliverType DEF LoadEnds, Outcomes, TypeInv
  <2>4. weights' \in [Instances -> SUBSET Models] /\ loaded' \subseteq Models
    <3>1. Head(exec[x]).model \in Models
      BY <2>1, HeadJob
    <3>2. loaded' \in {loaded, loaded \cup {Head(exec[x]).model}, loaded \ {Head(exec[x]).model}}
      BY <1>26 DEF LoadEnds
    <3>3. weights' = weights \/ \E S \in SUBSET Models : weights' = [weights EXCEPT ![x] = S]
      <4>1. weights[x] \cup {Head(exec[x]).model} \in SUBSET Models
            /\ weights[x] \ {Head(exec[x]).model} \in SUBSET Models
        BY <3>1 DEF TypeInv, TypeOK
      <4> QED BY <1>26, <4>1 DEF LoadEnds
    <3> QED BY <3>1, <3>2, <3>3 DEF TypeInv, TypeOK
  <2>5. pc' \in {"idle", "acquire", "admit", "loading"} \cup Leased /\ lock' \in {"free",
     "worker", "other"}
    BY <1>26 DEF LoadEnds, TypeInv, TypeOK, residentVars, workerVars
  <2> QED BY <1>26, <2>2, <2>3, <2>4, <2>5 DEF TypeInv, TypeOK, LoadEnds, TaskType, residentVars,
     workerVars
<1>27. ASSUME NEW x \in Instances, UnloadEnds(x) PROVE TypeInv'
  <2>1. exec[x] # <<>> /\ Pop(x)
    BY <1>27 DEF UnloadEnds, Running, ShapeInv
  <2>2. exec' \in [Instances -> Seq(Job)] /\ busy' \in [Instances -> BOOLEAN]
    BY <2>1, PopType
  <2>3. task' \in TaskType
    BY <1>27, DeliverType DEF UnloadEnds, Outcomes, TypeInv
  <2>4. weights' \in [Instances -> SUBSET Models] /\ loaded' \subseteq Models
    <3>1. Head(exec[x]).model \in Models
      BY <2>1, HeadJob
    <3>2. loaded' \in {loaded, loaded \cup {Head(exec[x]).model}, loaded \ {Head(exec[x]).model}}
      BY <1>27 DEF UnloadEnds
    <3>3. weights' = weights \/ \E S \in SUBSET Models : weights' = [weights EXCEPT ![x] = S]
      <4>1. weights[x] \cup {Head(exec[x]).model} \in SUBSET Models
            /\ weights[x] \ {Head(exec[x]).model} \in SUBSET Models
        BY <3>1 DEF TypeInv, TypeOK
      <4> QED BY <1>27, <4>1 DEF UnloadEnds
    <3> QED BY <3>1, <3>2, <3>3 DEF TypeInv, TypeOK
  <2>5. pc' \in {"idle", "acquire", "admit", "loading"} \cup Leased /\ lock' \in {"free",
     "worker", "other"}
    BY <1>27 DEF UnloadEnds, TypeInv, TypeOK, residentVars, workerVars
  <2> QED BY <1>27, <2>2, <2>3, <2>4, <2>5 DEF TypeInv, TypeOK, UnloadEnds, TaskType,
     residentVars, workerVars
<1>28. ASSUME NEW x \in Instances, InferenceEnds(x) PROVE TypeInv'
  <2>1. exec[x] # <<>> /\ Pop(x)
    BY <1>28 DEF InferenceEnds, Running, ShapeInv
  <2>2. exec' \in [Instances -> Seq(Job)] /\ busy' \in [Instances -> BOOLEAN]
    BY <2>1, PopType
  <2>3. task' \in TaskType
    BY <1>28, DeliverType DEF InferenceEnds, Outcomes, TypeInv
  <2>4. weights' \in [Instances -> SUBSET Models] /\ loaded' \subseteq Models
    BY <1>28, <2>1, HeadJob DEF InferenceEnds, TypeInv, TypeOK, Models, residentVars
  <2>5. pc' \in {"idle", "acquire", "admit", "loading"} \cup Leased /\ lock' \in {"free",
     "worker", "other"}
    BY <1>28 DEF InferenceEnds, TypeInv, TypeOK, residentVars, workerVars
  <2> QED BY <1>28, <2>2, <2>3, <2>4, <2>5 DEF TypeInv, TypeOK, InferenceEnds, TaskType,
     residentVars, workerVars
<1>29. CASE SwapRecovered
  BY <1>29, FirstInstance DEF TypeInv, TypeOK, SwapRecovered, Release, procVars, TaskType
<1>30. CASE Synchronized
  BY <1>30, FirstInstance DEF TypeInv, TypeOK, Synchronized, Release, procVars, TaskType
<1> QED
  BY <1>0, <1>1, <1>2, <1>3, <1>4, <1>5, <1>6, <1>7, <1>8, <1>9, <1>10, <1>11,
     <1>12, <1>13, <1>14, <1>15, <1>16, <1>17, <1>18, <1>19, <1>20, <1>21, <1>22, <1>23,
     <1>24, <1>25, <1>26, <1>27, <1>28, <1>29, <1>30
  DEF Next, WorkerStep, TaskStep, CallEnds
-----------------------------------------------------------------------------
(* Queues, lock and recreations *)

QueueShape ==
    /\ \A x \in Instances : busy[x] => exec[x] # <<>>
    /\ \A x \in Instances : x[2] > gen[x[1]] => exec[x] = <<>>

LockShape ==
    /\ pc \in Unlocking => lock = "worker"
    /\ pc \in {"drain", "rebind"} => down[Live(watch)] = "closed"

LEMMA QueueFrame ==
  ASSUME QueueShape, UNCHANGED <<gen, exec, busy>> PROVE QueueShape'
BY DEF QueueShape

LEMMA QueueAfterAppend ==
  ASSUME TypeInv, QueueShape, NEW y \in Instances, NEW e \in Job,
         y[2] <= gen[y[1]], exec' = [exec EXCEPT ![y] = Append(@, e)], UNCHANGED <<gen, busy>>
  PROVE  QueueShape'
<1>1. exec[y] \in Seq(Job)
  BY DEF TypeInv, TypeOK
<1>2. Append(exec[y], e) # <<>>
  BY <1>1, AppendProperties
<1>3. \A x \in Instances : exec'[x] = IF x = y THEN Append(exec[y], e) ELSE exec[x]
  BY DEF TypeInv, TypeOK
<1>4. \A x \in Instances : x[2] \in Int /\ gen[x[1]] \in Int
  BY DEF TypeInv, TypeOK, Instances
<1> QED BY <1>2, <1>3, <1>4 DEF QueueShape

LEMMA QueueAfterPop ==
  ASSUME TypeInv, QueueShape, NEW y \in Instances, exec[y] # <<>>, Pop(y), UNCHANGED gen
  PROVE  QueueShape'
<1>1. \A x \in Instances : x # y => exec'[x] = exec[x] /\ busy'[x] = busy[x]
  BY DEF TypeInv, TypeOK, Pop
<1>2. ~busy'[y]
  BY DEF TypeInv, TypeOK, Pop
<1> QED BY <1>1, <1>2 DEF QueueShape

LEMMA QueueAfterDispatch ==
  ASSUME TypeInv, QueueShape, NEW m \in Models, NEW kind \in {"load", "unload"},
         Dispatch(kind, m), UNCHANGED <<gen, busy>>
  PROVE  QueueShape'
<1>1. Owner[m] \in Processors /\ Live(Owner[m]) \in Instances
  BY Names, LiveIsInstance
<1>2. Live(Owner[m])[2] <= gen[Live(Owner[m])[1]]
  BY <1>1 DEF Live, TypeInv, TypeOK
<1>3. [kind |-> kind, model |-> m, req |-> req] \in Job
  BY JobType
<1> QED BY <1>1, <1>2, <1>3, QueueAfterAppend DEF Dispatch

LEMMA QueueAfterAdvance ==
  ASSUME TypeInv, QueueShape, NEW todo \in Seq(Stages), NEW ended, Advance(todo, ended),
         UNCHANGED <<gen, busy>>
  PROVE  QueueShape'
<1> DEFINE x == Live(ProcessorOf[Head(todo)])
           e == [kind |-> "swap", model |-> ModelOf[Head(todo)], req |-> req]
<1>1. CASE exec' = exec
  BY <1>1, QueueFrame
<1>2. CASE todo # <<>> /\ exec' = [exec EXCEPT ![x] = Append(@, e)]
  <2>1. Head(todo) \in Stages
    BY <1>2, HeadTailProperties
  <2>2. ProcessorOf[Head(todo)] \in Processors /\ x \in Instances /\ e \in Job
    BY <2>1, Names, LiveIsInstance, JobType
  <2>3. x[2] <= gen[x[1]]
    BY <2>2 DEF Live, TypeInv, TypeOK
  <2> QED BY <1>2, <2>2, <2>3, QueueAfterAppend
<1> QED BY <1>1, <1>2 DEF Advance

LEMMA HeadMoveOK ==
  ASSUME TypeInv, QueueShape, MoveInv, NEW x \in Instances, NEW kind, Running(x, kind)
  PROVE  /\ exec[x] # <<>> /\ 1 \in DOMAIN exec[x] /\ Head(exec[x]) = exec[x][1]
         /\ exec[x][1].kind = kind /\ MoveOK(x, exec[x][1])
<1>1. exec[x] \in Seq(Job) /\ exec[x] # <<>>
  BY DEF Running, QueueShape, TypeInv, TypeOK
<1>2. 1 \in DOMAIN exec[x] /\ Head(exec[x]) = exec[x][1]
  BY <1>1
<1> QED BY <1>1, <1>2 DEF Running, MoveInv

\* The recovery goes on with a processor not known to be idle, or ends.
LEMMA OnwardGoes ==
  ASSUME NEW known \in [Processors -> BOOLEAN], Onward(known), watch \in Processors
  PROVE  /\ watch' \in Processors
         /\ \/ pc' = "barrier" /\ ~known[watch']
            \/ pc' = "discard" /\ known["whisper"] /\ known["pyannote"]
BY FirstInstance DEF Onward

LEMMA QueueStep ==
  ASSUME TypeInv, QueueShape, TaskInv, [Next]_vars
  PROVE  QueueShape'
<1>0. CASE UNCHANGED vars
  BY <1>0 DEF QueueShape, vars, procVars, residentVars, workerVars
<1>1. CASE TakeRequest
  BY <1>1, QueueFrame DEF TakeRequest, procVars
<1>2. CASE OtherEvicts
  BY <1>2, QueueAfterDispatch DEF OtherEvicts, TypeInv, TypeOK
<1>3. CASE EnterAdmission
  BY <1>3, QueueFrame DEF EnterAdmission, procVars
<1>4. CASE LoadRequired
  <2>1. PICK i \in DOMAIN task.todo : Dispatch("load", ModelOf[task.todo[i]])
    BY <1>4 DEF LoadRequired
  <2>2. task.todo[i] \in Stages
    BY TaskFields
  <2> QED BY <1>4, <2>1, <2>2, Names, QueueAfterDispatch DEF LoadRequired
<1>5. CASE GrantLease
  BY <1>5, QueueFrame DEF GrantLease, procVars
<1>6. CASE TaskReturns
  BY <1>6, QueueFrame DEF TaskReturns, procVars
<1>7. CASE SwapErrorRaised
  BY <1>7, QueueFrame DEF SwapErrorRaised, procVars
<1>8. CASE TimesOut
  BY <1>8, QueueFrame DEF TimesOut, procVars
<1>9. CASE CheckIdle
  BY <1>9, QueueFrame DEF CheckIdle, procVars
<1>10. CASE IdleWaitEnds
  BY <1>10, QueueFrame DEF IdleWaitEnds, procVars
<1>11. CASE EnterBarrier
  BY <1>11, QueueFrame DEF EnterBarrier, procVars
<1>12. CASE ShutdownSignals
  BY <1>12, QueueFrame DEF ShutdownSignals, procVars
<1>13. CASE ShutdownCloses
  BY <1>13, QueueFrame DEF ShutdownCloses, procVars
<1>14. CASE Drained
  BY <1>14, QueueFrame DEF Drained, procVars
<1>15. CASE DrainTimesOut
  <2> DEFINE y == Live(watch)
  <2>1. y \in Instances /\ exec' = [exec EXCEPT ![y] = Begun(y)] /\ UNCHANGED <<gen, busy>>
        /\ exec[y] # <<>>
    BY <1>15, LiveIsInstance DEF DrainTimesOut, TypeInv, TypeOK
  <2> HIDE DEF y
  <2>2. \A x \in Instances : exec'[x] = IF x = y THEN Begun(y) ELSE exec[x]
    BY <2>1 DEF TypeInv, TypeOK
  <2>3. busy[y] => Begun(y) # <<>>
    BY DEF Begun
  <2>4. y[2] > gen[y[1]] => Begun(y) = <<>>
    BY <2>1 DEF QueueShape
  <2> QED BY <2>1, <2>2, <2>3, <2>4 DEF QueueShape
<1>16. CASE Rebind
  <2>1. watch \in Processors /\ gen' = [gen EXCEPT ![watch] = @ + 1] /\ UNCHANGED <<exec, busy>>
    BY <1>16 DEF Rebind, TypeInv, TypeOK
  <2>2. \A p \in Processors : gen[p] \in Int /\ gen'[p] >= gen[p] /\ gen'[p] \in Int
    BY <2>1 DEF TypeInv, TypeOK
  <2>3. \A x \in Instances : x[1] \in Processors /\ x[2] \in Int
    BY DEF Instances
  <2>4. \A x \in Instances : x[2] > gen'[x[1]] => x[2] > gen[x[1]]
    BY <2>2, <2>3
  <2> QED BY <2>1, <2>4 DEF QueueShape
<1>17. CASE Discard
  <2>1. CASE exec' = exec
    BY <1>17, <2>1, QueueFrame DEF Discard
  <2>2. ASSUME NEW i \in DOMAIN exec[task.at], ~(busy[task.at] /\ i = 1),
               exec' = [exec EXCEPT ![task.at] = RemoveAt(@, i)]
        PROVE  QueueShape'
    <3> DEFINE y == task.at
    <3>1. y \in Instances /\ exec[y] \in Seq(Job) /\ y[2] <= gen[y[1]]
      BY TaskFields DEF TypeInv, TypeOK, TaskInv, TaskShape
    <3>2. \A x \in Instances : exec'[x] = IF x = y THEN RemoveAt(exec[y], i) ELSE exec[x]
      BY <2>2, <3>1 DEF TypeInv, TypeOK
    <3>3. busy[y] => RemoveAt(exec[y], i) # <<>>
      <4>1. DOMAIN RemoveAt(exec[y], i) = 1..(Len(exec[y]) - 1)
            /\ DOMAIN exec[y] = 1..Len(exec[y]) /\ Len(exec[y]) \in Nat
        BY <2>2, <3>1, RemoveAtIs
      <4>2. busy[y] => i > 1 /\ i <= Len(exec[y])
        BY <2>2, <4>1
      <4>3. busy[y] => 1 \in DOMAIN RemoveAt(exec[y], i)
        BY <4>1, <4>2
      <4>4. 1 \notin DOMAIN <<>>
        OBVIOUS
      <4> QED BY <4>3, <4>4
    <3> HIDE DEF y
    <3>4. \A x \in Instances : x[2] \in Int /\ gen[x[1]] \in Int
      BY DEF TypeInv, TypeOK, Instances
    <3> QED BY <1>17, <3>1, <3>2, <3>3, <3>4 DEF QueueShape, Discard
  <2> QED BY <1>17, <2>1, <2>2 DEF Discard, CancelCall
<1>18. CASE TaskStarts
  BY <1>18, QueueAfterAdvance, TaskFields DEF TaskStarts
<1>19. CASE SwapReturns
  BY <1>19, QueueFrame DEF SwapReturns, procVars
<1>20. CASE CallModel
  <2>1. CASE exec' = exec
    BY <1>20, <2>1, QueueFrame DEF CallModel
  <2>2. Head(task.todo) \in Stages
    BY <1>20, TaskFields, HeadTailProperties DEF CallModel, TaskInv, TaskShape, Operating
  <2>3. [kind |-> "infer", model |-> ModelOf[Head(task.todo)], req |-> req] \in Job
    BY <2>2, Names, JobType
  <2>4. task.at[2] <= gen[task.at[1]]
    BY DEF TaskInv, TaskShape
  <2> QED BY <1>20, <2>1, <2>3, <2>4, TaskFields, QueueAfterAppend DEF CallModel
<1>21. CASE ModelReturns
  BY <1>21, QueueFrame DEF ModelReturns, procVars
<1>22. CASE StageEnds
  <2>1. Tail(task.todo) \in Seq(Stages)
    BY <1>22, TaskFields, HeadTailProperties DEF StageEnds, TaskInv, TaskShape, Operating
  <2> QED BY <1>22, <2>1, QueueAfterAdvance DEF StageEnds
<1>23. CASE ClientGone
  BY <1>23, QueueFrame DEF ClientGone, procVars
<1>24. ASSUME NEW x \in Instances, CallBegins(x) PROVE QueueShape'
  <2>1. CASE Pop(x)
    BY <1>24, <2>1, QueueAfterPop DEF CallBegins
  <2>2. CASE busy' = [busy EXCEPT ![x] = TRUE] /\ exec' = exec
    BY <1>24, <2>2 DEF CallBegins, QueueShape, TypeInv, TypeOK
  <2> QED BY <1>24, <2>1, <2>2 DEF CallBegins
<1>25. ASSUME NEW x \in Instances, SwapEnds(x) PROVE QueueShape'
  BY <1>25, QueueAfterPop DEF SwapEnds, Running, QueueShape
<1>26. ASSUME NEW x \in Instances, LoadEnds(x) PROVE QueueShape'
  BY <1>26, QueueAfterPop DEF LoadEnds, Running, QueueShape
<1>27. ASSUME NEW x \in Instances, UnloadEnds(x) PROVE QueueShape'
  BY <1>27, QueueAfterPop DEF UnloadEnds, Running, QueueShape
<1>28. ASSUME NEW x \in Instances, InferenceEnds(x) PROVE QueueShape'
  BY <1>28, QueueAfterPop DEF InferenceEnds, Running, QueueShape
<1>29. CASE SwapRecovered
  BY <1>29, QueueFrame DEF SwapRecovered, procVars
<1>30. CASE Synchronized
  BY <1>30, QueueFrame DEF Synchronized, procVars
<1> QED
  BY <1>0, <1>1, <1>2, <1>3, <1>4, <1>5, <1>6, <1>7, <1>8, <1>9, <1>10, <1>11,
     <1>12, <1>13, <1>14, <1>15, <1>16, <1>17, <1>18, <1>19, <1>20, <1>21, <1>22, <1>23,
     <1>24, <1>25, <1>26, <1>27, <1>28, <1>29, <1>30
  DEF Next, WorkerStep, TaskStep, CallEnds

LEMMA LockStep ==
  ASSUME TypeInv, QueueShape, LockShape, MoveInv, RecoveryInv, [Next]_vars
  PROVE  LockShape'
<1>0. CASE UNCHANGED vars
  BY <1>0 DEF LockShape, Unlocking, TypeInv, TypeOK, Live, vars, procVars, residentVars, workerVars
<1>1. CASE TakeRequest
  BY <1>1 DEF LockShape, Unlocking, TypeInv, TypeOK, Live, TakeRequest, NoTask, vars, procVars,
     residentVars, workerVars
<1>2. CASE OtherEvicts
  BY <1>2 DEF LockShape, Unlocking, TypeInv, TypeOK, Live, OtherEvicts, Dispatch, vars, procVars,
     residentVars, workerVars
<1>3. CASE EnterAdmission
  BY <1>3 DEF LockShape, Unlocking, TypeInv, TypeOK, Live, EnterAdmission, vars, procVars,
     residentVars, workerVars
<1>4. CASE LoadRequired
  BY <1>4 DEF LockShape, Unlocking, TypeInv, TypeOK, Live, LoadRequired, Dispatch, vars,
     procVars, residentVars, workerVars
<1>5. CASE GrantLease
  BY <1>5 DEF LockShape, Unlocking, TypeInv, TypeOK, Live, GrantLease, vars, procVars,
     residentVars, workerVars
<1>6. CASE TaskReturns
  BY <1>6 DEF LockShape, Unlocking, TypeInv, TypeOK, Live, TaskReturns, Release, NoTask, vars,
     procVars, residentVars, workerVars
<1>7. CASE SwapErrorRaised
  BY <1>7 DEF LockShape, Unlocking, TypeInv, TypeOK, Live, SwapErrorRaised, vars, procVars,
     residentVars, workerVars
<1>8. CASE TimesOut
  BY <1>8 DEF LockShape, Unlocking, TypeInv, TypeOK, Live, TimesOut, vars, procVars,
     residentVars, workerVars
<1>9. CASE CheckIdle
  BY <1>9 DEF LockShape, Unlocking, TypeInv, TypeOK, Live, CheckIdle, Learn, Onward, vars,
     procVars, residentVars, workerVars
<1>10. CASE IdleWaitEnds
  BY <1>10 DEF LockShape, Unlocking, TypeInv, TypeOK, Live, IdleWaitEnds, Learn, Onward,
     WaitReturns, vars, procVars, residentVars, workerVars
<1>11. CASE EnterBarrier
  BY <1>11 DEF LockShape, Unlocking, TypeInv, TypeOK, Live, EnterBarrier, vars, procVars,
     residentVars, workerVars
<1>12. CASE ShutdownSignals
  BY <1>12 DEF LockShape, Unlocking, TypeInv, TypeOK, Live, ShutdownSignals, vars, procVars,
     residentVars, workerVars
<1>13. CASE ShutdownCloses
  <2>1. Live(watch) \in Instances /\ Live(watch)' = Live(watch)
    BY <1>13, LiveIsInstance DEF ShutdownCloses, Live, TypeInv, TypeOK
  <2> QED BY <1>13, <2>1 DEF ShutdownCloses, LockShape, Unlocking, TypeInv, TypeOK, residentVars
<1>14. CASE Drained
  BY <1>14 DEF LockShape, Unlocking, TypeInv, TypeOK, Live, Drained, vars, procVars,
     residentVars, workerVars
<1>15. CASE DrainTimesOut
  BY <1>15 DEF LockShape, Unlocking, TypeInv, TypeOK, Live, DrainTimesOut, Leak, Begun, Pending,
     vars, procVars, residentVars, workerVars
<1>16. CASE Rebind
  BY <1>16 DEF LockShape, Unlocking, TypeInv, TypeOK, Live, Rebind, ResetResidents, Onward,
     Residents, vars, procVars, residentVars, workerVars
<1>17. CASE Discard
  BY <1>17 DEF LockShape, Unlocking, TypeInv, TypeOK, Live, Discard, CancelCall, Release, NoTask,
     vars, procVars, residentVars, workerVars
<1>18. CASE TaskStarts
  BY <1>18 DEF LockShape, Unlocking, TypeInv, TypeOK, Live, TaskStarts, Advance, BeginOperation,
     StageFails, Finish, vars, procVars, residentVars, workerVars
<1>19. CASE SwapReturns
  BY <1>19 DEF LockShape, Unlocking, TypeInv, TypeOK, Live, SwapReturns, Finish, EndOperation,
     vars, procVars, residentVars, workerVars
<1>20. CASE CallModel
  BY <1>20 DEF LockShape, Unlocking, TypeInv, TypeOK, Live, CallModel, StageFails, Finish,
     EndOperation, vars, procVars, residentVars, workerVars
<1>21. CASE ModelReturns
  BY <1>21 DEF LockShape, Unlocking, TypeInv, TypeOK, Live, ModelReturns, StageFails, Finish,
     EndOperation, vars, procVars, residentVars, workerVars
<1>22. CASE StageEnds
  BY <1>22 DEF LockShape, Unlocking, TypeInv, TypeOK, Live, StageEnds, Advance, BeginOperation,
     StageFails, Finish, vars, procVars, residentVars, workerVars
<1>23. CASE ClientGone
  BY <1>23 DEF LockShape, Unlocking, TypeInv, TypeOK, Live, ClientGone, vars, procVars,
     residentVars, workerVars
<1>24. ASSUME NEW x \in Instances, CallBegins(x) PROVE LockShape'
  BY <1>24 DEF LockShape, Unlocking, TypeInv, TypeOK, Live, CallBegins, Pop, Deliver, Awaits,
     vars, procVars, residentVars, workerVars
<1>25. ASSUME NEW x \in Instances, SwapEnds(x) PROVE LockShape'
  BY <1>25 DEF LockShape, Unlocking, TypeInv, TypeOK, Live, SwapEnds, Pop, Deliver, Running,
     Awaits, vars, procVars, residentVars, workerVars
<1>26. ASSUME NEW x \in Instances, LoadEnds(x) PROVE LockShape'
  <2>1. MoveOK(x, exec[x][1]) /\ exec[x][1].kind = "load"
    BY <1>26, HeadMoveOK DEF LoadEnds
  <2>2. pc = "loading"
    BY <2>1 DEF MoveOK, IsMove
  <2> QED BY <1>26, <2>2 DEF LockShape, LoadEnds, Unlocking, workerVars, Live
<1>27. ASSUME NEW x \in Instances, UnloadEnds(x) PROVE LockShape'
  <2>1. MoveOK(x, exec[x][1]) /\ exec[x][1].kind = "unload"
    BY <1>27, HeadMoveOK DEF UnloadEnds
  <2>2. lock = "other"
    BY <2>1 DEF MoveOK, IsMove
  <2> QED BY <1>27, <2>2 DEF LockShape, UnloadEnds, Unlocking, workerVars, Live
<1>28. ASSUME NEW x \in Instances, InferenceEnds(x) PROVE LockShape'
  BY <1>28 DEF LockShape, Unlocking, TypeInv, TypeOK, Live, InferenceEnds, Pop, Deliver, Running,
     Awaits, vars, procVars, residentVars, workerVars
<1>29. CASE SwapRecovered
  BY <1>29 DEF LockShape, Unlocking, TypeInv, TypeOK, Live, SwapRecovered, Release, NoTask, vars,
     procVars, residentVars, workerVars
<1>30. CASE Synchronized
  BY <1>30 DEF LockShape, Unlocking, TypeInv, TypeOK, Live, Synchronized, Release, NoTask, vars,
     procVars, residentVars, workerVars
<1> QED
  BY <1>0, <1>1, <1>2, <1>3, <1>4, <1>5, <1>6, <1>7, <1>8, <1>9, <1>10, <1>11,
     <1>12, <1>13, <1>14, <1>15, <1>16, <1>17, <1>18, <1>19, <1>20, <1>21, <1>22, <1>23,
     <1>24, <1>25, <1>26, <1>27, <1>28, <1>29, <1>30
  DEF Next, WorkerStep, TaskStep, CallEnds

LEMMA ClosedFrame ==
  ASSUME ClosedShape, UNCHANGED <<gen, down>>,
         pc \in {"drain", "rebind"} => pc' \in {"drain", "rebind"} /\ watch' = watch
  PROVE  ClosedShape'
BY DEF ClosedShape, Live

LEMMA ClosedStep ==
  ASSUME TypeInv, QueueShape, MoveInv, ClosedShape, [Next]_vars
  PROVE  ClosedShape'
<1>0. CASE UNCHANGED vars
  BY <1>0, ClosedFrame DEF vars, procVars, workerVars
<1>1. CASE TakeRequest
  BY <1>1, ClosedFrame DEF TakeRequest, procVars, workerVars
<1>2. CASE OtherEvicts
  BY <1>2, ClosedFrame DEF OtherEvicts, procVars, workerVars
<1>3. CASE EnterAdmission
  BY <1>3, ClosedFrame DEF EnterAdmission, procVars, workerVars
<1>4. CASE LoadRequired
  BY <1>4, ClosedFrame DEF LoadRequired, procVars, workerVars
<1>5. CASE GrantLease
  BY <1>5, ClosedFrame DEF GrantLease, procVars, workerVars
<1>6. CASE TaskReturns
  BY <1>6, ClosedFrame DEF TaskReturns, procVars, workerVars
<1>7. CASE SwapErrorRaised
  BY <1>7, ClosedFrame DEF SwapErrorRaised, procVars, workerVars
<1>8. CASE TimesOut
  BY <1>8, ClosedFrame DEF TimesOut, procVars, workerVars
<1>9. CASE CheckIdle
  BY <1>9, ClosedFrame DEF CheckIdle, procVars, workerVars
<1>10. CASE IdleWaitEnds
  BY <1>10, ClosedFrame DEF IdleWaitEnds, procVars, workerVars, WaitReturns
<1>11. CASE EnterBarrier
  BY <1>11, ClosedFrame DEF EnterBarrier, procVars, workerVars
<1>12. CASE ShutdownSignals
  <2> DEFINE y == Live(watch)
  <2>1. /\ y \in Instances /\ down' = [down EXCEPT ![y] = "signalled"] /\ pc \notin {"drain",
             "rebind"}
        /\ UNCHANGED <<gen, watch>> /\ pc' = "close" /\ y' = y
    BY <1>12, LiveIsInstance DEF ShutdownSignals, Live, TypeInv, TypeOK
  <2>2. \A x \in Instances : down'[x] = IF x = y THEN "signalled" ELSE down[x]
    BY <2>1 DEF TypeInv, TypeOK
  <2> QED BY <2>1, <2>2 DEF ClosedShape
<1>13. CASE ShutdownCloses
  <2> DEFINE y == Live(watch)
  <2>1. /\ y \in Instances /\ down' = [down EXCEPT ![y] = "closed"] /\ pc \notin {"drain", "rebind"}
        /\ UNCHANGED <<gen, watch>> /\ pc' = "drain" /\ y' = y
    BY <1>13, LiveIsInstance DEF ShutdownCloses, Live, TypeInv, TypeOK
  <2>2. \A x \in Instances : down'[x] = IF x = y THEN "closed" ELSE down[x]
    BY <2>1 DEF TypeInv, TypeOK
  <2> QED BY <2>1, <2>2 DEF ClosedShape
<1>14. CASE Drained
  BY <1>14, ClosedFrame DEF Drained, procVars, workerVars
<1>15. CASE DrainTimesOut
  BY <1>15, ClosedFrame DEF DrainTimesOut, procVars, workerVars
<1>16. CASE Rebind
  <2>1. /\ watch \in Processors /\ gen' = [gen EXCEPT ![watch] = @ + 1] /\ down' = down
    BY <1>16 DEF Rebind, TypeInv, TypeOK
  <2>2. \A p \in Processors : gen[p] \in Int /\ gen'[p] \in Int /\ gen'[p] >= gen[p]
                             /\ gen'[watch] > gen[watch]
    BY <2>1 DEF TypeInv, TypeOK
  <2>3. \A x \in Instances : x[1] \in Processors /\ x[2] \in Int
    BY DEF Instances
  <2>4. \A x \in Instances : down[x] = "closed" => x[2] < gen'[x[1]]
    BY <2>1, <2>2, <2>3 DEF ClosedShape, Live
  <2> QED BY <2>1, <2>4 DEF ClosedShape
<1>17. CASE Discard
  BY <1>17, ClosedFrame DEF Discard, procVars, workerVars
<1>18. CASE TaskStarts
  BY <1>18, ClosedFrame DEF TaskStarts, procVars, workerVars
<1>19. CASE SwapReturns
  BY <1>19, ClosedFrame DEF SwapReturns, procVars, workerVars
<1>20. CASE CallModel
  BY <1>20, ClosedFrame DEF CallModel, procVars, workerVars
<1>21. CASE ModelReturns
  BY <1>21, ClosedFrame DEF ModelReturns, procVars, workerVars
<1>22. CASE StageEnds
  BY <1>22, ClosedFrame DEF StageEnds, procVars, workerVars
<1>23. CASE ClientGone
  BY <1>23, ClosedFrame DEF ClientGone, procVars, workerVars
<1>24. ASSUME NEW x \in Instances, CallBegins(x) PROVE ClosedShape'
  BY <1>24, ClosedFrame DEF CallBegins, procVars, workerVars
<1>25. ASSUME NEW x \in Instances, SwapEnds(x) PROVE ClosedShape'
  BY <1>25, ClosedFrame DEF SwapEnds, procVars, workerVars
<1>26. ASSUME NEW x \in Instances, LoadEnds(x) PROVE ClosedShape'
  <2>1. MoveOK(x, exec[x][1]) /\ exec[x][1].kind = "load"
    BY <1>26, HeadMoveOK DEF LoadEnds
  <2>2. pc = "loading"
    BY <2>1 DEF MoveOK, IsMove
  <2> QED BY <1>26, <2>2, ClosedFrame DEF LoadEnds
<1>27. ASSUME NEW x \in Instances, UnloadEnds(x) PROVE ClosedShape'
  BY <1>27, ClosedFrame DEF UnloadEnds, procVars, workerVars
<1>28. ASSUME NEW x \in Instances, InferenceEnds(x) PROVE ClosedShape'
  BY <1>28, ClosedFrame DEF InferenceEnds, procVars, workerVars
<1>29. CASE SwapRecovered
  BY <1>29, ClosedFrame DEF SwapRecovered, procVars, workerVars
<1>30. CASE Synchronized
  BY <1>30, ClosedFrame DEF Synchronized, procVars, workerVars
<1> QED
  BY <1>0, <1>1, <1>2, <1>3, <1>4, <1>5, <1>6, <1>7, <1>8, <1>9, <1>10, <1>11,
     <1>12, <1>13, <1>14, <1>15, <1>16, <1>17, <1>18, <1>19, <1>20, <1>21, <1>22, <1>23,
     <1>24, <1>25, <1>26, <1>27, <1>28, <1>29, <1>30
  DEF Next, WorkerStep, TaskStep, CallEnds

LEMMA ShapeStep ==
  ASSUME TypeInv, ShapeInv, TaskInv, MoveInv, RecoveryInv, [Next]_vars
  PROVE  ShapeInv'
<1>1. QueueShape /\ LockShape /\ ClosedShape
  BY DEF ShapeInv, QueueShape, LockShape
<1>2. QueueShape' /\ LockShape' /\ ClosedShape'
  BY <1>1, QueueStep, LockStep, ClosedStep
<1> QED BY <1>2 DEF ShapeInv, QueueShape, LockShape

LEMMA GenStep ==
  ASSUME TypeInv, QueueShape, MoveInv, GenInv, [Next]_vars
  PROVE  GenInv'
<1>0. CASE UNCHANGED vars
  BY <1>0 DEF GenInv, Replacing, TypeInv, TypeOK, vars, procVars, residentVars, workerVars
<1>1. CASE TakeRequest
  BY <1>1 DEF GenInv, Replacing, TypeInv, TypeOK, TakeRequest, NoTask, vars, procVars,
     residentVars, workerVars
<1>2. CASE OtherEvicts
  BY <1>2 DEF GenInv, Replacing, TypeInv, TypeOK, OtherEvicts, Dispatch, vars, procVars,
     residentVars, workerVars
<1>3. CASE EnterAdmission
  BY <1>3 DEF GenInv, Replacing, TypeInv, TypeOK, EnterAdmission, vars, procVars, residentVars,
     workerVars
<1>4. CASE LoadRequired
  BY <1>4 DEF GenInv, Replacing, TypeInv, TypeOK, LoadRequired, Dispatch, vars, procVars,
     residentVars, workerVars
<1>5. CASE GrantLease
  BY <1>5 DEF GenInv, Replacing, TypeInv, TypeOK, GrantLease, vars, procVars, residentVars,
     workerVars
<1>6. CASE TaskReturns
  BY <1>6 DEF GenInv, Replacing, TypeInv, TypeOK, TaskReturns, Release, NoTask, vars, procVars,
     residentVars, workerVars
<1>7. CASE SwapErrorRaised
  BY <1>7, FirstInstance DEF GenInv, Replacing, SwapErrorRaised, procVars, residentVars
<1>8. CASE TimesOut
  BY <1>8 DEF GenInv, Replacing, TypeInv, TypeOK, TimesOut, vars, procVars, residentVars, workerVars
<1>9. CASE CheckIdle
  <2>1. \A p \in Processors : gen[p] < req
    BY <1>9 DEF GenInv, CheckIdle
  <2>2. /\ pc' \in {"waitIdle", "check", "barrier", "discard"}
        /\ pc' = "barrier" => watch' \in Processors
    BY <1>9, OnwardGoes DEF CheckIdle, Learn, TypeInv, TypeOK
  <2> QED BY <1>9, <2>1, <2>2 DEF GenInv, Replacing, CheckIdle, procVars, TypeInv, TypeOK
<1>10. CASE IdleWaitEnds
  <2>1. \A p \in Processors : gen[p] < req
    BY <1>10 DEF GenInv, IdleWaitEnds, WaitReturns
  <2>2. /\ pc' \in {"waitIdle", "check", "barrier", "discard"}
        /\ pc' = "barrier" => watch' \in Processors
    BY <1>10, OnwardGoes DEF WentIdle, IdleWaitEnds, Learn, TypeInv, TypeOK
  <2> QED BY <1>10, <2>1, <2>2 DEF GenInv, Replacing, IdleWaitEnds, procVars, TypeInv, TypeOK
<1>11. CASE EnterBarrier
  BY <1>11 DEF GenInv, Replacing, TypeInv, TypeOK, EnterBarrier, vars, procVars, residentVars,
     workerVars
<1>12. CASE ShutdownSignals
  BY <1>12 DEF GenInv, Replacing, TypeInv, TypeOK, ShutdownSignals, vars, procVars, residentVars,
     workerVars
<1>13. CASE ShutdownCloses
  BY <1>13 DEF GenInv, Replacing, TypeInv, TypeOK, ShutdownCloses, vars, procVars, residentVars,
     workerVars
<1>14. CASE Drained
  BY <1>14 DEF GenInv, Replacing, TypeInv, TypeOK, Drained, vars, procVars, residentVars, workerVars
<1>15. CASE DrainTimesOut
  BY <1>15 DEF GenInv, Replacing, TypeInv, TypeOK, DrainTimesOut, Leak, Begun, Pending, vars,
     procVars, residentVars, workerVars
<1>16. CASE Rebind
  <2>1. /\ watch \in Processors /\ gen \in [Processors -> Nat] /\ req \in Nat
        /\ idle \in [Processors -> BOOLEAN] /\ req' = req
    BY <1>16, RequestAssumption DEF Rebind, TypeInv, TypeOK
  <2>2. /\ gen' = [gen EXCEPT ![watch] = @ + 1]
        /\ idle' = [idle EXCEPT ![watch] = TRUE]
        /\ idle' \in [Processors -> BOOLEAN]
    BY <1>16, <2>1 DEF Rebind
  <2>3. /\ watch' \in Processors
        /\ (pc' = "barrier" /\ ~idle'[watch']) \/ pc' = "discard"
    BY <1>16, <2>1, <2>2, OnwardGoes DEF Rebind
  <2>4. gen[watch] < req /\ \A p \in Processors : ~idle[p] => gen[p] < req
    BY <1>16 DEF GenInv, Replacing, Rebind
  <2>5. \A p \in Processors : gen[p] <= req
    BY DEF GenInv
  <2>6. \A p \in Processors : gen'[p] <= req' /\ (~idle'[p] => gen'[p] < req')
    BY <2>1, <2>2, <2>4, <2>5
  <2> QED BY <2>3, <2>6 DEF GenInv, Replacing
<1>17. CASE Discard
  BY <1>17 DEF GenInv, Replacing, TypeInv, TypeOK, Discard, CancelCall, Release, NoTask, vars,
     procVars, residentVars, workerVars
<1>18. CASE TaskStarts
  BY <1>18 DEF GenInv, Replacing, TypeInv, TypeOK, TaskStarts, Advance, BeginOperation,
     StageFails, Finish, vars, procVars, residentVars, workerVars
<1>19. CASE SwapReturns
  BY <1>19 DEF GenInv, Replacing, TypeInv, TypeOK, SwapReturns, Finish, EndOperation, vars,
     procVars, residentVars, workerVars
<1>20. CASE CallModel
  BY <1>20 DEF GenInv, Replacing, TypeInv, TypeOK, CallModel, StageFails, Finish, EndOperation,
     vars, procVars, residentVars, workerVars
<1>21. CASE ModelReturns
  BY <1>21 DEF GenInv, Replacing, TypeInv, TypeOK, ModelReturns, StageFails, Finish,
     EndOperation, vars, procVars, residentVars, workerVars
<1>22. CASE StageEnds
  BY <1>22 DEF GenInv, Replacing, TypeInv, TypeOK, StageEnds, Advance, BeginOperation,
     StageFails, Finish, vars, procVars, residentVars, workerVars
<1>23. CASE ClientGone
  BY <1>23 DEF GenInv, Replacing, TypeInv, TypeOK, ClientGone, vars, procVars, residentVars,
     workerVars
<1>24. ASSUME NEW x \in Instances, CallBegins(x) PROVE GenInv'
  BY <1>24 DEF GenInv, Replacing, TypeInv, TypeOK, CallBegins, Pop, Deliver, Awaits, vars,
     procVars, residentVars, workerVars
<1>25. ASSUME NEW x \in Instances, SwapEnds(x) PROVE GenInv'
  BY <1>25 DEF GenInv, Replacing, TypeInv, TypeOK, SwapEnds, Pop, Deliver, Running, Awaits, vars,
     procVars, residentVars, workerVars
<1>26. ASSUME NEW x \in Instances, LoadEnds(x) PROVE GenInv'
  <2>1. MoveOK(x, exec[x][1]) /\ exec[x][1].kind = "load"
    BY <1>26, HeadMoveOK DEF LoadEnds
  <2>2. pc = "loading"
    BY <2>1 DEF MoveOK, IsMove
  <2> QED BY <1>26, <2>2 DEF GenInv, Replacing, LoadEnds
<1>27. ASSUME NEW x \in Instances, UnloadEnds(x) PROVE GenInv'
  BY <1>27 DEF GenInv, Replacing, TypeInv, TypeOK, UnloadEnds, Pop, Running, vars, procVars,
     residentVars, workerVars
<1>28. ASSUME NEW x \in Instances, InferenceEnds(x) PROVE GenInv'
  BY <1>28 DEF GenInv, Replacing, TypeInv, TypeOK, InferenceEnds, Pop, Deliver, Running, Awaits,
     vars, procVars, residentVars, workerVars
<1>29. CASE SwapRecovered
  BY <1>29 DEF GenInv, Replacing, TypeInv, TypeOK, SwapRecovered, Release, NoTask, vars, procVars,
     residentVars, workerVars
<1>30. CASE Synchronized
  BY <1>30 DEF GenInv, Replacing, TypeInv, TypeOK, Synchronized, Release, NoTask, vars, procVars,
     residentVars, workerVars
<1> QED
  BY <1>0, <1>1, <1>2, <1>3, <1>4, <1>5, <1>6, <1>7, <1>8, <1>9, <1>10, <1>11,
     <1>12, <1>13, <1>14, <1>15, <1>16, <1>17, <1>18, <1>19, <1>20, <1>21, <1>22, <1>23,
     <1>24, <1>25, <1>26, <1>27, <1>28, <1>29, <1>30
  DEF Next, WorkerStep, TaskStep, CallEnds
-----------------------------------------------------------------------------
(* The task *)

LEMMA TaskFrame == ASSUME TaskShape, UNCHANGED <<gen, processing, task>> PROVE TaskShape'
BY DEF TaskShape, Operating

\* A task that ends its operation, or never began one.
LEMMA TaskAfterFinish ==
  ASSUME TypeInv, TaskShape, NEW outcome, Finish(outcome), UNCHANGED gen,
         \A x \in Instances : ~processing'[x]
  PROVE  TaskShape'
<1>1. /\ task'.pc = "done" /\ task'.todo = task.todo /\ task'.at = task.at
      /\ task'.outcome = outcome
  BY DEF Finish, TypeInv, TaskType
<1> QED BY <1>1 DEF TaskShape, Operating

LEMMA TaskAfterOutcome ==
  ASSUME TypeInv, TaskShape, NEW outcome, task' = [task EXCEPT !.outcome = outcome],
         outcome = "swapError" => task.pc = "swap", outcome # "raised",
         UNCHANGED <<gen, processing>>
  PROVE  TaskShape'
<1>1. /\ task'.pc = task.pc /\ task'.todo = task.todo /\ task'.at = task.at
      /\ task'.outcome = outcome
  BY DEF TypeInv, TaskType
<1> QED BY <1>1 DEF TaskShape, Operating

LEMMA EndOperationEnds ==
  ASSUME TypeInv, TaskShape, EndOperation PROVE \A x \in Instances : ~processing'[x]
BY DEF TypeInv, TypeOK, TaskShape, EndOperation

Ordered(todo) == \A i \in DOMAIN todo : todo[i] = "transcribe" => i = 1

LEMMA TaskAfterAdvance ==
  ASSUME TypeInv, TaskShape, NEW todo \in Seq(Stages), Ordered(todo),
         NEW ended \in [Instances -> BOOLEAN], \A x \in Instances : ~ended[x],
         task.outcome # "swapError", task.pc # "done", Advance(todo, ended), UNCHANGED gen
  PROVE  TaskShape' /\ task'.pc \in {"begun", "swap", "done"}
<1> DEFINE x == Live(ProcessorOf[Head(todo)])
<1>1. ASSUME NEW outcome, Finish(outcome), processing' = ended
      PROVE  TaskShape' /\ task'.pc = "done"
  <2>1. TaskShape'
    BY <1>1, TaskAfterFinish
  <2> QED BY <1>1, <2>1 DEF Finish, TypeInv, TaskType
<1>2. ASSUME todo # <<>>, processing' = [ended EXCEPT ![x] = TRUE],
             \/ task' = [task EXCEPT !.pc = "begun", !.todo = todo, !.at = x]
             \/ /\ Head(todo) = "transcribe"
                /\ task' = [task EXCEPT !.pc = "swap", !.todo = todo, !.at = x, !.outcome = "none"]
      PROVE  TaskShape' /\ task'.pc \in {"begun", "swap"}
  <2>1. Head(todo) \in Stages
    BY <1>2, HeadTailProperties
  <2>2. ProcessorOf[Head(todo)] \in Processors /\ x \in Instances
    BY <2>1, Names, LiveIsInstance
  <2>3. x[2] <= gen[x[1]]
    BY <2>2 DEF Live, TypeInv, TypeOK
  <2> HIDE DEF x
  <2>4. /\ task'.pc \in {"begun", "swap"} /\ task'.todo = todo /\ task'.at = x
        /\ task'.outcome \notin {"swapError", "raised"}
        /\ task'.pc = "swap" => Head(todo) = "transcribe"
    BY <1>2 DEF TypeInv, TaskType, TaskShape
  <2>5. \A y \in Instances : processing'[y] <=> y = x
    BY <1>2
  <2> QED BY <1>2, <2>2, <2>3, <2>4, <2>5 DEF TaskShape, Operating, Ordered
<1> QED BY <1>1, <1>2 DEF Advance, StageFails, BeginOperation

\* The call at the head of a queue that the task waits for.
LEMMA HeadCallOK ==
  ASSUME TypeInv, QueueShape, CallInv, NEW x \in Instances, exec[x] # <<>>
  PROVE  /\ exec[x] \in Seq(Job) /\ 1 \in DOMAIN exec[x] /\ Head(exec[x]) = exec[x][1]
         /\ CallOK(x, 1)
BY DEF TypeInv, TypeOK, CallInv

LEMMA SwapIsAwaitedInSwap ==
  ASSUME TypeInv, QueueShape, TaskInv, CallInv, NEW x \in Instances, Running(x, "swap"),
         Awaits(Head(exec[x]))
  PROVE  task.pc = "swap"
<1>1. Head(exec[x]) = exec[x][1] /\ CallOK(x, 1)
  BY HeadCallOK DEF Running, QueueShape
<1>2. pc \in Serving
  BY DEF Awaits, TaskInv
<1> QED BY <1>1, <1>2 DEF Awaits, AwaitedAt, CallOK, IsCurrent, IsCall, Running

LEMMA TaskInvStep ==
  ASSUME TypeInv, QueueShape, MoveInv, CallInv, TaskInv, [Next]_vars
  PROVE  TaskInv'
<1>0. CASE UNCHANGED vars
  BY <1>0 DEF TaskInv, TaskShape, Operating, vars, procVars, residentVars, workerVars
<1>1. CASE TakeRequest
  <2>1. task'.pc = "none" /\ task'.outcome = "none" /\ task'.at[2] = 0
        /\ task'.at[1] \in Processors
    BY <1>1, FirstInstance DEF TakeRequest, NoTask
  <2>2. \A x \in Instances : ~processing'[x]
    BY <1>1 DEF TakeRequest, TaskInv, TaskShape, Operating, procVars, TypeInv, TypeOK, Serving
  <2>3. Ordered(task'.todo)
    BY <1>1, RequestAssumption DEF TakeRequest, NoTask, Ordered
  <2>4. gen'[task'.at[1]] >= 0
    BY <1>1, <2>1 DEF TakeRequest, procVars, TypeInv, TypeOK
  <2> QED BY <1>1, <2>1, <2>2, <2>3, <2>4 DEF TakeRequest, TaskInv, TaskShape, Operating, Serving,
     Ordered
<1>2. CASE OtherEvicts
  BY <1>2, TaskFrame DEF OtherEvicts, TaskInv, Serving, procVars, workerVars
<1>3. CASE EnterAdmission
  BY <1>3, TaskFrame DEF EnterAdmission, TaskInv, Serving, procVars, workerVars
<1>4. CASE LoadRequired
  <2>1. /\ task'.pc = task.pc /\ task'.todo = task.todo /\ task'.at = task.at
        /\ task'.outcome = task.outcome
    BY <1>4 DEF LoadRequired, TypeInv, TaskType
  <2> QED BY <1>4, <2>1 DEF LoadRequired, TaskInv, TaskShape, Operating, Serving
<1>5. CASE GrantLease
  <2>1. /\ task'.pc = "start" /\ task'.todo = task.todo /\ task'.at = task.at
        /\ task'.outcome = task.outcome
    BY <1>5 DEF GrantLease, TypeInv, TaskType
  <2>2. task.pc = "none"
    BY <1>5 DEF GrantLease, TaskInv, Serving
  <2> QED BY <1>5, <2>1, <2>2 DEF GrantLease, TaskInv, TaskShape, Operating, Serving, procVars
<1>6. CASE TaskReturns
  <2>1. task'.pc = "none" /\ task'.outcome = "none" /\ task'.at[2] = 0
        /\ task'.at[1] \in Processors
    BY <1>6, FirstInstance DEF TaskReturns, NoTask, Release
  <2>2. \A x \in Instances : ~processing'[x]
    BY <1>6 DEF TaskReturns, TaskInv, TaskShape, Operating, procVars, TypeInv, TypeOK, Serving
  <2>3. Ordered(task'.todo)
    BY <1>6 DEF TaskReturns, Release, NoTask, Ordered
  <2>4. gen'[task'.at[1]] >= 0
    BY <1>6, <2>1 DEF TaskReturns, procVars, TypeInv, TypeOK
  <2> QED BY <1>6, <2>1, <2>2, <2>3, <2>4 DEF TaskReturns, Release, TaskInv, TaskShape,
     Operating, Serving, Ordered
<1>7. CASE SwapErrorRaised
  <2>1. /\ task'.pc = task.pc /\ task'.todo = task.todo /\ task'.at = task.at
        /\ task'.outcome = "raised" /\ task.pc = "done"
    BY <1>7 DEF SwapErrorRaised, TypeInv, TaskType
  <2> QED BY <1>7, <2>1 DEF SwapErrorRaised, TaskInv, TaskShape, Operating, Serving, procVars
<1>8. CASE TimesOut
  BY <1>8, TaskFrame DEF TimesOut, TaskInv, Serving, procVars, workerVars
<1>9. CASE CheckIdle
  <2>1. pc' \in Serving /\ pc \in Serving
    BY <1>9, OnwardGoes DEF CheckIdle, Learn, Serving, TypeInv, TypeOK
  <2>2. UNCHANGED <<gen, processing, task>>
    BY <1>9 DEF CheckIdle, procVars
  <2> QED BY <2>1, <2>2, TaskFrame DEF TaskInv
<1>10. CASE IdleWaitEnds
  <2>1. pc' \in Serving /\ pc \in Serving
    BY <1>10, OnwardGoes DEF IdleWaitEnds, WaitReturns, WentIdle, Learn, Serving, TypeInv, TypeOK
  <2>2. UNCHANGED <<gen, processing, task>>
    BY <1>10 DEF IdleWaitEnds, procVars
  <2> QED BY <2>1, <2>2, TaskFrame DEF TaskInv
<1>11. CASE EnterBarrier
  BY <1>11, TaskFrame DEF EnterBarrier, TaskInv, Serving, procVars, workerVars
<1>12. CASE ShutdownSignals
  BY <1>12, TaskFrame DEF ShutdownSignals, TaskInv, Serving, procVars, workerVars
<1>13. CASE ShutdownCloses
  BY <1>13, TaskFrame DEF ShutdownCloses, TaskInv, Serving, procVars, workerVars
<1>14. CASE Drained
  BY <1>14, TaskFrame DEF Drained, TaskInv, Serving, procVars, workerVars
<1>15. CASE DrainTimesOut
  <2>1. task' = task \/ task' = [task EXCEPT !.outcome = "dropped"]
    BY <1>15 DEF DrainTimesOut
  <2>2. TaskShape'
    BY <1>15, <2>1, TaskFrame, TaskAfterOutcome DEF DrainTimesOut, TaskInv
  <2>3. task'.pc = task.pc
    BY <2>1 DEF TypeInv, TaskType
  <2> QED BY <1>15, <2>2, <2>3 DEF DrainTimesOut, TaskInv, Serving
<1>16. CASE Rebind
  <2>1. watch \in Processors /\ gen' = [gen EXCEPT ![watch] = @ + 1]
        /\ UNCHANGED <<processing, task>> /\ pc \in Serving
    BY <1>16 DEF Rebind, TypeInv, TypeOK, Serving
  <2>2. \A p \in Processors : gen[p] \in Int /\ gen'[p] >= gen[p] /\ gen'[p] \in Int
    BY <2>1 DEF TypeInv, TypeOK
  <2>3. task.at[2] \in Int /\ task.at[1] \in Processors
    BY TaskFields DEF Instances
  <2>4. task.at[2] <= gen'[task.at[1]]
    BY <2>2, <2>3 DEF TaskInv, TaskShape
  <2>5. TaskShape'
    BY <2>1, <2>4 DEF TaskInv, TaskShape, Operating
  <2>6. pc' \in Serving
    BY <1>16, <2>1, OnwardGoes DEF Rebind, Serving, TypeInv, TypeOK
  <2> QED BY <2>1, <2>5, <2>6 DEF TaskInv
<1>17. CASE Discard
  <2>1. task'.pc = "none" /\ task'.outcome = "none" /\ task'.at[2] = 0
        /\ task'.at[1] \in Processors
    BY <1>17, FirstInstance DEF Discard, NoTask, Release
  <2>2. \A x \in Instances : ~processing'[x]
    BY <1>17 DEF Discard, TaskInv, TaskShape, Operating, procVars, TypeInv, TypeOK, Serving
  <2>3. Ordered(task'.todo)
    BY <1>17 DEF Discard, Release, NoTask, Ordered
  <2>4. gen'[task'.at[1]] >= 0
    BY <1>17, <2>1 DEF Discard, procVars, TypeInv, TypeOK
  <2> QED BY <1>17, <2>1, <2>2, <2>3, <2>4 DEF Discard, Release, TaskInv, TaskShape, Operating,
     Serving, Ordered
<1>18. CASE TaskStarts
  <2>1. \A x \in Instances : ~processing[x]
    BY <1>18 DEF TaskStarts, TaskInv, TaskShape, Operating
  <2>2. TaskShape' /\ task'.pc \in {"begun", "swap", "done"}
    BY <1>18, <2>1, TaskAfterAdvance, TaskFields DEF TaskStarts, TaskInv, TaskShape, Ordered,
     TypeInv, TypeOK
  <2> QED BY <1>18, <2>2 DEF TaskStarts, TaskInv, workerVars
<1>19. CASE SwapReturns
  <2>1. ASSUME NEW outcome, Finish(outcome), EndOperation PROVE TaskShape' /\ task'.pc = "done"
    <3>1. TaskShape'
      BY <1>19, <2>1, EndOperationEnds, TaskAfterFinish DEF SwapReturns, TaskInv
    <3> QED BY <2>1, <3>1 DEF Finish, TypeInv, TaskType
  <2>2. ASSUME NEW p \in {"begun"}, task' = [task EXCEPT !.pc = p], UNCHANGED processing,
               task.outcome = "ok"
        PROVE  TaskShape' /\ task'.pc = p
    <3>1. /\ task'.pc = p /\ task'.todo = task.todo /\ task'.at = task.at
          /\ task'.outcome # "swapError"
      BY <1>19, <2>2 DEF SwapReturns, TypeInv, TaskType, TaskInv, TaskShape
    <3> QED BY <1>19, <2>2, <3>1 DEF SwapReturns, TaskInv, TaskShape, Operating
  <2>3. TaskShape' /\ task'.pc # "none"
    BY <1>19, <2>1, <2>2 DEF SwapReturns, StageFails
  <2> QED BY <1>19, <2>3 DEF SwapReturns, TaskInv
<1>20. CASE CallModel
  <2>1. ASSUME NEW outcome, Finish(outcome), EndOperation PROVE TaskShape' /\ task'.pc = "done"
    <3>1. TaskShape'
      BY <1>20, <2>1, EndOperationEnds, TaskAfterFinish DEF CallModel, TaskInv
    <3> QED BY <2>1, <3>1 DEF Finish, TypeInv, TaskType
  <2>2. ASSUME NEW p \in {"run"}, task' = [task EXCEPT !.pc = p, !.outcome = "none"],
     UNCHANGED processing
        PROVE  TaskShape' /\ task'.pc = p
    <3>1. /\ task'.pc = p /\ task'.todo = task.todo /\ task'.at = task.at
          /\ task'.outcome # "swapError"
      BY <1>20, <2>2 DEF CallModel, TypeInv, TaskType, TaskInv, TaskShape
    <3> QED BY <1>20, <2>2, <3>1 DEF CallModel, TaskInv, TaskShape, Operating
  <2>3. TaskShape' /\ task'.pc # "none"
    BY <1>20, <2>1, <2>2 DEF CallModel, StageFails
  <2> QED BY <1>20, <2>3 DEF CallModel, TaskInv
<1>21. CASE ModelReturns
  <2>1. ASSUME NEW outcome, Finish(outcome), EndOperation PROVE TaskShape' /\ task'.pc = "done"
    <3>1. TaskShape'
      BY <1>21, <2>1, EndOperationEnds, TaskAfterFinish DEF ModelReturns, TaskInv
    <3> QED BY <2>1, <3>1 DEF Finish, TypeInv, TaskType
  <2>2. ASSUME NEW p \in {"tail"}, task' = [task EXCEPT !.pc = p], UNCHANGED processing
        PROVE  TaskShape' /\ task'.pc = p
    <3>1. /\ task'.pc = p /\ task'.todo = task.todo /\ task'.at = task.at
          /\ task'.outcome # "swapError"
      BY <1>21, <2>2 DEF ModelReturns, TypeInv, TaskType, TaskInv, TaskShape
    <3> QED BY <1>21, <2>2, <3>1 DEF ModelReturns, TaskInv, TaskShape, Operating
  <2>3. TaskShape' /\ task'.pc # "none"
    BY <1>21, <2>1, <2>2 DEF ModelReturns, StageFails
  <2> QED BY <1>21, <2>3 DEF ModelReturns, TaskInv
<1>22. CASE StageEnds
  <2> DEFINE ended == [processing EXCEPT ![task.at] = FALSE]
  <2>1. task.todo # <<>>
    BY <1>22 DEF StageEnds, TaskInv, TaskShape, Operating
  <2>2. Tail(task.todo) \in Seq(Stages) /\ Ordered(Tail(task.todo))
    <3>1. \A i \in DOMAIN Tail(task.todo) :
             i \in Nat /\ i + 1 \in DOMAIN task.todo /\ i + 1 > 1
             /\ Tail(task.todo)[i] = task.todo[i + 1]
      BY <2>1, TaskFields, TailIs
    <3>2. Tail(task.todo) \in Seq(Stages)
      BY <2>1, TaskFields, HeadTailProperties
    <3> QED BY <3>1, <3>2 DEF Ordered, TaskInv, TaskShape
  <2>3. ended \in [Instances -> BOOLEAN] /\ \A x \in Instances : ~ended[x]
    BY DEF TaskInv, TaskShape, TypeInv, TypeOK
  <2>4. Advance(Tail(task.todo), ended) /\ UNCHANGED <<gen, pc>> /\ task.outcome # "swapError"
        /\ task.pc = "tail"
    BY <1>22 DEF StageEnds, TaskInv, TaskShape
  <2> HIDE DEF ended
  <2>5. TaskShape' /\ task'.pc \in {"begun", "swap", "done"}
    BY <2>2, <2>3, <2>4, TaskAfterAdvance DEF TaskInv
  <2> QED BY <2>4, <2>5 DEF TaskInv
<1>23. CASE ClientGone
  BY <1>23, TaskFrame DEF ClientGone, TaskInv, Serving, procVars, workerVars
<1>24. ASSUME NEW x \in Instances, CallBegins(x) PROVE TaskInv'
  <2>1. task' = task \/ \E o \in {"error"} : task' = [task EXCEPT !.outcome = o]
    BY <1>24 DEF CallBegins, Deliver
  <2>2. TaskShape'
    BY <1>24, <2>1, TaskFrame, TaskAfterOutcome DEF CallBegins, TaskInv
  <2>3. task'.pc = task.pc
    BY <2>1 DEF TypeInv, TaskType
  <2> QED BY <1>24, <2>2, <2>3 DEF CallBegins, TaskInv, workerVars
<1>25. ASSUME NEW x \in Instances, SwapEnds(x) PROVE TaskInv'
  <2>1. \/ task' = task
        \/ \E o \in {"ok", "swapError"} :
              Awaits(Head(exec[x])) /\ task' = [task EXCEPT !.outcome = o]
    BY <1>25 DEF SwapEnds, Deliver
  <2>2. TaskShape'
    BY <1>25, <2>1, TaskFrame, TaskAfterOutcome, SwapIsAwaitedInSwap DEF SwapEnds, TaskInv
  <2>3. task'.pc = task.pc
    BY <2>1 DEF TypeInv, TaskType
  <2> QED BY <1>25, <2>2, <2>3 DEF SwapEnds, TaskInv, workerVars
<1>26. ASSUME NEW x \in Instances, LoadEnds(x) PROVE TaskInv'
  <2>1. MoveOK(x, exec[x][1]) /\ exec[x][1].kind = "load"
    BY <1>26, HeadMoveOK DEF LoadEnds
  <2>2. pc = "loading"
    BY <2>1 DEF MoveOK, IsMove
  <2> QED BY <1>26, <2>2, TaskFrame DEF TaskInv, Serving, LoadEnds
<1>27. ASSUME NEW x \in Instances, UnloadEnds(x) PROVE TaskInv'
  BY <1>27, TaskFrame DEF UnloadEnds, TaskInv, Serving, procVars, workerVars
<1>28. ASSUME NEW x \in Instances, InferenceEnds(x) PROVE TaskInv'
  <2>1. task' = task \/ \E o \in {"ok", "error"} : task' = [task EXCEPT !.outcome = o]
    BY <1>28 DEF InferenceEnds, Deliver
  <2>2. TaskShape'
    BY <1>28, <2>1, TaskFrame, TaskAfterOutcome DEF InferenceEnds, TaskInv
  <2>3. task'.pc = task.pc
    BY <2>1 DEF TypeInv, TaskType
  <2> QED BY <1>28, <2>2, <2>3 DEF InferenceEnds, TaskInv, workerVars
<1>29. CASE SwapRecovered
  <2>1. task'.pc = "none" /\ task'.outcome = "none" /\ task'.at[2] = 0
        /\ task'.at[1] \in Processors
    BY <1>29, FirstInstance DEF SwapRecovered, NoTask, Release
  <2>2. \A x \in Instances : ~processing'[x]
    BY <1>29 DEF SwapRecovered, TaskInv, TaskShape, Operating, procVars, TypeInv, TypeOK, Serving
  <2>3. Ordered(task'.todo)
    BY <1>29 DEF SwapRecovered, Release, NoTask, Ordered
  <2>4. gen'[task'.at[1]] >= 0
    BY <1>29, <2>1 DEF SwapRecovered, procVars, TypeInv, TypeOK
  <2> QED BY <1>29, <2>1, <2>2, <2>3, <2>4 DEF SwapRecovered, Release, TaskInv, TaskShape,
     Operating, Serving, Ordered
<1>30. CASE Synchronized
  <2>1. task'.pc = "none" /\ task'.outcome = "none" /\ task'.at[2] = 0
        /\ task'.at[1] \in Processors
    BY <1>30, FirstInstance DEF Synchronized, NoTask, Release
  <2>2. \A x \in Instances : ~processing'[x]
    BY <1>30 DEF Synchronized, TaskInv, TaskShape, Operating, procVars, TypeInv, TypeOK, Serving
  <2>3. Ordered(task'.todo)
    BY <1>30 DEF Synchronized, Release, NoTask, Ordered
  <2>4. gen'[task'.at[1]] >= 0
    BY <1>30, <2>1 DEF Synchronized, procVars, TypeInv, TypeOK
  <2> QED BY <1>30, <2>1, <2>2, <2>3, <2>4 DEF Synchronized, Release, TaskInv, TaskShape,
     Operating, Serving, Ordered
<1> QED
  BY <1>0, <1>1, <1>2, <1>3, <1>4, <1>5, <1>6, <1>7, <1>8, <1>9, <1>10, <1>11,
     <1>12, <1>13, <1>14, <1>15, <1>16, <1>17, <1>18, <1>19, <1>20, <1>21, <1>22, <1>23,
     <1>24, <1>25, <1>26, <1>27, <1>28, <1>29, <1>30
  DEF Next, WorkerStep, TaskStep, CallEnds
-----------------------------------------------------------------------------
(* How the queues change: calls leave them, and one call is added at the end *)

\* Place i of x's queue was place f[x][i]; who runs goes on.
Survives(f) ==
    /\ f \in [Instances -> [Nat -> Nat]]
    /\ \A x \in Instances : \A i \in DOMAIN exec'[x] :
          /\ f[x][i] \in DOMAIN exec[x] /\ exec'[x][i] = exec[x][f[x][i]]
          /\ f[x][i] = 1 /\ busy[x] => i = 1 /\ busy'[x]
    /\ \A x \in Instances : \A i, k \in DOMAIN exec'[x] : i < k => f[x][i] < f[x][k]

\* Nothing that was at place n of y's queue is left.
Left(f, y, n) == \A i \in DOMAIN exec'[y] : f[y][i] # n

\* The call at place i of x's queue is e, added by this step.
Added(x, i, y, e) == x = y /\ i = Len(exec[y]) + 1 /\ exec'[x][i] = e

LEMMA Places ==
  ASSUME TypeInv
  PROVE  \A x \in Instances : /\ DOMAIN exec[x] = 1..Len(exec[x]) /\ Len(exec[x]) \in Nat
                              /\ \A i \in DOMAIN exec[x] : i \in Nat /\ i >= 1 /\ exec[x][i] \in Job
BY DEF TypeInv, TypeOK

LEMMA SurvivesFrame ==
  ASSUME TypeInv, UNCHANGED exec, \A x \in Instances : busy[x] => busy'[x]
  PROVE  \E f : Survives(f)
<1> DEFINE f == [x \in Instances |-> [i \in Nat |-> i]]
<1>1. f \in [Instances -> [Nat -> Nat]]
  OBVIOUS
<1>2. \A x \in Instances : \A i \in Nat : f[x][i] = i
  OBVIOUS
<1> HIDE DEF f
<1>3. \A x \in Instances : \A i \in DOMAIN exec[x] : i \in Nat
  BY Places
<1> SUFFICES Survives(f)
  OBVIOUS
<1> QED BY <1>1, <1>2, <1>3 DEF Survives

LEMMA SurvivesPop ==
  ASSUME TypeInv, NEW y \in Instances, exec[y] # <<>>, Pop(y)
  PROVE  \E f : Survives(f) /\ Left(f, y, 1)
<1> DEFINE f == [x \in Instances |-> [i \in Nat |-> IF x = y THEN i + 1 ELSE i]]
<1>1. f \in [Instances -> [Nat -> Nat]]
  OBVIOUS
<1>2. \A x \in Instances : \A i \in Nat : f[x][i] = IF x = y THEN i + 1 ELSE i
  OBVIOUS
<1> HIDE DEF f
<1>3. \A x \in Instances : \A i \in DOMAIN exec[x] : i \in Nat
  BY Places
<1>4. /\ DOMAIN exec'[y] = 1..(Len(exec[y]) - 1)
      /\ \A i \in 1..(Len(exec[y]) - 1) : exec'[y][i] = exec[y][i + 1]
      /\ DOMAIN exec[y] = 1..Len(exec[y]) /\ Len(exec[y]) \in Nat
  <2>1. exec[y] \in Seq(Job) /\ exec'[y] = Tail(exec[y])
    BY DEF TypeInv, TypeOK, Pop
  <2> QED BY <2>1, TailIs, Places
<1>5. \A x \in Instances : x # y => exec'[x] = exec[x] /\ busy'[x] = busy[x]
  BY DEF TypeInv, TypeOK, Pop
<1> SUFFICES Survives(f) /\ Left(f, y, 1)
  OBVIOUS
<1>6. \A i \in DOMAIN exec'[y] :
         /\ f[y][i] \in DOMAIN exec[y] /\ exec'[y][i] = exec[y][f[y][i]] /\ f[y][i] # 1
         /\ \A k \in DOMAIN exec'[y] : i < k => f[y][i] < f[y][k]
  BY <1>2, <1>4
<1>7. \A x \in Instances : \A i \in DOMAIN exec[x] : x # y =>
         /\ f[x][i] = i /\ exec'[x] = exec[x] /\ busy'[x] = busy[x]
  BY <1>2, <1>3, <1>5
<1>8. ASSUME NEW x \in Instances, NEW i \in DOMAIN exec'[x]
      PROVE  /\ f[x][i] \in DOMAIN exec[x] /\ exec'[x][i] = exec[x][f[x][i]]
             /\ f[x][i] = 1 /\ busy[x] => i = 1 /\ busy'[x]
             /\ \A k \in DOMAIN exec'[x] : i < k => f[x][i] < f[x][k]
  BY <1>5, <1>6, <1>7
<1> QED BY <1>1, <1>6, <1>8 DEF Survives, Left

LEMMA SurvivesDrain ==
  ASSUME TypeInv, QueueShape, NEW y \in Instances, exec' = [exec EXCEPT ![y] = Begun(y)],
         UNCHANGED busy
  PROVE  \E f : Survives(f) /\ \A i \in DOMAIN exec'[y] : f[y][i] = 1 /\ busy[y]
<1> DEFINE f == [x \in Instances |-> [i \in Nat |-> i]]
<1>1. f \in [Instances -> [Nat -> Nat]]
  OBVIOUS
<1>2. \A x \in Instances : \A i \in Nat : f[x][i] = i
  OBVIOUS
<1> HIDE DEF f
<1>3. \A x \in Instances : \A i \in DOMAIN exec[x] : i \in Nat
  BY Places
<1>4. \A x \in Instances : exec'[x] = IF x = y THEN Begun(y) ELSE exec[x]
  BY DEF TypeInv, TypeOK
<1>5. \A i \in DOMAIN Begun(y) :
         i = 1 /\ busy[y] /\ Begun(y)[i] = exec[y][1] /\ 1 \in DOMAIN exec[y]
  <2>1. CASE busy[y]
    <3>1. exec[y] # <<>> /\ exec[y] \in Seq(Job)
      BY <2>1 DEF QueueShape, TypeInv, TypeOK
    <3>2. Head(exec[y]) = exec[y][1] /\ 1 \in DOMAIN exec[y]
      BY <3>1
    <3>3. Begun(y) = <<exec[y][1]>>
      BY <2>1, <3>2 DEF Begun
    <3> QED BY <2>1, <3>2, <3>3
  <2>2. CASE ~busy[y]
    BY <2>2 DEF Begun
  <2> QED BY <2>1, <2>2
<1> SUFFICES Survives(f) /\ \A i \in DOMAIN exec'[y] : f[y][i] = 1 /\ busy[y]
  OBVIOUS
<1> QED BY <1>1, <1>2, <1>3, <1>4, <1>5 DEF Survives

LEMMA SurvivesRemove ==
  ASSUME TypeInv, NEW y \in Instances, NEW n \in DOMAIN exec[y], ~(busy[y] /\ n = 1),
         exec' = [exec EXCEPT ![y] = RemoveAt(@, n)], UNCHANGED busy
  PROVE  \E f : Survives(f) /\ Left(f, y, n)
<1> DEFINE f == [x \in Instances |-> [i \in Nat |-> IF x # y \/ i < n THEN i ELSE i + 1]]
<1>1. f \in [Instances -> [Nat -> Nat]]
  OBVIOUS
<1>2. \A x \in Instances : \A i \in Nat : f[x][i] = IF x # y \/ i < n THEN i ELSE i + 1
  OBVIOUS
<1> HIDE DEF f
<1>3. \A x \in Instances : \A i \in DOMAIN exec[x] : i \in Nat
  BY Places
<1>4. /\ DOMAIN exec'[y] = 1..(Len(exec[y]) - 1)
      /\ \A i \in 1..(Len(exec[y]) - 1) :
            exec'[y][i] = IF i < n THEN exec[y][i] ELSE exec[y][i + 1]
      /\ DOMAIN exec[y] = 1..Len(exec[y]) /\ Len(exec[y]) \in Nat /\ n \in 1..Len(exec[y])
  <2>1. exec[y] \in Seq(Job) /\ exec'[y] = RemoveAt(exec[y], n)
    BY DEF TypeInv, TypeOK
  <2> QED BY <2>1, RemoveAtIs
<1>5. \A x \in Instances : x # y => exec'[x] = exec[x]
  BY DEF TypeInv, TypeOK
<1> SUFFICES Survives(f) /\ Left(f, y, n)
  OBVIOUS
<1>6. ASSUME NEW i \in DOMAIN exec'[y]
      PROVE  /\ f[y][i] \in DOMAIN exec[y] /\ exec'[y][i] = exec[y][f[y][i]] /\ f[y][i] # n
             /\ f[y][i] = 1 /\ busy[y] => i = 1
             /\ \A k \in DOMAIN exec'[y] : i < k => f[y][i] < f[y][k]
  <2>1. f[y][i] = IF i < n THEN i ELSE i + 1
    <3>1. i \in Nat
      BY <1>4
    <3> QED BY <1>2, <3>1
  <2>2. \A k \in DOMAIN exec'[y] : i < k => f[y][i] < f[y][k]
    <3> TAKE k \in DOMAIN exec'[y]
    <3>1. f[y][k] = IF k < n THEN k ELSE k + 1
      <4>1. k \in Nat
        BY <1>4
      <4> QED BY <1>2, <4>1
    <3> QED BY <1>4, <2>1, <3>1
  <2>3. f[y][i] \in DOMAIN exec[y] /\ f[y][i] # n /\ exec'[y][i] = exec[y][f[y][i]]
    BY <1>4, <2>1
  <2>4. f[y][i] = 1 /\ busy[y] => i = 1
    BY <1>4, <2>1
  <2> QED BY <2>2, <2>3, <2>4
<1>7. \A x \in Instances : \A i \in DOMAIN exec[x] : x # y => f[x][i] = i /\ exec'[x] = exec[x]
  BY <1>2, <1>3, <1>5
<1>8. ASSUME NEW x \in Instances, NEW i \in DOMAIN exec'[x]
      PROVE  /\ f[x][i] \in DOMAIN exec[x] /\ exec'[x][i] = exec[x][f[x][i]]
             /\ f[x][i] = 1 /\ busy[x] => i = 1 /\ busy'[x]
             /\ \A k \in DOMAIN exec'[x] : i < k => f[x][i] < f[x][k]
  BY <1>5, <1>6, <1>7
<1> QED BY <1>1, <1>6, <1>8 DEF Survives, Left

LEMMA AfterAppend ==
  ASSUME TypeInv, NEW y \in Instances, NEW e \in Job, exec' = [exec EXCEPT ![y] = Append(@, e)]
  PROVE  /\ \A x \in Instances : \A i \in DOMAIN exec'[x] :
              Added(x, i, y, e) \/ (i \in DOMAIN exec[x] /\ exec'[x][i] = exec[x][i])
         /\ \A x \in Instances : \A i \in DOMAIN exec[x] : exec'[x][i] = exec[x][i]
<1>1. \A x \in Instances : exec'[x] = IF x = y THEN Append(exec[y], e) ELSE exec[x]
  BY DEF TypeInv, TypeOK
<1>2. exec[y] \in Seq(Job)
  BY DEF TypeInv, TypeOK
<1>3. /\ DOMAIN Append(exec[y], e) = 1..(Len(exec[y]) + 1)
      /\ \A i \in DOMAIN exec[y] : Append(exec[y], e)[i] = exec[y][i]
      /\ Append(exec[y], e)[Len(exec[y]) + 1] = e
      /\ DOMAIN exec[y] = 1..Len(exec[y]) /\ Len(exec[y]) \in Nat
  BY <1>2, AppendIs
<1> QED BY <1>1, <1>3 DEF Added

\* Only the calls of this step's request leave a queue when it delivers them.
LEMMA Delivery ==
  ASSUME TypeInv, TaskInv, CallInv, NEW x \in Instances, exec[x] # <<>>, Awaits(exec[x][1])
  PROVE  /\ IsCurrent(exec[x][1]) /\ x = task.at
         /\ exec[x][1].kind = "swap" <=> task.pc = "swap"
         /\ \A z \in Instances : \A i \in DOMAIN exec[z] :
               IsCurrent(exec[z][i]) => z = x /\ i = 1
<1>1. 1 \in DOMAIN exec[x]
  <2>1. exec[x] \in Seq(Job)
    BY DEF TypeInv, TypeOK
  <2> QED BY <2>1
<1>2. IsCurrent(exec[x][1])
  BY DEF Awaits, IsCurrent, IsCall, TaskInv
<1>3. x = task.at /\ (exec[x][1].kind = "swap" <=> task.pc = "swap")
  BY <1>1, <1>2 DEF CallInv, CallOK, IsCurrent, AwaitedAt
<1>4. ASSUME NEW z \in Instances, NEW i \in DOMAIN exec[z], IsCurrent(exec[z][i])
      PROVE  z = x /\ i = 1
  BY <1>1, <1>2, <1>3, <1>4 DEF CallInv, CallOK, IsCurrent, AwaitedAt
<1> QED BY <1>2, <1>3, <1>4
-----------------------------------------------------------------------------
(* The calls of the task *)

\* The step does not make a request's calls those of another.
Serves ==
    \/ /\ req' = req
       /\ pc' \in Serving => pc \in Serving \cup Entering
       /\ pc' \in Entering => pc \in Entering
    \/ req' = req + 1 /\ pc' \notin Serving

\* What was the current call is awaited still, or the request is over.
Settled(f) ==
    \A x \in Instances : \A i \in DOMAIN exec'[x] : IsCurrent(exec[x][f[x][i]]) =>
        \/ AwaitedAt(x, i)' /\ pc' \in Serving /\ req' = req
        \/ pc' \notin Serving /\ i = 1 /\ busy'[x] /\ x # Live("whisper")

LEMMA NoCurrentCall ==
  ASSUME CallInv, ~(task.pc \in {"swap", "run"} /\ task.outcome = "none")
  PROVE  \A x \in Instances : \A i \in DOMAIN exec[x] : ~IsCurrent(exec[x][i])
BY DEF CallInv, CallOK, IsCurrent, AwaitedAt, Awaits

LEMMA CallKept ==
  ASSUME TypeInv, TypeInv', CallInv, NEW f, Survives(f), Settled(f), Serves, UNCHANGED gen
  PROVE  CallInv'
<1>1. ASSUME NEW x \in Instances, NEW i \in DOMAIN exec'[x]
      PROVE  CallOK(x, i)' /\ (IsCurrent(exec[x][i])' => IsCurrent(exec[x][f[x][i]]))
  <2> DEFINE k == f[x][i]
  <2>1. k \in DOMAIN exec[x] /\ exec'[x][i] = exec[x][k] /\ (k = 1 /\ busy[x] => i = 1 /\ busy'[x])
    BY <1>1 DEF Survives
  <2>2. CallOK(x, k)
    BY <2>1 DEF CallInv
  <2>3. exec[x][k].req \in Int /\ req \in Int /\ req' \in Int
    <3>1. exec[x][k] \in Job
      BY <2>1, Places
    <3>2. 0..MaxRequests \subseteq Int
      BY RequestAssumption
    <3> QED BY <3>1, <3>2 DEF Job, TypeInv, TypeOK
  <2>4. Live("whisper")' = Live("whisper")
    BY DEF Live
  <2>5. IsCurrent(exec[x][k]) =>
          \/ AwaitedAt(x, i)' /\ pc' \in Serving /\ req' = req
          \/ pc' \notin Serving /\ i = 1 /\ busy'[x] /\ x # Live("whisper")
    BY DEF Settled
  <2> HIDE DEF k
  <2>6. IsCurrent(exec[x][i])' => IsCurrent(exec[x][k])
    <3> SUFFICES ASSUME IsCurrent(exec[x][i])' PROVE IsCurrent(exec[x][k])
      OBVIOUS
    <3>1. IsCall(exec[x][k]) /\ pc' \in Serving /\ exec[x][k].req = req' /\ req' = req
      BY <2>1 DEF IsCurrent, IsCall, Serves
    <3>2. pc \notin Entering
      BY <2>2, <2>3, <3>1 DEF CallOK
    <3> QED BY <3>1, <3>2 DEF IsCurrent, Serves
  <2>7. ASSUME IsCall(exec[x][i])'
        PROVE  /\ exec'[x][i].req <= req'
               /\ pc' \in Entering => exec'[x][i].req < req'
               /\ exec'[x][i].kind = "swap" => exec'[x][i].model = "whisper"
    <3>1. IsCall(exec[x][k])
      BY <2>1, <2>7 DEF IsCall
    <3> QED BY <2>1, <2>2, <2>3, <3>1 DEF CallOK, Serves
  <2>8. IsCall(exec[x][i])' /\ IsCurrent(exec[x][i])' => AwaitedAt(x, i)'
    BY <2>5, <2>6 DEF IsCurrent
  <2>9. ASSUME IsCall(exec[x][i])', ~IsCurrent(exec[x][i])'
        PROVE  i = 1 /\ busy'[x] /\ x # Live("whisper")'
    <3>1. CASE IsCurrent(exec[x][k])
      <4>1. ~(pc' \in Serving /\ req' = req)
        BY <2>1, <2>9, <3>1 DEF IsCurrent, IsCall
      <4> QED BY <2>4, <2>5, <3>1, <4>1
    <3>2. CASE ~IsCurrent(exec[x][k])
      <4>1. IsCall(exec[x][k])
        BY <2>1, <2>9 DEF IsCall
      <4> QED BY <2>1, <2>2, <2>4, <3>2, <4>1 DEF CallOK
    <3> QED BY <3>1, <3>2
  <2>10. CallOK(x, i)'
    BY <2>7, <2>8, <2>9 DEF CallOK
  <2> QED BY <2>6, <2>10 DEF k
<1>2. ASSUME NEW x \in Instances, NEW i \in DOMAIN exec'[x], NEW k \in DOMAIN exec'[x],
             IsCurrent(exec[x][i])', IsCurrent(exec[x][k])'
      PROVE  i = k
  <2>1. f[x][i] = f[x][k]
    <3>1. IsCurrent(exec[x][f[x][i]]) /\ IsCurrent(exec[x][f[x][k]])
      BY <1>1, <1>2
    <3> QED BY <1>2, <3>1 DEF CallInv, Survives
  <2>2. i \in Int /\ k \in Int /\ f[x][i] \in Int
    <3>1. exec' \in [Instances -> Seq(Job)]
      BY DEF TypeInv, TypeOK
    <3>2. DOMAIN exec'[x] \subseteq Nat
      BY <3>1
    <3> QED BY <3>2, Places DEF Survives
  <2>3. i < k => f[x][i] < f[x][k]
    BY <1>2 DEF Survives
  <2>4. k < i => f[x][k] < f[x][i]
    BY <1>2 DEF Survives
  <2> QED BY <2>1, <2>2, <2>3, <2>4
<1> QED BY <1>1, <1>2 DEF CallInv

LEMMA CallFrame ==
  ASSUME TypeInv, TypeInv', CallInv, NEW f, Survives(f), Serves, pc \in Serving => pc' \in Serving,
         UNCHANGED <<gen, req, task>>
  PROVE  CallInv'
<1>1. Settled(f)
  <2> SUFFICES ASSUME NEW x \in Instances, NEW i \in DOMAIN exec'[x], IsCurrent(exec[x][f[x][i]])
               PROVE  AwaitedAt(x, i)' /\ pc' \in Serving /\ req' = req
    BY DEF Settled
  <2>1. f[x][i] \in DOMAIN exec[x] /\ exec'[x][i] = exec[x][f[x][i]]
    BY DEF Survives
  <2>2. AwaitedAt(x, f[x][i])
    BY <2>1 DEF CallInv, CallOK, IsCurrent
  <2> QED BY <2>1, <2>2 DEF AwaitedAt, Awaits, IsCurrent
<1> QED BY <1>1, CallKept

LEMMA CallSettled ==
  ASSUME TypeInv, TypeInv', CallInv, NEW f, Survives(f), Serves, UNCHANGED gen,
         \A x \in Instances : \A i \in DOMAIN exec[x] : ~IsCurrent(exec[x][i])
  PROVE  CallInv'
<1>1. Settled(f)
  BY DEF Settled, Survives
<1> QED BY <1>1, CallKept

\* The queues are as they were, and the task waits for none of their calls.
LEMMA CallUntouched ==
  ASSUME TypeInv, TypeInv', CallInv, UNCHANGED <<gen, exec, busy>>, Serves,
         ~(task.pc \in {"swap", "run"} /\ task.outcome = "none")
  PROVE  CallInv'
<1>1. PICK f : Survives(f)
  BY SurvivesFrame
<1> QED BY <1>1, NoCurrentCall, CallSettled

\* The queues and the task are as they were.
LEMMA CallStays ==
  ASSUME TypeInv, TypeInv', CallInv, UNCHANGED <<gen, exec, busy, req, task>>, Serves,
         pc \in Serving => pc' \in Serving
  PROVE  CallInv'
<1>1. PICK f : Survives(f)
  BY SurvivesFrame
<1> QED BY <1>1, CallFrame

\* The first call of y's queue ends, and its result reaches the task.
LEMMA CallAfterDelivery ==
  ASSUME TypeInv, TypeInv', TaskInv, CallInv, NEW y \in Instances, exec[y] # <<>>, Pop(y),
         NEW outcome, Deliver(Head(exec[y]), outcome), UNCHANGED <<gen, req, pc>>
  PROVE  CallInv'
<1>1. PICK f : Survives(f) /\ Left(f, y, 1)
  BY SurvivesPop
<1>2. Serves
  BY DEF Serves
<1>3. Head(exec[y]) = exec[y][1]
  BY HeadJob
<1>4. CASE Awaits(exec[y][1])
  <2>1. Settled(f)
    <3> SUFFICES ASSUME NEW x \in Instances, NEW i \in DOMAIN exec'[x],
                        IsCurrent(exec[x][f[x][i]])
                 PROVE  FALSE
      BY DEF Settled
    <3>1. f[x][i] \in DOMAIN exec[x]
      BY <1>1 DEF Survives
    <3>2. x = y /\ f[x][i] = 1
      BY <1>4, <3>1, Delivery
    <3> QED BY <1>1, <3>2 DEF Left
  <2> QED BY <1>1, <1>2, <2>1, CallKept
<1>5. CASE ~Awaits(exec[y][1])
  BY <1>1, <1>2, <1>3, <1>5, CallFrame DEF Deliver
<1> QED BY <1>4, <1>5

\* A call is added to y's queue: a move, or the only call of its request.
Joins(e, y) ==
    IsCall(e) =>
      /\ e.req = req /\ pc' \in Serving
      /\ e.kind = "swap" => e.model = "whisper"
      /\ task'.pc = IF e.kind = "swap" THEN "swap" ELSE "run"
      /\ task'.outcome = "none" /\ task'.at = y

LEMMA CallAfterAppend ==
  ASSUME TypeInv, TypeInv', CallInv, NEW y \in Instances, NEW e \in Job,
         exec' = [exec EXCEPT ![y] = Append(@, e)], Joins(e, y), UNCHANGED <<gen, busy, req>>,
         pc' \in Serving <=> pc \in Serving, pc' \in Entering => pc \in Entering,
         \/ ~IsCall(e) /\ UNCHANGED task
         \/ ~(task.pc \in {"swap", "run"} /\ task.outcome = "none")
  PROVE  CallInv'
<1>1. \A x \in Instances : \A i \in DOMAIN exec'[x] :
         Added(x, i, y, e) \/ (i \in DOMAIN exec[x] /\ exec'[x][i] = exec[x][i])
  BY AfterAppend
<1>2. Live("whisper")' = Live("whisper")
  BY DEF Live
<1>3. ASSUME NEW x \in Instances, NEW i \in DOMAIN exec'[x]
      PROVE  /\ CallOK(x, i)'
             /\ IsCurrent(exec[x][i])' =>
                  \/ Added(x, i, y, e) /\ IsCall(e)
                  \/ i \in DOMAIN exec[x] /\ IsCurrent(exec[x][i])
  <2>1. CASE Added(x, i, y, e)
    <3>1. x = y /\ exec'[x][i] = e
      BY <2>1 DEF Added
    <3>2. e.req \in Int /\ req \in Int /\ req' = req
      BY RequestAssumption DEF Job, TypeInv, TypeOK
    <3>3. IsCall(e) => pc' \notin Entering /\ IsCurrent(e)' /\ AwaitedAt(x, i)'
      BY <3>1, <3>2 DEF Joins, IsCall, IsCurrent, Awaits, AwaitedAt, Serving, Entering
    <3>4. IsCall(e) => e.req <= req' /\ (e.kind = "swap" => e.model = "whisper")
      BY <3>2 DEF Joins
    <3> QED BY <2>1, <3>1, <3>2, <3>3, <3>4 DEF CallOK, IsCall, IsCurrent
  <2>2. CASE i \in DOMAIN exec[x] /\ exec'[x][i] = exec[x][i]
    <3>1. CallOK(x, i)
      BY <2>2 DEF CallInv
    <3>2. IsCurrent(exec[x][i])' <=> IsCurrent(exec[x][i])
      BY <2>2 DEF IsCurrent, IsCall
    <3>3. IsCurrent(exec[x][i]) => AwaitedAt(x, i)'
      BY <2>2, <3>1, NoCurrentCall DEF CallOK, IsCurrent, AwaitedAt, Awaits
    <3> QED BY <1>2, <2>2, <3>1, <3>2, <3>3 DEF CallOK, IsCall
  <2> QED BY <1>1, <2>1, <2>2
<1>4. ASSUME NEW x \in Instances, NEW i \in DOMAIN exec'[x], NEW k \in DOMAIN exec'[x],
             IsCurrent(exec[x][i])', IsCurrent(exec[x][k])'
      PROVE  i = k
  <2>1. CASE IsCall(e)
    <3>1. Added(x, i, y, e) /\ Added(x, k, y, e)
      BY <1>3, <1>4, <2>1, NoCurrentCall
    <3> QED BY <3>1 DEF Added
  <2>2. CASE ~IsCall(e)
    BY <1>3, <1>4, <2>2 DEF CallInv
  <2> QED BY <2>1, <2>2
<1> QED BY <1>3, <1>4 DEF CallInv

LEMMA PendingPlaces ==
  ASSUME TypeInv, NEW y \in Instances, exec[y] # <<>>, NEW job \in Range(Pending(y))
  PROVE  \E k \in DOMAIN exec[y] : exec[y][k] = job /\ ~(busy[y] /\ k = 1)
<1>1. exec[y] \in Seq(Job)
  BY DEF TypeInv, TypeOK
<1>2. CASE busy[y]
  <2>1. PICK i \in DOMAIN Tail(exec[y]) : job = Tail(exec[y])[i]
    BY <1>2 DEF Range, Pending
  <2>2. i \in Nat /\ i >= 1 /\ i + 1 \in DOMAIN exec[y] /\ Tail(exec[y])[i] = exec[y][i + 1]
    BY <1>1, <2>1, TailIs
  <2> QED BY <2>1, <2>2
<1>3. CASE ~busy[y]
  BY <1>3 DEF Range, Pending
<1> QED BY <1>2, <1>3

\* A call begins before it has ended, so a task waits for what was not begun.
LEMMA CallAfterDrain ==
  ASSUME TypeInv, TypeInv', QueueShape, TaskInv, CallInv, DrainTimesOut
  PROVE  CallInv'
<1> DEFINE y == Live(watch)
<1>1. /\ y \in Instances /\ exec[y] # <<>> /\ exec' = [exec EXCEPT ![y] = Begun(y)]
      /\ task' = IF \E job \in Range(Pending(y)) : Awaits(job)
                 THEN [task EXCEPT !.outcome = "dropped"] ELSE task
      /\ UNCHANGED <<gen, busy, req>> /\ pc \in Serving /\ pc' \in Serving
  BY LiveIsInstance DEF DrainTimesOut, TypeInv, TypeOK, Serving
<1> HIDE DEF y
<1>2. PICK f : Survives(f) /\ \A i \in DOMAIN exec'[y] : f[y][i] = 1 /\ busy[y]
  BY <1>1, SurvivesDrain
<1>3. Serves
  BY <1>1 DEF Serves, Serving, Entering
<1>4. CASE \E job \in Range(Pending(y)) : Awaits(job)
  <2>1. PICK k \in DOMAIN exec[y] : Awaits(exec[y][k]) /\ ~(busy[y] /\ k = 1)
    BY <1>1, <1>4, PendingPlaces
  <2>2. IsCurrent(exec[y][k])
    BY <1>1, <2>1 DEF IsCurrent, IsCall, Awaits
  <2>3. y = task.at
    BY <1>1, <2>1, <2>2 DEF CallInv, CallOK, IsCurrent, AwaitedAt
  <2>4. Settled(f)
    <3> SUFFICES ASSUME NEW x \in Instances, NEW i \in DOMAIN exec'[x],
                        IsCurrent(exec[x][f[x][i]])
                 PROVE  FALSE
      BY DEF Settled
    <3>1. f[x][i] \in DOMAIN exec[x]
      BY <1>2 DEF Survives
    <3>2. x = y
      BY <2>3, <3>1 DEF CallInv, CallOK, IsCurrent, AwaitedAt
    <3>3. f[x][i] = k
      BY <2>2, <3>1, <3>2 DEF CallInv
    <3> QED BY <1>2, <2>1, <3>2, <3>3
  <2> QED BY <1>1, <1>2, <1>3, <2>4, CallKept
<1>5. CASE ~\E job \in Range(Pending(y)) : Awaits(job)
  BY <1>1, <1>2, <1>3, <1>5, CallFrame
<1> QED BY <1>4, <1>5

\* A cancelled task leaves at most a call that has begun, and not on whisper.
LEMMA CallAfterDiscard ==
  ASSUME TypeInv, TypeInv', TaskInv, CallInv, RecoveryInv, Discard PROVE CallInv'
<1> DEFINE y == task.at
           waiting == {i \in DOMAIN exec[y] : Awaits(exec[y][i]) /\ ~(busy[y] /\ i = 1)}
<1>1. /\ y \in Instances /\ UNCHANGED <<gen, busy, req>> /\ pc \in Serving /\ pc' = "sync"
  BY TaskFields DEF Discard, Serving
<1>2. Serves
  BY <1>1 DEF Serves, Serving, Entering
<1>3. ASSUME NEW x \in Instances, NEW i \in DOMAIN exec[x], IsCurrent(exec[x][i])
      PROVE  x = y /\ x # Live("whisper") /\ (i \in waiting \/ (i = 1 /\ busy[x]))
  <2>1. AwaitedAt(x, i)
    BY <1>3 DEF CallInv, CallOK, IsCurrent
  <2>2. x = task.at /\ Operating
    BY <2>1 DEF AwaitedAt, Awaits, Operating
  <2>3. ~OnWhisper
    BY DEF Discard, RecoveryInv, WhisperKnown
  <2> QED BY <1>3, <2>1, <2>2, <2>3 DEF OnWhisper, AwaitedAt
<1>4. \/ waiting = {} /\ exec' = exec
      \/ \E i \in waiting : exec' = [exec EXCEPT ![y] = RemoveAt(@, i)]
  BY DEF Discard, CancelCall
<1> HIDE DEF y, waiting
<1>5. CASE waiting = {} /\ exec' = exec
  <2>1. PICK f : Survives(f)
    BY <1>1, <1>5, SurvivesFrame
  <2>2. Settled(f)
    BY <1>1, <1>3, <1>5, <2>1 DEF Settled, Survives, Serving
  <2> QED BY <1>1, <1>2, <2>1, <2>2, CallKept
<1>6. ASSUME NEW n \in waiting, exec' = [exec EXCEPT ![y] = RemoveAt(@, n)]
      PROVE  CallInv'
  <2>1. n \in DOMAIN exec[y] /\ ~(busy[y] /\ n = 1) /\ IsCurrent(exec[y][n])
    BY <1>1 DEF waiting, y, IsCurrent, IsCall, Awaits
  <2>2. PICK f : Survives(f) /\ Left(f, y, n)
    BY <1>1, <1>6, <2>1, SurvivesRemove
  <2>3. Settled(f)
    <3> SUFFICES ASSUME NEW x \in Instances, NEW i \in DOMAIN exec'[x],
                        IsCurrent(exec[x][f[x][i]])
                 PROVE  FALSE
      BY DEF Settled
    <3>1. f[x][i] \in DOMAIN exec[x]
      BY <2>2 DEF Survives
    <3>2. x = y
      BY <1>3, <3>1
    <3>3. f[x][i] = n
      BY <2>1, <3>1, <3>2 DEF CallInv
    <3> QED BY <2>2, <3>2, <3>3 DEF Left
  <2> QED BY <1>1, <1>2, <2>2, <2>3, CallKept
<1> QED BY <1>4, <1>5, <1>6

\* The next stage swaps whisper's variant.
LEMMA SwapIsCalled ==
  ASSUME TypeInv, NEW todo \in Seq(Stages), NEW ended, Advance(todo, ended), exec' # exec
  PROVE  LET x == Live(ProcessorOf[Head(todo)])
             e == [kind |-> "swap", model |-> "whisper", req |-> req]
         IN  /\ x \in Instances /\ e \in Job /\ exec' = [exec EXCEPT ![x] = Append(@, e)]
             /\ todo # <<>> /\ Head(todo) = "transcribe" /\ down[x] = "up"
             /\ task'.pc = "swap" /\ task'.todo = todo /\ task'.at = x /\ task'.outcome = "none"
<1> DEFINE x == Live(ProcessorOf[Head(todo)])
<1>1. /\ todo # <<>> /\ Head(todo) = "transcribe" /\ down[x] = "up"
      /\ task' = [task EXCEPT !.pc = "swap", !.todo = todo, !.at = x, !.outcome = "none"]
      /\ exec' = [exec EXCEPT ![x] =
                    Append(@, [kind |-> "swap", model |-> ModelOf[Head(todo)], req |-> req])]
  BY DEF Advance
<1>2. ModelOf[Head(todo)] = "whisper" /\ "whisper" \in Models /\ ProcessorOf[Head(todo)] \in Processors
  BY <1>1 DEF ModelOf, ProcessorOf, Models, Processors
<1>3. x \in Instances /\ [kind |-> "swap", model |-> "whisper", req |-> req] \in Job
  BY <1>2, LiveIsInstance, JobType
<1> HIDE DEF x
<1>4. task'.pc = "swap" /\ task'.todo = todo /\ task'.at = x /\ task'.outcome = "none"
  BY <1>1 DEF TypeInv, TaskType
<1> QED BY <1>1, <1>2, <1>3, <1>4 DEF x

LEMMA CallAfterAdvance ==
  ASSUME TypeInv, TypeInv', CallInv, NEW todo \in Seq(Stages), NEW ended, Advance(todo, ended),
         exec' # exec, UNCHANGED <<gen, busy, req, pc>>, pc \in Serving,
         task.pc \notin {"swap", "run"}
  PROVE  CallInv'
<1> DEFINE x == Live(ProcessorOf[Head(todo)])
           e == [kind |-> "swap", model |-> "whisper", req |-> req]
<1>1. /\ x \in Instances /\ e \in Job /\ exec' = [exec EXCEPT ![x] = Append(@, e)]
      /\ task'.pc = "swap" /\ task'.at = x /\ task'.outcome = "none"
  BY SwapIsCalled
<1>2. e.kind = "swap" /\ e.model = "whisper" /\ e.req = req
  OBVIOUS
<1> HIDE DEF x, e
<1>3. Joins(e, x)
  BY <1>1, <1>2 DEF Joins
<1> QED BY <1>1, <1>3, CallAfterAppend DEF Serving, Entering

LEMMA CallStep ==
  ASSUME TypeInv, TypeInv', QueueShape, TaskInv, CallInv, MoveInv, RecoveryInv, [Next]_vars
  PROVE  CallInv'
<1>0. CASE UNCHANGED vars
  BY <1>0, CallStays DEF Serves, vars, procVars, workerVars
<1>1. CASE TakeRequest
  <2>1. task.pc \notin {"swap", "run"} \/ task.outcome # "none"
    BY <1>1 DEF TakeRequest, TaskInv, Serving
  <2> QED BY <1>1, <2>1, CallUntouched DEF TakeRequest, Serves, Serving, Entering, procVars,
     workerVars
<1>2. CASE OtherEvicts
  <2>1. PICK m \in Models : Dispatch("unload", m)
    BY <1>2 DEF OtherEvicts, TypeInv, TypeOK
  <2> DEFINE y == Live(Owner[m])
             e == [kind |-> "unload", model |-> m, req |-> req]
  <2>2. y \in Instances /\ e \in Job /\ exec' = [exec EXCEPT ![y] = Append(@, e)]
    BY <2>1, Names, LiveIsInstance, JobType DEF Dispatch
  <2>3. ~IsCall(e)
    BY DEF IsCall
  <2> HIDE DEF y, e
  <2>4. Joins(e, y)
    BY <2>3 DEF Joins
  <2> QED BY <1>2, <2>2, <2>3, <2>4, CallAfterAppend DEF OtherEvicts, workerVars
<1>3. CASE EnterAdmission
  BY <1>3, CallStays DEF EnterAdmission, Serves, Serving, Entering, procVars, workerVars
<1>4. CASE LoadRequired
  <2>1. PICK m \in Models : Dispatch("load", m)
    BY <1>4, TaskFields, Names DEF LoadRequired
  <2> DEFINE y == Live(Owner[m])
             e == [kind |-> "load", model |-> m, req |-> req]
  <2>2. y \in Instances /\ e \in Job /\ exec' = [exec EXCEPT ![y] = Append(@, e)]
    BY <2>1, Names, LiveIsInstance, JobType DEF Dispatch
  <2>3. ~IsCall(e)
    BY DEF IsCall
  <2> HIDE DEF y, e
  <2>4. Joins(e, y)
    BY <2>3 DEF Joins
  <2> QED BY <1>4, <2>2, <2>3, <2>4, CallAfterAppend DEF LoadRequired, TaskInv, Serving, Entering
<1>5. CASE GrantLease
  <2>1. task.pc \notin {"swap", "run"} \/ task.outcome # "none"
    BY <1>5 DEF GrantLease, TaskInv, Serving
  <2> QED BY <1>5, <2>1, CallUntouched DEF GrantLease, Serves, Serving, Entering, procVars,
     workerVars
<1>6. CASE TaskReturns
  <2>1. task.pc \notin {"swap", "run"} \/ task.outcome # "none"
    BY <1>6 DEF TaskReturns, TaskInv, Serving
  <2> QED BY <1>6, <2>1, CallUntouched DEF TaskReturns, Release, Serves, Serving, Entering,
     procVars, workerVars
<1>7. CASE SwapErrorRaised
  <2>1. task.pc = "done" /\ pc' \in Serving /\ pc \in Serving
    BY <1>7 DEF SwapErrorRaised, Serving
  <2> QED BY <1>7, <2>1, CallUntouched DEF SwapErrorRaised, Serves, Serving, Entering, procVars
<1>8. CASE TimesOut
  BY <1>8, CallStays DEF TimesOut, Serves, Serving, Entering, procVars, workerVars
<1>9. CASE CheckIdle
  <2>1. pc \in Serving /\ pc' \in Serving
    BY <1>9, OnwardGoes DEF CheckIdle, Learn, Serving, TypeInv, TypeOK
  <2> QED BY <1>9, <2>1, CallStays DEF CheckIdle, Serves, Serving, Entering, procVars
<1>10. CASE IdleWaitEnds
  <2>1. pc \in Serving /\ pc' \in Serving
    BY <1>10, OnwardGoes DEF IdleWaitEnds, Learn, WaitReturns, WentIdle, Serving, TypeInv, TypeOK
  <2> QED BY <1>10, <2>1, CallStays DEF IdleWaitEnds, Serves, Serving, Entering, procVars
<1>11. CASE EnterBarrier
  BY <1>11, CallStays DEF EnterBarrier, Serves, Serving, Entering, procVars, workerVars
<1>12. CASE ShutdownSignals
  BY <1>12, CallStays DEF ShutdownSignals, Serves, Serving, Entering, procVars, workerVars
<1>13. CASE ShutdownCloses
  BY <1>13, CallStays DEF ShutdownCloses, Serves, Serving, Entering, procVars, workerVars
<1>14. CASE Drained
  BY <1>14, CallStays DEF Drained, Serves, Serving, Entering, procVars, workerVars
<1>15. CASE DrainTimesOut
  BY <1>15, CallAfterDrain
<1>16. CASE Rebind
  <2>1. /\ watch \in Processors /\ gen' = [gen EXCEPT ![watch] = @ + 1]
        /\ UNCHANGED <<exec, busy, req, task>> /\ pc \in Serving
    BY <1>16 DEF Rebind, TypeInv, TypeOK, Serving
  <2>2. pc' \in Serving
    BY <1>16, OnwardGoes DEF Rebind, Serving, TypeInv, TypeOK
  <2>3. Live("whisper")' \in Instances /\ Live("whisper") \in Instances
    BY LiveIsInstance, FirstInstance DEF TypeInv, TypeOK, Live, Instances
  <2>4. CASE watch = "whisper"
    <3>1. gen[watch] \in Int /\ gen'[watch] = gen[watch] + 1
      BY <2>1 DEF TypeInv, TypeOK
    <3>2. exec[Live("whisper")'] = <<>>
      BY <2>3, <2>4, <3>1 DEF QueueShape, Live
    <3>3. \A x \in Instances : \A i \in DOMAIN exec[x] : x # Live("whisper")'
      BY <3>2
    <3> QED BY <2>1, <2>2, <3>3 DEF CallInv, CallOK, IsCurrent, AwaitedAt, Awaits, Serving, Entering
  <2>5. CASE watch # "whisper"
    <3>1. Live("whisper")' = Live("whisper")
      BY <2>1, <2>5, FirstInstance DEF Live, TypeInv, TypeOK
    <3> QED BY <2>1, <2>2, <3>1 DEF CallInv, CallOK, IsCurrent, AwaitedAt, Awaits, Serving, Entering
  <2> QED BY <2>4, <2>5
<1>17. CASE Discard
  BY <1>17, CallAfterDiscard
<1>18. CASE TaskStarts
  <2>1. /\ Advance(task.todo, processing)
        /\ UNCHANGED <<gen, busy, req, pc>>
        /\ task.pc \notin {"swap", "run"} /\ pc \in Serving
    BY <1>18 DEF TaskStarts, TaskInv, workerVars
  <2>2. task.todo \in Seq(Stages)
    BY TaskFields
  <2>3. Serves /\ pc' \in Serving /\ pc' \notin Entering
    BY <2>1 DEF Serves, Serving, Entering
  <2>4. CASE exec' = exec
    BY <2>1, <2>3, <2>4, CallUntouched
  <2>5. CASE exec' # exec
    BY <2>1, <2>2, <2>3, <2>5, CallAfterAdvance
  <2> QED BY <2>4, <2>5
<1>19. CASE SwapReturns
  <2>1. task.pc \notin {"swap", "run"} \/ task.outcome # "none"
    BY <1>19 DEF SwapReturns, TaskInv, Serving
  <2> QED BY <1>19, <2>1, CallUntouched DEF SwapReturns, Serves, Serving, Entering, procVars,
     workerVars
<1>20. CASE CallModel
  <2> DEFINE e == [kind |-> "infer", model |-> ModelOf[Head(task.todo)], req |-> req]
  <2>1. /\ UNCHANGED <<gen, busy, req, pc>> /\ task.pc = "begun" /\ pc \in Serving
    BY <1>20 DEF CallModel, TaskInv
  <2>2. Serves /\ pc' \in Serving /\ pc' \notin Entering
    BY <2>1 DEF Serves, Serving, Entering
  <2>3. CASE exec' = exec
    BY <2>1, <2>2, <2>3, CallUntouched
  <2>4. CASE /\ exec' = [exec EXCEPT ![task.at] = Append(@, e)]
             /\ task' = [task EXCEPT !.pc = "run", !.outcome = "none"]
    <3>1. Head(task.todo) \in Stages
      BY <2>1, TaskFields, HeadTailProperties DEF TaskInv, TaskShape, Operating
    <3>2. e \in Job /\ e.kind = "infer" /\ e.req = req
      BY <3>1, Names, JobType
    <3> HIDE DEF e
    <3>3. task'.pc = "run" /\ task'.at = task.at /\ task'.outcome = "none"
      BY <2>4 DEF TypeInv, TaskType
    <3>4. Joins(e, task.at)
      BY <2>1, <2>2, <3>2, <3>3 DEF Joins
    <3> QED BY <2>1, <2>2, <2>4, <3>2, <3>4, CallAfterAppend, TaskFields
  <2> QED BY <1>20, <2>3, <2>4 DEF CallModel
<1>21. CASE ModelReturns
  <2>1. task.pc \notin {"swap", "run"} \/ task.outcome # "none"
    BY <1>21 DEF ModelReturns, TaskInv, Serving
  <2> QED BY <1>21, <2>1, CallUntouched DEF ModelReturns, Serves, Serving, Entering, procVars,
     workerVars
<1>22. CASE StageEnds
  <2>1. /\ Advance(Tail(task.todo), [processing EXCEPT ![task.at] = FALSE])
        /\ UNCHANGED <<gen, busy, req, pc>>
        /\ task.pc \notin {"swap", "run"} /\ pc \in Serving
    BY <1>22 DEF StageEnds, TaskInv, workerVars
  <2>2. Tail(task.todo) \in Seq(Stages)
    BY <1>22, TaskFields, HeadTailProperties DEF StageEnds, TaskInv, TaskShape, Operating
  <2>3. Serves /\ pc' \in Serving /\ pc' \notin Entering
    BY <2>1 DEF Serves, Serving, Entering
  <2>4. CASE exec' = exec
    BY <2>1, <2>3, <2>4, CallUntouched
  <2>5. CASE exec' # exec
    BY <2>1, <2>2, <2>3, <2>5, CallAfterAdvance
  <2> QED BY <2>4, <2>5
<1>23. CASE ClientGone
  BY <1>23, CallStays DEF ClientGone, Serves, Serving, Entering, procVars, workerVars
<1>24. ASSUME NEW x \in Instances, CallBegins(x) PROVE CallInv'
  <2>1. exec[x] # <<>> /\ UNCHANGED <<gen, req, pc>>
    BY <1>24 DEF CallBegins, workerVars
  <2>2. CASE Pop(x) /\ Deliver(Head(exec[x]), "error")
    BY <2>1, <2>2, CallAfterDelivery
  <2>3. CASE busy' = [busy EXCEPT ![x] = TRUE] /\ UNCHANGED <<exec, task>>
    <3>1. \A y \in Instances : busy[y] => busy'[y]
      BY <2>3 DEF TypeInv, TypeOK
    <3>2. PICK f : Survives(f)
      BY <2>3, <3>1, SurvivesFrame
    <3> QED BY <2>1, <2>3, <3>2, CallFrame DEF Serves
  <2> QED BY <1>24, <2>2, <2>3 DEF CallBegins
<1>25. ASSUME NEW x \in Instances, SwapEnds(x) PROVE CallInv'
  <2>1. exec[x] # <<>> /\ Pop(x) /\ UNCHANGED <<gen, req, pc>>
    BY <1>25 DEF SwapEnds, Running, QueueShape, workerVars
  <2>2. \E outcome : Deliver(Head(exec[x]), outcome)
    BY <1>25 DEF SwapEnds
  <2> QED BY <2>1, <2>2, CallAfterDelivery
<1>26. ASSUME NEW x \in Instances, LoadEnds(x) PROVE CallInv'
  <2>1. MoveOK(x, exec[x][1]) /\ exec[x][1].kind = "load" /\ exec[x] # <<>>
    BY <1>26, HeadMoveOK DEF LoadEnds
  <2>2. pc = "loading"
    BY <2>1 DEF MoveOK, IsMove
  <2>3. PICK f : Survives(f)
    BY <1>26, <2>1, SurvivesPop DEF LoadEnds
  <2> QED BY <1>26, <2>2, <2>3, CallFrame DEF LoadEnds, Serves, Serving, Entering
<1>27. ASSUME NEW x \in Instances, UnloadEnds(x) PROVE CallInv'
  <2>1. exec[x] # <<>>
    BY <1>27 DEF UnloadEnds, Running, QueueShape
  <2>2. PICK f : Survives(f)
    BY <1>27, <2>1, SurvivesPop DEF UnloadEnds
  <2> QED BY <1>27, <2>2, CallFrame DEF UnloadEnds, Serves, workerVars
<1>28. ASSUME NEW x \in Instances, InferenceEnds(x) PROVE CallInv'
  <2>1. exec[x] # <<>> /\ Pop(x) /\ UNCHANGED <<gen, req, pc>>
    BY <1>28 DEF InferenceEnds, Running, QueueShape, workerVars
  <2>2. \E outcome : Deliver(Head(exec[x]), outcome)
    BY <1>28 DEF InferenceEnds
  <2> QED BY <2>1, <2>2, CallAfterDelivery
<1>29. CASE SwapRecovered
  <2>1. task.pc \notin {"swap", "run"} \/ task.outcome # "none"
    BY <1>29 DEF SwapRecovered, TaskInv, Serving
  <2> QED BY <1>29, <2>1, CallUntouched DEF SwapRecovered, Release, Serves, Serving, Entering,
     procVars, workerVars
<1>30. CASE Synchronized
  <2>1. task.pc \notin {"swap", "run"} \/ task.outcome # "none"
    BY <1>30 DEF Synchronized, TaskInv, Serving
  <2> QED BY <1>30, <2>1, CallUntouched DEF Synchronized, Release, Serves, Serving, Entering,
     procVars, workerVars
<1> QED
  BY <1>0, <1>1, <1>2, <1>3, <1>4, <1>5, <1>6, <1>7, <1>8, <1>9, <1>10, <1>11,
     <1>12, <1>13, <1>14, <1>15, <1>16, <1>17, <1>18, <1>19, <1>20, <1>21, <1>22, <1>23,
     <1>24, <1>25, <1>26, <1>27, <1>28, <1>29, <1>30
  DEF Next, WorkerStep, TaskStep, CallEnds
-----------------------------------------------------------------------------
(* Loads and unloads of the residents *)

\* The step leaves what is being moved.
Moving ==
    /\ pc = "loading" => pc' = "loading"
    /\ lock = "other" => lock' = "other" /\ loaded \ held \subseteq loaded' \ held'

NoMoves == \A x \in Instances : \A i \in DOMAIN exec[x] : ~IsMove(exec[x][i])

LEMMA NothingMoves == ASSUME MoveInv, pc # "loading", lock # "other" PROVE NoMoves
BY DEF MoveInv, MoveOK, NoMoves, IsMove

LEMMA MoveFrame ==
  ASSUME TypeInv, TypeInv', MoveInv, NEW f, Survives(f), Moving \/ NoMoves,
         UNCHANGED gen \/ NoMoves
  PROVE  MoveInv'
<1>1. ASSUME NEW x \in Instances, NEW i \in DOMAIN exec'[x]
      PROVE  /\ f[x][i] \in DOMAIN exec[x] /\ exec'[x][i] = exec[x][f[x][i]]
             /\ MoveOK(x, exec[x][i])'
  <2>1. f[x][i] \in DOMAIN exec[x] /\ exec'[x][i] = exec[x][f[x][i]]
    BY DEF Survives
  <2>2. MoveOK(x, exec[x][f[x][i]]) /\ (NoMoves => ~IsMove(exec[x][f[x][i]]))
    BY <2>1 DEF MoveInv, NoMoves
  <2>3. MoveOK(x, exec[x][i])'
    BY <2>1, <2>2 DEF MoveOK, IsMove, Moving, Live
  <2> QED BY <2>1, <2>3
<1>2. ASSUME NEW x \in Instances, NEW y \in Instances, NEW i \in DOMAIN exec'[x],
             NEW k \in DOMAIN exec'[y], IsMove(exec'[x][i]), IsMove(exec'[y][k])
      PROVE  x = y /\ i = k
  <2>1. x = y /\ f[x][i] = f[y][k]
    BY <1>1, <1>2 DEF MoveInv
  <2>2. i \in Int /\ k \in Int /\ f[x][i] \in Int
    <3>1. exec' \in [Instances -> Seq(Job)]
      BY DEF TypeInv, TypeOK
    <3>2. DOMAIN exec'[x] \subseteq Nat /\ DOMAIN exec'[y] \subseteq Nat
      BY <3>1
    <3> QED BY <1>1, <3>2, Places
  <2>3. i < k => f[x][i] < f[x][k]
    BY <2>1 DEF Survives
  <2>4. k < i => f[x][k] < f[x][i]
    BY <2>1 DEF Survives
  <2> QED BY <2>1, <2>2, <2>3, <2>4
<1> QED BY <1>1, <1>2 DEF MoveInv, IsMove

LEMMA MoveStays ==
  ASSUME TypeInv, TypeInv', MoveInv, UNCHANGED <<exec, busy>>, Moving \/ NoMoves,
         UNCHANGED gen \/ NoMoves
  PROVE  MoveInv'
<1>1. PICK f : Survives(f)
  BY SurvivesFrame
<1> QED BY <1>1, MoveFrame

\* The call that ends is no move, or the only one.
LEMMA MoveAfterPop ==
  ASSUME TypeInv, TypeInv', MoveInv, NEW y \in Instances, exec[y] # <<>>, Pop(y),
         IsMove(exec[y][1]) \/ Moving, UNCHANGED gen
  PROVE  MoveInv'
<1>1. PICK f : Survives(f) /\ Left(f, y, 1)
  BY SurvivesPop
<1>2. 1 \in DOMAIN exec[y]
  BY DEF TypeInv, TypeOK
<1>3. CASE Moving
  BY <1>1, <1>3, MoveFrame
<1>4. CASE IsMove(exec[y][1])
  <2>1. \A x \in Instances : \A i \in DOMAIN exec'[x] : ~IsMove(exec'[x][i])
    <3> SUFFICES ASSUME NEW x \in Instances, NEW i \in DOMAIN exec'[x], IsMove(exec'[x][i])
                 PROVE  FALSE
      OBVIOUS
    <3>1. f[x][i] \in DOMAIN exec[x] /\ exec'[x][i] = exec[x][f[x][i]]
      BY <1>1 DEF Survives
    <3>2. x = y /\ f[x][i] = 1
      BY <1>2, <1>4, <3>1 DEF MoveInv
    <3> QED BY <1>1, <3>2 DEF Left
  <2> QED BY <2>1 DEF MoveInv, MoveOK, IsMove
<1> QED BY <1>3, <1>4

\* What an admission adds is the only move.
Starts(e, y) ==
    IsMove(e) =>
      /\ NoMoves /\ y = Live(Owner[e.model])
      /\ e.kind = "load" => pc' = "loading"
      /\ e.kind = "unload" => lock' = "other" /\ e.model \in loaded' \ held'

LEMMA MoveAfterAppend ==
  ASSUME TypeInv, MoveInv, NEW y \in Instances, NEW e \in Job,
         exec' = [exec EXCEPT ![y] = Append(@, e)], Starts(e, y), Moving \/ NoMoves, UNCHANGED gen
  PROVE  MoveInv'
<1>1. \A x \in Instances : \A i \in DOMAIN exec'[x] :
         Added(x, i, y, e) \/ (i \in DOMAIN exec[x] /\ exec'[x][i] = exec[x][i])
  BY AfterAppend
<1>2. ASSUME NEW x \in Instances, NEW i \in DOMAIN exec'[x]
      PROVE  /\ MoveOK(x, exec[x][i])'
             /\ IsMove(exec'[x][i]) =>
                  \/ Added(x, i, y, e) /\ IsMove(e)
                  \/ i \in DOMAIN exec[x] /\ IsMove(exec[x][i])
  <2>1. CASE Added(x, i, y, e)
    BY <2>1 DEF Added, Starts, MoveOK, IsMove, Live
  <2>2. CASE i \in DOMAIN exec[x] /\ exec'[x][i] = exec[x][i]
    <3>1. MoveOK(x, exec[x][i]) /\ (NoMoves => ~IsMove(exec[x][i]))
      BY <2>2 DEF MoveInv, NoMoves
    <3> QED BY <2>2, <3>1 DEF MoveOK, IsMove, Moving, Live
  <2> QED BY <1>1, <2>1, <2>2
<1>3. ASSUME NEW x \in Instances, NEW z \in Instances, NEW i \in DOMAIN exec'[x],
             NEW k \in DOMAIN exec'[z], IsMove(exec'[x][i]), IsMove(exec'[z][k])
      PROVE  x = z /\ i = k
  <2>1. CASE IsMove(e)
    <3>1. Added(x, i, y, e) /\ Added(z, k, y, e)
      BY <1>2, <1>3, <2>1 DEF Starts, NoMoves
    <3> QED BY <3>1 DEF Added
  <2>2. CASE ~IsMove(e)
    <3>1. /\ i \in DOMAIN exec[x] /\ IsMove(exec[x][i])
          /\ k \in DOMAIN exec[z] /\ IsMove(exec[z][k])
      BY <1>2, <1>3, <2>2
    <3> QED BY <3>1 DEF MoveInv
  <2> QED BY <2>1, <2>2
<1> QED BY <1>2, <1>3 DEF MoveInv, IsMove

LEMMA MoveStep ==
  ASSUME TypeInv, TypeInv', QueueShape, LockShape, TaskInv, MoveInv, [Next]_vars
  PROVE  MoveInv'
<1>0. CASE UNCHANGED vars
  BY <1>0, MoveStays DEF Moving, vars, procVars, residentVars, workerVars
<1>1. CASE TakeRequest
  BY <1>1, MoveStays DEF TakeRequest, Moving, procVars, residentVars, workerVars
<1>2. CASE OtherEvicts
  <2>1. PICK m \in Models : Dispatch("unload", m) /\ m \in loaded \ held
    BY <1>2 DEF OtherEvicts, TypeInv, TypeOK
  <2> DEFINE y == Live(Owner[m])
             e == [kind |-> "unload", model |-> m, req |-> req]
  <2>2. y \in Instances /\ e \in Job /\ exec' = [exec EXCEPT ![y] = Append(@, e)]
        /\ y = Live(Owner[e.model]) /\ e.kind = "unload" /\ e.model = m
    BY <2>1, Names, LiveIsInstance, JobType DEF Dispatch
  <2> HIDE DEF y, e
  <2>3. NoMoves
    BY <1>2, NothingMoves DEF OtherEvicts, LockShape, Unlocking
  <2>4. Starts(e, y)
    BY <1>2, <2>1, <2>2, <2>3 DEF OtherEvicts, Starts, MoveOK, IsMove
  <2> QED BY <1>2, <2>2, <2>3, <2>4, MoveAfterAppend DEF OtherEvicts
<1>3. CASE EnterAdmission
  BY <1>3, MoveStays DEF EnterAdmission, Moving, procVars, residentVars, workerVars
<1>4. CASE LoadRequired
  <2>1. PICK m \in Models : Dispatch("load", m)
    BY <1>4, TaskFields, Names DEF LoadRequired
  <2> DEFINE y == Live(Owner[m])
             e == [kind |-> "load", model |-> m, req |-> req]
  <2>2. y \in Instances /\ e \in Job /\ exec' = [exec EXCEPT ![y] = Append(@, e)]
        /\ y = Live(Owner[e.model]) /\ e.kind = "load" /\ e.model = m
    BY <2>1, Names, LiveIsInstance, JobType DEF Dispatch
  <2> HIDE DEF y, e
  <2>3. NoMoves
    BY <1>4, NothingMoves DEF LoadRequired, LockShape, Unlocking
  <2>4. Starts(e, y)
    BY <1>4, <2>1, <2>2, <2>3 DEF LoadRequired, Starts, MoveOK, IsMove
  <2> QED BY <1>4, <2>2, <2>3, <2>4, MoveAfterAppend DEF LoadRequired
<1>5. CASE GrantLease
  <2>1. NoMoves
    BY <1>5, NothingMoves DEF GrantLease, LockShape, Unlocking
  <2> QED BY <1>5, <2>1, MoveStays DEF GrantLease, procVars
<1>6. CASE TaskReturns
  BY <1>6, MoveStays DEF TaskReturns, Moving, procVars, residentVars, workerVars, Release
<1>7. CASE SwapErrorRaised
  BY <1>7, MoveStays DEF SwapErrorRaised, Moving, procVars, residentVars, workerVars
<1>8. CASE TimesOut
  BY <1>8, MoveStays DEF TimesOut, Moving, procVars, residentVars, workerVars
<1>9. CASE CheckIdle
  BY <1>9, MoveStays DEF CheckIdle, Moving, procVars, residentVars, workerVars
<1>10. CASE IdleWaitEnds
  BY <1>10, MoveStays DEF IdleWaitEnds, Moving, procVars, residentVars, workerVars, WaitReturns
<1>11. CASE EnterBarrier
  BY <1>11, MoveStays DEF EnterBarrier, Moving, procVars, residentVars, workerVars
<1>12. CASE ShutdownSignals
  BY <1>12, MoveStays DEF ShutdownSignals, Moving, procVars, residentVars, workerVars
<1>13. CASE ShutdownCloses
  BY <1>13, MoveStays DEF ShutdownCloses, Moving, procVars, residentVars, workerVars
<1>14. CASE Drained
  BY <1>14, MoveStays DEF Drained, Moving, procVars, residentVars, workerVars
<1>15. CASE DrainTimesOut
  <2> DEFINE y == Live(watch)
  <2>1. y \in Instances /\ exec' = [exec EXCEPT ![y] = Begun(y)] /\ UNCHANGED <<gen, busy>>
    BY <1>15, LiveIsInstance DEF DrainTimesOut, TypeInv, TypeOK
  <2> HIDE DEF y
  <2>2. PICK f : Survives(f)
    BY <2>1, SurvivesDrain
  <2> QED BY <1>15, <2>1, <2>2, MoveFrame DEF DrainTimesOut, Moving, residentVars
<1>16. CASE Rebind
  <2>1. NoMoves
    BY <1>16, NothingMoves DEF Rebind, LockShape, Unlocking
  <2> QED BY <1>16, <2>1, MoveStays DEF Rebind, procVars
<1>17. CASE Discard
  <2>1. Moving /\ UNCHANGED <<gen, busy>>
    BY <1>17 DEF Discard, Moving, residentVars
  <2>2. CASE exec' = exec
    BY <2>1, <2>2, MoveStays
  <2>3. ASSUME NEW i \in DOMAIN exec[task.at], ~(busy[task.at] /\ i = 1),
               exec' = [exec EXCEPT ![task.at] = RemoveAt(@, i)]
        PROVE  MoveInv'
    <3>1. PICK f : Survives(f)
      BY <2>1, <2>3, TaskFields, SurvivesRemove
    <3> QED BY <2>1, <3>1, MoveFrame
  <2> QED BY <1>17, <2>2, <2>3 DEF Discard, CancelCall
<1>18. CASE TaskStarts
  <2>1. Advance(task.todo, processing)
        /\ UNCHANGED <<gen, busy, pc, lock, loaded, held>>
    BY <1>18 DEF TaskStarts, workerVars, residentVars
  <2>2. Moving
    BY <2>1 DEF Moving
  <2>3. CASE exec' = exec
    BY <2>1, <2>2, <2>3, MoveStays
  <2>4. CASE exec' # exec
    <3> DEFINE x == Live(ProcessorOf[Head(task.todo)])
               e == [kind |-> "swap", model |-> "whisper", req |-> req]
    <3>1. x \in Instances /\ e \in Job /\ exec' = [exec EXCEPT ![x] = Append(@, e)]
      BY <2>1, <2>4, TaskFields, SwapIsCalled
    <3>2. Starts(e, x)
      BY DEF Starts, IsMove
    <3> HIDE DEF x, e
    <3> QED BY <2>1, <2>2, <3>1, <3>2, MoveAfterAppend
  <2> QED BY <2>3, <2>4
<1>19. CASE SwapReturns
  BY <1>19, MoveStays DEF SwapReturns, Moving, procVars, residentVars, workerVars
<1>20. CASE CallModel
  <2> DEFINE e == [kind |-> "infer", model |-> ModelOf[Head(task.todo)], req |-> req]
  <2>1. Moving /\ UNCHANGED <<gen, busy>>
    BY <1>20 DEF CallModel, Moving, residentVars
  <2>2. CASE exec' = exec
    BY <2>1, <2>2, MoveStays
  <2>3. CASE exec' = [exec EXCEPT ![task.at] = Append(@, e)]
    <3>1. Head(task.todo) \in Stages
      BY <1>20, TaskFields, HeadTailProperties DEF CallModel, TaskInv, TaskShape, Operating
    <3>2. e \in Job
      BY <3>1, Names, JobType
    <3>3. Starts(e, task.at)
      BY DEF Starts, IsMove
    <3> HIDE DEF e
    <3> QED BY <2>1, <2>3, <3>2, <3>3, MoveAfterAppend, TaskFields
  <2> QED BY <1>20, <2>2, <2>3 DEF CallModel
<1>21. CASE ModelReturns
  BY <1>21, MoveStays DEF ModelReturns, Moving, procVars, residentVars, workerVars
<1>22. CASE StageEnds
  <2>1. Advance(Tail(task.todo), [processing EXCEPT ![task.at] = FALSE])
        /\ UNCHANGED <<gen, busy, pc, lock, loaded, held>>
    BY <1>22 DEF StageEnds, workerVars, residentVars
  <2>2. Moving
    BY <2>1 DEF Moving
  <2>3. CASE exec' = exec
    BY <2>1, <2>2, <2>3, MoveStays
  <2>4. CASE exec' # exec
    <3> DEFINE x == Live(ProcessorOf[Head(Tail(task.todo))])
               e == [kind |-> "swap", model |-> "whisper", req |-> req]
    <3>1. x \in Instances /\ e \in Job /\ exec' = [exec EXCEPT ![x] = Append(@, e)]
      <4>1. Tail(task.todo) \in Seq(Stages)
        BY <1>22, TaskFields, HeadTailProperties DEF StageEnds, TaskInv, TaskShape, Operating
      <4> QED BY <2>1, <2>4, <4>1, SwapIsCalled
    <3>2. Starts(e, x)
      BY DEF Starts, IsMove
    <3> HIDE DEF x, e
    <3> QED BY <2>1, <2>2, <3>1, <3>2, MoveAfterAppend
  <2> QED BY <2>3, <2>4
<1>23. CASE ClientGone
  BY <1>23, MoveStays DEF ClientGone, Moving, procVars, residentVars, workerVars
<1>24. ASSUME NEW x \in Instances, CallBegins(x) PROVE MoveInv'
  <2>1. exec[x] # <<>> /\ Moving /\ UNCHANGED gen
    BY <1>24 DEF CallBegins, Moving, residentVars, workerVars
  <2>2. CASE Pop(x)
    BY <2>1, <2>2, MoveAfterPop
  <2>3. CASE busy' = [busy EXCEPT ![x] = TRUE] /\ UNCHANGED <<exec, task>>
    <3>1. \A y \in Instances : busy[y] => busy'[y]
      BY <2>3 DEF TypeInv, TypeOK
    <3>2. PICK f : Survives(f)
      BY <2>3, <3>1, SurvivesFrame
    <3> QED BY <2>1, <3>2, MoveFrame
  <2> QED BY <1>24, <2>2, <2>3 DEF CallBegins
<1>25. ASSUME NEW x \in Instances, SwapEnds(x) PROVE MoveInv'
  <2>1. exec[x] # <<>> /\ Pop(x) /\ Moving /\ UNCHANGED gen
    BY <1>25 DEF SwapEnds, Running, QueueShape, Moving, residentVars, workerVars
  <2> QED BY <2>1, MoveAfterPop
<1>26. ASSUME NEW x \in Instances, LoadEnds(x) PROVE MoveInv'
  <2>1. exec[x] # <<>> /\ Pop(x) /\ IsMove(exec[x][1]) /\ UNCHANGED gen
    BY <1>26, HeadMoveOK DEF LoadEnds, IsMove
  <2> QED BY <2>1, MoveAfterPop
<1>27. ASSUME NEW x \in Instances, UnloadEnds(x) PROVE MoveInv'
  <2>1. exec[x] # <<>> /\ Pop(x) /\ IsMove(exec[x][1]) /\ UNCHANGED gen
    BY <1>27, HeadMoveOK DEF UnloadEnds, IsMove
  <2> QED BY <2>1, MoveAfterPop
<1>28. ASSUME NEW x \in Instances, InferenceEnds(x) PROVE MoveInv'
  <2>1. exec[x] # <<>> /\ Pop(x) /\ Moving /\ UNCHANGED gen
    BY <1>28 DEF InferenceEnds, Running, QueueShape, Moving, residentVars, workerVars
  <2> QED BY <2>1, MoveAfterPop
<1>29. CASE SwapRecovered
  BY <1>29, MoveStays DEF SwapRecovered, Moving, procVars, residentVars, workerVars, Release
<1>30. CASE Synchronized
  BY <1>30, MoveStays DEF Synchronized, Moving, procVars, residentVars, workerVars, Release
<1> QED
  BY <1>0, <1>1, <1>2, <1>3, <1>4, <1>5, <1>6, <1>7, <1>8, <1>9, <1>10, <1>11,
     <1>12, <1>13, <1>14, <1>15, <1>16, <1>17, <1>18, <1>19, <1>20, <1>21, <1>22, <1>23,
     <1>24, <1>25, <1>26, <1>27, <1>28, <1>29, <1>30
  DEF Next, WorkerStep, TaskStep, CallEnds
-----------------------------------------------------------------------------
(* What a step does to the task *)

\* A request is served in the order of its stages, and starts once.
Proceeds ==
    /\ Required' \subseteq Required
    /\ task'.pc = "start" => task.pc = "start"

\* The task comes to whisper only with its first stage.
Departs == OnWhisper' => OnWhisper

LEMMA Idles == ASSUME UNCHANGED <<gen, task>> PROVE Proceeds /\ Departs
BY DEF Proceeds, Departs, Required, OnWhisper, Operating, Live

LEMMA SameStages == ASSUME task'.todo = task.todo PROVE Required' = Required
BY DEF Required

LEMMA Continues ==
  ASSUME task'.todo = task.todo, task'.at = task.at, task'.pc # "start", UNCHANGED gen,
         task'.pc \in {"swap", "begun", "run", "tail"} => Operating
  PROVE  Proceeds /\ Departs
BY SameStages DEF Proceeds, Departs, OnWhisper, Operating, Live

LEMMA RequiredShrinks ==
  ASSUME NEW S, task.todo \in Seq(S), task.todo # <<>>, task'.todo = Tail(task.todo)
  PROVE  Required' \subseteq Required
<1>1. \A i \in DOMAIN Tail(task.todo) :
         i + 1 \in DOMAIN task.todo /\ Tail(task.todo)[i] = task.todo[i + 1]
  BY TailIs
<1> QED BY <1>1 DEF Required, Range

LEMMA AdvanceTask ==
  ASSUME TypeInv, NEW todo \in Seq(Stages), NEW ended, Advance(todo, ended)
  PROVE  \/ task'.pc = "done" /\ task'.todo = task.todo /\ task'.at = task.at
            /\ task'.outcome \in {"ok", "failed"} /\ exec' = exec
         \/ /\ task'.pc \in {"begun", "swap"} /\ task'.todo = todo /\ todo # <<>>
            /\ task'.at = Live(ProcessorOf[Head(todo)])
            /\ task'.pc = "begun" => task'.outcome = task.outcome /\ exec' = exec
            /\ task'.pc = "swap" => task'.outcome = "none" /\ Head(todo) = "transcribe"
            /\ down[task'.at] = "up" /\ ModelOf[Head(todo)] \in weights[task'.at]
<1>1. ASSUME NEW outcome \in {"ok", "failed"}, Finish(outcome)
      PROVE  task'.pc = "done" /\ task'.todo = task.todo /\ task'.at = task.at
             /\ task'.outcome \in {"ok", "failed"}
  BY <1>1 DEF Finish, TypeInv, TaskType
<1>2. ASSUME NEW x, task' = [task EXCEPT !.pc = "begun", !.todo = todo, !.at = x]
      PROVE  /\ task'.pc = "begun" /\ task'.todo = todo /\ task'.at = x
             /\ task'.outcome = task.outcome
  BY <1>2 DEF TypeInv, TaskType
<1>3. ASSUME NEW x,
             task' = [task EXCEPT !.pc = "swap", !.todo = todo, !.at = x, !.outcome = "none"]
      PROVE  task'.pc = "swap" /\ task'.todo = todo /\ task'.at = x /\ task'.outcome = "none"
  BY <1>3 DEF TypeInv, TaskType
<1> QED BY <1>1, <1>2, <1>3 DEF Advance, StageFails

\* The stages after the first do not transcribe.
LEMMA TailOffWhisper ==
  ASSUME TypeInv, TaskShape, task.todo # <<>>, Tail(task.todo) # <<>>
  PROVE  /\ ProcessorOf[Head(Tail(task.todo))] # "whisper"
         /\ Head(Tail(task.todo)) # "transcribe"
<1> DEFINE t == Tail(task.todo)
<1>1. t \in Seq(Stages) /\ t[1] = task.todo[2] /\ 2 \in DOMAIN task.todo /\ Head(t) = t[1]
      /\ Head(t) \in Stages
  BY TaskFields, TailIs
<1>2. Head(t) # "transcribe"
  BY <1>1 DEF TaskShape
<1> QED BY <1>1, <1>2, Names

LEMMA TaskProceeds ==
  ASSUME TypeInv, QueueShape, TaskInv, MoveInv, [Next]_vars
  PROVE  /\ Proceeds \/ TakeRequest \/ GrantLease
         /\ Departs \/ (TaskStarts /\ ~RecoveryRuns)
<1>0. CASE UNCHANGED vars
  BY <1>0, Idles DEF vars, procVars
<1>1. CASE TakeRequest
  <2>1. task'.pc = "none"
    BY <1>1 DEF TakeRequest, NoTask
  <2> QED BY <1>1, <2>1 DEF Proceeds, Departs, OnWhisper, Operating, Required, Range
<1>2. CASE OtherEvicts
  BY <1>2, Idles DEF OtherEvicts, procVars, workerVars
<1>3. CASE EnterAdmission
  BY <1>3, Idles DEF EnterAdmission, procVars, workerVars
<1>4. CASE LoadRequired
  <2>1. /\ task'.pc = task.pc /\ task'.todo = task.todo /\ task'.at = task.at /\ gen' = gen
    BY <1>4 DEF LoadRequired, TypeInv, TaskType
  <2> QED BY <1>4, <2>1, SameStages DEF LoadRequired, Proceeds, Departs, OnWhisper, Operating, Live
<1>5. CASE GrantLease
  <2>1. /\ task'.pc = "start" /\ task'.todo = task.todo /\ task'.at = task.at /\ gen' = gen
    BY <1>5 DEF GrantLease, TypeInv, TaskType, procVars
  <2> QED BY <1>5, <2>1, SameStages DEF GrantLease, Proceeds, Departs, OnWhisper, Operating, Live
<1>6. CASE TaskReturns
  <2>1. task'.pc = "none" /\ task'.todo = <<>>
    BY <1>6 DEF TaskReturns, NoTask, Release
  <2> QED BY <1>6, <2>1 DEF Proceeds, Departs, OnWhisper, Operating, Required, Range
<1>7. CASE SwapErrorRaised
  <2>1. /\ gen' = gen /\ task'.pc = "done" /\ task'.todo = task.todo /\ task'.at = task.at
    BY <1>7 DEF SwapErrorRaised, procVars, TypeInv, TaskType
  <2> QED BY <2>1, Continues
<1>8. CASE TimesOut
  BY <1>8, Idles DEF TimesOut, procVars, workerVars
<1>9. CASE CheckIdle
  BY <1>9, Idles DEF CheckIdle, procVars, workerVars
<1>10. CASE IdleWaitEnds
  BY <1>10, Idles DEF IdleWaitEnds, procVars, workerVars
<1>11. CASE EnterBarrier
  BY <1>11, Idles DEF EnterBarrier, procVars, workerVars
<1>12. CASE ShutdownSignals
  BY <1>12, Idles DEF ShutdownSignals, procVars, workerVars
<1>13. CASE ShutdownCloses
  BY <1>13, Idles DEF ShutdownCloses, procVars, workerVars
<1>14. CASE Drained
  BY <1>14, Idles DEF Drained, procVars, workerVars
<1>15. CASE DrainTimesOut
  <2>1. gen' = gen /\ (task' = task \/ \E o : task' = [task EXCEPT !.outcome = o])
    BY <1>15 DEF DrainTimesOut, Deliver
  <2>2. task'.pc = task.pc /\ task'.todo = task.todo /\ task'.at = task.at
    BY <2>1 DEF TypeInv, TaskType
  <2> QED BY <2>1, <2>2, SameStages DEF Proceeds, Departs, OnWhisper, Operating, Live
<1>16. CASE Rebind
  <2>1. /\ watch \in Processors /\ gen' = [gen EXCEPT ![watch] = @ + 1] /\ task' = task
    BY <1>16 DEF Rebind, TypeInv, TypeOK
  <2>2. Proceeds
    BY <2>1 DEF Proceeds, Required
  <2>3. Departs
    <3>1. \A p \in Processors : gen[p] \in Int /\ (gen'[p] = gen[p] \/ gen'[p] > gen[p])
      BY <2>1 DEF TypeInv, TypeOK
    <3>2. task.at[2] <= gen[task.at[1]] /\ task.at[2] \in Int
      BY TaskFields DEF TaskInv, TaskShape, Instances
    <3> QED BY <2>1, <3>1, <3>2, FirstInstance DEF Departs, OnWhisper, Operating, Live
  <2> QED BY <2>2, <2>3
<1>17. CASE Discard
  <2>1. task'.pc = "none" /\ task'.todo = <<>>
    BY <1>17 DEF Discard, NoTask, Release
  <2> QED BY <1>17, <2>1 DEF Proceeds, Departs, OnWhisper, Operating, Required, Range
<1>18. CASE TaskStarts /\ ~RecoveryRuns
  <2>1. task'.pc # "start" /\ task'.todo = task.todo
    BY <1>18, AdvanceTask, TaskFields DEF TaskStarts
  <2> QED BY <1>18, <2>1, SameStages DEF Proceeds
<1>19. CASE SwapReturns
  <2>1. /\ task'.pc \in {"done", "begun", "run", "tail"} /\ task'.todo = task.todo
        /\ task'.at = task.at /\ gen' = gen
    BY <1>19 DEF SwapReturns, StageFails, Finish, TypeInv, TaskType
  <2>2. Operating
    BY <1>19 DEF SwapReturns, Operating
  <2> QED BY <2>1, <2>2, Continues
<1>20. CASE CallModel
  <2>1. /\ task'.pc \in {"done", "begun", "run", "tail"} /\ task'.todo = task.todo
        /\ task'.at = task.at /\ gen' = gen
    BY <1>20 DEF CallModel, StageFails, Finish, TypeInv, TaskType
  <2>2. Operating
    BY <1>20 DEF CallModel, Operating
  <2> QED BY <2>1, <2>2, Continues
<1>21. CASE ModelReturns
  <2>1. /\ task'.pc \in {"done", "begun", "run", "tail"} /\ task'.todo = task.todo
        /\ task'.at = task.at /\ gen' = gen
    BY <1>21 DEF ModelReturns, StageFails, Finish, TypeInv, TaskType
  <2>2. Operating
    BY <1>21 DEF ModelReturns, Operating
  <2> QED BY <2>1, <2>2, Continues
<1>22. CASE StageEnds
  <2>1. task.todo # <<>> /\ Tail(task.todo) \in Seq(Stages)
    BY <1>22, TaskFields, HeadTailProperties DEF StageEnds, TaskInv, TaskShape, Operating
  <2>2. Advance(Tail(task.todo), [processing EXCEPT ![task.at] = FALSE]) /\ gen' = gen
    BY <1>22 DEF StageEnds
  <2>3. \/ task'.pc = "done" /\ task'.todo = task.todo
        \/ /\ task'.pc \in {"begun", "swap"} /\ task'.todo = Tail(task.todo)
           /\ Tail(task.todo) # <<>>
           /\ task'.at = Live(ProcessorOf[Head(Tail(task.todo))])
    BY <2>1, <2>2, AdvanceTask
  <2>4. Proceeds
    BY <2>1, <2>3, TaskFields, SameStages, RequiredShrinks DEF Proceeds
  <2>5. Departs
    BY <2>1, <2>2, <2>3, TailOffWhisper DEF Departs, OnWhisper, Operating, Live, TaskInv
  <2> QED BY <2>4, <2>5
<1>23. CASE ClientGone
  BY <1>23, Idles DEF ClientGone, procVars, workerVars
<1>24. ASSUME NEW x \in Instances, CallBegins(x) PROVE Proceeds /\ Departs
  <2>1. gen' = gen /\ (task' = task \/ \E o : task' = [task EXCEPT !.outcome = o])
    BY <1>24 DEF CallBegins, Deliver
  <2>2. task'.pc = task.pc /\ task'.todo = task.todo /\ task'.at = task.at
    BY <2>1 DEF TypeInv, TaskType
  <2> QED BY <2>1, <2>2, SameStages DEF Proceeds, Departs, OnWhisper, Operating, Live
<1>25. ASSUME NEW x \in Instances, SwapEnds(x) PROVE Proceeds /\ Departs
  <2>1. gen' = gen /\ (task' = task \/ \E o : task' = [task EXCEPT !.outcome = o])
    BY <1>25 DEF SwapEnds, Deliver
  <2>2. task'.pc = task.pc /\ task'.todo = task.todo /\ task'.at = task.at
    BY <2>1 DEF TypeInv, TaskType
  <2> QED BY <2>1, <2>2, SameStages DEF Proceeds, Departs, OnWhisper, Operating, Live
<1>26. ASSUME NEW x \in Instances, LoadEnds(x) PROVE Proceeds /\ Departs
  BY <1>26, Idles DEF LoadEnds, procVars, workerVars
<1>27. ASSUME NEW x \in Instances, UnloadEnds(x) PROVE Proceeds /\ Departs
  BY <1>27, Idles DEF UnloadEnds, procVars, workerVars
<1>28. ASSUME NEW x \in Instances, InferenceEnds(x) PROVE Proceeds /\ Departs
  <2>1. gen' = gen /\ (task' = task \/ \E o : task' = [task EXCEPT !.outcome = o])
    BY <1>28 DEF InferenceEnds, Deliver
  <2>2. task'.pc = task.pc /\ task'.todo = task.todo /\ task'.at = task.at
    BY <2>1 DEF TypeInv, TaskType
  <2> QED BY <2>1, <2>2, SameStages DEF Proceeds, Departs, OnWhisper, Operating, Live
<1>29. CASE SwapRecovered
  <2>1. task'.pc = "none" /\ task'.todo = <<>>
    BY <1>29 DEF SwapRecovered, NoTask, Release
  <2> QED BY <1>29, <2>1 DEF Proceeds, Departs, OnWhisper, Operating, Required, Range
<1>30. CASE Synchronized
  <2>1. task'.pc = "none" /\ task'.todo = <<>>
    BY <1>30 DEF Synchronized, NoTask, Release
  <2> QED BY <1>30, <2>1 DEF Proceeds, Departs, OnWhisper, Operating, Required, Range
<1> QED
  BY <1>0, <1>1, <1>2, <1>3, <1>4, <1>5, <1>6, <1>7, <1>8, <1>9, <1>10, <1>11,
     <1>12, <1>13, <1>14, <1>15, <1>16, <1>17, <1>18, <1>19, <1>20, <1>21, <1>22, <1>23,
     <1>24, <1>25, <1>26, <1>27, <1>28, <1>29, <1>30
  DEF Next, WorkerStep, TaskStep, CallEnds
-----------------------------------------------------------------------------
(* The lease *)

LEMMA LeaseFrame ==
  ASSUME LeaseInv, Proceeds, pc' \in Serving => pc \in Serving, loaded' \subseteq loaded,
         held \cap loaded' \subseteq held',
         task.pc = "start" => held \cap loaded \subseteq held' \cap loaded'
  PROVE  LeaseInv'
BY DEF LeaseInv, Proceeds

LEMMA LeaseKept ==
  ASSUME TypeInv, QueueShape, TaskInv, TaskInv', MoveInv, RecoveryInv, LeaseInv, Proceeds,
     [Next]_vars
  PROVE  LeaseInv'
<1>0. CASE UNCHANGED vars
  BY <1>0, LeaseFrame DEF vars, residentVars, workerVars
<1>1. CASE TakeRequest
  <2>1. pc' \notin Serving
    BY <1>1 DEF TakeRequest, Release, Serving
  <2> QED BY <2>1 DEF LeaseInv, TaskInv
<1>2. CASE OtherEvicts
  BY <1>2, LeaseFrame DEF OtherEvicts, Serving, residentVars, workerVars
<1>3. CASE EnterAdmission
  BY <1>3, LeaseFrame DEF EnterAdmission, Serving, residentVars, workerVars
<1>4. CASE LoadRequired
  <2>1. pc' \notin Serving
    BY <1>4 DEF LoadRequired, Release, Serving
  <2> QED BY <2>1 DEF LeaseInv, TaskInv
<1>5. CASE GrantLease
  <2>1. Required' = Required
    <3>1. task'.todo = task.todo
      BY <1>5 DEF GrantLease, TypeInv, TaskType
    <3> QED BY <3>1, SameStages
  <2> QED BY <1>5, <2>1 DEF GrantLease, LeaseInv
<1>6. CASE TaskReturns
  <2>1. pc' \notin Serving
    BY <1>6 DEF TaskReturns, Release, Serving
  <2> QED BY <2>1 DEF LeaseInv, TaskInv
<1>7. CASE SwapErrorRaised
  BY <1>7, LeaseFrame DEF SwapErrorRaised, Serving, residentVars, workerVars
<1>8. CASE TimesOut
  BY <1>8, LeaseFrame DEF TimesOut, Serving, residentVars, workerVars
<1>9. CASE CheckIdle
  BY <1>9, LeaseFrame DEF CheckIdle, Serving, residentVars
<1>10. CASE IdleWaitEnds
  BY <1>10, LeaseFrame DEF IdleWaitEnds, WaitReturns, Serving, residentVars
<1>11. CASE EnterBarrier
  BY <1>11, LeaseFrame DEF EnterBarrier, Serving, residentVars, workerVars
<1>12. CASE ShutdownSignals
  BY <1>12, LeaseFrame DEF ShutdownSignals, Serving, residentVars, workerVars
<1>13. CASE ShutdownCloses
  BY <1>13, LeaseFrame DEF ShutdownCloses, Serving, residentVars, workerVars
<1>14. CASE Drained
  BY <1>14, LeaseFrame DEF Drained, Serving, residentVars, workerVars
<1>15. CASE DrainTimesOut
  BY <1>15, LeaseFrame DEF DrainTimesOut, Serving, residentVars, workerVars
<1>16. CASE Rebind
  <2>1. task.pc # "start"
    BY <1>16 DEF Rebind, RecoveryInv
  <2> QED BY <1>16, <2>1, LeaseFrame DEF Rebind, ResetResidents, Serving
<1>17. CASE Discard
  <2>1. pc' \notin Serving
    BY <1>17 DEF Discard, Release, Serving
  <2> QED BY <2>1 DEF LeaseInv, TaskInv
<1>18. CASE TaskStarts
  BY <1>18, LeaseFrame DEF TaskStarts, Serving, residentVars, workerVars
<1>19. CASE SwapReturns
  BY <1>19, LeaseFrame DEF SwapReturns, Serving, residentVars, workerVars
<1>20. CASE CallModel
  BY <1>20, LeaseFrame DEF CallModel, Serving, residentVars, workerVars
<1>21. CASE ModelReturns
  BY <1>21, LeaseFrame DEF ModelReturns, Serving, residentVars, workerVars
<1>22. CASE StageEnds
  BY <1>22, LeaseFrame DEF StageEnds, Serving, residentVars, workerVars
<1>23. CASE ClientGone
  BY <1>23, LeaseFrame DEF ClientGone, Serving, residentVars, workerVars
<1>24. ASSUME NEW x \in Instances, CallBegins(x) PROVE LeaseInv'
  BY <1>24, LeaseFrame DEF CallBegins, Serving, residentVars, workerVars
<1>25. ASSUME NEW x \in Instances, SwapEnds(x) PROVE LeaseInv'
  BY <1>25, LeaseFrame DEF SwapEnds, Serving, residentVars, workerVars
<1>26. ASSUME NEW x \in Instances, LoadEnds(x) PROVE LeaseInv'
  <2>1. MoveOK(x, exec[x][1]) /\ exec[x][1].kind = "load"
    BY <1>26, HeadMoveOK DEF LoadEnds
  <2>2. pc' \notin Serving
    BY <1>26 DEF LoadEnds, Serving
  <2> QED BY <2>2 DEF LeaseInv, TaskInv
<1>27. ASSUME NEW x \in Instances, UnloadEnds(x) PROVE LeaseInv'
  <2>1. /\ MoveOK(x, exec[x][1]) /\ exec[x][1].kind = "unload"
        /\ Head(exec[x]) = exec[x][1]
    BY <1>27, HeadMoveOK DEF UnloadEnds
  <2>2. exec[x][1].model \notin held
    BY <2>1 DEF MoveOK, IsMove
  <2> QED BY <1>27, <2>1, <2>2, LeaseFrame DEF UnloadEnds, workerVars
<1>28. ASSUME NEW x \in Instances, InferenceEnds(x) PROVE LeaseInv'
  BY <1>28, LeaseFrame DEF InferenceEnds, Serving, residentVars, workerVars
<1>29. CASE SwapRecovered
  <2>1. pc' \notin Serving
    BY <1>29 DEF SwapRecovered, Release, Serving
  <2> QED BY <2>1 DEF LeaseInv, TaskInv
<1>30. CASE Synchronized
  <2>1. pc' \notin Serving
    BY <1>30 DEF Synchronized, Release, Serving
  <2> QED BY <2>1 DEF LeaseInv, TaskInv
<1> QED
  BY <1>0, <1>1, <1>2, <1>3, <1>4, <1>5, <1>6, <1>7, <1>8, <1>9, <1>10, <1>11,
     <1>12, <1>13, <1>14, <1>15, <1>16, <1>17, <1>18, <1>19, <1>20, <1>21, <1>22, <1>23,
     <1>24, <1>25, <1>26, <1>27, <1>28, <1>29, <1>30
  DEF Next, WorkerStep, TaskStep, CallEnds

LEMMA LeaseStep ==
  ASSUME TypeInv, QueueShape, TaskInv, TaskInv', MoveInv, RecoveryInv, LeaseInv, [Next]_vars
  PROVE  LeaseInv'
<1>1. CASE TakeRequest
  <2>1. pc' \notin Serving
    BY <1>1 DEF TakeRequest, Serving
  <2> QED BY <2>1 DEF LeaseInv, TaskInv
<1>2. CASE GrantLease
  <2>1. Required' = Required
    <3>1. task'.todo = task.todo
      BY <1>2 DEF GrantLease, TypeInv, TaskType
    <3> QED BY <3>1, SameStages
  <2> QED BY <1>2, <2>1 DEF GrantLease, LeaseInv
<1> QED BY <1>1, <1>2, TaskProceeds, LeaseKept
-----------------------------------------------------------------------------
(* What the recovery knows *)

LEMMA EndedOffWhisper == ASSUME TypeInv, NEW outcome, Finish(outcome) PROVE ~OnWhisper'
<1>1. task'.pc = "done"
  BY DEF Finish, TypeInv, TaskType
<1> QED BY <1>1 DEF OnWhisper, Operating

LEMMA IdleOffWhisper ==
  ASSUME TypeInv, TaskInv, ~processing[Live("whisper")] PROVE ~OnWhisper
<1>1. Live("whisper") \in Instances
  BY FirstInstance, LiveIsInstance
<1> QED BY <1>1 DEF TaskInv, TaskShape, OnWhisper

LEMMA RecoveryFrame ==
  ASSUME RecoveryInv, Proceeds, Departs, UNCHANGED <<pc, idle, watch>>,
         woken' # woken => ~OnWhisper'
  PROVE  RecoveryInv'
BY DEF RecoveryInv, WhisperKnown, Replacing, Proceeds, Departs

\* The recovery learns about pyannote, having learnt about whisper.
LEMMA LearnsPyannote ==
  ASSUME TypeInv, RecoveryInv, Departs, pc \in {"check", "waitIdle"}, watch = "pyannote",
         NEW answer \in BOOLEAN, Learn(answer),
         task.pc = "start" => answer /\ pc = "check", task'.pc = task.pc
  PROVE  RecoveryInv'
<1>1. /\ idle' \in [Processors -> BOOLEAN] /\ idle'["whisper"] = idle["whisper"]
      /\ idle'["pyannote"] = answer /\ Onward(idle')
  BY FirstInstance DEF Learn, TypeInv, TypeOK
<1>2. /\ watch' \in Processors
      /\ \/ pc' = "barrier" /\ ~idle'[watch']
         \/ pc' = "discard" /\ idle'["whisper"] /\ idle'["pyannote"]
  BY <1>1, OnwardGoes DEF TypeInv, TypeOK
<1>3. WhisperKnown
  BY DEF WhisperKnown
<1>4. task.pc = "start" => pc' = "discard"
  BY <1>1, <1>2 DEF RecoveryInv, Processors
<1> QED BY <1>1, <1>2, <1>3, <1>4 DEF RecoveryInv, WhisperKnown, Departs

LEMMA LearnsWhisper ==
  ASSUME TypeInv, RecoveryInv, Departs, watch = "whisper", NEW answer \in BOOLEAN, Learn(answer),
         answer => ~OnWhisper, task.pc = "start" => answer, task'.pc = task.pc
  PROVE  RecoveryInv'
<1>1. pc' = "check" /\ watch' = "pyannote" /\ idle'["whisper"] = answer
  BY FirstInstance DEF Learn, TypeInv, TypeOK
<1> QED BY <1>1 DEF RecoveryInv, WhisperKnown, Departs, Replacing

LEMMA RecoveryKept ==
  ASSUME TypeInv, QueueShape, TaskInv, TaskInv', MoveInv, RecoveryInv, Proceeds, Departs,
     [Next]_vars
  PROVE  RecoveryInv'
<1>0. CASE UNCHANGED vars
  BY <1>0, RecoveryFrame DEF vars, workerVars
<1>1. CASE TakeRequest
  <2>1. pc' \notin Serving
    BY <1>1 DEF TakeRequest, Serving
  <2> QED BY <2>1 DEF RecoveryInv, WhisperKnown, Replacing, Serving, TaskInv
<1>2. CASE OtherEvicts
  BY <1>2, RecoveryFrame DEF OtherEvicts, workerVars
<1>3. CASE EnterAdmission
  <2>1. pc' \notin Serving
    BY <1>3 DEF EnterAdmission, Serving
  <2> QED BY <2>1 DEF RecoveryInv, WhisperKnown, Replacing, Serving, TaskInv
<1>4. CASE LoadRequired
  <2>1. pc' \notin Serving
    BY <1>4 DEF LoadRequired, Serving
  <2> QED BY <2>1 DEF RecoveryInv, WhisperKnown, Replacing, Serving, TaskInv
<1>5. CASE GrantLease
  BY <1>5 DEF RecoveryInv, WhisperKnown, Replacing, GrantLease
<1>6. CASE TaskReturns
  <2>1. pc' \notin Serving
    BY <1>6 DEF TaskReturns, Serving, Release
  <2> QED BY <2>1 DEF RecoveryInv, WhisperKnown, Replacing, Serving, TaskInv
<1>7. CASE SwapErrorRaised
  <2>1. ~idle'["whisper"] /\ pc' = "barrier" /\ task'.pc = "done"
    BY <1>7, FirstInstance DEF SwapErrorRaised, TypeInv, TaskType
  <2> QED BY <2>1 DEF RecoveryInv
<1>8. CASE TimesOut
  BY <1>8 DEF RecoveryInv, WhisperKnown, Replacing, Departs, TimesOut
<1>9. CASE CheckIdle
  <2>1. task' = task
    BY <1>9 DEF CheckIdle
  <2>2. CASE processing[Live(watch)]
    <3>1. task.pc # "start"
      BY <1>9, <2>2, LiveIsInstance DEF CheckIdle, TaskInv, TaskShape, Operating, TypeInv, TypeOK
    <3> QED BY <1>9, <2>1, <2>2, <3>1 DEF CheckIdle, RecoveryInv, WhisperKnown, Departs, Replacing
  <2>3. CASE ~processing[Live(watch)] /\ watch = "whisper"
    BY <1>9, <2>1, <2>3, IdleOffWhisper, LearnsWhisper DEF CheckIdle
  <2>4. CASE ~processing[Live(watch)] /\ watch = "pyannote"
    BY <1>9, <2>1, <2>4, LearnsPyannote DEF CheckIdle
  <2> QED BY <2>2, <2>3, <2>4 DEF TypeInv, TypeOK, Processors
<1>10. CASE IdleWaitEnds
  <2>1. task' = task /\ pc = "waitIdle" /\ Learn(woken) /\ woken \in BOOLEAN /\ task.pc # "start"
    BY <1>10 DEF IdleWaitEnds, WaitReturns, WentIdle, RecoveryInv, TypeInv, TypeOK
  <2>2. CASE watch = "whisper"
    <3>1. woken => ~OnWhisper
      BY <2>1, <2>2 DEF RecoveryInv
    <3> QED BY <2>1, <2>2, <3>1, LearnsWhisper
  <2>3. CASE watch = "pyannote"
    BY <2>1, <2>3, LearnsPyannote
  <2> QED BY <2>2, <2>3 DEF TypeInv, TypeOK, Processors
<1>11. CASE EnterBarrier
  BY <1>11 DEF RecoveryInv, WhisperKnown, Replacing, Proceeds, Departs, EnterBarrier
<1>12. CASE ShutdownSignals
  BY <1>12 DEF RecoveryInv, WhisperKnown, Replacing, Proceeds, Departs, ShutdownSignals
<1>13. CASE ShutdownCloses
  BY <1>13 DEF RecoveryInv, WhisperKnown, Replacing, Proceeds, Departs, ShutdownCloses
<1>14. CASE Drained
  BY <1>14 DEF RecoveryInv, WhisperKnown, Replacing, Proceeds, Departs, Drained
<1>15. CASE DrainTimesOut
  BY <1>15 DEF RecoveryInv, WhisperKnown, Replacing, Proceeds, Departs, DrainTimesOut
<1>16. CASE Rebind
  <2>1. /\ watch \in Processors /\ gen' = [gen EXCEPT ![watch] = @ + 1] /\ task' = task
        /\ idle' = [idle EXCEPT ![watch] = TRUE] /\ idle' \in [Processors -> BOOLEAN]
        /\ pc = "rebind" /\ Onward(idle')
    BY <1>16 DEF Rebind, TypeInv, TypeOK
  <2>2. \/ pc' = "barrier"
        \/ pc' = "discard" /\ idle'["whisper"]
    BY <2>1, OnwardGoes
  <2>3. task'.pc # "start"
    BY <2>1 DEF RecoveryInv
  <2>4. CASE watch = "whisper"
    <3>1. gen[watch] \in Int /\ gen'[watch] = gen[watch] + 1
      BY <2>1 DEF TypeInv, TypeOK
    <3>2. task.at[2] <= gen[task.at[1]] /\ task.at[2] \in Int
      BY TaskFields DEF TaskInv, TaskShape, Instances
    <3>3. ~OnWhisper'
      BY <2>1, <2>4, <3>1, <3>2 DEF OnWhisper, Live
    <3> QED BY <2>2, <2>3, <3>3 DEF RecoveryInv, WhisperKnown
  <2>5. CASE watch # "whisper"
    <3>1. idle'["whisper"] = idle["whisper"]
      BY <2>1, <2>5, FirstInstance DEF TypeInv, TypeOK
    <3>2. WhisperKnown
      BY <2>1 DEF WhisperKnown, Replacing
    <3> QED BY <2>2, <2>3, <3>1, <3>2 DEF RecoveryInv, WhisperKnown, Departs
  <2> QED BY <2>4, <2>5
<1>17. CASE Discard
  <2>1. pc' \notin Serving
    BY <1>17 DEF Discard, Serving, Release
  <2> QED BY <2>1 DEF RecoveryInv, WhisperKnown, Replacing, Serving, TaskInv
<1>18. CASE TaskStarts
  BY <1>18, RecoveryFrame DEF TaskStarts, workerVars
<1>19. CASE SwapReturns
  <2>1. woken' # woken => ~OnWhisper'
    BY <1>19, EndedOffWhisper DEF SwapReturns, StageFails
  <2> QED BY <1>19, <2>1, RecoveryFrame DEF SwapReturns
<1>20. CASE CallModel
  <2>1. woken' # woken => ~OnWhisper'
    BY <1>20, EndedOffWhisper DEF CallModel, StageFails
  <2> QED BY <1>20, <2>1, RecoveryFrame DEF CallModel
<1>21. CASE ModelReturns
  <2>1. woken' # woken => ~OnWhisper'
    BY <1>21, EndedOffWhisper DEF ModelReturns, StageFails
  <2> QED BY <1>21, <2>1, RecoveryFrame DEF ModelReturns
<1>22. CASE StageEnds
  <2>1. task.todo # <<>> /\ Tail(task.todo) \in Seq(Stages)
    BY <1>22, TaskFields, HeadTailProperties DEF StageEnds, TaskInv, TaskShape, Operating
  <2>2. /\ Advance(Tail(task.todo), [processing EXCEPT ![task.at] = FALSE]) /\ gen' = gen
        /\ UNCHANGED <<pc, idle, watch>>
    BY <1>22 DEF StageEnds
  <2>3. \/ task'.pc = "done"
        \/ /\ Tail(task.todo) # <<>>
           /\ task'.at = Live(ProcessorOf[Head(Tail(task.todo))])
    BY <2>1, <2>2, AdvanceTask
  <2>4. ~OnWhisper'
    BY <2>1, <2>2, <2>3, TailOffWhisper DEF OnWhisper, Operating, Live, TaskInv
  <2> QED BY <2>2, <2>4, RecoveryFrame
<1>23. CASE ClientGone
  BY <1>23, RecoveryFrame DEF ClientGone, workerVars
<1>24. ASSUME NEW x \in Instances, CallBegins(x) PROVE RecoveryInv'
  BY <1>24, RecoveryFrame DEF CallBegins, workerVars
<1>25. ASSUME NEW x \in Instances, SwapEnds(x) PROVE RecoveryInv'
  BY <1>25, RecoveryFrame DEF SwapEnds, workerVars
<1>26. ASSUME NEW x \in Instances, LoadEnds(x) PROVE RecoveryInv'
  <2>1. pc' \notin Serving
    BY <1>26 DEF LoadEnds, Serving
  <2> QED BY <2>1 DEF RecoveryInv, WhisperKnown, Replacing, Serving, TaskInv
<1>27. ASSUME NEW x \in Instances, UnloadEnds(x) PROVE RecoveryInv'
  BY <1>27, RecoveryFrame DEF UnloadEnds, workerVars
<1>28. ASSUME NEW x \in Instances, InferenceEnds(x) PROVE RecoveryInv'
  BY <1>28, RecoveryFrame DEF InferenceEnds, workerVars
<1>29. CASE SwapRecovered
  <2>1. pc' \notin Serving
    BY <1>29 DEF SwapRecovered, Serving, Release
  <2> QED BY <2>1 DEF RecoveryInv, WhisperKnown, Replacing, Serving, TaskInv
<1>30. CASE Synchronized
  <2>1. pc' \notin Serving
    BY <1>30 DEF Synchronized, Serving, Release
  <2> QED BY <2>1 DEF RecoveryInv, WhisperKnown, Replacing, Serving, TaskInv
<1> QED
  BY <1>0, <1>1, <1>2, <1>3, <1>4, <1>5, <1>6, <1>7, <1>8, <1>9, <1>10, <1>11,
     <1>12, <1>13, <1>14, <1>15, <1>16, <1>17, <1>18, <1>19, <1>20, <1>21, <1>22, <1>23,
     <1>24, <1>25, <1>26, <1>27, <1>28, <1>29, <1>30
  DEF Next, WorkerStep, TaskStep, CallEnds

LEMMA RecoveryStep ==
  ASSUME TypeInv, QueueShape, TaskInv, TaskInv', MoveInv, RecoveryInv, [Next]_vars
  PROVE  RecoveryInv'
<1>1. CASE TakeRequest
  <2>1. pc' \notin Serving
    BY <1>1 DEF TakeRequest, Serving
  <2> QED BY <2>1 DEF RecoveryInv, WhisperKnown, Replacing, Serving, TaskInv
<1>2. CASE GrantLease
  BY <1>2 DEF RecoveryInv, WhisperKnown, Replacing, GrantLease
<1>3. CASE TaskStarts /\ ~RecoveryRuns
  <2>1. task.pc = "start" /\ UNCHANGED <<pc, idle, watch, woken>> /\ ~RecoveryRuns
    BY <1>3 DEF TaskStarts, workerVars
  <2>2. pc = "serve"
    BY <2>1 DEF RecoveryInv, RecoveryRuns
  <2> QED BY <2>1, <2>2 DEF RecoveryInv, WhisperKnown, Replacing
<1> QED BY <1>1, <1>2, <1>3, TaskProceeds, RecoveryKept
-----------------------------------------------------------------------------
(* The weights of the calls *)

\* The step frees no weights that a call left in a queue needs.
Keeps ==
    \A x \in Instances : \A i \in DOMAIN exec'[x] :
        exec'[x][i].kind = "infer" /\ exec'[x][i].model \in weights[x] =>
            exec'[x][i].model \in weights'[x]

LEMMA WeightsSurvive ==
  ASSUME TypeInv, TypeInv', CallsHaveWeights, NEW f, Survives(f), Keeps
  PROVE  CallsHaveWeights'
<1> SUFFICES ASSUME NEW x \in Instances, NEW i \in DOMAIN exec'[x], exec'[x][i].kind = "infer"
             PROVE  /\ exec'[x][i].model \in weights'[x]
                    /\ \A k \in 1..(i - 1) :
                          exec'[x][k].kind = "unload" => exec'[x][k].model # exec'[x][i].model
  BY DEF CallsHaveWeights, HasWeights
<1>1. /\ f[x][i] \in DOMAIN exec[x] /\ exec'[x][i] = exec[x][f[x][i]]
      /\ exec'[x][i].model \in weights'[x]
  BY DEF Survives, CallsHaveWeights, HasWeights, Keeps
<1>2. HasWeights(x, f[x][i])
  BY <1>1 DEF CallsHaveWeights
<1>3. ASSUME NEW k \in 1..(i - 1)
      PROVE  exec'[x][k] = exec[x][f[x][k]] /\ f[x][k] \in 1..(f[x][i] - 1)
  <2>1. exec'[x] \in Seq(Job)
    BY DEF TypeInv, TypeOK
  <2>2. k \in DOMAIN exec'[x] /\ k < i
    BY <2>1
  <2>3. f[x][k] \in DOMAIN exec[x] /\ exec'[x][k] = exec[x][f[x][k]] /\ f[x][k] < f[x][i]
    BY <2>2 DEF Survives
  <2> QED BY <1>1, <2>3, Places
<1> QED BY <1>1, <1>2, <1>3 DEF HasWeights

LEMMA WeightsAfterAppend ==
  ASSUME TypeInv, CallsHaveWeights, UNCHANGED weights, NEW y \in Instances, NEW e \in Job,
         exec' = [exec EXCEPT ![y] = Append(@, e)],
         e.kind = "infer" => e.model \in weights[y] /\ Stays(y, e.model)
  PROVE  CallsHaveWeights'
<1>1. /\ \A x \in Instances : \A i \in DOMAIN exec'[x] :
           Added(x, i, y, e) \/ (i \in DOMAIN exec[x] /\ exec'[x][i] = exec[x][i])
      /\ \A x \in Instances : \A i \in DOMAIN exec[x] : exec'[x][i] = exec[x][i]
  BY AfterAppend
<1> SUFFICES ASSUME NEW x \in Instances, NEW i \in DOMAIN exec'[x]
             PROVE  HasWeights(x, i)'
  BY DEF CallsHaveWeights
<1>2. DOMAIN exec[x] = 1..Len(exec[x]) /\ Len(exec[x]) \in Nat
  BY Places
<1>3. CASE Added(x, i, y, e)
  <2>1. x = y /\ exec'[x][i] = e /\ \A k \in 1..(i - 1) : k \in DOMAIN exec[x] /\ exec'[x][k] = exec[x][k]
    BY <1>1, <1>2, <1>3 DEF Added
  <2> QED BY <2>1 DEF HasWeights, Stays
<1>4. CASE i \in DOMAIN exec[x] /\ exec'[x][i] = exec[x][i]
  <2>1. HasWeights(x, i) /\ \A k \in 1..(i - 1) : k \in DOMAIN exec[x] /\ exec'[x][k] = exec[x][k]
    BY <1>1, <1>2, <1>4 DEF CallsHaveWeights
  <2> QED BY <1>4, <2>1 DEF HasWeights
<1> QED BY <1>1, <1>3, <1>4

LEMMA WeightsFrame ==
  ASSUME CallsHaveWeights, UNCHANGED <<exec, weights>> PROVE CallsHaveWeights'
BY DEF CallsHaveWeights, HasWeights

\* A swap begins at the head of a queue that holds no inference.
LEMMA SwapRunsAlone ==
  ASSUME TypeInv, CallInv, NEW x \in Instances, ~busy[x], exec[x] # <<>>,
         exec[x][1].kind = "swap"
  PROVE  /\ \A i \in DOMAIN exec[x] : exec[x][i].kind # "infer"
         /\ exec[x][1].model = "whisper" /\ x = task.at /\ task.pc = "swap"
         /\ task.outcome = "none"
<1>1. 1 \in DOMAIN exec[x]
  BY DEF TypeInv, TypeOK
<1>2. CallOK(x, 1) /\ IsCall(exec[x][1])
  BY <1>1 DEF CallInv, IsCall
<1>3. IsCurrent(exec[x][1]) /\ exec[x][1].model = "whisper" /\ AwaitedAt(x, 1)
  BY <1>2 DEF CallOK
<1>4. ASSUME NEW i \in DOMAIN exec[x], exec[x][i].kind = "infer" PROVE FALSE
  <2>1. IsCurrent(exec[x][i])
    BY <1>4 DEF CallInv, CallOK, IsCall
  <2>2. i = 1
    BY <1>1, <1>3, <2>1 DEF CallInv
  <2> QED BY <1>4, <2>2
<1> QED BY <1>3, <1>4 DEF AwaitedAt, Awaits

LEMMA CallsStep ==
  ASSUME TypeInv, TypeInv', QueueShape, TaskInv, CallInv, MoveInv, CallsHaveWeights, StageHasWeights,
         [Next]_vars
  PROVE  CallsHaveWeights'
<1>0. CASE UNCHANGED vars
  BY <1>0, WeightsFrame DEF vars, procVars
<1>1. CASE TakeRequest
  BY <1>1, WeightsFrame DEF TakeRequest, procVars
<1>2. CASE OtherEvicts
  <2>1. PICK m \in Models : Dispatch("unload", m)
    BY <1>2 DEF OtherEvicts, TypeInv, TypeOK
  <2> DEFINE y == Live(Owner[m])
             e == [kind |-> "unload", model |-> m, req |-> req]
  <2>2. y \in Instances /\ e \in Job /\ exec' = [exec EXCEPT ![y] = Append(@, e)]
        /\ e.kind = "unload"
    BY <2>1, Names, LiveIsInstance, JobType DEF Dispatch
  <2> HIDE DEF y, e
  <2> QED BY <1>2, <2>2, WeightsAfterAppend DEF OtherEvicts
<1>3. CASE EnterAdmission
  BY <1>3, WeightsFrame DEF EnterAdmission, procVars
<1>4. CASE LoadRequired
  <2>1. PICK m \in Models : Dispatch("load", m)
    BY <1>4, TaskFields, Names DEF LoadRequired
  <2> DEFINE y == Live(Owner[m])
             e == [kind |-> "load", model |-> m, req |-> req]
  <2>2. y \in Instances /\ e \in Job /\ exec' = [exec EXCEPT ![y] = Append(@, e)]
        /\ e.kind = "load"
    BY <2>1, Names, LiveIsInstance, JobType DEF Dispatch
  <2> HIDE DEF y, e
  <2> QED BY <1>4, <2>2, WeightsAfterAppend DEF LoadRequired
<1>5. CASE GrantLease
  BY <1>5, WeightsFrame DEF GrantLease, procVars
<1>6. CASE TaskReturns
  BY <1>6, WeightsFrame DEF TaskReturns, procVars
<1>7. CASE SwapErrorRaised
  BY <1>7, WeightsFrame DEF SwapErrorRaised, procVars
<1>8. CASE TimesOut
  BY <1>8, WeightsFrame DEF TimesOut, procVars
<1>9. CASE CheckIdle
  BY <1>9, WeightsFrame DEF CheckIdle, procVars
<1>10. CASE IdleWaitEnds
  BY <1>10, WeightsFrame DEF IdleWaitEnds, procVars
<1>11. CASE EnterBarrier
  BY <1>11, WeightsFrame DEF EnterBarrier, procVars
<1>12. CASE ShutdownSignals
  BY <1>12, WeightsFrame DEF ShutdownSignals, procVars
<1>13. CASE ShutdownCloses
  BY <1>13, WeightsFrame DEF ShutdownCloses, procVars
<1>14. CASE Drained
  <2> DEFINE y == Live(watch)
  <2>1. /\ y \in Instances /\ exec' = exec /\ exec[y] = <<>>
        /\ weights' = [weights EXCEPT ![y] = {}]
    BY <1>14, LiveIsInstance DEF Drained, TypeInv, TypeOK
  <2> HIDE DEF y
  <2>2. \A x \in Instances : x # y => weights'[x] = weights[x]
    BY <2>1 DEF TypeInv, TypeOK
  <2> QED BY <2>1, <2>2 DEF CallsHaveWeights, HasWeights
<1>15. CASE DrainTimesOut
  <2> DEFINE y == Live(watch)
  <2>1. y \in Instances /\ exec' = [exec EXCEPT ![y] = Begun(y)] /\ UNCHANGED <<weights, busy>>
    BY <1>15, LiveIsInstance DEF DrainTimesOut, Leak, TypeInv, TypeOK
  <2> HIDE DEF y
  <2>2. PICK f : Survives(f)
    BY <2>1, SurvivesDrain
  <2> QED BY <2>1, <2>2, WeightsSurvive DEF Keeps
<1>16. CASE Rebind
  BY <1>16, WeightsFrame DEF Rebind, procVars
<1>17. CASE Discard
  <2>1. UNCHANGED <<weights, busy>>
    BY <1>17 DEF Discard
  <2>2. CASE exec' = exec
    BY <2>1, <2>2, WeightsFrame
  <2>3. ASSUME NEW i \in DOMAIN exec[task.at], ~(busy[task.at] /\ i = 1),
               exec' = [exec EXCEPT ![task.at] = RemoveAt(@, i)]
        PROVE  CallsHaveWeights'
    <3>1. PICK f : Survives(f)
      BY <2>1, <2>3, TaskFields, SurvivesRemove
    <3> QED BY <2>1, <3>1, WeightsSurvive DEF Keeps
  <2> QED BY <1>17, <2>2, <2>3 DEF Discard, CancelCall
<1>18. CASE TaskStarts
  <2>1. Advance(task.todo, processing)
        /\ UNCHANGED weights
    BY <1>18 DEF TaskStarts
  <2>2. CASE exec' # exec
    <3> DEFINE x == Live(ProcessorOf[Head(task.todo)])
               e == [kind |-> "swap", model |-> "whisper", req |-> req]
    <3>1. x \in Instances /\ e \in Job /\ exec' = [exec EXCEPT ![x] = Append(@, e)]
      BY <2>1, <2>2, TaskFields, SwapIsCalled
    <3>2. e.kind # "infer"
      OBVIOUS
    <3> HIDE DEF x, e
    <3> QED BY <2>1, <3>1, <3>2, WeightsAfterAppend
  <2> QED BY <2>1, <2>2, WeightsFrame
<1>19. CASE SwapReturns
  BY <1>19, WeightsFrame DEF SwapReturns, procVars
<1>20. CASE CallModel
  <2> DEFINE e == [kind |-> "infer", model |-> ModelOf[Head(task.todo)], req |-> req]
  <2>1. UNCHANGED weights /\ task.pc = "begun"
    BY <1>20 DEF CallModel
  <2>2. CASE exec' = exec
    BY <2>1, <2>2, WeightsFrame
  <2>3. CASE down[task.at] # "closed" /\ exec' = [exec EXCEPT ![task.at] = Append(@, e)]
    <3>1. Head(task.todo) \in Stages
      BY <1>20, TaskFields, HeadTailProperties DEF CallModel, TaskInv, TaskShape, Operating
    <3>2. e \in Job /\ e.model = ModelOf[Head(task.todo)]
      BY <3>1, Names, JobType
    <3>3. e.model \in weights[task.at] /\ Stays(task.at, e.model)
      BY <2>1, <2>3, <3>2 DEF StageHasWeights
    <3> HIDE DEF e
    <3> QED BY <2>1, <2>3, <3>2, <3>3, WeightsAfterAppend, TaskFields
  <2> QED BY <1>20, <2>2, <2>3 DEF CallModel
<1>21. CASE ModelReturns
  BY <1>21, WeightsFrame DEF ModelReturns, procVars
<1>22. CASE StageEnds
  <2>1. Advance(Tail(task.todo), [processing EXCEPT ![task.at] = FALSE])
        /\ UNCHANGED weights
    BY <1>22 DEF StageEnds
  <2>2. CASE exec' # exec
    <3> DEFINE x == Live(ProcessorOf[Head(Tail(task.todo))])
               e == [kind |-> "swap", model |-> "whisper", req |-> req]
    <3>1. x \in Instances /\ e \in Job /\ exec' = [exec EXCEPT ![x] = Append(@, e)]
      <4>1. Tail(task.todo) \in Seq(Stages)
        BY <1>22, TaskFields, HeadTailProperties DEF StageEnds, TaskInv, TaskShape, Operating
      <4> QED BY <2>1, <2>2, <4>1, SwapIsCalled
    <3>2. e.kind # "infer"
      OBVIOUS
    <3> HIDE DEF x, e
    <3> QED BY <2>1, <3>1, <3>2, WeightsAfterAppend
  <2> QED BY <2>1, <2>2, WeightsFrame
<1>23. CASE ClientGone
  BY <1>23, WeightsFrame DEF ClientGone, procVars
<1>24. ASSUME NEW x \in Instances, CallBegins(x) PROVE CallsHaveWeights'
  <2>1. exec[x] # <<>> /\ Head(exec[x]) = exec[x][1]
    BY <1>24, HeadJob DEF CallBegins
  <2>2. CASE Pop(x) /\ weights' = weights
    <3>1. PICK f : Survives(f)
      BY <2>1, <2>2, SurvivesPop
    <3> QED BY <2>2, <3>1, WeightsSurvive DEF Keeps
  <2>3. CASE exec' = exec /\ Head(exec[x]).kind # "swap"
    BY <1>24, <2>3, WeightsFrame DEF CallBegins, TypeInv, TypeOK
  <2>4. CASE exec' = exec /\ exec[x][1].kind = "swap"
    <3>1. \A i \in DOMAIN exec[x] : exec[x][i].kind # "infer"
      BY <1>24, <2>1, <2>4, SwapRunsAlone DEF CallBegins
    <3>2. \A y \in Instances : y # x => weights'[y] = weights[y]
      BY <1>24 DEF CallBegins, TypeInv, TypeOK
    <3> QED BY <2>4, <3>1, <3>2 DEF CallsHaveWeights, HasWeights
  <2> QED BY <1>24, <2>1, <2>2, <2>3, <2>4 DEF CallBegins
<1>25. ASSUME NEW x \in Instances, SwapEnds(x) PROVE CallsHaveWeights'
  <2>1. exec[x] # <<>> /\ Pop(x)
    BY <1>25 DEF SwapEnds, Running, QueueShape
  <2>2. PICK f : Survives(f)
    BY <2>1, SurvivesPop
  <2>3. \A y \in Instances : weights[y] \subseteq weights'[y]
    BY <1>25 DEF SwapEnds, TypeInv, TypeOK
  <2> QED BY <2>2, <2>3, WeightsSurvive DEF Keeps
<1>26. ASSUME NEW x \in Instances, LoadEnds(x) PROVE CallsHaveWeights'
  <2>1. exec[x] # <<>> /\ Pop(x)
    BY <1>26 DEF LoadEnds, Running, QueueShape
  <2>2. PICK f : Survives(f)
    BY <2>1, SurvivesPop
  <2>3. \A y \in Instances : weights[y] \subseteq weights'[y]
    BY <1>26 DEF LoadEnds, TypeInv, TypeOK
  <2> QED BY <2>2, <2>3, WeightsSurvive DEF Keeps
<1>27. ASSUME NEW x \in Instances, UnloadEnds(x) PROVE CallsHaveWeights'
  <2> DEFINE m == exec[x][1].model
  <2>1. /\ exec[x] # <<>> /\ 1 \in DOMAIN exec[x] /\ Pop(x) /\ exec[x][1].kind = "unload"
        /\ weights' = [weights EXCEPT ![x] = @ \ {m}]
    BY <1>27, HeadMoveOK DEF UnloadEnds
  <2>2. PICK f : Survives(f) /\ Left(f, x, 1)
    BY <2>1, SurvivesPop
  <2>3. \A y \in Instances : weights'[y] = IF y = x THEN weights[x] \ {m} ELSE weights[y]
    BY <2>1 DEF TypeInv, TypeOK
  <2>4. ASSUME NEW i \in DOMAIN exec'[x], exec'[x][i].kind = "infer"
        PROVE  exec'[x][i].model # m
    <3>1. f[x][i] \in DOMAIN exec[x] /\ exec'[x][i] = exec[x][f[x][i]] /\ f[x][i] # 1
      BY <2>2, <2>4 DEF Survives, Left
    <3>2. 1 \in 1..(f[x][i] - 1)
      BY <3>1, Places
    <3> QED BY <2>1, <2>4, <3>1, <3>2 DEF CallsHaveWeights, HasWeights
  <2> HIDE DEF m
  <2>5. Keeps
    BY <2>3, <2>4 DEF Keeps
  <2> QED BY <2>2, <2>5, WeightsSurvive
<1>28. ASSUME NEW x \in Instances, InferenceEnds(x) PROVE CallsHaveWeights'
  <2>1. exec[x] # <<>> /\ Pop(x)
    BY <1>28 DEF InferenceEnds, Running, QueueShape
  <2>2. PICK f : Survives(f)
    BY <2>1, SurvivesPop
  <2>3. \A y \in Instances : weights[y] \subseteq weights'[y]
    BY <1>28 DEF InferenceEnds, TypeInv, TypeOK
  <2> QED BY <2>2, <2>3, WeightsSurvive DEF Keeps
<1>29. CASE SwapRecovered
  BY <1>29, WeightsFrame DEF SwapRecovered, procVars
<1>30. CASE Synchronized
  BY <1>30, WeightsFrame DEF Synchronized, procVars
<1> QED
  BY <1>0, <1>1, <1>2, <1>3, <1>4, <1>5, <1>6, <1>7, <1>8, <1>9, <1>10, <1>11,
     <1>12, <1>13, <1>14, <1>15, <1>16, <1>17, <1>18, <1>19, <1>20, <1>21, <1>22, <1>23,
     <1>24, <1>25, <1>26, <1>27, <1>28, <1>29, <1>30
  DEF Next, WorkerStep, TaskStep, CallEnds
-----------------------------------------------------------------------------
(* The weights of the call that is to come *)

LEMMA StageGone == ASSUME task'.pc \notin {"swap", "begun"} PROVE StageHasWeights'
BY DEF StageHasWeights

LEMMA StageFrameAt ==
  ASSUME StageHasWeights, NEW x, x = task.at, NEW m, m = ModelOf[Head(task.todo)],
         task'.pc = task.pc, task'.todo = task.todo, task'.at = task.at,
         task.pc = "swap" /\ task'.outcome = "ok" => task.outcome = "ok" \/ m \in weights'[x],
         Stays(x, m) => Stays(x, m)', m \in weights[x] /\ down[x] # "closed" => m \in weights'[x],
         down[x] = "closed" => down'[x] = "closed"
  PROVE  StageHasWeights'
<1>1. ModelOf[Head(task'.todo)] = m /\ task'.at = x
  OBVIOUS
<1>2. ASSUME task'.pc \in {"swap", "begun"}, down'[x] # "closed"
      PROVE  Stays(x, m)' /\ (task'.pc = "begun" \/ task'.outcome = "ok" => m \in weights'[x])
  BY <1>2 DEF StageHasWeights
<1> QED BY <1>1, <1>2 DEF StageHasWeights, Stays

\* The queues only shrink, and the weights stay but on a closed processor.
LEMMA StageFrame ==
  ASSUME TypeInv, StageHasWeights,
         task'.pc = task.pc, task'.todo = task.todo, task'.at = task.at,
         task'.outcome = "ok" => task.outcome = "ok" \/ task.pc # "swap",
         \A x \in Instances : \A m : Stays(x, m) => Stays(x, m)',
         \A x \in Instances : down[x] # "closed" => weights[x] \subseteq weights'[x],
         \A x \in Instances : down[x] = "closed" => down'[x] = "closed"
  PROVE  StageHasWeights'
<1>1. PICK x \in Instances : x = task.at
  BY TaskFields
<1>2. PICK m : m = ModelOf[Head(task.todo)]
  OBVIOUS
<1> QED BY <1>1, <1>2, StageFrameAt

LEMMA StaysFrame ==
  ASSUME UNCHANGED exec PROVE \A x \in Instances : \A m : Stays(x, m) => Stays(x, m)'
BY DEF Stays

LEMMA StaysSurvives ==
  ASSUME NEW f, Survives(f) PROVE \A x \in Instances : \A m : Stays(x, m) => Stays(x, m)'
BY DEF Stays, Survives

LEMMA StaysAfterAppend ==
  ASSUME TypeInv, NEW y \in Instances, NEW e \in Job, exec' = [exec EXCEPT ![y] = Append(@, e)],
         NEW x \in Instances, NEW m, Stays(x, m), e.kind = "unload" => e.model # m
  PROVE  Stays(x, m)'
<1>1. \A i \in DOMAIN exec'[x] :
         Added(x, i, y, e) \/ (i \in DOMAIN exec[x] /\ exec'[x][i] = exec[x][i])
  BY AfterAppend
<1> QED BY <1>1 DEF Stays, Added

\* The lease keeps the models of the request from being unloaded.
LEMMA NotUnloaded ==
  ASSUME MoveInv, LeaseInv, pc \in Serving, NEW m, m \in Required, NEW x \in Instances
  PROVE  Stays(x, m)
BY DEF Stays, MoveInv, MoveOK, IsMove, LeaseInv

LEMMA StageRequired ==
  ASSUME TypeInv, TaskInv, Operating
  PROVE  ModelOf[Head(task.todo)] \in Required /\ task.todo # <<>>
<1>1. task.todo # <<>> /\ task.todo \in Seq(Stages)
  BY TaskFields DEF TaskInv, TaskShape
<1>2. 1 \in DOMAIN task.todo /\ Head(task.todo) = task.todo[1]
  BY <1>1
<1> QED BY <1>1, <1>2 DEF Required, Range

LEMMA StageBegins ==
  ASSUME TypeInv, MoveInv, LeaseInv, pc \in Serving, NEW todo \in Seq(Stages), NEW ended,
         todo # <<>> => ModelOf[Head(todo)] \in Required, Advance(todo, ended),
         UNCHANGED <<weights, down>>
  PROVE  StageHasWeights'
<1>1. CASE task'.pc \in {"swap", "begun"}
  <2>1. /\ todo # <<>> /\ task'.todo = todo /\ task'.at = Live(ProcessorOf[Head(todo)])
        /\ ModelOf[Head(todo)] \in weights[task'.at]
        /\ exec' # exec => task'.pc = "swap"
    BY <1>1, AdvanceTask
  <2>2. PICK m : m = ModelOf[Head(todo)]
    OBVIOUS
  <2>3. ProcessorOf[Head(todo)] \in Processors
    BY <2>1, HeadTailProperties, Names
  <2>4. PICK x \in Instances : x = task'.at
    BY <2>1, <2>3, LiveIsInstance
  <2>5. Stays(x, m)
    BY <2>1, <2>2, NotUnloaded
  <2>6. Stays(x, m)'
    <3>1. CASE exec' = exec
      BY <2>5, <3>1 DEF Stays
    <3>2. CASE exec' # exec
      <4> DEFINE y == Live(ProcessorOf[Head(todo)])
                 e == [kind |-> "swap", model |-> "whisper", req |-> req]
      <4>1. y \in Instances /\ e \in Job /\ exec' = [exec EXCEPT ![y] = Append(@, e)]
        BY <3>2, SwapIsCalled
      <4>2. e.kind # "unload"
        OBVIOUS
      <4> HIDE DEF y, e
      <4> QED BY <2>5, <4>1, <4>2, StaysAfterAppend
    <3> QED BY <3>1, <3>2
  <2>7. ModelOf[Head(task'.todo)] = m /\ m \in weights'[x]
    BY <2>1, <2>2, <2>4
  <2> QED BY <2>4, <2>6, <2>7 DEF StageHasWeights, Stays
<1> QED BY <1>1, StageGone

LEMMA StageStep ==
  ASSUME TypeInv, TypeInv', QueueShape, LockShape, ClosedShape, TaskInv, CallInv, MoveInv,
     LeaseInv, StageHasWeights, [Next]_vars
  PROVE  StageHasWeights'
<1>0. CASE UNCHANGED vars
  <2>1. \A x \in Instances : \A m : Stays(x, m) => Stays(x, m)'
    BY <1>0, StaysFrame DEF vars, procVars
  <2> QED BY <1>0, <2>1, StageFrame DEF vars, procVars
<1>1. CASE TakeRequest
  <2>1. task'.pc \notin {"swap", "begun"}
    BY <1>1 DEF TakeRequest, NoTask, TypeInv, TaskType
  <2> QED BY <2>1, StageGone
<1>2. CASE OtherEvicts
  <2>1. PICK n \in Models : Dispatch("unload", n) /\ n \in loaded \ held
    BY <1>2 DEF OtherEvicts, TypeInv, TypeOK
  <2> DEFINE y == Live(Owner[n])
             e == [kind |-> "unload", model |-> n, req |-> req]
  <2>2. y \in Instances /\ e \in Job /\ exec' = [exec EXCEPT ![y] = Append(@, e)] /\ e.model = n
    BY <2>1, Names, LiveIsInstance, JobType DEF Dispatch
  <2> HIDE DEF y, e
  <2>3. CASE Operating
    <3>1. PICK x \in Instances : x = task.at
      BY TaskFields
    <3>2. PICK m : m = ModelOf[Head(task.todo)]
      OBVIOUS
    <3>3. m # n
      <4>1. pc \in Serving
        BY <2>3 DEF TaskInv, Operating
      <4> QED BY <2>1, <2>3, <3>2, <4>1, StageRequired DEF LeaseInv
    <3>4. Stays(x, m) => Stays(x, m)'
      BY <2>2, <3>3, StaysAfterAppend
    <3> QED BY <1>2, <3>1, <3>2, <3>4, StageFrameAt DEF OtherEvicts
  <2>4. CASE ~Operating
    BY <1>2, <2>4, StageGone DEF OtherEvicts, Operating
  <2> QED BY <2>3, <2>4
<1>3. CASE EnterAdmission
  <2>1. \A x \in Instances : \A m : Stays(x, m) => Stays(x, m)'
    BY <1>3, StaysFrame DEF EnterAdmission, procVars
  <2> QED BY <1>3, <2>1, StageFrame DEF EnterAdmission, procVars, workerVars
<1>4. CASE LoadRequired
  <2>1. task'.pc \notin {"swap", "begun"}
    BY <1>4 DEF LoadRequired, NoTask, TypeInv, TaskType, TaskInv, Serving
  <2> QED BY <2>1, StageGone
<1>5. CASE GrantLease
  <2>1. task'.pc \notin {"swap", "begun"}
    BY <1>5 DEF GrantLease, NoTask, TypeInv, TaskType
  <2> QED BY <2>1, StageGone
<1>6. CASE TaskReturns
  <2>1. task'.pc \notin {"swap", "begun"}
    BY <1>6 DEF TaskReturns, NoTask, TypeInv, TaskType, Release
  <2> QED BY <2>1, StageGone
<1>7. CASE SwapErrorRaised
  <2>1. \A x \in Instances : \A m : Stays(x, m) => Stays(x, m)'
    BY <1>7, StaysFrame DEF SwapErrorRaised, procVars
  <2> QED BY <1>7, <2>1, StageFrame DEF SwapErrorRaised, procVars, workerVars
<1>8. CASE TimesOut
  <2>1. \A x \in Instances : \A m : Stays(x, m) => Stays(x, m)'
    BY <1>8, StaysFrame DEF TimesOut, procVars
  <2> QED BY <1>8, <2>1, StageFrame DEF TimesOut, procVars, workerVars
<1>9. CASE CheckIdle
  <2>1. \A x \in Instances : \A m : Stays(x, m) => Stays(x, m)'
    BY <1>9, StaysFrame DEF CheckIdle, procVars
  <2> QED BY <1>9, <2>1, StageFrame DEF CheckIdle, procVars, workerVars
<1>10. CASE IdleWaitEnds
  <2>1. \A x \in Instances : \A m : Stays(x, m) => Stays(x, m)'
    BY <1>10, StaysFrame DEF IdleWaitEnds, procVars
  <2> QED BY <1>10, <2>1, StageFrame DEF IdleWaitEnds, procVars, workerVars
<1>11. CASE EnterBarrier
  <2>1. \A x \in Instances : \A m : Stays(x, m) => Stays(x, m)'
    BY <1>11, StaysFrame DEF EnterBarrier, procVars
  <2> QED BY <1>11, <2>1, StageFrame DEF EnterBarrier, procVars, workerVars
<1>12. CASE ShutdownSignals
  <2>1. \A x \in Instances : \A m : Stays(x, m) => Stays(x, m)'
    BY <1>12, StaysFrame DEF ShutdownSignals
  <2>2. down[Live(watch)] # "closed"
    BY <1>12, LiveIsInstance DEF ShutdownSignals, ClosedShape, Live, TypeInv, TypeOK
  <2>3. \A x \in Instances : down[x] = "closed" => down'[x] = "closed"
    BY <1>12, <2>2 DEF ShutdownSignals, TypeInv, TypeOK
  <2> QED BY <1>12, <2>1, <2>3, StageFrame DEF ShutdownSignals
<1>13. CASE ShutdownCloses
  <2>1. \A x \in Instances : \A m : Stays(x, m) => Stays(x, m)'
    BY <1>13, StaysFrame DEF ShutdownCloses
  <2>2. \A x \in Instances : down[x] = "closed" => down'[x] = "closed"
    BY <1>13 DEF ShutdownCloses, TypeInv, TypeOK
  <2> QED BY <1>13, <2>1, <2>2, StageFrame DEF ShutdownCloses
<1>14. CASE Drained
  <2>1. \A x \in Instances : \A m : Stays(x, m) => Stays(x, m)'
    BY <1>14, StaysFrame DEF Drained
  <2>2. down[Live(watch)] = "closed"
    BY <1>14 DEF Drained, LockShape
  <2>3. \A x \in Instances : down[x] # "closed" => weights[x] \subseteq weights'[x]
    BY <1>14, <2>2 DEF Drained, TypeInv, TypeOK
  <2> QED BY <1>14, <2>1, <2>3, StageFrame DEF Drained
<1>15. CASE DrainTimesOut
  <2> DEFINE y == Live(watch)
  <2>1. /\ y \in Instances /\ exec' = [exec EXCEPT ![y] = Begun(y)]
        /\ UNCHANGED <<weights, busy, down>>
    BY <1>15, LiveIsInstance DEF DrainTimesOut, Leak, TypeInv, TypeOK
  <2> HIDE DEF y
  <2>2. PICK f : Survives(f)
    BY <2>1, SurvivesDrain
  <2>3. task' = task \/ task' = [task EXCEPT !.outcome = "dropped"]
    BY <1>15 DEF DrainTimesOut
  <2>4. /\ task'.pc = task.pc /\ task'.todo = task.todo /\ task'.at = task.at
        /\ task'.outcome \in {task.outcome, "dropped"}
    BY <2>3 DEF TypeInv, TaskType
  <2>5. \A x \in Instances : \A m : Stays(x, m) => Stays(x, m)'
    BY <2>2, StaysSurvives
  <2> QED BY <2>1, <2>4, <2>5, StageFrame
<1>16. CASE Rebind
  <2>1. \A x \in Instances : \A m : Stays(x, m) => Stays(x, m)'
    BY <1>16, StaysFrame DEF Rebind, procVars
  <2> QED BY <1>16, <2>1, StageFrame DEF Rebind, procVars, workerVars
<1>17. CASE Discard
  <2>1. task'.pc \notin {"swap", "begun"}
    BY <1>17 DEF Discard, NoTask, TypeInv, TaskType, Release
  <2> QED BY <2>1, StageGone
<1>18. CASE TaskStarts
  <2>1. Advance(task.todo, processing) /\ pc \in Serving /\ UNCHANGED <<weights, down>>
    BY <1>18 DEF TaskStarts, TaskInv
  <2>2. task.todo # <<>> => ModelOf[Head(task.todo)] \in Required
    <3>1. task.todo # <<>> => 1 \in DOMAIN task.todo /\ Head(task.todo) = task.todo[1]
      BY TaskFields
    <3> QED BY <3>1 DEF Required, Range
  <2> QED BY <2>1, <2>2, TaskFields, StageBegins
<1>19. CASE SwapReturns
  <2>1. CASE Finish(task.outcome)
    <3>1. task'.pc = "done"
      BY <2>1 DEF Finish, TypeInv, TaskType
    <3> QED BY <3>1, StageGone
  <2>2. CASE task.outcome = "ok" /\ task' = [task EXCEPT !.pc = "begun"]
    <3>1. task'.pc = "begun" /\ task'.todo = task.todo /\ task'.at = task.at
      BY <2>2 DEF TypeInv, TaskType
    <3>2. task.pc = "swap" /\ UNCHANGED <<exec, weights, down>>
      BY <1>19 DEF SwapReturns
    <3> QED BY <2>2, <3>1, <3>2 DEF StageHasWeights, Stays
  <2> QED BY <1>19, <2>1, <2>2 DEF SwapReturns
<1>20. CASE CallModel
  <2>1. task'.pc \notin {"swap", "begun"}
    BY <1>20 DEF CallModel, NoTask, TypeInv, TaskType, StageFails, Finish
  <2> QED BY <2>1, StageGone
<1>21. CASE ModelReturns
  <2>1. task'.pc \notin {"swap", "begun"}
    BY <1>21 DEF ModelReturns, NoTask, TypeInv, TaskType, StageFails, Finish
  <2> QED BY <2>1, StageGone
<1>22. CASE StageEnds
  <2> DEFINE t == Tail(task.todo)
  <2>1. /\ Advance(t, [processing EXCEPT ![task.at] = FALSE]) /\ UNCHANGED <<weights, down>>
        /\ pc \in Serving /\ task.todo # <<>>
    BY <1>22 DEF StageEnds, TaskInv, TaskShape, Operating
  <2>2. t \in Seq(Stages) /\ (t # <<>> => Head(t) = task.todo[2] /\ 2 \in DOMAIN task.todo)
    BY <2>1, TaskFields, TailIs
  <2> HIDE DEF t
  <2>3. t # <<>> => ModelOf[Head(t)] \in Required
    BY <2>2 DEF Required, Range
  <2> QED BY <2>1, <2>2, <2>3, StageBegins
<1>23. CASE ClientGone
  <2>1. \A x \in Instances : \A m : Stays(x, m) => Stays(x, m)'
    BY <1>23, StaysFrame DEF ClientGone, procVars
  <2> QED BY <1>23, <2>1, StageFrame DEF ClientGone, procVars, workerVars
<1>24. ASSUME NEW x \in Instances, CallBegins(x) PROVE StageHasWeights'
  <2>1. exec[x] # <<>> /\ Head(exec[x]) = exec[x][1]
    BY <1>24, HeadJob DEF CallBegins
  <2>2. CASE Pop(x) /\ Deliver(Head(exec[x]), "error") /\ weights' = weights
    <3>1. PICK f : Survives(f)
      BY <2>1, <2>2, SurvivesPop
    <3>2. \A y \in Instances : \A m : Stays(y, m) => Stays(y, m)'
      BY <3>1, StaysSurvives
    <3>3. task' = task \/ task' = [task EXCEPT !.outcome = "error"]
      BY <2>2 DEF Deliver
    <3>4. /\ task'.pc = task.pc /\ task'.todo = task.todo /\ task'.at = task.at
          /\ task'.outcome \in {task.outcome, "error"}
      BY <3>3 DEF TypeInv, TaskType
    <3> QED BY <1>24, <2>2, <3>2, <3>4, StageFrame DEF CallBegins
  <2>3. CASE exec' = exec /\ task' = task /\ Head(exec[x]).kind # "swap"
    BY <1>24, <2>3, StaysFrame, StageFrame DEF CallBegins, TypeInv, TypeOK
  <2>4. CASE exec' = exec /\ task' = task /\ exec[x][1].kind = "swap"
    <3>1. task.pc = "swap" /\ task.outcome = "none"
      BY <1>24, <2>1, <2>4, SwapRunsAlone DEF CallBegins
    <3>2. UNCHANGED down
      BY <1>24 DEF CallBegins
    <3> QED BY <2>4, <3>1, <3>2 DEF StageHasWeights, Stays
  <2> QED BY <1>24, <2>1, <2>2, <2>3, <2>4 DEF CallBegins
<1>25. ASSUME NEW x \in Instances, SwapEnds(x) PROVE StageHasWeights'
  <2>1. exec[x] # <<>> /\ Pop(x) /\ Head(exec[x]) = exec[x][1] /\ exec[x][1].kind = "swap"
    BY <1>25, HeadJob DEF SwapEnds, Running, QueueShape
  <2>2. PICK f : Survives(f)
    BY <2>1, SurvivesPop
  <2>3. \A y \in Instances : \A m : Stays(y, m) => Stays(y, m)'
    BY <2>2, StaysSurvives
  <2>4. UNCHANGED down /\ \A y \in Instances : weights[y] \subseteq weights'[y]
    BY <1>25 DEF SwapEnds, TypeInv, TypeOK
  <2>5. CASE Deliver(Head(exec[x]), "swapError")
    <3>1. task' = task \/ task' = [task EXCEPT !.outcome = "swapError"]
      BY <2>5 DEF Deliver
    <3>2. /\ task'.pc = task.pc /\ task'.todo = task.todo /\ task'.at = task.at
          /\ task'.outcome \in {task.outcome, "swapError"}
      BY <3>1 DEF TypeInv, TaskType
    <3> QED BY <2>3, <2>4, <3>2, StageFrame
  <2>6. CASE Deliver(Head(exec[x]), "ok") /\ weights' = [weights EXCEPT ![x] = @ \cup {"whisper"}]
    <3>1. CASE ~Awaits(exec[x][1])
      <4>1. task' = task
        BY <2>1, <2>6, <3>1 DEF Deliver
      <4> QED BY <2>3, <2>4, <4>1, StageFrame
    <3>2. CASE Awaits(exec[x][1])
      <4>1. x = task.at /\ task.pc = "swap"
        BY <2>1, <3>2, Delivery
      <4>2. PICK m : m = ModelOf[Head(task.todo)]
        OBVIOUS
      <4>3. m \in weights'[x]
        <5>1. m = "whisper"
          BY <4>1, <4>2 DEF TaskInv, TaskShape, ModelOf
        <5> QED BY <2>6, <5>1 DEF TypeInv, TypeOK
      <4>4. task' = [task EXCEPT !.outcome = "ok"]
        BY <2>1, <2>6, <3>2 DEF Deliver
      <4>5. task'.pc = task.pc /\ task'.todo = task.todo /\ task'.at = task.at
        BY <4>4 DEF TypeInv, TaskType
      <4>6. Stays(x, m) => Stays(x, m)'
        BY <2>3
      <4> QED BY <2>4, <4>1, <4>2, <4>3, <4>5, <4>6, StageFrameAt
    <3> QED BY <3>1, <3>2
  <2> QED BY <1>25, <2>5, <2>6 DEF SwapEnds
<1>26. ASSUME NEW x \in Instances, LoadEnds(x) PROVE StageHasWeights'
  <2>1. MoveOK(x, exec[x][1]) /\ exec[x][1].kind = "load"
    BY <1>26, HeadMoveOK DEF LoadEnds
  <2>2. pc = "loading"
    BY <2>1 DEF MoveOK, IsMove
  <2>3. task'.pc \notin {"swap", "begun"}
    BY <1>26, <2>2 DEF LoadEnds, TaskInv, Serving
  <2> QED BY <2>3, StageGone
<1>27. ASSUME NEW x \in Instances, UnloadEnds(x) PROVE StageHasWeights'
  <2>1. /\ exec[x] # <<>> /\ 1 \in DOMAIN exec[x] /\ Pop(x) /\ exec[x][1].kind = "unload"
        /\ weights' = [weights EXCEPT ![x] = @ \ {exec[x][1].model}]
        /\ UNCHANGED <<down, task>>
    BY <1>27, HeadMoveOK DEF UnloadEnds
  <2>2. PICK f : Survives(f)
    BY <2>1, SurvivesPop
  <2>3. \A y \in Instances : \A m : Stays(y, m) => Stays(y, m)'
    BY <2>2, StaysSurvives
  <2>4. PICK y \in Instances : y = task.at
    BY TaskFields
  <2>5. PICK m : m = ModelOf[Head(task.todo)]
    OBVIOUS
  <2>6. Stays(y, m) => Stays(y, m)'
    BY <2>3
  <2>7. CASE Stays(y, m)
    <3>1. m \in weights[y] => m \in weights'[y]
      BY <2>1, <2>7 DEF Stays, TypeInv, TypeOK
    <3> QED BY <2>1, <2>4, <2>5, <2>6, <3>1, StageFrameAt
  <2>8. CASE ~Stays(y, m)
    BY <2>1, <2>4, <2>5, <2>8 DEF StageHasWeights
  <2> QED BY <2>7, <2>8
<1>28. ASSUME NEW x \in Instances, InferenceEnds(x) PROVE StageHasWeights'
  <2>1. exec[x] # <<>> /\ Pop(x) /\ Head(exec[x]) = exec[x][1] /\ exec[x][1].kind = "infer"
    BY <1>28, HeadJob DEF InferenceEnds, Running, QueueShape
  <2>2. PICK f : Survives(f)
    BY <2>1, SurvivesPop
  <2>3. \A y \in Instances : \A m : Stays(y, m) => Stays(y, m)'
    BY <2>2, StaysSurvives
  <2>4. Awaits(exec[x][1]) => task.pc = "run"
    BY <2>1, Delivery DEF Awaits
  <2>5. task' = task \/ \E o : task.pc = "run" /\ task' = [task EXCEPT !.outcome = o]
    BY <1>28, <2>1, <2>4 DEF InferenceEnds, Deliver
  <2>6. /\ task'.pc = task.pc /\ task'.todo = task.todo /\ task'.at = task.at
        /\ task'.outcome = task.outcome \/ task.pc = "run"
    BY <2>5 DEF TypeInv, TaskType
  <2> QED BY <1>28, <2>3, <2>6, StageFrame DEF InferenceEnds
<1>29. CASE SwapRecovered
  <2>1. task'.pc \notin {"swap", "begun"}
    BY <1>29 DEF SwapRecovered, NoTask, TypeInv, TaskType, Release
  <2> QED BY <2>1, StageGone
<1>30. CASE Synchronized
  <2>1. task'.pc \notin {"swap", "begun"}
    BY <1>30 DEF Synchronized, NoTask, TypeInv, TaskType, Release
  <2> QED BY <2>1, StageGone
<1> QED
  BY <1>0, <1>1, <1>2, <1>3, <1>4, <1>5, <1>6, <1>7, <1>8, <1>9, <1>10, <1>11,
     <1>12, <1>13, <1>14, <1>15, <1>16, <1>17, <1>18, <1>19, <1>20, <1>21, <1>22, <1>23,
     <1>24, <1>25, <1>26, <1>27, <1>28, <1>29, <1>30
  DEF Next, WorkerStep, TaskStep, CallEnds
-----------------------------------------------------------------------------
(* How a failed swap is recovered *)

LEMMA NotRaised ==
  ASSUME RaisedInv, pc \notin Replacing \cup {"discard"} PROVE task.outcome # "raised"
BY DEF RaisedInv

LEMMA RaisedFrame ==
  ASSUME RaisedInv, loaded' \subseteq loaded,
         task'.outcome = "raised" => task.outcome = "raised",
         UNCHANGED <<pc, watch>> \/ (pc' \in Replacing /\ pc \in Replacing /\ watch' = watch)
  PROVE  RaisedInv'
BY DEF RaisedInv, Replacing

\* A task that has raised its error steps no more, and no other raises one.
LEMMA TaskRaisesNothing ==
  ASSUME TypeInv, TaskInv, TaskStep PROVE task'.outcome # "raised"
<1> USE DEF TypeInv, TaskType
<1>1. \A outcome : Finish(outcome) => task'.outcome = outcome
  BY DEF Finish
<1>2. ASSUME NEW todo, NEW ended, Advance(todo, ended), task.outcome # "raised"
      PROVE  task'.outcome # "raised"
  BY <1>1, <1>2 DEF Advance, StageFails
<1>3. task.outcome = "raised" => task.pc = "done"
  BY DEF TaskInv, TaskShape
<1>4. CASE TaskStarts
  BY <1>2, <1>3, <1>4 DEF TaskStarts
<1>5. CASE SwapReturns
  BY <1>1, <1>3, <1>5 DEF SwapReturns
<1>6. CASE CallModel
  BY <1>1, <1>3, <1>6 DEF CallModel, StageFails
<1>7. CASE ModelReturns
  BY <1>1, <1>3, <1>7 DEF ModelReturns, StageFails
<1>8. CASE StageEnds
  BY <1>2, <1>3, <1>8 DEF StageEnds
<1>9. CASE ClientGone
  BY <1>3, <1>9 DEF ClientGone
<1> QED BY <1>4, <1>5, <1>6, <1>7, <1>8, <1>9 DEF TaskStep

LEMMA DeliveryRaisesNothing ==
  ASSUME TypeInv, NEW job, NEW outcome \in Outcomes \ {"raised"}, Deliver(job, outcome)
  PROVE  task'.outcome = "raised" => task.outcome = "raised"
BY DEF TypeInv, TaskType, Deliver

LEMMA RaisedStep ==
  ASSUME TypeInv, QueueShape, TaskInv, MoveInv, RaisedInv, [Next]_vars
  PROVE  RaisedInv'
<1>1. CASE UNCHANGED vars \/ OtherEvicts
  BY <1>1, RaisedFrame DEF vars, residentVars, workerVars, OtherEvicts
<1>2. CASE TakeRequest \/ EnterAdmission \/ LoadRequired \/ GrantLease
  <2>1. task'.outcome # "raised"
    BY <1>2, NotRaised DEF TakeRequest, EnterAdmission, LoadRequired, GrantLease, NoTask,
       Replacing, TypeInv, TaskType
  <2> QED BY <2>1 DEF RaisedInv
<1>3. CASE TaskReturns \/ SwapRecovered \/ Discard \/ Synchronized
  <2>1. task'.outcome # "raised"
    BY <1>3 DEF TaskReturns, SwapRecovered, Discard, Synchronized, Release, NoTask
  <2> QED BY <2>1 DEF RaisedInv
<1>4. CASE SwapErrorRaised
  BY <1>4 DEF SwapErrorRaised, RaisedInv, Replacing
<1>5. CASE TimesOut \/ CheckIdle \/ IdleWaitEnds
  <2>1. task'.outcome # "raised"
    BY <1>5, NotRaised DEF TimesOut, CheckIdle, IdleWaitEnds, WaitReturns, Replacing
  <2> QED BY <2>1 DEF RaisedInv
<1>6. CASE EnterBarrier \/ ShutdownSignals \/ ShutdownCloses \/ Drained
  BY <1>6, RaisedFrame DEF EnterBarrier, ShutdownSignals, ShutdownCloses, Drained, residentVars,
     Replacing
<1>7. CASE DrainTimesOut
  <2>1. task'.outcome = "raised" => task.outcome = "raised"
    BY <1>7 DEF DrainTimesOut, TypeInv, TaskType
  <2> QED BY <1>7, <2>1, RaisedFrame DEF DrainTimesOut, residentVars, Replacing
<1>8. CASE Rebind
  <2>1. /\ task' = task /\ loaded' \subseteq loaded /\ watch \in Processors
        /\ watch = "whisper" => "whisper" \notin loaded'
    BY <1>8 DEF Rebind, ResetResidents, Residents, Models, Owner, TypeInv, TypeOK
  <2>2. pc' \in {"barrier", "discard"} /\ pc \in Replacing
    BY <1>8, OnwardGoes DEF Rebind, Replacing, TypeInv, TypeOK
  <2> QED BY <2>1, <2>2 DEF RaisedInv, Replacing
<1>9. CASE TaskStep
  BY <1>9, TaskRaisesNothing DEF RaisedInv
<1>10. ASSUME NEW x \in Instances, CallBegins(x) \/ SwapEnds(x) \/ InferenceEnds(x)
       PROVE  RaisedInv'
  <2>1. \/ task' = task
        \/ \E outcome \in {"ok", "error", "swapError"} : Deliver(Head(exec[x]), outcome)
    BY <1>10 DEF CallBegins, SwapEnds, InferenceEnds
  <2>2. task'.outcome = "raised" => task.outcome = "raised"
    BY <2>1, DeliveryRaisesNothing DEF Outcomes
  <2> QED BY <1>10, <2>2, RaisedFrame DEF CallBegins, SwapEnds, InferenceEnds, residentVars,
     workerVars
<1>11. ASSUME NEW x \in Instances, LoadEnds(x) PROVE RaisedInv'
  <2>1. MoveOK(x, exec[x][1]) /\ exec[x][1].kind = "load"
    BY <1>11, HeadMoveOK DEF LoadEnds
  <2>2. pc = "loading"
    BY <2>1 DEF MoveOK, IsMove
  <2>3. task'.outcome # "raised"
    BY <1>11, <2>2, NotRaised DEF LoadEnds, Replacing
  <2> QED BY <2>3 DEF RaisedInv
<1>12. ASSUME NEW x \in Instances, UnloadEnds(x) PROVE RaisedInv'
  BY <1>12, RaisedFrame DEF UnloadEnds, workerVars
<1> QED
  BY <1>1, <1>2, <1>3, <1>4, <1>5, <1>6, <1>7, <1>8, <1>9, <1>10, <1>11, <1>12
  DEF Next, WorkerStep, CallEnds
-----------------------------------------------------------------------------
(* The residents *)

LEMMA HomeIsInstance ==
  ASSUME TypeInv PROVE \A m \in Models : Live(Owner[m]) \in Instances
BY Names, LiveIsInstance

LEMMA ResidentFrame ==
  ASSUME TypeInv, ResidentInv, UNCHANGED gen, loaded' \subseteq loaded,
         \A x \in Instances : weights[x] \subseteq weights'[x],
         pc = "rebind" => pc' = "rebind" /\ watch' = watch,
         swallowed => swallowed', SwapOut /\ "whisper" \in loaded' => SwapOut' \/ swallowed'
  PROVE  ResidentInv'
<1> SUFFICES ASSUME NEW m \in loaded' PROVE ResidentOK(m)'
  BY DEF ResidentInv
<1>1. Live(Owner[m])' = Live(Owner[m]) /\ Live(Owner[m]) \in Instances
  BY HomeIsInstance DEF Live, TypeInv, TypeOK
<1>2. ResidentOK(m)
  BY DEF ResidentInv
<1> QED BY <1>1, <1>2 DEF ResidentOK

LEMMA SwapStays == ASSUME UNCHANGED <<gen, task>> PROVE SwapOut => SwapOut'
BY DEF SwapOut, Live

LEMMA NoSwapOut ==
  ASSUME TaskInv, task.pc \notin {"swap", "done"} PROVE ~SwapOut
BY DEF TaskInv, TaskShape, SwapOut

LEMMA ResidentStep ==
  ASSUME TypeInv, TypeInv', QueueShape, TaskInv, CallInv, MoveInv, RecoveryInv, RaisedInv,
     ResidentInv,
     [Next]_vars
  PROVE  ResidentInv'
<1>0. CASE UNCHANGED vars
  BY <1>0, SwapStays, ResidentFrame DEF vars, procVars, residentVars, workerVars
<1>1. CASE TakeRequest
  <2>1. ~SwapOut
    BY <1>1, NoSwapOut DEF TakeRequest, TaskInv, Serving
  <2> QED BY <1>1, <2>1, ResidentFrame DEF TakeRequest, procVars, residentVars, workerVars
<1>2. CASE OtherEvicts
  BY <1>2, ResidentFrame, SwapStays DEF OtherEvicts, procVars, residentVars, workerVars
<1>3. CASE EnterAdmission
  BY <1>3, ResidentFrame, SwapStays DEF EnterAdmission, procVars, residentVars, workerVars
<1>4. CASE LoadRequired
  <2>1. ~SwapOut
    BY <1>4, NoSwapOut DEF LoadRequired, TaskInv, Serving
  <2> QED BY <1>4, <2>1, ResidentFrame DEF LoadRequired, procVars, residentVars, workerVars
<1>5. CASE GrantLease
  <2>1. ~SwapOut
    BY <1>5, NoSwapOut DEF GrantLease, TaskInv, Serving
  <2> QED BY <1>5, <2>1, ResidentFrame DEF GrantLease, procVars, residentVars, workerVars
<1>6. CASE TaskReturns
  <2>1. ~SwapOut
    BY <1>6 DEF TaskReturns, SwapOut, RaisedInv, Replacing
  <2> QED BY <1>6, <2>1, ResidentFrame DEF TaskReturns, Release, procVars
<1>7. CASE SwapErrorRaised
  <2>1. SwapOut'
    BY <1>7 DEF SwapErrorRaised, SwapOut, TypeInv, TaskType
  <2> QED BY <1>7, <2>1, ResidentFrame DEF SwapErrorRaised, procVars, residentVars
<1>8. CASE TimesOut
  BY <1>8, ResidentFrame, SwapStays DEF TimesOut, procVars, residentVars, workerVars
<1>9. CASE CheckIdle
  BY <1>9, ResidentFrame, SwapStays DEF CheckIdle, procVars, residentVars, workerVars
<1>10. CASE IdleWaitEnds
  BY <1>10, ResidentFrame, SwapStays DEF IdleWaitEnds, procVars, residentVars, workerVars,
     WaitReturns
<1>11. CASE EnterBarrier
  BY <1>11, ResidentFrame, SwapStays DEF EnterBarrier, procVars, residentVars, workerVars
<1>12. CASE ShutdownSignals
  BY <1>12, ResidentFrame, SwapStays DEF ShutdownSignals, procVars, residentVars, workerVars
<1>13. CASE ShutdownCloses
  BY <1>13, ResidentFrame, SwapStays DEF ShutdownCloses, procVars, residentVars, workerVars
<1>14. CASE Drained
  <2> DEFINE y == Live(watch)
  <2>1. /\ y \in Instances /\ weights' = [weights EXCEPT ![y] = {}] /\ pc' = "rebind"
        /\ UNCHANGED <<gen, loaded, watch, task, swallowed>> /\ pc = "drain"
    BY <1>14, LiveIsInstance DEF Drained, residentVars, TypeInv, TypeOK
  <2>2. \A x \in Instances : x # y => weights'[x] = weights[x]
    BY <2>1 DEF TypeInv, TypeOK
  <2> SUFFICES ASSUME NEW m \in loaded PROVE ResidentOK(m)'
    BY <2>1 DEF ResidentInv
  <2>3. m \in Models /\ Live(Owner[m]) \in Instances /\ Live(Owner[m])' = Live(Owner[m])
    BY <2>1, HomeIsInstance DEF Live, TypeInv, TypeOK
  <2>4. Live(Owner[m]) = y => Owner[m] = watch
    BY DEF Live
  <2>5. ResidentOK(m)
    BY DEF ResidentInv
  <2> HIDE DEF y
  <2> QED BY <2>1, <2>2, <2>3, <2>4, <2>5, SwapStays DEF ResidentOK
<1>15. CASE DrainTimesOut
  <2> DEFINE y == Live(watch)
  <2>1. /\ y \in Instances /\ exec[y] # <<>> /\ pc' = "rebind" /\ pc = "drain"
        /\ UNCHANGED <<gen, weights, loaded, watch, swallowed>>
        /\ task' = IF \E job \in Range(Pending(y)) : Awaits(job)
                   THEN [task EXCEPT !.outcome = "dropped"] ELSE task
    BY <1>15, LiveIsInstance DEF DrainTimesOut, Leak, residentVars, TypeInv, TypeOK
  <2>2. y[1] = watch /\ Live("whisper")[1] = "whisper"
    BY DEF Live
  <2> HIDE DEF y
  <2>3. watch # "whisper" /\ SwapOut => SwapOut'
    <3>1. CASE task' = task
      BY <2>1, <3>1, SwapStays
    <3>2. CASE \E job \in Range(Pending(y)) : Awaits(job)
      <4>1. PICK k \in DOMAIN exec[y] : Awaits(exec[y][k])
        BY <2>1, <3>2, PendingPlaces
      <4>2. IsCurrent(exec[y][k])
        BY <4>1 DEF IsCurrent, IsCall, Awaits, TaskInv
      <4>3. y = task.at
        BY <2>1, <4>2 DEF CallInv, CallOK, IsCurrent, AwaitedAt
      <4>4. task.outcome = "none"
        BY <4>1 DEF Awaits
      <4> QED BY <2>2, <4>3, <4>4 DEF SwapOut
    <3> QED BY <2>1, <3>1, <3>2
  <2> SUFFICES ASSUME NEW m \in loaded PROVE ResidentOK(m)'
    BY <2>1 DEF ResidentInv
  <2>4. m \in Models /\ Live(Owner[m])' = Live(Owner[m]) /\ Owner["whisper"] = "whisper"
    BY <2>1 DEF Live, Owner, TypeInv, TypeOK
  <2>5. ResidentOK(m)
    BY DEF ResidentInv
  <2> QED BY <2>1, <2>3, <2>4, <2>5 DEF ResidentOK
<1>16. CASE Rebind
  <2>1. /\ watch \in Processors /\ gen' = [gen EXCEPT ![watch] = @ + 1]
        /\ loaded' = loaded \ Residents(watch) /\ UNCHANGED <<weights, task, swallowed>>
    BY <1>16 DEF Rebind, ResetResidents, TypeInv, TypeOK
  <2> SUFFICES ASSUME NEW m \in loaded' PROVE ResidentOK(m)'
    BY DEF ResidentInv
  <2>2. m \in loaded /\ m \in Models /\ Owner[m] # watch
    BY <2>1 DEF Residents, TypeInv, TypeOK
  <2>3. Live(Owner[m])' = Live(Owner[m])
    BY <2>1, <2>2, Names DEF Live, TypeInv, TypeOK
  <2>4. m = "whisper" => Owner[m] = "whisper"
    BY DEF Owner
  <2>5. m = "whisper" /\ SwapOut => SwapOut'
    BY <2>1, <2>3, <2>4 DEF SwapOut
  <2>6. ResidentOK(m)
    BY <2>2 DEF ResidentInv
  <2> QED BY <2>1, <2>2, <2>3, <2>5, <2>6 DEF ResidentOK
<1>17. CASE Discard
  <2>1. SwapOut => task.outcome = "swapError"
    <3>1. ~OnWhisper
      BY <1>17 DEF Discard, RecoveryInv, WhisperKnown
    <3> QED BY <1>17, <3>1 DEF Discard, OnWhisper, Operating, SwapOut
  <2>2. swallowed => swallowed'
    BY <1>17 DEF Discard
  <2>3. SwapOut /\ "whisper" \in loaded' => swallowed'
    BY <1>17, <2>1 DEF Discard, residentVars
  <2> QED BY <1>17, <2>2, <2>3, ResidentFrame DEF Discard, residentVars
<1>18. CASE TaskStarts
  <2>1. ~SwapOut
    BY <1>18, NoSwapOut DEF TaskStarts, TaskInv, Serving
  <2> QED BY <1>18, <2>1, ResidentFrame DEF TaskStarts, procVars, residentVars, workerVars
<1>19. CASE SwapReturns
  <2>1. SwapOut => SwapOut'
    <3>1. CASE task.outcome = "ok"
      BY <1>19, <3>1 DEF SwapReturns, SwapOut
    <3>2. CASE Finish(task.outcome)
      <4>1. task'.outcome = task.outcome
        BY <3>2 DEF Finish, TypeInv, TaskType
      <4> QED BY <1>19, <4>1 DEF SwapReturns, SwapOut
    <3> QED BY <1>19, <3>1, <3>2 DEF SwapReturns
  <2> QED BY <1>19, <2>1, ResidentFrame DEF SwapReturns, residentVars
<1>20. CASE CallModel
  <2>1. ~SwapOut
    BY <1>20, NoSwapOut DEF CallModel, TaskInv, Serving
  <2> QED BY <1>20, <2>1, ResidentFrame DEF CallModel, procVars, residentVars, workerVars
<1>21. CASE ModelReturns
  <2>1. ~SwapOut
    BY <1>21, NoSwapOut DEF ModelReturns, TaskInv, Serving
  <2> QED BY <1>21, <2>1, ResidentFrame DEF ModelReturns, procVars, residentVars, workerVars
<1>22. CASE StageEnds
  <2>1. ~SwapOut
    BY <1>22, NoSwapOut DEF StageEnds, TaskInv, Serving
  <2> QED BY <1>22, <2>1, ResidentFrame DEF StageEnds, procVars, residentVars, workerVars
<1>23. CASE ClientGone
  BY <1>23, ResidentFrame, SwapStays DEF ClientGone, procVars, residentVars, workerVars
<1>24. ASSUME NEW x \in Instances, CallBegins(x) PROVE ResidentInv'
  <2>1. exec[x] # <<>> /\ Head(exec[x]) = exec[x][1]
    BY <1>24, HeadJob DEF CallBegins
  <2>2. CASE exec[x][1].kind = "infer" /\ Deliver(Head(exec[x]), "error") /\ weights' = weights
    <3>1. CASE Awaits(exec[x][1])
      <4>1. task.pc = "run"
        BY <2>1, <2>2, <3>1, Delivery DEF Awaits
      <4> QED BY <1>24, <2>2, <4>1, NoSwapOut, ResidentFrame DEF CallBegins, residentVars,
     workerVars
    <3>2. CASE ~Awaits(exec[x][1])
      <4>1. task' = task
        BY <2>1, <2>2, <3>2 DEF Deliver
      <4> QED BY <1>24, <2>2, <4>1, SwapStays, ResidentFrame DEF CallBegins, residentVars,
     workerVars
    <3> QED BY <3>1, <3>2
  <2>3. CASE task' = task /\ Head(exec[x]).kind # "swap"
    BY <1>24, <2>3, SwapStays, ResidentFrame
    DEF CallBegins, residentVars, workerVars, TypeInv, TypeOK
  <2>4. CASE /\ task' = task /\ exec[x][1].kind = "swap"
             /\ weights' = [weights EXCEPT ![x] = @ \ {exec[x][1].model}]
    <3>1. task.pc = "swap" /\ task.outcome = "none" /\ x = task.at /\ exec[x][1].model = "whisper"
      BY <1>24, <2>1, <2>4, SwapRunsAlone DEF CallBegins
    <3>2. /\ UNCHANGED <<gen, loaded, pc, watch, swallowed>>
          /\ weights' = [weights EXCEPT ![x] = @ \ {"whisper"}]
      BY <1>24, <2>1, <2>4, <3>1 DEF CallBegins, residentVars, workerVars
    <3> SUFFICES ASSUME NEW m \in loaded PROVE ResidentOK(m)'
      BY <3>2 DEF ResidentInv
    <3>3. Live(Owner[m])' = Live(Owner[m]) /\ Live(Owner[m]) \in Instances
      BY <3>2, HomeIsInstance DEF Live, TypeInv, TypeOK
    <3>4. ResidentOK(m)
      BY DEF ResidentInv
    <3>5. CASE m = "whisper" /\ x = Live("whisper")
      <4>1. SwapOut'
        BY <2>4, <3>1, <3>2, <3>5 DEF SwapOut, Live
      <4> QED BY <3>5, <4>1 DEF ResidentOK
    <3>6. CASE m # "whisper" \/ x # Live("whisper")
      <4>1. m = "whisper" => Owner[m] = "whisper"
        BY DEF Owner
      <4>2. m \in weights[Live(Owner[m])] => m \in weights'[Live(Owner[m])]
        BY <3>2, <3>3, <3>6, <4>1 DEF TypeInv, TypeOK
      <4> QED BY <2>4, <3>2, <3>3, <3>4, <4>2, SwapStays DEF ResidentOK
    <3> QED BY <3>5, <3>6
  <2> QED BY <1>24, <2>1, <2>2, <2>3, <2>4 DEF CallBegins
<1>25. ASSUME NEW x \in Instances, SwapEnds(x) PROVE ResidentInv'
  <2>1. exec[x] # <<>> /\ Head(exec[x]) = exec[x][1] /\ exec[x][1].kind = "swap"
    BY <1>25, HeadJob DEF SwapEnds, Running, QueueShape
  <2>2. /\ UNCHANGED <<gen, loaded, pc, watch, swallowed>>
        /\ \A y \in Instances : weights[y] \subseteq weights'[y]
    BY <1>25 DEF SwapEnds, residentVars, workerVars, TypeInv, TypeOK
  <2>3. CASE ~Awaits(exec[x][1])
    <3>1. task' = task
      BY <1>25, <2>1, <2>3 DEF SwapEnds, Deliver
    <3> QED BY <2>2, <3>1, SwapStays, ResidentFrame
  <2>4. CASE Awaits(exec[x][1]) /\ Deliver(Head(exec[x]), "swapError")
    <3>1. task'.outcome = "swapError"
      BY <2>1, <2>4 DEF Deliver, TypeInv, TaskType
    <3>2. SwapOut'
      BY <3>1 DEF SwapOut
    <3> QED BY <2>2, <3>2, ResidentFrame
  <2>5. CASE Awaits(exec[x][1]) /\ weights' = [weights EXCEPT ![x] = @ \cup {"whisper"}]
    <3>1. x = task.at /\ task.pc = "swap" /\ task.outcome = "none"
      BY <2>1, <2>5, Delivery DEF Awaits
    <3>2. SwapOut => "whisper" \in weights'[Live("whisper")]
      BY <2>5, <3>1 DEF SwapOut, TypeInv, TypeOK
    <3> SUFFICES ASSUME NEW m \in loaded PROVE ResidentOK(m)'
      BY <2>2 DEF ResidentInv
    <3>3. Live(Owner[m])' = Live(Owner[m]) /\ Live(Owner[m]) \in Instances
      BY <2>2, HomeIsInstance DEF Live, TypeInv, TypeOK
    <3>4. m = "whisper" => Owner[m] = "whisper"
      BY DEF Owner
    <3>5. ResidentOK(m)
      BY DEF ResidentInv
    <3> QED BY <2>2, <3>2, <3>3, <3>4, <3>5 DEF ResidentOK
  <2> QED BY <1>25, <2>3, <2>4, <2>5 DEF SwapEnds
<1>26. ASSUME NEW x \in Instances, LoadEnds(x) PROVE ResidentInv'
  <2> DEFINE n == exec[x][1].model
  <2>1. /\ exec[x] # <<>> /\ Head(exec[x]) = exec[x][1] /\ MoveOK(x, exec[x][1])
        /\ exec[x][1].kind = "load"
    BY <1>26, HeadMoveOK DEF LoadEnds
  <2>2. x = Live(Owner[n]) /\ pc = "loading"
    BY <2>1 DEF MoveOK, IsMove
  <2>3. /\ UNCHANGED <<gen, task, swallowed>>
        /\ \/ weights' = [weights EXCEPT ![x] = @ \cup {n}] /\ loaded' = loaded \cup {n}
           \/ UNCHANGED <<weights, loaded>>
    BY <1>26, <2>1 DEF LoadEnds
  <2> HIDE DEF n
  <2>4. \A y \in Instances : weights[y] \subseteq weights'[y]
    BY <2>3 DEF TypeInv, TypeOK
  <2>5. n \in loaded' /\ n \notin loaded => n \in weights'[x]
    BY <2>3 DEF TypeInv, TypeOK
  <2> SUFFICES ASSUME NEW m \in loaded' PROVE ResidentOK(m)'
    BY DEF ResidentInv
  <2>6. Live(Owner[m])' = Live(Owner[m])
    BY <2>3 DEF Live
  <2>7. CASE m \in loaded
    <3>1. ResidentOK(m) /\ Live(Owner[m]) \in Instances
      BY <2>7, HomeIsInstance DEF ResidentInv, TypeInv, TypeOK
    <3> QED BY <2>2, <2>3, <2>4, <2>6, <3>1, SwapStays DEF ResidentOK
  <2>8. CASE m \notin loaded
    <3>1. m = n
      BY <2>3, <2>8
    <3> QED BY <2>2, <2>5, <2>6, <2>8, <3>1 DEF ResidentOK
  <2> QED BY <2>7, <2>8
<1>27. ASSUME NEW x \in Instances, UnloadEnds(x) PROVE ResidentInv'
  <2> DEFINE n == exec[x][1].model
  <2>1. /\ weights' = [weights EXCEPT ![x] = @ \ {n}] /\ loaded' = loaded \ {n}
        /\ UNCHANGED <<gen, task, swallowed, pc, watch>>
    BY <1>27, HeadMoveOK DEF UnloadEnds, workerVars
  <2> HIDE DEF n
  <2> SUFFICES ASSUME NEW m \in loaded, m # n PROVE ResidentOK(m)'
    BY <2>1 DEF ResidentInv
  <2>2. Live(Owner[m])' = Live(Owner[m]) /\ Live(Owner[m]) \in Instances
    BY <2>1, HomeIsInstance DEF Live, TypeInv, TypeOK
  <2>3. ResidentOK(m)
    BY DEF ResidentInv
  <2>4. m \in weights[Live(Owner[m])] => m \in weights'[Live(Owner[m])]
    BY <2>1, <2>2 DEF TypeInv, TypeOK
  <2> QED BY <2>1, <2>2, <2>3, <2>4, SwapStays DEF ResidentOK
<1>28. ASSUME NEW x \in Instances, InferenceEnds(x) PROVE ResidentInv'
  <2>1. exec[x] # <<>> /\ Head(exec[x]) = exec[x][1] /\ exec[x][1].kind = "infer"
    BY <1>28, HeadJob DEF InferenceEnds, Running, QueueShape
  <2>2. CASE Awaits(exec[x][1])
    <3>1. task.pc = "run"
      BY <2>1, <2>2, Delivery DEF Awaits
    <3> QED BY <1>28, <3>1, NoSwapOut, ResidentFrame DEF InferenceEnds, residentVars, workerVars
  <2>3. CASE ~Awaits(exec[x][1])
    <3>1. task' = task
      BY <1>28, <2>1, <2>3 DEF InferenceEnds, Deliver
    <3> QED BY <1>28, <3>1, SwapStays, ResidentFrame DEF InferenceEnds, residentVars, workerVars
  <2> QED BY <2>2, <2>3
<1>29. CASE SwapRecovered
  <2>1. "whisper" \notin loaded
    BY <1>29 DEF SwapRecovered, RaisedInv, Replacing
  <2> QED BY <1>29, <2>1, ResidentFrame DEF SwapRecovered, Release, procVars
<1>30. CASE Synchronized
  <2>1. ~SwapOut
    BY <1>30, NoSwapOut DEF Synchronized, TaskInv, Serving
  <2> QED BY <1>30, <2>1, ResidentFrame DEF Synchronized, Release, procVars
<1> QED
  BY <1>0, <1>1, <1>2, <1>3, <1>4, <1>5, <1>6, <1>7, <1>8, <1>9, <1>10, <1>11,
     <1>12, <1>13, <1>14, <1>15, <1>16, <1>17, <1>18, <1>19, <1>20, <1>21, <1>22, <1>23,
     <1>24, <1>25, <1>26, <1>27, <1>28, <1>29, <1>30
  DEF Next, WorkerStep, TaskStep, CallEnds
-----------------------------------------------------------------------------
(* The invariant is inductive *)

LEMMA InitInv == ASSUME Init PROVE IInv
<1>1. TypeInv
  <2>1. \A p \in Processors : <<p, 0>> \in Instances
    BY RequestAssumption DEF Instances
  <2>2. exec \in [Instances -> Seq(Job)] /\ weights \in [Instances -> SUBSET Models]
    <3>1. <<>> \in Seq(Job)
      OBVIOUS
    <3>2. \A x \in Instances :
              (IF x[2] = 0 THEN {m \in loaded : Owner[m] = x[1]} ELSE {}) \in SUBSET Models
      BY DEF Init
    <3> QED BY <3>1, <3>2 DEF Init
  <2>3. /\ gen \in [Processors -> 0..MaxRequests] /\ req \in 0..MaxRequests
        /\ flag \in [Instances -> {AnyRequest} \cup 0..MaxRequests]
    BY RequestAssumption DEF Init, None
  <2> QED BY <2>2, <2>3, FirstInstance DEF Init, TypeInv, TypeOK, TaskType
<1>2. /\ task.pc = "none" /\ task.outcome = "none" /\ task.todo = <<>> /\ task.at = <<"whisper", 0>>
      /\ ~Operating /\ pc = "idle" /\ req = 0 /\ \A p \in Processors : gen[p] = 0
      /\ \A x \in Instances : exec[x] = <<>> /\ ~busy[x] /\ ~processing[x] /\ down[x] = "up"
  BY DEF Init, NoTask, Operating
<1>3. ShapeInv /\ GenInv
  BY <1>2 DEF ShapeInv, ClosedShape, GenInv, Unlocking, Replacing
<1>4. TaskInv
  BY <1>2, FirstInstance DEF TaskInv, TaskShape, Serving
<1>5. CallInv /\ MoveInv /\ WeightInv
  BY <1>2 DEF CallInv, MoveInv, WeightInv, CallsHaveWeights, StageHasWeights
<1>6. LeaseInv /\ RecoveryInv /\ RaisedInv
  BY <1>2 DEF LeaseInv, RecoveryInv, RaisedInv, WhisperKnown, Replacing, Serving
<1>7. ResidentInv
  <2> SUFFICES ASSUME NEW m \in loaded PROVE m \in weights[Live(Owner[m])]
    BY DEF ResidentInv, ResidentOK
  <2>1. m \in Models /\ Owner[m] \in Processors
    BY <1>1, Names DEF TypeInv, TypeOK
  <2>2. Live(Owner[m]) = <<Owner[m], 0>> /\ <<Owner[m], 0>> \in Instances
    BY <1>1, <1>2, <2>1, LiveIsInstance DEF Live
  <2> QED BY <2>1, <2>2 DEF Init
<1> QED BY <1>1, <1>3, <1>4, <1>5, <1>6, <1>7 DEF IInv

LEMMA Inductive == IInv /\ [Next]_vars => IInv'
<1> SUFFICES ASSUME IInv, [Next]_vars PROVE IInv'
  OBVIOUS
<1>1. /\ TypeInv /\ ShapeInv /\ GenInv /\ TaskInv /\ CallInv /\ MoveInv /\ LeaseInv /\ WeightInv
      /\ RecoveryInv /\ RaisedInv /\ ResidentInv
  BY DEF IInv
<1>2. QueueShape /\ LockShape /\ ClosedShape /\ CallsHaveWeights /\ StageHasWeights
  BY <1>1 DEF ShapeInv, QueueShape, LockShape, WeightInv
<1>3. TypeInv'
  BY <1>1, TypeStep
<1>4. ShapeInv' /\ GenInv'
  BY <1>1, <1>2, ShapeStep, GenStep
<1>5. TaskInv'
  BY <1>1, <1>2, TaskInvStep
<1>6. CallInv'
  BY <1>1, <1>2, <1>3, CallStep
<1>7. MoveInv'
  BY <1>1, <1>2, <1>3, MoveStep
<1>8. LeaseInv' /\ RecoveryInv' /\ RaisedInv'
  BY <1>1, <1>2, <1>5, LeaseStep, RecoveryStep, RaisedStep
<1>9. WeightInv'
  BY <1>1, <1>2, <1>3, CallsStep, StageStep DEF WeightInv
<1>10. ResidentInv'
  BY <1>1, <1>2, <1>3, ResidentStep
<1> QED BY <1>3, <1>4, <1>5, <1>6, <1>7, <1>8, <1>9, <1>10 DEF IInv

LEMMA Invariant == Spec => []IInv
<1>1. Init => IInv
  BY InitInv
<1> QED BY <1>1, Inductive, PTL DEF Spec
-----------------------------------------------------------------------------
(* The theorems *)

\* Types, and that an audio worker's variables stay in their ranges
\* (worker.py:228-330).
THEOREM TypeCorrect == Spec => []TypeOK
<1>1. IInv => TypeOK
  BY DEF IInv, TypeInv
<1> QED BY <1>1, Invariant, PTL

\* InferenceHasWeights: no weights are freed under a GPU call, neither by an
\* eviction nor by the shutdown of a stuck processor (base_processor.py:154-158).
THEOREM NoWeightsFreedUnderCall == Spec => []InferenceHasWeights
<1>1. ASSUME IInv, NEW x \in Instances, Running(x, "infer")
      PROVE  Head(exec[x]).model \in weights[x]
  <2>1. exec[x] # <<>> /\ TypeInv /\ CallsHaveWeights
    BY <1>1 DEF IInv, ShapeInv, WeightInv, Running
  <2>2. Head(exec[x]) = exec[x][1] /\ 1 \in DOMAIN exec[x]
    BY <2>1 DEF TypeInv, TypeOK
  <2> QED BY <1>1, <2>1, <2>2 DEF CallsHaveWeights, HasWeights, Running
<1>2. IInv => InferenceHasWeights
  BY <1>1 DEF InferenceHasWeights
<1> QED BY <1>2, Invariant, PTL

\* WhisperEndsUnderLease: the whisper in service never runs for a request whose
\* lease is gone: the recovery sees it idle, or replaces it (worker.py:281).
THEOREM WhisperIsLeased == Spec => []WhisperEndsUnderLease
<1>1. ASSUME IInv, Running(Live("whisper"), "infer")
      PROVE  pc \in Leased /\ Head(exec[Live("whisper")]).req = req
  <2>1. PICK x : x = Live("whisper")
    OBVIOUS
  <2>2. TypeInv /\ CallInv /\ x \in Instances /\ exec[x] # <<>>
    BY <1>1, <2>1, FirstInstance, LiveIsInstance DEF IInv, ShapeInv, Running
  <2>3. Head(exec[x]) = exec[x][1] /\ 1 \in DOMAIN exec[x] /\ exec[x][1].kind = "infer"
    BY <1>1, <2>1, <2>2 DEF TypeInv, TypeOK, Running
  <2>4. IsCurrent(exec[x][1])
    BY <2>1, <2>2, <2>3 DEF CallInv, CallOK, IsCall
  <2> QED BY <2>1, <2>3, <2>4 DEF IsCurrent, Serving, Leased
<1>2. IInv => WhisperEndsUnderLease
  BY <1>1 DEF WhisperEndsUnderLease, InferenceUnderLease
<1> QED BY <1>2, Invariant, PTL

\* OnlySwallowedSwapBreaksLease: what the lease promises is there when the
\* request starts (worker.py:308), unless a failed swap's error was discarded.
THEOREM LeasedModelsArePresent == Spec => []OnlySwallowedSwapBreaksLease
<1>1. ASSUME IInv, task.pc = "start", NEW m \in Required
      PROVE  m \in weights[Live(Owner[m])] \/ (m = "whisper" /\ swallowed)
  <2>1. m \in loaded
    BY <1>1 DEF IInv, LeaseInv
  <2>2. pc # "rebind" /\ ~SwapOut
    BY <1>1 DEF IInv, RecoveryInv, TaskInv, TaskShape, SwapOut
  <2> QED BY <1>1, <2>1, <2>2 DEF IInv, ResidentInv, ResidentOK
<1>2. IInv => OnlySwallowedSwapBreaksLease
  BY <1>1 DEF OnlySwallowedSwapBreaksLease
<1> QED BY <1>2, Invariant, PTL
=============================================================================
