---------------------------- MODULE VramArbiter ----------------------------
(***************************************************************************)
(* The VRAM arbiter (orchestrator/vram_arbiter.py) together with the       *)
(* residency flags it drives on every model (orchestrator/                 *)
(* resident_model.py).  Jobs are coroutines of one event loop: between two *)
(* awaits a job runs alone, which `running` expresses, while the models'   *)
(* executor threads finish loads and unloads at any moment.                *)
(*                                                                         *)
(* A job's acquire() walks through pc:                                     *)
(*   idle      no acquire; the worker is between requests                  *)
(*   top       about to run the top of the `while True` loop               *)
(*   lockWait  queued on the admission lock (an asyncio.Lock, FIFO)        *)
(*   keys      runs _try_admit, about to hold the next required model      *)
(*   evict     runs the last loop of _make_room                            *)
(*   unloading awaits the unload of a victim                               *)
(*   loading   awaits the load of a required model                         *)
(*   parking   called wait_for, whose inner task has not started yet       *)
(*   parked    waits for the release event                                 *)
(*   leased    holds its GpuLease                                          *)
(*   barrierWait, barrier   leased, and recovering under the barrier       *)
(***************************************************************************)
EXTENDS VramBudget, EvictionPolicy, FiniteSets

CONSTANTS
    Registry,        \* the registered models, a sequence in registration order
    Size,            \* Size[m]: estimated_vram_bytes of model m
    Jobs,            \* the workers, each of which runs one acquire at a time
    Needs,           \* Needs[j]: the WorkloadNeeds job j may ask for
    Handles,         \* Handles[j]: the resident sets job j's recovery recreates
    Total,           \* the card's memory
    Headroom,        \* headroom_bytes
    ForeignUse,      \* what other processes may use when the probe is read
    NoJob            \* no coroutine, no owner

Models == Range(Registry)

NeedType == [models : Seq(Models), transient : Nat]

ASSUME RegistryAssumption ==
    /\ Registry \in Seq(Models)
    /\ \A i, k \in DOMAIN Registry : Registry[i] = Registry[k] => i = k
    /\ IsFiniteSet(Models)

ASSUME CardAssumption ==
    /\ Size \in [Models -> Nat]
    /\ Total \in Nat /\ Headroom \in Nat
    /\ ForeignUse \subseteq Nat /\ ForeignUse # {}

\* Required models are distinct: _try_admit drops repeated keys first.
ASSUME JobAssumption ==
    /\ IsFiniteSet(Jobs) /\ NoJob \notin Jobs \cup Models
    /\ \A j \in Jobs : Needs[j] \subseteq NeedType
    /\ \A j \in Jobs : \A n \in Needs[j] :
          \A i, k \in DOMAIN n.models : n.models[i] = n.models[k] => i = k
    /\ \A j \in Jobs : Handles[j] \subseteq SUBSET Models

\* A processor's models are asked for by the one worker that recreates it.
ASSUME HandleAssumption ==
    \A j, k \in Jobs : \A H \in Handles[j] : \A n \in Needs[k] :
        j # k => H \cap Range(n.models) = {}

VARIABLES
    pc,         \* where each job stands
    need,       \* the need of each job's acquire or lease
    keys,       \* the required models the attempt has not held yet
    held,       \* the models the attempt or the lease holds
    rebound,    \* history: the models recreated under the job's lease
    expired,    \* the acquire's deadline has passed
    force,      \* the attempt runs with force=True, read at the loop's top
    loaded,     \* ResidentModel._loaded
    opCount,    \* ResidentModel._op_count
    evicting,   \* ResidentModel._evicting
    lastUsed,   \* the rank of _RegistryEntry.last_used
    transient,  \* _transient_reserved
    event,      \* _release_event.is_set()
    lock,       \* who owns _admission_lock
    waiters,    \* who waits for it, first come first served
    running,    \* the coroutine the event loop is running, between two awaits
    reserved,   \* this _make_room pass reserved these and has not handled them
    victims,    \* those of `reserved` the policy chose
    goal,       \* what room is made for: "load", "retry" or "transient"
    io,         \* the executor's answer to the awaited load or unload
    missed,     \* history: jobs whose release event another attempt cleared
    stranded    \* history: models a pass left reserved when an unload raised

jobVars == <<pc, need, keys, held, rebound, expired, force>>
modelVars == <<loaded, opCount, evicting, lastUsed>>
passVars == <<reserved, victims, goal, io>>
historyVars == <<missed, stranded>>
vars == <<jobVars, modelVars, transient, event, lock, waiters, running, passVars, historyVars>>

NoNeed == [models |-> <<>>, transient |-> 0]

Acquiring == {"top", "lockWait", "keys", "evict", "unloading", "loading", "parking", "parked"}
Admitting == {"keys", "evict", "unloading", "loading"}
Leased == {"leased", "barrierWait", "barrier"}
-----------------------------------------------------------------------------
(* Queries *)

Protected(j) == Range(need[j].models)

Position(m) == CHOOSE i \in DOMAIN Registry : Registry[i] = m

\* LRU order; models of equal age stay in registration order.
Older(m, n) ==
    \/ lastUsed[m] < lastUsed[n]
    \/ lastUsed[m] = lastUsed[n] /\ Position(m) < Position(n)

OlderAmong(S) == [m \in S |-> {n \in S : Older(n, m)}]

ResidentBytes == SumFunctionOnSet(Size, {m \in Models : loaded[m]})

\* One probe reading: the driver's free memory less what foreign processes use.
Budget(foreign) ==
    [total |-> Total,
     free |-> ClampAtZero(Total - ResidentBytes - transient - foreign),
     resident |-> ResidentBytes,
     reservedTransient |-> transient,
     headroom |-> Headroom]

\* Mutated form: a busy model may be reserved too.
EvictableEvenIfBusy(j) ==
    {m \in Models \ Protected(j) : loaded[m] /\ ~evicting[m]}
\* Mutated form: forgets the protect set.
EvictableUnprotected(j) ==
    {m \in Models : loaded[m] /\ opCount[m] = 0 /\ ~evicting[m]}

\* Loaded, unprotected, and reservable by try_reserve_for_eviction.
Evictable(j) ==
    {m \in Models \ Protected(j) : loaded[m] /\ opCount[m] = 0 /\ ~evicting[m]}

HasHeldEvictable(j) ==
    \E m \in Models \ Protected(j) : loaded[m] /\ opCount[m] > 0

\* m is the first of S in registration order.
FirstRegistered(m, S) == m \in S /\ \A n \in S : Position(m) <= Position(n)

\* lastUsed' when the models of K are used now and are the latest of all.
Touched(K) ==
    [m \in Models |->
        IF m \in K
        THEN Cardinality(Models)
        ELSE Cardinality({lastUsed[n] : n \in {x \in Models \ K : lastUsed[x] < lastUsed[m]}})]
-----------------------------------------------------------------------------
(* Shared effects.  Each primes exactly the variables its name speaks of. *)

\* asyncio.Lock.release hands the lock to the first waiter.
ReleaseLock ==
    IF waiters = <<>>
    THEN lock' = NoJob /\ waiters' = <<>>
    ELSE lock' = Head(waiters) /\ waiters' = Tail(waiters)

\* Mutated form: without the guard against going below zero.
EndOperationsUnclamped(S) ==
    opCount' = [m \in Models |-> IF m \in S THEN opCount[m] - 1 ELSE opCount[m]]

\* end_operation on each of S, never below zero.
EndOperations(S) ==
    opCount' = [m \in Models |-> IF m \in S /\ opCount[m] > 0 THEN opCount[m] - 1 ELSE opCount[m]]

\* Mutated form: forgets to end the holds of a failed or blocked attempt.
RollBackNothing(j) ==
    /\ UNCHANGED opCount
    /\ held' = [held EXCEPT ![j] = {}]
    /\ keys' = [keys EXCEPT ![j] = <<>>]

RollBack(j) ==
    /\ EndOperations(held[j])
    /\ held' = [held EXCEPT ![j] = {}]
    /\ keys' = [keys EXCEPT ![j] = <<>>]

EnterKeys(j) ==
    /\ pc' = [pc EXCEPT ![j] = "keys"]
    /\ keys' = [keys EXCEPT ![j] = need[j].models]
    /\ running' = j

\* The pass is over: nothing stays reserved in its name.
EndPass ==
    /\ reserved' = {}
    /\ victims' = {}
    /\ goal' = "none"
    /\ io' = "none"

\* The attempt raises: roll back, leave the lock, and acquire() raises too.
\* Models of `reserved` keep their evicting flag: nothing cancels them.
Raise(j) ==
    /\ RollBack(j)
    /\ ReleaseLock
    /\ EndPass
    /\ stranded' = stranded \cup {m \in reserved : evicting'[m]}
    /\ pc' = [pc EXCEPT ![j] = "idle"]
    /\ need' = [need EXCEPT ![j] = NoNeed]
    /\ expired' = [expired EXCEPT ![j] = FALSE]
    /\ force' = [force EXCEPT ![j] = FALSE]
    /\ running' = NoJob
    /\ UNCHANGED <<rebound, loaded, lastUsed, transient, event, missed>>

(***************************************************************************)
(* The start of _make_room: return early when the bytes fit, else reserve  *)
(* every evictable model and let the policy choose among them.  The loop   *)
(* over the reserved ones follows in EvictNext and RoomMade.               *)
(***************************************************************************)
MakeRoom(j, bytes, aggressive, why) ==
    \E foreign \in ForeignUse :
        LET budget    == Budget(foreign)
            enough    == ~aggressive /\ CanFit(budget, bytes)
            shortfall == IF aggressive THEN Total ELSE Shortfall(budget, bytes)
            taken     == IF enough THEN {} ELSE Evictable(j)
        IN  /\ reserved' = taken
            /\ victims' = Victims(taken, Size, shortfall, OlderAmong(taken))
            /\ evicting' = [m \in Models |-> evicting[m] \/ m \in taken]
            /\ goal' = why
            /\ io' = "none"
            /\ pc' = [pc EXCEPT ![j] = "evict"]
            /\ running' = j
-----------------------------------------------------------------------------
(* The acquire() loop *)

\* A worker calls acquire(); its deadline starts now.
Acquire(j) ==
    /\ running = NoJob /\ pc[j] = "idle"
    /\ \E n \in Needs[j] : need' = [need EXCEPT ![j] = n]
    /\ pc' = [pc EXCEPT ![j] = "top"]
    /\ UNCHANGED <<keys, held, rebound, expired, force, modelVars, transient, event,
                   lock, waiters, running, passVars, historyVars>>

\* busy_wait_seconds have passed since the acquire began.  The clock is read
\* only where pc is one of these, so it may as well pass only there.
DeadlinePasses(j) ==
    /\ pc[j] \in {"top", "evict", "parking", "parked"} /\ ~expired[j]
    /\ expired' = [expired EXCEPT ![j] = TRUE]
    /\ UNCHANGED <<pc, need, keys, held, rebound, force, modelVars, transient, event,
                   lock, waiters, running, passVars, historyVars>>

\* The loop's top: clear the event, sample the deadline, ask for the lock.  A
\* job that has yet to begin its wait will not find the event set.
BeginAttempt(j) ==
    /\ running \in {NoJob, j} /\ pc[j] = "top"
    /\ event' = FALSE
    /\ missed' = (missed \ {j}) \cup {k \in Jobs : event /\ pc[k] = "parking"}
    /\ force' = [force EXCEPT ![j] = expired[j]]
    /\ IF lock = NoJob
       THEN /\ lock' = j /\ waiters' = waiters
            /\ EnterKeys(j)
       ELSE /\ lock' = lock /\ waiters' = Append(waiters, j)
            /\ pc' = [pc EXCEPT ![j] = "lockWait"]
            /\ keys' = keys /\ running' = NoJob
    /\ UNCHANGED <<need, held, rebound, expired, modelVars, transient, passVars, stranded>>

\* The lock was handed to this job and the event loop resumes it.
GetLock(j) ==
    /\ running = NoJob /\ pc[j] = "lockWait" /\ lock = j
    /\ EnterKeys(j)
    /\ UNCHANGED <<need, held, rebound, expired, force, modelVars, transient, event,
                   lock, waiters, passVars, historyVars>>

(***************************************************************************)
(* The attempt returns None: roll back, leave the lock and wait for a      *)
(* release, unless the deadline has passed meanwhile (`continue`).         *)
(***************************************************************************)
Block(j) ==
    /\ RollBack(j)
    /\ ReleaseLock
    /\ EndPass
    /\ pc' = [pc EXCEPT ![j] = IF expired[j] THEN "top" ELSE "parking"]
    /\ running' = IF expired[j] THEN j ELSE NoJob
    /\ UNCHANGED <<need, rebound, expired, force, loaded, lastUsed, transient, event, historyVars>>

\* wait_for's inner task starts, one turn of the event loop later (up to Python
\* 3.11; the deployment runs 3.10).
Park(j) ==
    /\ running = NoJob /\ pc[j] = "parking"
    /\ pc' = [pc EXCEPT ![j] = IF event THEN "top" ELSE "parked"]
    /\ UNCHANGED <<need, keys, held, rebound, expired, force, modelVars, transient, event,
                   lock, waiters, running, passVars, historyVars>>

\* Mutated form: a wait without a timeout.
WaitForever(j) == FALSE /\ pc[j] = "parked" /\ UNCHANGED vars

\* asyncio.TimeoutError: the next attempt is forced.
WaitTimesOut(j) ==
    /\ running = NoJob /\ pc[j] \in {"parking", "parked"} /\ expired[j]
    /\ pc' = [pc EXCEPT ![j] = "top"]
    /\ UNCHANGED <<need, keys, held, rebound, expired, force, modelVars, transient, event,
                   lock, waiters, running, passVars, historyVars>>
-----------------------------------------------------------------------------
(* _try_admit *)

\* begin_operation on a required model that is loaded.
HoldKey(j) ==
    /\ running = j /\ pc[j] = "keys" /\ keys[j] # <<>>
    /\ LET m == Head(keys[j])
       IN  /\ loaded[m]
           /\ IF evicting[m]
              THEN evicting' = evicting /\ Raise(j)
              ELSE /\ opCount' = [opCount EXCEPT ![m] = @ + 1]
                   /\ held' = [held EXCEPT ![j] = @ \cup {m}]
                   /\ keys' = [keys EXCEPT ![j] = Tail(@)]
                   /\ UNCHANGED <<pc, need, rebound, expired, force, loaded, evicting, lastUsed,
                                  transient, event, lock, waiters, running, passVars, historyVars>>

MakeRoomForKey(j) ==
    /\ running = j /\ pc[j] = "keys" /\ keys[j] # <<>> /\ ~loaded[Head(keys[j])]
    /\ MakeRoom(j, Size[Head(keys[j])], force[j], "load")
    /\ UNCHANGED <<need, keys, held, rebound, expired, force, loaded, opCount, lastUsed,
                   transient, event, lock, waiters, historyVars>>

MakeRoomForTransient(j) ==
    /\ running = j /\ pc[j] = "keys" /\ keys[j] = <<>> /\ need[j].transient > 0
    /\ MakeRoom(j, need[j].transient, force[j], "transient")
    /\ UNCHANGED <<need, keys, held, rebound, expired, force, loaded, opCount, lastUsed,
                   transient, event, lock, waiters, historyVars>>

\* Everything is held: reserve the bytes, stamp last_used, hand out the lease.
Grant(j, bytes) ==
    /\ transient' = transient + bytes
    /\ lastUsed' = Touched(Protected(j))
    /\ pc' = [pc EXCEPT ![j] = "leased"]
    /\ running' = NoJob
    /\ ReleaseLock
    /\ EndPass

GrantWithoutTransient(j) ==
    /\ running = j /\ pc[j] = "keys" /\ keys[j] = <<>> /\ need[j].transient = 0
    /\ Grant(j, 0)
    /\ UNCHANGED <<need, keys, held, rebound, expired, force, loaded, opCount, evicting, event,
                   historyVars>>
-----------------------------------------------------------------------------
(* _make_room's loop over the reserved models, in registration order *)

\* Cancel the reservations before the next victim, and await its unload.
EvictNext(j) ==
    /\ running = j /\ pc[j] = "evict"
    /\ \E v \in victims :
        LET passed == {m \in reserved : Position(m) < Position(v)}
        IN  /\ FirstRegistered(v, victims)
            /\ reserved' = reserved \ passed
            /\ evicting' = [m \in Models |-> evicting[m] /\ m \notin passed]
    /\ io' = "busy"
    /\ pc' = [pc EXCEPT ![j] = "unloading"]
    /\ running' = NoJob
    /\ UNCHANGED <<need, keys, held, rebound, expired, force, loaded, opCount, lastUsed,
                   transient, event, lock, waiters, victims, goal, historyVars>>

\* The victim's executor thread ends the unload callable.
ExecutorUnloads(j) ==
    /\ pc[j] = "unloading" /\ io = "busy"
    /\ \/ /\ \E v \in victims :
              FirstRegistered(v, victims) /\ loaded' = [loaded EXCEPT ![v] = FALSE]
          /\ io' = "ok"
       \/ io' = "error" /\ loaded' = loaded
    /\ UNCHANGED <<jobVars, opCount, evicting, lastUsed, transient, event, lock, waiters,
                   running, reserved, victims, goal, historyVars>>

\* unload() returns, or raises through _make_room; either way its `finally`
\* clears the victim's flag.
UnloadReturns(j) ==
    /\ running = NoJob /\ pc[j] = "unloading" /\ io \in {"ok", "error"}
    /\ \E v \in victims :
        /\ FirstRegistered(v, victims)
        /\ evicting' = [evicting EXCEPT ![v] = FALSE]
        /\ \/ /\ io = "ok"
              /\ reserved' = reserved \ {v} /\ victims' = victims \ {v}
              /\ io' = "none" /\ goal' = goal
              /\ pc' = [pc EXCEPT ![j] = "evict"]
              /\ running' = j
              /\ UNCHANGED <<need, keys, held, rebound, expired, force, loaded, opCount,
                             lastUsed, transient, event, lock, waiters, historyVars>>
           \/ /\ io = "error"
              /\ Raise(j)

\* Mutated form: the reservations of spared models are left standing.
CancelNothing == UNCHANGED evicting

\* The loop's tail: every reservation that is not a victim's is cancelled.
CancelReservations == evicting' = [m \in Models |-> evicting[m] /\ m \notin reserved]
-----------------------------------------------------------------------------
(* After _make_room: _prepare_load, _prepare_transient, _load_with_oom_retry *)

Wanted(j) == IF goal = "transient" THEN need[j].transient ELSE Size[Head(keys[j])]

\* It fits, is forced, or no held model stands in the way.
MayProceed(j, foreign) ==
    \/ goal = "retry" \/ force[j]
    \/ CanFit(Budget(foreign), Wanted(j))
    \/ ~HasHeldEvictable(j)

RoomMade(j) == running = j /\ pc[j] = "evict" /\ victims = {}

LoadKey(j) ==
    /\ RoomMade(j) /\ goal \in {"load", "retry"}
    /\ \E foreign \in ForeignUse : MayProceed(j, foreign)
    /\ CancelReservations
    /\ reserved' = {} /\ victims' = {} /\ goal' = goal
    /\ io' = "busy"
    /\ pc' = [pc EXCEPT ![j] = "loading"]
    /\ running' = NoJob
    /\ UNCHANGED <<need, keys, held, rebound, expired, force, loaded, opCount, lastUsed,
                   transient, event, lock, waiters, historyVars>>

GrantWithTransient(j) ==
    /\ RoomMade(j) /\ goal = "transient"
    /\ \E foreign \in ForeignUse : MayProceed(j, foreign)
    /\ CancelReservations
    /\ Grant(j, need[j].transient)
    /\ UNCHANGED <<need, keys, held, rebound, expired, force, loaded, opCount, event, historyVars>>

BlockOnHeld(j) ==
    /\ RoomMade(j)
    /\ \E foreign \in ForeignUse : ~MayProceed(j, foreign)
    /\ CancelReservations
    /\ Block(j)

\* The model's executor thread ends the load callable.
ExecutorLoads(j) ==
    /\ pc[j] = "loading" /\ io = "busy"
    /\ \/ /\ loaded' = [loaded EXCEPT ![Head(keys[j])] = TRUE]
          /\ io' = "ok"
       \/ /\ io' \in {"oom", "error"}
          /\ loaded' = loaded
    /\ UNCHANGED <<jobVars, opCount, evicting, lastUsed, transient, event, lock, waiters,
                   running, reserved, victims, goal, historyVars>>

\* load() returned; begin_operation follows in HoldKey before any await.
LoadReturns(j) ==
    /\ running = NoJob /\ pc[j] = "loading" /\ io = "ok"
    /\ pc' = [pc EXCEPT ![j] = "keys"]
    /\ running' = j
    /\ EndPass
    /\ UNCHANGED <<need, keys, held, rebound, expired, force, modelVars, transient, event,
                   lock, waiters, historyVars>>

\* The first load ran out of memory: evict everything evictable, load again.
LoadRetries(j) ==
    /\ running = NoJob /\ pc[j] = "loading" /\ io = "oom" /\ goal = "load"
    /\ MakeRoom(j, Size[Head(keys[j])], TRUE, "retry")
    /\ UNCHANGED <<need, keys, held, rebound, expired, force, loaded, opCount, lastUsed,
                   transient, event, lock, waiters, historyVars>>

LoadFails(j) ==
    /\ running = NoJob /\ pc[j] = "loading"
    /\ io = "error" \/ (io = "oom" /\ goal = "retry")
    /\ UNCHANGED evicting
    /\ Raise(j)
-----------------------------------------------------------------------------
(* The lease *)

\* Mutated form: a release that wakes nobody.
ReleaseSilently(j) ==
    /\ running = NoJob /\ pc[j] = "leased"
    /\ EndOperations(held[j])
    /\ transient' = ClampAtZero(transient - need[j].transient)
    /\ pc' = [pc EXCEPT ![j] = "idle"]
    /\ need' = [need EXCEPT ![j] = NoNeed]
    /\ held' = [held EXCEPT ![j] = {}]
    /\ rebound' = [rebound EXCEPT ![j] = {}]
    /\ expired' = [expired EXCEPT ![j] = FALSE]
    /\ force' = [force EXCEPT ![j] = FALSE]
    /\ UNCHANGED <<keys, loaded, evicting, lastUsed, event, lock, waiters, running, passVars,
                   historyVars>>

\* Mutated form: the transient reservation is leaked.
ReleaseHoldsOnly(j) ==
    /\ running = NoJob /\ pc[j] = "leased"
    /\ EndOperations(held[j])
    /\ transient' = transient
    /\ event' = TRUE
    /\ pc' = [k \in Jobs |-> IF k = j THEN "idle" ELSE IF pc[k] = "parked" THEN "top" ELSE pc[k]]
    /\ need' = [need EXCEPT ![j] = NoNeed]
    /\ held' = [held EXCEPT ![j] = {}]
    /\ rebound' = [rebound EXCEPT ![j] = {}]
    /\ expired' = [expired EXCEPT ![j] = FALSE]
    /\ force' = [force EXCEPT ![j] = FALSE]
    /\ UNCHANGED <<keys, loaded, evicting, lastUsed, lock, waiters, running, passVars, historyVars>>

\* GpuLease.release: end the holds, free the transient, wake every waiter.
Release(j) ==
    /\ running = NoJob /\ pc[j] = "leased"
    /\ EndOperations(held[j])
    /\ transient' = ClampAtZero(transient - need[j].transient)
    /\ event' = TRUE
    /\ pc' = [k \in Jobs |-> IF k = j THEN "idle" ELSE IF pc[k] = "parked" THEN "top" ELSE pc[k]]
    /\ need' = [need EXCEPT ![j] = NoNeed]
    /\ held' = [held EXCEPT ![j] = {}]
    /\ rebound' = [rebound EXCEPT ![j] = {}]
    /\ expired' = [expired EXCEPT ![j] = FALSE]
    /\ force' = [force EXCEPT ![j] = FALSE]
    /\ UNCHANGED <<keys, loaded, evicting, lastUsed, lock, waiters, running, passVars, historyVars>>
-----------------------------------------------------------------------------
(* Recovery: recreate a processor under admission_barrier, lease in hand *)

EnterBarrier(j) ==
    /\ running = NoJob /\ pc[j] = "leased" /\ Handles[j] # {}
    /\ IF lock = NoJob
       THEN lock' = j /\ waiters' = waiters /\ pc' = [pc EXCEPT ![j] = "barrier"]
       ELSE lock' = lock /\ waiters' = Append(waiters, j)
            /\ pc' = [pc EXCEPT ![j] = "barrierWait"]
    /\ UNCHANGED <<need, keys, held, rebound, expired, force, modelVars, transient, event,
                   running, passVars, historyVars>>

GetBarrier(j) ==
    /\ running = NoJob /\ pc[j] = "barrierWait" /\ lock = j
    /\ pc' = [pc EXCEPT ![j] = "barrier"]
    /\ UNCHANGED <<need, keys, held, rebound, expired, force, modelVars, transient, event,
                   lock, waiters, running, passVars, historyVars>>

\* recreate(): the old processor is shut down off the loop, and every resident
\* of the handle is rebound, which resets its flags.  The lease stays.
Rebind(j) ==
    /\ running = NoJob /\ pc[j] = "barrier"
    /\ \E H \in Handles[j] :
        /\ loaded' = [m \in Models |-> loaded[m] /\ m \notin H]
        /\ opCount' = [m \in Models |-> IF m \in H THEN 0 ELSE opCount[m]]
        /\ evicting' = [m \in Models |-> evicting[m] /\ m \notin H]
        /\ rebound' = [rebound EXCEPT ![j] = @ \cup (held[j] \cap H)]
        /\ stranded' = stranded \ H
    /\ ReleaseLock
    /\ pc' = [pc EXCEPT ![j] = "leased"]
    /\ UNCHANGED <<need, keys, held, expired, force, lastUsed, transient, event, running,
                   passVars, missed>>
-----------------------------------------------------------------------------
Init ==
    /\ pc = [j \in Jobs |-> "idle"]
    /\ need = [j \in Jobs |-> NoNeed]
    /\ keys = [j \in Jobs |-> <<>>]
    /\ held = [j \in Jobs |-> {}]
    /\ rebound = [j \in Jobs |-> {}]
    /\ expired = [j \in Jobs |-> FALSE]
    /\ force = [j \in Jobs |-> FALSE]
    /\ loaded = [m \in Models |-> FALSE]
    /\ opCount = [m \in Models |-> 0]
    /\ evicting = [m \in Models |-> FALSE]
    /\ lastUsed = [m \in Models |-> 0]
    /\ transient = 0
    /\ event = FALSE
    /\ lock = NoJob /\ waiters = <<>> /\ running = NoJob
    /\ reserved = {} /\ victims = {} /\ goal = "none" /\ io = "none"
    /\ missed = {} /\ stranded = {}

\* What the event loop runs on behalf of a job that is inside acquire().
AcquireStep(j) ==
    \/ BeginAttempt(j) \/ GetLock(j) \/ Park(j) \/ WaitTimesOut(j)
    \/ HoldKey(j) \/ MakeRoomForKey(j) \/ MakeRoomForTransient(j) \/ GrantWithoutTransient(j)
    \/ EvictNext(j) \/ UnloadReturns(j) \/ LoadKey(j) \/ GrantWithTransient(j)
    \/ BlockOnHeld(j) \/ LoadReturns(j) \/ LoadRetries(j) \/ LoadFails(j)

ExecutorStep(j) == ExecutorLoads(j) \/ ExecutorUnloads(j)

RecoveryStep(j) == GetBarrier(j) \/ Rebind(j)

Next ==
    \E j \in Jobs :
        \/ Acquire(j) \/ AcquireStep(j) \/ ExecutorStep(j) \/ DeadlinePasses(j)
        \/ Release(j) \/ EnterBarrier(j) \/ RecoveryStep(j)

Spec == Init /\ [][Next]_vars

\* asyncio runs every ready callback in turn, so a job that can run again and
\* again does run; executor threads finish; time passes, and a job that comes
\* back again and again to a point that reads the clock finds it past its
\* deadline.  Nothing makes a holder release its lease, nor a worker ask for
\* another one.
Fairness ==
    \A j \in Jobs :
        /\ SF_vars(AcquireStep(j))
        /\ SF_vars(RecoveryStep(j))
        /\ WF_vars(ExecutorStep(j))
        /\ SF_vars(DeadlinePasses(j))

FairSpec == Spec /\ Fairness
-----------------------------------------------------------------------------
(* Properties *)

TypeOK ==
    /\ pc \in [Jobs -> {"idle"} \cup Acquiring \cup Leased]
    /\ need \in [Jobs -> NeedType]
    /\ keys \in [Jobs -> Seq(Models)]
    /\ held \in [Jobs -> SUBSET Models]
    /\ rebound \in [Jobs -> SUBSET Models]
    /\ expired \in [Jobs -> BOOLEAN]
    /\ force \in [Jobs -> BOOLEAN]
    /\ loaded \in [Models -> BOOLEAN]
    /\ opCount \in [Models -> Nat]
    /\ evicting \in [Models -> BOOLEAN]
    /\ lastUsed \in [Models -> Nat]
    /\ transient \in Nat
    /\ event \in BOOLEAN
    /\ lock \in Jobs \cup {NoJob}
    /\ waiters \in Seq(Jobs)
    /\ running \in Jobs \cup {NoJob}
    /\ reserved \in SUBSET Models
    /\ victims \in SUBSET reserved
    /\ goal \in {"none", "load", "retry", "transient"}
    /\ io \in {"none", "busy", "ok", "oom", "error"}
    /\ missed \in SUBSET Jobs
    /\ stranded \in SUBSET Models

\* Who holds m: the attempts and leases that took it and saw no recreate since.
HoldersOf(m) == {j \in Jobs : m \in held[j] \ rebound[j]}

\* A model's hold count is exactly the number of leases and attempts that hold
\* it, through rollbacks, failed loads, blocked attempts and recreations: no
\* path leaks a hold (the model could never be evicted again) or drops one.
HoldAccounting == \A m \in Models : opCount[m] = Cardinality(HoldersOf(m))

\* While a job holds a model, the model is resident and nobody reserved it for
\* eviction, whatever other admissions evict meanwhile (F3/F8).
HeldStaysResident ==
    \A m \in Models : HoldersOf(m) # {} => loaded[m] /\ ~evicting[m]

\* An admission never evicts a model it needs itself, held already or not.
OwnModelsSpared ==
    \A j \in Jobs : pc[j] \in {"evict", "unloading"} => reserved \cap Protected(j) = {}

\* The transient bytes reserved are those of the outstanding leases: a blocked,
\* failed or released job leaves nothing behind.
TransientAccounting ==
    transient = SumFunctionOnSet([j \in Jobs |-> need[j].transient],
                                 {j \in Jobs : pc[j] \in Leased})

\* A model reserved for eviction belongs to the pass under way, so that once the
\* pass ends it is usable or evictable again (vram_arbiter.py:292 "Reservations
\* not chosen as victims are cancelled below").  Only a pass in which an unload
\* raises leaves models reserved, those it had not come to yet, until a recovery
\* recreates them: nothing there catches the exception (vram_arbiter.py:314).
NoStrandedReservation == \A m \in Models : evicting[m] => m \in reserved \cup stranded

\* A job that waits for a release waits beside a lease, whose release will wake
\* it, however the others are parked, blocked or failing: "no lost wakeup"
\* (vram_arbiter.py:143).  The claim is too strong by one case, which `missed`
\* names: another attempt clears the event between the failed attempt and its
\* wait, and the wakeup is lost, up to the deadline.
WaitsBesideLease ==
    \A j \in Jobs \ missed :
        (pc[j] = "parked" \/ (pc[j] = "parking" /\ ~event)) =>
            \E k \in Jobs : pc[k] \in Leased

\* An admission that could fit once the other leases are gone is not loading
\* over the budget beside them: it waits for a release instead
\* (vram_arbiter.py:126 "when the job cannot fit ONLY because the VRAM it needs
\* is currently HELD by another job's active lease, this WAITS for a release").
WaitsForHolders ==
    \A j \in Jobs :
        pc[j] = "loading" /\ io = "busy" /\ goal = "load" /\ ~force[j]
            => LET bytes    == Size[Head(keys[j])]
                   kept     == SumFunctionOnSet(Size, {m \in Protected(j) : loaded[m]})
                   othersIn == \E k \in Jobs \ {j} : pc[k] \in Leased
               IN  \/ CanFit(Budget(0), bytes)
                   \/ kept + bytes + Headroom > Total
                   \/ ~othersIn

\* Every acquire ends, with a lease or an error, even when no holder ever
\* releases: the deadline forces the last attempt
\* (vram_arbiter.py:85 "Bounds a stuck holder from wedging admission forever").
AcquireEnds == \A j \in Jobs : pc[j] \in Acquiring ~> pc[j] \notin Acquiring

\* The refinement mapping onto the promise: a lease covers what the job holds,
\* less what it recreated under the lease.
LeaseOf(j) == IF pc[j] \in Leased THEN held[j] \ rebound[j] ELSE {NoJob}

Leases == [j \in Jobs |-> LeaseOf(j)]
Resident == {m \in Models : loaded[m]}

Promise == INSTANCE GpuLeases WITH NoLease <- {NoJob}, lease <- Leases, resident <- Resident

\* Every step of the arbiter is a step of the promise, or none.
KeepsPromise == Promise!Spec
=============================================================================
