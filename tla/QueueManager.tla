---------------------------- MODULE QueueManager ----------------------------
(***************************************************************************)
(* One request queue (queue_manager.py) between the message handlers that  *)
(* enqueue, cancel and complete requests and the one worker that takes     *)
(* them.  The heap holds entries; _requests finds the entry of a request   *)
(* id; the _not_empty event wakes the worker.  Everything runs under one   *)
(* asyncio.Lock and awaits nothing there, except that enqueue may await    *)
(* the client's progress message: `sending` is the entry whose enqueue     *)
(* still holds the lock.  get_position reads only; clear has no caller;    *)
(* update_websocket changes only the websocket: module VideoWorker has it. *)
(* Nothing keeps a client from giving a request an id that is in use.      *)
(***************************************************************************)
EXTENDS Integers, Sequences, FiniteSets

CONSTANTS
    Ids,           \* request ids
    MaxEnqueues,   \* bound: how many requests arrive
    MaxSize,       \* max_size
    Priorities,    \* the priorities clients give
    Pendings,      \* the values of pending_data the caller passes
    SlowSend       \* TRUE: the caller passes a progress callback

ASSUME QueueAssumption ==
    /\ MaxEnqueues \in Nat /\ MaxSize \in Nat
    /\ Priorities \subseteq Int
    /\ Pendings \subseteq BOOLEAN /\ SlowSend \in BOOLEAN

VARIABLES
    entry,      \* every QueuedRequest made, in order of arrival
    heap,       \* _queue: the entries it holds
    requests,   \* _requests: the entry found under an id, or None
    notEmpty,   \* _not_empty.is_set()
    sending,    \* the entry whose enqueue awaits its callback, or None
    current,    \* the entry the worker serves, or None while it waits
    handed,     \* history: the entries dequeue returned
    aged        \* entries 1..aged have waited longer than request_timeout

vars == <<entry, heap, requests, notEmpty, sending, current, handed, aged>>

None == 0

\* again is history: when the request arrived, the heap held an entry of its id.
QueuedRequest ==
    [id : Ids, priority : Priorities, pending : BOOLEAN,
     cancelled : BOOLEAN, timeoutExpired : BOOLEAN, again : BOOLEAN]

\* The order of sort_key: higher priority first, then time of arrival.
Ahead(o, p) ==
    \/ entry[o].priority > entry[p].priority
    \/ entry[o].priority = entry[p].priority /\ o <= p

Live == {o \in heap : ~entry[o].cancelled}

\* Mutated form: the order of arrival alone.
IsOldest(o) == o \in Live /\ \A p \in Live : o <= p
\* Mutated form: does not look whether the entry was cancelled.
IsFirstOrCancelled(o) == o \in heap /\ \A p \in heap : Ahead(o, p)

\* The entry dequeue stops at: those it pops before it are cancelled.
IsFirst(o) == o \in Live /\ \A p \in Live : Ahead(o, p)

CancelledAheadOf(o) == {p \in heap \ Live : Ahead(p, o)}

\* Mutated form: the lookup keeps what dequeue pops.
ForgetNothing(S) == UNCHANGED requests

\* dequeue pops from the lookup the ids of the entries it takes off the heap.
Forget(S) ==
    requests' = [i \in Ids |-> IF \E o \in S : entry[o].id = i THEN None ELSE requests[i]]

LockFree == sending = None

OnHeap(i) == \E o \in heap : entry[o].id = i
-----------------------------------------------------------------------------
(* Operations of the message handlers *)

\* enqueue() when the heap has room.  A full heap, cancelled entries
\* included, rejects the request and changes nothing.
Enqueue(i, priority, pending) ==
    /\ LockFree /\ Len(entry) < MaxEnqueues /\ Cardinality(heap) < MaxSize
    /\ entry' = Append(entry, [id |-> i, priority |-> priority, pending |-> pending,
                               cancelled |-> FALSE, timeoutExpired |-> FALSE,
                               again |-> OnHeap(i)])
    /\ sending' = IF SlowSend /\ ~pending THEN Len(entry') ELSE None
    /\ heap' = heap \cup {Len(entry')}
    /\ requests' = [requests EXCEPT ![i] = Len(entry')]
    /\ notEmpty' = TRUE
    /\ UNCHANGED <<current, handed, aged>>

\* The awaited progress message went out, or its client is gone.
SendReturns ==
    /\ ~LockFree
    /\ sending' = None
    /\ UNCHANGED <<entry, heap, requests, notEmpty, current, handed, aged>>

\* Mutated form: does not signal the worker again.
MarkDataReadySilently(i) ==
    /\ LockFree /\ requests[i] # None
    /\ entry' = [entry EXCEPT ![requests[i]].pending = FALSE]
    /\ UNCHANGED <<heap, requests, notEmpty, sending, current, handed, aged>>

MarkDataReady(i) ==
    /\ LockFree /\ requests[i] # None
    /\ entry' = [entry EXCEPT ![requests[i]].pending = FALSE]
    /\ notEmpty' = TRUE
    /\ UNCHANGED <<heap, requests, sending, current, handed, aged>>

\* The heap keeps the cancelled entry until dequeue comes across it.
Cancel(i) ==
    /\ LockFree /\ requests[i] # None
    /\ entry' = [entry EXCEPT ![requests[i]].cancelled = TRUE]
    /\ requests' = [requests EXCEPT ![i] = None]
    /\ UNCHANGED <<heap, notEmpty, sending, current, handed, aged>>

\* request_timeout has now passed since one more entry was queued.
Age ==
    /\ aged < Len(entry)
    /\ aged' = aged + 1
    /\ UNCHANGED <<entry, heap, requests, notEmpty, sending, current, handed>>
-----------------------------------------------------------------------------
(* The worker: wait_for_request, whose dequeue pops entry after entry *)

WorkerWakes == LockFree /\ current = None /\ notEmpty

\* Nothing live is queued: every entry is dropped, the worker waits again.
DequeueNothing ==
    /\ WorkerWakes /\ Live = {}
    /\ Forget(heap)
    /\ heap' = {}
    /\ notEmpty' = FALSE
    /\ UNCHANGED <<entry, sending, current, handed, aged>>

\* The first live entry still waits for its data: it is put back, and the
\* worker waits again although others may stand behind it.
DequeuePending ==
    /\ WorkerWakes
    /\ \E o \in heap :
        /\ IsFirst(o) /\ entry[o].pending
        /\ Forget(CancelledAheadOf(o))
        /\ heap' = heap \ CancelledAheadOf(o)
    /\ notEmpty' = FALSE
    /\ UNCHANGED <<entry, sending, current, handed, aged>>

\* Mutated form: clears the event whatever the heap still holds.
SignalNever == notEmpty' = FALSE

SignalRest == notEmpty' = (heap' # {})

\* The first live entry goes to the worker, marked when it waited too long.
Dequeue ==
    /\ WorkerWakes
    /\ \E o \in heap :
        /\ IsFirst(o) /\ ~entry[o].pending
        /\ Forget(CancelledAheadOf(o) \cup {o})
        /\ heap' = heap \ (CancelledAheadOf(o) \cup {o})
        /\ current' = o
        /\ handed' = handed \cup {o}
        /\ entry' = [entry EXCEPT ![o].timeoutExpired = o <= aged,
                                  ![o].cancelled = @ \/ o <= aged]
    /\ SignalRest
    /\ UNCHANGED <<sending, aged>>

\* The worker is done with the request, however it ended.
WorkerDone ==
    /\ current # None
    /\ current' = None
    /\ UNCHANGED <<entry, heap, requests, notEmpty, sending, handed, aged>>
-----------------------------------------------------------------------------
Init ==
    /\ entry = <<>> /\ heap = {}
    /\ requests = [i \in Ids |-> None]
    /\ notEmpty = FALSE
    /\ sending = None /\ current = None
    /\ handed = {} /\ aged = 0

WorkerStep == DequeueNothing \/ DequeuePending \/ Dequeue \/ WorkerDone

Next ==
    \/ \E i \in Ids, p \in Priorities, d \in Pendings : Enqueue(i, p, d)
    \/ \E i \in Ids : Cancel(i)
    \/ TRUE \in Pendings /\ \E i \in Ids : MarkDataReady(i)
    \/ SendReturns \/ Age
    \/ WorkerStep

Spec == Init /\ [][Next]_vars

\* The worker's loop runs whenever it can, a request it serves ends at the
\* latest with its processing timeout, and a client reads what it is sent.
FairSpec == Spec /\ WF_vars(WorkerStep) /\ WF_vars(SendReturns)
-----------------------------------------------------------------------------
(* Properties *)

TypeOK ==
    /\ entry \in Seq(QueuedRequest)
    /\ heap \subseteq DOMAIN entry
    /\ requests \in [Ids -> DOMAIN entry \cup {None}]
    /\ notEmpty \in BOOLEAN
    /\ sending \in DOMAIN entry \cup {None}
    /\ current \in DOMAIN entry \cup {None}
    /\ handed \subseteq DOMAIN entry
    /\ aged \in 0..Len(entry)

\* The lookup never finds an entry that left the heap or another request's; it
\* loses a live request only to a client that asked again under the id before
\* dequeue had met the entry it had, cancelled or not: that request, or a later
\* one (queue_manager.py:183 "Clean up from _requests if somehow still there").
LookupLostOnlyByReuse ==
    /\ \A i \in Ids :
        requests[i] # None => requests[i] \in Live /\ entry[requests[i]].id = i
    /\ \A o \in Live :
        \/ requests[entry[o].id] = o
        \/ \E p \in o..Len(entry) : entry[p].id = entry[o].id /\ entry[p].again

\* A request whose cancellation was confirmed never reaches the worker, and one
\* the worker has cannot be cancelled behind its back; the entries handed over
\* as cancelled are those that expired (queue_manager.py:197-208).
CancelledNeverServed ==
    /\ handed \cap heap = {}
    /\ \A o \in handed : entry[o].cancelled <=> entry[o].timeoutExpired

\* The worker sleeps only while the first live request cannot be served
\* (queue_manager.py:229 "Blocks until a request is available").
FirstIsSignalled ==
    \A o \in heap : IsFirst(o) /\ ~entry[o].pending => notEmpty

\* The one way to sleep beside a first request that could be served is that the
\* pending request ahead of it, at which dequeue cleared the event, was
\* cancelled since; completing an upload never loses the worker's signal.
SleepsBehindCancelledOnly ==
    \A o \in heap :
        IsFirst(o) /\ ~entry[o].pending /\ ~notEmpty
            => \E p \in CancelledAheadOf(o) : entry[p].pending

\* Every queued request leaves the queue, served, expired or cancelled, when
\* finitely many others arrive, unless a request that waits for its data stays
\* in the queue: where none does, as in the audio and LLM queues, every request
\* leaves.  Clients read what they are sent: enqueue sends under the lock.
EveryRequestLeaves ==
    \A o \in 1..MaxEnqueues :
        (o \in heap) ~> (o \notin heap \/ \E p \in heap : entry[p].pending)

\* Live requests leave in the promised order, at most once, and only the
\* worker's taking is bound to it; what is cancelled is dropped.
Promise ==
    INSTANCE RequestQueue WITH
        priority <- [o \in DOMAIN entry |-> entry[o].priority],
        waiting  <- Live,
        taken    <- handed

KeepsQueueOrder == Promise!Spec
=============================================================================
