------------------------- MODULE QueueManagerProofs -------------------------
(***************************************************************************)
(* What the request queue keeps, for any number of requests, ids,          *)
(* priorities and sizes: its lookup and its heap, updated apart from each  *)
(* other, agree; a cancelled request is never served; and the worker's     *)
(* event is lost in one way only.                                          *)
(***************************************************************************)
EXTENDS QueueManager, TLAPS

\* The lookup finds live entries under their own ids.
LookupSound ==
    \A i \in Ids : requests[i] # None =>
        requests[i] \in heap /\ ~entry[requests[i]].cancelled /\ entry[requests[i]].id = i

\* Of two entries of one id on the heap, the later came when the other was there.
LaterCameAgain ==
    \A o, p \in heap : o < p /\ entry[o].id = entry[p].id => entry[p].again

IInv ==
    /\ TypeOK
    /\ LookupSound
    /\ LaterCameAgain
    /\ CancelledNeverServed
    /\ LookupLostOnlyByReuse

LEMMA InitIInv == Init => IInv
<1> SUFFICES ASSUME Init PROVE IInv
  OBVIOUS
<1>1. /\ entry = <<>> /\ heap = {} /\ handed = {} /\ aged = 0
      /\ requests = [i \in Ids |-> None] /\ sending = None /\ current = None
      /\ notEmpty = FALSE
  BY DEF Init
<1>2. entry \in Seq(QueuedRequest)
  BY <1>1
<1>3. Len(entry) = 0
  BY <1>1
<1>4. TypeOK
  <2>1. heap \subseteq DOMAIN entry /\ handed \subseteq DOMAIN entry
    BY <1>1
  <2>2. requests \in [Ids -> DOMAIN entry \cup {None}]
    BY <1>1
  <2>3. aged \in 0..Len(entry)
    BY <1>1, <1>3
  <2>4. sending \in DOMAIN entry \cup {None} /\ current \in DOMAIN entry \cup {None}
    BY <1>1
  <2>5. notEmpty \in BOOLEAN
    BY <1>1
  <2> QED
    BY <1>2, <2>1, <2>2, <2>3, <2>4, <2>5 DEF TypeOK
<1>5. LookupSound /\ LaterCameAgain /\ CancelledNeverServed /\ LookupLostOnlyByReuse
  BY <1>1 DEF LookupSound, LaterCameAgain, CancelledNeverServed, LookupLostOnlyByReuse, Live
<1> QED
  BY <1>4, <1>5 DEF IInv

\* The entry of a new request, and the older ones, which stay as they are.
LEMMA AppendedEntry ==
  ASSUME TypeOK, NEW e \in QueuedRequest, entry' = Append(entry, e)
  PROVE  /\ entry' \in Seq(QueuedRequest) /\ Len(entry') = Len(entry) + 1
         /\ DOMAIN entry' = DOMAIN entry \cup {Len(entry')}
         /\ Len(entry') \notin DOMAIN entry /\ Len(entry') # None
         /\ entry'[Len(entry')] = e
         /\ \A o \in DOMAIN entry : entry'[o] = entry[o] /\ o < Len(entry')
BY DEF TypeOK, None

LEMMA EnqueueIInv ==
  ASSUME IInv, NEW i \in Ids, NEW p \in Priorities, NEW d \in Pendings,
         Enqueue(i, p, d)
  PROVE  IInv'
<1> DEFINE e == [id |-> i, priority |-> p, pending |-> d,
                 cancelled |-> FALSE, timeoutExpired |-> FALSE, again |-> OnHeap(i)]
           n == Len(entry')
<1>1. TypeOK /\ LookupSound /\ LaterCameAgain /\ CancelledNeverServed /\ LookupLostOnlyByReuse
  BY DEF IInv
<1>2. e \in QueuedRequest
  BY QueueAssumption DEF QueuedRequest, OnHeap
<1>3. /\ entry' = Append(entry, e) /\ heap' = heap \cup {n}
      /\ requests' = [requests EXCEPT ![i] = n]
      /\ sending' \in {n, None} /\ notEmpty' = TRUE
      /\ UNCHANGED <<current, handed, aged>>
  BY DEF Enqueue
<1>4. /\ entry' \in Seq(QueuedRequest) /\ n = Len(entry) + 1
      /\ DOMAIN entry' = DOMAIN entry \cup {n} /\ n \notin DOMAIN entry /\ n # None
      /\ entry'[n] = e
      /\ \A o \in DOMAIN entry : entry'[o] = entry[o] /\ o < n
  BY <1>1, <1>2, <1>3, AppendedEntry
<1>5. TypeOK'
  BY <1>1, <1>3, <1>4 DEF TypeOK
<1>6. e.id = i /\ ~e.cancelled /\ \A o \in heap : entry[o].id = i => e.again
  BY DEF OnHeap
<1> HIDE DEF e
<1>7. heap \subseteq DOMAIN entry /\ handed \subseteq DOMAIN entry
      /\ requests \in [Ids -> DOMAIN entry \cup {None}]
  BY <1>1 DEF TypeOK
<1>8. LookupSound'
  BY <1>1, <1>3, <1>4, <1>6, <1>7 DEF LookupSound
<1>9. LaterCameAgain'
  <2> SUFFICES ASSUME NEW o \in heap', NEW q \in heap', o < q, entry'[o].id = entry'[q].id
               PROVE  entry'[q].again
    BY DEF LaterCameAgain
  <2>1. o \in heap /\ entry'[o] = entry[o]
    BY <1>3, <1>4, <1>7
  <2>2. CASE q = n
    BY <2>1, <2>2, <1>4, <1>6
  <2>3. CASE q # n
    BY <2>1, <2>3, <1>1, <1>3, <1>4, <1>7 DEF LaterCameAgain
  <2> QED
    BY <2>2, <2>3
<1>10. CancelledNeverServed'
  BY <1>1, <1>3, <1>4, <1>7 DEF CancelledNeverServed
<1>11. LookupLostOnlyByReuse'
  <2>1. \A j \in Ids : requests'[j] # None => requests'[j] \in Live' /\ entry'[requests'[j]].id = j
    BY <1>8 DEF LookupSound, Live
  <2>2. ASSUME NEW o \in Live'
        PROVE  \/ requests'[entry'[o].id] = o
               \/ \E q \in o..n : entry'[q].id = entry'[o].id /\ entry'[q].again
    <3>1. CASE o = n
      BY <3>1, <1>3, <1>4, <1>6, <1>7
    <3>2. CASE o # n
      <4>1. o \in Live /\ o \in heap /\ o \in DOMAIN entry /\ o < n /\ entry'[o] = entry[o]
        BY <3>2, <1>3, <1>4, <1>7 DEF Live
      <4>2. CASE entry[o].id = i
        <5>1. n \in o..n /\ entry'[n].id = entry'[o].id /\ entry'[n].again
          BY <4>1, <4>2, <1>3, <1>4, <1>6, <1>7 DEF OnHeap
        <5> QED
          BY <5>1
      <4>3. CASE entry[o].id # i /\ requests[entry[o].id] = o
        BY <4>1, <4>3, <1>3
      <4>4. CASE requests[entry[o].id] # o
        <5>1. PICK q \in o..Len(entry) : entry[q].id = entry[o].id /\ entry[q].again
          BY <4>1, <4>4, <1>1 DEF LookupLostOnlyByReuse
        <5>2. q \in DOMAIN entry /\ q \in o..n
          BY <5>1, <4>1, <1>1, <1>4 DEF TypeOK
        <5> QED
          BY <5>1, <5>2, <4>1, <1>4
      <4> QED
        BY <4>2, <4>3, <4>4
    <3> QED
      BY <3>1, <3>2
  <2> QED
    BY <2>1, <2>2 DEF LookupLostOnlyByReuse
<1> QED
  BY <1>5, <1>8, <1>9, <1>10, <1>11 DEF IInv

-----------------------------------------------------------------------------
(* All other steps only take entries off the heap and mark entries *)

\* What every step but an arrival does to the entries and to the heap.
OnlyMarks ==
    /\ DOMAIN entry' = DOMAIN entry
    /\ \A o \in DOMAIN entry :
        /\ entry'[o].id = entry[o].id /\ entry'[o].again = entry[o].again
        /\ entry[o].cancelled => entry'[o].cancelled
    /\ heap' \subseteq heap

\* A live request newly lost to the lookup has company of its id on the heap.
LEMMA MarksKeepLookup ==
  ASSUME IInv, OnlyMarks,
         \A o \in Live' :
            \/ requests'[entry[o].id] = requests[entry[o].id]
            \/ requests[entry[o].id] # o
            \/ \E q \in heap : q # o /\ entry[q].id = entry[o].id,
         LookupSound', TypeOK'
  PROVE  LaterCameAgain' /\ LookupLostOnlyByReuse'
<1>1. heap \subseteq DOMAIN entry /\ entry \in Seq(QueuedRequest) /\ Len(entry') = Len(entry)
  <2>1. heap \subseteq DOMAIN entry /\ entry \in Seq(QueuedRequest)
    BY DEF IInv, TypeOK
  <2>2. entry' \in Seq(QueuedRequest)
    BY DEF TypeOK
  <2> QED
    BY <2>1, <2>2 DEF OnlyMarks
<1>2. LaterCameAgain'
  BY <1>1 DEF IInv, OnlyMarks, LaterCameAgain
<1>3. ASSUME NEW o \in Live'
      PROVE  \/ requests'[entry'[o].id] = o
             \/ \E q \in o..Len(entry') : entry'[q].id = entry'[o].id /\ entry'[q].again
  <2>1. o \in Live /\ o \in heap /\ o \in DOMAIN entry /\ entry'[o].id = entry[o].id
    BY <1>1 DEF Live, OnlyMarks
  <2>2. \A q \in o..Len(entry) :
          /\ q \in DOMAIN entry
          /\ entry'[q].id = entry[q].id /\ entry'[q].again = entry[q].again
    BY <1>1, <2>1 DEF OnlyMarks
  <2>3. CASE requests[entry[o].id] # o
    <3>1. PICK q \in o..Len(entry) : entry[q].id = entry[o].id /\ entry[q].again
      BY <2>1, <2>3 DEF IInv, LookupLostOnlyByReuse
    <3> QED
      BY <3>1, <1>1, <2>1, <2>2
  <2>4. CASE requests[entry[o].id] = o /\ requests'[entry[o].id] = requests[entry[o].id]
    BY <2>1, <2>4
  <2>5. ASSUME NEW q \in heap, q # o, entry[q].id = entry[o].id
        PROVE  \E p \in o..Len(entry') : entry'[p].id = entry'[o].id /\ entry'[p].again
    <3>1. q \in 1..Len(entry) /\ o \in 1..Len(entry)
      BY <1>1, <2>1
    <3>2. CASE q < o
      <4>1. entry[o].again /\ o \in o..Len(entry)
        BY <3>1, <3>2, <2>1, <2>5 DEF IInv, LaterCameAgain
      <4> QED
        BY <4>1, <1>1, <2>1, <2>2
    <3>3. CASE o < q
      <4>1. entry[q].again /\ q \in o..Len(entry)
        BY <3>1, <3>3, <2>1, <2>5 DEF IInv, LaterCameAgain
      <4> QED
        BY <4>1, <1>1, <2>1, <2>2, <2>5
    <3> QED
      BY <3>1, <3>2, <3>3, <2>5
  <2> QED
    BY <2>3, <2>4, <2>5
<1> QED
  BY <1>2, <1>3 DEF LookupLostOnlyByReuse, LookupSound, Live

\* The fields of an entry.
LEMMA EntryFields ==
  ASSUME TypeOK, NEW o \in DOMAIN entry
  PROVE  entry[o] \in QueuedRequest /\ entry[o].id \in Ids /\ entry[o].priority \in Int
<1>1. entry[o] \in QueuedRequest
  BY DEF TypeOK
<1> QED
  BY <1>1, QueueAssumption DEF QueuedRequest

\* An entry changed in place keeps the type of the sequence and all the others.
LEMMA MarkedEntry ==
  ASSUME TypeOK, NEW q \in DOMAIN entry, NEW e \in QueuedRequest,
         entry' = [entry EXCEPT ![q] = e]
  PROVE  /\ entry' \in Seq(QueuedRequest) /\ Len(entry') = Len(entry)
         /\ DOMAIN entry' = DOMAIN entry
         /\ entry'[q] = e
         /\ \A o \in DOMAIN entry : o # q => entry'[o] = entry[o]
BY DEF TypeOK

\* What a mark changes in a request, and what it leaves.
LEMMA MarkedRequest ==
  ASSUME NEW r \in QueuedRequest, NEW b \in BOOLEAN
  PROVE  /\ [r EXCEPT !.pending = b] \in QueuedRequest
         /\ [r EXCEPT !.pending = b].id = r.id
         /\ [r EXCEPT !.pending = b].again = r.again
         /\ [r EXCEPT !.pending = b].priority = r.priority
         /\ [r EXCEPT !.pending = b].pending = b
         /\ [r EXCEPT !.pending = b].cancelled = r.cancelled
         /\ [r EXCEPT !.pending = b].timeoutExpired = r.timeoutExpired
         /\ [r EXCEPT !.cancelled = b] \in QueuedRequest
         /\ [r EXCEPT !.cancelled = b].id = r.id
         /\ [r EXCEPT !.cancelled = b].again = r.again
         /\ [r EXCEPT !.cancelled = b].priority = r.priority
         /\ [r EXCEPT !.cancelled = b].pending = r.pending
         /\ [r EXCEPT !.cancelled = b].cancelled = b
BY DEF QueuedRequest

LEMMA MarkDataReadyIInv ==
  ASSUME IInv, NEW i \in Ids, MarkDataReady(i)
  PROVE  IInv'
<1> DEFINE q == requests[i]
           e == [entry[q] EXCEPT !.pending = FALSE]
<1>1. q \in DOMAIN entry /\ q \in heap /\ heap \subseteq DOMAIN entry /\ TypeOK
  BY DEF IInv, TypeOK, LookupSound, MarkDataReady
<1>2. /\ entry[q] \in QueuedRequest
      /\ e \in QueuedRequest /\ e.id = entry[q].id /\ e.cancelled = entry[q].cancelled
      /\ e.timeoutExpired = entry[q].timeoutExpired /\ e.again = entry[q].again
  <2>1. entry[q] \in QueuedRequest
    BY <1>1 DEF TypeOK
  <2> QED
    BY <2>1, MarkedRequest
<1>3. /\ entry' = [entry EXCEPT ![q] = e]
      /\ notEmpty' = TRUE /\ UNCHANGED <<heap, requests, sending, current, handed, aged>>
  BY DEF MarkDataReady
<1>4. /\ entry' \in Seq(QueuedRequest) /\ Len(entry') = Len(entry)
      /\ DOMAIN entry' = DOMAIN entry /\ entry'[q] = e
      /\ \A o \in DOMAIN entry : o # q => entry'[o] = entry[o]
  BY <1>1, <1>2, <1>3, MarkedEntry
<1>5. TypeOK'
  BY <1>1, <1>3, <1>4 DEF TypeOK
<1>6. \A o \in DOMAIN entry : /\ entry'[o].id = entry[o].id
                              /\ entry'[o].cancelled = entry[o].cancelled
                              /\ entry'[o].timeoutExpired = entry[o].timeoutExpired
                              /\ entry'[o].again = entry[o].again
  BY <1>2, <1>4
<1>7. LookupSound'
  BY <1>1, <1>3, <1>6 DEF IInv, LookupSound
<1>8. OnlyMarks
  BY <1>3, <1>4, <1>6 DEF OnlyMarks
<1>9. LaterCameAgain' /\ LookupLostOnlyByReuse'
  BY <1>3, <1>5, <1>7, <1>8, MarksKeepLookup
<1>10. CancelledNeverServed'
  BY <1>1, <1>3, <1>6 DEF IInv, TypeOK, CancelledNeverServed
<1> QED
  BY <1>5, <1>7, <1>9, <1>10 DEF IInv

LEMMA CancelIInv ==
  ASSUME IInv, NEW i \in Ids, Cancel(i)
  PROVE  IInv'
<1> DEFINE q == requests[i]
           e == [entry[q] EXCEPT !.cancelled = TRUE]
<1>1. /\ q \in DOMAIN entry /\ q \in heap /\ heap \subseteq DOMAIN entry /\ TypeOK
      /\ entry[q].id = i
  BY DEF IInv, TypeOK, LookupSound, Cancel
<1>2. /\ entry[q] \in QueuedRequest /\ e \in QueuedRequest
      /\ e.id = entry[q].id /\ e.again = entry[q].again /\ e.cancelled
  <2>1. entry[q] \in QueuedRequest
    BY <1>1 DEF TypeOK
  <2> QED
    BY <2>1, MarkedRequest
<1>3. /\ entry' = [entry EXCEPT ![q] = e] /\ requests' = [requests EXCEPT ![i] = None]
      /\ UNCHANGED <<heap, notEmpty, sending, current, handed, aged>>
  BY DEF Cancel
<1>4. /\ entry' \in Seq(QueuedRequest) /\ Len(entry') = Len(entry)
      /\ DOMAIN entry' = DOMAIN entry /\ entry'[q] = e
      /\ \A o \in DOMAIN entry : o # q => entry'[o] = entry[o]
  BY <1>1, <1>2, <1>3, MarkedEntry
<1>5. TypeOK'
  BY <1>1, <1>3, <1>4 DEF TypeOK
<1>6. \A j \in Ids : requests'[j] # None => j # i /\ requests'[j] = requests[j]
  BY <1>1, <1>3 DEF TypeOK
<1>7. LookupSound'
  BY <1>1, <1>3, <1>4, <1>6 DEF IInv, LookupSound, TypeOK
<1>8. OnlyMarks
  BY <1>2, <1>3, <1>4 DEF OnlyMarks
<1>9. \A o \in Live' : requests'[entry[o].id] = requests[entry[o].id] \/ requests[entry[o].id] # o
  <2> SUFFICES ASSUME NEW o \in Live'
               PROVE  \/ requests'[entry[o].id] = requests[entry[o].id]
                      \/ requests[entry[o].id] # o
    OBVIOUS
  <2>1. o # q
    BY <1>1, <1>2, <1>3, <1>4 DEF Live
  <2> QED
    BY <2>1, <1>1, <1>3 DEF TypeOK
<1>10. LaterCameAgain' /\ LookupLostOnlyByReuse'
  BY <1>5, <1>7, <1>8, <1>9, MarksKeepLookup
<1>11. CancelledNeverServed'
  BY <1>1, <1>3, <1>4 DEF IInv, TypeOK, CancelledNeverServed
<1> QED
  BY <1>5, <1>7, <1>10, <1>11 DEF IInv

\* dequeue without an entry to hand over: what it pops is cancelled.
LEMMA PoppingIInv ==
  ASSUME IInv, NEW S \in SUBSET (heap \ Live), Forget(S), heap' = heap \ S,
         notEmpty' \in BOOLEAN, UNCHANGED <<entry, sending, current, handed, aged>>
  PROVE  IInv'
<1>1. /\ heap \subseteq DOMAIN entry /\ requests \in [Ids -> DOMAIN entry \cup {None}]
      /\ entry \in Seq(QueuedRequest) /\ TypeOK
      /\ S \subseteq heap /\ \A o \in S : entry[o].cancelled
  BY DEF IInv, TypeOK, Live
<1>2. requests' = [i \in Ids |-> IF \E o \in S : entry[o].id = i THEN None ELSE requests[i]]
  BY DEF Forget
<1>3. TypeOK'
  BY <1>1, <1>2 DEF TypeOK
<1>4. \A i \in Ids : requests'[i] # None =>
        requests'[i] = requests[i] /\ \A o \in S : entry[o].id # i
  BY <1>2
<1>5. LookupSound'
  BY <1>1, <1>4 DEF IInv, LookupSound
<1>6. OnlyMarks
  BY DEF OnlyMarks
<1>7. ASSUME NEW o \in Live'
      PROVE  \/ requests'[entry[o].id] = requests[entry[o].id]
             \/ \E q \in heap : q # o /\ entry[q].id = entry[o].id
  <2>1. o \in heap /\ o \in DOMAIN entry /\ ~entry[o].cancelled /\ entry[o].id \in Ids
    BY <1>1, EntryFields DEF Live
  <2>2. CASE \A q \in S : entry[q].id # entry[o].id
    BY <2>1, <2>2, <1>2
  <2>3. CASE \E q \in S : entry[q].id = entry[o].id
    BY <2>1, <2>3, <1>1
  <2> QED
    BY <2>2, <2>3
<1>8. LaterCameAgain' /\ LookupLostOnlyByReuse'
  BY <1>3, <1>5, <1>6, <1>7, MarksKeepLookup
<1>9. CancelledNeverServed'
  BY <1>1 DEF IInv, CancelledNeverServed
<1> QED
  BY <1>3, <1>5, <1>8, <1>9 DEF IInv

\* What dequeue records in the entry it hands over.
LEMMA HandedRequest ==
  ASSUME NEW r \in QueuedRequest, NEW late \in BOOLEAN, ~r.cancelled
  PROVE  LET e == [r EXCEPT !.timeoutExpired = late, !.cancelled = @ \/ late]
         IN  e \in QueuedRequest /\ e.id = r.id /\ e.again = r.again /\ (e.cancelled <=> e.timeoutExpired)
<1> DEFINE e == [r EXCEPT !.timeoutExpired = late, !.cancelled = @ \/ late]
<1>1. r.cancelled \in BOOLEAN /\ (r.cancelled \/ late) \in BOOLEAN
  BY DEF QueuedRequest
<1>2. e \in QueuedRequest /\ e.id = r.id /\ e.again = r.again
  BY <1>1 DEF QueuedRequest
<1>3. e.cancelled = (r.cancelled \/ late) /\ e.timeoutExpired = late
  BY DEF QueuedRequest
<1> QED
  BY <1>2, <1>3

LEMMA DequeueIInv ==
  ASSUME IInv, Dequeue
  PROVE  IInv'
<1>1. PICK o \in heap :
        /\ IsFirst(o) /\ ~entry[o].pending
        /\ Forget(CancelledAheadOf(o) \cup {o})
        /\ heap' = heap \ (CancelledAheadOf(o) \cup {o})
        /\ current' = o
        /\ handed' = handed \cup {o}
        /\ entry' = [entry EXCEPT ![o].timeoutExpired = o <= aged,
                                  ![o].cancelled = @ \/ o <= aged]
  BY DEF Dequeue
<1>2. notEmpty' \in BOOLEAN /\ UNCHANGED <<sending, aged>>
  BY DEF Dequeue, SignalRest
<1> DEFINE S == CancelledAheadOf(o)
           late == o <= aged
           e == [entry[o] EXCEPT !.timeoutExpired = late, !.cancelled = @ \/ late]
<1>3. /\ heap \subseteq DOMAIN entry /\ requests \in [Ids -> DOMAIN entry \cup {None}]
      /\ entry \in Seq(QueuedRequest) /\ TypeOK /\ aged \in Nat
      /\ S \subseteq heap /\ \A q \in S : entry[q].cancelled
      /\ o \in DOMAIN entry /\ ~entry[o].cancelled /\ entry[o] \in QueuedRequest
      /\ handed \subseteq DOMAIN entry
  BY <1>1 DEF IInv, TypeOK, Live, IsFirst, CancelledAheadOf
<1>4. entry' = [entry EXCEPT ![o] = e]
  BY <1>1, <1>3
<1>5. /\ e \in QueuedRequest /\ e.id = entry[o].id /\ e.again = entry[o].again
      /\ e.cancelled <=> e.timeoutExpired
  <2>1. late \in BOOLEAN
    OBVIOUS
  <2> HIDE DEF late
  <2> QED
    BY <1>3, <2>1, HandedRequest
<1> HIDE DEF e, S
<1>6. /\ entry' \in Seq(QueuedRequest) /\ Len(entry') = Len(entry)
      /\ DOMAIN entry' = DOMAIN entry /\ entry'[o] = e
      /\ \A q \in DOMAIN entry : q # o => entry'[q] = entry[q]
  BY <1>3, <1>4, <1>5, MarkedEntry
<1>7. requests' = [i \in Ids |-> IF \E q \in S \cup {o} : entry[q].id = i THEN None ELSE requests[i]]
  BY <1>1 DEF Forget, S
<1>8. TypeOK'
  <2>1. requests' \in [Ids -> DOMAIN entry' \cup {None}]
    BY <1>3, <1>6, <1>7
  <2>2. heap' \subseteq DOMAIN entry' /\ handed' \subseteq DOMAIN entry' /\ current' \in DOMAIN entry'
    BY <1>1, <1>3, <1>6
  <2> QED
    BY <1>2, <1>3, <1>6, <2>1, <2>2 DEF TypeOK
<1>9. \A i \in Ids : requests'[i] # None =>
        requests'[i] = requests[i] /\ \A q \in S \cup {o} : entry[q].id # i
  BY <1>7
<1>10. heap' = heap \ (S \cup {o})
  BY <1>1 DEF S
<1>11. LookupSound'
  <2> SUFFICES ASSUME NEW i \in Ids, requests'[i] # None
               PROVE  /\ requests'[i] \in heap' /\ ~entry'[requests'[i]].cancelled
                      /\ entry'[requests'[i]].id = i
    BY DEF LookupSound
  <2>1. requests'[i] = requests[i] /\ requests[i] \in heap /\ ~entry[requests[i]].cancelled
        /\ entry[requests[i]].id = i
    BY <1>9 DEF IInv, LookupSound
  <2>2. requests[i] \notin S \cup {o}
    BY <2>1, <1>9
  <2> QED
    BY <2>1, <2>2, <1>3, <1>6, <1>10
<1>12. OnlyMarks
  BY <1>3, <1>5, <1>6, <1>10 DEF OnlyMarks
<1>13. ASSUME NEW r \in Live'
       PROVE  \/ requests'[entry[r].id] = requests[entry[r].id]
              \/ \E q \in heap : q # r /\ entry[q].id = entry[r].id
  <2>1. r \in heap /\ r \notin S \cup {o} /\ r \in DOMAIN entry /\ entry[r].id \in Ids
    BY <1>3, <1>10, EntryFields DEF Live
  <2>2. CASE \A q \in S \cup {o} : entry[q].id # entry[r].id
    BY <2>1, <2>2, <1>7
  <2>3. CASE \E q \in S \cup {o} : entry[q].id = entry[r].id
    BY <2>1, <2>3, <1>3
  <2> QED
    BY <2>2, <2>3
<1>14. LaterCameAgain' /\ LookupLostOnlyByReuse'
  BY <1>8, <1>11, <1>12, <1>13, MarksKeepLookup
<1>15. CancelledNeverServed'
  BY <1>1, <1>3, <1>5, <1>6, <1>10 DEF IInv, CancelledNeverServed
<1> QED
  BY <1>8, <1>11, <1>14, <1>15 DEF IInv

LEMMA StepIInv == IInv /\ [Next]_vars => IInv'
<1> SUFFICES ASSUME IInv, [Next]_vars PROVE IInv'
  OBVIOUS
<1>1. ASSUME NEW i \in Ids, NEW p \in Priorities, NEW d \in Pendings,
             Enqueue(i, p, d)
      PROVE  IInv'
  BY <1>1, EnqueueIInv
<1>2. ASSUME NEW i \in Ids, Cancel(i) PROVE IInv'
  BY <1>2, CancelIInv
<1>3. ASSUME NEW i \in Ids, MarkDataReady(i) PROVE IInv'
  BY <1>3, MarkDataReadyIInv
<1>4. ASSUME UNCHANGED <<entry, heap, requests, handed>>,
             notEmpty' \in BOOLEAN, sending' \in DOMAIN entry \cup {None},
             current' \in DOMAIN entry \cup {None}, aged' \in 0..Len(entry)
      PROVE  IInv'
  BY <1>4 DEF IInv, TypeOK, LookupSound, LaterCameAgain, CancelledNeverServed,
              LookupLostOnlyByReuse, Live
<1>5. CASE SendReturns
  BY <1>4, <1>5 DEF SendReturns, IInv, TypeOK
<1>6. CASE Age
  BY <1>4, <1>6 DEF Age, IInv, TypeOK
<1>7. CASE WorkerDone
  BY <1>4, <1>7 DEF WorkerDone, IInv, TypeOK
<1>8. CASE DequeueNothing
  <2>1. heap \in SUBSET (heap \ Live) /\ heap' = heap \ heap
    BY <1>8 DEF DequeueNothing, Live
  <2> QED
    BY <1>8, <2>1, PoppingIInv DEF DequeueNothing
<1>9. CASE DequeuePending
  <2>1. PICK o \in heap : Forget(CancelledAheadOf(o)) /\ heap' = heap \ CancelledAheadOf(o)
    BY <1>9 DEF DequeuePending
  <2>2. CancelledAheadOf(o) \in SUBSET (heap \ Live)
    BY DEF CancelledAheadOf
  <2> QED
    BY <1>9, <2>1, <2>2, PoppingIInv DEF DequeuePending
<1>10. CASE Dequeue
  BY <1>10, DequeueIInv
<1>11. CASE UNCHANGED vars
  BY <1>4, <1>11 DEF vars, IInv, TypeOK
<1> QED
  BY <1>1, <1>2, <1>3, <1>5, <1>6, <1>7, <1>8, <1>9, <1>10, <1>11 DEF Next, WorkerStep

THEOREM QueueInvariant == Spec => []IInv
BY InitIInv, StepIInv, PTL DEF Spec

\* A request whose cancellation was confirmed is never handed to the worker
\* (queue_manager.py:197-208).
THEOREM CancelledIsNeverServed == Spec => []CancelledNeverServed
<1>1. IInv => CancelledNeverServed
  BY DEF IInv
<1> QED
  BY <1>1, QueueInvariant, PTL

\* The lookup finds live queued requests under their own ids, and loses one only
\* to a request that arrived while an entry of its id was still on the heap
\* (queue_manager.py:113-114, 181-184).
THEOREM LookupIsLostOnlyByReuse == Spec => []LookupLostOnlyByReuse
<1>1. IInv => LookupLostOnlyByReuse
  BY DEF IInv
<1> QED
  BY <1>1, QueueInvariant, PTL
-----------------------------------------------------------------------------
(* The worker's event *)

\* The order of the heap is total: the first live entry is unique.
LEMMA AheadIsTotal ==
  ASSUME TypeOK, NEW o \in DOMAIN entry, NEW p \in DOMAIN entry, NEW r \in DOMAIN entry
  PROVE  /\ Ahead(o, o) /\ (Ahead(o, p) \/ Ahead(p, o))
         /\ Ahead(o, p) /\ Ahead(p, r) => Ahead(o, r)
         /\ Ahead(o, p) /\ Ahead(p, o) => o = p
<1>1. entry[o].priority \in Int /\ entry[p].priority \in Int /\ entry[r].priority \in Int
  BY EntryFields
<1>2. o \in Int /\ p \in Int /\ r \in Int
  BY DEF TypeOK
<1> QED
  BY <1>1, <1>2 DEF Ahead

LEMMA CancelKeepsReason ==
  ASSUME IInv, SleepsBehindCancelledOnly, NEW i \in Ids, Cancel(i)
  PROVE  SleepsBehindCancelledOnly'
<1> DEFINE q == requests[i]
           e == [entry[q] EXCEPT !.cancelled = TRUE]
<1>1. /\ q \in DOMAIN entry /\ q \in heap /\ heap \subseteq DOMAIN entry /\ TypeOK
      /\ ~entry[q].cancelled
  BY DEF IInv, TypeOK, LookupSound, Cancel
<1>2. /\ entry[q] \in QueuedRequest /\ e \in QueuedRequest /\ e.cancelled
      /\ e.priority = entry[q].priority /\ e.pending = entry[q].pending
  BY <1>1, EntryFields, MarkedRequest
<1>3. entry' = [entry EXCEPT ![q] = e] /\ UNCHANGED <<heap, notEmpty>>
  BY DEF Cancel
<1>4. /\ DOMAIN entry' = DOMAIN entry /\ entry'[q] = e
      /\ \A o \in DOMAIN entry : o # q => entry'[o] = entry[o]
  BY <1>1, <1>2, <1>3, MarkedEntry
<1> HIDE DEF e, q
<1>5. /\ Live' = Live \ {q}
      /\ \A o \in DOMAIN entry : entry'[o].pending = entry[o].pending
      /\ \A o, p \in DOMAIN entry : Ahead(o, p)' <=> Ahead(o, p)
  <2>1. Live' = Live \ {q}
    BY <1>1, <1>2, <1>3, <1>4 DEF Live
  <2>2. \A o \in DOMAIN entry : /\ entry'[o].pending = entry[o].pending
                                /\ entry'[o].priority = entry[o].priority
    BY <1>2, <1>4
  <2> QED
    BY <2>1, <2>2 DEF Ahead
<1> SUFFICES ASSUME NEW o \in heap', IsFirst(o)', ~entry'[o].pending, ~notEmpty'
             PROVE  \E p \in CancelledAheadOf(o)' : entry'[p].pending
  BY DEF SleepsBehindCancelledOnly
<1>6. /\ o \in heap /\ o \in Live /\ o # q /\ ~entry[o].pending /\ ~notEmpty
      /\ \A p \in Live : p # q => Ahead(o, p)
  BY <1>1, <1>3, <1>5 DEF IsFirst, Live
<1>7. \A p \in heap : p \notin Live \/ p = q => (Ahead(p, o) => p \in CancelledAheadOf(o)')
  BY <1>1, <1>3, <1>5, <1>6 DEF CancelledAheadOf
<1>8. CASE Ahead(o, q)
  <2>1. IsFirst(o)
    BY <1>6, <1>8 DEF IsFirst
  <2>2. PICK p \in CancelledAheadOf(o) : entry[p].pending
    BY <1>6, <2>1 DEF SleepsBehindCancelledOnly
  <2> QED
    BY <1>1, <1>5, <1>7, <2>2 DEF CancelledAheadOf
<1>9. CASE ~Ahead(o, q)
  <2>1. Ahead(q, o) /\ \A p \in heap : Ahead(p, q) => Ahead(p, o)
    BY <1>1, <1>6, <1>9, AheadIsTotal
  <2>2. CASE entry[q].pending
    BY <1>1, <1>5, <1>7, <2>1, <2>2
  <2>3. CASE ~entry[q].pending
    <3>1. IsFirst(q)
      BY <1>1, <1>6, <2>1, AheadIsTotal DEF IsFirst, Live
    <3>2. PICK p \in CancelledAheadOf(q) : entry[p].pending
      BY <1>1, <1>6, <2>3, <3>1 DEF SleepsBehindCancelledOnly
    <3> QED
      BY <1>1, <1>5, <1>7, <2>1, <3>2 DEF CancelledAheadOf
  <2> QED
    BY <2>2, <2>3
<1> QED
  BY <1>8, <1>9

LEMMA DequeueKeepsReason ==
  ASSUME IInv, DequeuePending
  PROVE  SleepsBehindCancelledOnly'
<1>1. PICK o \in heap : /\ IsFirst(o) /\ entry[o].pending
                        /\ heap' = heap \ CancelledAheadOf(o)
  BY DEF DequeuePending
<1>2. entry' = entry /\ heap \subseteq DOMAIN entry /\ TypeOK
  BY DEF DequeuePending, IInv, TypeOK
<1>3. Live' = Live
  BY <1>1, <1>2 DEF Live, CancelledAheadOf
<1>4. ASSUME NEW p \in heap', IsFirst(p)' PROVE p = o
  <2>1. p \in heap /\ p \in Live /\ Ahead(p, o) /\ Ahead(o, p)
    BY <1>1, <1>2, <1>3, <1>4 DEF IsFirst, Ahead
  <2> QED
    BY <2>1, <1>2, AheadIsTotal
<1> QED
  BY <1>1, <1>2, <1>4 DEF SleepsBehindCancelledOnly

LEMMA StepKeepsReason ==
  IInv /\ SleepsBehindCancelledOnly /\ [Next]_vars => SleepsBehindCancelledOnly'
<1> SUFFICES ASSUME IInv, SleepsBehindCancelledOnly, [Next]_vars
             PROVE  SleepsBehindCancelledOnly'
  OBVIOUS
<1>1. ASSUME notEmpty' = TRUE PROVE SleepsBehindCancelledOnly'
  BY <1>1 DEF SleepsBehindCancelledOnly
<1>2. ASSUME UNCHANGED <<entry, heap, notEmpty>> PROVE SleepsBehindCancelledOnly'
  BY <1>2 DEF SleepsBehindCancelledOnly, IsFirst, CancelledAheadOf, Ahead, Live
<1>3. ASSUME NEW i \in Ids, NEW p \in Priorities, NEW d \in Pendings, Enqueue(i, p, d)
      PROVE  SleepsBehindCancelledOnly'
  BY <1>1, <1>3 DEF Enqueue
<1>4. ASSUME NEW i \in Ids, Cancel(i) PROVE SleepsBehindCancelledOnly'
  BY <1>4, CancelKeepsReason
<1>5. ASSUME NEW i \in Ids, MarkDataReady(i) PROVE SleepsBehindCancelledOnly'
  BY <1>1, <1>5 DEF MarkDataReady
<1>6. CASE SendReturns \/ Age \/ WorkerDone
  BY <1>2, <1>6 DEF SendReturns, Age, WorkerDone
<1>7. CASE DequeueNothing
  BY <1>7 DEF DequeueNothing, SleepsBehindCancelledOnly
<1>8. CASE DequeuePending
  BY <1>8, DequeueKeepsReason
<1>9. CASE Dequeue
  <2>1. notEmpty' = (heap' # {})
    BY <1>9 DEF Dequeue, SignalRest
  <2>2. CASE heap' = {}
    BY <2>2 DEF SleepsBehindCancelledOnly
  <2>3. CASE heap' # {}
    BY <2>1, <2>3, <1>1
  <2> QED
    BY <2>2, <2>3
<1>10. CASE UNCHANGED vars
  BY <1>2, <1>10 DEF vars
<1> QED
  BY <1>3, <1>4, <1>5, <1>6, <1>7, <1>8, <1>9, <1>10 DEF Next, WorkerStep

\* The worker's event is down beside a first request that could be served only
\* behind a pending request that was cancelled since (queue_manager.py:186-218).
THEOREM SleepsOnlyBehindCancelled == Spec => []SleepsBehindCancelledOnly
<1>1. Init => SleepsBehindCancelledOnly
  BY DEF Init, SleepsBehindCancelledOnly
<1> QED
  BY <1>1, StepKeepsReason, QueueInvariant, PTL DEF Spec

\* What dequeue leaves of the entries: all of the others, and all but the two
\* marks of the one it hands over.
LEMMA HandedEntry ==
  ASSUME entry \in Seq(QueuedRequest), NEW o \in DOMAIN entry,
         entry' = [entry EXCEPT ![o].timeoutExpired = o <= aged,
                                ![o].cancelled = @ \/ o <= aged]
  PROVE  /\ DOMAIN entry' = DOMAIN entry
         /\ \A q \in DOMAIN entry : q # o => entry'[q] = entry[q]
         /\ \A q \in DOMAIN entry : /\ entry'[q].id = entry[q].id
                                    /\ entry'[q].priority = entry[q].priority
                                    /\ entry'[q].pending = entry[q].pending
<1> DEFINE late == o <= aged
           e == [entry[o] EXCEPT !.timeoutExpired = late, !.cancelled = @ \/ late]
<1>1. entry[o] \in QueuedRequest /\ entry \in Seq(QueuedRequest)
  OBVIOUS
<1>2. entry' = [entry EXCEPT ![o] = e]
  OBVIOUS
<1> HIDE DEF late
<1>3. e.id = entry[o].id /\ e.priority = entry[o].priority /\ e.pending = entry[o].pending
  BY <1>1 DEF QueuedRequest
<1> HIDE DEF e
<1> QED
  BY <1>1, <1>2, <1>3

LEMMA SeqEqual ==
  ASSUME NEW S, NEW s \in Seq(S), NEW t \in Seq(S), Len(s) = Len(t),
         \A k \in 1..Len(s) : s[k] = t[k]
  PROVE  s = t
OBVIOUS

\* No caller passes pending data: then no entry waits for it.
NonePending == \A o \in DOMAIN entry : ~entry[o].pending

LEMMA StepKeepsNonePending ==
  ASSUME TRUE \notin Pendings, IInv, NonePending, [Next]_vars
  PROVE  NonePending'
<1>1. TypeOK /\ entry \in Seq(QueuedRequest) /\ heap \subseteq DOMAIN entry
  BY DEF IInv, TypeOK
<1>2. ASSUME entry' = entry PROVE NonePending'
  BY <1>2 DEF NonePending
<1>3. ASSUME NEW i \in Ids, NEW p \in Priorities, NEW d \in Pendings, Enqueue(i, p, d)
      PROVE  NonePending'
  <2> DEFINE e == [id |-> i, priority |-> p, pending |-> d,
                   cancelled |-> FALSE, timeoutExpired |-> FALSE, again |-> OnHeap(i)]
  <2>1. e \in QueuedRequest /\ e.pending = d /\ d = FALSE
    BY QueueAssumption DEF QueuedRequest, OnHeap
  <2>2. entry' = Append(entry, e)
    BY <1>3 DEF Enqueue
  <2> HIDE DEF e
  <2> QED
    BY <1>1, <2>1, <2>2, AppendedEntry DEF NonePending
<1>4. ASSUME NEW i \in Ids, Cancel(i) PROVE NonePending'
  <2> DEFINE q == requests[i]
             e == [entry[q] EXCEPT !.cancelled = TRUE]
  <2>1. q \in DOMAIN entry /\ entry' = [entry EXCEPT ![q] = e]
    BY <1>4 DEF Cancel, IInv, TypeOK
  <2>2. e \in QueuedRequest /\ e.pending = entry[q].pending
    BY <1>1, <2>1, EntryFields, MarkedRequest
  <2> HIDE DEF e, q
  <2> QED
    BY <1>1, <2>1, <2>2, MarkedEntry DEF NonePending
<1>5. CASE Dequeue
  <2>1. PICK o \in heap :
          entry' = [entry EXCEPT ![o].timeoutExpired = o <= aged,
                                 ![o].cancelled = @ \/ o <= aged]
    BY <1>5 DEF Dequeue
  <2> QED
    BY <2>1, <1>1, HandedEntry DEF NonePending
<1>6. CASE SendReturns \/ Age \/ DequeueNothing \/ DequeuePending \/ WorkerDone \/ UNCHANGED vars
  BY <1>2, <1>6 DEF SendReturns, Age, DequeueNothing, DequeuePending, WorkerDone, vars
<1> QED
  BY <1>3, <1>4, <1>5, <1>6 DEF Next, WorkerStep

\* The queue of a worker whose requests carry their data wakes it whenever its
\* first live request can be served (queue_manager.py:229 "Blocks until a
\* request is available").
THEOREM WorkerIsSignalled ==
  ASSUME TRUE \notin Pendings
  PROVE  Spec => []FirstIsSignalled
<1>1. Init => NonePending
  BY DEF Init, NonePending
<1>2. IInv /\ NonePending /\ [Next]_vars => NonePending'
  BY StepKeepsNonePending
<1>3. IInv /\ NonePending /\ SleepsBehindCancelledOnly => FirstIsSignalled
  BY DEF IInv, TypeOK, NonePending, SleepsBehindCancelledOnly, FirstIsSignalled, CancelledAheadOf
<1> QED
  BY <1>1, <1>2, <1>3, SleepsOnlyBehindCancelled, QueueInvariant, PTL DEF Spec
-----------------------------------------------------------------------------
(* The queue keeps the promise of module RequestQueue *)

PriorityOf == [o \in DOMAIN entry |-> entry[o].priority]

LEMMA PrioritiesStay ==
  ASSUME DOMAIN entry' = DOMAIN entry,
         \A o \in DOMAIN entry : entry'[o].priority = entry[o].priority
  PROVE  PriorityOf' = PriorityOf
BY DEF PriorityOf

LEMMA PriorityAppended ==
  ASSUME TypeOK, NEW e \in QueuedRequest, entry' = Append(entry, e)
  PROVE  /\ PriorityOf' = Append(PriorityOf, e.priority)
         /\ Len(PriorityOf') = Len(entry')
<1>1. /\ entry' \in Seq(QueuedRequest) /\ Len(entry') = Len(entry) + 1
      /\ entry'[Len(entry')] = e
      /\ \A o \in DOMAIN entry : entry'[o] = entry[o] /\ o < Len(entry')
      /\ entry \in Seq(QueuedRequest)
  BY AppendedEntry DEF TypeOK
<1>2. \A r \in QueuedRequest : r.priority \in Priorities
  BY DEF QueuedRequest
<1>3. PriorityOf \in Seq(Priorities) /\ Len(PriorityOf) = Len(entry)
  BY <1>1, <1>2 DEF PriorityOf
<1>4. PriorityOf' \in Seq(Priorities) /\ Len(PriorityOf') = Len(entry')
  BY <1>1, <1>2 DEF PriorityOf
<1>5. \A o \in 1..Len(entry') :
        PriorityOf'[o] = IF o = Len(entry') THEN e.priority ELSE PriorityOf[o]
  BY <1>1 DEF PriorityOf
<1>6. Append(PriorityOf, e.priority) \in Seq(Priorities)
      /\ Len(Append(PriorityOf, e.priority)) = Len(entry')
      /\ \A o \in 1..Len(entry') :
           Append(PriorityOf, e.priority)[o] = IF o = Len(entry') THEN e.priority ELSE PriorityOf[o]
  BY <1>1, <1>2, <1>3
<1> QED
  BY <1>4, <1>5, <1>6, SeqEqual

LEMMA StepKeepsQueueOrder ==
  ASSUME IInv, [Next]_vars
  PROVE  [Promise!Next]_<<PriorityOf, Live, handed>>
<1>1. TypeOK /\ entry \in Seq(QueuedRequest) /\ heap \subseteq DOMAIN entry
      /\ requests \in [Ids -> DOMAIN entry \cup {None}]
  BY DEF IInv, TypeOK
<1>2. ASSUME UNCHANGED <<entry, handed>>, Live' = Live
      PROVE  UNCHANGED <<PriorityOf, Live, handed>>
  BY <1>2 DEF PriorityOf
<1>3. ASSUME NEW i \in Ids, NEW p \in Priorities, NEW d \in Pendings, Enqueue(i, p, d)
      PROVE  Promise!Put
  <2> DEFINE e == [id |-> i, priority |-> p, pending |-> d,
                   cancelled |-> FALSE, timeoutExpired |-> FALSE, again |-> OnHeap(i)]
  <2>1. e \in QueuedRequest /\ e.priority = p /\ ~e.cancelled
    BY QueueAssumption DEF QueuedRequest, OnHeap
  <2>2. entry' = Append(entry, e) /\ heap' = heap \cup {Len(entry')} /\ handed' = handed
    BY <1>3 DEF Enqueue
  <2> HIDE DEF e
  <2>3. PriorityOf' = Append(PriorityOf, p) /\ Len(PriorityOf') = Len(entry')
    BY <1>1, <2>1, <2>2, PriorityAppended
  <2>4. Live' = Live \cup {Len(entry')}
    BY <1>1, <2>1, <2>2, AppendedEntry DEF Live
  <2> QED
    BY <2>2, <2>3, <2>4 DEF Promise!Put, PriorityOf
<1>4. ASSUME NEW i \in Ids, Cancel(i)
      PROVE  Promise!Drop
  <2> DEFINE q == requests[i]
             e == [entry[q] EXCEPT !.cancelled = TRUE]
  <2>1. q \in DOMAIN entry /\ q \in heap /\ ~entry[q].cancelled
    BY <1>1, <1>4 DEF Cancel, IInv, LookupSound
  <2>2. entry' = [entry EXCEPT ![q] = e] /\ heap' = heap /\ handed' = handed
    BY <1>4 DEF Cancel
  <2>3. e \in QueuedRequest /\ e.priority = entry[q].priority /\ e.cancelled
    BY <1>1, <2>1, EntryFields, MarkedRequest
  <2> HIDE DEF e, q
  <2>4. /\ DOMAIN entry' = DOMAIN entry /\ entry'[q] = e
        /\ \A o \in DOMAIN entry : o # q => entry'[o] = entry[o]
    BY <1>1, <2>1, <2>2, <2>3, MarkedEntry
  <2>5. PriorityOf' = PriorityOf
    BY <2>1, <2>3, <2>4, PrioritiesStay
  <2>6. q \in Live /\ Live' = Live \ {q}
    BY <1>1, <2>1, <2>2, <2>3, <2>4 DEF Live
  <2> QED
    BY <2>2, <2>5, <2>6 DEF Promise!Drop, PriorityOf
<1>5. ASSUME NEW i \in Ids, MarkDataReady(i)
      PROVE  UNCHANGED <<PriorityOf, Live, handed>>
  <2> DEFINE q == requests[i]
             e == [entry[q] EXCEPT !.pending = FALSE]
  <2>1. q \in DOMAIN entry
    BY <1>1, <1>5 DEF MarkDataReady
  <2>2. entry' = [entry EXCEPT ![q] = e] /\ heap' = heap /\ handed' = handed
    BY <1>5 DEF MarkDataReady
  <2>3. e \in QueuedRequest /\ e.priority = entry[q].priority /\ e.cancelled = entry[q].cancelled
    BY <1>1, <2>1, EntryFields, MarkedRequest
  <2> HIDE DEF e, q
  <2>4. /\ DOMAIN entry' = DOMAIN entry /\ entry'[q] = e
        /\ \A o \in DOMAIN entry : o # q => entry'[o] = entry[o]
    BY <1>1, <2>1, <2>2, <2>3, MarkedEntry
  <2>5. PriorityOf' = PriorityOf
    BY <2>1, <2>3, <2>4, PrioritiesStay
  <2>6. Live' = Live
    BY <1>1, <2>1, <2>2, <2>3, <2>4 DEF Live
  <2> QED
    BY <2>2, <2>5, <2>6
<1>6. CASE Dequeue
  <2>1. PICK o \in heap :
          /\ IsFirst(o)
          /\ heap' = heap \ (CancelledAheadOf(o) \cup {o})
          /\ handed' = handed \cup {o}
          /\ entry' = [entry EXCEPT ![o].timeoutExpired = o <= aged,
                                    ![o].cancelled = @ \/ o <= aged]
    BY <1>6 DEF Dequeue
  <2>2. /\ DOMAIN entry' = DOMAIN entry
        /\ \A q \in DOMAIN entry : entry'[q].priority = entry[q].priority
        /\ \A q \in DOMAIN entry : q # o => entry'[q] = entry[q]
    BY <1>1, <2>1, HandedEntry
  <2>3. PriorityOf' = PriorityOf
    BY <2>2, PrioritiesStay
  <2>4. o \in Live /\ Live' = Live \ {o}
    BY <1>1, <2>1, <2>2 DEF IsFirst, Live, CancelledAheadOf
  <2>5. \A p \in Live : Promise!Ahead(o, p)
    BY <1>1, <2>1 DEF IsFirst, Ahead, Live, Promise!Ahead
  <2>6. handed' = handed \cup {o}
    BY <2>1
  <2>7. Promise!Take
    BY <2>3, <2>4, <2>5, <2>6 DEF Promise!Take, PriorityOf
  <2> QED
    BY <2>7 DEF Promise!Next
<1>7. CASE DequeueNothing
  BY <1>2, <1>7 DEF DequeueNothing, Live
<1>8. CASE DequeuePending
  <2>1. entry' = entry /\ handed' = handed /\ \E o \in heap : heap' = heap \ CancelledAheadOf(o)
    BY <1>8 DEF DequeuePending
  <2> QED
    BY <1>2, <2>1 DEF Live, CancelledAheadOf
<1>9. CASE SendReturns \/ Age \/ WorkerDone \/ UNCHANGED vars
  BY <1>2, <1>9 DEF SendReturns, Age, WorkerDone, vars, Live
<1> QED
  BY <1>3, <1>4, <1>5, <1>6, <1>7, <1>8, <1>9 DEF Next, WorkerStep, Promise!Next

\* The queue implements the abstract request queue: requests leave once, by
\* priority and then in order of arrival, whatever is cancelled, expires or
\* waits for its data meanwhile (queue_manager.py:33-38, 186-218).
THEOREM QueueKeepsItsOrder == Spec => KeepsQueueOrder
<1>1. Init => Promise!Init
  BY DEF Init, Promise!Init, Live
<1>2. IInv /\ [Next]_vars => [Promise!Next]_<<PriorityOf, Live, handed>>
  BY StepKeepsQueueOrder
<1> QED
  BY <1>1, <1>2, QueueInvariant, PTL DEF Spec, KeepsQueueOrder, Promise!Spec, PriorityOf
=============================================================================
