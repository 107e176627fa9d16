--------------------------- MODULE GpuServerProofs ---------------------------
(***************************************************************************)
(* The books of the server, its connection limit and its rate limits, for  *)
(* every number of connections, every limit and window, and whatever the   *)
(* queues do.                                                              *)
(***************************************************************************)
EXTENDS GpuServer, FiniteSetTheorems, SequenceTheorems, WellFoundedInduction, TLAPS

\* The books alone are inductive; the limit needs them, because a connection
\* that becomes a client must have had a place among the pending.
IInv ==
    /\ at \in [Conns -> Phases]
    /\ BooksBalance
    /\ PlacesBounded

\* Where a connection is decides which books it stands in: moving inside a class
\* changes none of them.
LEMMA BooksStay ==
  ASSUME IInv, NEW c \in Conns, NEW phase \in Phases,
         at' = [at EXCEPT ![c] = phase],
         UNCHANGED <<pending, clients, limited>>,
         \/ at[c] \in Joining /\ phase \in Joining /\ info' \subseteq info \cup {c}
         \/ at[c] \in Handling \cup {"open"} /\ phase \in Handling \cup {"open"} /\ info' = info
         \/ at[c] = "new" /\ phase = "rejecting" /\ info' = info
  PROVE  IInv'
<1>1. at' \in [Conns -> Phases]
  BY DEF IInv
<1>2. pending' = {d \in Conns : at'[d] \in Joining}
  BY DEF IInv, BooksBalance, Joining, Handling
<1>3. clients' = {d \in Conns : at'[d] \in Handling \cup {"open"}}
  BY DEF IInv, BooksBalance, Joining, Handling
<1>4. info' \subseteq pending' \cup clients' /\ limited' = clients'
  BY DEF IInv, BooksBalance
<1>5. PlacesBounded'
  BY DEF IInv, PlacesBounded
<1> QED
  BY <1>1, <1>2, <1>3, <1>4, <1>5 DEF IInv, BooksBalance

LEMMA BooksAreFinite ==
  ASSUME IInv
  PROVE  /\ IsFiniteSet(pending) /\ Cardinality(pending) \in Nat
         /\ IsFiniteSet(clients) /\ Cardinality(clients) \in Nat
<1>1. IsFiniteSet(Conns)
  BY ServerAssumption, FS_Interval DEF Conns
<1>2. pending \subseteq Conns /\ clients \subseteq Conns
  BY DEF IInv, BooksBalance
<1> QED
  BY <1>1, <1>2, FS_Subset, FS_CardinalityType

LEMMA LeavingShrinks ==
  ASSUME NEW S, IsFiniteSet(S), NEW c
  PROVE  /\ Cardinality(S) \in Nat /\ Cardinality(S \ {c}) \in Nat
         /\ Cardinality(S \ {c}) <= Cardinality(S)
<1>1. IsFiniteSet(S \ {c}) /\ S \ {c} \in SUBSET S
  BY FS_RemoveElement
<1>2. Cardinality(S \ {c}) <= Cardinality(S)
  BY <1>1, FS_Subset
<1> QED
  BY <1>1, <1>2, FS_CardinalityType

\* A connection that ends gives its place back.
LEMMA EndedHasNoPlace ==
  ASSUME IInv, NEW c \in Conns, Forget(c), at' = [at EXCEPT ![c] = "ended"]
  PROVE  IInv'
<1>1. at' \in [Conns -> Phases]
  BY DEF IInv, Phases
<1>2. BooksBalance'
  BY <1>1 DEF IInv, BooksBalance, Forget, Joining, Handling
<1>3. PlacesBounded'
  <2>1. Cardinality(pending') <= Cardinality(pending) /\ Cardinality(pending') \in Nat
    BY BooksAreFinite, LeavingShrinks DEF Forget
  <2>2. Cardinality(clients') <= Cardinality(clients) /\ Cardinality(clients') \in Nat
    BY BooksAreFinite, LeavingShrinks DEF Forget
  <2> QED
    BY <2>1, <2>2, BooksAreFinite, ServerAssumption DEF IInv, PlacesBounded
<1> QED
  BY <1>1, <1>2, <1>3 DEF IInv

LEMMA ConnectKeepsBooks ==
  ASSUME IInv, NEW c \in Conns, Connect(c)
  PROVE  IInv'
<1>1. CASE AtLimit
  BY <1>1, BooksStay DEF Connect, Phases, timeVars
<1>2. CASE ~AtLimit
  <2> DEFINE phase == IF AuthEnabled THEN "authenticating" ELSE "greeting"
  <2>1. /\ at[c] = "new" /\ at' = [at EXCEPT ![c] = phase] /\ phase \in Joining
        /\ pending' = pending \cup {c} /\ UNCHANGED <<clients, info, limited>>
    BY <1>2 DEF Connect, timeVars, Joining
  <2>2. c \notin pending
    BY <2>1 DEF IInv, BooksBalance, Joining
  <2>3. at' \in [Conns -> Phases]
    BY <2>1 DEF IInv, Phases
  <2>4. BooksBalance'
    BY <2>1, <2>3 DEF IInv, BooksBalance, Joining, Handling
  <2>5. Cardinality(pending') = Cardinality(pending) + 1
    BY <2>1, <2>2, BooksAreFinite, FS_AddElement
  <2>6. PlacesBounded'
    BY <1>2, <2>1, <2>5, BooksAreFinite, ServerAssumption DEF AtLimit, PlacesBounded
  <2> QED
    BY <2>3, <2>4, <2>6 DEF IInv
<1> QED
  BY <1>1, <1>2

LEMMA AdmitKeepsBooks ==
  ASSUME IInv, NEW c \in Conns, Admit(c)
  PROVE  IInv'
<1>1. /\ at[c] = "greeting" /\ at' = [at EXCEPT ![c] = "open"]
      /\ pending' = pending \ {c} /\ clients' = clients \cup {c}
      /\ limited' = limited \cup {c} /\ info' = info
  BY DEF Admit
<1>2. c \in pending /\ c \notin clients
  BY <1>1 DEF IInv, BooksBalance, Joining, Handling
<1>3. at' \in [Conns -> Phases]
  BY <1>1 DEF IInv, Phases
<1>4. BooksBalance'
  BY <1>1, <1>3 DEF IInv, BooksBalance, Joining, Handling
<1>5. /\ Cardinality(pending') = Cardinality(pending) - 1
      /\ Cardinality(clients') = Cardinality(clients) + 1
  BY <1>1, <1>2, BooksAreFinite, FS_AddElement, FS_RemoveElement
<1>6. PlacesBounded'
  BY <1>5, BooksAreFinite DEF IInv, PlacesBounded
<1> QED
  BY <1>3, <1>4, <1>6 DEF IInv

LEMMA InitKeepsBooks == Init => IInv
<1> SUFFICES ASSUME Init PROVE IInv
  OBVIOUS
<1>1. at \in [Conns -> Phases]
  BY DEF Init, Phases
<1>2. BooksBalance
  BY DEF Init, BooksBalance, Joining, Handling
<1>3. PlacesBounded
  BY FS_EmptySet, ServerAssumption DEF Init, PlacesBounded
<1> QED
  BY <1>1, <1>2, <1>3 DEF IInv

LEMMA StepKeepsBooks == IInv /\ [Next]_vars => IInv'
<1> SUFFICES ASSUME IInv, [Next]_vars PROVE IInv'
  OBVIOUS
<1> USE DEF Phases, Joining, Handling
<1>1. ASSUME NEW c \in Conns, Connect(c) PROVE IInv'
  BY <1>1, ConnectKeepsBooks
<1>2. ASSUME NEW c \in Conns, AuthSucceeds(c) PROVE IInv'
  BY <1>2, BooksStay DEF AuthSucceeds, timeVars
<1>3. ASSUME NEW c \in Conns, TooManyMessages(c) PROVE IInv'
  BY <1>3, BooksStay DEF TooManyMessages
<1>4. ASSUME NEW c \in Conns, HandleOther(c) PROVE IInv'
  BY <1>4, BooksStay DEF HandleOther, Hear
<1>5. ASSUME NEW c \in Conns, TooManyRequests(c) PROVE IInv'
  BY <1>5, BooksStay DEF TooManyRequests, Hear
<1>6. ASSUME NEW c \in Conns, HandleRequest(c) PROVE IInv'
  BY <1>6, BooksStay DEF HandleRequest, Hear
<1>7. ASSUME NEW c \in Conns, HandleCancel(c) PROVE IInv'
  BY <1>7, BooksStay DEF HandleCancel, Hear
<1>8. ASSUME NEW c \in Conns, Raises(c) PROVE IInv'
  BY <1>8, EndedHasNoPlace DEF Raises, IsOver
<1>9. ASSUME NEW c \in Conns, AuthFails(c) PROVE IInv'
  BY <1>9, BooksStay DEF AuthFails, timeVars
<1>10. ASSUME NEW c \in Conns, Admit(c) PROVE IInv'
  BY <1>10, AdmitKeepsBooks
<1>11. ASSUME NEW c \in Conns, Ends(c) PROVE IInv'
  BY <1>11, EndedHasNoPlace DEF Ends, IsOver
<1>12. ASSUME NEW c \in Conns, Enqueue(c) PROVE IInv'
  <2>1. PICK phase \in {"progressing", "replying"} : at' = [at EXCEPT ![c] = phase]
    BY <1>12 DEF Enqueue
  <2> QED
    BY <1>12, <2>1, BooksStay DEF Enqueue, timeVars
<1>13. ASSUME NEW c \in Conns, QueueIsFull(c) PROVE IInv'
  BY <1>13, BooksStay DEF QueueIsFull, timeVars
<1>14. ASSUME NEW c \in Conns, ProgressSent(c) PROVE IInv'
  BY <1>14, BooksStay DEF ProgressSent, timeVars
<1>15. ASSUME NEW c \in Conns, Cancel(c) PROVE IInv'
  BY <1>15, BooksStay DEF Cancel, timeVars
<1>16. ASSUME NEW c \in Conns, Reply(c) PROVE IInv'
  BY <1>16, BooksStay DEF Reply, timeVars
<1>17. ASSUME UNCHANGED <<at, pending, clients, info, limited>> PROVE IInv'
  BY <1>17 DEF IInv, BooksBalance, PlacesBounded
<1>18. ASSUME NEW c \in Conns, Disconnect(c) PROVE IInv'
  BY <1>17, <1>18 DEF Disconnect, timeVars
<1>19. ASSUME NEW k, NEW i, Take(k, i) PROVE IInv'
  BY <1>17, <1>19 DEF Take, timeVars, connVars
<1>20. ASSUME Tick PROVE IInv'
  BY <1>17, <1>20 DEF Tick, timeVars, connVars
<1>21. ASSUME UNCHANGED vars PROVE IInv'
  BY <1>17, <1>21 DEF vars, timeVars, connVars
<1> QED
  BY <1>1, <1>2, <1>3, <1>4, <1>5, <1>6, <1>7, <1>8, <1>9, <1>10, <1>11, <1>12,
     <1>13, <1>14, <1>15, <1>16, <1>18, <1>19, <1>20, <1>21
     DEF Next, Message, Proceeds

\* Pending and authenticated connections together keep to max_connections,
\* whatever comes and goes in whichever order (server.py:402 "check TOTAL
\* connections (pending + authenticated)").
THEOREM ConnectionLimit == Spec => []PlacesBounded
<1>1. IInv => PlacesBounded
  BY DEF IInv
<1> QED
  BY InitKeepsBooks, StepKeepsBooks, <1>1, PTL DEF Spec

\* No connection is left in the books of the server when it has ended, and every
\* client is under its limiters (server.py:453 the finally block).
THEOREM BooksAlwaysBalance == Spec => []BooksBalance
<1>1. IInv => BooksBalance
  BY DEF IInv
<1> QED
  BY InitKeepsBooks, StepKeepsBooks, <1>1, PTL DEF Spec
-----------------------------------------------------------------------------
(***************************************************************************)
(* The rate limits.  A limiter remembers the last times of its history,    *)
(* all that are within the window and perhaps older ones (Remembers), and  *)
(* an entry and the one `limit` places before it are at least a window     *)
(* apart (Spaced), which bounds how many fit between any two instants.     *)
(***************************************************************************)

InOrder(times, now) ==
    \A k \in 1..Len(times) :
        times[k] <= now /\ \A j \in 1..k : times[j] <= times[k]

Remembers(times, history, window, now) ==
    \E n \in 0..Len(history) :
        /\ times = SubSeq(history, n + 1, Len(history))
        /\ \A k \in 1..n : history[k] <= now - window

Spaced(history, limit, window) ==
    \A k \in 1..Len(history) :
        k > limit => history[k - limit] <= history[k] - window

Counts(times, history, limit, window, now) ==
    /\ history \in Seq(Nat)
    /\ InOrder(history, now)
    /\ Remembers(times, history, window, now)
    /\ Spaced(history, limit, window)

\* What the clock and the lists of a limited connection have to do with each other.
RateInv ==
    /\ clock \in Nat
    /\ requestTimes = [c \in Conns |-> requestTimes[c]] /\ let = [c \in Conns |-> let[c]]
    /\ messageTimes = [c \in Conns |-> messageTimes[c]] /\ heard = [c \in Conns |-> heard[c]]
    /\ RequestLimit <= RequestCap => \A c \in Conns :
            Counts(requestTimes[c], let[c], RequestLimit, RequestWindow, clock)
    /\ MessageLimit <= MessageCap => \A c \in Conns :
            Counts(messageTimes[c], heard[c], MessageLimit, MessageWindow, clock)

LEMMA LeastOf ==
  ASSUME NEW S \in SUBSET Nat, S # {}
  PROVE  \E n \in S : \A m \in S : n <= m
<1>1. IsWellFoundedOn(OpToRel(<, Nat), Nat)
  BY NatLessThanWellFounded
<1>2. PICK n \in S : \A m \in S : ~ (<<m, n>> \in OpToRel(<, Nat))
  BY <1>1, WFMin
<1>3. \A m \in S : m \in Nat /\ n \in Nat /\ ~(m < n)
  BY <1>2 DEF OpToRel
<1>4. \A m \in S : n <= m
  BY <1>3
<1> QED BY <1>4

\* What is left of a list in order are the times that are later, and no others.
LEMMA LaterThanFilters ==
  ASSUME NEW times \in Seq(Nat), NEW instant \in Int,
         \A k \in 1..Len(times) : \A j \in 1..k : times[j] <= times[k]
  PROVE  \E n \in 0..Len(times) :
            /\ LaterThan(instant, times) = SubSeq(times, n + 1, Len(times))
            /\ \A k \in 1..Len(times) : times[k] > instant <=> k > n
<1> DEFINE Cuts == {n \in 0..Len(times) : \A k \in 1..Len(times) : k > n => times[k] > instant}
           IsCut(n) == \A k \in DOMAIN times : times[k] > instant <=> k > n
<1>1. Len(times) \in Nat /\ DOMAIN times = 1..Len(times)
      /\ \A k \in 1..Len(times) : times[k] \in Nat
  BY LenProperties, ElementOfSeq
<1>2. PICK n \in Cuts : \A m \in Cuts : n <= m
  <2>1. Cuts \in SUBSET Nat /\ Len(times) \in Cuts
    BY <1>1
  <2> HIDE DEF Cuts
  <2> QED BY <2>1, LeastOf
<1>3. n \in 0..Len(times) /\ \A k \in 1..Len(times) : k > n => times[k] > instant
  OBVIOUS
<1>4. ASSUME NEW k \in 1..Len(times), k <= n PROVE times[k] <= instant
  <2>1. n - 1 \notin Cuts /\ n \in 1..Len(times)
    <3>1. n \in 1..Len(times)
      BY <1>1, <1>3, <1>4
    <3>2. ~(n <= n - 1)
      BY <3>1
    <3> HIDE DEF Cuts
    <3> QED BY <1>2, <3>1, <3>2
  <2>2. PICK j \in 1..Len(times) : j > n - 1 /\ ~(times[j] > instant)
    BY <1>1, <2>1
  <2>3. j = n
    BY <1>1, <1>3, <2>1, <2>2
  <2> QED BY <1>1, <1>4, <2>1, <2>2, <2>3
<1>5. IsCut(n)
  BY <1>1, <1>3, <1>4
<1>6. PICK old \in 0..Len(times) : LaterThan(instant, times) = SubSeq(times, old + 1, Len(times)) /\ IsCut(old)
  BY <1>3, <1>5 DEF LaterThan
<1> QED BY <1>1, <1>6

\* A stretch as long as the window holds at most `limit` entries of a history:
\* they stand between the first one and the one `limit` places on.
LEMMA SpacingBounds ==
  ASSUME NEW history \in Seq(Nat), NEW limit \in Nat \ {0}, NEW window \in Nat, NEW t \in Nat, NEW now,
         InOrder(history, now), Spaced(history, limit, window)
  PROVE  Cardinality(Within(history, window, t)) <= limit
<1> DEFINE W == Within(history, window, t)
<1>1. Len(history) \in Nat /\ DOMAIN history = 1..Len(history)
      /\ \A k \in 1..Len(history) : history[k] \in Nat
  BY LenProperties, ElementOfSeq
<1>2. CASE W = {}
  BY <1>2, FS_EmptySet
<1>3. CASE W # {}
  <2>1. W \in SUBSET Nat
    BY <1>1 DEF Within
  <2>2. PICK lo \in W : \A k \in W : lo <= k
    <3> HIDE DEF W
    <3> QED BY <1>3, <2>1, LeastOf
  <2>3. ASSUME NEW k \in W PROVE k \in lo..(lo + limit - 1)
    <3>1. /\ k \in 1..Len(history) /\ lo \in 1..Len(history) /\ lo <= k
          /\ history[k] <= t /\ history[lo] > t - window
      BY <1>1, <2>2 DEF Within
    <3>2. ASSUME k >= lo + limit PROVE FALSE
      <4>1. k > limit /\ k - limit \in 1..Len(history) /\ lo \in 1..(k - limit)
        BY <1>1, <3>1, <3>2
      <4>2. history[k - limit] <= history[k] - window
        BY <3>1, <4>1 DEF Spaced
      <4>3. history[lo] <= history[k - limit]
        BY <4>1 DEF InOrder
      <4>4. history[lo] \in Nat /\ history[k] \in Nat /\ history[k - limit] \in Nat
        BY <1>1, <3>1, <4>1
      <4>5. \A a, b, h \in Nat : ~ (/\ a <= t /\ b > t - window
                                   /\ h <= a - window /\ b <= h)
        OBVIOUS
      <4> HIDE DEF W
      <4> QED BY <3>1, <4>2, <4>3, <4>4, <4>5
    <3> QED BY <3>1, <3>2
  <2>4. W \subseteq lo..(lo + limit - 1) /\ lo \in Int /\ lo + limit - 1 \in Int
    BY <2>1, <2>3
  <2>5. /\ IsFiniteSet(lo..(lo + limit - 1)) /\ Cardinality(lo..(lo + limit - 1)) = limit
    <3> HIDE DEF W
    <3>1. Cardinality(lo..(lo + limit - 1)) =
             IF lo > lo + limit - 1 THEN 0 ELSE lo + limit - 1 - lo + 1
      BY <2>4, FS_Interval
    <3> QED BY <2>4, <3>1, FS_Interval
  <2>6. Cardinality(W) <= Cardinality(lo..(lo + limit - 1))
    <3> HIDE DEF W
    <3> QED BY <2>4, <2>5, FS_Subset
  <2> QED BY <2>5, <2>6
<1> QED BY <1>2, <1>3

\* The tail of a list after its first n entries, and the tail of a tail.
LEMMA TailOf ==
  ASSUME NEW seq \in Seq(Nat), NEW n \in 0..Len(seq)
  PROVE  /\ SubSeq(seq, n + 1, Len(seq)) \in Seq(Nat)
         /\ Len(SubSeq(seq, n + 1, Len(seq))) = Len(seq) - n
         /\ \A i \in 1..(Len(seq) - n) : SubSeq(seq, n + 1, Len(seq))[i] = seq[n + i]
<1>1. Len(seq) \in Nat /\ \A i \in 1..Len(seq) : seq[i] \in Nat
  BY LenProperties, ElementOfSeq
<1> DEFINE len == Len(seq)
           m == n + 1
           tail == SubSeq(seq, m, len)
<1>2. m \in Int /\ len \in Int /\ \A i \in m..len : seq[i] \in Nat
  BY <1>1
<1>3. /\ tail \in Seq(Nat)
      /\ Len(tail) = IF m <= len THEN len - m + 1 ELSE 0
      /\ \A i \in 1..len - m + 1 : tail[i] = seq[m + i - 1]
  <2> HIDE DEF len, m
  <2> QED BY <1>2, SubSeqProperties
<1>4. Len(tail) = len - n
  <2> HIDE DEF tail
  <2> QED BY <1>1, <1>3
<1>5. ASSUME NEW i \in 1..(len - n) PROVE tail[i] = seq[n + i]
  <2>1. i \in 1..len - m + 1 /\ m + i - 1 = n + i
    BY <1>1
  <2> HIDE DEF tail, len, m
  <2>2. tail[i] = seq[m + i - 1]
    BY <1>3, <2>1
  <2> QED BY <2>1, <2>2
<1> QED BY <1>3, <1>4, <1>5

LEMMA AppendIsLonger ==
  ASSUME NEW seq \in Seq(Nat), NEW e \in Nat
  PROVE  /\ Append(seq, e) \in Seq(Nat) /\ Len(Append(seq, e)) = Len(seq) + 1
         /\ \A k \in 1..Len(seq) : Append(seq, e)[k] = seq[k]
         /\ Append(seq, e)[Len(seq) + 1] = e
<1>1. Len(seq) \in Nat
  BY LenProperties
<1> QED BY <1>1

LEMMA TailOfTail ==
  ASSUME NEW seq \in Seq(Nat), NEW d \in 0..Len(seq), NEW tail,
         tail = SubSeq(seq, d + 1, Len(seq)), NEW e \in 0..Len(tail)
  PROVE  /\ d + e \in 0..Len(seq)
         /\ SubSeq(tail, e + 1, Len(tail)) = SubSeq(seq, (d + e) + 1, Len(seq))
<1>1. Len(seq) \in Nat
  BY LenProperties
<1>2. /\ tail \in Seq(Nat) /\ Len(tail) = Len(seq) - d
      /\ \A i \in 1..(Len(seq) - d) : tail[i] = seq[d + i]
  BY TailOf
<1>3. d + e \in 0..Len(seq)
  BY <1>1, <1>2
<1> DEFINE n == d + e
           r == SubSeq(tail, e + 1, Len(tail))
           s == SubSeq(seq, n + 1, Len(seq))
<1>4. /\ r \in Seq(Nat) /\ Len(r) = Len(tail) - e
      /\ \A i \in 1..(Len(tail) - e) : r[i] = tail[e + i]
  BY <1>2, TailOf
<1>5. /\ s \in Seq(Nat) /\ Len(s) = Len(seq) - n
      /\ \A i \in 1..(Len(seq) - n) : s[i] = seq[n + i]
  <2> HIDE DEF n
  <2> QED BY <1>3, TailOf DEF n
<1>6. Len(r) = Len(s)
  <2> HIDE DEF r, s
  <2> QED BY <1>1, <1>2, <1>4, <1>5
<1>7. ASSUME NEW i \in 1..Len(r) PROVE r[i] = s[i]
  <2> HIDE DEF r, s
  <2>1. i \in 1..(Len(tail) - e) /\ e + i \in 1..(Len(seq) - d) /\ i \in 1..(Len(seq) - n)
    BY <1>1, <1>2, <1>4
  <2>2. r[i] = tail[e + i] /\ tail[e + i] = seq[d + (e + i)] /\ s[i] = seq[n + i]
    BY <1>2, <1>4, <1>5, <2>1
  <2>3. d + (e + i) = n + i
    BY <1>1, <1>2, <2>1
  <2> QED BY <2>2, <2>3
<1>8. r = s
  <2> HIDE DEF r, s
  <2> QED BY <1>4, <1>5, <1>6, <1>7, SeqEqual
<1> QED BY <1>3, <1>8

\* A limiter that drops what is older than the window still remembers all within it.
LEMMA PruningRemembers ==
  ASSUME NEW times, NEW history, NEW limit \in Nat \ {0}, NEW window \in Nat, NEW now \in Nat,
         Counts(times, history, limit, window, now)
  PROVE  \E n \in 0..Len(history) :
            /\ LaterThan(now - window, times) = SubSeq(history, n + 1, Len(history))
            /\ \A k \in 1..n : history[k] <= now - window
<1>1. /\ history \in Seq(Nat) /\ Len(history) \in Nat
      /\ \A k \in 1..Len(history) : history[k] \in Nat
  BY LenProperties, ElementOfSeq DEF Counts
<1>2. PICK d \in 0..Len(history) :
          /\ times = SubSeq(history, d + 1, Len(history))
          /\ \A k \in 1..d : history[k] <= now - window
  BY DEF Counts, Remembers
<1>3. /\ times \in Seq(Nat) /\ Len(times) = Len(history) - d
      /\ \A k \in 1..(Len(history) - d) : times[k] = history[d + k]
  BY <1>1, <1>2, TailOf
<1>4. \A k \in 1..Len(times) : \A j \in 1..k : times[j] <= times[k]
  <2> SUFFICES ASSUME NEW k \in 1..Len(times), NEW j \in 1..k PROVE times[j] <= times[k]
    OBVIOUS
  <2>1. d + k \in 1..Len(history) /\ d + j \in 1..(d + k) /\ j \in 1..Len(times)
    BY <1>1, <1>3
  <2>2. history[d + j] <= history[d + k]
    BY <2>1 DEF Counts, InOrder
  <2> QED BY <1>3, <2>1, <2>2
<1>5. PICK e \in 0..Len(times) :
          /\ LaterThan(now - window, times) = SubSeq(times, e + 1, Len(times))
          /\ \A k \in 1..Len(times) : times[k] > now - window <=> k > e
  <2>1. now - window \in Int
    OBVIOUS
  <2> QED BY <1>3, <1>4, <2>1, LaterThanFilters
<1>6. /\ d + e \in 0..Len(history)
      /\ LaterThan(now - window, times) = SubSeq(history, (d + e) + 1, Len(history))
  <2>1. history \in Seq(Nat) /\ d \in 0..Len(history) /\ e \in 0..Len(times)
        /\ times = SubSeq(history, d + 1, Len(history))
    BY <1>1, <1>2
  <2>2. /\ d + e \in 0..Len(history)
        /\ SubSeq(times, e + 1, Len(times)) = SubSeq(history, (d + e) + 1, Len(history))
    BY ONLY <2>1, TailOfTail
  <2> QED BY <1>5, <2>2
<1>7. ASSUME NEW k \in 1..(d + e) PROVE history[k] <= now - window
  <2>1. CASE k <= d
    BY <1>2, <2>1
  <2>2. CASE k > d
    <3>1. k - d \in 1..(Len(history) - d) /\ k - d \in 1..Len(times) /\ ~(k - d > e)
          /\ d + (k - d) = k /\ k \in 1..Len(history)
      BY <1>1, <1>3, <1>6, <2>2
    <3>2. times[k - d] = history[d + (k - d)]
      BY <1>3, <3>1
    <3>3. ~(times[k - d] > now - window) /\ times[k - d] = history[k]
      BY <1>5, <3>1, <3>2
    <3>4. history[k] \in Nat
      BY <1>1, <3>1
    <3> QED BY <3>3, <3>4
  <2> QED BY <2>1, <2>2
<1> QED BY <1>6, <1>7

LEMMA PrunedCounts ==
  ASSUME NEW times, NEW history, NEW limit \in Nat \ {0}, NEW window \in Nat, NEW now \in Nat,
         Counts(times, history, limit, window, now)
  PROVE  Counts(LaterThan(now - window, times), history, limit, window, now)
BY PruningRemembers DEF Counts, Remembers

\* An entry is let in only when fewer than `limit` are within the window, so the
\* one `limit` places before it has been forgotten and is at least a window older.
LEMMA LettingInCounts ==
  ASSUME NEW times, NEW history, NEW limit \in Nat \ {0}, NEW window \in Nat, NEW now \in Nat,
         NEW cap \in Nat, limit <= cap,
         Counts(times, history, limit, window, now), Len(LaterThan(now - window, times)) < limit
  PROVE  Counts(Capped(Append(LaterThan(now - window, times), now), cap),
                Append(history, now), limit, window, now)
<1> DEFINE longer == Append(history, now)
           len == Len(history)
           kept == LaterThan(now - window, times)
<1>1. /\ history \in Seq(Nat) /\ len \in Nat
      /\ \A k \in 1..len : history[k] \in Nat
  BY LenProperties, ElementOfSeq DEF Counts
<1>2. PICK n \in 0..len :
          /\ kept = SubSeq(history, n + 1, len)
          /\ \A k \in 1..n : history[k] <= now - window
  BY PruningRemembers
<1>3. /\ longer \in Seq(Nat) /\ Len(longer) = len + 1
      /\ \A k \in 1..len : longer[k] = history[k]
      /\ longer[len + 1] = now
  BY <1>1, AppendIsLonger
<1>4. /\ kept \in Seq(Nat) /\ Len(kept) = len - n
      /\ \A i \in 1..(len - n) : kept[i] = history[n + i]
  BY <1>1, <1>2, TailOf
<1>5. Capped(Append(kept, now), cap) = Append(kept, now)
  <2>1. Len(Append(kept, now)) = (len - n) + 1
    <3>1. kept \in Seq(Nat) /\ Len(kept) = len - n
      BY <1>4
    <3>2. Len(Append(kept, now)) = Len(kept) + 1
      BY ONLY <3>1, now \in Nat, AppendIsLonger
    <3> QED BY <3>1, <3>2
  <2>2. ~((len - n) + 1 > cap)
    BY <1>1, <1>4
  <2> QED BY <2>1, <2>2 DEF Capped
<1>6. InOrder(longer, now)
  <2> SUFFICES ASSUME NEW k \in 1..(len + 1), NEW j \in 1..k
               PROVE  longer[k] <= now /\ longer[j] <= longer[k]
    BY <1>1, <1>3 DEF InOrder
  <2>1. CASE k \in 1..len
    <3>1. j \in 1..len
      BY <1>1, <2>1
    <3> HIDE DEF longer, len
    <3> QED BY <1>3, <2>1, <3>1 DEF Counts, InOrder, len
  <2>2. CASE k = len + 1 /\ j \in 1..len
    <3>1. history[j] <= now
      BY <2>2 DEF Counts, InOrder
    <3>2. longer[k] = now /\ longer[j] = history[j]
      BY <1>3, <2>2
    <3> HIDE DEF longer, len
    <3> QED BY <3>1, <3>2
  <2>3. CASE k = len + 1 /\ j = len + 1
    <3> HIDE DEF longer, len
    <3> QED BY <1>3, <2>3
  <2> QED BY <1>1, <2>1, <2>2, <2>3
<1>7. Spaced(longer, limit, window)
  <2> SUFFICES ASSUME NEW k \in 1..(len + 1), k > limit
               PROVE  longer[k - limit] <= longer[k] - window
    BY <1>1, <1>3 DEF Spaced
  <2>1. CASE k \in 1..len
    <3>1. k - limit \in 1..len
      BY <1>1, <2>1
    <3>2. history[k - limit] <= history[k] - window
      BY <2>1 DEF Counts, Spaced
    <3> HIDE DEF longer, len
    <3> QED BY <1>3, <2>1, <3>1, <3>2
  <2>2. CASE k = len + 1
    <3>1. k - limit \in 1..n /\ k - limit \in 1..len
      BY <1>1, <1>4, <2>2
    <3>2. history[k - limit] <= now - window
      BY <1>2, <3>1
    <3>3. longer[k] = now /\ longer[k - limit] = history[k - limit]
      BY <1>3, <2>2, <3>1
    <3> HIDE DEF longer, len
    <3> QED BY <3>2, <3>3
  <2>3. k \in 1..len \/ k = len + 1
    BY <1>1
  <2> QED BY <2>1, <2>2, <2>3
<1>8. Remembers(Append(kept, now), longer, window, now)
  <2> DEFINE r == Append(kept, now)
             s == SubSeq(longer, n + 1, Len(longer))
  <2>1. /\ r \in Seq(Nat) /\ Len(r) = (len - n) + 1
        /\ \A i \in 1..(len - n) : r[i] = history[n + i]
        /\ r[(len - n) + 1] = now
    BY <1>4, AppendIsLonger
  <2>2. /\ s \in Seq(Nat) /\ Len(s) = Len(longer) - n
        /\ \A i \in 1..(Len(longer) - n) : s[i] = longer[n + i]
    <3>1. n \in 0..Len(longer)
      BY <1>1, <1>3
    <3> HIDE DEF longer
    <3> QED BY <1>3, <3>1, TailOf
  <2>3. Len(r) = Len(s)
    <3> HIDE DEF r, s, longer
    <3> QED BY <1>1, <1>3, <2>1, <2>2
  <2>4. ASSUME NEW i \in 1..Len(r) PROVE r[i] = s[i]
    <3> HIDE DEF r, s, longer
    <3>1. i \in 1..(Len(longer) - n)
      BY <1>1, <1>3, <2>1
    <3>2. s[i] = longer[n + i]
      BY <2>2, <3>1
    <3>3. CASE i \in 1..(len - n)
      <4>1. n + i \in 1..len
        BY <1>1, <3>3
      <4> QED BY <1>3, <2>1, <3>2, <3>3, <4>1
    <3>4. CASE i = (len - n) + 1
      <4>1. n + i = len + 1
        BY <1>1, <3>4
      <4> QED BY <1>3, <2>1, <3>2, <3>4, <4>1
    <3> QED BY <1>1, <2>1, <3>3, <3>4
  <2>5. r = s
    <3> HIDE DEF r, s
    <3> QED BY <2>1, <2>2, <2>3, <2>4, SeqEqual
  <2>6. \A k \in 1..n : longer[k] <= now - window
    <3>1. \A k \in 1..n : k \in 1..len
      BY <1>1
    <3> HIDE DEF longer, len
    <3> QED BY <1>2, <1>3, <3>1
  <2>7. n \in 0..Len(longer)
    BY <1>1, <1>3
  <2>8. Remembers(r, longer, window, now)
    <3> HIDE DEF r, longer
    <3> QED BY <2>5, <2>6, <2>7 DEF Remembers
  <2> QED BY <2>8
<1>9. Counts(Append(kept, now), longer, limit, window, now)
  <2> HIDE DEF longer
  <2> QED BY <1>3, <1>6, <1>7, <1>8 DEF Counts
<1> QED BY <1>5, <1>9

LEMMA NothingYetCounts ==
  ASSUME NEW limit \in Nat \ {0}, NEW window \in Nat, NEW now \in Nat
  PROVE  Counts(<<>>, <<>>, limit, window, now)
<1>1. <<>> \in Seq(Nat) /\ Len(<<>>) = 0
  BY EmptySeq
<1>2. <<>> = SubSeq(<<>>, 0 + 1, Len(<<>>))
  BY <1>1, SubSeqEmpty
<1>3. Remembers(<<>>, <<>>, window, now)
  BY <1>1, <1>2 DEF Remembers
<1> QED BY <1>1, <1>3 DEF Counts, InOrder, Spaced

\* What is old stays old.
LEMMA LaterCounts ==
  ASSUME NEW times, NEW history, NEW limit \in Nat \ {0}, NEW window \in Nat,
         NEW now \in Nat, NEW then \in Nat, now <= then,
         Counts(times, history, limit, window, now)
  PROVE  Counts(times, history, limit, window, then)
<1>1. /\ history \in Seq(Nat) /\ Len(history) \in Nat
      /\ \A k \in 1..Len(history) : history[k] \in Nat
  BY LenProperties, ElementOfSeq DEF Counts
<1>2. InOrder(history, then)
  BY <1>1 DEF Counts, InOrder
<1>3. Remembers(times, history, window, then)
  <2>1. PICK n \in 0..Len(history) :
            /\ times = SubSeq(history, n + 1, Len(history))
            /\ \A k \in 1..n : history[k] <= now - window
    BY DEF Counts, Remembers
  <2>2. ASSUME NEW k \in 1..n PROVE history[k] <= then - window
    <3>1. k \in 1..Len(history) /\ history[k] <= now - window
      BY <1>1, <2>1
    <3> QED BY <1>1, <3>1
  <2> QED BY <2>1, <2>2 DEF Remembers
<1> QED BY <1>2, <1>3 DEF Counts
-----------------------------------------------------------------------------
LEMMA InitCounts == Init => RateInv
<1> SUFFICES ASSUME Init PROVE RateInv
  OBVIOUS
<1>1. \A c \in Conns : Counts(requestTimes[c], let[c], RequestLimit, RequestWindow, clock)
  BY NothingYetCounts, ServerAssumption DEF Init
<1>2. \A c \in Conns : Counts(messageTimes[c], heard[c], MessageLimit, MessageWindow, clock)
  BY NothingYetCounts, ServerAssumption DEF Init
<1> QED BY <1>1, <1>2 DEF Init, RateInv

\* What a message limiter does with a message that is let in.
LEMMA HearingCounts ==
  ASSUME IInv, RateInv, NEW c \in Conns, Hear(c), clock' = clock
  PROVE  /\ messageTimes' = [d \in Conns |-> messageTimes'[d]]
         /\ heard' = [d \in Conns |-> heard'[d]]
         /\ MessageLimit <= MessageCap => \A d \in Conns :
                Counts(messageTimes'[d], heard'[d], MessageLimit, MessageWindow, clock')
<1> DEFINE kept == LaterThan(clock - MessageWindow, messageTimes[c])
           noted == Capped(Append(kept, clock), MessageCap)
<1>1. c \in limited
  BY DEF IInv, BooksBalance, Hear
<1>2. Len(kept) < MessageLimit
  BY <1>1 DEF Hear, MessageAllowed, Recent
<1>3. messageTimes' = [messageTimes EXCEPT ![c] = noted]
  BY DEF Hear, RecordMessage, Recent
<1>4. heard' = [heard EXCEPT ![c] = Append(@, clock)]
  BY DEF Hear
<1>5. ASSUME MessageLimit <= MessageCap
      PROVE  Counts(noted, Append(heard[c], clock), MessageLimit, MessageWindow, clock)
  <2>1. Counts(messageTimes[c], heard[c], MessageLimit, MessageWindow, clock)
    BY <1>5 DEF RateInv
  <2>2. /\ MessageLimit \in Nat \ {0} /\ MessageWindow \in Nat
        /\ MessageCap \in Nat /\ clock \in Nat
    BY ServerAssumption DEF RateInv
  <2> QED BY <1>2, <1>5, <2>1, <2>2, LettingInCounts
<1> HIDE DEF noted, kept
<1>6. /\ messageTimes'[c] = noted /\ heard'[c] = Append(heard[c], clock)
      /\ \A d \in Conns \ {c} : messageTimes'[d] = messageTimes[d] /\ heard'[d] = heard[d]
  BY <1>3, <1>4 DEF RateInv
<1>7. /\ messageTimes' = [d \in Conns |-> messageTimes'[d]]
      /\ heard' = [d \in Conns |-> heard'[d]]
  BY <1>3, <1>4 DEF RateInv
<1>8. ASSUME MessageLimit <= MessageCap, NEW d \in Conns
      PROVE  Counts(messageTimes'[d], heard'[d], MessageLimit, MessageWindow, clock')
  <2>1. CASE d = c
    BY <1>5, <1>6, <1>8, <2>1
  <2>2. CASE d # c
    BY <1>6, <1>8, <2>2 DEF RateInv
  <2> QED BY <2>1, <2>2
<1> QED BY <1>7, <1>8

\* The request limiter when a request is let in, and when it is one too many.
LEMMA LettingRequestInCounts ==
  ASSUME IInv, RateInv, NEW c \in Conns, at[c] = "open", RequestAllowed(c), RecordRequest(c),
         let' = [let EXCEPT ![c] = Append(@, clock)], clock' = clock
  PROVE  /\ requestTimes' = [d \in Conns |-> requestTimes'[d]]
         /\ let' = [d \in Conns |-> let'[d]]
         /\ RequestLimit <= RequestCap => \A d \in Conns :
                Counts(requestTimes'[d], let'[d], RequestLimit, RequestWindow, clock')
<1> DEFINE kept == LaterThan(clock - RequestWindow, requestTimes[c])
           noted == Capped(Append(kept, clock), RequestCap)
<1>1. c \in limited
  BY DEF IInv, BooksBalance
<1>2. Len(kept) < RequestLimit
  BY <1>1 DEF RequestAllowed, Recent
<1>3. requestTimes' = [requestTimes EXCEPT ![c] = noted]
  BY DEF RecordRequest, Recent
<1>4. ASSUME RequestLimit <= RequestCap
      PROVE  Counts(noted, Append(let[c], clock), RequestLimit, RequestWindow, clock)
  <2>1. Counts(requestTimes[c], let[c], RequestLimit, RequestWindow, clock)
    BY <1>4 DEF RateInv
  <2>2. /\ RequestLimit \in Nat \ {0} /\ RequestWindow \in Nat
        /\ RequestCap \in Nat /\ clock \in Nat
    BY ServerAssumption DEF RateInv
  <2> QED BY <1>2, <1>4, <2>1, <2>2, LettingInCounts
<1> HIDE DEF noted, kept
<1>5. /\ requestTimes'[c] = noted /\ let'[c] = Append(let[c], clock)
      /\ \A d \in Conns \ {c} : requestTimes'[d] = requestTimes[d] /\ let'[d] = let[d]
  BY <1>3 DEF RateInv
<1>6. /\ requestTimes' = [d \in Conns |-> requestTimes'[d]]
      /\ let' = [d \in Conns |-> let'[d]]
  BY <1>3 DEF RateInv
<1>7. ASSUME RequestLimit <= RequestCap, NEW d \in Conns
      PROVE  Counts(requestTimes'[d], let'[d], RequestLimit, RequestWindow, clock')
  <2>1. CASE d = c
    BY <1>4, <1>5, <1>7, <2>1
  <2>2. CASE d # c
    BY <1>5, <1>7, <2>2 DEF RateInv
  <2> QED BY <2>1, <2>2
<1> QED BY <1>6, <1>7

LEMMA RefusingRequestCounts ==
  ASSUME RateInv, NEW c \in Conns, ~RequestAllowed(c), RecordRequest(c),
         let' = let, clock' = clock
  PROVE  /\ requestTimes' = [d \in Conns |-> requestTimes'[d]]
         /\ let' = [d \in Conns |-> let'[d]]
         /\ RequestLimit <= RequestCap => \A d \in Conns :
                Counts(requestTimes'[d], let'[d], RequestLimit, RequestWindow, clock')
<1> DEFINE kept == LaterThan(clock - RequestWindow, requestTimes[c])
<1>1. requestTimes' = [requestTimes EXCEPT ![c] = kept]
  BY DEF RecordRequest, Recent
<1>2. ASSUME RequestLimit <= RequestCap
      PROVE  Counts(kept, let[c], RequestLimit, RequestWindow, clock)
  <2>1. Counts(requestTimes[c], let[c], RequestLimit, RequestWindow, clock)
    BY <1>2 DEF RateInv
  <2>2. RequestLimit \in Nat \ {0} /\ RequestWindow \in Nat /\ clock \in Nat
    BY ServerAssumption DEF RateInv
  <2> QED BY <2>1, <2>2, PrunedCounts
<1> HIDE DEF kept
<1>3. /\ requestTimes'[c] = kept
      /\ \A d \in Conns \ {c} : requestTimes'[d] = requestTimes[d]
  BY <1>1 DEF RateInv
<1>4. /\ requestTimes' = [d \in Conns |-> requestTimes'[d]]
      /\ let' = [d \in Conns |-> let'[d]]
  BY <1>1 DEF RateInv
<1>5. ASSUME RequestLimit <= RequestCap, NEW d \in Conns
      PROVE  Counts(requestTimes'[d], let'[d], RequestLimit, RequestWindow, clock')
  <2>1. CASE d = c
    BY <1>2, <1>3, <1>5, <2>1
  <2>2. CASE d # c
    BY <1>3, <1>5, <2>2 DEF RateInv
  <2> QED BY <2>1, <2>2
<1> QED BY <1>4, <1>5

LEMMA RefusingMessageCounts ==
  ASSUME RateInv, NEW c \in Conns, TooManyMessages(c)
  PROVE  RateInv'
<1> DEFINE kept == LaterThan(clock - MessageWindow, messageTimes[c])
<1>1. messageTimes' = [messageTimes EXCEPT ![c] = kept]
  BY DEF TooManyMessages, RecordMessage, Recent
<1>2. UNCHANGED <<clock, requestTimes, let, heard>>
  BY DEF TooManyMessages
<1>3. ASSUME MessageLimit <= MessageCap
      PROVE  Counts(kept, heard[c], MessageLimit, MessageWindow, clock)
  <2>1. Counts(messageTimes[c], heard[c], MessageLimit, MessageWindow, clock)
    BY <1>3 DEF RateInv
  <2>2. MessageLimit \in Nat \ {0} /\ MessageWindow \in Nat /\ clock \in Nat
    BY ServerAssumption DEF RateInv
  <2> QED BY <2>1, <2>2, PrunedCounts
<1> HIDE DEF kept
<1>4. /\ messageTimes'[c] = kept
      /\ \A d \in Conns \ {c} : messageTimes'[d] = messageTimes[d]
      /\ messageTimes' = [d \in Conns |-> messageTimes'[d]]
  BY <1>1 DEF RateInv
<1>5. ASSUME MessageLimit <= MessageCap, NEW d \in Conns
      PROVE  Counts(messageTimes'[d], heard'[d], MessageLimit, MessageWindow, clock')
  <2>1. CASE d = c
    BY <1>2, <1>3, <1>4, <1>5, <2>1
  <2>2. CASE d # c
    BY <1>2, <1>4, <1>5, <2>2 DEF RateInv
  <2> QED BY <2>1, <2>2
<1> QED BY <1>2, <1>4, <1>5 DEF RateInv

LEMMA EndingCounts ==
  ASSUME RateInv, NEW c \in Conns, IsOver(c), clock' = clock
  PROVE  RateInv'
<1>1. /\ requestTimes' = [d \in Conns |-> requestTimes'[d]]
      /\ messageTimes' = [d \in Conns |-> messageTimes'[d]]
      /\ let' = [d \in Conns |-> let'[d]] /\ heard' = [d \in Conns |-> heard'[d]]
  BY DEF IsOver, RateInv
<1>2. /\ requestTimes'[c] = <<>> /\ let'[c] = <<>>
      /\ messageTimes'[c] = <<>> /\ heard'[c] = <<>>
  BY DEF IsOver, RateInv
<1>3. \A d \in Conns \ {c} :
          /\ requestTimes'[d] = requestTimes[d] /\ let'[d] = let[d]
          /\ messageTimes'[d] = messageTimes[d] /\ heard'[d] = heard[d]
  BY DEF IsOver, RateInv
<1>4. /\ Counts(<<>>, <<>>, RequestLimit, RequestWindow, clock)
      /\ Counts(<<>>, <<>>, MessageLimit, MessageWindow, clock)
  BY NothingYetCounts, ServerAssumption DEF RateInv
<1>5. ASSUME RequestLimit <= RequestCap, NEW d \in Conns
      PROVE  Counts(requestTimes'[d], let'[d], RequestLimit, RequestWindow, clock')
  BY <1>2, <1>3, <1>4, <1>5 DEF RateInv
<1>6. ASSUME MessageLimit <= MessageCap, NEW d \in Conns
      PROVE  Counts(messageTimes'[d], heard'[d], MessageLimit, MessageWindow, clock')
  BY <1>2, <1>3, <1>4, <1>6 DEF RateInv
<1> QED BY <1>1, <1>5, <1>6 DEF RateInv

LEMMA ListsStayCount ==
  ASSUME RateInv, UNCHANGED <<requestTimes, let, messageTimes, heard>>,
         clock' = clock \/ clock' = clock + 1
  PROVE  RateInv'
<1>1. clock \in Nat /\ clock' \in Nat /\ clock <= clock'
  BY DEF RateInv
<1>2. ASSUME RequestLimit <= RequestCap, NEW d \in Conns
      PROVE  Counts(requestTimes'[d], let'[d], RequestLimit, RequestWindow, clock')
  <2>1. Counts(requestTimes[d], let[d], RequestLimit, RequestWindow, clock)
    BY <1>2 DEF RateInv
  <2>2. Counts(requestTimes[d], let[d], RequestLimit, RequestWindow, clock')
    BY <1>1, <2>1, LaterCounts, ServerAssumption
  <2> QED BY <2>2
<1>3. ASSUME MessageLimit <= MessageCap, NEW d \in Conns
      PROVE  Counts(messageTimes'[d], heard'[d], MessageLimit, MessageWindow, clock')
  <2>1. Counts(messageTimes[d], heard[d], MessageLimit, MessageWindow, clock)
    BY <1>3 DEF RateInv
  <2>2. Counts(messageTimes[d], heard[d], MessageLimit, MessageWindow, clock')
    BY <1>1, <2>1, LaterCounts, ServerAssumption
  <2> QED BY <2>2
<1> QED BY <1>1, <1>2, <1>3 DEF RateInv

LEMMA StepKeepsRates == IInv /\ RateInv /\ [Next]_vars => RateInv'
<1> SUFFICES ASSUME IInv, RateInv, [Next]_vars PROVE RateInv'
  OBVIOUS
<1>1. ASSUME UNCHANGED <<clock, timeVars>> PROVE RateInv'
  BY <1>1, ListsStayCount DEF timeVars
<1>2. ASSUME NEW c \in Conns, Connect(c) \/ AuthSucceeds(c) \/ AuthFails(c) \/ Disconnect(c)
      PROVE  RateInv'
  BY <1>1, <1>2 DEF Connect, AuthSucceeds, AuthFails, Disconnect
<1>3. ASSUME NEW c \in Conns, Admit(c) PROVE RateInv'
  BY <1>3, ListsStayCount DEF Admit
<1>4. ASSUME NEW c \in Conns,
             Enqueue(c) \/ QueueIsFull(c) \/ ProgressSent(c) \/ Cancel(c) \/ Reply(c)
      PROVE  RateInv'
  BY <1>1, <1>4 DEF Enqueue, QueueIsFull, ProgressSent, Cancel, Reply
<1>5. ASSUME NEW c \in Conns, Ends(c) \/ Raises(c) PROVE RateInv'
  BY <1>5, EndingCounts DEF Ends, Raises
<1>6. ASSUME NEW c \in Conns, TooManyMessages(c) PROVE RateInv'
  BY <1>6, RefusingMessageCounts
<1>7. ASSUME NEW c \in Conns, HandleOther(c) \/ HandleCancel(c) PROVE RateInv'
  <2>1. Hear(c) /\ UNCHANGED <<clock, requestTimes, let>>
    BY <1>7 DEF HandleOther, HandleCancel
  <2> QED BY <2>1, HearingCounts DEF RateInv
<1>8. ASSUME NEW c \in Conns, TooManyRequests(c) PROVE RateInv'
  <2>1. Hear(c) /\ ~RequestAllowed(c) /\ RecordRequest(c) /\ UNCHANGED <<clock, let>>
    BY <1>8 DEF TooManyRequests
  <2> QED BY <2>1, HearingCounts, RefusingRequestCounts DEF RateInv
<1>9. ASSUME NEW c \in Conns, HandleRequest(c) PROVE RateInv'
  <2>1. /\ Hear(c) /\ at[c] = "open" /\ RequestAllowed(c) /\ RecordRequest(c)
        /\ let' = [let EXCEPT ![c] = Append(@, clock)] /\ clock' = clock
    BY <1>9 DEF HandleRequest, Hear
  <2> QED BY <2>1, HearingCounts, LettingRequestInCounts DEF RateInv
<1>10. ASSUME NEW k, NEW i, Take(k, i) PROVE RateInv'
  BY <1>1, <1>10 DEF Take
<1>11. ASSUME Tick PROVE RateInv'
  BY <1>11, ListsStayCount DEF Tick, timeVars
<1>12. ASSUME UNCHANGED vars PROVE RateInv'
  BY <1>1, <1>12 DEF vars
<1> QED
  BY <1>2, <1>3, <1>4, <1>5, <1>6, <1>7, <1>8, <1>9, <1>10, <1>11, <1>12
     DEF Next, Message, Proceeds

\* In no stretch of a window's length does a connection get more requests or more
\* messages in than the limit, for every limit and window, however many
\* connections there are and in whichever order their messages come (property
\* RatesBounded, config.py:185 "Max PROCESS requests per window").
THEOREM RatesAreBounded == Spec => []RatesBounded
<1>1. RateInv => RatesBounded
  <2> SUFFICES ASSUME RateInv, NEW c \in Conns, NEW t \in 0..clock
               PROVE  /\ RequestLimit <= RequestCap =>
                          Cardinality(Within(let[c], RequestWindow, t)) <= RequestLimit
                      /\ MessageLimit <= MessageCap =>
                          Cardinality(Within(heard[c], MessageWindow, t)) <= MessageLimit
    BY DEF RatesBounded
  <2>1. t \in Nat /\ RequestLimit \in Nat \ {0} /\ RequestWindow \in Nat
        /\ MessageLimit \in Nat \ {0} /\ MessageWindow \in Nat
    BY ServerAssumption DEF RateInv
  <2>2. ASSUME RequestLimit <= RequestCap
        PROVE  Cardinality(Within(let[c], RequestWindow, t)) <= RequestLimit
    <3>1. /\ let[c] \in Seq(Nat) /\ InOrder(let[c], clock)
          /\ Spaced(let[c], RequestLimit, RequestWindow)
      BY <2>2 DEF RateInv, Counts
    <3> QED BY <2>1, <3>1, SpacingBounds
  <2>3. ASSUME MessageLimit <= MessageCap
        PROVE  Cardinality(Within(heard[c], MessageWindow, t)) <= MessageLimit
    <3>1. /\ heard[c] \in Seq(Nat) /\ InOrder(heard[c], clock)
          /\ Spaced(heard[c], MessageLimit, MessageWindow)
      BY <2>3 DEF RateInv, Counts
    <3> QED BY <2>1, <3>1, SpacingBounds
  <2> QED BY <2>2, <2>3
<1> QED
  BY <1>1, InitKeepsBooks, StepKeepsBooks, InitCounts, StepKeepsRates, PTL DEF Spec
=============================================================================
