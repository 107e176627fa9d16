------------------------------ MODULE GpuServer ------------------------------
(***************************************************************************)
(* The connections of the server (server.py): the places they take, their  *)
(* authentication, the two rate limiters, and the handlers that put        *)
(* requests into the three queues or cancel them there.  A connection      *)
(* handles one message after the other; its coroutine runs to the next     *)
(* await, so a step here may be several lines there.                       *)
(*                                                                         *)
(* Of a queue the server sees which ids its lookup finds and whether a     *)
(* request was taken; when it is full, what it does with an id it knows    *)
(* and what it hands the worker is module QueueManager; uploads are module *)
(* VideoWorker.  Only the audio queue awaits a client under its lock.      *)
(* Starting and stopping the server are left out.                          *)
(***************************************************************************)
EXTENDS Integers, Sequences, FiniteSets

CONSTANTS
    ConnsMade,        \* bound: how many connections are made
    MaxConnections,   \* config.server.max_connections
    AuthEnabled,      \* config.auth.enabled
    Ids,              \* request ids
    Enabled,          \* the workloads that are configured
    RequestLimit, RequestWindow,   \* rate_limit_requests and _window
    MessageLimit, MessageWindow,   \* rate_limit_messages and _window
    RequestCap, MessageCap,        \* _max_entries of the two limiters
    MaxClock,         \* bound: the last instant of the clock
    MaxMessages       \* bound: text messages of all connections

Conns == 1..ConnsMade    \* in the order they come
None == 0
Workloads == {"audio", "video", "llm"}

ASSUME ServerAssumption ==
    /\ ConnsMade \in Nat /\ MaxConnections \in Nat \ {0}
    /\ AuthEnabled \in BOOLEAN
    /\ "audio" \in Enabled /\ Enabled \subseteq Workloads
    /\ \A n \in {RequestLimit, RequestWindow, MessageLimit, MessageWindow} : n \in Nat \ {0}
    /\ RequestCap \in Nat /\ MessageCap \in Nat
    /\ MaxClock \in Nat /\ MaxMessages \in Nat

VARIABLES
    clock,      \* time.monotonic()
    at,         \* where the coroutine of each connection awaits
    serving,    \* the request a connection's handler is about
    gone,       \* the connections whose peer is gone, until they end
    pending,    \* _pending_connections
    clients,    \* _authenticated_clients
    info,       \* the keys of _client_info
    limited,        \* the keys of _rate_limiters and _message_limiters
    requestTimes,   \* the times each rate limiter remembers
    messageTimes,   \* the times each message limiter remembers
    queued,     \* for each queue the ids _requests finds
    sending,    \* the connection whose enqueue holds the audio lock, or None
    let,        \* history: the times of a connection's requests that were let in
    heard,      \* history: the times of its messages that were let in
    messages    \* history: how many messages came

connVars  == <<at, serving, gone, pending, clients, info>>
timeVars  == <<limited, requestTimes, messageTimes, let, heard, messages>>
queueVars == <<queued, sending>>
vars == <<clock, connVars, timeVars, queueVars>>

NoRequest == [workload |-> "none", id |-> None]

Joining == {"authenticating", "refusing", "greeting"}
Handling == {"enqueueing", "progressing", "cancelling", "replying"}
Phases == Joining \cup Handling \cup {"new", "rejecting", "open", "ended"}
-----------------------------------------------------------------------------
(* The limiters: RateLimitTracker and MessageRateLimiter *)

\* The filter of both limiters.  The clock never goes back, so a list of times is
\* in its order, and the times later than an instant are its last ones.
LaterThan(instant, times) ==
    LET old == CHOOSE n \in 0..Len(times) :
                   \A k \in DOMAIN times : times[k] > instant <=> k > n
    IN  SubSeq(times, old + 1, Len(times))

\* Mutated form: counts a window that is one instant too short.
TooRecent(times, window) == LaterThan(clock - window + 1, times)

Recent(times, window) == LaterThan(clock - window, times)

\* The list keeps its last entries only.
Capped(times, cap) ==
    IF Len(times) > cap THEN SubSeq(times, Len(times) - cap + 1, Len(times)) ELSE times

\* check_and_record()
MessageAllowed(c) == c \in limited => Len(Recent(messageTimes[c], MessageWindow)) < MessageLimit

RecordMessage(c) ==
    messageTimes' = [messageTimes EXCEPT ![c] =
        IF MessageAllowed(c)
        THEN Capped(Append(Recent(@, MessageWindow), clock), MessageCap)
        ELSE Recent(@, MessageWindow)]

\* get_request_count(), and record_request() when there is room.
RequestAllowed(c) == c \in limited => Len(Recent(requestTimes[c], RequestWindow)) < RequestLimit

RecordRequest(c) ==
    requestTimes' = [requestTimes EXCEPT ![c] =
        IF RequestAllowed(c)
        THEN Capped(Append(Recent(@, RequestWindow), clock), RequestCap)
        ELSE Recent(@, RequestWindow)]
-----------------------------------------------------------------------------
(* _handle_connection and _authenticate *)

\* Mutated form: only the authenticated connections take a place.
ClientsAtLimit == Cardinality(clients) >= MaxConnections

AtLimit == Cardinality(clients) + Cardinality(pending) >= MaxConnections

\* A connection over the limit is told so and closed.
Connect(c) ==
    /\ at[c] = "new" /\ \A d \in 1..(c - 1) : at[d] # "new"
    /\ IF AtLimit
       THEN at' = [at EXCEPT ![c] = "rejecting"] /\ UNCHANGED pending
       ELSE /\ at' = [at EXCEPT ![c] = IF AuthEnabled THEN "authenticating" ELSE "greeting"]
            /\ pending' = pending \cup {c}
    /\ UNCHANGED <<clock, serving, gone, clients, info, timeVars, queueVars>>

\* The first message did not come in time, or it is no auth message, has another
\* protocol version or a wrong key, or cannot be read.
AuthFails(c) ==
    /\ at[c] = "authenticating"
    /\ at' = [at EXCEPT ![c] = "refusing"]
    /\ UNCHANGED <<clock, serving, gone, pending, clients, info, timeVars, queueVars>>

AuthSucceeds(c) ==
    /\ at[c] = "authenticating" /\ c \notin gone
    /\ info' = info \cup {c}
    /\ at' = [at EXCEPT ![c] = "greeting"]
    /\ UNCHANGED <<clock, serving, gone, pending, clients, timeVars, queueVars>>

\* Mutated form: joins the clients and stays among the pending.
AdmitStaysPending(c) ==
    /\ at[c] = "greeting" /\ c \notin gone
    /\ clients' = clients \cup {c}
    /\ limited' = limited \cup {c}
    /\ at' = [at EXCEPT ![c] = "open"]
    /\ UNCHANGED <<clock, serving, gone, pending, info, requestTimes, messageTimes, let,
                   heard, messages, queueVars>>

\* auth_ok went out: the connection becomes a client with fresh limiters.
Admit(c) ==
    /\ at[c] = "greeting" /\ c \notin gone
    /\ pending' = pending \ {c} /\ clients' = clients \cup {c}
    /\ limited' = limited \cup {c}
    /\ at' = [at EXCEPT ![c] = "open"]
    /\ UNCHANGED <<clock, serving, gone, info, requestTimes, messageTimes, let,
                   heard, messages, queueVars>>

\* Mutated form: a connection that ends leaves its key behind.
ForgetAllButInfo(c) ==
    /\ pending' = pending \ {c} /\ clients' = clients \ {c}
    /\ limited' = limited \ {c}
    /\ UNCHANGED info

\* The finally block.
Forget(c) ==
    /\ pending' = pending \ {c} /\ clients' = clients \ {c}
    /\ info' = info \ {c}
    /\ limited' = limited \ {c}

IsOver(c) ==
    /\ at' = [at EXCEPT ![c] = "ended"]
    /\ serving' = [serving EXCEPT ![c] = NoRequest]
    /\ gone' = gone \ {c}
    /\ requestTimes' = [requestTimes EXCEPT ![c] = <<>>]
    /\ messageTimes' = [messageTimes EXCEPT ![c] = <<>>]
    /\ let' = [let EXCEPT ![c] = <<>>] /\ heard' = [heard EXCEPT ![c] = <<>>]

\* The refusal is sent, or the connection raises where it reads or writes.
Ends(c) ==
    /\ \/ at[c] \in {"refusing", "rejecting"}
       \/ at[c] \in {"authenticating", "greeting", "open", "replying"} /\ c \in gone
    /\ Forget(c) /\ IsOver(c)
    /\ UNCHANGED <<clock, messages, queueVars>>

\* A message that is no JSON object, a write to an upload that fails, or an llm
\* request that raises more than a validation error ends the connection.
Raises(c) ==
    /\ at[c] = "open" /\ c \notin gone
    /\ Forget(c) /\ IsOver(c)
    /\ UNCHANGED <<clock, messages, queueVars>>
-----------------------------------------------------------------------------
(* _handle_message and the handlers *)

\* A text message comes and passes the message limiter.
Hear(c) ==
    /\ at[c] = "open" /\ c \notin gone /\ messages < MaxMessages
    /\ MessageAllowed(c)
    /\ messages' = messages + 1
    /\ RecordMessage(c)
    /\ heard' = [heard EXCEPT ![c] = Append(@, clock)]

\* A text message too many is answered with an error.
TooManyMessages(c) ==
    /\ at[c] = "open" /\ c \notin gone /\ messages < MaxMessages
    /\ ~MessageAllowed(c)
    /\ messages' = messages + 1
    /\ RecordMessage(c)
    /\ at' = [at EXCEPT ![c] = "replying"]
    /\ UNCHANGED <<clock, serving, gone, pending, clients, info, limited, requestTimes,
                   let, heard, queueVars>>

\* A ping, a broken message or a request for a disabled workload or with a wrong
\* field is answered; a second auth message is not (nor is a binary frame, which
\* passes no limiter, unless its upload is unknown).
HandleOther(c) ==
    /\ Hear(c)
    /\ at' = [at EXCEPT ![c] = "replying"]
    /\ UNCHANGED <<clock, serving, gone, pending, clients, info, limited, requestTimes,
                   let, queueVars>>

\* A request that is one too many for the limiter its workloads share.
TooManyRequests(c) ==
    /\ Hear(c) /\ ~RequestAllowed(c)
    /\ RecordRequest(c)
    /\ at' = [at EXCEPT ![c] = "replying"]
    /\ UNCHANGED <<clock, serving, gone, pending, clients, info, limited, let, queueVars>>

\* A valid request is recorded and goes to the queue of its workload.  (The
\* handlers of video requests that resume an upload record them too.)
HandleRequest(c) ==
    /\ Hear(c) /\ RequestAllowed(c)
    /\ RecordRequest(c)
    /\ let' = [let EXCEPT ![c] = Append(@, clock)]
    /\ at' = [at EXCEPT ![c] = "enqueueing"]
    /\ \E k \in Enabled, i \in Ids :
        serving' = [serving EXCEPT ![c] = [workload |-> k, id |-> i]]
    /\ UNCHANGED <<clock, gone, pending, clients, info, limited, queueVars>>

LockFree(k) == k = "audio" => sending = None

\* enqueue(): the audio queue sends a progress message under its lock.
Enqueue(c) ==
    LET k == serving[c].workload
        i == serving[c].id
    IN  /\ at[c] = "enqueueing" /\ LockFree(k)
        /\ queued' = [queued EXCEPT ![k] = @ \cup {i}]
        /\ IF k = "audio"
           THEN sending' = c /\ at' = [at EXCEPT ![c] = "progressing"]
           ELSE at' = [at EXCEPT ![c] = "replying"] /\ UNCHANGED sending
        /\ UNCHANGED <<clock, serving, gone, pending, clients, info, timeVars>>

QueueIsFull(c) ==
    /\ at[c] = "enqueueing" /\ LockFree(serving[c].workload)
    /\ at' = [at EXCEPT ![c] = "replying"]
    /\ UNCHANGED <<clock, serving, gone, pending, clients, info, timeVars, queueVars>>

\* Mutated form: a progress message that cannot be sent keeps the lock.
ProgressLost(c) ==
    /\ at[c] = "progressing"
    /\ sending' = IF c \in gone THEN sending ELSE None
    /\ at' = [at EXCEPT ![c] = "replying"]
    /\ UNCHANGED <<clock, serving, gone, pending, clients, info, timeVars, queued>>

\* The progress message is sent, or lost with its connection.
ProgressSent(c) ==
    /\ at[c] = "progressing"
    /\ sending' = None
    /\ at' = [at EXCEPT ![c] = "replying"]
    /\ UNCHANGED <<clock, serving, gone, pending, clients, info, timeVars, queued>>

HandleCancel(c) ==
    /\ Hear(c)
    /\ at' = [at EXCEPT ![c] = "cancelling"]
    /\ \E i \in Ids : serving' = [serving EXCEPT ![c] = [workload |-> "none", id |-> i]]
    /\ UNCHANGED <<clock, gone, pending, clients, info, limited, requestTimes,
                   let, queueVars>>

\* The queue a cancel finds the id in: audio before video before llm.
FirstQueueWith(i) ==
    IF i \in queued["audio"] THEN {"audio"}
    ELSE IF i \in queued["video"] THEN {"video"}
    ELSE {k \in {"llm"} : i \in queued[k]}

\* The cancel waits for the audio lock, then looks into one queue after another;
\* it confirms or reports that it found nothing.
Cancel(c) ==
    /\ at[c] = "cancelling" /\ LockFree("audio")
    /\ LET i == serving[c].id
       IN  queued' = [k \in Workloads |-> IF k \in FirstQueueWith(i) THEN queued[k] \ {i}
                                          ELSE queued[k]]
    /\ at' = [at EXCEPT ![c] = "replying"]
    /\ UNCHANGED <<clock, serving, gone, pending, clients, info, timeVars, sending>>

\* The handler's answer is sent and the next message read.
Reply(c) ==
    /\ at[c] = "replying" /\ c \notin gone
    /\ at' = [at EXCEPT ![c] = "open"]
    /\ serving' = [serving EXCEPT ![c] = NoRequest]
    /\ UNCHANGED <<clock, gone, pending, clients, info, timeVars, queueVars>>
-----------------------------------------------------------------------------
(* The rest of the world *)

\* (A connection that is about to be closed ends all the same.)
Disconnect(c) ==
    /\ at[c] \notin {"new", "refusing", "rejecting", "ended"} /\ c \notin gone
    /\ gone' = gone \cup {c}
    /\ UNCHANGED <<clock, at, serving, pending, clients, info, timeVars, queueVars>>

\* The worker of a queue takes a request, or finds it expired.
Take(k, i) ==
    /\ LockFree(k) /\ i \in queued[k]
    /\ queued' = [queued EXCEPT ![k] = @ \ {i}]
    /\ UNCHANGED <<clock, connVars, timeVars, sending>>

Tick ==
    /\ clock < MaxClock
    /\ clock' = clock + 1
    /\ UNCHANGED <<connVars, timeVars, queueVars>>

Init ==
    /\ clock = 0
    /\ at = [c \in Conns |-> "new"] /\ serving = [c \in Conns |-> NoRequest]
    /\ gone = {} /\ pending = {} /\ clients = {} /\ info = {}
    /\ limited = {}
    /\ requestTimes = [c \in Conns |-> <<>>] /\ messageTimes = [c \in Conns |-> <<>>]
    /\ queued = [k \in Workloads |-> {}] /\ sending = None
    /\ let = [c \in Conns |-> <<>>] /\ heard = [c \in Conns |-> <<>>] /\ messages = 0

Message(c) ==
    \/ TooManyMessages(c) \/ HandleOther(c) \/ TooManyRequests(c)
    \/ HandleRequest(c) \/ HandleCancel(c) \/ Raises(c)

\* What a connection does of itself, once its turn comes.
Proceeds(c) ==
    \/ AuthFails(c) \/ Admit(c) \/ Ends(c)
    \/ Enqueue(c) \/ QueueIsFull(c) \/ ProgressSent(c) \/ Cancel(c) \/ Reply(c)

Next ==
    \/ \E c \in Conns :
        Connect(c) \/ AuthSucceeds(c) \/ Message(c) \/ Proceeds(c) \/ Disconnect(c)
    \/ \E k \in Enabled, i \in Ids : Take(k, i)
    \/ Tick

Spec == Init /\ [][Next]_vars

\* The event loop runs every connection that can go on, a peer reads what it is
\* sent or is gone, and the wait for the auth message has a timeout.
FairSpec == Spec /\ \A c \in Conns : WF_vars(Proceeds(c))
-----------------------------------------------------------------------------
(* Properties *)

TypeOK ==
    /\ clock \in 0..MaxClock
    /\ at \in [Conns -> Phases]
    /\ serving \in [Conns -> [workload : Enabled \cup {"none"}, id : Ids \cup {None}]]
    /\ gone \subseteq Conns /\ info \subseteq Conns
    /\ requestTimes \in [Conns -> Seq(Nat)] /\ messageTimes \in [Conns -> Seq(Nat)]
    /\ queued \in [Workloads -> SUBSET Ids]
    /\ sending \in Conns \cup {None}
    /\ sending # None => at[sending] = "progressing"

\* Pending and authenticated connections together keep to the limit, also when
\* several authenticate at once (server.py:402 "check TOTAL connections").
PlacesBounded == Cardinality(pending) + Cardinality(clients) <= MaxConnections

\* Each connection the server holds is in one of the two sets and under every
\* key it should be, so that no message of a client passes uncounted; one that
\* was rejected or has ended is nowhere, however it ended.
BooksBalance ==
    /\ pending = {c \in Conns : at[c] \in Joining}
    /\ clients = {c \in Conns : at[c] \in Handling \cup {"open"}}
    /\ info \subseteq pending \cup clients
    /\ limited = clients

Within(times, window, t) == {k \in DOMAIN times : t - window < times[k] /\ times[k] <= t}

\* In no stretch of a window's length does a connection get more requests in than
\* the limit, whichever workloads they are for, nor more messages than theirs
\* (config.py:185 "Max PROCESS requests per window", config.py:188 "Max messages
\* per second per connection"), as long as the limiters remember that many.
RatesBounded ==
    \A c \in Conns, t \in 0..clock :
        /\ RequestLimit <= RequestCap =>
            Cardinality(Within(let[c], RequestWindow, t)) <= RequestLimit
        /\ MessageLimit <= MessageCap =>
            Cardinality(Within(heard[c], MessageWindow, t)) <= MessageLimit

\* Every message is handled to its end, also when it waits for a lock under which
\* another client is sent a message and goes away.
HandlerEnds ==
    \A c \in Conns : (at[c] \in Handling) ~> (at[c] \in {"open", "ended"})

\* No connection keeps its place: it authenticates in time or is closed, and one
\* whose peer is gone leaves whatever its handler was doing.
PlaceIsFreed ==
    \A c \in Conns :
        /\ (c \in pending) ~> (c \notin pending)
        /\ (c \in gone) ~> (at[c] = "ended")
=============================================================================
