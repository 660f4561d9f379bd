--------------------------- MODULE NotificationHub ---------------------------
(***************************************************************************)
(* Realtime notifications (internal/notifications) and the order in which  *)
(* cmd/api shuts them down.                                                *)
(*                                                                         *)
(* Service.Send stores a notification, then publishes it with pg_notify.   *)
(* One goroutine per process listens to the PostgreSQL channel and         *)
(* dispatches each event to the channels of the recipient's streams, under *)
(* the read lock of the hub and without waiting for slow streams.  Each    *)
(* GET /api/v1/events request subscribes, forwards its channel to the      *)
(* browser and unsubscribes when it returns.                               *)
(*                                                                         *)
(* The critical sections of the hub never wait inside, so each of them is  *)
(* one step, enabled while the mutex is free.  unsubscribe unlocks without *)
(* defer: when its close panics the mutex is never released.               *)
(***************************************************************************)
EXTENDS Integers, Sequences, FiniteSets

CONSTANTS
    Users,
    Notifications, \* calls of Send
    Recipient,     \* [Notifications -> Users]
    Streams,       \* requests for GET /api/v1/events
    Owner,         \* [Streams -> Users]
    Buffer         \* capacity of a stream's channel (16 in the code)

ASSUME HubAssumption ==
    /\ Recipient \in [Notifications -> Users]
    /\ Owner \in [Streams -> Users]
    /\ Buffer \in Nat \ {0}

VARIABLES
    send,      \* [Notifications -> where the call of Send is]
    published, \* the events notified so far, in the order of the channel
    listening, \* the listener holds a connection with LISTEN
    cursor,    \* position of the next event the listener receives
    clients,   \* streams registered in Hub.clients
    closed,    \* streams whose channel is closed
    channel,   \* [Streams -> buffered events]
    stream,    \* [Streams -> where the request is]
    written,   \* [Streams -> events written to the browser]
    mutex,     \* "free", or "abandoned" by a panic inside the lock
    phase      \* of the process

sending == <<send, published>>
receiver == <<listening, cursor>>
requests == <<channel, stream, written>>
vars == <<sending, receiver, clients, closed, requests, mutex, phase>>

Init ==
    /\ send = [n \in Notifications |-> "new"]
    /\ published = <<>>
    /\ listening = FALSE
    /\ cursor = 1
    /\ clients = {}
    /\ closed = {}
    /\ channel = [s \in Streams |-> <<>>]
    /\ stream = [s \in Streams |-> "new"]
    /\ written = [s \in Streams |-> <<>>]
    /\ mutex = "free"
    /\ phase = "serving"

-----------------------------------------------------------------------------
(* Service.Send *)

\* Mutant: the event is published before its row is inserted.
SendStorePublishing(n) ==
    /\ send[n] = "new"
    /\ published' = Append(published, n)
    /\ UNCHANGED <<send, receiver, clients, closed, requests, mutex, phase>>

\* The row is inserted: the notification can be listed from now on.
SendStore(n) ==
    /\ send[n] = "new"
    /\ send' = [send EXCEPT ![n] = "stored"]
    /\ UNCHANGED <<published, receiver, clients, closed, requests, mutex, phase>>

\* Hub.Publish: pg_notify; or its error, which Send ignores.
SendPublish(n) ==
    /\ send[n] = "stored"
    /\ send' = [send EXCEPT ![n] = "sent"]
    /\ \/ published' = Append(published, n)
       \/ UNCHANGED published
    /\ UNCHANGED <<receiver, clients, closed, requests, mutex, phase>>

-----------------------------------------------------------------------------
(* Hub.Run and Hub.listen *)

\* Mutant: the listener reads the channel again from its start.
ListenReplaying ==
    /\ ~listening
    /\ phase = "serving"
    /\ listening' = TRUE
    /\ cursor' = 1
    /\ UNCHANGED <<sending, clients, closed, requests, mutex, phase>>

\* A connection is acquired and LISTEN executed: earlier events are missed.
Listen ==
    /\ ~listening
    /\ phase = "serving"
    /\ listening' = TRUE
    /\ cursor' = Len(published) + 1
    /\ UNCHANGED <<sending, clients, closed, requests, mutex, phase>>

\* The connection breaks, or the context of the process is done.
Unlisten ==
    /\ listening
    /\ listening' = FALSE
    /\ UNCHANGED <<sending, cursor, clients, closed, requests, mutex, phase>>

HasRoom(s) == Len(channel[s]) < Buffer

Targets(n) == {s \in clients : Owner[s] = Recipient[n]}

\* Mutant: the send to a stream's channel waits for room.
DispatchWaiting ==
    /\ listening
    /\ cursor <= Len(published)
    /\ mutex = "free"
    /\ \A s \in Targets(published[cursor]) : HasRoom(s)
    /\ channel' = [s \in Streams |->
                      IF s \in Targets(published[cursor])
                      THEN Append(channel[s], published[cursor]) ELSE channel[s]]
    /\ cursor' = cursor + 1
    /\ UNCHANGED <<sending, listening, clients, closed, stream, written, mutex, phase>>

\* Mutant: the event goes to every stream.
DispatchToAll ==
    /\ listening
    /\ cursor <= Len(published)
    /\ mutex = "free"
    /\ channel' = [s \in Streams |->
                      IF s \in clients /\ HasRoom(s)
                      THEN Append(channel[s], published[cursor]) ELSE channel[s]]
    /\ cursor' = cursor + 1
    /\ UNCHANGED <<sending, listening, clients, closed, stream, written, mutex, phase>>

\* Mutant: the channel of a stream grows instead of dropping events.
DispatchUnbounded ==
    /\ listening
    /\ cursor <= Len(published)
    /\ mutex = "free"
    /\ channel' = [s \in Streams |->
                      IF s \in Targets(published[cursor])
                      THEN Append(channel[s], published[cursor]) ELSE channel[s]]
    /\ cursor' = cursor + 1
    /\ UNCHANGED <<sending, listening, clients, closed, stream, written, mutex, phase>>

\* Hub.dispatch: a full channel drops the event.
Dispatch ==
    /\ listening
    /\ cursor <= Len(published)
    /\ mutex = "free"
    /\ channel' = [s \in Streams |->
                      IF s \in Targets(published[cursor]) /\ HasRoom(s)
                      THEN Append(channel[s], published[cursor]) ELSE channel[s]]
    /\ cursor' = cursor + 1
    /\ UNCHANGED <<sending, listening, clients, closed, stream, written, mutex, phase>>

-----------------------------------------------------------------------------
(* GET /api/v1/events *)

\* Hub.Subscribe.  The server accepts requests until Server.Shutdown, after
\* the hub was closed.
Subscribe(s) ==
    /\ stream[s] = "new"
    /\ phase # "stopped"
    /\ mutex = "free"
    /\ stream' = [stream EXCEPT ![s] = "open"]
    /\ clients' = clients \cup {s}
    /\ UNCHANGED <<sending, receiver, closed, channel, written, mutex, phase>>

\* An event is received from the channel and written to the browser.
Write(s) ==
    /\ stream[s] = "open"
    /\ channel[s] # <<>>
    /\ written' = [written EXCEPT ![s] = Append(@, Head(channel[s]))]
    /\ channel' = [channel EXCEPT ![s] = Tail(@)]
    /\ UNCHANGED <<sending, receiver, clients, closed, stream, mutex, phase>>

\* The channel is closed and drained, or the browser is gone: return.
Leave(s) ==
    /\ stream[s] = "open"
    /\ stream' = [stream EXCEPT ![s] = "leaving"]
    /\ UNCHANGED <<sending, receiver, clients, closed, channel, written, mutex, phase>>

SeeClosed(s) == s \in closed /\ channel[s] = <<>> /\ Leave(s)

Disconnect(s) == Leave(s)

\* Mutant: the stream stays registered when its channel is closed.
UnsubscribeKeeping(s) ==
    /\ stream[s] = "leaving"
    /\ mutex = "free"
    /\ stream' = [stream EXCEPT ![s] = "done"]
    /\ closed' = closed \cup {s}
    /\ UNCHANGED <<sending, receiver, clients, channel, written, mutex, phase>>

\* The deferred unsubscribe: delete, then close, which panics when the
\* channel is closed already; the panic leaves the mutex locked.
Unsubscribe(s) ==
    /\ stream[s] = "leaving"
    /\ mutex = "free"
    /\ clients' = clients \ {s}
    /\ IF s \in closed
       THEN /\ stream' = [stream EXCEPT ![s] = "panicked"]
            /\ mutex' = "abandoned"
            /\ UNCHANGED closed
       ELSE /\ stream' = [stream EXCEPT ![s] = "done"]
            /\ closed' = closed \cup {s}
            /\ UNCHANGED mutex
    /\ UNCHANGED <<sending, receiver, channel, written, phase>>

-----------------------------------------------------------------------------
(* Shutdown in cmd/api/main.go *)

\* A signal ends the context of the process.
Signal ==
    /\ phase = "serving"
    /\ phase' = "closing"
    /\ UNCHANGED <<sending, receiver, clients, closed, requests, mutex>>

\* Mutant: Close forgets to replace the map.
HubCloseKeeping ==
    /\ phase = "closing"
    /\ mutex = "free"
    /\ closed' = closed \cup clients
    /\ phase' = "draining"
    /\ UNCHANGED <<sending, receiver, clients, requests, mutex>>

\* Hub.Close: every registered channel is closed, the map is replaced.
HubClose ==
    /\ phase = "closing"
    /\ mutex = "free"
    /\ closed' = closed \cup clients
    /\ clients' = {}
    /\ phase' = "draining"
    /\ UNCHANGED <<sending, receiver, requests, mutex>>

\* Server.Shutdown returns: no request is active, or 15 seconds have passed
\* (a request that is still active then goes on until the process has exited).
ServerStopped ==
    /\ phase = "draining"
    /\ phase' = "stopped"
    /\ UNCHANGED <<sending, receiver, clients, closed, requests, mutex>>

-----------------------------------------------------------------------------
Stream(s) == \/ Subscribe(s) \/ Write(s) \/ SeeClosed(s) \/ Disconnect(s)
             \/ Unsubscribe(s)

Next ==
    \/ \E n \in Notifications : SendStore(n) \/ SendPublish(n)
    \/ Listen \/ Unlisten \/ Dispatch
    \/ \E s \in Streams : Stream(s)
    \/ Signal \/ HubClose \/ ServerStopped

Spec == Init /\ [][Next]_vars

\* A stream that returns does return, and the listener handles its events;
\* browsers may be arbitrarily slow.
HubFairness ==
    /\ \A s \in Streams : WF_vars(Unsubscribe(s))
    /\ WF_vars(Dispatch)

FairSpec == Spec /\ HubFairness

\* The process with its shutdown, and browsers that take what is written.
ShutdownSpec == FairSpec
                /\ \A s \in Streams : WF_vars(Write(s)) /\ WF_vars(SeeClosed(s))

-----------------------------------------------------------------------------
\* The types of the variables; a channel holds at most Buffer events.
TypeOK ==
    /\ send \in [Notifications -> {"new", "stored", "sent"}]
    /\ published \in Seq(Notifications)
    /\ listening \in BOOLEAN
    /\ cursor \in 1..(Len(published) + 1)
    /\ clients \subseteq Streams
    /\ closed \subseteq Streams
    /\ channel \in [Streams -> Seq(Notifications)]
    /\ \A s \in Streams : Len(channel[s]) <= Buffer
    /\ stream \in [Streams -> {"new", "open", "leaving", "done", "panicked"}]
    /\ written \in [Streams -> Seq(Notifications)]
    /\ mutex \in {"free", "abandoned"}
    /\ phase \in {"serving", "closing", "draining", "stopped"}

\* dispatch never meets a closed channel (sending on one would panic in the
\* listener and end the process), whatever the order of unsubscribing,
\* closing the hub and dispatching.
NoSendOnClosed ==
    /\ clients \cap closed = {}
    /\ \A s \in clients : stream[s] \in {"open", "leaving"}

\* What a stream was told, in the order it was told.
Told(s) == written[s] \o channel[s]

\* A stream is told of its user's notifications only, each at most once and
\* in the order they were published, through reconnections of the listener
\* and full channels.
ToldInOrder ==
    \A s \in Streams :
        /\ \A k \in 1..Len(Told(s)) : Recipient[Told(s)[k]] = Owner[s]
        /\ \A j, k \in 1..Len(Told(s)) : j < k =>
             \E p, q \in 1..Len(published) :
                p < q /\ published[p] = Told(s)[j] /\ published[q] = Told(s)[k]

\* A browser that is told of a notification can already fetch it.
ToldIsStored ==
    \A s \in Streams : \A k \in 1..Len(Told(s)) : send[Told(s)[k]] # "new"

\* docs/architecture.md: "Browser disconnect: request context cancels; SSE
\* subscriber is removed."  This holds as long as no panic abandons the mutex.
LeaverRemoved ==
    \A s \in Streams : stream[s] = "leaving" ~> s \notin clients \/ mutex = "abandoned"

\* A slow browser never keeps the listener from the events that follow.
DispatchNeverStalls ==
    \A n \in 1..Cardinality(Notifications) :
        (listening /\ cursor = n /\ n <= Len(published))
        ~> (cursor > n \/ ~listening \/ mutex = "abandoned")

\* docs/architecture.md: shutdown "closes SSE clients, drains HTTP": every
\* stream whose channel Close has closed ends its request, be it in the panic
\* that net/http recovers.
StreamsDrain ==
    \A s \in Streams :
        (phase = "draining" /\ s \in closed) ~> stream[s] \in {"done", "panicked"}
=============================================================================
