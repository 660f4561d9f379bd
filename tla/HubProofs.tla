------------------------------ MODULE HubProofs ------------------------------
(***************************************************************************)
(* Proofs about the notification hub: the listener never sends on a closed *)
(* channel, streams are told in order, and only the shutdown panics.       *)
(***************************************************************************)
EXTENDS NotificationHub, TLAPS

(* The types of the hub's variables are an invariant, for any capacity. *)
THEOREM TypeCorrect == Spec => []TypeOK
<1>1. Init => TypeOK
  <2> SUFFICES ASSUME Init PROVE TypeOK
    OBVIOUS
  <2>1. Len(<<>>) = 0 /\ <<>> \in Seq(Notifications)
    OBVIOUS
  <2>2. \A s \in Streams : channel[s] = <<>>
    BY DEF Init
  <2>3. \A s \in Streams : Len(channel[s]) <= Buffer
    BY <2>1, <2>2, HubAssumption
  <2>4. cursor \in 1..(Len(published) + 1)
    BY <2>1 DEF Init
  <2> QED
    BY <2>1, <2>3, <2>4 DEF Init, TypeOK
<1>2. TypeOK /\ [Next]_vars => TypeOK'
  <2> SUFFICES ASSUME TypeOK, [Next]_vars PROVE TypeOK'
    OBVIOUS
  <2> USE HubAssumption DEF TypeOK
  <2>1. ASSUME NEW n \in Notifications, SendStore(n) PROVE TypeOK'
    BY <2>1 DEF SendStore, receiver, requests
  <2>2. ASSUME NEW n \in Notifications, SendPublish(n) PROVE TypeOK'
    <3>1. CASE published' = Append(published, n)
      <4>1. published' \in Seq(Notifications) /\ Len(published') = Len(published) + 1
        BY <3>1
      <4> QED
        BY <2>2, <4>1 DEF SendPublish, receiver, requests
    <3>2. CASE published' = published
      BY <2>2, <3>2 DEF SendPublish, receiver, requests
    <3> QED
      BY <2>2, <3>1, <3>2 DEF SendPublish
  <2>3. CASE Listen
    BY <2>3 DEF Listen, sending, requests
  <2>4. CASE Unlisten
    BY <2>4 DEF Unlisten, sending, requests
  <2>5. CASE Dispatch
    <3>1. published[cursor] \in Notifications
      BY <2>5 DEF Dispatch
    <3>2. channel' \in [Streams -> Seq(Notifications)]
      BY <2>5, <3>1 DEF Dispatch
    <3>3. \A s \in Streams : Len(channel'[s]) <= Buffer
      <4> SUFFICES ASSUME NEW s \in Streams PROVE Len(channel'[s]) <= Buffer
        OBVIOUS
      <4>1. CASE s \in Targets(published[cursor]) /\ HasRoom(s)
        BY <4>1, <2>5, <3>1 DEF Dispatch, HasRoom
      <4>2. CASE ~(s \in Targets(published[cursor]) /\ HasRoom(s))
        BY <4>2, <2>5 DEF Dispatch
      <4> QED
        BY <4>1, <4>2
    <3> QED
      BY <2>5, <3>2, <3>3 DEF Dispatch, sending
  <2>6. ASSUME NEW s \in Streams, Subscribe(s) PROVE TypeOK'
    BY <2>6 DEF Subscribe, sending, receiver
  <2>7. ASSUME NEW s \in Streams, Write(s) PROVE TypeOK'
    <3>1. Head(channel[s]) \in Notifications /\ Tail(channel[s]) \in Seq(Notifications)
          /\ Len(Tail(channel[s])) <= Buffer
      BY <2>7 DEF Write
    <3> QED
      BY <2>7, <3>1 DEF Write, sending, receiver
  <2>8. ASSUME NEW s \in Streams, Leave(s) PROVE TypeOK'
    BY <2>8 DEF Leave, sending, receiver
  <2>9. ASSUME NEW s \in Streams, Unsubscribe(s) PROVE TypeOK'
    BY <2>9 DEF Unsubscribe, sending, receiver
  <2>10. CASE Signal
    BY <2>10 DEF Signal, sending, receiver, requests
  <2>11. CASE HubClose
    BY <2>11 DEF HubClose, sending, receiver, requests
  <2>12. CASE ServerStopped
    BY <2>12 DEF ServerStopped, sending, receiver, requests
  <2>13. CASE UNCHANGED vars
    BY <2>13 DEF vars, sending, receiver, requests
  <2> QED
    BY <2>1, <2>2, <2>3, <2>4, <2>5, <2>6, <2>7, <2>8, <2>9, <2>10, <2>11, <2>12,
       <2>13 DEF Next, Stream, SeeClosed, Disconnect
<1> QED
  BY <1>1, <1>2, PTL DEF Spec

-----------------------------------------------------------------------------
(* A channel is closed only after its stream registered: the strengthening  *)
(* that keeps a later Subscribe from registering a closed channel.          *)
ClosedWasOpen == \A s \in closed : stream[s] # "new"

(* No step lets a registered channel be closed, or a closed one register.   *)
THEOREM ListenerSafe == Spec => []NoSendOnClosed
<1> DEFINE IInv == TypeOK /\ NoSendOnClosed /\ ClosedWasOpen
<1>1. Init => NoSendOnClosed /\ ClosedWasOpen
  BY DEF Init, NoSendOnClosed, ClosedWasOpen
<1>2. IInv /\ [Next]_vars => (NoSendOnClosed /\ ClosedWasOpen)'
  <2> SUFFICES ASSUME IInv, [Next]_vars PROVE (NoSendOnClosed /\ ClosedWasOpen)'
    OBVIOUS
  <2> USE DEF TypeOK, NoSendOnClosed, ClosedWasOpen
  <2>1. CASE UNCHANGED <<clients, closed, stream>>
    BY <2>1
  <2>2. ASSUME NEW s \in Streams, Subscribe(s) PROVE (NoSendOnClosed /\ ClosedWasOpen)'
    BY <2>2 DEF Subscribe
  <2>3. ASSUME NEW s \in Streams, Leave(s) PROVE (NoSendOnClosed /\ ClosedWasOpen)'
    BY <2>3 DEF Leave
  <2>4. ASSUME NEW s \in Streams, Unsubscribe(s) PROVE (NoSendOnClosed /\ ClosedWasOpen)'
    BY <2>4 DEF Unsubscribe
  <2>5. CASE HubClose
    BY <2>5 DEF HubClose, requests
  <2>6. ASSUME ~HubClose,
               \A s \in Streams : ~Subscribe(s) /\ ~Leave(s) /\ ~Unsubscribe(s)
        PROVE  UNCHANGED <<clients, closed, stream>>
    BY <2>6 DEF Next, Stream, SeeClosed, Disconnect, vars, requests,
       SendStore, SendPublish, Listen, Unlisten, Dispatch, Write, Signal,
       ServerStopped
  <2> QED
    BY <2>1, <2>2, <2>3, <2>4, <2>5, <2>6
<1>3. Spec => []TypeOK
  BY TypeCorrect
<1> QED
  BY <1>1, <1>2, <1>3, PTL DEF Spec

-----------------------------------------------------------------------------
(* What a step does to what the streams are told.                           *)

\* Writing the head of the channel to the browser keeps what was told.
LEMMA HeadMoves ==
  ASSUME NEW w \in Seq(Notifications), NEW c \in Seq(Notifications), c # <<>>
  PROVE  Append(w, Head(c)) \o Tail(c) = w \o c
<1> DEFINE left == Append(w, Head(c)) \o Tail(c)
           right == w \o c
<1>1. /\ Append(w, Head(c)) \in Seq(Notifications)
      /\ Len(Append(w, Head(c))) = Len(w) + 1
      /\ \A k \in 1..Len(w) : Append(w, Head(c))[k] = w[k]
      /\ Append(w, Head(c))[Len(w) + 1] = c[1]
  OBVIOUS
<1>2. /\ Tail(c) \in Seq(Notifications)
      /\ Len(Tail(c)) = Len(c) - 1
      /\ \A k \in 1..(Len(c) - 1) : Tail(c)[k] = c[k + 1]
  OBVIOUS
<1>3. left \in Seq(Notifications) /\ right \in Seq(Notifications)
  BY <1>1, <1>2
<1>4. Len(left) = Len(w) + Len(c) /\ Len(right) = Len(w) + Len(c)
  BY <1>1, <1>2
<1>5. ASSUME NEW k \in 1..(Len(w) + Len(c)) PROVE left[k] = right[k]
  <2>1. CASE k <= Len(w)
    BY <1>1, <1>2, <2>1
  <2>2. CASE k = Len(w) + 1
    BY <1>1, <1>2, <2>2
  <2>3. CASE k > Len(w) + 1
    <3>1. left[k] = Tail(c)[k - (Len(w) + 1)] /\ right[k] = c[k - Len(w)]
      BY <1>1, <1>2, <2>3
    <3> QED
      BY <1>2, <2>3, <3>1
  <2> QED
    BY <2>1, <2>2, <2>3
<1> HIDE DEF left, right
<1>6. left = right
  BY <1>3, <1>4, <1>5
<1> QED
  BY <1>6 DEF left, right

\* Adding to the channel adds to what was told.
LEMMA AppendOutside ==
  ASSUME NEW w \in Seq(Notifications), NEW c \in Seq(Notifications), NEW n \in Notifications
  PROVE  w \o Append(c, n) = Append(w \o c, n)
<1> DEFINE left == w \o Append(c, n)
           right == Append(w \o c, n)
<1>1. /\ Append(c, n) \in Seq(Notifications)
      /\ Len(Append(c, n)) = Len(c) + 1
      /\ \A k \in 1..Len(c) : Append(c, n)[k] = c[k]
      /\ Append(c, n)[Len(c) + 1] = n
  OBVIOUS
<1>2. left \in Seq(Notifications) /\ right \in Seq(Notifications)
  BY <1>1
<1>3. Len(left) = Len(w) + Len(c) + 1 /\ Len(right) = Len(w) + Len(c) + 1
  BY <1>1
<1>4. ASSUME NEW k \in 1..(Len(w) + Len(c) + 1) PROVE left[k] = right[k]
  <2>1. CASE k <= Len(w)
    BY <1>1, <2>1
  <2>2. CASE Len(w) < k /\ k <= Len(w) + Len(c)
    BY <1>1, <2>2
  <2>3. CASE k = Len(w) + Len(c) + 1
    BY <1>1, <2>3
  <2> QED
    BY <2>1, <2>2, <2>3
<1> HIDE DEF left, right
<1>5. left = right
  BY <1>2, <1>3, <1>4
<1> QED
  BY <1>5 DEF left, right

\* What a step changes of what a stream was told: nothing, or the event of a
\* dispatch is added at its end.
LEMMA ToldStep ==
  ASSUME TypeOK, [Next]_vars
  PROVE  \/ \A s \in Streams : Told(s)' = Told(s)
         \/ /\ Dispatch
            /\ \A s \in Streams :
                 \/ Told(s)' = Told(s)
                 \/ /\ Owner[s] = Recipient[published[cursor]]
                    /\ Told(s)' = Append(Told(s), published[cursor])
<1> USE DEF TypeOK
<1>1. CASE UNCHANGED <<channel, written>>
  BY <1>1 DEF Told
<1>2. ASSUME NEW s \in Streams, Write(s) PROVE \A t \in Streams : Told(t)' = Told(t)
  <2>1. ASSUME NEW t \in Streams, t # s PROVE Told(t)' = Told(t)
    BY <1>2, <2>1 DEF Write, Told
  <2>2. Told(s)' = Append(written[s], Head(channel[s])) \o Tail(channel[s])
    BY <1>2 DEF Write, Told
  <2>3. Append(written[s], Head(channel[s])) \o Tail(channel[s]) = written[s] \o channel[s]
    BY <1>2, HeadMoves DEF Write
  <2>4. Told(s)' = Told(s)
    BY <1>2, <2>2, <2>3 DEF Write, Told
  <2> QED
    BY <2>1, <2>4
<1>3. ASSUME Dispatch, NEW s \in Streams
      PROVE  \/ Told(s)' = Told(s)
             \/ /\ Owner[s] = Recipient[published[cursor]]
                /\ Told(s)' = Append(Told(s), published[cursor])
  <2>1. CASE s \in Targets(published[cursor]) /\ HasRoom(s)
    <3>1. Told(s)' = written[s] \o Append(channel[s], published[cursor])
      BY <1>3, <2>1 DEF Dispatch, Told
    <3>2. written[s] \in Seq(Notifications) /\ channel[s] \in Seq(Notifications)
      OBVIOUS
    <3>3. published[cursor] \in Notifications
      BY <1>3 DEF Dispatch
    <3>4. written[s] \o Append(channel[s], published[cursor])
             = Append(written[s] \o channel[s], published[cursor])
      BY <3>2, <3>3, AppendOutside
    <3>5. Told(s)' = Append(Told(s), published[cursor])
      BY <3>1, <3>4 DEF Told
    <3> QED
      BY <2>1, <3>5 DEF Targets
  <2>2. CASE ~(s \in Targets(published[cursor]) /\ HasRoom(s))
    BY <1>3, <2>2 DEF Dispatch, Told
  <2> QED
    BY <2>1, <2>2
<1>4. ASSUME ~Dispatch, \A s \in Streams : ~Write(s)
      PROVE  UNCHANGED <<channel, written>>
  BY <1>4 DEF Next, Stream, SeeClosed, Disconnect, Leave, vars,
     requests, SendStore, SendPublish, Listen, Unlisten, Subscribe, Unsubscribe,
     Signal, HubClose, ServerStopped
<1> QED
  BY <1>1, <1>2, <1>3, <1>4

(* The channel of PostgreSQL only grows at its end, by stored notifications. *)
PublishedStored == \A p \in 1..Len(published) : send[published[p]] # "new"

LEMMA PublishedStep ==
  ASSUME TypeOK, PublishedStored, [Next]_vars
  PROVE  /\ Len(published) <= Len(published')
         /\ \A p \in 1..Len(published) : published'[p] = published[p]
         /\ \A n \in Notifications : send[n] # "new" => send'[n] # "new"
         /\ PublishedStored'
<1> USE DEF TypeOK, PublishedStored
<1>1. ASSUME NEW n \in Notifications, SendStore(n)
      PROVE  /\ published' = published
             /\ \A m \in Notifications : send[m] # "new" => send'[m] # "new"
  BY <1>1 DEF SendStore
<1>2. ASSUME NEW n \in Notifications, SendPublish(n)
      PROVE  /\ \/ published' = published
                \/ published' = Append(published, n) /\ send'[n] # "new"
             /\ \A m \in Notifications : send[m] # "new" => send'[m] # "new"
  BY <1>2 DEF SendPublish
<1>3. ASSUME \A n \in Notifications : ~SendStore(n) /\ ~SendPublish(n)
      PROVE  published' = published /\ send' = send
  BY <1>3 DEF Next, Stream, SeeClosed, Disconnect, Leave, vars,
     sending, Listen, Unlisten, Dispatch, Subscribe, Write, Unsubscribe,
     Signal, HubClose, ServerStopped
<1>4. /\ \/ published' = published
         \/ \E n \in Notifications :
               published' = Append(published, n) /\ send'[n] # "new"
      /\ \A m \in Notifications : send[m] # "new" => send'[m] # "new"
  BY <1>1, <1>2, <1>3
<1>5. CASE published' = published
  BY <1>4, <1>5
<1>6. ASSUME NEW n \in Notifications, published' = Append(published, n), send'[n] # "new"
      PROVE  /\ Len(published') = Len(published) + 1
             /\ published'[Len(published) + 1] = n
             /\ \A p \in 1..Len(published) : published'[p] = published[p]
  BY <1>6
<1>7. ASSUME NEW n \in Notifications, published' = Append(published, n), send'[n] # "new"
      PROVE  PublishedStored'
  <2> SUFFICES ASSUME NEW p \in 1..Len(published') PROVE send'[published'[p]] # "new"
    OBVIOUS
  <2>1. CASE p \in 1..Len(published)
    BY <1>4, <1>6, <1>7, <2>1
  <2>2. CASE p = Len(published) + 1
    BY <1>6, <1>7, <2>2
  <2> QED
    BY <1>6, <1>7, <2>1, <2>2
<1> QED
  BY <1>4, <1>5, <1>6, <1>7

-----------------------------------------------------------------------------
(* Two relations between what was told and what was published: t holds only *)
(* events at positions before c, and holds them in the order of positions.  *)
Passed(t, pub, c) ==
    \A k \in 1..Len(t) : \E p \in 1..Len(pub) : p < c /\ pub[p] = t[k]

Ordered(t, pub) ==
    \A j, k \in 1..Len(t) : j < k =>
        \E p, q \in 1..Len(pub) : p < q /\ pub[p] = t[j] /\ pub[q] = t[k]

(* Both survive the growth of the channel and the progress of the listener. *)
LEMMA ToldKept ==
  ASSUME NEW t \in Seq(Notifications),
         NEW pub \in Seq(Notifications), NEW c \in Nat,
         NEW pub2 \in Seq(Notifications), NEW c2 \in Nat,
         Len(pub) <= Len(pub2), \A p \in 1..Len(pub) : pub2[p] = pub[p], c <= c2,
         Passed(t, pub, c), Ordered(t, pub)
  PROVE  Passed(t, pub2, c2) /\ Ordered(t, pub2)
<1>1. ASSUME NEW k \in 1..Len(t)
      PROVE  \E p \in 1..Len(pub2) : p < c2 /\ pub2[p] = t[k]
  <2>1. PICK p \in 1..Len(pub) : p < c /\ pub[p] = t[k]
    BY DEF Passed
  <2>2. p \in 1..Len(pub2) /\ p < c2 /\ pub2[p] = t[k]
    BY <2>1
  <2> QED
    BY <2>2
<1>2. ASSUME NEW j \in 1..Len(t), NEW k \in 1..Len(t), j < k
      PROVE  \E p, q \in 1..Len(pub2) : p < q /\ pub2[p] = t[j] /\ pub2[q] = t[k]
  <2>1. PICK p \in 1..Len(pub), q \in 1..Len(pub) :
           p < q /\ pub[p] = t[j] /\ pub[q] = t[k]
    BY <1>2 DEF Ordered
  <2>2. p \in 1..Len(pub2) /\ q \in 1..Len(pub2)
    OBVIOUS
  <2> QED
    BY <2>1, <2>2
<1> QED
  BY <1>1, <1>2 DEF Passed, Ordered

(* Both survive telling the event at the listener's position.               *)
LEMMA ToldOneMore ==
  ASSUME NEW t \in Seq(Notifications), NEW pub \in Seq(Notifications),
         NEW c \in 1..Len(pub), Passed(t, pub, c), Ordered(t, pub)
  PROVE  /\ Passed(Append(t, pub[c]), pub, c + 1)
         /\ Ordered(Append(t, pub[c]), pub)
<1> DEFINE n == Len(t) + 1
           u == Append(t, pub[c])
<1>1. pub[c] \in Notifications
  OBVIOUS
<1>2. Len(u) = n /\ u[n] = pub[c] /\ \A k \in 1..Len(t) : u[k] = t[k]
  BY <1>1
<1>3. Len(t) \in Nat /\ \A k \in 1..n : k \in 1..Len(t) \/ k = n
  OBVIOUS
<1> HIDE DEF u
<1>4. ASSUME NEW k \in 1..n
      PROVE  \E p \in 1..Len(pub) : p < c + 1 /\ pub[p] = u[k]
  <2>1. CASE k = n
    <3>1. c < c + 1 /\ pub[c] = u[k]
      BY <1>2, <2>1
    <3> QED
      BY <3>1
  <2>2. CASE k \in 1..Len(t)
    <3>1. PICK p \in 1..Len(pub) : p < c /\ pub[p] = t[k]
      BY <2>2 DEF Passed
    <3>2. p < c + 1 /\ pub[p] = u[k]
      BY <1>2, <2>2, <3>1
    <3> QED
      BY <3>2
  <2> QED
    BY <1>3, <2>1, <2>2
<1>5. ASSUME NEW j \in 1..n, NEW k \in 1..n, j < k
      PROVE  \E p, q \in 1..Len(pub) : p < q /\ pub[p] = u[j] /\ pub[q] = u[k]
  <2>1. j \in 1..Len(t) /\ u[j] = t[j]
    BY <1>2, <1>3, <1>5
  <2>2. CASE k = n
    <3>1. PICK p \in 1..Len(pub) : p < c /\ pub[p] = t[j]
      BY <2>1 DEF Passed
    <3>2. p < c /\ pub[p] = u[j] /\ pub[c] = u[k]
      BY <1>2, <2>1, <2>2, <3>1
    <3> QED
      BY <3>2
  <2>3. CASE k \in 1..Len(t)
    <3>1. u[k] = t[k]
      BY <1>2, <2>3
    <3> QED
      BY <1>5, <2>1, <2>3, <3>1 DEF Ordered
  <2> QED
    BY <1>3, <2>2, <2>3
<1>6. Len(u) = n
  BY <1>2
<1>7. Passed(u, pub, c + 1) /\ Ordered(u, pub)
  BY <1>4, <1>5, <1>6 DEF Passed, Ordered
<1> QED
  BY <1>7 DEF u

-----------------------------------------------------------------------------
(* The invariant behind the two properties of what is told.                 *)
ToldRight ==
    \A s \in Streams : /\ \A k \in 1..Len(Told(s)) : Recipient[Told(s)[k]] = Owner[s]
                       /\ Passed(Told(s), published, cursor)
                       /\ Ordered(Told(s), published)

LEMMA ToldTyped ==
  ASSUME TypeOK, NEW s \in Streams
  PROVE  Told(s) \in Seq(Notifications)
BY DEF TypeOK, Told

LEMMA CursorForward ==
  ASSUME TypeOK, [Next]_vars
  PROVE  cursor <= cursor'
<1> USE DEF TypeOK
<1>1. CASE Dispatch
  BY <1>1 DEF Dispatch
<1>2. CASE Listen
  BY <1>2 DEF Listen
<1>3. CASE ~Dispatch /\ ~Listen
  BY <1>3 DEF Next, Stream, SeeClosed, Disconnect, Leave, vars,
     receiver, SendStore, SendPublish, Unlisten, Subscribe, Write, Unsubscribe,
     Signal, HubClose, ServerStopped
<1> QED
  BY <1>1, <1>2, <1>3

(* A stream whose user the event is for is told of it after all that it was *)
(* told before.                                                             *)
LEMMA ToldRightStep ==
  ASSUME TypeOK, TypeOK', PublishedStored, ToldRight, [Next]_vars
  PROVE  ToldRight'
<1>1. /\ Len(published) <= Len(published')
      /\ \A p \in 1..Len(published) : published'[p] = published[p]
      /\ published \in Seq(Notifications) /\ published' \in Seq(Notifications)
  BY PublishedStep DEF TypeOK
<1>2. cursor <= cursor' /\ cursor \in Nat /\ cursor' \in Nat
  BY CursorForward DEF TypeOK
<1>3. SUFFICES ASSUME NEW s \in Streams
      PROVE  /\ \A k \in 1..Len(Told(s)') : Recipient[Told(s)'[k]] = Owner[s]
             /\ Passed(Told(s)', published', cursor')
             /\ Ordered(Told(s)', published')
  BY DEF ToldRight
<1>4. Told(s) \in Seq(Notifications)
  BY ToldTyped
<1>5. /\ \A k \in 1..Len(Told(s)) : Recipient[Told(s)[k]] = Owner[s]
      /\ Passed(Told(s), published, cursor)
      /\ Ordered(Told(s), published)
  BY DEF ToldRight
<1>6. CASE Told(s)' = Told(s)
  BY <1>1, <1>2, <1>4, <1>5, <1>6, ToldKept
<1>7. CASE /\ Dispatch
           /\ Owner[s] = Recipient[published[cursor]]
           /\ Told(s)' = Append(Told(s), published[cursor])
  <2>1. /\ cursor \in 1..Len(published) /\ cursor' = cursor + 1
        /\ published' = published /\ published[cursor] \in Notifications
    BY <1>7 DEF Dispatch, TypeOK, sending
  <2>2. \A k \in 1..Len(Told(s)') : Recipient[Told(s)'[k]] = Owner[s]
    BY <1>4, <1>5, <1>7, <2>1
  <2>3. /\ Passed(Append(Told(s), published[cursor]), published, cursor + 1)
        /\ Ordered(Append(Told(s), published[cursor]), published)
    BY <1>1, <1>4, <1>5, <2>1, ToldOneMore
  <2> QED
    BY <1>7, <2>1, <2>2, <2>3
<1> QED
  BY <1>6, <1>7, ToldStep

LEMMA ToldInvariant == Spec => [](PublishedStored /\ ToldRight)
<1>1. Init => PublishedStored /\ ToldRight
  BY DEF Init, PublishedStored, ToldRight, Passed, Ordered, Told
<1>2. TypeOK /\ TypeOK' /\ PublishedStored /\ ToldRight /\ [Next]_vars
      => (PublishedStored /\ ToldRight)'
  BY PublishedStep, ToldRightStep
<1>3. Spec => []TypeOK
  BY TypeCorrect
<1> QED
  BY <1>1, <1>2, <1>3, PTL DEF Spec

(* Streams are told of their user's notifications only, each once and in    *)
(* the order of publication, whatever is dropped or missed.                 *)
THEOREM OrderedDelivery == Spec => []ToldInOrder
<1>1. ToldRight => ToldInOrder
  BY DEF ToldRight, ToldInOrder, Ordered
<1> QED
  BY <1>1, ToldInvariant, PTL

(* An event a stream was told of is stored: a browser that hears of it can  *)
(* fetch it.                                                                *)
THEOREM TellsStored == Spec => []ToldIsStored
<1>1. PublishedStored /\ ToldRight => ToldIsStored
  BY DEF PublishedStored, ToldRight, Passed, ToldIsStored
<1> QED
  BY <1>1, ToldInvariant, PTL

-----------------------------------------------------------------------------
(* The panic of the shutdown *)

\* Only HubClose closes the channel of a stream that has not returned, and the
\* first of those to unsubscribe panics with the mutex in its hands.
PanicInv ==
    /\ \A s \in closed : stream[s] # "done" => phase \in {"draining", "stopped"}
    /\ \A s \in Streams : stream[s] = "panicked" => s \in closed /\ mutex = "abandoned"
    /\ mutex = "abandoned" => \E s \in Streams : stream[s] = "panicked"
    /\ \A s, t \in Streams : stream[s] = "panicked" /\ stream[t] = "panicked" => s = t

\* The mutex is abandoned only after Hub.Close, and by one stream: while the
\* process serves and until Close has run, nobody waits for the mutex for ever,
\* and the exception LeaverRemoved and DispatchNeverStalls make for an abandoned
\* mutex excuses nothing but the end of a shutdown.
THEOREM OnlyShutdownPanics ==
    Spec => [](/\ phase \in {"serving", "closing"} => mutex = "free"
               /\ \A s, t \in Streams :
                     stream[s] = "panicked" /\ stream[t] = "panicked" => s = t)
<1> DEFINE Excused ==
       /\ phase \in {"serving", "closing"} => mutex = "free"
       /\ \A s, t \in Streams : stream[s] = "panicked" /\ stream[t] = "panicked" => s = t
<1>1. Init => PanicInv
  BY DEF Init, PanicInv
<1>2. TypeOK /\ PanicInv /\ NoSendOnClosed /\ [Next]_vars => PanicInv'
  <2> SUFFICES ASSUME TypeOK, PanicInv, NoSendOnClosed, [Next]_vars PROVE PanicInv'
    OBVIOUS
  <2>0. /\ clients \subseteq Streams
        /\ closed \subseteq Streams
        /\ stream \in [Streams -> {"new", "open", "leaving", "done", "panicked"}]
        /\ mutex \in {"free", "abandoned"}
        /\ phase \in {"serving", "closing", "draining", "stopped"}
    BY DEF TypeOK
  <2>1. ASSUME UNCHANGED <<closed, stream, mutex, phase>> PROVE PanicInv'
    BY <2>1 DEF PanicInv
  <2>2. ASSUME NEW s \in Streams, Subscribe(s) PROVE PanicInv'
    <3>1. stream' = [stream EXCEPT ![s] = "open"] /\ UNCHANGED <<closed, mutex, phase>>
      BY <2>2 DEF Subscribe
    <3> QED
      BY <2>0, <2>2, <3>1 DEF PanicInv, Subscribe
  <2>3. ASSUME NEW s \in Streams, Leave(s) PROVE PanicInv'
    <3>1. /\ stream[s] = "open"
          /\ stream' = [stream EXCEPT ![s] = "leaving"]
          /\ UNCHANGED <<closed, mutex, phase>>
      BY <2>3 DEF Leave
    <3> QED
      BY <2>0, <3>1 DEF PanicInv
  <2>4. ASSUME NEW s \in Streams, Unsubscribe(s) PROVE PanicInv'
    <3>1. stream[s] = "leaving" /\ mutex = "free" /\ UNCHANGED phase
      BY <2>4 DEF Unsubscribe
    <3>2. \A t \in Streams : stream[t] # "panicked"
      BY <3>1 DEF PanicInv
    <3>3. CASE s \in closed
      <4>1. /\ stream' = [stream EXCEPT ![s] = "panicked"]
            /\ mutex' = "abandoned"
            /\ UNCHANGED closed
        BY <2>4, <3>3 DEF Unsubscribe
      <4> QED
        BY <2>0, <3>1, <3>2, <3>3, <4>1 DEF PanicInv
    <3>4. CASE s \notin closed
      <4>1. /\ stream' = [stream EXCEPT ![s] = "done"]
            /\ closed' = closed \cup {s}
            /\ UNCHANGED mutex
        BY <2>4, <3>4 DEF Unsubscribe
      <4> QED
        BY <2>0, <3>1, <3>2, <4>1 DEF PanicInv
    <3> QED
      BY <3>3, <3>4
  <2>5. ASSUME phase' \in {"draining", "stopped"}, UNCHANGED <<stream, mutex>>,
               closed \subseteq closed'
        PROVE PanicInv'
    BY <2>5 DEF PanicInv
  <2>6. ASSUME Signal PROVE PanicInv'
    BY <2>6 DEF Signal, requests, PanicInv
  <2>7. ASSUME HubClose \/ ServerStopped PROVE PanicInv'
    BY <2>5, <2>7 DEF HubClose, ServerStopped, requests
  <2>8. ASSUME NEW n \in Notifications, SendStore(n) \/ SendPublish(n) PROVE PanicInv'
    BY <2>1, <2>8 DEF SendStore, SendPublish, requests
  <2>9. ASSUME Listen \/ Unlisten \/ Dispatch PROVE PanicInv'
    BY <2>1, <2>9 DEF Listen, Unlisten, Dispatch, requests
  <2>10. ASSUME NEW s \in Streams, Write(s) PROVE PanicInv'
    BY <2>1, <2>10 DEF Write
  <2>11. CASE UNCHANGED vars
    BY <2>1, <2>11 DEF vars, requests
  <2> QED
    BY <2>2, <2>3, <2>4, <2>6, <2>7, <2>8, <2>9, <2>10, <2>11
    DEF Next, Stream, SeeClosed, Disconnect
<1>3. TypeOK /\ PanicInv => Excused
  BY DEF PanicInv, TypeOK
<1> QED
  BY <1>1, <1>2, <1>3, TypeCorrect, ListenerSafe, PTL DEF Spec
=============================================================================
