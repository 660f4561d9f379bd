-------------------------- MODULE MCNotificationHub --------------------------
(* Two streams, of two users or of one. *)
EXTENDS NotificationHub, TLC

CONSTANTS u1, u2, s1, s2, n1, n2, n3

TwoUsers == {u1, u2}
TwoStreams == {s1, s2}
TwoOwners == s1 :> u1 @@ s2 :> u2
ThreeNotifications == {n1, n2, n3}
TwoRecipients == n1 :> u1 @@ n2 :> u1 @@ n3 :> u2

OneUser == {u1}
OneOwner == [s \in TwoStreams |-> u1]
TwoNotifications == {n1, n2}
OneRecipient == [n \in TwoNotifications |-> u1]
=============================================================================
