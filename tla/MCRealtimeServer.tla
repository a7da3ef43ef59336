-------------------------- MODULE MCRealtimeServer --------------------------
(* RealtimeServer on a small instance: two connections of one user to one  *)
(* room, of which one edits; other rooms may hold the whole room cap.      *)
EXTENDS RealtimeServer, TLC

CONSTANTS c1, c2, u1, r1

TwoClients == {c1, c2}
OneUser == {u1}
OneRoom == {r1}
UserOfClient == c1 :> u1 @@ c2 :> u1
RoomOfClient == c1 :> r1 @@ c2 :> r1
=============================================================================
