-------------------------- MODULE MCDeviceSessions --------------------------
(* DeviceSessions on a small instance: two starts, of a device that has one *)
(* socket at a time and reconnects as often as it likes.                   *)
EXTENDS DeviceSessions

CONSTANTS s1, s2, c1

TwoSessions == {s1, s2}
OneConn == {c1}
=============================================================================
