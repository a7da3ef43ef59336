--------------------------- MODULE DeviceSessions ---------------------------
(***************************************************************************)
(* modules/broadcast-box: recording sessions of one device.  A start call  *)
(* creates a row, sends a command over one of the device's sockets and     *)
(* waits for its acknowledgement; a stop call, a delete and the end of an  *)
(* upload write the same row; the connection tracker holds what the server *)
(* believes of the device.  The device itself is not in this repository:   *)
(* it records one session at a time and answers a start at most once.      *)
(*                                                                         *)
(* Each action is what one async function does between two awaits; where   *)
(* nothing else can tell two of them apart they are one.                   *)
(***************************************************************************)
EXTENDS Naturals, FiniteSets

CONSTANTS
  Sessions,  \* start calls; each would create one session
  Conns,     \* the device's sockets; a closed one may stand for the next
  None

ASSUME SessionAssumption == None \notin Sessions \cup Conns

VARIABLES
  row,       \* broadcast_sessions.status
  start,     \* where startSession is
  stop,      \* where stopSession is
  tracked,   \* DeviceConnectionTracker.connections: the client id, or None
  busy,      \* activeSessionId of a tracked device that is "recording"
  open,      \* the device's registered sockets
  wire,      \* the messages in flight on each socket
  device,    \* external: what the device records
  acked,     \* history: sessions the device has agreed to record
  strayed    \* history: sessions whose start was sent and never answered, and
             \* those that began to record while a stop that had read pending
             \* was about to complete them

vars == <<row, start, stop, tracked, busy, open, wire, device,
          acked, strayed>>

Rows == {"none", "pending", "recording", "stopping", "complete", "failed",
         "deleted"}
Messages == {"start", "stop", "ack", "nack"} \X Sessions

TypeOK ==
  /\ row \in [Sessions -> Rows]
  /\ start \in [Sessions -> {"idle", "create", "send", "wait", "acked", "mark",
                             "failing", "returned", "lost"}]
  /\ stop \in [Sessions -> {"idle", "finish", "deliver", "write"}]
  /\ tracked \in Conns \cup {None}
  /\ busy \in Sessions \cup {None}
  /\ open \subseteq Conns
  /\ wire \in [Conns -> SUBSET Messages]
  /\ device \in Sessions \cup {None}
  /\ acked \subseteq Sessions
  /\ strayed \subseteq Sessions

Init ==
  /\ row = [s \in Sessions |-> "none"]
  /\ start = [s \in Sessions |-> "idle"]
  /\ stop = [s \in Sessions |-> "idle"]
  /\ tracked = None
  /\ busy = None
  /\ open = {}
  /\ wire = [c \in Conns |-> {}]
  /\ device = None
  /\ acked = {}
  /\ strayed = {}

calls == <<start, stop>>
sockets == <<tracked, open>>
history == <<acked, strayed>>

\* sessionModel.update: a deleted row stays deleted.
Update(s, status) ==
  row' = [row EXCEPT ![s] = IF @ = "deleted" THEN @ ELSE status]

\* Mutant: the entry is given the client for its session.
UpdateDeviceStateSwapped(s) == busy' = IF tracked = None THEN busy ELSE tracked

\* updateDeviceState: nothing happens to a device that is not tracked.
UpdateDeviceState(s) == busy' = IF tracked = None THEN busy ELSE s

Waiting == {s \in Sessions : start[s] = "wait"}

\* pendingAcks: the calls of W stop waiting and go on at the given place.
Settle(W, place) ==
  start' = [s \in Sessions |-> IF s \in W THEN place ELSE start[s]]

\* Start calls that wait for an acknowledgement and now will not get one.
Unanswer(W) == Settle(W, "failing") /\ strayed' = strayed \cup W

-----------------------------------------------------------------------------
(* The device's connections.                                               *)

\* onConnect: registerConnection replaces the tracker's entry.  The handshake
\* may still fail after it, and then no socket is registered.
Connect(c) ==
  /\ c \notin open
  /\ tracked' = c
  /\ busy' = None
  /\ open' \in {open, open \cup {c}}
  /\ UNCHANGED <<row, calls, wire, device, history>>

\* onDisconnect: unregisterConnection removes the device's entry, whichever
\* socket it is of, and rejectPendingForDevice fails every call that waits.
SocketCloses(c) ==
  /\ c \in open
  /\ open' = open \ {c}
  /\ wire' = [wire EXCEPT ![c] = {}]
  /\ tracked' = None
  /\ busy' = None
  /\ Unanswer(Waiting)
  /\ UNCHANGED <<row, stop, device, acked>>

\* cleanupStaleConnections: no status message for the stale timeout, whether
\* or not the socket is still open.
CleanupStaleConnections ==
  /\ tracked # None
  /\ tracked' = None
  /\ busy' = None
  /\ UNCHANGED <<row, calls, open, wire, device, history>>

\* Mutant: a status message never takes a device out of "recording".
ReportOnlyRecording ==
  /\ open # {}
  /\ device # None
  /\ UpdateDeviceState(device)
  /\ UNCHANGED <<row, calls, sockets, wire, device, history>>

\* A status message, or a session.started, session.complete or session.failed
\* event: the tracker takes over what the device says it does.
Report ==
  /\ open # {}
  /\ UpdateDeviceState(device)
  /\ UNCHANGED <<row, calls, sockets, wire, device, history>>

-----------------------------------------------------------------------------
(* startSession.                                                           *)

\* The device is connected and not recording.
StartSession(s) ==
  /\ start[s] = "idle"
  /\ tracked # None
  /\ busy = None
  /\ start' = [start EXCEPT ![s] = "create"]
  /\ UNCHANGED <<row, stop, sockets, busy, wire, device, history>>

\* The record exists: the row is created.
CreateRow(s) ==
  /\ start[s] = "create"
  /\ row' = [row EXCEPT ![s] = "pending"]
  /\ start' = [start EXCEPT ![s] = "send"]
  /\ UNCHANGED <<stop, sockets, busy, wire, device, history>>

\* executeCommand and sendToDevice: to any open socket of the device, tracked
\* or not by now.
SendCommand(s) ==
  /\ start[s] = "send"
  /\ \E c \in open : wire' = [wire EXCEPT ![c] = @ \cup {<<"start", s>>}]
  /\ start' = [start EXCEPT ![s] = "wait"]
  /\ UNCHANGED <<row, stop, sockets, busy, device, history>>

\* The device is not connected, or none of its sockets is open.
CommandRefused(s) ==
  /\ start[s] = "send"
  /\ tracked = None \/ open = {}
  /\ start' = [start EXCEPT ![s] = "failing"]
  /\ UNCHANGED <<row, stop, sockets, busy, wire, device, history>>

\* Mutant: what executeCommand resolves with is not looked at.
AckIgnored(c, s) ==
  /\ \/ <<"ack", s>> \in wire[c] \/ <<"nack", s>> \in wire[c]
  /\ wire' = [wire EXCEPT ![c] = @ \ {<<"ack", s>>, <<"nack", s>>}]
  /\ Settle({s} \cap Waiting, "acked")
  /\ UNCHANGED <<row, stop, sockets, busy, device, history>>

\* handleAckResponse: an answer nobody waits for any more is dropped.
AckArrives(c, s) ==
  /\ \/ /\ <<"ack", s>> \in wire[c]
        /\ Settle({s} \cap Waiting, "acked")
     \/ /\ <<"nack", s>> \in wire[c]
        /\ Settle({s} \cap Waiting, "failing")
  /\ wire' = [wire EXCEPT ![c] = @ \ {<<"ack", s>>, <<"nack", s>>}]
  /\ UNCHANGED <<row, stop, sockets, busy, device, history>>

\* The command's timer.
CommandTimesOut(s) ==
  /\ start[s] = "wait"
  /\ Unanswer({s})
  /\ UNCHANGED <<row, stop, sockets, busy, wire, device, acked>>

\* Mutant: the error is passed on and the row stays as it is.
MarkFailedThrows(s) ==
  /\ start[s] = "failing"
  /\ start' = [start EXCEPT ![s] = "returned"]
  /\ UNCHANGED <<row, stop, sockets, busy, wire, device, history>>

\* No acknowledgement: "mark the session failed and surface the error".
MarkFailed(s) ==
  /\ start[s] = "failing"
  /\ Update(s, "failed")
  /\ start' = [start EXCEPT ![s] = "returned"]
  /\ UNCHANGED <<stop, sockets, busy, wire, device, history>>

\* The device confirmed: the row is recording, whatever became of it since.
MarkRecording(s) ==
  /\ start[s] = "acked"
  /\ Update(s, "recording")
  /\ start' = [start EXCEPT ![s] = IF row[s] = "deleted" THEN "returned" ELSE "mark"]
  /\ strayed' = IF stop[s] = "finish" THEN strayed \cup {s} ELSE strayed
  /\ UNCHANGED <<stop, sockets, busy, wire, device, acked>>

\* After the update's own awaits, the tracker.
TrackRecording(s) ==
  /\ start[s] = "mark"
  /\ UpdateDeviceState(s)
  /\ start' = [start EXCEPT ![s] = "returned"]
  /\ UNCHANGED <<row, stop, sockets, wire, device, history>>

-----------------------------------------------------------------------------
(* stopSession, deleteSession, handleSessionComplete.                      *)

\* Mutant: a session that records is completed like one that never did.
StopReadsLoosely(s) ==
  /\ stop[s] = "idle"
  /\ row[s] \in {"pending", "failed", "recording"}
  /\ stop' = [stop EXCEPT ![s] = "finish"]
  /\ UNCHANGED <<row, start, sockets, busy, wire, device, history>>

\* stopSession decides by the status it reads; it returns at once for a session
\* that is stopping or complete.
StopReads(s) ==
  /\ stop[s] = "idle"
  /\ \/ /\ row[s] \in {"pending", "failed"}
        /\ stop' = [stop EXCEPT ![s] = "finish"]
     \/ /\ row[s] = "recording"
        /\ stop' = [stop EXCEPT ![s] = "deliver"]
  /\ UNCHANGED <<row, start, sockets, busy, wire, device, history>>

\* "Session was never recording or already failed": complete, no command.
StopFinishes(s) ==
  /\ stop[s] = "finish"
  /\ Update(s, "complete")
  /\ IF row[s] = "deleted" THEN UNCHANGED busy ELSE UpdateDeviceState(None)
  /\ stop' = [stop EXCEPT ![s] = "idle"]
  /\ UNCHANGED <<start, sockets, wire, device, history>>

\* deliverToDevice does not look at what sendToDevice returns.
StopDelivers(s) ==
  /\ stop[s] = "deliver"
  /\ IF open = {}
       THEN UNCHANGED wire
       ELSE \E c \in open : wire' = [wire EXCEPT ![c] = @ \cup {<<"stop", s>>}]
  /\ stop' = [stop EXCEPT ![s] = "write"]
  /\ UNCHANGED <<row, start, sockets, busy, device, history>>

\* "Truthful FSM": stopping until the upload finalizes.
StopWrites(s) ==
  /\ stop[s] = "write"
  /\ Update(s, "stopping")
  /\ IF row[s] = "deleted" THEN UNCHANGED busy ELSE UpdateDeviceState(None)
  /\ stop' = [stop EXCEPT ![s] = "idle"]
  /\ UNCHANGED <<start, sockets, wire, device, history>>

\* deleteSession clears the tracker only of this session.
DeleteSession(s) ==
  /\ row[s] \notin {"none", "deleted"}
  /\ row' = [row EXCEPT ![s] = "deleted"]
  /\ busy' = IF busy = s THEN None ELSE busy
  /\ UNCHANGED <<calls, sockets, wire, device, history>>

\* handleSessionComplete: the upload of what the device recorded finalized.
HandleSessionComplete(s) ==
  /\ s \in acked
  /\ device # s
  /\ row[s] \notin {"none", "deleted", "complete"}
  /\ row' = [row EXCEPT ![s] = "complete"]
  /\ UpdateDeviceState(None)
  /\ UNCHANGED <<calls, sockets, wire, device, history>>

-----------------------------------------------------------------------------
(* The device, as the code expects it, and the server's process.           *)

\* It starts and acknowledges, or refuses.
DeviceStarts(c, s) ==
  /\ <<"start", s>> \in wire[c]
  /\ \/ /\ device = None
        /\ device' = s
        /\ acked' = acked \cup {s}
        /\ wire' = [wire EXCEPT ![c] = (@ \ {<<"start", s>>}) \cup {<<"ack", s>>}]
     \/ /\ wire' = [wire EXCEPT ![c] = (@ \ {<<"start", s>>}) \cup {<<"nack", s>>}]
        /\ UNCHANGED <<device, acked>>
  /\ UNCHANGED <<row, calls, sockets, busy, strayed>>

DeviceStops(c, s) ==
  /\ <<"stop", s>> \in wire[c]
  /\ wire' = [wire EXCEPT ![c] = @ \ {<<"stop", s>>}]
  /\ device' = IF device = s THEN None ELSE device
  /\ UNCHANGED <<row, calls, sockets, busy, history>>

\* The recording ends at the device: by hand, on an error or a reboot.
DeviceEnds ==
  /\ device # None
  /\ device' = None
  /\ UNCHANGED <<row, calls, sockets, busy, wire, history>>

\* The server restarts: rows are all that is left of it.
Restart ==
  /\ start' = [s \in Sessions |-> IF start[s] \in {"idle", "returned"} THEN start[s]
                                                                       ELSE "lost"]
  /\ strayed' = strayed \cup {s \in Sessions : start[s] \in {"wait", "acked"}}
  /\ stop' = [s \in Sessions |-> "idle"]
  /\ tracked' = None
  /\ busy' = None
  /\ open' = {}
  /\ wire' = [c \in Conns |-> {}]
  /\ UNCHANGED <<row, device, acked>>

StartStep(s) ==
  \/ CreateRow(s)
  \/ SendCommand(s)
  \/ CommandRefused(s)
  \/ MarkFailed(s)
  \/ MarkRecording(s)
  \/ TrackRecording(s)

Next ==
  \/ \E c \in Conns :
       \/ Connect(c)
       \/ SocketCloses(c)
       \/ \E s \in Sessions :
            \/ AckArrives(c, s)
            \/ DeviceStarts(c, s)
            \/ DeviceStops(c, s)
  \/ \E s \in Sessions :
       \/ StartSession(s)
       \/ StartStep(s)
       \/ CommandTimesOut(s)
       \/ StopReads(s)
       \/ StopFinishes(s)
       \/ StopDelivers(s)
       \/ StopWrites(s)
       \/ DeleteSession(s)
       \/ HandleSessionComplete(s)
  \/ CleanupStaleConnections
  \/ Report
  \/ DeviceEnds
  \/ Restart

Spec == Init /\ [][Next]_vars

\* Awaited statements are answered, the command's timer and the reaper's
\* interval fire, and a connected device keeps sending status messages.
FairSpec ==
  /\ Spec
  /\ \A s \in Sessions : WF_vars(StartStep(s)) /\ WF_vars(CommandTimesOut(s))
  /\ WF_vars(tracked \notin open /\ CleanupStaleConnections)
  /\ WF_vars(Report)

-----------------------------------------------------------------------------
(* Properties.                                                             *)

\* FA-BB-008: a row never says recording, or stopping after it, unless the
\* device agreed to record that session.
RecordingIsAcked ==
  \A s \in Sessions : row[s] \in {"recording", "stopping"} => s \in acked

\* The server knows of whatever the device records: the row says so, or the
\* start is about to; but for a start whose answer was lost, a row that was
\* deleted, and a stop that read the row before the device confirmed.
RecordingIsKnown ==
  \A s \in Sessions :
    device = s => \/ row[s] \in {"recording", "stopping", "deleted"}
                  \/ start[s] \in {"wait", "acked"}
                  \/ s \in strayed

\* Every start call returns, with a session or with an error, or dies with the
\* process, and one that returned left no pending row, whatever stops, deletes and
\* disconnects ran beside it.
StartReturns ==
  \A s \in Sessions :
    start[s] = "create" ~> \/ start[s] = "returned" /\ row[s] # "pending"
                           \/ start[s] = "lost"

\* A device the tracker takes to be recording, and which is not, is free again.
BlockedDeviceRecovers ==
  \A s \in Sessions : busy = s /\ device # s ~> busy # s \/ device = s
-----------------------------------------------------------------------------
(* The invariant behind RecordingIsAcked and RecordingIsKnown.             *)

\* A start, and the answers to it.
Exchange == {"start", "ack", "nack"}

\* A session's start is sent once and answered once: never are two of these
\* messages in flight.
OneExchange ==
  \A s \in Sessions, c, d \in Conns, m, n \in Exchange :
    <<m, s>> \in wire[c] /\ <<n, s>> \in wire[d] => c = d /\ m = n

\* What a message in flight says of the device and of the call.
WireInv ==
  \A s \in Sessions, c \in Conns :
    /\ <<"start", s>> \in wire[c] => s \notin acked /\ (start[s] = "wait" \/ s \in strayed)
    /\ <<"nack", s>> \in wire[c] => s \notin acked
    /\ <<"ack", s>> \in wire[c] => s \in acked

\* What the places of the calls say of it.
CallInv ==
  \A s \in Sessions :
    /\ start[s] \in {"idle", "create", "send"} =>
         s \notin acked /\ \A c \in Conns, m \in Exchange : <<m, s>> \notin wire[c]
    /\ start[s] \in {"acked", "mark"} => s \in acked
    /\ row[s] \in {"recording", "stopping"} \/ stop[s] \in {"deliver", "write"} =>
         start[s] \in {"mark", "returned", "lost"} /\ s \in acked
    /\ stop[s] = "finish" => row[s] \notin {"recording", "stopping"} \/ s \in strayed
    /\ device = s => s \in acked

SessionInv ==
  TypeOK /\ OneExchange /\ WireInv /\ CallInv /\ RecordingIsAcked /\ RecordingIsKnown
=============================================================================
