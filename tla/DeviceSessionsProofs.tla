------------------------ MODULE DeviceSessionsProofs ------------------------
(* Theorems about recording sessions: SessionInv is inductive, for any      *)
(* number of start calls and any sockets.                                   *)
EXTENDS DeviceSessions, TLAPS

LEMMA SessionInitInv == Init => SessionInv
<1> SUFFICES ASSUME Init PROVE SessionInv
  OBVIOUS
<1>1. TypeOK
  BY DEF Init, TypeOK, Rows
<1>2. OneExchange /\ WireInv /\ CallInv
  BY SessionAssumption DEF Init, OneExchange, WireInv, CallInv, Exchange
<1>3. RecordingIsAcked /\ RecordingIsKnown
  BY SessionAssumption DEF Init, RecordingIsAcked, RecordingIsKnown
<1> QED
  BY <1>1, <1>2, <1>3 DEF SessionInv

-----------------------------------------------------------------------------
(* The type invariant.                                                     *)

LEMMA CallTypes ==
  ASSUME TypeOK, NEW s \in Sessions,
         \/ StartSession(s) \/ StartStep(s) \/ CommandTimesOut(s) \/ StopReads(s)
         \/ StopFinishes(s) \/ StopDelivers(s) \/ StopWrites(s) \/ DeleteSession(s)
         \/ HandleSessionComplete(s)
  PROVE  TypeOK'
<1> USE DEF TypeOK, Rows, calls, sockets, history, UpdateDeviceState, Update
<1>1. CASE StartSession(s)
  BY <1>1 DEF StartSession
<1>2. CASE StartStep(s)
  <2>1. CASE CreateRow(s)
    BY <2>1 DEF CreateRow
  <2>2. CASE SendCommand(s)
    <3>1. <<"start", s>> \in Messages
      BY DEF Messages
    <3> QED
      BY <2>2, <3>1 DEF SendCommand
  <2>3. CASE CommandRefused(s)
    BY <2>3 DEF CommandRefused
  <2>4. CASE MarkFailed(s)
    BY <2>4 DEF MarkFailed
  <2>5. CASE MarkRecording(s)
    BY <2>5 DEF MarkRecording
  <2>6. CASE TrackRecording(s)
    BY <2>6 DEF TrackRecording
  <2> QED
    BY <1>2, <2>1, <2>2, <2>3, <2>4, <2>5, <2>6 DEF StartStep
<1>3. CASE CommandTimesOut(s)
  BY <1>3 DEF CommandTimesOut, Unanswer, Settle
<1>4. CASE StopReads(s)
  BY <1>4 DEF StopReads
<1>5. CASE StopFinishes(s)
  BY <1>5 DEF StopFinishes
<1>6. CASE StopDelivers(s)
  <2>1. <<"stop", s>> \in Messages
    BY DEF Messages
  <2> QED
    BY <1>6, <2>1 DEF StopDelivers
<1>7. CASE StopWrites(s)
  BY <1>7 DEF StopWrites
<1>8. CASE DeleteSession(s)
  BY <1>8 DEF DeleteSession
<1>9. CASE HandleSessionComplete(s)
  BY <1>9 DEF HandleSessionComplete
<1> QED
  BY <1>1, <1>2, <1>3, <1>4, <1>5, <1>6, <1>7, <1>8, <1>9

LEMMA WireTypes ==
  ASSUME TypeOK, NEW c \in Conns,
         \/ Connect(c) \/ SocketCloses(c)
         \/ \E s \in Sessions : AckArrives(c, s) \/ DeviceStarts(c, s) \/ DeviceStops(c, s)
  PROVE  TypeOK'
<1> USE DEF TypeOK, calls, sockets, history
<1>1. CASE Connect(c)
  BY <1>1 DEF Connect
<1>2. CASE SocketCloses(c)
  BY <1>2 DEF SocketCloses, Unanswer, Settle, Waiting
<1>3. ASSUME NEW s \in Sessions, AckArrives(c, s) PROVE TypeOK'
  BY <1>3 DEF AckArrives, Settle, Waiting
<1>4. ASSUME NEW s \in Sessions, DeviceStarts(c, s) PROVE TypeOK'
  <2>1. <<"ack", s>> \in Messages /\ <<"nack", s>> \in Messages
    BY DEF Messages
  <2> QED
    BY <1>4, <2>1 DEF DeviceStarts
<1>5. ASSUME NEW s \in Sessions, DeviceStops(c, s) PROVE TypeOK'
  BY <1>5 DEF DeviceStops
<1> QED
  BY <1>1, <1>2, <1>3, <1>4, <1>5

LEMMA OtherTypes ==
  ASSUME TypeOK, CleanupStaleConnections \/ Report \/ DeviceEnds \/ Restart
  PROVE  TypeOK'
<1> USE DEF TypeOK, calls, sockets, history
<1>1. CASE CleanupStaleConnections
  BY <1>1 DEF CleanupStaleConnections
<1>2. CASE Report
  BY <1>2 DEF Report, UpdateDeviceState
<1>3. CASE DeviceEnds
  BY <1>3 DEF DeviceEnds
<1>4. CASE Restart
  BY <1>4 DEF Restart
<1> QED
  BY <1>1, <1>2, <1>3, <1>4

-----------------------------------------------------------------------------
(* Each step.                                                              *)

\* What no step of the tracker touches.
rowVars == <<row, calls, wire, device, history>>

\* The five parts of the invariant.
Parts == OneExchange /\ WireInv /\ CallInv /\ RecordingIsAcked /\ RecordingIsKnown

LEMMA TrackerKeeps == Parts /\ UNCHANGED rowVars => Parts'
BY DEF Parts, rowVars, calls, history, OneExchange, WireInv, CallInv, RecordingIsAcked,
       RecordingIsKnown

\* The calls move on; rows follow.
LEMMA StartKeeps ==
  ASSUME TypeOK, Parts, NEW s \in Sessions,
         StartStep(s) \/ StartSession(s) \/ CommandTimesOut(s)
  PROVE  Parts'
<1> USE DEF TypeOK, Parts, OneExchange, WireInv, CallInv, RecordingIsAcked, RecordingIsKnown,
            Exchange, calls, sockets, history, Update
<1>1. CASE CreateRow(s)
  BY <1>1 DEF CreateRow
<1>2. CASE SendCommand(s)
  BY <1>2 DEF SendCommand
<1>3. CASE CommandRefused(s)
  BY <1>3 DEF CommandRefused
<1>4. CASE MarkFailed(s)
  BY <1>4 DEF MarkFailed
<1>5. CASE MarkRecording(s)
  BY <1>5 DEF MarkRecording
<1>6. CASE TrackRecording(s)
  BY <1>6 DEF TrackRecording
<1>7. CASE StartSession(s)
  BY <1>7 DEF StartSession
<1>8. CASE CommandTimesOut(s)
  BY <1>8 DEF CommandTimesOut, Unanswer, Settle
<1> QED
  BY <1>1, <1>2, <1>3, <1>4, <1>5, <1>6, <1>7, <1>8 DEF StartStep

\* Stops, deletes and the end of an upload.
LEMMA StopKeeps ==
  ASSUME TypeOK, Parts, NEW s \in Sessions,
         \/ StopReads(s) \/ StopFinishes(s) \/ StopDelivers(s) \/ StopWrites(s)
         \/ DeleteSession(s) \/ HandleSessionComplete(s)
  PROVE  Parts'
<1> USE DEF TypeOK, Parts, OneExchange, WireInv, CallInv, RecordingIsAcked, RecordingIsKnown,
            Exchange, calls, sockets, history, Update
<1>1. CASE StopReads(s)
  BY <1>1 DEF StopReads
<1>2. CASE StopFinishes(s)
  BY <1>2 DEF StopFinishes
<1>3. CASE StopDelivers(s)
  BY <1>3 DEF StopDelivers
<1>4. CASE StopWrites(s)
  BY <1>4 DEF StopWrites
<1>5. CASE DeleteSession(s)
  BY <1>5 DEF DeleteSession
<1>6. CASE HandleSessionComplete(s)
  BY <1>6 DEF HandleSessionComplete
<1> QED
  BY <1>1, <1>2, <1>3, <1>4, <1>5, <1>6

\* Messages that were only taken off the wire.
LEMMA FewerMessages ==
  ASSUME OneExchange, \A d \in Conns : wire'[d] \subseteq wire[d]
  PROVE  OneExchange'
<1> SUFFICES ASSUME NEW s \in Sessions, NEW c \in Conns, NEW d \in Conns,
                    NEW m \in Exchange, NEW n \in Exchange,
                    <<m, s>> \in wire'[c], <<n, s>> \in wire'[d]
             PROVE  c = d /\ m = n
  BY DEF OneExchange
<1>1. <<m, s>> \in wire[c] /\ <<n, s>> \in wire[d]
  OBVIOUS
<1> QED
  BY <1>1 DEF OneExchange

\* Answers arrive, the device acts, a socket takes its messages with it.
LEMMA WireKeeps ==
  ASSUME TypeOK, Parts, NEW c \in Conns,
         \/ SocketCloses(c)
         \/ \E s \in Sessions : AckArrives(c, s) \/ DeviceStarts(c, s) \/ DeviceStops(c, s)
  PROVE  Parts'
<1> USE SessionAssumption DEF TypeOK, Parts, Exchange, calls, sockets, history
<1>1. CASE SocketCloses(c)
  <2>1. \A d \in Conns : wire'[d] \subseteq wire[d]
    BY <1>1 DEF SocketCloses
  <2>2. /\ \A x \in Sessions : start'[x] = IF start[x] = "wait" THEN "failing" ELSE start[x]
        /\ \A x \in Sessions : x \in strayed' <=> x \in strayed \/ start[x] = "wait"
        /\ UNCHANGED <<row, stop, device, acked>>
    BY <1>1 DEF SocketCloses, Unanswer, Settle, Waiting
  <2>3. OneExchange'
    BY <2>1, FewerMessages
  <2>4. WireInv' /\ CallInv'
    BY <2>1, <2>2 DEF WireInv, CallInv
  <2>5. RecordingIsAcked' /\ RecordingIsKnown'
    BY <2>2 DEF RecordingIsAcked, RecordingIsKnown
  <2> QED
    BY <2>3, <2>4, <2>5
<1>2. ASSUME NEW s \in Sessions, AckArrives(c, s) PROVE Parts'
  <2>1. \A d \in Conns : wire'[d] \subseteq wire[d]
    BY <1>2 DEF AckArrives
  <2>2. UNCHANGED <<row, stop, device, acked, strayed>>
    BY <1>2 DEF AckArrives
  <2>3. PICK place \in {"acked", "failing"} :
          /\ start' = [x \in Sessions |-> IF x = s /\ start[x] = "wait" THEN place
                                                                       ELSE start[x]]
          /\ place = "acked" => <<"ack", s>> \in wire[c]
          /\ place = "failing" => <<"nack", s>> \in wire[c]
    BY <1>2 DEF AckArrives, Settle, Waiting
  <2>4. \A d \in Conns : <<"start", s>> \notin wire[d]
    BY <2>3 DEF OneExchange
  <2>5. OneExchange'
    BY <2>1, FewerMessages
  <2>6. WireInv'
    BY <2>1, <2>2, <2>3, <2>4 DEF WireInv
  <2>7. place = "acked" => s \in acked
    BY <2>3 DEF WireInv
  <2>8. place = "failing" => s \notin acked
    BY <2>3 DEF WireInv
  <2>9. CallInv'
    BY <2>1, <2>2, <2>3, <2>7 DEF CallInv
  <2>10. RecordingIsAcked'
    BY <2>2 DEF RecordingIsAcked
  <2>11. RecordingIsKnown'
    BY <2>2, <2>3, <2>8 DEF RecordingIsKnown, CallInv
  <2> QED
    BY <2>5, <2>6, <2>9, <2>10, <2>11
<1>3. ASSUME NEW s \in Sessions, DeviceStarts(c, s) PROVE Parts'
  <2>1. <<"start", s>> \in wire[c] /\ s \notin acked /\ UNCHANGED <<row, start, stop, strayed>>
    BY <1>3 DEF DeviceStarts, WireInv
  <2>2. PICK answer \in {"ack", "nack"} :
          /\ wire' = [wire EXCEPT ![c] = (@ \ {<<"start", s>>}) \cup {<<answer, s>>}]
          /\ answer = "ack" => device' = s /\ acked' = acked \cup {s}
          /\ answer = "nack" => UNCHANGED <<device, acked>>
    BY <1>3 DEF DeviceStarts
  <2>3. ASSUME NEW d \in Conns, NEW m \in Exchange, <<m, s>> \in wire'[d]
        PROVE  d = c /\ m = answer
    <3>1. <<m, s>> \in wire[d] => d = c /\ m = "start"
      BY <2>1 DEF OneExchange
    <3> QED
      BY <2>2, <2>3, <3>1
  <2>4. \A d \in Conns, m \in Exchange, x \in Sessions \ {s} :
          <<m, x>> \in wire'[d] <=> <<m, x>> \in wire[d]
    BY <2>2
  <2>5. OneExchange'
    <3> SUFFICES ASSUME NEW x \in Sessions, NEW d \in Conns, NEW e \in Conns,
                        NEW m \in Exchange, NEW n \in Exchange,
                        <<m, x>> \in wire'[d], <<n, x>> \in wire'[e]
                 PROVE  d = e /\ m = n
      BY DEF OneExchange
    <3>1. CASE x = s
      BY <2>3, <3>1
    <3>2. CASE x # s
      <4>1. <<m, x>> \in wire[d] /\ <<n, x>> \in wire[e]
        BY <2>4, <3>2
      <4> QED
        BY <4>1 DEF OneExchange
    <3> QED
      BY <3>1, <3>2
  <2>6. /\ acked' \in {acked, acked \cup {s}} /\ (answer = "ack" <=> s \in acked')
        /\ device' = s => s \in acked'
        /\ \A x \in Sessions \ {s} : device' = x => device = x
    BY <2>1, <2>2 DEF CallInv
  <2>7. start[s] = "wait" \/ s \in strayed
    BY <2>1 DEF WireInv
  <2>8. WireInv'
    <3> SUFFICES ASSUME NEW x \in Sessions, NEW d \in Conns
                 PROVE  /\ <<"start", x>> \in wire'[d] =>
                             x \notin acked' /\ (start'[x] = "wait" \/ x \in strayed')
                        /\ <<"nack", x>> \in wire'[d] => x \notin acked'
                        /\ <<"ack", x>> \in wire'[d] => x \in acked'
      BY DEF WireInv
    <3>1. CASE x = s
      BY <2>3, <2>6, <3>1
    <3>2. CASE x # s
      BY <2>1, <2>4, <2>6, <3>2 DEF WireInv
    <3> QED
      BY <3>1, <3>2
  <2>9. CallInv'
    <3>1. start[s] \notin {"idle", "create", "send"}
      BY <2>1 DEF CallInv
    <3>2. \A x \in Sessions \ {s} : x \in acked' <=> x \in acked
      BY <2>6
    <3>3. ASSUME NEW x \in Sessions, device' = x PROVE x \in acked'
      <4>1. CASE x = s
        BY <2>6, <3>3, <4>1
      <4>2. CASE x # s
        <5>1. device = x
          BY <2>6, <3>3, <4>2
        <5> QED
          BY <5>1, <3>2, <4>2 DEF CallInv
      <4> QED
        BY <4>1, <4>2
    <3>4. ASSUME NEW x \in Sessions, start'[x] \in {"idle", "create", "send"}
          PROVE  x \notin acked' /\ \A d \in Conns, m \in Exchange : <<m, x>> \notin wire'[d]
      <4>1. x # s /\ start[x] \in {"idle", "create", "send"}
        BY <2>1, <3>1, <3>4
      <4>2. x \notin acked /\ \A d \in Conns, m \in Exchange : <<m, x>> \notin wire[d]
        BY <4>1 DEF CallInv
      <4> QED
        BY <4>1, <4>2, <2>4, <3>2
    <3> QED
      BY <2>1, <2>6, <3>3, <3>4 DEF CallInv
  <2>10. RecordingIsAcked' /\ RecordingIsKnown'
    BY <2>1, <2>6, <2>7 DEF RecordingIsAcked, RecordingIsKnown
  <2> QED
    BY <2>5, <2>8, <2>9, <2>10
<1>4. ASSUME NEW s \in Sessions, DeviceStops(c, s) PROVE Parts'
  <2>1. \A d \in Conns, m \in Exchange, x \in Sessions :
          <<m, x>> \in wire'[d] <=> <<m, x>> \in wire[d]
    BY <1>4 DEF DeviceStops
  <2>2. UNCHANGED <<row, start, stop, acked, strayed>> /\ device' \in {device, None}
    BY <1>4 DEF DeviceStops
  <2>3. OneExchange' /\ WireInv' /\ CallInv'
    BY <2>1, <2>2 DEF OneExchange, WireInv, CallInv
  <2>4. RecordingIsAcked' /\ RecordingIsKnown'
    BY <2>2 DEF RecordingIsAcked, RecordingIsKnown
  <2> QED
    BY <2>3, <2>4
<1> QED
  BY <1>1, <1>2, <1>3, <1>4

\* The recording ends, or the server restarts: every call and message is gone.
LEMMA OtherKeeps ==
  ASSUME TypeOK, Parts, DeviceEnds \/ Restart
  PROVE  Parts'
<1> USE SessionAssumption
    DEF TypeOK, Parts, OneExchange, WireInv, CallInv, RecordingIsAcked, RecordingIsKnown,
        Exchange, calls, sockets, history
<1>1. CASE DeviceEnds
  BY <1>1 DEF DeviceEnds
<1>2. CASE Restart
  BY <1>2 DEF Restart
<1> QED
  BY <1>1, <1>2

-----------------------------------------------------------------------------
(* The theorems.                                                           *)

LEMMA SessionNextInv == SessionInv /\ [Next]_vars => SessionInv'
<1> SUFFICES ASSUME TypeOK, Parts, [Next]_vars PROVE TypeOK' /\ Parts'
  BY DEF SessionInv, Parts
<1>1. CASE UNCHANGED vars
  <2>1. TypeOK'
    BY <1>1 DEF vars, TypeOK, calls, history
  <2>2. UNCHANGED rowVars
    BY <1>1 DEF vars, rowVars, calls, history
  <2> QED
    BY <2>1, <2>2, TrackerKeeps
<1>2. ASSUME NEW c \in Conns, Connect(c) PROVE TypeOK' /\ Parts'
  BY <1>2, WireTypes, TrackerKeeps DEF Connect, rowVars
<1>3. ASSUME NEW c \in Conns,
             \/ SocketCloses(c)
             \/ \E s \in Sessions : AckArrives(c, s) \/ DeviceStarts(c, s) \/ DeviceStops(c, s)
      PROVE  TypeOK' /\ Parts'
  BY <1>3, WireTypes, WireKeeps
<1>4. ASSUME NEW s \in Sessions,
             \/ StartSession(s) \/ StartStep(s) \/ CommandTimesOut(s) \/ StopReads(s)
             \/ StopFinishes(s) \/ StopDelivers(s) \/ StopWrites(s) \/ DeleteSession(s)
             \/ HandleSessionComplete(s)
      PROVE  TypeOK' /\ Parts'
  BY <1>4, CallTypes, StartKeeps, StopKeeps
<1>5. CASE CleanupStaleConnections \/ Report
  BY <1>5, OtherTypes, TrackerKeeps DEF CleanupStaleConnections, Report, rowVars
<1>6. CASE DeviceEnds \/ Restart
  BY <1>6, OtherTypes, OtherKeeps
<1> QED
  BY <1>1, <1>2, <1>3, <1>4, <1>5, <1>6 DEF Next

\* Rows, calls, messages and the device stay in step, for any number of starts
\* and any sockets (session-controller.ts, device-command-service.ts).
THEOREM SessionInvariant == Spec => []SessionInv
BY SessionInitInv, SessionNextInv, PTL DEF Spec

\* Calls, rows, tracker and sockets have the values of their types
\* (device-connection-tracker.ts, broadcast-session.ts).
THEOREM SessionTypeCorrect == Spec => []TypeOK
<1>1. SessionInv => TypeOK
  BY DEF SessionInv
<1> QED
  BY <1>1, SessionInvariant, PTL

\* A row says recording, or stopping after it, only of a session that the device
\* agreed to record (session-controller.ts, FA-BB-008).
THEOREM RecordingsAreAcked == Spec => []RecordingIsAcked
<1>1. SessionInv => RecordingIsAcked
  BY DEF SessionInv
<1> QED
  BY <1>1, SessionInvariant, PTL

\* The server knows of what the device records, but for a lost answer, a deleted
\* row and a stop that read before the device confirmed (session-controller.ts).
THEOREM RecordingsAreKnown == Spec => []RecordingIsKnown
<1>1. SessionInv => RecordingIsKnown
  BY DEF SessionInv
<1> QED
  BY <1>1, SessionInvariant, PTL

=============================================================================
