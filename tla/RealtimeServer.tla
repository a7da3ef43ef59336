--------------------------- MODULE RealtimeServer ---------------------------
(***************************************************************************)
(* modules/realtime/src/realtime-server.ts over RealtimeRooms: how a       *)
(* connection authenticates, is counted, joins its room, is hydrated,      *)
(* edits, and leaves by a close, a rate limit, a revocation or a crash.    *)
(* A connection's handshake is one async function: pc is the await it is   *)
(* in, and its socket may close in any of them.                            *)
(***************************************************************************)
EXTENDS RealtimeRooms

CONSTANTS
  Users,
  Editors,   \* the clients that edit
  UserOf,    \* [Clients -> Users]
  RoomOf,    \* [Clients -> Rooms], the room of the URL
  PerIp,     \* rate_limiting.connections_per_ip; one address
  PerUser,   \* rate_limiting.connections_per_user
  MaxRooms,  \* rooms.max_rooms
  OtherRooms \* how many rooms the connections left out here may hold

ASSUME ServerAssumption ==
  /\ Editors \subseteq Clients
  /\ UserOf \in [Clients -> Users]
  /\ RoomOf \in [Clients -> Rooms]
  /\ PerIp \in Nat /\ PerUser \in Nat /\ MaxRooms \in Nat
  /\ OtherRooms \subseteq Nat

VARIABLES
  pc,           \* where the handshake of a connection is
  sock,         \* ws.readyState
  connections,  \* the registered connections
  ipCount,      \* connectionCounts of the address
  userConns,    \* userConnections
  sent          \* the operations a connection was sent or sent itself

connVars == <<pc, sock, connections, ipCount, userConns, sent>>
vars == <<roomVars, connVars>>

Stages == {"new", "auth", "authz", "hydrate", "seed", "established",
           "capped", "gone"}

TypeOK ==
  /\ RoomTypeOK
  /\ pc \in [Clients -> Stages]
  /\ sock \in [Clients -> {"open", "closing", "closed"}]
  /\ connections \in SUBSET Clients
  /\ ipCount \in Nat
  /\ userConns \in [Users -> SUBSET Clients]
  /\ sent \in [Clients -> Texts]

Init ==
  /\ RoomInit
  /\ pc = [c \in Clients |-> "new"]
  /\ sock = [c \in Clients |-> "open"]
  /\ connections = {}
  /\ ipCount = 0
  /\ userConns = [u \in Users |-> {}]
  /\ sent = [c \in Clients |-> {}]

Goto(c, stage) == pc' = [pc EXCEPT ![c] = stage]

\* ws.close(): the close handshake begins.
Closing(c) == sock' = [sock EXCEPT ![c] = IF @ = "open" THEN "closing" ELSE @]

-----------------------------------------------------------------------------
(* The one disconnect path.                                                *)

\* Mutant: no gate and no floor, so an uncounted connection is counted out.
DisconnectUngated(L) ==
  /\ connections' = connections \ L
  /\ Leave(L)
  /\ ipCount' = ipCount - Cardinality(L)
  /\ userConns' = [u \in Users |-> userConns[u] \ L]

\* handleDisconnect for each connection of L that is still registered: it
\* leaves its room, both counts are released.
Disconnect(L) ==
  LET live == L \cap connections
  IN  /\ connections' = connections \ L
      /\ Leave(live)
      /\ ipCount' = ipCount - Cardinality(live)
      /\ userConns' = [u \in Users |-> userConns[u] \ live]

-----------------------------------------------------------------------------
(* The handshake.                                                          *)

\* handleConnection up to validateSession's await.
Connect(c) ==
  /\ pc[c] = "new"
  /\ Goto(c, "auth")
  /\ UNCHANGED <<roomVars, sock, connections, ipCount, userConns, sent>>

\* The session is valid, onConnect is called; or it is not.  A connection that
\* is turned away was never counted: what its socket still does is left out.
Authenticated(c) ==
  /\ pc[c] = "auth"
  /\ \/ Goto(c, "authz") /\ UNCHANGED sock
     \/ Goto(c, "gone") /\ sock' = [sock EXCEPT ![c] = "closed"]
  /\ UNCHANGED <<roomVars, connections, ipCount, userConns, sent>>

\* checkConnectionLimits reads the counts in the turn that registers.
CheckConnectionLimits(u) ==
  ipCount < PerIp /\ Cardinality(userConns[u]) < PerUser

\* onConnect denies, or the limits do: nothing was counted.
Refused(c) ==
  /\ pc[c] = "authz"
  /\ Goto(c, "gone")
  /\ sock' = [sock EXCEPT ![c] = "closed"]
  /\ UNCHANGED <<roomVars, connections, ipCount, userConns, sent>>

\* Registration: both counts, and the close listener.
Register(c) ==
  /\ connections' = connections \cup {c}
  /\ ipCount' = ipCount + 1
  /\ userConns' = [userConns EXCEPT ![UserOf[c]] = @ \cup {c}]

\* rooms.max_rooms: a room that does not exist is not created at the cap.
AtRoomCap(r, others) ==
  r \notin rooms /\ Cardinality(rooms) + others >= MaxRooms

\* The handshake throws at the cap; handleConnection's catch closes.
Capped(c) ==
  /\ pc[c] = "authz"
  /\ CheckConnectionLimits(UserOf[c])
  /\ \E n \in OtherRooms : AtRoomCap(RoomOf[c], n)
  /\ Register(c)
  /\ Goto(c, "capped")
  /\ Closing(c)
  /\ UNCHANGED <<roomVars, sent>>

\* The update listeners of a room forward ops to their open sockets.
Forward(r, ops) ==
  [d \in Clients |->
     IF pc[d] = "established" /\ d \in members[r] /\ sock[d] = "open"
       THEN sent[d] \cup ops ELSE sent[d]]

\* Mutant: the initial sync is encoded before the hydration.
WireStale(c, text) ==
  sent' = [Forward(RoomOf[c], text) EXCEPT ![c] = doc[RoomOf[c]]]

\* setupYjsConnection after its await: hydration reaches the others through
\* their listeners, this socket gets a listener and the whole document.
Wire(c, text) ==
  sent' = [Forward(RoomOf[c], text) EXCEPT ![c] = text]

\* Limits, registration and join are one turn.  A document with content is
\* served at once, unless the socket closed while it authenticated: then the
\* connection is released before the turn ends.
Join(c) ==
  /\ pc[c] = "authz"
  /\ CheckConnectionLimits(UserOf[c])
  /\ \E n \in OtherRooms : ~AtRoomCap(RoomOf[c], n)
  /\ \/ /\ doc[RoomOf[c]] = {}
        /\ Goto(c, "hydrate")
        /\ Register(c) /\ JoinRoom(RoomOf[c], c)
        /\ UNCHANGED <<sent>>
     \/ /\ doc[RoomOf[c]] # {} /\ sock[c] = "open"
        /\ Goto(c, "established")
        /\ Register(c) /\ JoinRoom(RoomOf[c], c)
        /\ Wire(c, doc[RoomOf[c]])
     \/ /\ doc[RoomOf[c]] # {} /\ sock[c] # "open"
        /\ Goto(c, "gone")
        /\ timer' = IF members[RoomOf[c]] = {} THEN timer \cup {RoomOf[c]} ELSE timer
        /\ UNCHANGED <<connections, ipCount, userConns, rooms, members, guests,
                       sent>>
  /\ UNCHANGED <<sock, doc, changed, finalizing, saving, payload, store,
                 shutdown, unsafe>>

\* Mutant: the end of the setup does not look at the socket.
SetupEndsUnchecked(c, text) ==
  /\ Goto(c, IF sock[c] = "closed" THEN "gone" ELSE "established")
  /\ doc' = [doc EXCEPT ![RoomOf[c]] = text]
  /\ IF sock[c] = "open" THEN Wire(c, text) ELSE sent' = Forward(RoomOf[c], text)
  /\ UNCHANGED <<connections, ipCount, userConns, members, timer>>

\* The hydrated text is in the document, the message listener is attached and
\* the connection established.  A socket that closed before it was registered
\* is released here.
SetupEnds(c, text) ==
  /\ Goto(c, IF sock[c] = "closed" THEN "gone" ELSE "established")
  /\ doc' = [doc EXCEPT ![RoomOf[c]] = text]
  /\ IF c \in connections /\ sock[c] # "open"
       THEN /\ Disconnect({c})
            /\ sent' = Forward(RoomOf[c], text)
       ELSE /\ IF sock[c] = "open" THEN Wire(c, text)
                                   ELSE sent' = Forward(RoomOf[c], text)
            /\ UNCHANGED <<connections, ipCount, userConns, members, timer>>

\* The room this connection had joined has been evicted meanwhile.
SetupDetached(c) ==
  /\ pc[c] \in {"hydrate", "seed"}
  /\ c \notin guests[RoomOf[c]]
  /\ Goto(c, "gone")
  /\ UNCHANGED <<roomVars, sock, connections, ipCount, userConns, sent>>

\* initializeRoom: loadLatestVerified answers with a row, which is applied,
\* with none (no row, or one that fails verification), or throws, which is
\* logged: "Continue with empty document".
LoadSnapshot(c) ==
  /\ pc[c] = "hydrate"
  /\ c \in guests[RoomOf[c]]
  /\ LET r == RoomOf[c]
     IN  \/ snap[r] # None /\ SetupEnds(c, doc[r] \cup snap[r])
         \/ SetupEnds(c, doc[r])
         \/ /\ Goto(c, "seed")
            /\ UNCHANGED <<doc, connections, ipCount, userConns, members, timer,
                           sent>>
  /\ UNCHANGED <<sock, rooms, guests, changed, finalizing, saving, payload,
                 store, shutdown, unsafe>>

\* Mutant: the record's text is merged into a document that has content.
SeedFromMarkdownAlways(r) == doc[r] \cup {Base}

\* seedFromMarkdown: only an empty document is seeded.
SeedFromMarkdown(r) == IF doc[r] = {} THEN {Base} ELSE doc[r]

\* room.initialize: getRecord answers, or fails and the document stays.
LoadRecord(c) ==
  /\ pc[c] = "seed"
  /\ c \in guests[RoomOf[c]]
  /\ \/ SetupEnds(c, SeedFromMarkdown(RoomOf[c]))
     \/ SetupEnds(c, doc[RoomOf[c]])
  /\ UNCHANGED <<sock, rooms, guests, changed, finalizing, saving, payload,
                 store, shutdown, unsafe>>

-----------------------------------------------------------------------------
(* An established connection.                                              *)

\* A SYNC update arrives, on a socket that may already be closing; the
\* liveness gate is presence in connections.
Edit(c) ==
  /\ pc[c] = "established"
  /\ sock[c] # "closed"
  /\ c \in connections
  /\ c \in Editors \ doc[RoomOf[c]]
  /\ ApplyUpdate(RoomOf[c], {c})
  /\ sent' = [Forward(RoomOf[c], {c}) EXCEPT ![c] = @ \cup {c}]
  /\ UNCHANGED <<rooms, members, guests, timer, finalizing, saving, payload, store,
                 shutdown, pc, sock, connections, ipCount, userConns>>

\* enforceRateLimit drops the frame and closes with 1008; the connection
\* stays registered until the close event.
RateLimited(c) ==
  /\ pc[c] = "established"
  /\ c \in connections
  /\ sock[c] = "open"
  /\ Closing(c)
  /\ sent' = [sent EXCEPT ![c] = {}]
  /\ UNCHANGED <<roomVars, pc, connections, ipCount, userConns>>

\* The socket is closed, by the peer or at the end of the close handshake.
\* The close listener exists from the registration on; it runs once.
SocketCloses(c) ==
  /\ pc[c] # "new"
  /\ sock[c] # "closed"
  /\ sock' = [sock EXCEPT ![c] = "closed"]
  /\ sent' = [sent EXCEPT ![c] = {}]
  /\ pc' = [pc EXCEPT ![c] = IF @ = "established" THEN "gone" ELSE @]
  /\ Disconnect({c})
  /\ UNCHANGED << rooms, guests, doc, changed, finalizing, saving, payload,
                 store, shutdown, unsafe>>

\* revokeUserConnections: the teardown first, then the close frame.
RevokeUserConnections(u) ==
  /\ userConns[u] # {}
  /\ sock' = [c \in Clients |-> IF c \in userConns[u] /\ sock[c] = "open"
                                  THEN "closing" ELSE sock[c]]
  /\ sent' = [c \in Clients |-> IF c \in userConns[u] THEN {} ELSE sent[c]]
  /\ Disconnect(userConns[u])
  /\ UNCHANGED <<pc, rooms, guests, doc, changed, finalizing, saving, payload,
                 store, shutdown, unsafe>>

\* The process ends: every socket is gone, nothing is registered.
ProcessEnds ==
  /\ Forget
  /\ pc' = [c \in Clients |-> IF pc[c] = "new" THEN "new" ELSE "gone"]
  /\ sock' = [c \in Clients |-> IF pc[c] = "new" THEN "open" ELSE "closed"]
  /\ connections' = {}
  /\ ipCount' = 0
  /\ userConns' = [u \in Users |-> {}]
  /\ sent' = [c \in Clients |-> {}]

\* The last part of shutdown: close, clear, destroy.
ShutdownEnds ==
  /\ stopping
  /\ flush = {}
  /\ flushing = None
  /\ ProcessEnds

Crash == rooms # {} /\ ProcessEnds

-----------------------------------------------------------------------------
Handshake(c) ==
  \/ Authenticated(c)
  \/ Refused(c)
  \/ Capped(c)
  \/ Join(c)
  \/ SetupDetached(c)
  \/ LoadSnapshot(c)
  \/ LoadRecord(c)

Next ==
  \/ \E r \in Rooms : RoomStep(r) /\ UNCHANGED connVars
  \/ BeginShutdown /\ UNCHANGED connVars
  \/ \E c \in Clients :
       \/ Connect(c)
       \/ Handshake(c)
       \/ Edit(c)
       \/ RateLimited(c)
       \/ SocketCloses(c)
  \/ \E u \in Users : RevokeUserConnections(u)
  \/ ShutdownEnds
  \/ Crash

Spec == Init /\ [][Next]_vars

\* A write in flight is answered, an armed timer fires and the shutdown goes
\* on.  Nobody has to connect, edit, leave or trigger a snapshot.
FairSpec ==
  /\ Spec
  /\ \A r \in Rooms :
       /\ WF_vars((PersistBinary(r) \/ WriteDraft(r)) /\ UNCHANGED connVars)
       /\ WF_vars(GraceElapses(r) /\ UNCHANGED connVars)
       /\ WF_vars(ShutdownSnapshot(r) /\ UNCHANGED connVars)
  /\ WF_vars(ShutdownEnds)
-----------------------------------------------------------------------------
(* Properties.                                                             *)

\* realtime-001/002: whatever order close, revocation, rate limit and handshake
\* come in, the counts are those of the registered connections, and none of these
\* is a ghost: a closed socket stays registered only until the setup it is in
\* ends, or if it met the room cap after it closed.
CountsMatch ==
  /\ ipCount = Cardinality(connections)
  /\ \A u \in Users : userConns[u] = {c \in connections : UserOf[c] = u}
  /\ \A c \in connections :
       sock[c] = "closed" => pc[c] \in {"hydrate", "seed", "capped"}

\* A connection that can edit is a client of the room in memory that the
\* snapshots see: no eviction, finalize or rejoin leaves it with a document of
\* its own.
EditorsInLiveRoom ==
  \A c \in connections :
    pc[c] \in {"hydrate", "seed", "established"} =>
      RoomOf[c] \in rooms /\ c \in members[RoomOf[c]]

\* An open, established connection was sent every operation of its room's
\* document: none falls between the initial sync and the update listener.
EveryoneHears ==
  \A c \in connections :
    pc[c] = "established" /\ sock[c] = "open" => sent[c] = doc[RoomOf[c]]

\* An eviction or a shutdown loses an edit only if it arrived while the last
\* snapshot was being written (or after the shutdown's), or if that write
\* failed.
EvictionLosesOnlyUnsafe ==
  [][ShutdownEnds \/ ~Crash => \A r \in rooms \ rooms' :
       \A c \in (doc[r] \cap guests[r]) \ unsafe[r] :
         snap'[r] # None /\ c \in snap'[r]]_vars

\* A document never holds the record's text twice: two hydrations of one
\* room, or one that ends after an edit, do not seed it again.
SeededOnce ==
  [][\A r \in rooms : Base \in doc'[r] /\ Base \notin doc[r] => doc[r] = {}
                        \/ (snap[r] # None /\ Base \in snap[r])]_vars

\* A clientless room is evicted or rejoined.
EmptyRoomLeaves ==
  \A r \in Rooms :
    r \in rooms /\ members[r] = {} ~> r \notin rooms \/ members[r] # {}

\* docs/specs/2026-06-04-phase-3-realtime-design.md:412: "Crash survival still
\* holds at the draft level (the latest serialized state is in the draft".  A
\* writeback does not take out of the draft what it held.
DraftKeepsEdits ==
  [][\A r \in Rooms : draft[r] # None => draft[r] \subseteq draft'[r]]_vars
-----------------------------------------------------------------------------
(* The inductive invariant.                                                *)

\* A registered connection is past its registration and its handshake goes on,
\* has ended well or was capped; a room's clients joined it and no other.
Placed ==
  /\ \A c \in connections : pc[c] \in {"hydrate", "seed", "established", "capped"}
  /\ \A r \in Rooms : \A c \in members[r] : c \in guests[r] /\ RoomOf[c] = r
  /\ \A r \in Rooms \ rooms : doc[r] = {} /\ guests[r] = {}

HasRow(r, c) == snap[r] # None /\ c \in snap[r]

\* A text holds edits of connections that got as far as editing; the edit of a
\* guest of the room in memory is in its document wherever else it is.
EditsMade ==
  \A r \in Rooms :
    /\ \A c \in Clients :
         c \in doc[r] \/ HasRow(r, c) => pc[c] \in {"established", "gone"}
    /\ payload[r] \subseteq doc[r]
    /\ \A c \in guests[r] : HasRow(r, c) => c \in doc[r]

\* The guests' edits are in the newest row, but for those known to be unsafe.
Saved(r) == \A c \in (doc[r] \cap guests[r]) \ unsafe[r] : HasRow(r, c)

\* Where the edits of a room are while its snapshot is written, and once the
\* shutdown is through with it.
EditsKept ==
  \A r \in Rooms :
    /\ saving[r] = "persist" => doc[r] \cap guests[r] \subseteq payload[r] \cup unsafe[r]
    /\ saving[r] = "draft" => Saved(r)
    /\ flushing = r => saving[r] # "idle"
    /\ stopping /\ r \notin flush /\ flushing # r => Saved(r)

RealtimeInv ==
  /\ TypeOK /\ Placed /\ CountsMatch /\ EditorsInLiveRoom /\ EveryoneHears
  /\ EditsMade /\ EditsKept
=============================================================================
