---------------------------- MODULE RealtimeProofs ----------------------------
(***************************************************************************)
(* The realtime server over its rooms, for any numbers of connections,     *)
(* users and rooms and any limits: the counts are those of the registered  *)
(* connections, whoever edits is in the room the snapshots see and hears   *)
(* all of it, and an eviction loses only what is known to be unsafe.       *)
(***************************************************************************)
EXTENDS RealtimeServer, FiniteSetTheorems, TLAPS

\* Releasing the connections of L takes as many off the count as there were.
LEMMA CountReleased ==
  ASSUME NEW S \in SUBSET Clients, NEW L \in SUBSET Clients
  PROVE  /\ Cardinality(S) \in Nat
         /\ Cardinality(S \ L) \in Nat
         /\ Cardinality(S \ L) = Cardinality(S) - Cardinality(L \cap S)
<1>1. IsFiniteSet(S) /\ IsFiniteSet(S \ L) /\ IsFiniteSet(L \cap S)
  BY RoomAssumption, FS_Subset
<1>2. (S \ L) \cup (L \cap S) = S /\ (S \ L) \cap (L \cap S) = {}
  OBVIOUS
<1>3. Cardinality(S) = Cardinality(S \ L) + Cardinality(L \cap S) - Cardinality({})
  <2>1. Cardinality((S \ L) \cup (L \cap S)) =
          Cardinality(S \ L) + Cardinality(L \cap S)
            - Cardinality((S \ L) \cap (L \cap S))
    BY <1>1, FS_Union
  <2> QED
    BY <1>2, <2>1
<1>4. /\ Cardinality(S) \in Nat /\ Cardinality(S \ L) \in Nat
      /\ Cardinality(L \cap S) \in Nat /\ Cardinality({}) = 0
  BY <1>1, FS_CardinalityType, FS_EmptySet
<1> QED
  BY <1>3, <1>4

\* The one disconnect path keeps the counts: it releases what is registered of
\* L, in both counts and in the rooms.
LEMMA DisconnectCounts ==
  ASSUME TypeOK, ipCount = Cardinality(connections),
         \A u \in Users : userConns[u] = {c \in connections : UserOf[c] = u},
         NEW L \in SUBSET Clients, Disconnect(L)
  PROVE  /\ connections' = connections \ L
         /\ ipCount' \in Nat /\ ipCount' = Cardinality(connections')
         /\ userConns' \in [Users -> SUBSET Clients]
         /\ \A u \in Users : userConns'[u] = {c \in connections' : UserOf[c] = u}
         /\ members' \in [Rooms -> SUBSET Clients]
         /\ \A r \in Rooms : members'[r] = members[r] \ (L \cap connections)
         /\ timer' \in SUBSET Rooms
<1> USE DEF TypeOK, RoomTypeOK, Disconnect, Leave
<1>1. connections' = connections \ L /\ ipCount' = ipCount - Cardinality(L \cap connections)
  OBVIOUS
<1>2. ipCount' \in Nat /\ ipCount' = Cardinality(connections')
  <2>1. /\ Cardinality(connections \ L) \in Nat
        /\ Cardinality(connections \ L) =
             Cardinality(connections) - Cardinality(L \cap connections)
    BY CountReleased
  <2> QED
    BY <1>1, <2>1
<1>3. userConns' = [u \in Users |-> userConns[u] \ (L \cap connections)]
  OBVIOUS
<1>4. members' = [r \in Rooms |-> members[r] \ (L \cap connections)]
  OBVIOUS
<1> QED
  BY <1>1, <1>2, <1>3, <1>4

\* Registering a connection that is not registered counts it once.
LEMMA RegisterCounts ==
  ASSUME TypeOK, ipCount = Cardinality(connections),
         \A u \in Users : userConns[u] = {c \in connections : UserOf[c] = u},
         NEW c \in Clients, c \notin connections, Register(c)
  PROVE  /\ connections' = connections \cup {c} /\ connections' \in SUBSET Clients
         /\ ipCount' \in Nat /\ ipCount' = Cardinality(connections')
         /\ userConns' \in [Users -> SUBSET Clients]
         /\ \A u \in Users : userConns'[u] = {d \in connections' : UserOf[d] = u}
<1> USE DEF TypeOK, Register
<1>1. UserOf[c] \in Users
  BY ServerAssumption
<1>2. Cardinality(connections \cup {c}) = Cardinality(connections) + 1
  <2>1. IsFiniteSet(connections)
    BY RoomAssumption, FS_Subset
  <2> QED
    BY <2>1, FS_AddElement
<1>3. ipCount' \in Nat /\ ipCount' = Cardinality(connections')
  BY <1>2
<1>4. userConns' = [userConns EXCEPT ![UserOf[c]] = userConns[UserOf[c]] \cup {c}]
  OBVIOUS
<1>5. \A u \in Users : userConns'[u] = IF u = UserOf[c] THEN userConns[u] \cup {c}
                                                        ELSE userConns[u]
  BY <1>1, <1>4
<1> QED
  BY <1>1, <1>3, <1>4, <1>5

\* What a room's texts are made of.
LEMMA TextsUnion ==
  /\ {} \in Texts /\ {Base} \in Texts
  /\ \A S, T \in Texts : S \cup T \in Texts
  /\ \A S \in SUBSET Clients : S \in Texts
BY DEF Texts

-----------------------------------------------------------------------------
(* Types.                                                                  *)

\* The server starts well typed.
LEMMA InitTyped == Init => TypeOK
<1> SUFFICES ASSUME Init PROVE TypeOK
  OBVIOUS
<1>1. RoomTypeOK
  BY TextsUnion, Zenon DEF Init, RoomInit, RoomTypeOK
<1>2. /\ pc \in [Clients -> Stages] /\ sock \in [Clients -> {"open", "closing", "closed"}]
      /\ connections \in SUBSET Clients /\ ipCount \in Nat
      /\ userConns \in [Users -> SUBSET Clients] /\ sent \in [Clients -> Texts]
  BY TextsUnion DEF Init, Stages
<1> QED
  BY <1>1, <1>2 DEF TypeOK

\* Rooms leave, snapshots begin.
LEMMA RemoveRoomsTyped ==
  ASSUME RoomTypeOK, NEW E \in SUBSET Rooms, RemoveRooms(E)
  PROVE  /\ rooms' \in SUBSET Rooms /\ timer' \in SUBSET Rooms /\ changed' \in SUBSET Rooms
         /\ members' \in [Rooms -> SUBSET Clients] /\ guests' \in [Rooms -> SUBSET Clients]
         /\ doc' \in [Rooms -> Texts] /\ unsafe' \in [Rooms -> SUBSET Clients]
BY TextsUnion DEF RoomTypeOK, RemoveRooms

\* A snapshot that begins, or joins the one in flight, is well typed.
LEMMA StartSnapshotTyped ==
  ASSUME RoomTypeOK, NEW r \in Rooms, StartSnapshot(r)
  PROVE  /\ saving' \in [Rooms -> {"idle", "persist", "draft"}]
         /\ payload' \in [Rooms -> Texts]
<1>1. CASE saving[r] # "idle"
  BY <1>1 DEF RoomTypeOK, StartSnapshot
<1>2. CASE saving[r] = "idle"
  BY <1>2 DEF RoomTypeOK, StartSnapshot
<1> QED
  BY <1>1, <1>2

\* The rooms' own steps.
LEMMA RoomStepTyped ==
  ASSUME RoomTypeOK, NEW r \in Rooms, RoomStep(r)
  PROVE  RoomTypeOK'
<1> USE DEF shutdown, store
<1>1. CASE PersistBinary(r)
  <2>1. snap' \in [Rooms -> Texts \cup {None}] /\ changed' \in SUBSET Rooms
        /\ unsafe' \in [Rooms -> SUBSET Clients]
    BY <1>1 DEF PersistBinary, RoomTypeOK
  <2>2. /\ saving' \in [Rooms -> {"idle", "persist", "draft"}]
        /\ payload' \in [Rooms -> Texts]
    BY <1>1 DEF PersistBinary, RoomTypeOK
  <2> QED
    BY <1>1, <2>1, <2>2 DEF PersistBinary, RoomTypeOK
<1>2. CASE WriteDraft(r)
  <2>1. \E E \in SUBSET Rooms : RemoveRooms(E)
    BY <1>2 DEF WriteDraft, FinalizeEnds
  <2>2. draft' \in [Rooms -> Texts \cup {None}]
    BY <1>2 DEF WriteDraft, RoomTypeOK
  <2>3. /\ saving' \in [Rooms -> {"idle", "persist", "draft"}]
        /\ payload' \in [Rooms -> Texts] /\ finalizing' \in SUBSET Rooms
        /\ flush' \in SUBSET Rooms /\ flushing' \in Rooms \cup {None}
    BY <1>2, TextsUnion DEF WriteDraft, RoomTypeOK
  <2> QED
    BY <1>2, <2>1, <2>2, <2>3, RemoveRoomsTyped DEF WriteDraft, RoomTypeOK
<1>3. CASE GraceElapses(r)
  <2>1. /\ saving' \in [Rooms -> {"idle", "persist", "draft"}]
        /\ payload' \in [Rooms -> Texts] /\ finalizing' \in SUBSET Rooms
    <3>1. CASE members[r] = {}
      BY <1>3, <3>1, StartSnapshotTyped DEF GraceElapses, RoomTypeOK
    <3>2. CASE members[r] # {}
      BY <1>3, <3>2 DEF GraceElapses, RoomTypeOK
    <3> QED
      BY <3>1, <3>2
  <2> QED
    BY <1>3, <2>1 DEF GraceElapses, RoomTypeOK
<1>4. CASE PeriodicSnapshot(r) \/ TriggerRecordSnapshot(r)
  BY <1>4, StartSnapshotTyped
     DEF PeriodicSnapshot, TriggerRecordSnapshot, Untouched, RoomTypeOK
<1>5. CASE CleanupExpired(r)
  BY <1>5 DEF CleanupExpired, RoomTypeOK
<1>6. CASE ShutdownSnapshot(r)
  BY <1>6, StartSnapshotTyped DEF ShutdownSnapshot, Untouched, RoomTypeOK
<1> QED
  BY <1>1, <1>2, <1>3, <1>4, <1>5, <1>6 DEF RoomStep

\* What a setup leaves behind when it ends with the text of the room.
LEMMA SetupEndsTyped ==
  ASSUME TypeOK, CountsMatch, NEW c \in Clients, NEW text \in Texts, SetupEnds(c, text)
  PROVE  /\ pc' \in [Clients -> Stages] /\ doc' \in [Rooms -> Texts]
         /\ connections' \in SUBSET Clients /\ ipCount' \in Nat
         /\ userConns' \in [Users -> SUBSET Clients] /\ sent' \in [Clients -> Texts]
         /\ members' \in [Rooms -> SUBSET Clients] /\ timer' \in SUBSET Rooms
         /\ ipCount' = Cardinality(connections')
         /\ \A u \in Users : userConns'[u] = {d \in connections' : UserOf[d] = u}
         /\ connections' \subseteq connections
         /\ sock[c] # "open" => c \notin connections'
         /\ \A d \in Clients : d # c => (d \in connections' <=> d \in connections)
         /\ \A r \in Rooms : /\ members'[r] \subseteq members[r]
                             /\ \A d \in members[r] : d # c => d \in members'[r]
         /\ c \in connections' => members' = members
<1>p. pc' \in [Clients -> Stages] /\ doc' \in [Rooms -> Texts]
  BY ServerAssumption DEF SetupEnds, Goto, TypeOK, RoomTypeOK, Stages
<1>f. Forward(RoomOf[c], text) \in [Clients -> Texts]
  BY TextsUnion DEF Forward, TypeOK
<1>s. sent' \in [Clients -> Texts]
  BY <1>f DEF SetupEnds, Wire
<1>1. CASE c \in connections /\ sock[c] # "open"
  <2>1. Disconnect({c})
    BY <1>1 DEF SetupEnds
  <2> QED
    BY <1>p, <1>s, <1>1, <2>1, DisconnectCounts DEF TypeOK, RoomTypeOK, CountsMatch
<1>2. CASE ~(c \in connections /\ sock[c] # "open")
  <2>1. UNCHANGED <<connections, ipCount, userConns, members, timer>>
    BY <1>2 DEF SetupEnds
  <2> QED
    BY <1>p, <1>s, <1>2, <2>1 DEF TypeOK, RoomTypeOK, CountsMatch
<1> QED
  BY <1>1, <1>2

-----------------------------------------------------------------------------
(* What leaves the edits where they are.                                   *)

\* A step that touches no document, no row and no snapshot, and takes nobody
\* back from where it may have edited, keeps the invariant's account of edits.
LEMMA EditsUntouched ==
  ASSUME EditsMade, EditsKept,
         UNCHANGED <<doc, payload, snap, guests, saving, unsafe, shutdown>>,
         \A c \in Clients : pc[c] \in {"established", "gone"} =>
                              pc'[c] \in {"established", "gone"}
  PROVE  EditsMade' /\ EditsKept'
<1> USE DEF HasRow, shutdown
<1>1. EditsMade'
  BY DEF EditsMade
<1>2. \A r \in Rooms : Saved(r) => Saved(r)'
  BY DEF Saved
<1>3. EditsKept'
  BY <1>2 DEF EditsKept
<1> QED
  BY <1>1, <1>3

\* A step of the rooms that evicts none and changes no document keeps what is
\* said of connections.
LEMMA ConnectionsUntouched ==
  ASSUME Placed, CountsMatch, EditorsInLiveRoom, EveryoneHears,
         UNCHANGED <<rooms, members, guests, doc, connVars>>
  PROVE  Placed' /\ CountsMatch' /\ EditorsInLiveRoom' /\ EveryoneHears'
<1> USE DEF connVars
<1>1. Placed'
  BY DEF Placed
<1>2. CountsMatch'
  BY DEF CountsMatch
<1>3. EditorsInLiveRoom' /\ EveryoneHears'
  BY DEF EditorsInLiveRoom, EveryoneHears
<1> QED
  BY <1>1, <1>2, <1>3

\* A snapshot of the document as it is now has all of it.
LEMMA StartSnapshotKeeps ==
  ASSUME TypeOK, EditsMade, EditsKept, NEW r \in Rooms, StartSnapshot(r),
         UNCHANGED <<doc, snap, guests, unsafe, pc, stopping>>,
         \A s \in Rooms : s # r => (s \in flush' <=> s \in flush),
         flushing' = flushing \/ (flushing = None /\ flushing' = r),
         r \in flush' \/ flushing' = r \/ flush' = flush
  PROVE  EditsMade' /\ EditsKept'
<1>1. CASE saving[r] # "idle"
  <2>1. UNCHANGED <<saving, payload>>
    BY <1>1 DEF StartSnapshot
  <2>2. EditsMade'
    BY <2>1 DEF EditsMade, HasRow
  <2>3. ASSUME NEW s \in Rooms
        PROVE  /\ saving'[s] = "persist" => doc'[s] \cap guests'[s] \subseteq payload'[s] \cup unsafe'[s]
               /\ saving'[s] = "draft" => Saved(s)'
               /\ flushing' = s => saving'[s] # "idle"
               /\ stopping' /\ s \notin flush' /\ flushing' # s => Saved(s)'
    BY <1>1, <2>1, RoomAssumption DEF EditsKept, Saved, HasRow
  <2> QED
    BY <2>2, <2>3 DEF EditsKept
<1>2. CASE saving[r] = "idle"
  <2>1. /\ saving' = [saving EXCEPT ![r] = "persist"]
        /\ payload' = [payload EXCEPT ![r] = doc[r]]
    BY <1>2 DEF StartSnapshot
  <2>2. EditsMade'
    BY <2>1 DEF EditsMade, HasRow, TypeOK, RoomTypeOK
  <2>3. ASSUME NEW s \in Rooms
        PROVE  /\ saving'[s] = "persist" => doc'[s] \cap guests'[s] \subseteq payload'[s] \cup unsafe'[s]
               /\ saving'[s] = "draft" => Saved(s)'
               /\ flushing' = s => saving'[s] # "idle"
               /\ stopping' /\ s \notin flush' /\ flushing' # s => Saved(s)'
    <3>1. CASE s = r
      BY <1>2, <2>1, <3>1, RoomAssumption DEF EditsKept, Saved, HasRow, TypeOK, RoomTypeOK
    <3>2. CASE s # r
      BY <2>1, <3>2, RoomAssumption DEF EditsKept, Saved, HasRow, TypeOK, RoomTypeOK
    <3> QED
      BY <3>1, <3>2
  <2> QED
    BY <2>2, <2>3 DEF EditsKept
<1> QED
  BY <1>1, <1>2

-----------------------------------------------------------------------------
(* The rooms' own steps.                                                   *)

\* The row is inserted or it is not: what it lacks of the guests' edits is then
\* known to be unsafe.
LEMMA PersistBinaryKeeps ==
  ASSUME TypeOK, EditsMade, EditsKept, NEW r \in Rooms, PersistBinary(r), UNCHANGED pc
  PROVE  EditsMade' /\ EditsKept'
<1> USE DEF TypeOK, RoomTypeOK
<1>1. /\ saving[r] = "persist" /\ saving' = [saving EXCEPT ![r] = "draft"]
      /\ payload' = [payload EXCEPT ![r] = doc[r]]
      /\ UNCHANGED <<doc, guests, stopping, flush, flushing>>
  BY DEF PersistBinary, shutdown
<1>2. \/ /\ snap' = [snap EXCEPT ![r] = payload[r]]
         /\ unsafe' = [unsafe EXCEPT ![r] = unsafe[r] \ payload[r]]
      \/ /\ snap' = snap
         /\ unsafe' = [unsafe EXCEPT ![r] = unsafe[r] \cup (doc[r] \cap Clients)]
  BY DEF PersistBinary
<1>3. Saved(r)'
  <2>1. CASE /\ snap' = [snap EXCEPT ![r] = payload[r]]
             /\ unsafe' = [unsafe EXCEPT ![r] = unsafe[r] \ payload[r]]
    <3>1. doc[r] \cap guests[r] \subseteq payload[r] \cup unsafe[r]
      BY <1>1 DEF EditsKept
    <3>2. snap'[r] = payload[r] /\ snap'[r] # None
      BY <2>1, RoomAssumption
    <3> QED
      BY <1>1, <2>1, <3>1, <3>2 DEF Saved, HasRow
  <2>2. CASE /\ snap' = snap
             /\ unsafe' = [unsafe EXCEPT ![r] = unsafe[r] \cup (doc[r] \cap Clients)]
    BY <1>1, <2>2 DEF Saved, HasRow
  <2> QED
    BY <1>2, <2>1, <2>2
<1>4. \A s \in Rooms : s # r => snap'[s] = snap[s] /\ unsafe'[s] = unsafe[s]
  BY <1>2
<1>5. EditsKept'
  <2> SUFFICES ASSUME NEW s \in Rooms
               PROVE  /\ saving'[s] = "persist" => doc'[s] \cap guests'[s] \subseteq payload'[s] \cup unsafe'[s]
                      /\ saving'[s] = "draft" => Saved(s)'
                      /\ flushing' = s => saving'[s] # "idle"
                      /\ stopping' /\ s \notin flush' /\ flushing' # s => Saved(s)'
    BY DEF EditsKept
  <2>1. CASE s = r
    BY <1>1, <1>3, <2>1
  <2>2. CASE s # r
    BY <1>1, <1>4, <2>2 DEF EditsKept, Saved, HasRow
  <2> QED
    BY <2>1, <2>2
<1>6. EditsMade'
  <2>1. \A s \in Rooms : \A c \in Clients : HasRow(s, c)' => c \in doc[s] \/ HasRow(s, c)
    BY <1>2 DEF EditsMade, HasRow
  <2>2. \A s \in Rooms : payload'[s] \subseteq doc[s]
    BY <1>1 DEF EditsMade
  <2> QED
    BY <1>1, <2>1, <2>2 DEF EditsMade
<1> QED
  BY <1>5, <1>6

\* The rooms that a finalized snapshot evicts have no clients; nobody else is
\* touched.
LEMMA FinalizeEvicts ==
  ASSUME TypeOK, NEW r \in Rooms, WriteDraft(r)
  PROVE  \E E \in SUBSET {r} : RemoveRooms(E) /\ \A s \in E : members[s] = {}
BY DEF WriteDraft, FinalizeEnds

\* A room that loses its last reason to be kept leaves no connection behind.
LEMMA EvictionKeepsConnections ==
  ASSUME TypeOK, Placed, CountsMatch, EditorsInLiveRoom, EveryoneHears,
         NEW E \in SUBSET Rooms, RemoveRooms(E), \A s \in E : members[s] = {},
         UNCHANGED connVars
  PROVE  Placed' /\ CountsMatch' /\ EditorsInLiveRoom' /\ EveryoneHears'
<1> USE DEF connVars
<1>1. \A s \in Rooms : s \notin E => /\ members'[s] = members[s] /\ guests'[s] = guests[s]
                                     /\ doc'[s] = doc[s]
  BY DEF RemoveRooms
<1>2. \A s \in E : members'[s] = {} /\ guests'[s] = {} /\ doc'[s] = {}
  BY DEF RemoveRooms
<1>3. rooms' = rooms \ E
  BY DEF RemoveRooms
<1>4. Placed'
  BY <1>1, <1>2, <1>3 DEF Placed, TypeOK
<1>5. CountsMatch'
  BY DEF CountsMatch
<1>6. \A c \in connections : pc[c] \in {"hydrate", "seed", "established"} => RoomOf[c] \notin E
  BY DEF EditorsInLiveRoom
<1>7. \A c \in connections : RoomOf[c] \in Rooms
  BY ServerAssumption DEF TypeOK
<1>8. EditorsInLiveRoom' /\ EveryoneHears'
  BY <1>1, <1>3, <1>6, <1>7 DEF EditorsInLiveRoom, EveryoneHears
<1> QED
  BY <1>4, <1>5, <1>8

\* The draft's answer, and the eviction that may follow it.
LEMMA WriteDraftKeeps ==
  ASSUME TypeOK, Placed, EditsMade, EditsKept, NEW r \in Rooms, WriteDraft(r), UNCHANGED pc
  PROVE  EditsMade' /\ EditsKept'
<1> USE DEF TypeOK, RoomTypeOK
<1>1. /\ saving[r] = "draft" /\ saving' = [saving EXCEPT ![r] = "idle"]
      /\ payload' = [payload EXCEPT ![r] = {}]
      /\ UNCHANGED <<snap, stopping>>
      /\ flush' = flush \cap rooms'
      /\ flushing' = IF flushing = r THEN None ELSE flushing
  BY DEF WriteDraft
<1>2. PICK E \in SUBSET {r} : RemoveRooms(E)
  BY FinalizeEvicts
<1>3. \A s \in Rooms \ E : doc'[s] = doc[s] /\ guests'[s] = guests[s] /\ unsafe'[s] = unsafe[s]
  BY <1>2 DEF RemoveRooms
<1>4. \A s \in E : doc'[s] = {} /\ guests'[s] = {}
  BY <1>2 DEF RemoveRooms
<1>5. rooms' = rooms \ E
  BY <1>2 DEF RemoveRooms
<1>6. \A s \in Rooms : Saved(s) => Saved(s)'
  BY <1>1, <1>3, <1>4 DEF Saved, HasRow
<1>7. Saved(r)'
  BY <1>1, <1>6 DEF EditsKept
<1>8. \A s \in Rooms \ rooms : Saved(s)
  BY DEF Placed, Saved
<1>9. EditsKept'
  <2> SUFFICES ASSUME NEW s \in Rooms
               PROVE  /\ saving'[s] = "persist" => doc'[s] \cap guests'[s] \subseteq payload'[s] \cup unsafe'[s]
                      /\ saving'[s] = "draft" => Saved(s)'
                      /\ flushing' = s => saving'[s] # "idle"
                      /\ stopping' /\ s \notin flush' /\ flushing' # s => Saved(s)'
    BY DEF EditsKept
  <2>1. CASE s = r
    BY <1>1, <1>7, <2>1, RoomAssumption
  <2>2. CASE s # r
    <3>1. s \notin E /\ saving'[s] = saving[s] /\ payload'[s] = payload[s]
      BY <1>1, <2>2
    <3>2. flushing' = s <=> flushing = s
      BY <1>1, <2>2, RoomAssumption
    <3>3. s \notin flush' => s \notin flush \/ s \notin rooms
      BY <1>1, <1>5, <3>1
    <3> QED
      BY <1>1, <1>3, <1>6, <1>8, <3>1, <3>2, <3>3 DEF EditsKept
  <2> QED
    BY <2>1, <2>2
<1>10. EditsMade'
  <2> SUFFICES ASSUME NEW s \in Rooms
               PROVE  /\ \A c \in Clients :
                           c \in doc'[s] \/ HasRow(s, c)' => pc'[c] \in {"established", "gone"}
                      /\ payload'[s] \subseteq doc'[s]
                      /\ \A c \in guests'[s] : HasRow(s, c)' => c \in doc'[s]
    BY DEF EditsMade
  <2>1. \A c \in Clients : HasRow(s, c)' <=> HasRow(s, c)
    BY <1>1 DEF HasRow
  <2>2. payload'[s] \subseteq doc'[s]
    BY <1>1, <1>3 DEF EditsMade
  <2>3. CASE s \in E
    BY <1>4, <2>1, <2>2, <2>3 DEF EditsMade
  <2>4. CASE s \notin E
    BY <1>3, <2>1, <2>2, <2>4 DEF EditsMade
  <2> QED
    BY <2>3, <2>4
<1> QED
  BY <1>9, <1>10

\* A room that is not in memory may lose its row: nothing of it is in a
\* document.
LEMMA CleanupKeeps ==
  ASSUME TypeOK, Placed, EditsMade, EditsKept, NEW r \in Rooms, CleanupExpired(r),
         UNCHANGED pc
  PROVE  EditsMade' /\ EditsKept'
<1> USE DEF TypeOK, RoomTypeOK
<1>1. /\ r \notin rooms /\ snap' = [snap EXCEPT ![r] = None]
      /\ UNCHANGED <<doc, guests, saving, payload, stopping, flush, flushing, unsafe>>
  BY DEF CleanupExpired, shutdown
<1>2. doc[r] = {}
  BY <1>1 DEF Placed
<1>3. \A s \in Rooms : Saved(s) => Saved(s)'
  BY <1>1, <1>2 DEF Saved, HasRow
<1>4. EditsKept'
  BY <1>1, <1>3 DEF EditsKept
<1>5. \A s \in Rooms : \A c \in Clients : HasRow(s, c)' => HasRow(s, c)
  BY <1>1 DEF HasRow
<1>6. EditsMade'
  BY <1>1, <1>5 DEF EditsMade
<1> QED
  BY <1>4, <1>6

\* Each step of the rooms keeps the invariant.
LEMMA RoomStepKeeps ==
  ASSUME RealtimeInv, NEW r \in Rooms, RoomStep(r), UNCHANGED connVars
  PROVE  RealtimeInv'
<1> USE DEF RealtimeInv
<1>u. UNCHANGED <<pc, sock, connections, ipCount, userConns, sent>>
  BY DEF connVars
<1>t. TypeOK'
  BY <1>u, RoomStepTyped DEF TypeOK
<1>1. CASE PersistBinary(r)
  BY <1>1, <1>t, <1>u, PersistBinaryKeeps, ConnectionsUntouched DEF PersistBinary
<1>2. CASE WriteDraft(r)
  <2>1. PICK E \in SUBSET {r} : RemoveRooms(E) /\ \A s \in E : members[s] = {}
    BY <1>2, FinalizeEvicts
  <2> QED
    BY <1>2, <1>t, <1>u, <2>1, WriteDraftKeeps, EvictionKeepsConnections
<1>3. CASE GraceElapses(r)
  <2>1. UNCHANGED <<rooms, members, guests, doc, snap, unsafe, stopping, flush, flushing>>
    BY <1>3 DEF GraceElapses, store, shutdown
  <2>2. CASE members[r] = {}
    <3>1. StartSnapshot(r)
      BY <1>3, <2>2 DEF GraceElapses
    <3> QED
      BY <1>t, <1>u, <2>1, <3>1, StartSnapshotKeeps, ConnectionsUntouched
  <2>3. CASE members[r] # {}
    <3>1. UNCHANGED <<saving, payload>>
      BY <1>3, <2>3 DEF GraceElapses
    <3> QED
      BY <1>t, <1>u, <2>1, <3>1, EditsUntouched, ConnectionsUntouched DEF shutdown
  <2> QED
    BY <2>2, <2>3
<1>4. CASE PeriodicSnapshot(r) \/ TriggerRecordSnapshot(r)
  <2>1. /\ StartSnapshot(r)
        /\ UNCHANGED <<rooms, members, guests, doc, snap, unsafe, stopping, flush, flushing>>
    BY <1>4 DEF PeriodicSnapshot, TriggerRecordSnapshot, Untouched, store, shutdown
  <2> QED
    BY <1>t, <1>u, <2>1, StartSnapshotKeeps, ConnectionsUntouched
<1>5. CASE CleanupExpired(r)
  <2>1. UNCHANGED <<rooms, members, guests, doc>>
    BY <1>5 DEF CleanupExpired
  <2> QED
    BY <1>5, <1>t, <1>u, <2>1, CleanupKeeps, ConnectionsUntouched
<1>6. CASE ShutdownSnapshot(r)
  <2>1. /\ StartSnapshot(r) /\ flush' = flush \ {r} /\ flushing = None /\ flushing' = r
        /\ UNCHANGED <<rooms, members, guests, doc, snap, unsafe, stopping>>
    BY <1>6 DEF ShutdownSnapshot, Untouched, store
  <2> QED
    BY <1>t, <1>u, <2>1, StartSnapshotKeeps, ConnectionsUntouched
<1> QED
  BY <1>1, <1>2, <1>3, <1>4, <1>5, <1>6 DEF RoomStep

\* The shutdown has yet to save every room in memory when it begins.
LEMMA BeginShutdownKeeps ==
  ASSUME RealtimeInv, BeginShutdown, UNCHANGED connVars
  PROVE  RealtimeInv'
<1> USE DEF RealtimeInv
<1>1. /\ stopping' = TRUE /\ timer' = {} /\ flush' = rooms
      /\ UNCHANGED <<rooms, members, guests, doc, changed, finalizing, saving, payload,
                     snap, draft, flushing, unsafe>>
  BY DEF BeginShutdown, store
<1>2. TypeOK'
  BY <1>1 DEF connVars, TypeOK, RoomTypeOK
<1>3. EditsMade'
  BY <1>1 DEF connVars, EditsMade, HasRow
<1>4. \A s \in Rooms : (Saved(s) => Saved(s)') /\ (s \notin rooms => Saved(s)')
  BY <1>1 DEF Saved, HasRow, Placed
<1>5. EditsKept'
  BY <1>1, <1>4 DEF EditsKept
<1> QED
  BY <1>1, <1>2, <1>3, <1>5, ConnectionsUntouched

\* The end of the process, planned or not, leaves only rows and drafts, and
\* their editors are gone.
LEMMA ProcessEndsKeeps ==
  ASSUME RealtimeInv, ProcessEnds
  PROVE  RealtimeInv'
<1> USE DEF RealtimeInv
<1>1. /\ rooms' = {} /\ finalizing' = {} /\ stopping' = FALSE /\ flush' = {} /\ flushing' = None
      /\ saving' = [r \in Rooms |-> "idle"] /\ payload' = [r \in Rooms |-> {}]
      /\ UNCHANGED <<snap, draft>> /\ RemoveRooms(rooms)
  BY DEF ProcessEnds, Forget, store, RemoveRooms
<1>2. /\ pc' = [c \in Clients |-> IF pc[c] = "new" THEN "new" ELSE "gone"]
      /\ sock' = [c \in Clients |-> IF pc[c] = "new" THEN "open" ELSE "closed"]
      /\ connections' = {} /\ ipCount' = 0
      /\ userConns' = [u \in Users |-> {}] /\ sent' = [c \in Clients |-> {}]
  BY DEF ProcessEnds
<1>3. \A r \in Rooms : doc'[r] = {} /\ guests'[r] = {} /\ members'[r] = {}
  <2>1. \A r \in Rooms : r \in rooms => doc'[r] = {} /\ guests'[r] = {} /\ members'[r] = {}
    BY <1>1 DEF RemoveRooms
  <2>2. \A r \in Rooms : r \notin rooms => doc[r] = {} /\ guests[r] = {} /\ members[r] = {}
    BY DEF Placed, TypeOK, RoomTypeOK
  <2>3. \A r \in Rooms : r \notin rooms => /\ doc'[r] = doc[r] /\ guests'[r] = guests[r]
                                           /\ members'[r] = members[r]
    BY <1>1 DEF RemoveRooms
  <2> QED
    BY <2>1, <2>2, <2>3
<1>4. TypeOK'
  <2>1. RoomTypeOK'
    BY <1>1, RemoveRoomsTyped, TextsUnion DEF TypeOK, RoomTypeOK
  <2>2. /\ pc' \in [Clients -> Stages] /\ sock' \in [Clients -> {"open", "closing", "closed"}]
        /\ userConns' \in [Users -> SUBSET Clients] /\ sent' \in [Clients -> Texts]
    BY <1>2, TextsUnion DEF Stages
  <2> QED
    BY <1>2, <2>1, <2>2 DEF TypeOK
<1>5. CountsMatch'
  BY <1>2, FS_EmptySet DEF CountsMatch
<1>6. Placed' /\ EditorsInLiveRoom' /\ EveryoneHears'
  BY <1>2, <1>3 DEF Placed, EditorsInLiveRoom, EveryoneHears
<1>7. EditsMade'
  <2>1. \A r \in Rooms : \A c \in Clients : HasRow(r, c)' => pc'[c] = "gone"
    BY <1>1, <1>2 DEF EditsMade, HasRow
  <2> QED
    BY <1>1, <1>3, <2>1 DEF EditsMade
<1>8. EditsKept'
  BY <1>1, RoomAssumption DEF EditsKept
<1> QED
  BY <1>4, <1>5, <1>6, <1>7, <1>8

-----------------------------------------------------------------------------
(* A connection arrives.                                                   *)

\* Before a connection is counted, nothing but its own stage changes.
LEMMA ArrivalKeeps ==
  ASSUME RealtimeInv, NEW c \in Clients, Connect(c) \/ Authenticated(c) \/ Refused(c)
  PROVE  RealtimeInv'
<1> USE DEF RealtimeInv
<1>1. /\ pc[c] \in {"new", "auth", "authz"}
      /\ pc' \in [Clients -> Stages] /\ sock' \in [Clients -> {"open", "closing", "closed"}]
      /\ \A d \in Clients : d # c => pc'[d] = pc[d] /\ sock'[d] = sock[d]
      /\ UNCHANGED <<connections, ipCount, userConns, sent>>
  BY DEF Connect, Authenticated, Refused, Goto, TypeOK, Stages
<1>r. UNCHANGED roomVars
  BY DEF Connect, Authenticated, Refused
<1>2. UNCHANGED <<rooms, members, guests, doc, changed, timer, finalizing, saving, payload,
                  snap, draft, stopping, flush, flushing, unsafe>>
  BY <1>r DEF roomVars
<1>3. c \notin connections
  BY <1>1 DEF Placed
<1>4. TypeOK'
  BY <1>1, <1>2 DEF TypeOK, RoomTypeOK
<1>5. Placed' /\ CountsMatch' /\ EditorsInLiveRoom' /\ EveryoneHears'
  <2>1. \A d \in connections : pc'[d] = pc[d] /\ sock'[d] = sock[d]
    BY <1>1, <1>3 DEF TypeOK
  <2>2. Placed'
    BY <1>1, <1>2, <2>1 DEF Placed
  <2>3. CountsMatch'
    BY <1>1, <2>1 DEF CountsMatch
  <2>4. EditorsInLiveRoom' /\ EveryoneHears'
    BY <1>1, <1>2, <2>1 DEF EditorsInLiveRoom, EveryoneHears
  <2> QED
    BY <2>2, <2>3, <2>4
<1>6. EditsMade' /\ EditsKept'
  <2>1. \A d \in Clients : pc[d] \in {"established", "gone"} =>
                             pc'[d] \in {"established", "gone"}
    BY <1>1
  <2> QED
    BY <1>2, <2>1, EditsUntouched DEF shutdown
<1> QED
  BY <1>4, <1>5, <1>6

\* A connection that meets the room cap is counted, and joins nothing.
LEMMA CappedKeeps ==
  ASSUME RealtimeInv, NEW c \in Clients, Capped(c)
  PROVE  RealtimeInv'
<1> USE DEF RealtimeInv
<1>1. /\ pc[c] = "authz" /\ Register(c) /\ UNCHANGED sent
      /\ pc' = [pc EXCEPT ![c] = "capped"]
      /\ sock' = [sock EXCEPT ![c] = IF sock[c] = "open" THEN "closing" ELSE sock[c]]
  BY DEF Capped, Goto, Closing
<1>r. UNCHANGED roomVars
  BY DEF Capped
<1>2. UNCHANGED <<rooms, members, guests, doc, changed, timer, finalizing, saving, payload,
                  snap, draft, stopping, flush, flushing, unsafe>>
  BY <1>r DEF roomVars
<1>3. c \notin connections
  BY <1>1 DEF Placed
<1>4. /\ connections' = connections \cup {c} /\ connections' \in SUBSET Clients
      /\ ipCount' \in Nat /\ ipCount' = Cardinality(connections')
      /\ userConns' \in [Users -> SUBSET Clients]
      /\ \A u \in Users : userConns'[u] = {d \in connections' : UserOf[d] = u}
  BY <1>1, <1>3, RegisterCounts DEF CountsMatch
<1>5. pc' \in [Clients -> Stages] /\ sock' \in [Clients -> {"open", "closing", "closed"}]
  BY <1>1 DEF TypeOK, Stages
<1>6. TypeOK'
  BY <1>1, <1>2, <1>4, <1>5 DEF TypeOK, RoomTypeOK
<1>7. pc'[c] = "capped" /\ \A d \in connections : pc'[d] = pc[d] /\ sock'[d] = sock[d]
  BY <1>1, <1>3 DEF TypeOK
<1>8. Placed'
  BY <1>2, <1>4, <1>7 DEF Placed
<1>9. CountsMatch'
  BY <1>4, <1>7 DEF CountsMatch
<1>10. EditorsInLiveRoom' /\ EveryoneHears'
  BY <1>1, <1>2, <1>4, <1>7 DEF EditorsInLiveRoom, EveryoneHears
<1>11. EditsMade' /\ EditsKept'
  <2>1. \A d \in Clients : pc[d] \in {"established", "gone"} =>
                             pc'[d] \in {"established", "gone"}
    BY <1>1 DEF TypeOK
  <2> QED
    BY <1>2, <2>1, EditsUntouched DEF shutdown
<1> QED
  BY <1>6, <1>8, <1>9, <1>10, <1>11

\* The first two branches of the join: the connection is counted and becomes a
\* client of its room.
LEMMA RegisteredJoinKeeps ==
  ASSUME RealtimeInv, NEW c \in Clients, pc[c] = "authz",
         Register(c), JoinRoom(RoomOf[c], c),
         UNCHANGED <<sock, doc, changed, finalizing, saving, payload, store, shutdown, unsafe>>,
         \/ doc[RoomOf[c]] = {} /\ Goto(c, "hydrate") /\ UNCHANGED sent
         \/ /\ doc[RoomOf[c]] # {} /\ sock[c] = "open"
            /\ Goto(c, "established") /\ Wire(c, doc[RoomOf[c]])
  PROVE  RealtimeInv'
<1> USE DEF RealtimeInv
<1> DEFINE r == RoomOf[c]
<1>r. r \in Rooms
  BY ServerAssumption
<1> HIDE DEF r
<1>1. c \notin connections
  BY DEF Placed
<1>2. /\ connections' = connections \cup {c} /\ connections' \in SUBSET Clients
      /\ ipCount' \in Nat /\ ipCount' = Cardinality(connections')
      /\ userConns' \in [Users -> SUBSET Clients]
      /\ \A u \in Users : userConns'[u] = {d \in connections' : UserOf[d] = u}
  BY <1>1, RegisterCounts DEF CountsMatch
<1>3. /\ rooms' = rooms \cup {r} /\ timer' = timer \ {r}
      /\ members' = [members EXCEPT ![r] = members[r] \cup {c}]
      /\ guests' = [guests EXCEPT ![r] = guests[r] \cup {c}]
  BY DEF JoinRoom, r
<1>4. UNCHANGED <<sock, doc, changed, finalizing, saving, payload, snap, draft,
                  stopping, flush, flushing, unsafe>>
  BY DEF store, shutdown
<1>5. /\ pc' \in [Clients -> Stages] /\ pc'[c] \in {"hydrate", "established"}
      /\ \A d \in Clients : d # c => pc'[d] = pc[d]
      /\ pc'[c] = "established" => sock[c] = "open"
  BY DEF Goto, TypeOK, Stages
<1>6. /\ sent' \in [Clients -> Texts]
      /\ pc'[c] = "established" => sent'[c] = doc[r]
      /\ \A d \in connections : sent'[d] = sent[d] \/
              (RoomOf[d] = r /\ sent'[d] = sent[d] \cup doc[r])
  <2>1. CASE doc[RoomOf[c]] = {} /\ Goto(c, "hydrate") /\ UNCHANGED sent
    BY <2>1 DEF Goto, TypeOK
  <2>2. CASE Goto(c, "established") /\ Wire(c, doc[RoomOf[c]])
    <3>1. sent' = [Forward(r, doc[r]) EXCEPT ![c] = doc[r]]
      BY <2>2 DEF Wire, r
    <3>2. doc[r] \in Texts
      BY <1>r DEF TypeOK, RoomTypeOK
    <3>3. Forward(r, doc[r]) \in [Clients -> Texts]
      BY <3>2, TextsUnion DEF Forward, TypeOK
    <3>4. sent' \in [Clients -> Texts] /\ sent'[c] = doc[r]
      BY <3>1, <3>2, <3>3
    <3>5. \A d \in connections : sent'[d] = Forward(r, doc[r])[d]
      BY <1>1, <3>1, <3>3 DEF TypeOK
    <3>6. \A d \in members[r] : RoomOf[d] = r
      BY <1>r DEF Placed
    <3> QED
      BY <3>4, <3>5, <3>6 DEF Forward, TypeOK
  <2> QED
    BY <2>1, <2>2
<1>7. TypeOK'
  <2>1. RoomTypeOK'
    BY <1>r, <1>3, <1>4 DEF TypeOK, RoomTypeOK
  <2> QED
    BY <2>1, <1>2, <1>4, <1>5, <1>6 DEF TypeOK
<1>8. \A d \in connections : pc'[d] = pc[d]
  BY <1>1, <1>5 DEF TypeOK
<1>9. \A s \in Rooms : /\ s # r => members'[s] = members[s] /\ guests'[s] = guests[s]
                       /\ members'[r] = members[r] \cup {c} /\ guests'[r] = guests[r] \cup {c}
  BY <1>r, <1>3 DEF TypeOK, RoomTypeOK
<1>10. Placed'
  <2>1. \A d \in connections' : pc'[d] \in {"hydrate", "seed", "established", "capped"}
    BY <1>2, <1>5, <1>8 DEF Placed
  <2>2. \A s \in Rooms : \A d \in members'[s] : d \in guests'[s] /\ RoomOf[d] = s
    BY <1>9 DEF Placed, r
  <2>3. \A s \in Rooms \ rooms' : doc'[s] = {} /\ guests'[s] = {}
    BY <1>3, <1>4, <1>9 DEF Placed
  <2> QED
    BY <2>1, <2>2, <2>3 DEF Placed
<1>11. CountsMatch'
  <2>1. \A d \in connections' :
          sock'[d] = "closed" => pc'[d] \in {"hydrate", "seed", "capped"}
    BY <1>2, <1>4, <1>5, <1>8 DEF CountsMatch
  <2> QED
    BY <1>2, <2>1 DEF CountsMatch
<1>12. EditorsInLiveRoom'
  BY <1>2, <1>3, <1>8, <1>9, ServerAssumption DEF EditorsInLiveRoom, r, TypeOK
<1>13. EveryoneHears'
  <2>1. \A d \in connections : pc[d] = "established" /\ sock[d] = "open" =>
                                 sent'[d] = doc[RoomOf[d]]
    BY <1>6 DEF EveryoneHears
  <2> QED
    BY <1>2, <1>4, <1>6, <1>8, <2>1 DEF EveryoneHears, r
<1>14. \A s \in Rooms : c \notin doc[s] /\ ~HasRow(s, c)
  BY DEF EditsMade
<1>15. \A s \in Rooms : doc'[s] \cap guests'[s] = doc[s] \cap guests[s]
  BY <1>4, <1>9, <1>14
<1>16. EditsMade'
  <2>1. \A s \in Rooms : \A d \in guests'[s] : HasRow(s, d)' => d \in doc'[s]
    BY <1>4, <1>9, <1>14 DEF EditsMade, HasRow
  <2>2. \A s \in Rooms : \A d \in Clients :
          d \in doc'[s] \/ HasRow(s, d)' => pc'[d] \in {"established", "gone"}
    BY <1>4, <1>5, <1>14 DEF EditsMade, HasRow
  <2> QED
    BY <1>4, <2>1, <2>2 DEF EditsMade
<1>17. EditsKept'
  <2>1. \A s \in Rooms : Saved(s) => Saved(s)'
    BY <1>4, <1>15 DEF Saved, HasRow
  <2> QED
    BY <1>4, <1>15, <2>1 DEF EditsKept
<1> QED
  BY <1>7, <1>10, <1>11, <1>12, <1>13, <1>16, <1>17

\* The third branch: the socket closed while the connection authenticated, and
\* all that is left of it is the timer of a room without clients.
LEMMA JoinKeeps ==
  ASSUME RealtimeInv, NEW c \in Clients, Join(c)
  PROVE  RealtimeInv'
<1> USE DEF RealtimeInv
<1>1. /\ pc[c] = "authz"
      /\ UNCHANGED <<sock, doc, changed, finalizing, saving, payload, store, shutdown, unsafe>>
  BY DEF Join
<1>2. \/ /\ Register(c) /\ JoinRoom(RoomOf[c], c)
         /\ \/ doc[RoomOf[c]] = {} /\ Goto(c, "hydrate") /\ UNCHANGED sent
            \/ /\ doc[RoomOf[c]] # {} /\ sock[c] = "open"
               /\ Goto(c, "established") /\ Wire(c, doc[RoomOf[c]])
      \/ /\ doc[RoomOf[c]] # {} /\ Goto(c, "gone")
         /\ timer' = IF members[RoomOf[c]] = {} THEN timer \cup {RoomOf[c]} ELSE timer
         /\ UNCHANGED <<connections, ipCount, userConns, rooms, members, guests, sent>>
  BY DEF Join
<1>3. CASE Register(c) /\ JoinRoom(RoomOf[c], c)
             /\ \/ doc[RoomOf[c]] = {} /\ Goto(c, "hydrate") /\ UNCHANGED sent
                \/ /\ doc[RoomOf[c]] # {} /\ sock[c] = "open"
                   /\ Goto(c, "established") /\ Wire(c, doc[RoomOf[c]])
  BY <1>1, <1>3, RegisteredJoinKeeps
<1>4. CASE /\ doc[RoomOf[c]] # {} /\ Goto(c, "gone")
           /\ timer' = IF members[RoomOf[c]] = {} THEN timer \cup {RoomOf[c]} ELSE timer
           /\ UNCHANGED <<connections, ipCount, userConns, rooms, members, guests, sent>>
  <2>1. UNCHANGED <<sock, doc, changed, finalizing, saving, payload, snap, draft,
                    stopping, flush, flushing, unsafe>>
    BY <1>1 DEF store, shutdown
  <2>2. c \notin connections
    BY <1>1 DEF Placed
  <2>3. pc' \in [Clients -> Stages] /\ \A d \in Clients : pc'[d] = IF d = c THEN "gone" ELSE pc[d]
    BY <1>4 DEF Goto, TypeOK, Stages
  <2>4. timer' \in SUBSET Rooms
    BY <1>4, ServerAssumption DEF TypeOK, RoomTypeOK
  <2>5. TypeOK'
    BY <1>4, <2>1, <2>3, <2>4 DEF TypeOK, RoomTypeOK
  <2>6. \A d \in connections : pc'[d] = pc[d]
    BY <2>2, <2>3 DEF TypeOK
  <2>7. Placed'
    BY <1>4, <2>1, <2>6 DEF Placed
  <2>8. CountsMatch'
    BY <1>4, <2>1, <2>6 DEF CountsMatch
  <2>9. EditorsInLiveRoom' /\ EveryoneHears'
    BY <1>4, <2>1, <2>6 DEF EditorsInLiveRoom, EveryoneHears
  <2>10. EditsMade' /\ EditsKept'
    BY <1>4, <2>1, <2>3, EditsUntouched DEF shutdown
  <2> QED
    BY <2>5, <2>7, <2>8, <2>9, <2>10
<1> QED
  BY <1>2, <1>3, <1>4

-----------------------------------------------------------------------------
(* A connection leaves.                                                    *)

\* Releasing connections keeps the counts, the rooms' clients and what the
\* others hear; c's handshake may end with it.
LEMMA ReleaseKeeps ==
  ASSUME RealtimeInv, NEW L \in SUBSET Clients, Disconnect(L),
         pc' \in [Clients -> Stages], sock' \in [Clients -> {"open", "closing", "closed"}],
         sent' \in [Clients -> Texts],
         \A d \in Clients : d \notin L =>
           pc'[d] = pc[d] /\ sock'[d] = sock[d] /\ sent'[d] = sent[d],
         \A d \in Clients : pc[d] \in {"established", "gone"} =>
                              pc'[d] \in {"established", "gone"},
         UNCHANGED <<rooms, guests, doc, changed, finalizing, saving, payload, store,
                     shutdown, unsafe>>
  PROVE  RealtimeInv'
<1> USE DEF RealtimeInv
<1>1. UNCHANGED <<rooms, guests, doc, changed, finalizing, saving, payload, snap, draft,
                  stopping, flush, flushing, unsafe>>
  BY DEF store, shutdown
<1>2. /\ connections' = connections \ L
      /\ ipCount' \in Nat /\ ipCount' = Cardinality(connections')
      /\ userConns' \in [Users -> SUBSET Clients]
      /\ \A u \in Users : userConns'[u] = {c \in connections' : UserOf[c] = u}
      /\ members' \in [Rooms -> SUBSET Clients]
      /\ \A r \in Rooms : members'[r] = members[r] \ (L \cap connections)
      /\ timer' \in SUBSET Rooms
  BY DisconnectCounts DEF CountsMatch
<1>3. TypeOK'
  BY <1>1, <1>2 DEF TypeOK, RoomTypeOK
<1>4. \A d \in connections' : /\ d \in connections /\ d \notin L
                              /\ pc'[d] = pc[d] /\ sock'[d] = sock[d] /\ sent'[d] = sent[d]
  BY <1>2 DEF TypeOK
<1>5. Placed'
  BY <1>1, <1>2, <1>4 DEF Placed
<1>6. CountsMatch'
  BY <1>2, <1>4 DEF CountsMatch
<1>7. EditorsInLiveRoom'
  BY <1>1, <1>2, <1>4, ServerAssumption DEF EditorsInLiveRoom, TypeOK
<1>8. EveryoneHears'
  BY <1>1, <1>4 DEF EveryoneHears
<1>9. EditsMade' /\ EditsKept'
  BY <1>1, EditsUntouched
<1> QED
  BY <1>3, <1>5, <1>6, <1>7, <1>8, <1>9

\* A socket that closes and a revocation are such releases.
LEMMA LeavingKeeps ==
  ASSUME RealtimeInv,
         (\E c \in Clients : SocketCloses(c)) \/ (\E u \in Users : RevokeUserConnections(u))
  PROVE  RealtimeInv'
<1>t. TypeOK
  BY DEF RealtimeInv
<1>1. ASSUME NEW c \in Clients, SocketCloses(c) PROVE RealtimeInv'
  <2>1. /\ Disconnect({c})
        /\ UNCHANGED <<rooms, guests, doc, changed, finalizing, saving, payload, store,
                       shutdown, unsafe>>
    BY <1>1 DEF SocketCloses, store, shutdown
  <2>2. /\ pc' = [pc EXCEPT ![c] = IF pc[c] = "established" THEN "gone" ELSE pc[c]]
        /\ sock' = [sock EXCEPT ![c] = "closed"] /\ sent' = [sent EXCEPT ![c] = {}]
    BY <1>1 DEF SocketCloses
  <2>3. /\ pc' \in [Clients -> Stages] /\ sock' \in [Clients -> {"open", "closing", "closed"}]
        /\ sent' \in [Clients -> Texts]
    BY <1>t, <2>2, TextsUnion DEF TypeOK, Stages
  <2>4. \A d \in Clients : /\ d # c => pc'[d] = pc[d] /\ sock'[d] = sock[d] /\ sent'[d] = sent[d]
                           /\ pc[d] \in {"established", "gone"} =>
                                pc'[d] \in {"established", "gone"}
    BY <1>t, <2>2 DEF TypeOK
  <2> QED
    BY <2>1, <2>3, <2>4, ReleaseKeeps
<1>2. ASSUME NEW u \in Users, RevokeUserConnections(u) PROVE RealtimeInv'
  <2>1. /\ Disconnect(userConns[u]) /\ pc' = pc
        /\ UNCHANGED <<rooms, guests, doc, changed, finalizing, saving, payload, store,
                       shutdown, unsafe>>
    BY <1>2 DEF RevokeUserConnections, store, shutdown
  <2>2. userConns[u] \in SUBSET Clients
    BY <1>t DEF TypeOK
  <2>3. /\ sock' = [c \in Clients |-> IF c \in userConns[u] /\ sock[c] = "open"
                                        THEN "closing" ELSE sock[c]]
        /\ sent' = [c \in Clients |-> IF c \in userConns[u] THEN {} ELSE sent[c]]
    BY <1>2 DEF RevokeUserConnections
  <2>4. sock' \in [Clients -> {"open", "closing", "closed"}] /\ sent' \in [Clients -> Texts]
    BY <1>t, <2>3, TextsUnion DEF TypeOK
  <2>5. \A d \in Clients : d \notin userConns[u] => sock'[d] = sock[d] /\ sent'[d] = sent[d]
    BY <2>3
  <2> QED
    BY <1>t, <2>1, <2>2, <2>4, <2>5, ReleaseKeeps DEF TypeOK
<1> QED
  BY <1>1, <1>2

-----------------------------------------------------------------------------
(* The setup ends.                                                         *)

\* What a setup may leave in the room: the document, and operations of the row
\* or of the record.  No guest's edit is among those that were not there.
HydratedText(r, text) ==
  /\ text \in Texts
  /\ doc[r] \subseteq text
  /\ \A c \in Clients : c \in text => c \in doc[r] \/ HasRow(r, c)

\* The texts LoadSnapshot and LoadRecord end with are such texts.
LEMMA HydratedTexts ==
  ASSUME TypeOK, NEW r \in Rooms
  PROVE  /\ HydratedText(r, doc[r])
         /\ snap[r] # None => HydratedText(r, doc[r] \cup snap[r])
         /\ HydratedText(r, SeedFromMarkdown(r))
<1>1. doc[r] \in Texts /\ snap[r] \in Texts \cup {None}
  BY DEF TypeOK, RoomTypeOK
<1>2. Base \notin Clients
  BY RoomAssumption
<1>3. HydratedText(r, doc[r])
  BY <1>1 DEF HydratedText
<1>4. snap[r] # None => HydratedText(r, doc[r] \cup snap[r])
  BY <1>1, TextsUnion DEF HydratedText, HasRow
<1>5. HydratedText(r, SeedFromMarkdown(r))
  <2>1. CASE doc[r] = {}
    BY <1>2, <2>1, TextsUnion DEF HydratedText, SeedFromMarkdown
  <2>2. CASE doc[r] # {}
    BY <1>3, <2>2 DEF SeedFromMarkdown
  <2> QED
    BY <2>1, <2>2
<1> QED
  BY <1>3, <1>4, <1>5

\* The hydrated text reaches every open socket of the room, this one included;
\* a socket that closed in the meantime is released.
LEMMA SetupEndsKeeps ==
  ASSUME RealtimeInv, NEW c \in Clients, NEW text,
         pc[c] \in {"hydrate", "seed"}, c \in guests[RoomOf[c]],
         HydratedText(RoomOf[c], text), SetupEnds(c, text),
         UNCHANGED <<sock, rooms, guests, changed, finalizing, saving, payload,
                     store, shutdown, unsafe>>
  PROVE  RealtimeInv'
<1> USE DEF RealtimeInv
<1> DEFINE r == RoomOf[c]
<1>r. r \in Rooms
  BY ServerAssumption
<1>h. /\ text \in Texts /\ doc[r] \subseteq text
      /\ \A d \in Clients : d \in text => d \in doc[r] \/ HasRow(r, d)
  BY DEF HydratedText
<1>1. UNCHANGED <<sock, rooms, guests, changed, finalizing, saving, payload, snap, draft,
                  stopping, flush, flushing, unsafe>>
  BY DEF store, shutdown
<1>2. /\ pc' \in [Clients -> Stages] /\ doc' \in [Rooms -> Texts]
      /\ connections' \in SUBSET Clients /\ ipCount' \in Nat
      /\ userConns' \in [Users -> SUBSET Clients] /\ sent' \in [Clients -> Texts]
      /\ members' \in [Rooms -> SUBSET Clients] /\ timer' \in SUBSET Rooms
      /\ ipCount' = Cardinality(connections')
      /\ \A u \in Users : userConns'[u] = {d \in connections' : UserOf[d] = u}
      /\ connections' \subseteq connections
      /\ sock[c] # "open" => c \notin connections'
      /\ \A s \in Rooms : /\ members'[s] \subseteq members[s]
                          /\ \A d \in members[s] : d # c => d \in members'[s]
      /\ c \in connections' => members' = members
  BY <1>h, SetupEndsTyped
<1>3. TypeOK'
  BY <1>1, <1>2 DEF TypeOK, RoomTypeOK
<1>4. /\ pc'[c] \in {"established", "gone"}
      /\ sock[c] = "open" => pc'[c] = "established"
      /\ \A d \in Clients : d # c => pc'[d] = pc[d]
  BY DEF SetupEnds, Goto, TypeOK
<1>5. \A s \in Rooms : doc'[s] = IF s = r THEN text ELSE doc[s]
  BY DEF SetupEnds, TypeOK, RoomTypeOK
<1>6. \A d \in connections' : d \in Clients /\ d \in connections /\ (d = c => sock[c] = "open")
  BY <1>2
<1>7. r \in rooms
  BY <1>r DEF Placed
<1>8. Placed'
  <2>1. \A d \in connections' : pc'[d] \in {"hydrate", "seed", "established", "capped"}
    BY <1>4, <1>6 DEF Placed
  <2>2. \A s \in Rooms : \A d \in members'[s] : d \in guests'[s] /\ RoomOf[d] = s
    BY <1>1, <1>2 DEF Placed
  <2>3. \A s \in Rooms \ rooms' : doc'[s] = {} /\ guests'[s] = {}
    BY <1>1, <1>5, <1>7 DEF Placed
  <2> QED
    BY <2>1, <2>2, <2>3 DEF Placed
<1>9. CountsMatch'
  <2>1. \A d \in connections' :
          sock'[d] = "closed" => pc'[d] \in {"hydrate", "seed", "capped"}
    BY <1>1, <1>4, <1>6 DEF CountsMatch
  <2> QED
    BY <1>2, <2>1 DEF CountsMatch
<1>10. EditorsInLiveRoom'
  <2> SUFFICES ASSUME NEW d \in connections', pc'[d] \in {"hydrate", "seed", "established"}
               PROVE  RoomOf[d] \in rooms' /\ d \in members'[RoomOf[d]]
    BY DEF EditorsInLiveRoom
  <2>1. d \in connections /\ RoomOf[d] \in Rooms
    BY <1>6, ServerAssumption
  <2>2. pc[d] \in {"hydrate", "seed", "established"}
    BY <1>4, <1>6
  <2>3. RoomOf[d] \in rooms /\ d \in members[RoomOf[d]]
    BY <2>1, <2>2 DEF EditorsInLiveRoom
  <2> QED
    BY <1>1, <1>2, <2>1, <2>3
<1>11. EveryoneHears'
  <2> SUFFICES ASSUME NEW d \in connections', pc'[d] = "established", sock'[d] = "open"
               PROVE  sent'[d] = doc'[RoomOf[d]]
    BY DEF EveryoneHears
  <2>1. d \in Clients /\ d \in connections /\ sock[d] = "open" /\ RoomOf[d] \in Rooms
    BY <1>1, <1>6, ServerAssumption
  <2>f. Forward(r, text) \in [Clients -> Texts]
    BY <1>h, TextsUnion DEF Forward, TypeOK
  <2>2. CASE d = c
    <3>1. Wire(c, text)
      BY <1>1, <2>1, <2>2 DEF SetupEnds
    <3>2. sent'[c] = text
      BY <2>f, <3>1 DEF Wire
    <3> QED
      BY <1>5, <1>r, <2>2, <3>2
  <2>3. CASE d # c
    <3>1. pc[d] = "established" /\ sent[d] = doc[RoomOf[d]] /\ d \in members[RoomOf[d]]
      BY <1>4, <2>1, <2>3 DEF EveryoneHears, EditorsInLiveRoom
    <3>2. sent'[d] = Forward(r, text)[d]
      BY <2>1, <2>3, <2>f DEF SetupEnds, Wire
    <3>3. CASE RoomOf[d] = r
      BY <1>5, <1>h, <2>1, <3>1, <3>2, <3>3 DEF Forward
    <3>4. CASE RoomOf[d] # r
      <4>1. d \notin members[r]
        BY <1>r, <3>4 DEF Placed
      <4> QED
        BY <1>5, <2>1, <3>1, <3>2, <3>4, <4>1 DEF Forward
    <3> QED
      BY <3>3, <3>4
  <2> QED
    BY <2>2, <2>3
<1>12. \A s \in Rooms : \A d \in Clients : d \in doc'[s] => d \in doc[s] \/ HasRow(s, d)
  BY <1>5, <1>h
<1>13. \A s \in Rooms : doc[s] \subseteq doc'[s]
  BY <1>5, <1>h
<1>14. EditsMade'
  <2>1. \A d \in Clients : pc[d] \in {"established", "gone"} => pc'[d] \in {"established", "gone"}
    BY <1>4
  <2>2. \A s \in Rooms : \A d \in Clients : HasRow(s, d)' <=> HasRow(s, d)
    BY <1>1 DEF HasRow
  <2> QED
    BY <1>1, <1>12, <1>13, <2>1, <2>2 DEF EditsMade, TypeOK, RoomTypeOK
<1>15. \A s \in Rooms : doc'[s] \cap guests'[s] = doc[s] \cap guests[s]
  BY <1>1, <1>12, <1>13 DEF EditsMade, TypeOK, RoomTypeOK
<1>16. EditsKept'
  <2>1. \A s \in Rooms : Saved(s) => Saved(s)'
    BY <1>1, <1>15 DEF Saved, HasRow
  <2> QED
    BY <1>1, <1>15, <2>1 DEF EditsKept
<1> QED
  BY <1>3, <1>8, <1>9, <1>10, <1>11, <1>14, <1>16

\* A stage or a socket changes and nothing is released.
LEMMA StageKeeps ==
  ASSUME RealtimeInv, NEW c \in Clients,
         pc' \in [Clients -> Stages], sock' \in [Clients -> {"open", "closing", "closed"}],
         sent' \in [Clients -> Texts],
         \A d \in Clients \ {c} : pc'[d] = pc[d] /\ sock'[d] = sock[d] /\ sent'[d] = sent[d],
         pc[c] \in {"established", "gone"} => pc'[c] \in {"established", "gone"},
         c \in connections => \/ {pc[c], pc'[c]} \subseteq {"hydrate", "seed"}
                              \/ pc'[c] = pc[c] /\ sock'[c] = "closing",
         UNCHANGED <<roomVars, connections, ipCount, userConns>>
  PROVE  RealtimeInv'
<1> USE DEF RealtimeInv
<1>1. UNCHANGED <<rooms, members, guests, doc, changed, timer, finalizing, saving, payload,
                  snap, draft, stopping, flush, flushing, unsafe>>
  BY DEF roomVars
<1>2. TypeOK'
  BY <1>1 DEF TypeOK, RoomTypeOK
<1>3. connections \subseteq Clients
  BY DEF TypeOK
<1>4. Placed'
  BY <1>1, <1>3 DEF Placed
<1>5. CountsMatch'
  <2>1. \A d \in connections :
          sock'[d] = "closed" => pc'[d] \in {"hydrate", "seed", "capped"}
    BY <1>3 DEF CountsMatch
  <2> QED
    BY <2>1 DEF CountsMatch
<1>6. EditorsInLiveRoom' /\ EveryoneHears'
  BY <1>1, <1>3 DEF EditorsInLiveRoom, EveryoneHears
<1>7. EditsMade' /\ EditsKept'
  BY <1>1, EditsUntouched DEF shutdown
<1> QED
  BY <1>2, <1>4, <1>5, <1>6, <1>7

\* A rate limit closes the socket and leaves the rest to the close event.
LEMMA RateLimitedKeeps ==
  ASSUME RealtimeInv, NEW c \in Clients, RateLimited(c)
  PROVE  RealtimeInv'
<1>t. TypeOK
  BY DEF RealtimeInv
<1>1. /\ sock[c] = "open" /\ pc' = pc /\ UNCHANGED <<roomVars, connections, ipCount, userConns>>
      /\ sock' = [sock EXCEPT ![c] = "closing"] /\ sent' = [sent EXCEPT ![c] = {}]
  BY <1>t DEF RateLimited, Closing, TypeOK
<1>2. sock' \in [Clients -> {"open", "closing", "closed"}] /\ sent' \in [Clients -> Texts]
  BY <1>t, <1>1, TextsUnion DEF TypeOK
<1>3. /\ sock'[c] = "closing"
      /\ \A d \in Clients \ {c} : sock'[d] = sock[d] /\ sent'[d] = sent[d]
  BY <1>t, <1>1 DEF TypeOK
<1> QED
  BY <1>t, <1>1, <1>2, <1>3, StageKeeps DEF TypeOK

\* Only a connection that was released finds its room gone.
LEMMA SetupDetachedKeeps ==
  ASSUME RealtimeInv, NEW c \in Clients, SetupDetached(c)
  PROVE  RealtimeInv'
<1>1. /\ pc[c] \in {"hydrate", "seed"} /\ c \notin guests[RoomOf[c]]
      /\ pc' = [pc EXCEPT ![c] = "gone"]
      /\ UNCHANGED <<roomVars, sock, connections, ipCount, userConns, sent>>
  BY DEF SetupDetached, Goto
<1>2. c \notin connections
  <2>1. RoomOf[c] \in Rooms
    BY ServerAssumption
  <2> QED
    BY <1>1, <2>1 DEF RealtimeInv, EditorsInLiveRoom, Placed
<1>3. pc' \in [Clients -> Stages] /\ \A d \in Clients \ {c} : pc'[d] = pc[d]
  BY <1>1 DEF RealtimeInv, TypeOK, Stages
<1> QED
  BY <1>1, <1>2, <1>3, StageKeeps DEF RealtimeInv, TypeOK

\* The two answers a setup waits for.
LEMMA LoadKeeps ==
  ASSUME RealtimeInv, NEW c \in Clients, LoadSnapshot(c) \/ LoadRecord(c)
  PROVE  RealtimeInv'
<1> DEFINE r == RoomOf[c]
<1>r. TypeOK /\ r \in Rooms
  BY ServerAssumption DEF RealtimeInv
<1>1. /\ pc[c] \in {"hydrate", "seed"} /\ c \in guests[r]
      /\ UNCHANGED <<sock, rooms, guests, changed, finalizing, saving, payload,
                     store, shutdown, unsafe>>
  BY DEF LoadSnapshot, LoadRecord, store, shutdown
<1>2. \/ \E text : HydratedText(r, text) /\ SetupEnds(c, text)
      \/ /\ pc[c] = "hydrate" /\ Goto(c, "seed")
         /\ UNCHANGED <<doc, connections, ipCount, userConns, members, timer, sent>>
  <2>1. CASE LoadSnapshot(c)
    BY <1>r, <2>1, HydratedTexts DEF LoadSnapshot
  <2>2. CASE LoadRecord(c)
    BY <1>r, <2>2, HydratedTexts DEF LoadRecord
  <2> QED
    BY <2>1, <2>2
<1>3. CASE \E text : HydratedText(r, text) /\ SetupEnds(c, text)
  BY <1>1, <1>3, SetupEndsKeeps
<1>4. CASE /\ pc[c] = "hydrate" /\ Goto(c, "seed")
           /\ UNCHANGED <<doc, connections, ipCount, userConns, members, timer, sent>>
  <2>1. UNCHANGED <<roomVars, sock, sent, connections, ipCount, userConns>>
    BY <1>1, <1>4 DEF roomVars, store, shutdown
  <2>2. /\ pc' \in [Clients -> Stages] /\ pc'[c] = "seed"
        /\ \A d \in Clients \ {c} : pc'[d] = pc[d]
    BY <1>r, <1>4 DEF Goto, TypeOK, Stages
  <2> QED
    BY <1>r, <1>4, <2>1, <2>2, StageKeeps DEF TypeOK
<1> QED
  BY <1>2, <1>3, <1>4

-----------------------------------------------------------------------------
(* An edit.                                                                *)

\* An edit is in the document its author's room writes back, everyone open in
\* the room is sent it, and it is unsafe if the write in flight, or the
\* shutdown's, was encoded before it.
LEMMA EditKeeps ==
  ASSUME RealtimeInv, NEW c \in Clients, Edit(c)
  PROVE  RealtimeInv'
<1> USE DEF RealtimeInv
<1> DEFINE r == RoomOf[c]
<1>r. r \in Rooms
  BY ServerAssumption
<1>1. /\ pc[c] = "established" /\ c \in connections
      /\ doc' = [doc EXCEPT ![r] = doc[r] \cup {c}] /\ changed' = changed \cup {r}
      /\ unsafe' = IF saving[r] # "idle" \/ (stopping /\ r \notin flush)
                     THEN [unsafe EXCEPT ![r] = unsafe[r] \cup {c}] ELSE unsafe
      /\ sent' = [Forward(r, {c}) EXCEPT ![c] = Forward(r, {c})[c] \cup {c}]
      /\ UNCHANGED <<rooms, members, guests, timer, finalizing, saving, payload,
                     snap, draft, stopping, flush, flushing,
                     pc, sock, connections, ipCount, userConns>>
  BY DEF Edit, ApplyUpdate, store, shutdown
<1> HIDE DEF r
<1>2. {c} \in Texts /\ doc[r] \cup {c} \in Texts
  BY <1>r, TextsUnion DEF TypeOK, RoomTypeOK
<1>f. Forward(r, {c}) \in [Clients -> Texts]
  BY <1>2, TextsUnion DEF Forward, TypeOK
<1>3. TypeOK'
  <2>1. doc' \in [Rooms -> Texts] /\ changed' \in SUBSET Rooms
    BY <1>r, <1>1, <1>2 DEF TypeOK, RoomTypeOK
  <2>2. unsafe' \in [Rooms -> SUBSET Clients]
    BY <1>r, <1>1 DEF TypeOK, RoomTypeOK
  <2>3. sent' \in [Clients -> Texts]
    BY <1>1, <1>2, <1>f, TextsUnion
  <2> QED
    BY <1>1, <2>1, <2>2, <2>3 DEF TypeOK, RoomTypeOK
<1>4. \A s \in Rooms : doc'[s] = IF s = r THEN doc[r] \cup {c} ELSE doc[s]
  BY <1>r, <1>1 DEF TypeOK, RoomTypeOK
<1>5. r \in rooms /\ c \in members[r]
  BY <1>1 DEF EditorsInLiveRoom, r
<1>6. Placed' /\ CountsMatch' /\ EditorsInLiveRoom'
  <2>1. Placed'
    BY <1>1, <1>4, <1>5 DEF Placed
  <2>2. CountsMatch'
    BY <1>1 DEF CountsMatch
  <2>3. EditorsInLiveRoom'
    BY <1>1 DEF EditorsInLiveRoom
  <2> QED
    BY <2>1, <2>2, <2>3
<1>7. EveryoneHears'
  <2> SUFFICES ASSUME NEW d \in connections, pc[d] = "established", sock[d] = "open"
               PROVE  sent'[d] = doc'[RoomOf[d]]
    BY <1>1 DEF EveryoneHears
  <2>1. d \in Clients /\ RoomOf[d] \in Rooms /\ d \in members[RoomOf[d]]
        /\ sent[d] = doc[RoomOf[d]]
    BY ServerAssumption DEF TypeOK, EditorsInLiveRoom, EveryoneHears
  <2>2. CASE RoomOf[d] = r
    <3>1. Forward(r, {c})[d] = doc[r] \cup {c}
      BY <2>1, <2>2 DEF Forward
    <3>2. sent'[d] = doc[r] \cup {c}
      BY <1>1, <1>f, <2>1, <3>1
    <3> QED
      BY <1>4, <1>r, <2>2, <3>2
  <2>3. CASE RoomOf[d] # r
    <3>1. d # c /\ d \notin members[r]
      BY <1>r, <2>3 DEF Placed, r
    <3>2. sent'[d] = sent[d]
      BY <1>1, <1>f, <2>1, <3>1 DEF Forward
    <3> QED
      BY <1>4, <2>1, <2>3, <3>2
  <2> QED
    BY <2>2, <2>3
<1>8. EditsMade'
  <2>1. \A s \in Rooms : \A d \in Clients : HasRow(s, d)' <=> HasRow(s, d)
    BY <1>1 DEF HasRow
  <2> QED
    BY <1>1, <1>4, <2>1 DEF EditsMade, TypeOK, RoomTypeOK
<1>9. \A s \in Rooms : s # r => (unsafe'[s] = unsafe[s] /\ (Saved(s) => Saved(s)'))
  BY <1>1, <1>4 DEF Saved, HasRow
<1>10. CASE saving[r] # "idle" \/ (stopping /\ r \notin flush)
  <2>1. unsafe'[r] = unsafe[r] \cup {c} /\ doc'[r] = doc[r] \cup {c}
    BY <1>r, <1>1, <1>4, <1>10 DEF TypeOK, RoomTypeOK
  <2>2. Saved(r) => Saved(r)'
    BY <1>1, <2>1 DEF Saved, HasRow
  <2>3. EditsKept'
    <3> SUFFICES ASSUME NEW s \in Rooms
                 PROVE  /\ saving'[s] = "persist" => doc'[s] \cap guests'[s] \subseteq payload'[s] \cup unsafe'[s]
                        /\ saving'[s] = "draft" => Saved(s)'
                        /\ flushing' = s => saving'[s] # "idle"
                        /\ stopping' /\ s \notin flush' /\ flushing' # s => Saved(s)'
      BY DEF EditsKept
    <3>1. CASE s = r
      BY <1>1, <2>1, <2>2, <3>1 DEF EditsKept
    <3>2. CASE s # r
      BY <1>1, <1>4, <1>9, <3>2 DEF EditsKept
    <3> QED
      BY <3>1, <3>2
  <2> QED
    BY <1>3, <1>6, <1>7, <1>8, <2>3
<1>11. CASE ~(saving[r] # "idle" \/ (stopping /\ r \notin flush))
  <2>1. EditsKept'
    <3> SUFFICES ASSUME NEW s \in Rooms
                 PROVE  /\ saving'[s] = "persist" => doc'[s] \cap guests'[s] \subseteq payload'[s] \cup unsafe'[s]
                        /\ saving'[s] = "draft" => Saved(s)'
                        /\ flushing' = s => saving'[s] # "idle"
                        /\ stopping' /\ s \notin flush' /\ flushing' # s => Saved(s)'
      BY DEF EditsKept
    <3>1. CASE s = r
      BY <1>1, <1>11, <3>1 DEF EditsKept
    <3>2. CASE s # r
      BY <1>1, <1>4, <1>9, <3>2 DEF EditsKept
    <3> QED
      BY <3>1, <3>2
  <2> QED
    BY <1>3, <1>6, <1>7, <1>8, <2>1
<1> QED
  BY <1>10, <1>11

-----------------------------------------------------------------------------
(* The theorems.                                                           *)

\* The server starts with nothing in memory, counted or written.
LEMMA RealtimeStarts == Init => RealtimeInv
<1> SUFFICES ASSUME Init PROVE RealtimeInv
  OBVIOUS
<1>1. /\ rooms = {} /\ connections = {} /\ ipCount = 0 /\ stopping = FALSE /\ flushing = None
      /\ \A r \in Rooms : /\ doc[r] = {} /\ guests[r] = {} /\ members[r] = {}
                          /\ saving[r] = "idle" /\ snap[r] = None /\ payload[r] = {}
      /\ \A u \in Users : userConns[u] = {}
  BY DEF Init, RoomInit
<1>2. Placed /\ CountsMatch /\ EditorsInLiveRoom /\ EveryoneHears
  BY <1>1, FS_EmptySet DEF Placed, CountsMatch, EditorsInLiveRoom, EveryoneHears
<1>3. EditsMade /\ EditsKept
  BY <1>1, RoomAssumption DEF EditsMade, HasRow, EditsKept
<1> QED
  BY <1>2, <1>3, InitTyped DEF RealtimeInv

\* So does nothing that happens.
LEMMA RealtimeStutters == RealtimeInv /\ UNCHANGED vars => RealtimeInv'
<1> SUFFICES ASSUME RealtimeInv, UNCHANGED vars PROVE RealtimeInv'
  OBVIOUS
<1>1. UNCHANGED <<rooms, members, guests, doc, changed, timer, finalizing, saving, payload,
                  snap, draft, stopping, flush, flushing, unsafe>>
      /\ UNCHANGED <<pc, sock, connections, ipCount, userConns, sent>>
  BY DEF vars, roomVars, connVars
<1>2. TypeOK'
  BY <1>1 DEF RealtimeInv, TypeOK, RoomTypeOK
<1>3. EditsMade' /\ EditsKept'
  BY <1>1, EditsUntouched DEF RealtimeInv, shutdown
<1>4. Placed' /\ CountsMatch' /\ EditorsInLiveRoom' /\ EveryoneHears'
  BY <1>1, ConnectionsUntouched DEF RealtimeInv, connVars
<1> QED
  BY <1>2, <1>3, <1>4 DEF RealtimeInv

\* Every step keeps the invariant.
LEMMA RealtimeStep == RealtimeInv /\ [Next]_vars => RealtimeInv'
<1> SUFFICES ASSUME RealtimeInv, [Next]_vars PROVE RealtimeInv'
  OBVIOUS
<1>1. ASSUME NEW r \in Rooms, RoomStep(r), UNCHANGED connVars PROVE RealtimeInv'
  BY <1>1, RoomStepKeeps
<1>2. CASE BeginShutdown /\ UNCHANGED connVars
  BY <1>2, BeginShutdownKeeps
<1>3. ASSUME NEW c \in Clients,
             Connect(c) \/ Handshake(c) \/ Edit(c) \/ RateLimited(c) \/ SocketCloses(c)
      PROVE  RealtimeInv'
  <2>1. CASE Connect(c) \/ Authenticated(c) \/ Refused(c)
    BY <2>1, ArrivalKeeps
  <2>2. CASE Capped(c)
    BY <2>2, CappedKeeps
  <2>3. CASE Join(c)
    BY <2>3, JoinKeeps
  <2>4. CASE SetupDetached(c)
    BY <2>4, SetupDetachedKeeps
  <2>5. CASE LoadSnapshot(c) \/ LoadRecord(c)
    BY <2>5, LoadKeeps
  <2>6. CASE Edit(c)
    BY <2>6, EditKeeps
  <2>7. CASE RateLimited(c)
    BY <2>7, RateLimitedKeeps
  <2>8. CASE SocketCloses(c)
    BY <2>8, LeavingKeeps
  <2> QED
    BY <1>3, <2>1, <2>2, <2>3, <2>4, <2>5, <2>6, <2>7, <2>8 DEF Handshake
<1>4. CASE \E u \in Users : RevokeUserConnections(u)
  BY <1>4, LeavingKeeps
<1>5. CASE ShutdownEnds \/ Crash
  BY <1>5, ProcessEndsKeeps DEF ShutdownEnds, Crash
<1>6. CASE UNCHANGED vars
  BY <1>6, RealtimeStutters
<1> QED
  BY <1>1, <1>2, <1>3, <1>4, <1>5, <1>6 DEF Next

\* RealtimeInv holds of every behaviour of the server, however many
\* connections, users and rooms there are and whatever the limits.
THEOREM RealtimeInvariant == Spec => []RealtimeInv
<1>1. Init => RealtimeInv
  BY RealtimeStarts
<1>2. RealtimeInv /\ [Next]_vars => RealtimeInv'
  BY RealtimeStep
<1> QED
  BY <1>1, <1>2, PTL DEF Spec

\* No order of close, revocation, rate limit, handshake and crash makes the
\* per-address and per-user counts differ from the registered connections.
THEOREM CountsAreOfTheRegistered == Spec => []CountsMatch
<1>1. RealtimeInv => CountsMatch
  BY DEF RealtimeInv
<1> QED
  BY <1>1, RealtimeInvariant, PTL

\* A connection that can edit is a client of the room in memory, whichever
\* finalize, rejoin or shutdown raced it.
THEOREM EditorsAreInTheLiveRoom == Spec => []EditorsInLiveRoom
<1>1. RealtimeInv => EditorsInLiveRoom
  BY DEF RealtimeInv
<1> QED
  BY <1>1, RealtimeInvariant, PTL

\* Whoever is established and open was sent all of its room's document.
THEOREM AllOperationsAreHeard == Spec => []EveryoneHears
<1>1. RealtimeInv => EveryoneHears
  BY DEF RealtimeInv
<1> QED
  BY <1>1, RealtimeInvariant, PTL

-----------------------------------------------------------------------------
(* What a step may do to rooms and documents.                              *)

\* Rooms leave only with the answer of a draft's write or with the process.
LEMMA RoomsLeave ==
  ASSUME RealtimeInv, Next
  PROVE  \/ rooms \subseteq rooms'
         \/ \E r \in Rooms : WriteDraft(r)
         \/ ShutdownEnds
         \/ Crash
<1>1. ASSUME NEW r \in Rooms, RoomStep(r) PROVE rooms' = rooms \/ WriteDraft(r)
  BY <1>1 DEF RoomStep, PersistBinary, GraceElapses, PeriodicSnapshot, TriggerRecordSnapshot,
              CleanupExpired, ShutdownSnapshot, Untouched
<1>2. BeginShutdown => rooms' = rooms
  BY DEF BeginShutdown
<1>3. ASSUME NEW c \in Clients,
             Connect(c) \/ Handshake(c) \/ Edit(c) \/ RateLimited(c) \/ SocketCloses(c)
      PROVE  rooms \subseteq rooms'
  BY <1>3 DEF Connect, Handshake, Authenticated, Refused, Capped, Join, JoinRoom, SetupDetached,
              LoadSnapshot, LoadRecord, Edit, RateLimited, SocketCloses, roomVars
<1>4. ASSUME NEW u \in Users, RevokeUserConnections(u) PROVE rooms' = rooms
  BY <1>4 DEF RevokeUserConnections
<1> QED
  BY <1>1, <1>2, <1>3, <1>4 DEF Next

\* Each step that takes a room out of memory, but for a crash that no shutdown
\* prepared, leaves its guests' edits in the newest row.
LEMMA EvictionStep ==
  ASSUME RealtimeInv, Next, ShutdownEnds \/ ~Crash
  PROVE  \A r \in rooms \ rooms' : \A c \in (doc[r] \cap guests[r]) \ unsafe[r] : HasRow(r, c)'
<1> USE DEF RealtimeInv
<1>1. CASE rooms \subseteq rooms'
  BY <1>1
<1>2. CASE \E r \in Rooms : WriteDraft(r)
  <2>1. PICK r \in Rooms : WriteDraft(r)
    BY <1>2
  <2>2. PICK E \in SUBSET {r} : RemoveRooms(E)
    BY <2>1, FinalizeEvicts
  <2>3. rooms \ rooms' \subseteq {r}
    BY <2>2 DEF RemoveRooms
  <2>4. saving[r] = "draft" /\ snap' = snap
    BY <2>1 DEF WriteDraft
  <2>5. Saved(r)
    BY <2>4 DEF EditsKept
  <2> QED
    BY <2>3, <2>4, <2>5 DEF Saved, HasRow
<1>3. CASE ShutdownEnds
  <2>1. stopping /\ flush = {} /\ flushing = None /\ snap' = snap
    BY <1>3 DEF ShutdownEnds, ProcessEnds, Forget, store
  <2>2. \A r \in Rooms : Saved(r)
    BY <2>1, RoomAssumption DEF EditsKept
  <2>3. rooms \subseteq Rooms
    BY DEF TypeOK, RoomTypeOK
  <2> QED
    BY <2>1, <2>2, <2>3 DEF Saved, HasRow
<1> QED
  BY <1>1, <1>2, <1>3, RoomsLeave

\* An eviction or a shutdown loses an edit only if it arrived while the last
\* snapshot was being written, or that write failed.
THEOREM EvictionsAreSafe == Spec => EvictionLosesOnlyUnsafe
<1>1. RealtimeInv /\ [Next]_vars =>
        [ShutdownEnds \/ ~Crash => \A r \in rooms \ rooms' :
           \A c \in (doc[r] \cap guests[r]) \ unsafe[r] :
             snap'[r] # None /\ c \in snap'[r]]_vars
  BY EvictionStep DEF HasRow
<1> QED
  BY <1>1, RealtimeInvariant, PTL DEF Spec, EvictionLosesOnlyUnsafe

\* Every step by which a document grows, and with what.
LEMMA DocumentGrows ==
  ASSUME TypeOK, Next, NEW r \in Rooms
  PROVE  \/ doc'[r] \subseteq doc[r]
         \/ \E c \in Clients : doc'[r] = doc[r] \cup {c}
         \/ snap[r] # None /\ doc'[r] = doc[r] \cup snap[r]
         \/ doc'[r] = SeedFromMarkdown(r)
<1> USE DEF TypeOK, RoomTypeOK
<1>e. ASSUME NEW E, RemoveRooms(E) PROVE doc'[r] \subseteq doc[r]
  BY <1>e DEF RemoveRooms
<1>1. ASSUME NEW s \in Rooms, RoomStep(s) PROVE doc'[r] \subseteq doc[r]
  <2>1. CASE WriteDraft(s)
    <3>1. \E E \in SUBSET {s} : RemoveRooms(E)
      BY <2>1, FinalizeEvicts
    <3> QED
      BY <1>e, <3>1
  <2>2. CASE ~WriteDraft(s)
    BY <1>1, <2>2 DEF RoomStep, PersistBinary, GraceElapses, PeriodicSnapshot,
                      TriggerRecordSnapshot, CleanupExpired, ShutdownSnapshot, Untouched
  <2> QED
    BY <2>1, <2>2
<1>2. BeginShutdown => doc' = doc
  BY DEF BeginShutdown
<1>3. ASSUME NEW c \in Clients, Connect(c) \/ RateLimited(c) \/ SocketCloses(c) PROVE doc' = doc
  BY <1>3 DEF Connect, RateLimited, SocketCloses, roomVars
<1>4. ASSUME NEW c \in Clients, Edit(c) PROVE \E d \in Clients : doc'[r] \in {doc[r], doc[r] \cup {d}}
  BY <1>4 DEF Edit, ApplyUpdate
<1>5. ASSUME NEW c \in Clients, NEW text, SetupEnds(c, text)
      PROVE  doc'[r] = IF r = RoomOf[c] THEN text ELSE doc[r]
  BY <1>5 DEF SetupEnds
<1>6. ASSUME NEW c \in Clients, LoadSnapshot(c)
      PROVE  doc'[r] = doc[r] \/ (snap[r] # None /\ doc'[r] = doc[r] \cup snap[r])
  BY <1>5, <1>6 DEF LoadSnapshot
<1>7. ASSUME NEW c \in Clients, LoadRecord(c)
      PROVE  doc'[r] = doc[r] \/ doc'[r] = SeedFromMarkdown(r)
  BY <1>5, <1>7 DEF LoadRecord
<1>8. ASSUME NEW c \in Clients, Authenticated(c) \/ Refused(c) \/ Capped(c) \/ Join(c) \/ SetupDetached(c)
      PROVE  doc' = doc
  BY <1>8 DEF Authenticated, Refused, Capped, Join, SetupDetached, roomVars
<1>9. ASSUME NEW u \in Users, RevokeUserConnections(u) PROVE doc' = doc
  BY <1>9 DEF RevokeUserConnections
<1>10. ShutdownEnds \/ Crash => doc'[r] \subseteq doc[r]
  BY <1>e DEF ShutdownEnds, Crash, ProcessEnds, Forget
<1> QED
  BY <1>1, <1>2, <1>3, <1>4, <1>6, <1>7, <1>8, <1>9, <1>10 DEF Next, Handshake

\* A document never holds the record's text twice.
THEOREM DocumentsAreSeededOnce == Spec => SeededOnce
<1>1. RealtimeInv /\ [Next]_vars =>
        [\A r \in rooms : Base \in doc'[r] /\ Base \notin doc[r] => doc[r] = {}
                            \/ (snap[r] # None /\ Base \in snap[r])]_vars
  <2> SUFFICES ASSUME RealtimeInv, Next, NEW r \in rooms, Base \in doc'[r], Base \notin doc[r],
                      doc[r] # {}
               PROVE  snap[r] # None /\ Base \in snap[r]
    OBVIOUS
  <2>1. TypeOK /\ r \in Rooms
    BY DEF RealtimeInv, TypeOK, RoomTypeOK
  <2> QED
    BY <2>1, RoomAssumption, DocumentGrows DEF SeedFromMarkdown
<1> QED
  BY <1>1, RealtimeInvariant, PTL DEF Spec, SeededOnce

=============================================================================
