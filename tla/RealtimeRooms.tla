--------------------------- MODULE RealtimeRooms ---------------------------
(***************************************************************************)
(* modules/realtime/src/rooms and persistence: the collaborative rooms of  *)
(* the realtime server, their grace timers and the snapshots that write a  *)
(* room back.  A text is the set of operations it contains: Base, what the *)
(* published record says, and the edit of each client.  Merging two Yjs    *)
(* states is the union of their operations.                                *)
(*                                                                         *)
(* Every action is one turn of the event loop: what the code does between  *)
(* two awaits of I/O.  destroy() awaits nothing, so evicting a room is one *)
(* turn with the last write's answer.                                      *)
(***************************************************************************)
EXTENDS Naturals, FiniteSets

CONSTANTS
  Rooms,     \* room ids, "records:<id>"
  Clients,   \* connection attempts; each makes at most one edit
  Base,      \* the operation that seeds a document from the record
  None       \* no snapshot row, no draft row

Texts == SUBSET (Clients \cup {Base})

ASSUME RoomAssumption ==
  /\ Base \notin Clients /\ IsFiniteSet(Clients)
  /\ None \notin Rooms /\ \A t \in Texts : None # t

VARIABLES
  rooms,       \* RoomManager.rooms: the rooms in memory
  members,     \* the clients of each room
  guests,      \* connections that ever joined the room in memory
  doc,         \* the room's Y.Doc
  changed,     \* rooms whose updateCount is above zero
  timer,       \* RoomManager.graceTimers
  finalizing,  \* rooms whose finalizeRoom awaits the snapshot
  saving,      \* the stage of the in-flight snapshot of a room
  payload,     \* the encoded document, then the serialized Markdown
  snap,        \* realtime_snapshots: the newest row of the room
  draft,       \* record_drafts.markdown_body
  stopping,    \* shutdown is running
  flush,       \* rooms the shutdown has yet to snapshot
  flushing,    \* the room whose snapshot the shutdown awaits
  unsafe       \* history: edits the room's last snapshot may lack

roomVars == <<rooms, members, guests, doc, changed, timer, finalizing, saving,
              payload, snap, draft, stopping, flush, flushing,
              unsafe>>

RoomTypeOK ==
  /\ rooms \in SUBSET Rooms
  /\ members \in [Rooms -> SUBSET Clients]
  /\ guests \in [Rooms -> SUBSET Clients]
  /\ doc \in [Rooms -> Texts]
  /\ changed \in SUBSET Rooms
  /\ timer \in SUBSET Rooms
  /\ finalizing \in SUBSET Rooms
  /\ saving \in [Rooms -> {"idle", "persist", "draft"}]
  /\ payload \in [Rooms -> Texts]
  /\ snap \in [Rooms -> Texts \cup {None}]
  /\ draft \in [Rooms -> Texts \cup {None}]
  /\ stopping \in BOOLEAN
  /\ flush \in SUBSET Rooms
  /\ flushing \in Rooms \cup {None}
  /\ unsafe \in [Rooms -> SUBSET Clients]

RoomInit ==
  /\ rooms = {}
  /\ members = [r \in Rooms |-> {}]
  /\ guests = [r \in Rooms |-> {}]
  /\ doc = [r \in Rooms |-> {}]
  /\ changed = {}
  /\ timer = {}
  /\ finalizing = {}
  /\ saving = [r \in Rooms |-> "idle"]
  /\ payload = [r \in Rooms |-> {}]
  /\ snap = [r \in Rooms |-> None]
  /\ draft = [r \in Rooms |-> None]
  /\ stopping = FALSE
  /\ flush = {}
  /\ flushing = None
  /\ unsafe = [r \in Rooms |-> {}]

store == <<snap, draft>>
shutdown == <<stopping, flush, flushing>>

-----------------------------------------------------------------------------
(* Joining and leaving.                                                    *)

\* getOrCreateRoom, then addClient: a room in its grace window is reused and
\* its timer cancelled.
JoinRoom(r, c) ==
  /\ rooms' = rooms \cup {r}
  /\ timer' = timer \ {r}
  /\ members' = [members EXCEPT ![r] = @ \cup {c}]
  /\ guests' = [guests EXCEPT ![r] = @ \cup {c}]

\* room.removeClient, then handleRoomClientLeave: the last client to leave
\* arms the timer.
Leave(L) ==
  LET left == [r \in Rooms |-> members[r] \ L]
  IN  /\ members' = left
      /\ timer' = timer \cup {r \in rooms : members[r] # {} /\ left[r] = {}}

\* YjsRoom.applyUpdate: the document merges, updateCount grows.
ApplyUpdate(r, ops) ==
  /\ doc' = [doc EXCEPT ![r] = @ \cup ops]
  /\ changed' = changed \cup {r}
  /\ unsafe' = IF saving[r] # "idle" \/ (stopping /\ r \notin flush)
                 THEN [unsafe EXCEPT ![r] = @ \cup ops] ELSE unsafe

-----------------------------------------------------------------------------
(* Snapshots.  RecordRoomHandler.snapshot: overlapping triggers share the  *)
(* write in flight.                                                        *)

\* Encode the document now; persist it later.
StartSnapshot(r) ==
  IF saving[r] # "idle"
    THEN UNCHANGED <<saving, payload>>
    ELSE /\ saving' = [saving EXCEPT ![r] = "persist"]
         /\ payload' = [payload EXCEPT ![r] = doc[r]]

\* persistBinary: the row is inserted and updateCount reset, or the insert
\* failed and is only logged; then the document as it is by now is serialized.
PersistBinary(r) ==
  /\ saving[r] = "persist"
  /\ \/ /\ snap' = [snap EXCEPT ![r] = payload[r]]
        /\ changed' = changed \ {r}
        /\ unsafe' = [unsafe EXCEPT ![r] = @ \ payload[r]]
     \/ /\ unsafe' = [unsafe EXCEPT ![r] = @ \cup (doc[r] \cap Clients)]
        /\ UNCHANGED <<snap, changed>>
  /\ saving' = [saving EXCEPT ![r] = "draft"]
  /\ payload' = [payload EXCEPT ![r] = doc[r]]
  /\ UNCHANGED <<rooms, members, guests, doc, timer, finalizing, draft, shutdown>>

\* removeRoom for the rooms in E.
RemoveRooms(E) ==
  /\ rooms' = rooms \ E
  /\ timer' = timer \ E
  /\ members' = [r \in Rooms |-> IF r \in E THEN {} ELSE members[r]]
  /\ guests' = [r \in Rooms |-> IF r \in E THEN {} ELSE guests[r]]
  /\ doc' = [r \in Rooms |-> IF r \in E THEN {} ELSE doc[r]]
  /\ changed' = changed \ E
  /\ unsafe' = [r \in Rooms |-> IF r \in E THEN {} ELSE unsafe[r]]

\* Mutant: finalizeRoom evicts without looking at the occupancy again.
FinalizeBlindly(r) ==
  IF r \in finalizing THEN RemoveRooms({r}) ELSE RemoveRooms({})

\* finalizeRoom after its await: the room goes if it is still empty.
FinalizeEnds(r) ==
  IF r \in finalizing /\ members[r] = {}
    THEN RemoveRooms({r}) ELSE RemoveRooms({})

\* writeDraft answers (the row is created or updated, or the failure is
\* logged), the snapshot's promise settles and whoever awaited it goes on.
\* A row for which serialization failed is not written either.
WriteDraft(r) ==
  /\ saving[r] = "draft"
  /\ \/ draft' = [draft EXCEPT ![r] = payload[r]]
     \/ UNCHANGED draft
  /\ saving' = [saving EXCEPT ![r] = "idle"]
  /\ payload' = [payload EXCEPT ![r] = {}]
  /\ finalizing' = finalizing \ {r}
  /\ FinalizeEnds(r)
  /\ flush' = flush \cap rooms'
  /\ flushing' = IF flushing = r THEN None ELSE flushing
  /\ UNCHANGED <<snap, stopping>>

-----------------------------------------------------------------------------
(* What triggers a snapshot.                                               *)

Untouched ==
  UNCHANGED <<rooms, members, guests, doc, changed, timer, store, unsafe>>

\* Mutant: the timer evicts the room without a snapshot.
GraceElapsesUnsaved(r) ==
  /\ r \in timer
  /\ members[r] = {}
  /\ RemoveRooms({r})
  /\ UNCHANGED <<finalizing, saving, payload, store, shutdown>>

\* Mutant: the timer fires and nobody finalizes.
GraceElapsesIdle(r) ==
  /\ r \in timer
  /\ timer' = timer \ {r}
  /\ UNCHANGED <<rooms, members, guests, doc, changed, store, shutdown,
                 finalizing, saving, payload, unsafe>>

\* The grace timer fires: finalizeRoom up to its await.
GraceElapses(r) ==
  /\ r \in timer
  /\ timer' = timer \ {r}
  /\ IF members[r] = {}
       THEN /\ finalizing' = finalizing \cup {r}
            /\ StartSnapshot(r)
       ELSE UNCHANGED <<finalizing, saving, payload>>
  /\ UNCHANGED <<rooms, members, guests, doc, changed, store, shutdown, unsafe>>

\* runPeriodicSnapshots reaches a room with new updates.
PeriodicSnapshot(r) ==
  /\ ~stopping
  /\ r \in rooms
  /\ r \in changed
  /\ saving[r] = "idle"
  /\ StartSnapshot(r)
  /\ Untouched
  /\ UNCHANGED <<finalizing, shutdown>>

\* triggerRecordSnapshot: POST /records/:id/snapshot, changed or not.
TriggerRecordSnapshot(r) ==
  /\ r \in rooms
  /\ saving[r] = "idle"
  /\ StartSnapshot(r)
  /\ Untouched
  /\ UNCHANGED <<finalizing, shutdown>>

\* cleanupExpired: rows older than the TTL, of rooms that are not in memory.
CleanupExpired(r) ==
  /\ r \notin rooms
  /\ snap[r] # None
  /\ snap' = [snap EXCEPT ![r] = None]
  /\ UNCHANGED <<rooms, members, guests, doc, changed, timer, finalizing, saving,
                 payload, draft, shutdown, unsafe>>

\* shutdown: the timers are dropped, every room in memory is to be saved.
BeginShutdown ==
  /\ ~stopping
  /\ stopping' = TRUE
  /\ timer' = {}
  /\ flush' = rooms
  /\ UNCHANGED <<rooms, members, guests, doc, changed, finalizing, saving, payload,
                 store, flushing, unsafe>>

\* The final pass, one room after the other; it joins a write in flight.
ShutdownSnapshot(r) ==
  /\ r \in flush
  /\ flushing = None
  /\ flush' = flush \ {r}
  /\ flushing' = r
  /\ StartSnapshot(r)
  /\ Untouched
  /\ UNCHANGED <<finalizing, stopping>>

\* The process is gone, and with it everything but the two tables.
Forget ==
  /\ RemoveRooms(rooms)
  /\ finalizing' = {}
  /\ saving' = [r \in Rooms |-> "idle"]
  /\ payload' = [r \in Rooms |-> {}]
  /\ stopping' = FALSE
  /\ flush' = {}
  /\ flushing' = None
  /\ UNCHANGED store

RoomStep(r) ==
  \/ PersistBinary(r)
  \/ WriteDraft(r)
  \/ GraceElapses(r)
  \/ PeriodicSnapshot(r)
  \/ TriggerRecordSnapshot(r)
  \/ CleanupExpired(r)
  \/ ShutdownSnapshot(r)
=============================================================================
