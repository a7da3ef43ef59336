----------------------------- MODULE UploadJobs -----------------------------
(***************************************************************************)
(* modules/broadcast-box/src/services/upload-processor.ts: one device      *)
(* uploads a recording in chunks and finalizes it.  Chunk calls and        *)
(* finalize calls of an upload are separate requests that overlap; the row *)
(* and the upload directory are all they share.                            *)
(***************************************************************************)
EXTENDS Naturals, FiniteSets

CONSTANTS
  Chunks,    \* chunk calls; together the declared bytes
  Oversized, \* chunk calls that would exceed the declared size
  Files      \* finalize calls, each named for the file it would store

ASSUME UploadAssumption == Chunks \cap Oversized = {}

VARIABLES
  upload,    \* broadcast_uploads.status
  disk,      \* the chunks in the upload directory
  dir,       \* the upload directory exists
  chunk,     \* where processChunk of a call is
  final,     \* where finalizeUpload of a call is
  whole      \* the stored files that hold every chunk

uploadVars == <<upload, disk, dir, chunk, final, whole>>

\* The files in the storage folder recordings_raw; the hook comes after.
Stored == {f \in Files : final[f] = "hook"}

UploadTypeOK ==
  /\ upload \in {"pending", "uploading", "processing", "complete", "failed"}
  /\ disk \subseteq Chunks /\ dir \in BOOLEAN
  /\ chunk \in [Chunks \cup Oversized ->
                  {"idle", "first", "next", "write", "overrun", "done"}]
  /\ final \in [Files -> {"idle", "claim", "combine", "store", "torn", "hook",
                          "failed"}]
  /\ whole \subseteq Stored

\* createUpload has answered.
UploadInit ==
  /\ upload = "pending"
  /\ disk = {}
  /\ dir = TRUE
  /\ chunk = [k \in Chunks \cup Oversized |-> "idle"]
  /\ final = [f \in Files |-> "idle"]
  /\ whole = {}

-----------------------------------------------------------------------------
(* processChunk.                                                           *)

\* The row and the directory are read.  A complete or failed upload, or one
\* whose directory is gone, takes no chunk.
ChunkReads(k) ==
  /\ chunk[k] = "idle"
  /\ chunk' = [chunk EXCEPT ![k] =
       IF upload \in {"complete", "failed"} \/ ~dir THEN "done"
       ELSE IF k \in Oversized THEN "overrun"
       ELSE IF upload = "pending" THEN "first" ELSE "next"]
  /\ UNCHANGED <<upload, disk, dir, final, whole>>

\* "Upload exceeded declared fileSize": failed, and the directory removed.
ChunkOverruns(k) ==
  /\ chunk[k] = "overrun"
  /\ upload' = "failed"
  /\ dir' = FALSE
  /\ disk' = {}
  /\ chunk' = [chunk EXCEPT ![k] = "done"]
  /\ UNCHANGED <<final, whole>>

\* "Update status to uploading if first chunk": as the row was when it was read.
ChunkMarks(k) ==
  /\ chunk[k] = "first"
  /\ upload' = "uploading"
  /\ chunk' = [chunk EXCEPT ![k] = "write"]
  /\ UNCHANGED <<disk, dir, final, whole>>

\* The chunk is written, unless the directory has been removed.
ChunkWrites(k) ==
  /\ chunk[k] \in {"next", "write"}
  /\ disk' = IF dir THEN disk \cup {k} ELSE disk
  /\ chunk' = [chunk EXCEPT ![k] = "done"]
  /\ UNCHANGED <<upload, dir, final, whole>>

-----------------------------------------------------------------------------
(* finalizeUpload.                                                         *)

FinalAt(f, here, there) == final[f] = here /\ final' = [final EXCEPT ![f] = there]

\* Only an upload that is uploading is finalized; any other call throws.
FinalizeReads(f) ==
  /\ upload = "uploading"
  /\ FinalAt(f, "idle", "claim")
  /\ UNCHANGED <<upload, disk, dir, chunk, whole>>

\* The claim writes the row whatever it says by now.
FinalizeClaims(f) ==
  /\ FinalAt(f, "claim", "combine")
  /\ upload' = "processing"
  /\ UNCHANGED <<disk, dir, chunk, whole>>

\* Every finalize of the upload writes the same combined file: opening it
\* truncates what another call is streaming.
Combine(f, there) ==
  final' = [g \in Files |-> IF g = f THEN there
                            ELSE IF final[g] = "store" THEN "torn" ELSE final[g]]

\* Mutant: the hash and the size of what arrived are not compared.
FinalizeCombinesUnchecked(f) ==
  /\ final[f] = "combine"
  /\ Combine(f, IF disk = Chunks THEN "store" ELSE "torn")
  /\ UNCHANGED <<upload, disk, dir, chunk, whole>>

\* The chunks in the directory are combined, hashed and measured: only the
\* declared recording goes on.
FinalizeCombines(f) ==
  /\ final[f] = "combine"
  /\ disk = Chunks
  /\ Combine(f, "store")
  /\ UNCHANGED <<upload, disk, dir, chunk, whole>>

\* The combined file has been streamed into recordings_raw: the row is
\* complete, the directory removed.
FinalizeStores(f) ==
  /\ final[f] \in {"store", "torn"}
  /\ \/ whole' = whole \cup {f}
     \/ final[f] = "torn" /\ UNCHANGED whole
  /\ final' = [final EXCEPT ![f] = "hook"]
  /\ upload' = "complete"
  /\ dir' = FALSE
  /\ disk' = {}
  /\ UNCHANGED chunk

\* The catch, for anything that went wrong since the claim: failed, whatever
\* another finalize has reported.
FinalizeFails(f) ==
  /\ \/ final[f] = "combine" /\ Combine(f, "failed")
     \/ final[f] \in {"store", "torn"} /\ final' = [final EXCEPT ![f] = "failed"]
  /\ upload' = "failed"
  /\ UNCHANGED <<disk, dir, chunk, whole>>

UploadStep ==
  \/ \E k \in Chunks \cup Oversized :
       ChunkReads(k) \/ ChunkOverruns(k) \/ ChunkMarks(k) \/ ChunkWrites(k)
  \/ \E f \in Files :
       \/ FinalizeReads(f)
       \/ FinalizeClaims(f)
       \/ FinalizeCombines(f)
       \/ FinalizeStores(f)
       \/ FinalizeFails(f)

\* The process dies: requests in progress are lost, rows and files stay.
UploadsLost ==
  /\ chunk' = [k \in Chunks \cup Oversized |->
                 IF chunk[k] = "idle" THEN "idle" ELSE "done"]
  /\ final' = [f \in Files |-> IF final[f] \in {"idle", "hook", "failed"}
                                 THEN final[f] ELSE "failed"]
  /\ UNCHANGED <<upload, disk, dir, whole>>
=============================================================================
