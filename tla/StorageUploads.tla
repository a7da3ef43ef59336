--------------------------- MODULE StorageUploads ---------------------------
(***************************************************************************)
(* modules/storage: uploads (buffered and streamed), deletes and downloads *)
(* of one storage service over its database, its active provider, its      *)
(* quota manager and the provider's circuit breaker.                       *)
(*                                                                         *)
(* An upload makes one file with a fresh UUID, so the call names the file. *)
(* A step runs from one await to the next.  Usage figures are sets of      *)
(* files; sizes are summed where the code compares.  Quotas and breaker    *)
(* are on (the defaults).  Deletes and downloads can be called for ever.   *)
(***************************************************************************)
EXTENDS CircuitBreaker, FiniteSets

CONSTANTS
  Buffered,        \* uploadFile calls
  Streams,         \* uploadFileStream calls
  Existing,        \* files stored earlier
  Deletes,         \* concurrent deleteFile callers
  Downloads,       \* concurrent getFileContent callers
  Folders,
  Global,          \* the scope of the global quota
  FolderOf,        \* request.folder of each file
  SizeOf,
  LimitOf,         \* limit of each folder and of Global, 0 = unlimited
  UploadTimeout,   \* withTimeout of an upload, in ticks
  ReservationTtl   \* reservationTtlMs, in ticks

Uploads == Buffered \cup Streams
Files == Uploads \cup Existing
Scopes == Folders \cup {Global}

\* 5 minutes and 15 minutes unless configured: the service configures the
\* first (upload_timeout) and never the second.
ASSUME StorageAssumption ==
  /\ Buffered \cap Streams = {}
  /\ Uploads \cap Existing = {}
  /\ Global \notin Folders
  /\ FolderOf \in [Files -> Folders]
  /\ SizeOf \in [Files -> Nat]
  /\ LimitOf \in [Scopes -> Nat]
  /\ Null \notin Files
  /\ UploadTimeout \in Nat \ {0}
  /\ ReservationTtl \in Nat
  /\ UploadTimeout < ReservationTtl

\* A database has finitely many rows, a process has run finitely many calls.
ASSUME FilesAssumption == IsFiniteSet(Files)

VARIABLES
  rows,          \* storage_files
  objects,       \* what the provider stores
  phase,         \* where an upload is
  used,          \* readUsage's figures, per upload and scope
  reservations,  \* QuotaManager.reservations, by upload
  age,           \* ticks since the upload's admission, up to ReservationTtl
  latePuts,      \* uploads given up on that the provider may still store
  lateRemoves,   \* files of deletes given up on that it may still remove
  deleting,      \* where a deleteFile caller is
  deletes,       \* and its file, or Null
  getting,       \* where a getFileContent caller is
  gets,          \* and its file, or Null
  unsized,       \* streams whose request carries no size
  blind,         \* history: per scope, files the last admission did not count
  removing,      \* history: files whose provider delete was started
  deleted        \* history: files a deleteFile call reported deleted

quotaVars == <<used, reservations, age, unsized, blind>>
deleteVars == <<deleting, deletes, removing, deleted>>
downloadVars == <<getting, gets>>
lateVars == <<latePuts, lateRemoves>>
vars == <<rows, objects, phase, quotaVars, lateVars, deleteVars, downloadVars, breakerVars>>

Phases == {"idle", "global", "folder", "admit", "enter", "send", "record", "index",
           "ok", "failed", "lost"}
CallPhases == {"idle", "enter", "provider", "row"}

\* The upload was admitted and has not returned.
InFlight(u) == phase[u] \in {"enter", "send", "record", "index"}

TypeOK ==
  /\ rows \in SUBSET Files
  /\ objects \in SUBSET Files
  /\ phase \in [Uploads -> Phases]
  /\ used \in [Uploads -> [Scopes -> SUBSET Files]]
  /\ reservations \in SUBSET Uploads
  /\ age \in [Uploads -> 0 .. ReservationTtl]
  /\ latePuts \in SUBSET Uploads
  /\ lateRemoves \in SUBSET Files
  /\ deleting \in [Deletes -> CallPhases]
  /\ deletes \in [Deletes -> Files \cup {Null}]
  /\ getting \in [Downloads -> CallPhases]
  /\ gets \in [Downloads -> Files \cup {Null}]
  /\ unsized \in SUBSET Streams
  /\ blind \in [Scopes -> SUBSET Files]
  /\ removing \in SUBSET Files
  /\ deleted \in SUBSET Files
  /\ BreakerTypeOK

Nothing == [sc \in Scopes |-> {}]

InScope(S, sc) == {f \in S : sc = Global \/ FolderOf[f] = sc}

Init ==
  /\ rows = Existing
  /\ objects = Existing
  /\ phase = [u \in Uploads |-> "idle"]
  /\ used = [u \in Uploads |-> Nothing]
  /\ reservations = {}
  /\ age = [u \in Uploads |-> 0]
  /\ latePuts = {}
  /\ lateRemoves = {}
  /\ deleting = [d \in Deletes |-> "idle"]
  /\ deletes = [d \in Deletes |-> Null]
  /\ getting = [g \in Downloads |-> "idle"]
  /\ gets = [g \in Downloads |-> Null]
  /\ unsized = {}
  /\ blind = [sc \in Scopes |-> InScope(Existing, sc)]
  /\ removing = {}
  /\ deleted = {}
  /\ BreakerInit

-----------------------------------------------------------------------------
(* Quota.                                                                  *)

\* The bytes of a set of files, each told by its file and its place in it.
Content(S) == UNION {{f} \X (1 .. SizeOf[f]) : f \in S}
Bytes(S) == Cardinality(Content(S))

Limited(sc) == LimitOf[sc] > 0

ScopesOf(u) == {Global, FolderOf[u]}

\* Mutant: reservations are reclaimed as soon as the upload's own timer could fire.
UnexpiredTooShort == {u \in reservations : age[u] < UploadTimeout}

\* pruneExpiredReservations: what it leaves.
Unexpired == {u \in reservations : age[u] < ReservationTtl}

\* Mutant: the check forgets the reservations.
FitsUnreserved(u) ==
  \A sc \in ScopesOf(u) :
    Limited(sc) => Bytes(used[u][sc]) + SizeOf[u] <= LimitOf[sc]

\* The two checks of admit; a file whose row is read and whose reservation is
\* still held counts twice.
Fits(u) ==
  \A sc \in ScopesOf(u) :
    Limited(sc) => Bytes(used[u][sc]) + Bytes(InScope(Unexpired, sc)) + SizeOf[u]
                     <= LimitOf[sc]

\* Stored or on its way, in a scope.
Committed(sc) == InScope(rows \cup {u \in Uploads : InFlight(u)}, sc)

\* The call ends; the finally block releases its reservation.
Return(u, how) ==
  /\ phase' = [phase EXCEPT ![u] = how]
  /\ used' = [used EXCEPT ![u] = Nothing]
  /\ age' = [age EXCEPT ![u] = 0]
  /\ reservations' = reservations \ {u}
  /\ UNCHANGED <<unsized, blind>>

-----------------------------------------------------------------------------
(* Uploads.                                                                *)

\* uploadFile up to the first await: validation, then reserve().
BeginUpload(u) ==
  /\ phase[u] = "idle"
  /\ u \in Buffered
  /\ \/ Return(u, "failed")
     \/ /\ phase' = [phase EXCEPT ![u] = "global"]
        /\ UNCHANGED quotaVars
  /\ UNCHANGED <<rows, objects, lateVars, deleteVars, downloadVars, breakerVars>>

\* uploadFileStream: the same, but a stream of unknown size meets no quota.
BeginStream(u) ==
  /\ phase[u] = "idle"
  /\ u \in Streams
  /\ \/ Return(u, "failed")
     \/ /\ phase' = [phase EXCEPT ![u] = "global"]
        /\ UNCHANGED quotaVars
     \/ /\ phase' = [phase EXCEPT ![u] = "send"]
        /\ unsized' = unsized \cup {u}
        /\ blind' = [sc \in Scopes |-> IF sc \in ScopesOf(u) THEN blind[sc] \cup {u}
                                                             ELSE blind[sc]]
        /\ UNCHANGED <<used, reservations, age>>
  /\ UNCHANGED <<rows, objects, lateVars, deleteVars, downloadVars, breakerVars>>

\* readUsage: the global figure, then the folder's.  Either query may throw.
ReadUsage(u) ==
  /\ \/ /\ phase[u] = "global"
        /\ phase' = [phase EXCEPT ![u] = "folder"]
        /\ used' = [used EXCEPT ![u][Global] = IF Limited(Global) THEN rows ELSE {}]
        /\ UNCHANGED <<reservations, age, unsized, blind>>
     \/ /\ phase[u] = "folder"
        /\ phase' = [phase EXCEPT ![u] = "admit"]
        /\ used' = [used EXCEPT ![u][FolderOf[u]] =
                      IF Limited(FolderOf[u]) THEN InScope(rows, FolderOf[u]) ELSE {}]
        /\ UNCHANGED <<reservations, age, unsized, blind>>
     \/ /\ phase[u] \in {"global", "folder"}
        /\ Return(u, "failed")
  /\ UNCHANGED <<rows, objects, lateVars, deleteVars, downloadVars, breakerVars>>

\* admit: prune, check and reserve in one turn.
Admit(u) ==
  /\ phase[u] = "admit"
  /\ used' = [used EXCEPT ![u] = Nothing]
  /\ \/ /\ Fits(u)
        /\ reservations' = Unexpired \cup {u}
        /\ phase' = [phase EXCEPT ![u] = IF u \in Buffered THEN "enter" ELSE "send"]
        /\ age' = [age EXCEPT ![u] = 0]
        /\ blind' = [sc \in Scopes |->
                       IF sc \in ScopesOf(u)
                         THEN Committed(sc) \ (used[u][sc] \cup Unexpired)
                         ELSE blind[sc]]
     \/ /\ ~Fits(u)
        /\ reservations' = Unexpired
        /\ phase' = [phase EXCEPT ![u] = "failed"]
        /\ UNCHANGED <<age, blind>>
  /\ UNCHANGED unsized
  /\ UNCHANGED <<rows, objects, lateVars, deleteVars, downloadVars, breakerVars>>

\* A buffered upload goes through the breaker; a stream does not.
EnterUpload(u) ==
  /\ phase[u] = "enter"
  /\ \/ /\ Enter
        /\ phase' = [phase EXCEPT ![u] = "send"]
        /\ UNCHANGED quotaVars
     \/ /\ Blocked
        /\ Return(u, "failed")
        /\ UNCHANGED breakerVars
  /\ UNCHANGED <<rows, objects, lateVars, deleteVars, downloadVars>>

\* The provider stores the object and answers.
Stored(u) ==
  /\ phase[u] = "send"
  /\ phase' = [phase EXCEPT ![u] = "record"]
  /\ objects' = objects \cup {u}
  /\ UNCHANGED <<rows, quotaVars, lateVars, deleteVars, downloadVars>>

\* The provider or the connection fails, the object stored or not.
NotStored(u) ==
  /\ phase[u] = "send"
  /\ Return(u, "failed")
  /\ objects' \in {objects, objects \cup {u}}
  /\ UNCHANGED <<rows, lateVars, deleteVars, downloadVars>>

\* The provider call of uploadFile, inside the breaker.
Put(u) ==
  /\ u \in Buffered
  /\ \/ Stored(u) /\ OnSuccess
     \/ NotStored(u) /\ OnFailure

\* That of uploadFileStream, with neither breaker nor timer.
PutStream(u) ==
  /\ u \in Streams
  /\ Stored(u) \/ NotStored(u)
  /\ UNCHANGED breakerVars

\* Mutant: the timer ends the wait and the upload goes on as if it had landed.
PutTimesOutIgnored(u) ==
  /\ phase[u] = "send"
  /\ u \in Buffered
  /\ age[u] = UploadTimeout
  /\ phase' = [phase EXCEPT ![u] = "record"]
  /\ latePuts' = latePuts \cup {u}
  /\ OnFailure
  /\ UNCHANGED <<rows, objects, quotaVars, lateRemoves, deleteVars, downloadVars>>

\* Mutant: only calls through a closed breaker run under the timer.
PutTimesOutUnarmed(u) ==
  /\ phase[u] = "send"
  /\ u \in Buffered
  /\ age[u] = UploadTimeout
  /\ state = "closed"
  /\ Return(u, "failed")
  /\ latePuts' = latePuts \cup {u}
  /\ OnFailure
  /\ UNCHANGED <<rows, objects, lateRemoves, deleteVars, downloadVars>>

\* withTimeout gives up on the provider's promise; nothing cancels the request.
PutTimesOut(u) ==
  /\ phase[u] = "send"
  /\ u \in Buffered
  /\ age[u] = UploadTimeout
  /\ Return(u, "failed")
  /\ latePuts' = latePuts \cup {u}
  /\ OnFailure
  /\ UNCHANGED <<rows, objects, lateRemoves, deleteVars, downloadVars>>

\* createStorageFile: the row is inserted, or the call fails and the object stays.
Record(u) ==
  /\ phase[u] = "record"
  /\ \/ /\ rows' = rows \cup {u}
        /\ phase' = [phase EXCEPT ![u] = "index"]
        /\ UNCHANGED quotaVars
     \/ /\ Return(u, "failed")
        /\ UNCHANGED rows
  /\ UNCHANGED <<objects, lateVars, deleteVars, downloadVars, breakerVars>>

\* Mutant: an error of the sidecar or the cache fails the upload.
FinishUploadStrict(u) ==
  /\ phase[u] = "index"
  /\ \E how \in {"ok", "failed"} : Return(u, how)
  /\ UNCHANGED <<rows, objects, lateVars, deleteVars, downloadVars, breakerVars>>

\* Sidecar manifest and cache invalidation, whose errors are swallowed.
FinishUpload(u) ==
  /\ phase[u] = "index"
  /\ Return(u, "ok")
  /\ UNCHANGED <<rows, objects, lateVars, deleteVars, downloadVars, breakerVars>>

-----------------------------------------------------------------------------
(* Deletes.                                                                *)

SetDelete(d, where) ==
  /\ deleting' = [deleting EXCEPT ![d] = where]
  /\ UNCHANGED deletes

\* deleteFile returns.
EndDelete(d) ==
  /\ deleting' = [deleting EXCEPT ![d] = "idle"]
  /\ deletes' = [deletes EXCEPT ![d] = Null]

\* getFileById finds the row; without one deleteFile returns false.
BeginDelete(d, f) ==
  /\ deleting[d] = "idle"
  /\ f \in rows
  /\ deleting' = [deleting EXCEPT ![d] = "enter"]
  /\ deletes' = [deletes EXCEPT ![d] = f]
  /\ UNCHANGED <<rows, objects, phase, quotaVars, lateVars, removing, deleted,
                 downloadVars, breakerVars>>

EnterDelete(d) ==
  /\ deleting[d] = "enter"
  /\ \/ /\ Enter
        /\ SetDelete(d, "provider")
        /\ removing' = removing \cup {deletes[d]}
     \/ /\ Blocked
        /\ EndDelete(d)
        /\ UNCHANGED <<removing, breakerVars>>
  /\ UNCHANGED <<rows, objects, phase, quotaVars, lateVars, deleted, downloadVars>>

\* The provider removes the object, or finds none.
Remove(d) ==
  /\ deleting[d] = "provider"
  /\ SetDelete(d, "row")
  /\ objects' = objects \ {deletes[d]}
  /\ OnSuccess
  /\ UNCHANGED <<rows, phase, quotaVars, lateVars, removing, deleted, downloadVars>>

\* Mutant: a failed provider delete does not stop the row's.
RemoveFailsOn(d) ==
  /\ deleting[d] = "provider"
  /\ SetDelete(d, "row")
  /\ OnFailure
  /\ UNCHANGED <<rows, objects, phase, quotaVars, lateVars, removing, deleted,
                 downloadVars>>

\* The provider fails, the object removed or not; or the timer gives up on a
\* request that may still be carried out.  The row stays, the caller gets false.
RemoveFails(d) ==
  /\ deleting[d] = "provider"
  /\ EndDelete(d)
  /\ \/ /\ objects' \in {objects, objects \ {deletes[d]}}
        /\ UNCHANGED lateRemoves
     \/ /\ lateRemoves' = lateRemoves \cup {deletes[d]}
        /\ UNCHANGED objects
  /\ OnFailure
  /\ UNCHANGED <<rows, phase, quotaVars, latePuts, removing, deleted, downloadVars>>

\* deleteStorageFile returns true, or swallows the error and returns false.
RemoveRow(d) ==
  /\ deleting[d] = "row"
  /\ EndDelete(d)
  /\ \/ /\ rows' = rows \ {deletes[d]}
        /\ deleted' = deleted \cup {deletes[d]}
     \/ UNCHANGED <<rows, deleted>>
  /\ UNCHANGED <<objects, phase, quotaVars, lateVars, removing, downloadVars,
                 breakerVars>>

-----------------------------------------------------------------------------
(* Downloads.                                                              *)

\* getFileContent returns.
EndGet(g) ==
  /\ getting' = [getting EXCEPT ![g] = "idle"]
  /\ gets' = [gets EXCEPT ![g] = Null]

BeginDownload(g, f) ==
  /\ getting[g] = "idle"
  /\ f \in rows
  /\ getting' = [getting EXCEPT ![g] = "enter"]
  /\ gets' = [gets EXCEPT ![g] = f]
  /\ UNCHANGED <<rows, objects, phase, quotaVars, lateVars, deleteVars, breakerVars>>

EnterDownload(g) ==
  /\ getting[g] = "enter"
  /\ \/ /\ Enter
        /\ getting' = [getting EXCEPT ![g] = "provider"]
        /\ UNCHANGED gets
     \/ /\ Blocked
        /\ EndGet(g)
        /\ UNCHANGED breakerVars
  /\ UNCHANGED <<rows, objects, phase, quotaVars, lateVars, deleteVars>>

\* The content; or isNotFound, which the breaker does not book; or a fault.
Download(g) ==
  /\ getting[g] = "provider"
  /\ EndGet(g)
  /\ \/ gets[g] \in objects /\ OnSuccess
     \/ gets[g] \notin objects /\ UNCHANGED breakerVars
     \/ OnFailure
  /\ UNCHANGED <<rows, objects, phase, quotaVars, lateVars, deleteVars>>

-----------------------------------------------------------------------------
(* The environment.                                                        *)

\* A request whose caller gave up is carried out after all.
LatePut(u) ==
  /\ u \in latePuts
  /\ latePuts' = latePuts \ {u}
  /\ objects' = objects \cup {u}
  /\ UNCHANGED <<rows, phase, quotaVars, lateRemoves, deleteVars, downloadVars, breakerVars>>

LateRemove(f) ==
  /\ f \in lateRemoves
  /\ lateRemoves' = lateRemoves \ {f}
  /\ objects' = objects \ {f}
  /\ UNCHANGED <<rows, phase, quotaVars, latePuts, deleteVars, downloadVars, breakerVars>>

\* Time passes, but not past a timer that is due nor within one turn.
Tick ==
  /\ \A u \in Uploads : phase[u] # "enter"
  /\ \A u \in Buffered : phase[u] = "send" => age[u] < UploadTimeout
  /\ age' = [u \in Uploads |-> IF InFlight(u) /\ u \notin unsized /\ age[u] < ReservationTtl
                                 THEN age[u] + 1 ELSE age[u]]
  /\ BreakerTick
  /\ UNCHANGED <<rows, objects, phase, used, reservations, unsized, blind, lateVars, deleteVars,
                 downloadVars>>

\* The process dies and starts again: memory is gone, database and provider
\* remain, requests on their way to the provider may still arrive.
Restart ==
  /\ phase' = [u \in Uploads |-> IF phase[u] \in {"idle", "ok", "failed"} THEN phase[u]
                                                                          ELSE "lost"]
  /\ used' = [u \in Uploads |-> Nothing]
  /\ reservations' = {}
  /\ age' = [u \in Uploads |-> 0]
  /\ latePuts' = latePuts \cup {u \in Uploads : phase[u] = "send"}
  /\ lateRemoves' = lateRemoves \cup {deletes[d] : d \in {e \in Deletes : deleting[e] = "provider"}}
  /\ deleting' = [d \in Deletes |-> "idle"]
  /\ deletes' = [d \in Deletes |-> Null]
  /\ getting' = [g \in Downloads |-> "idle"]
  /\ gets' = [g \in Downloads |-> Null]
  /\ TransitionToClosed  \* a new breaker
  /\ UNCHANGED <<rows, objects, unsized, blind, removing, deleted>>

\* The steps of an upload that do not wait for the provider.
LocalStep(u) ==
  \/ ReadUsage(u) \/ Admit(u) \/ EnterUpload(u) \/ PutTimesOut(u)
  \/ Record(u) \/ FinishUpload(u)

Next ==
  \/ \E u \in Uploads : \/ BeginUpload(u) \/ BeginStream(u) \/ LocalStep(u)
                        \/ Put(u) \/ PutStream(u) \/ LatePut(u)
  \/ \E d \in Deletes : \/ EnterDelete(d) \/ Remove(d) \/ RemoveFails(d) \/ RemoveRow(d)
                        \/ \E f \in Files : BeginDelete(d, f)
  \/ \E g \in Downloads : \/ EnterDownload(g) \/ Download(g)
                          \/ \E f \in Files : BeginDownload(g, f)
  \/ \E f \in Files : LateRemove(f)
  \/ Tick
  \/ Restart

Spec == Init /\ [][Next]_vars

\* Database calls settle and timers fire; the provider owes no answer.
FairSpec ==
  /\ Spec
  /\ \A u \in Uploads : WF_vars(LocalStep(u))
  /\ WF_vars(Tick)

-----------------------------------------------------------------------------
(* Properties.                                                             *)

\* A quota is exceeded by no more than what the last admission could not count:
\* the usage figures are awaited before they are used, so a file that was recorded
\* and released in between is in neither sum, and a stream of unknown size is in no
\* sum at all.  Everything else, files on their way included, stays under the limit.
QuotaKept ==
  \A sc \in Scopes :
    Limited(sc) => Bytes(Committed(sc)) <= LimitOf[sc] + Bytes(blind[sc])

\* Headroom is held by exactly the uploads under way: no returned upload keeps any,
\* and one that is under way loses it only when it outlives the TTL, which a
\* buffered upload cannot do while its timer runs and a stream can.
HeadroomHeld ==
  /\ \A u \in reservations : InFlight(u) /\ u \notin unsized
  /\ \A u \in Uploads \ unsized :
       InFlight(u) /\ (age[u] < ReservationTtl \/ (u \in Buffered /\ phase[u] = "send"))
         => u \in reservations

\* What uploadFile answers is what the database has: no row behind a failure, and
\* behind a success a row, unless a delete has taken it since.
ReportMatchesRow ==
  \A u \in Uploads :
    /\ phase[u] = "failed" => u \notin rows
    /\ phase[u] = "ok" => u \in rows \cup removing

\* Every row has its object, through timeouts, late writes and restarts, unless a
\* delete of the file got as far as the provider.
RowHasObject == \A f \in rows \ removing : f \in objects

\* A file reported deleted is gone from database and provider and stays gone,
\* whatever was given up on before arrives later.
DeletedIsGone == deleted \cap (rows \cup objects) = {}

\* A buffered upload returns, or its process dies, even when the provider never
\* answers: the timer runs in every state of the breaker.
BufferedReturns ==
  \A u \in Buffered : phase[u] = "global" ~> phase[u] \in {"ok", "failed", "lost"}

-----------------------------------------------------------------------------
(* The inductive invariant.                                                *)

\* The file was in the database at some time, as far as its upload tells.
Recorded(f) == f \in Existing \/ (f \in Uploads /\ phase[f] \in {"index", "ok", "lost"})

\* A reservation is lost to the TTL only, and a buffered upload under its timer is
\* younger than that.
HeadroomInv ==
  /\ \A u \in Buffered : phase[u] = "send" => age[u] <= UploadTimeout
  /\ \A u \in Buffered : phase[u] = "enter" => age[u] = 0
  /\ \A u \in unsized : phase[u] \notin {"idle", "global", "folder", "admit", "enter"}
  /\ \A u \in reservations : InFlight(u) /\ u \notin unsized
  /\ \A u \in Uploads \ unsized : InFlight(u) /\ age[u] < ReservationTtl => u \in reservations

\* Who may still touch which file.
CallInv ==
  /\ \A f \in rows \cup removing : Recorded(f) /\ f \notin latePuts
  /\ \A d \in Deletes : deleting[d] # "idle" =>
       deletes[d] \in Files /\ Recorded(deletes[d]) /\ deletes[d] \notin latePuts
  /\ \A d \in Deletes : deleting[d] \in {"provider", "row"} => deletes[d] \in removing
  /\ \A u \in latePuts : phase[u] \in {"failed", "lost"}
  /\ lateRemoves \subseteq removing
  /\ deleted \subseteq removing

\* What is stored.
StoreInv ==
  /\ \A u \in Uploads : phase[u] = "record" => u \in objects
  /\ \A u \in Uploads : phase[u] \in {"index", "ok"} => u \in rows \cup removing
  /\ \A d \in Deletes : deleting[d] = "row" => deletes[d] \notin objects
  /\ RowHasObject
  /\ DeletedIsGone

\* Only an upload that has begun can have escaped an admission.
BlindInv == \A sc \in Scopes : \A u \in Uploads : u \in blind[sc] => phase[u] # "idle"

\* The invariant the proofs rest on: the types and all of the above, together.
StorageInv == TypeOK /\ BreakerCounts /\ HeadroomInv /\ CallInv /\ StoreInv /\ BlindInv
=============================================================================
