--------------------------- MODULE CapturePipeline ---------------------------
(***************************************************************************)
(* The capture block of one session record: what an uploaded recording     *)
(* goes through until a redacted variant of it is public.  Uploads link    *)
(* files, device manifests declare segments, an operator overrides, and    *)
(* redaction workers poll; all of them write through                       *)
(* RecordManager.mergeCapture, a read, a precondition and a write of the   *)
(* whole block under an external lock (ResourceLock) that expires after    *)
(* 30 s, however long the write takes.                                     *)
(***************************************************************************)
EXTENDS UploadJobs

CONSTANTS
  Manifests,   \* session.manifest messages
  Overrides,   \* overrideRedaction calls
  Workers,     \* redaction workers
  Slow,        \* bound: the callers whose write may outlive its lock
  SegKinds,    \* what manifests may declare
  MaxAttempts, \* RedactionWorkerOptions.maxAttempts
  MaxFaults,   \* bound: merges refused or failed, and locks outlived
  None

Callers == Files \cup Manifests \cup Overrides \cup Workers

ASSUME CaptureAssumption ==
  /\ SegKinds \subseteq {"bad", "public", "mixed", "closed"}
  /\ MaxAttempts \in Nat \ {0} /\ MaxFaults \in Nat
  /\ None \notin Callers
  /\ Files \cap (Manifests \cup Overrides \cup Workers) = {}
  /\ Workers \cap (Manifests \cup Overrides) = {}

VARIABLES
  capture,  \* the record's capture block, and its attached recordings
  lock,     \* the holder of capture:<id>
  merging,  \* where mergeCapture of a caller is
  patch,    \* the fields it was given
  seen,     \* the block it is about to write
  work,     \* where a worker is in its cycle
  job,      \* what it read of the record
  faults,   \* bound counter
  overran,  \* history: a merge in progress has outlived its lock
  raced     \* history: the last link met a worker on an earlier file, or a
            \* merge since then has outlived its lock

captureVars == <<capture, lock, merging, patch, seen, work, job, faults, overran,
                 raced>>
vars == <<uploadVars, captureVars>>

\* A redacted variant: the raw file it is made of, and what it shows of it.
Variants == [of : Files, shows : {"all", "some"}]

\* What each field of the block may be.
Values ==
  [av |-> Files \cup {None}, segments |-> SegKinds \cup {"none"},
   status |-> {"none", "pending", "complete", "awaiting"},
   public |-> Variants \cup {None}, attempts |-> 0 .. MaxAttempts,
   attested |-> BOOLEAN, since |-> BOOLEAN, attached |-> SUBSET Variants]

Captures ==
  [av : Values.av, segments : Values.segments, status : Values.status,
   public : Values.public, attempts : Values.attempts, attested : Values.attested,
   since : Values.since, attached : Values.attached]

TypeOK ==
  /\ UploadTypeOK
  /\ capture \in Captures
  /\ lock \in Callers \cup {None}
  /\ merging \in [Callers -> {"idle", "ask", "write", "done", "failed"}]
  /\ DOMAIN patch = Callers
  /\ \A w \in Callers : \A x \in DOMAIN patch[w] :
       x \in DOMAIN Values /\ patch[w][x] \in Values[x]
  /\ seen \in [Callers -> Captures \cup {None}]
  /\ \A w \in Callers : merging[w] = "write" => seen[w] \in Captures
  /\ work \in [Workers -> {"idle", "settle", "charge"}]
  /\ DOMAIN job = Workers
  /\ \A w \in Workers :
       IF work[w] = "idle" THEN job[w] = None
                           ELSE job[w] \in [of : Files, attempts : 0 .. MaxAttempts]
  /\ faults \in 0 .. MaxFaults
  /\ overran \in BOOLEAN /\ raced \in BOOLEAN

NoPatch == [x \in {} |-> None]

Init ==
  /\ UploadInit
  /\ capture = [av |-> None, segments |-> "none", status |-> "none",
                public |-> None, attempts |-> 0, attested |-> FALSE,
                since |-> FALSE, attached |-> {}]
  /\ lock = None
  /\ merging = [w \in Callers |-> "idle"]
  /\ patch = [w \in Callers |-> NoPatch]
  /\ seen = [w \in Callers |-> None]
  /\ work = [w \in Workers |-> "idle"]
  /\ job = [w \in Workers |-> None]
  /\ faults = 0
  /\ overran = FALSE
  /\ raced = FALSE

-----------------------------------------------------------------------------
(* mergeCapture.                                                           *)

\* appendAttachedFile comes with a new public file.
Appends(p) == "public" \in DOMAIN p /\ p.public # None

\* { ...existing, ...partialCapture }, and the attachment.
Merge(c, p) ==
  [x \in DOMAIN c |->
     IF x \in DOMAIN p THEN p[x]
     ELSE IF x = "attached" /\ Appends(p) THEN c.attached \cup {p.public} ELSE c[x]]

\* Mutant: the worker's write-back has no precondition.
PreconditionNone(w, c) == w \in Files => c.av # w

\* A file is linked once; a verdict does not replace a completed redaction; a
\* hold or a failure counts only while the session is pending.
Precondition(w, c) ==
  /\ w \in Files => c.av # w
  /\ w \in Workers =>
       IF "status" \in DOMAIN patch[w] /\ patch[w].status = "complete"
         THEN c.status # "complete" ELSE c.status = "pending"

Ask(w, p) ==
  /\ merging' = [merging EXCEPT ![w] = "ask"]
  /\ patch' = [patch EXCEPT ![w] = p]

\* Mutant: a failed attempt leaves the counter alone.
ChargeNothing(c) == [attempts |-> c.attempts]

\* Mutant: nobody compares the counter with its limit.
ChargeUncapped(c) == [attempts |-> c.attempts + 1]

\* An attempt that failed: after the last one a human is asked.
Charge(c) == IF c.attempts + 1 >= MaxAttempts
               THEN [attempts |-> MaxAttempts, status |-> "awaiting"]
               ELSE [attempts |-> c.attempts + 1]

\* What a worker does when its merge has ended: on an error the attempt is
\* charged, unless that was what failed.
EndMerge(w, outcome) ==
  /\ seen' = [seen EXCEPT ![w] = None]
  /\ IF w \notin Workers
       THEN /\ merging' = [merging EXCEPT ![w] = IF w \in Files THEN outcome ELSE "done"]
            /\ patch' = [patch EXCEPT ![w] = NoPatch]
            /\ UNCHANGED <<work, job>>
     ELSE IF outcome = "failed" /\ work[w] = "settle"
       THEN /\ Ask(w, Charge(job[w]))
            /\ work' = [work EXCEPT ![w] = "charge"]
            /\ UNCHANGED job
       ELSE /\ merging' = [merging EXCEPT ![w] = "idle"]
            /\ patch' = [patch EXCEPT ![w] = NoPatch]
            /\ work' = [work EXCEPT ![w] = "idle"]
            /\ job' = [job EXCEPT ![w] = None]

\* Mutant: the block is read before the lock is taken.
MergeReadsUnlocked(w) ==
  /\ merging[w] = "ask"
  /\ lock' = IF lock = None THEN w ELSE lock
  /\ IF Precondition(w, capture)
       THEN /\ seen' = [seen EXCEPT ![w] = Merge(capture, patch[w])]
            /\ merging' = [merging EXCEPT ![w] = "write"]
            /\ UNCHANGED <<patch, work, job>>
       ELSE EndMerge(w, "done")
  /\ UNCHANGED <<uploadVars, capture, faults, overran, raced>>

\* Under the lock: the record is read; a precondition that fails ends the call.
MergeReads(w) ==
  /\ merging[w] = "ask"
  /\ lock = None
  /\ IF Precondition(w, capture)
       THEN /\ seen' = [seen EXCEPT ![w] = Merge(capture, patch[w])]
            /\ merging' = [merging EXCEPT ![w] = "write"]
            /\ lock' = w
            /\ UNCHANGED <<patch, work, job>>
       ELSE EndMerge(w, "done") /\ UNCHANGED lock
  /\ UNCHANGED <<uploadVars, capture, faults, overran, raced>>

\* Sixty attempts, and the lock was taken every time.
MergeRefused(w) ==
  /\ merging[w] = "ask"
  /\ lock # None
  /\ faults < MaxFaults
  /\ faults' = faults + 1
  /\ EndMerge(w, "failed")
  /\ UNCHANGED <<uploadVars, capture, lock, overran, raced>>

Release(w) ==
  /\ lock' = IF lock = w THEN None ELSE lock
  /\ overran' = (overran /\ \E x \in Callers \ {w} : merging[x] = "write")

\* updateRecord has written the block, and the attachments if one was added.
MergeWrites(w) ==
  /\ merging[w] = "write"
  /\ capture' = IF Appends(patch[w]) THEN seen[w]
                ELSE [seen[w] EXCEPT !.attached = capture.attached]
  /\ raced' = (overran \/ IF w \in Files
                            THEN \E x \in Workers : work[x] # "idle" /\ job[x].of # w
                            ELSE raced)
  /\ Release(w)
  /\ EndMerge(w, "done")
  /\ UNCHANGED <<uploadVars, faults>>

\* updateRecord failed and was rolled back.
MergeFails(w) ==
  /\ merging[w] = "write"
  /\ faults < MaxFaults
  /\ faults' = faults + 1
  /\ Release(w)
  /\ EndMerge(w, "failed")
  /\ UNCHANGED <<uploadVars, capture, raced>>

\* 30 s are over, for a merge that still writes or one that died.
LockExpires ==
  /\ lock # None
  /\ IF merging[lock] = "write"
       THEN /\ lock \in Slow
            /\ faults < MaxFaults
            /\ faults' = faults + 1
            /\ overran' = TRUE
       ELSE UNCHANGED <<faults, overran>>
  /\ lock' = None
  /\ UNCHANGED <<uploadVars, capture, merging, patch, seen, work, job, raced>>

-----------------------------------------------------------------------------
(* Who merges what.                                                        *)

\* Mutant: the variant of the previous file stays.
LinkPatchKeepsPublic(f) == [av |-> f, status |-> "pending", attempts |-> 0]

LinkPatch(f) ==
  [av |-> f, status |-> "pending", public |-> None, attempts |-> 0]

\* The hook of a finalized upload: onRecordingComplete, linkFileToSession.  Its
\* failure is only logged.
LinkFileToSession(f) ==
  /\ final[f] = "hook"
  /\ merging[f] = "idle"
  /\ Ask(f, LinkPatch(f))
  /\ UNCHANGED <<uploadVars, capture, lock, seen, work, job, faults, overran, raced>>

\* applySessionManifest: never the file.
ApplySessionManifest(m) ==
  /\ merging[m] = "idle"
  /\ \E s \in SegKinds : Ask(m, [segments |-> s])
  /\ UNCHANGED <<uploadVars, capture, lock, seen, work, job, faults, overran, raced>>

\* overrideRedaction: retry, or publish_public.
OverrideRedaction(o) ==
  /\ merging[o] = "idle"
  /\ capture.av # None
  /\ LET retry == [status |-> "pending", attempts |-> 0, since |-> TRUE]
     IN  \/ Ask(o, retry)
         \/ Ask(o, [status |-> "pending", attempts |-> 0, since |-> TRUE,
                    attested |-> TRUE])
  /\ UNCHANGED <<uploadVars, capture, lock, seen, work, job, faults, overran, raced>>

-----------------------------------------------------------------------------
(* The redaction worker.                                                   *)

\* resolveVisibility: what is unknown or malformed is held; an attestation
\* shows everything, whatever the segments say.
Visibility(c) ==
  CASE c.segments = "bad" \/ (c.segments = "none" /\ ~c.attested) -> "hold"
    [] c.segments = "public" \/ (c.segments # "bad" /\ c.attested) -> "all"
    [] c.segments = "mixed" /\ ~c.attested -> "some"
    [] c.segments = "closed" /\ ~c.attested -> "none"

\* runOnce reads a pending record and works on what it read; nobody else sees
\* any of it before the merge that it ends in.
Redact(w, next, p) ==
  /\ work[w] = "idle"
  /\ capture.av # None
  /\ capture.status = "pending"
  /\ Ask(w, p)
  /\ work' = [work EXCEPT ![w] = next]
  /\ job' = [job EXCEPT ![w] = [of |-> capture.av, attempts |-> capture.attempts]]
  /\ UNCHANGED <<uploadVars, capture, lock, seen, faults, overran, raced>>

\* trackHold: the first hold stamps the record, one past the timeout escalates.
\* A hold before it changes nothing and is a cycle not taken.
TrackHold(w) ==
  /\ Visibility(capture) = "hold"
  /\ Redact(w, "settle",
            IF capture.since THEN [status |-> "awaiting"] ELSE [since |-> TRUE])

\* Nothing is public: complete, without a publication.
CompleteUnpublished(w) ==
  /\ Visibility(capture) = "none"
  /\ Redact(w, "settle", [status |-> "complete"])

\* Encoded, verified and stored as a public file; now written back.
PublishVerified(w) ==
  /\ Visibility(capture) \in {"all", "some"}
  /\ Redact(w, "settle",
            [public |-> [of |-> capture.av, shows |-> Visibility(capture)],
             status |-> "complete"])

\* The raw file, the probe, the encode, the verification or the upload failed.
AttemptFails(w) == Redact(w, "charge", Charge(capture))

\* The process restarts: its requests and merges are gone, its lock row stays.
Restart ==
  /\ faults < MaxFaults
  /\ faults' = faults + 1
  /\ UploadsLost
  /\ merging' = [w \in Callers |->
       IF w \in Workers THEN "idle"
       ELSE IF w \in Stored THEN IF merging[w] = "done" THEN "done" ELSE "failed"
       ELSE IF merging[w] = "idle" THEN "idle" ELSE "done"]
  /\ patch' = [w \in Callers |-> NoPatch]
  /\ seen' = [w \in Callers |-> None]
  /\ work' = [w \in Workers |-> "idle"]
  /\ job' = [w \in Workers |-> None]
  /\ overran' = FALSE
  /\ UNCHANGED <<capture, lock, raced>>

-----------------------------------------------------------------------------
MergeStep(w) ==
  \/ MergeReads(w)
  \/ MergeWrites(w)

WorkerStep(w) ==
  \/ TrackHold(w)
  \/ CompleteUnpublished(w)
  \/ PublishVerified(w)
  \/ AttemptFails(w)

Next ==
  \/ UploadStep /\ UNCHANGED captureVars
  \/ \E w \in Callers : MergeStep(w) \/ MergeRefused(w) \/ MergeFails(w)
  \/ LockExpires
  \/ \E f \in Files : LinkFileToSession(f)
  \/ \E m \in Manifests : ApplySessionManifest(m)
  \/ \E o \in Overrides : OverrideRedaction(o)
  \/ \E w \in Workers : WorkerStep(w)
  \/ Restart

Spec == Init /\ [][Next]_vars

\* The hooks of finalized uploads run, a lock that is held is released or
\* expires, a file or a worker that waits for it gets it in the end, and the
\* workers keep polling.
FairSpec ==
  /\ Spec
  /\ WF_vars(\E f \in Files : LinkFileToSession(f))
  /\ \A w \in Files \cup Workers : SF_vars(MergeReads(w))
  /\ WF_vars(LockExpires \/ \E w \in Callers : MergeWrites(w))
  /\ WF_vars(\E w \in Workers : WorkerStep(w))

-----------------------------------------------------------------------------
(* Properties.                                                             *)

\* FA-BB-012 and FA-BB-007: what is in recordings_raw is the recording the
\* device declared, unless a second finalize of the upload truncated the file
\* that was being streamed.
StoredIsWhole ==
  \A f \in Stored \ whole : \E g \in Files \ {f} : final[g] # "idle"

\* FA-BB-002 E: "a racing writer's fields are never clobbered": a merge leaves
\* every field it was not given as it is, and every attachment, while the
\* locks last.
MergeKeepsFields ==
  [][\A w \in Callers :
       merging[w] = "write" /\ merging'[w] # "write" /\ ~overran =>
         /\ \A x \in DOMAIN capture \ (DOMAIN patch[w] \cup {"attached"}) :
              capture'[x] = capture[x]
         /\ capture.attached \subseteq capture'.attached]_vars

\* "Never overwrite a redaction another worker completed": of two workers on
\* one session, the second leaves the first one's verdict, while locks last.
CompletedRedactionStands ==
  [][capture.status = "complete" /\ capture'.status = "complete" /\ ~overran
       => capture'.public = capture.public]_vars

\* session-controller.ts:562-566, "nothing public is served until the worker
\* verifies a redacted variant of THIS file", as far as the code keeps it: what
\* is public is made of the linked file, unless a worker was on an earlier file
\* when the link came (its write-back asks only for a status that the link has
\* just made pending again), or a lock was outlived.
StaleOnlyIfRaced ==
  capture.public # None => capture.public.of = capture.av \/ raced

\* Commit G: no session waits in pending for ever, whatever fails; it is
\* decided or handed to a human.
PendingIsDecided == capture.status = "pending" ~> capture.status # "pending"

-----------------------------------------------------------------------------
(* The invariant behind the three properties of the block.                 *)

Fields == {"av", "segments", "status", "public", "attempts", "attested", "since",
           "attached"}

\* Every block has every field.
Shape ==
  /\ DOMAIN capture = Fields
  /\ DOMAIN merging = Callers /\ DOMAIN patch = Callers /\ DOMAIN seen = Callers
  /\ DOMAIN work = Workers /\ DOMAIN job = Workers
  /\ \A w \in Callers : merging[w] = "write" => DOMAIN seen[w] = Fields

\* Who may change what: a link the file, a link or a worker what is public, and a
\* worker publishes what it read.
PatchInv ==
  \A w \in Callers :
    /\ "attached" \notin DOMAIN patch[w]
    /\ "av" \in DOMAIN patch[w] => w \in Files
    /\ w \in Files /\ merging[w] \in {"ask", "write"} => patch[w] = LinkPatch(w)
    /\ w \notin Files /\ "public" \in DOMAIN patch[w] =>
         /\ w \in Workers
         /\ "status" \in DOMAIN patch[w] /\ patch[w].status = "complete"
         /\ work[w] # "idle" /\ patch[w].public.of = job[w].of

\* While no lock has run out, whoever writes holds the lock and writes what the
\* block is now, changed by its fields, which its precondition still allows.
WriteInv ==
  ~overran => \A w \in Callers : merging[w] = "write" =>
    /\ lock = w
    /\ seen[w] = Merge(capture, patch[w])
    /\ Precondition(w, capture)

\* The workers are on the linked file.
JobInv ==
  ~raced => \A w \in Workers : work[w] # "idle" => job[w].of = capture.av

MergeInv == Shape /\ PatchInv /\ WriteInv /\ JobInv /\ StaleOnlyIfRaced

\* A file is torn only if another finalize call has started; a chunk that is too
\* large is never written.
UploadInv ==
  /\ \A f \in Files : final[f] = "torn" => \E g \in Files \ {f} : final[g] # "idle"
  /\ \A k \in Oversized : chunk[k] \in {"idle", "overrun", "done"}

CaptureInv == TypeOK /\ UploadInv /\ StoredIsWhole /\ MergeInv
=============================================================================
