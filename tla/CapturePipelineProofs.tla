------------------------ MODULE CapturePipelineProofs ------------------------
(* Theorems about the capture block: MergeInv is inductive, for any calls,  *)
(* manifests, overrides and workers, and what follows from it.              *)
EXTENDS CapturePipeline, TLAPS

\* The parts of MergeInv that no wait and no other caller can disturb.
LEMMA MergeInitInv == Init => MergeInv
<1> SUFFICES ASSUME Init PROVE MergeInv
  OBVIOUS
<1>1. Shape
  BY DEF Init, Shape, Fields
<1>2. PatchInv
  BY DEF Init, PatchInv, NoPatch
<1>3. WriteInv /\ JobInv /\ StaleOnlyIfRaced
  BY DEF Init, WriteInv, JobInv, StaleOnlyIfRaced
<1> QED
  BY <1>1, <1>2, <1>3 DEF MergeInv

-----------------------------------------------------------------------------
(* What the two ends of mergeCapture do to its caller, and to nobody else. *)

\* The others stay where they are.
Alone(w) ==
  /\ DOMAIN merging' = Callers /\ DOMAIN patch' = Callers /\ DOMAIN seen' = Callers
  /\ DOMAIN work' = Workers /\ DOMAIN job' = Workers
  /\ \A x \in Callers \ {w} :
       merging'[x] = merging[x] /\ patch'[x] = patch[x] /\ seen'[x] = seen[x]
  /\ \A x \in Workers \ {w} : job'[x] = job[x] /\ work'[x] = work[x]

\* A charged attempt is about the status and the counter only.
LEMMA ChargeIsNarrow == \A c : DOMAIN Charge(c) \subseteq {"attempts", "status"}
BY DEF Charge

\* A merge that has ended leaves its caller without a patch, or with the charge
\* of a failed attempt.
LEMMA MergeEnds ==
  ASSUME Shape, NEW w \in Callers, NEW outcome \in {"done", "failed"},
         EndMerge(w, outcome)
  PROVE  /\ Alone(w)
         /\ merging'[w] # "write"
         /\ DOMAIN patch'[w] \subseteq {"attempts", "status"}
         /\ w \in Files => merging'[w] \notin {"ask", "write"}
         /\ w \in Workers /\ work'[w] # "idle" => work[w] # "idle" /\ job'[w] = job[w]
<1> USE CaptureAssumption DEF Shape, EndMerge, Alone, Callers
<1>1. DOMAIN NoPatch = {}
  BY DEF NoPatch
<1>2. CASE w \notin Workers
  BY <1>1, <1>2
<1>3. CASE w \in Workers /\ outcome = "failed" /\ work[w] = "settle"
  BY <1>3, ChargeIsNarrow DEF Ask
<1>4. CASE w \in Workers /\ ~(outcome = "failed" /\ work[w] = "settle")
  BY <1>1, <1>4
<1> QED
  BY <1>2, <1>3, <1>4

\* Merged, the block has its fields; those the patch does not name are kept.
LEMMA MergeFields ==
  ASSUME Shape, NEW w \in Callers, "attached" \notin DOMAIN patch[w]
  PROVE  LET m == Merge(capture, patch[w])
         IN  /\ DOMAIN m = Fields
             /\ \A x \in DOMAIN patch[w] \cap Fields : m[x] = patch[w][x]
             /\ \A x \in Fields \ (DOMAIN patch[w] \cup {"attached"}) : m[x] = capture[x]
             /\ capture.attached \subseteq m.attached
BY DEF Shape, Fields, Merge

\* The end of a merge that changed nothing.
LEMMA EndKeeps ==
  ASSUME MergeInv, NEW w \in Callers, NEW outcome \in {"done", "failed"},
         EndMerge(w, outcome), UNCHANGED <<capture, raced>>,
         \A x \in Callers \ {w} : lock = x => lock' = x,
         overran => overran' \/ \A x \in Callers \ {w} : merging[x] # "write",
         overran' => overran
  PROVE  MergeInv'
<1> USE DEF MergeInv
<1>1. /\ Alone(w)
      /\ merging'[w] # "write"
      /\ DOMAIN patch'[w] \subseteq {"attempts", "status"}
      /\ w \in Files => merging'[w] \notin {"ask", "write"}
      /\ w \in Workers /\ work'[w] # "idle" => work[w] # "idle" /\ job'[w] = job[w]
  BY MergeEnds
<1>2. Shape'
  BY <1>1 DEF Shape, Alone
<1>3. PatchInv'
  BY <1>1 DEF PatchInv, Alone, Callers
<1>4. WriteInv'
  BY <1>1 DEF WriteInv, Precondition, Alone, Callers
<1>5. JobInv' /\ StaleOnlyIfRaced'
  BY <1>1 DEF JobInv, StaleOnlyIfRaced, Alone
<1> QED
  BY <1>2, <1>3, <1>4, <1>5

\* What a caller asked for is in its patch; a worker that asks has read the block.
LEMMA AskKeeps ==
  ASSUME MergeInv, NEW w \in Callers, NEW p, Ask(w, p),
         UNCHANGED <<capture, lock, seen, overran, raced>>,
         DOMAIN job' = Workers, DOMAIN work' = Workers,
         \A x \in Workers \ {w} : job'[x] = job[x] /\ work'[x] = work[x],
         w \in Workers => work'[w] # "idle" /\ job'[w].of = capture.av,
         "attached" \notin DOMAIN p,
         "av" \in DOMAIN p => w \in Files,
         w \in Files => p = LinkPatch(w),
         w \notin Files /\ "public" \in DOMAIN p =>
           /\ w \in Workers
           /\ "status" \in DOMAIN p /\ p.status = "complete"
           /\ p.public.of = job'[w].of
  PROVE  MergeInv'
<1> USE DEF MergeInv, Ask
<1>1. Shape'
  BY DEF Shape
<1>2. PatchInv'
  BY DEF Shape, PatchInv
<1>3. WriteInv'
  BY DEF Shape, WriteInv, Precondition
<1>4. JobInv' /\ StaleOnlyIfRaced'
  BY DEF Shape, JobInv, StaleOnlyIfRaced
<1> QED
  BY <1>1, <1>2, <1>3, <1>4

\* Taking the lock and reading: nobody else writes while the lock was free.
LEMMA ReadKeeps ==
  ASSUME MergeInv, NEW w \in Callers, MergeReads(w)
  PROVE  MergeInv'
<1> USE DEF MergeInv
<1>1. CASE Precondition(w, capture)
  <2>1. /\ seen' = [seen EXCEPT ![w] = Merge(capture, patch[w])]
        /\ merging' = [merging EXCEPT ![w] = "write"]
        /\ lock = None /\ lock' = w /\ merging[w] = "ask"
        /\ UNCHANGED <<capture, patch, work, job, overran, raced>>
    BY <1>1 DEF MergeReads
  <2>2. Shape'
    BY <2>1, MergeFields DEF Shape, PatchInv
  <2>3. PatchInv'
    BY <2>1 DEF Shape, PatchInv
  <2>4. WriteInv'
    BY <2>1, <1>1, CaptureAssumption DEF Shape, WriteInv, Precondition
  <2>5. JobInv' /\ StaleOnlyIfRaced'
    BY <2>1 DEF JobInv, StaleOnlyIfRaced
  <2> QED
    BY <2>2, <2>3, <2>4, <2>5
<1>2. CASE ~Precondition(w, capture)
  <2>1. EndMerge(w, "done") /\ UNCHANGED <<lock, capture, overran, raced>>
    BY <1>2 DEF MergeReads
  <2> QED
    BY <2>1, EndKeeps
<1> QED
  BY <1>1, <1>2

\* While no lock has run out, the one merge that writes holds it.
LEMMA OneWriter ==
  ASSUME MergeInv, ~overran, NEW w \in Callers, NEW x \in Callers,
         merging[w] = "write", merging[x] = "write"
  PROVE  w = x
BY DEF MergeInv, WriteInv

\* What a write makes of the block, while no lock has run out.
LEMMA WriteMerges ==
  ASSUME MergeInv, NEW w \in Callers, MergeWrites(w), ~overran
  PROVE  /\ \A x \in DOMAIN patch[w] \cap Fields : capture'[x] = patch[w][x]
         /\ \A x \in Fields \ (DOMAIN patch[w] \cup {"attached"}) :
              capture'[x] = capture[x]
         /\ capture.attached \subseteq capture'.attached
         /\ Precondition(w, capture)
<1>1. "attached" \notin DOMAIN patch[w] /\ Shape
  BY DEF MergeInv, PatchInv
<1>2. seen[w] = Merge(capture, patch[w]) /\ Precondition(w, capture)
  BY DEF MergeInv, WriteInv, MergeWrites
<1>3. /\ DOMAIN seen[w] = Fields
      /\ \A x \in DOMAIN patch[w] \cap Fields : seen[w][x] = patch[w][x]
      /\ \A x \in Fields \ (DOMAIN patch[w] \cup {"attached"}) : seen[w][x] = capture[x]
      /\ capture.attached \subseteq seen[w].attached
  BY <1>1, <1>2, MergeFields
<1>4. "attached" \in Fields
  BY DEF Fields
<1>5. CASE Appends(patch[w])
  BY <1>2, <1>3, <1>5 DEF MergeWrites
<1>6. CASE ~Appends(patch[w])
  <2>1. capture' = [seen[w] EXCEPT !.attached = capture.attached]
    BY <1>6 DEF MergeWrites
  <2> QED
    BY <2>1, <1>1, <1>2, <1>3, <1>4
<1> QED
  BY <1>5, <1>6

\* The write itself.
LEMMA WriteKeeps ==
  ASSUME MergeInv, NEW w \in Callers, MergeWrites(w)
  PROVE  MergeInv'
<1> USE DEF MergeInv
<1>1. merging[w] = "write" /\ EndMerge(w, "done") /\ Release(w)
  BY DEF MergeWrites
<1>2. /\ Alone(w)
      /\ merging'[w] # "write"
      /\ DOMAIN patch'[w] \subseteq {"attempts", "status"}
      /\ w \in Files => merging'[w] \notin {"ask", "write"}
      /\ w \in Workers /\ work'[w] # "idle" => work[w] # "idle" /\ job'[w] = job[w]
  BY <1>1, MergeEnds
<1>3. Shape'
  <2>1. DOMAIN capture' = Fields
    BY <1>1 DEF MergeWrites, Shape
  <2> QED
    BY <2>1, <1>2 DEF Shape, Alone
<1>4. PatchInv'
  BY <1>2 DEF PatchInv, Alone, Callers
<1>5. WriteInv'
  <2> SUFFICES ASSUME ~overran' PROVE \A x \in Callers : merging'[x] # "write"
    BY DEF WriteInv
  <2>1. \A x \in Callers \ {w} : merging[x] # "write"
    BY <1>1, OneWriter DEF Release
  <2> QED
    BY <2>1, <1>2 DEF Alone
<1>6. ASSUME ~raced' PROVE ~overran
  BY <1>6 DEF MergeWrites
<1>7. CASE w \in Files
  <2> SUFFICES ASSUME ~raced' PROVE JobInv' /\ capture'.public = None
    BY <1>3, <1>4, <1>5 DEF JobInv, StaleOnlyIfRaced
  <2>1. patch[w] = LinkPatch(w)
    BY <1>1, <1>7 DEF PatchInv
  <2>2. capture'.av = w /\ capture'.public = None
    BY <2>1, <1>6, WriteMerges DEF LinkPatch, Fields
  <2>3. \A x \in Workers : work[x] # "idle" => job[x].of = w
    BY <1>7 DEF MergeWrites
  <2> QED
    BY <2>2, <2>3, <1>2, <1>7 DEF JobInv, Alone
<1>8. CASE w \notin Files
  <2> SUFFICES ASSUME ~raced'
               PROVE JobInv' /\ (capture'.public # None => capture'.public.of = capture'.av)
    BY <1>3, <1>4, <1>5 DEF JobInv, StaleOnlyIfRaced
  <2>1. ~overran /\ ~raced
    BY <1>6, <1>8 DEF MergeWrites
  <2>2. capture'.av = capture.av
    BY <2>1, <1>8, WriteMerges DEF PatchInv, Fields
  <2>3. JobInv'
    BY <2>1, <2>2, <1>2 DEF JobInv, Alone
  <2>4. CASE "public" \in DOMAIN patch[w]
    <3>1. capture'.public = patch[w].public
      BY <2>1, <2>4, WriteMerges DEF Fields
    <3>2. patch[w].public.of = capture.av
      BY <2>1, <2>4, <1>8 DEF PatchInv, JobInv
    <3> QED
      BY <3>1, <3>2, <2>2, <2>3
  <2>5. CASE "public" \notin DOMAIN patch[w]
    <3>1. capture'.public = capture.public
      BY <2>1, <2>5, WriteMerges DEF Fields
    <3> QED
      BY <3>1, <2>1, <2>2, <2>3 DEF StaleOnlyIfRaced
  <2> QED
    BY <2>4, <2>5
<1> QED
  BY <1>7, <1>8

-----------------------------------------------------------------------------
(* Every step keeps the invariant.                                         *)

LEMMA RefusedKeeps ==
  ASSUME MergeInv, NEW w \in Callers, MergeRefused(w) \/ MergeFails(w)
  PROVE  MergeInv'
<1>1. CASE MergeRefused(w)
  BY <1>1, EndKeeps DEF MergeRefused
<1>2. CASE MergeFails(w)
  <2>1. EndMerge(w, "failed") /\ UNCHANGED <<capture, raced>> /\ Release(w)
    BY <1>2 DEF MergeFails
  <2>2. /\ \A x \in Callers \ {w} : lock = x => lock' = x
        /\ overran => overran' \/ \A x \in Callers \ {w} : merging[x] # "write"
        /\ overran' => overran
    BY <2>1 DEF Release
  <2> QED
    BY <2>1, <2>2, EndKeeps
<1> QED
  BY <1>1, <1>2

\* A lock that runs out under a writer is remembered; any other was nobody's.
LEMMA ExpiryKeeps ==
  ASSUME MergeInv, LockExpires
  PROVE  MergeInv'
<1> USE DEF MergeInv, LockExpires
<1>1. Shape' /\ PatchInv'
  BY DEF Shape, PatchInv
<1>2. WriteInv'
  BY DEF WriteInv, Precondition
<1>3. JobInv' /\ StaleOnlyIfRaced'
  BY DEF JobInv, StaleOnlyIfRaced
<1> QED
  BY <1>1, <1>2, <1>3

\* A hook, a manifest, an operator or a worker asks for a merge.
LEMMA CallerKeeps ==
  ASSUME MergeInv,
         \/ \E f \in Files : LinkFileToSession(f)
         \/ \E m \in Manifests : ApplySessionManifest(m)
         \/ \E o \in Overrides : OverrideRedaction(o)
  PROVE  MergeInv'
<1>1. DOMAIN job = Workers /\ DOMAIN work = Workers
  BY DEF MergeInv, Shape
<1>2. ASSUME NEW f \in Files, LinkFileToSession(f) PROVE MergeInv'
  <2>1. Ask(f, LinkPatch(f)) /\ UNCHANGED <<capture, lock, seen, work, job, overran, raced>>
    BY <1>2 DEF LinkFileToSession
  <2>2. "attached" \notin DOMAIN LinkPatch(f)
    BY DEF LinkPatch
  <2>3. f \in Callers /\ f \notin Workers
    BY CaptureAssumption DEF Callers
  <2> QED
    BY <1>1, <2>1, <2>2, <2>3, AskKeeps
<1>3. ASSUME NEW m \in Manifests, ApplySessionManifest(m) PROVE MergeInv'
  <2>1. PICK s \in SegKinds : Ask(m, [segments |-> s])
    BY <1>3 DEF ApplySessionManifest
  <2>2. UNCHANGED <<capture, lock, seen, work, job, overran, raced>>
    BY <1>3 DEF ApplySessionManifest
  <2>3. DOMAIN [segments |-> s] = {"segments"}
    OBVIOUS
  <2>4. m \in Callers /\ m \notin Files /\ m \notin Workers
    BY CaptureAssumption DEF Callers
  <2> QED
    BY <1>1, <2>1, <2>2, <2>3, <2>4, AskKeeps
<1>4. ASSUME NEW o \in Overrides, OverrideRedaction(o) PROVE MergeInv'
  <2>1. PICK p : Ask(o, p) /\ DOMAIN p \subseteq {"status", "attempts", "since", "attested"}
    BY <1>4 DEF OverrideRedaction
  <2>2. UNCHANGED <<capture, lock, seen, work, job, overran, raced>>
    BY <1>4 DEF OverrideRedaction
  <2>3. o \in Callers /\ o \notin Files /\ o \notin Workers
    BY CaptureAssumption DEF Callers
  <2> QED
    BY <1>1, <2>1, <2>2, <2>3, AskKeeps
<1> QED
  BY <1>2, <1>3, <1>4

\* What a worker publishes is made of the file it has just read.
LEMMA WorkerKeeps ==
  ASSUME MergeInv, NEW w \in Workers, WorkerStep(w)
  PROVE  MergeInv'
<1>1. w \in Callers /\ w \notin Files
  BY CaptureAssumption DEF Callers
<1>2. ASSUME NEW next \in {"settle", "charge"}, NEW p, Redact(w, next, p), "attached" \notin DOMAIN p,
             "av" \notin DOMAIN p,
             "public" \in DOMAIN p =>
               /\ "status" \in DOMAIN p /\ p.status = "complete"
               /\ p.public.of = capture.av
      PROVE  MergeInv'
  <2>1. DOMAIN job = Workers /\ DOMAIN work = Workers
    BY DEF MergeInv, Shape
  <2>2. /\ Ask(w, p)
        /\ UNCHANGED <<capture, lock, seen, overran, raced>>
        /\ work' = [work EXCEPT ![w] = next]
        /\ job' = [job EXCEPT ![w] = [of |-> capture.av, attempts |-> capture.attempts]]
    BY <1>2 DEF Redact
  <2>3. work'[w] # "idle" /\ job'[w].of = capture.av
    BY <2>1, <2>2
  <2> QED
    BY <1>1, <1>2, <2>1, <2>2, <2>3, AskKeeps
<1>3. CASE TrackHold(w)
  BY <1>2, <1>3 DEF TrackHold
<1>4. CASE CompleteUnpublished(w)
  BY <1>2, <1>4 DEF CompleteUnpublished
<1>5. CASE PublishVerified(w)
  BY <1>2, <1>5 DEF PublishVerified
<1>6. CASE AttemptFails(w)
  BY <1>2, <1>6, ChargeIsNarrow DEF AttemptFails
<1> QED
  BY <1>3, <1>4, <1>5, <1>6 DEF WorkerStep

\* After a restart nobody merges and no worker is on a file.
LEMMA RestartKeeps ==
  ASSUME MergeInv, Restart
  PROVE  MergeInv'
<1> USE DEF MergeInv, Restart
<1>1. \A w \in Callers : merging'[w] \in {"idle", "done", "failed"}
  OBVIOUS
<1>2. Shape'
  BY <1>1 DEF Shape
<1>3. PatchInv'
  BY <1>1 DEF PatchInv, NoPatch
<1>4. WriteInv' /\ JobInv' /\ StaleOnlyIfRaced'
  BY <1>1 DEF WriteInv, JobInv, StaleOnlyIfRaced
<1> QED
  BY <1>2, <1>3, <1>4

LEMMA MergeNextInv == MergeInv /\ [Next]_vars => MergeInv'
<1> SUFFICES ASSUME MergeInv, [Next]_vars PROVE MergeInv'
  OBVIOUS
<1>1. CASE UNCHANGED captureVars
  BY <1>1 DEF captureVars, MergeInv, Shape, PatchInv, WriteInv, Precondition, JobInv,
              StaleOnlyIfRaced
<1>2. ASSUME NEW w \in Callers, MergeStep(w) \/ MergeRefused(w) \/ MergeFails(w)
      PROVE  MergeInv'
  BY <1>2, ReadKeeps, WriteKeeps, RefusedKeeps DEF MergeStep
<1>3. CASE LockExpires
  BY <1>3, ExpiryKeeps
<1>4. CASE \/ \E f \in Files : LinkFileToSession(f)
           \/ \E m \in Manifests : ApplySessionManifest(m)
           \/ \E o \in Overrides : OverrideRedaction(o)
  BY <1>4, CallerKeeps
<1>5. ASSUME NEW w \in Workers, WorkerStep(w) PROVE MergeInv'
  BY <1>5, WorkerKeeps
<1>6. CASE Restart
  BY <1>6, RestartKeeps
<1> QED
  BY <1>1, <1>2, <1>3, <1>4, <1>5, <1>6 DEF Next, vars

-----------------------------------------------------------------------------
(* The theorems.                                                           *)

\* The block every merge writes is the one it found, with its own fields, and
\* every worker is on the linked file, until a lock runs out or a link overtakes
\* a worker (record-manager.ts:mergeCapture, session-controller.ts).
THEOREM MergeInvariant == Spec => []MergeInv
BY MergeInitInv, MergeNextInv, PTL DEF Spec

\* The public variant is made of the linked file, unless a link has overtaken a
\* worker or a lock was outlived (session-controller.ts:562-566).
THEOREM PublicIsCurrent == Spec => []StaleOnlyIfRaced
<1>1. MergeInv => StaleOnlyIfRaced
  BY DEF MergeInv
<1> QED
  BY <1>1, MergeInvariant, PTL

\* Only a merge's write changes the block.
LEMMA OnlyWritesWrite ==
  ASSUME [Next]_vars, capture' # capture
  PROVE  \E w \in Callers : MergeWrites(w)
BY DEF Next, vars, captureVars, MergeStep, MergeReads, MergeRefused, MergeFails,
       LockExpires, LinkFileToSession, ApplySessionManifest, OverrideRedaction,
       WorkerStep, TrackHold, CompleteUnpublished, PublishVerified, AttemptFails,
       Redact, Restart

\* A merge leaves the fields it was not given, and every attachment, as they
\* are, while the locks last (record-manager.ts, FA-BB-002 E).
THEOREM MergesKeepFields == Spec => MergeKeepsFields
<1> DEFINE Kept(w) ==
      merging[w] = "write" /\ merging'[w] # "write" /\ ~overran =>
        /\ \A x \in DOMAIN capture \ (DOMAIN patch[w] \cup {"attached"}) :
             capture'[x] = capture[x]
        /\ capture.attached \subseteq capture'.attached
<1>1. ASSUME MergeInv, [Next]_vars, NEW w \in Callers PROVE Kept(w)
  <2> SUFFICES ASSUME merging[w] = "write", merging'[w] # "write", ~overran,
                      capture' # capture
               PROVE  Kept(w)
    BY <1>1
  <2>1. PICK x \in Callers : MergeWrites(x)
    BY <1>1, OnlyWritesWrite
  <2>2. merging[x] = "write" /\ EndMerge(x, "done")
    BY <2>1 DEF MergeWrites
  <2>3. x = w
    BY <1>1, <2>2, OneWriter
  <2>4. DOMAIN capture = Fields
    BY <1>1 DEF MergeInv, Shape
  <2> QED
    BY <1>1, <2>1, <2>3, <2>4, WriteMerges
<1>2. MergeInv /\ [Next]_vars => [\A w \in Callers : Kept(w)]_vars
  BY <1>1
<1> QED
  BY <1>2, MergeInvariant, PTL DEF Spec, MergeKeepsFields

\* Of two workers on one session, the second leaves the first one's verdict,
\* while the locks last (redaction-worker.ts, the write-back's precondition).
THEOREM RedactionsStand == Spec => CompletedRedactionStands
<1> DEFINE Stands ==
      capture.status = "complete" /\ capture'.status = "complete" /\ ~overran
        => capture'.public = capture.public
<1>1. ASSUME MergeInv, [Next]_vars PROVE Stands
  <2> SUFFICES ASSUME capture.status = "complete", capture'.status = "complete",
                      ~overran, capture' # capture
               PROVE  capture'.public = capture.public
    OBVIOUS
  <2>1. PICK w \in Callers : MergeWrites(w)
    BY <1>1, OnlyWritesWrite
  <2>2. "public" \notin DOMAIN patch[w]
    <3>1. CASE w \in Files
      <4>1. patch[w] = LinkPatch(w)
        BY <1>1, <2>1, <3>1 DEF MergeWrites, MergeInv, PatchInv
      <4>2. capture'.status = "pending"
        BY <1>1, <2>1, <4>1, WriteMerges DEF LinkPatch, Fields
      <4> QED
        BY <4>2
    <3>2. CASE w \notin Files
      BY <1>1, <2>1, <3>2, WriteMerges DEF MergeInv, PatchInv, Precondition
    <3> QED
      BY <3>1, <3>2
  <2> QED
    BY <1>1, <2>1, <2>2, WriteMerges DEF Fields
<1>2. MergeInv /\ [Next]_vars => [Stands]_vars
  BY <1>1
<1> QED
  BY <1>2, MergeInvariant, PTL DEF Spec, CompletedRedactionStands

-----------------------------------------------------------------------------
(* The uploads, and the types.                                             *)

LEMMA UploadInitTypes == Init => UploadTypeOK /\ UploadInv /\ StoredIsWhole
BY DEF Init, UploadInit, UploadTypeOK, UploadInv, StoredIsWhole, Stored

LEMMA ChunkTypes ==
  ASSUME UploadTypeOK, UploadInv, StoredIsWhole, NEW k \in Chunks \cup Oversized,
         ChunkReads(k) \/ ChunkOverruns(k) \/ ChunkMarks(k) \/ ChunkWrites(k)
  PROVE  UploadTypeOK' /\ UploadInv' /\ StoredIsWhole'
<1> USE UploadAssumption DEF UploadTypeOK, UploadInv, StoredIsWhole, Stored
<1>1. CASE ChunkReads(k)
  BY <1>1 DEF ChunkReads
<1>2. CASE ChunkOverruns(k)
  BY <1>2 DEF ChunkOverruns
<1>3. CASE ChunkMarks(k)
  BY <1>3 DEF ChunkMarks
<1>4. CASE ChunkWrites(k)
  BY <1>4 DEF ChunkWrites
<1> QED
  BY <1>1, <1>2, <1>3, <1>4

\* A file that is stored torn had another finalize call beside it.
LEMMA FinalizeTypes ==
  ASSUME UploadTypeOK, UploadInv, StoredIsWhole, NEW f \in Files,
         \/ FinalizeReads(f) \/ FinalizeClaims(f) \/ FinalizeCombines(f)
         \/ FinalizeStores(f) \/ FinalizeFails(f)
  PROVE  UploadTypeOK' /\ UploadInv' /\ StoredIsWhole'
<1> USE DEF UploadTypeOK, UploadInv, StoredIsWhole, Stored
<1>1. CASE FinalizeReads(f)
  BY <1>1 DEF FinalizeReads, FinalAt
<1>2. CASE FinalizeClaims(f)
  BY <1>2 DEF FinalizeClaims, FinalAt
<1>3. CASE FinalizeCombines(f)
  BY <1>3 DEF FinalizeCombines, Combine
<1>4. CASE FinalizeStores(f)
  BY <1>4 DEF FinalizeStores
<1>5. CASE FinalizeFails(f)
  BY <1>5 DEF FinalizeFails, Combine
<1> QED
  BY <1>1, <1>2, <1>3, <1>4, <1>5

LEMMA UploadNextTypes ==
  ASSUME UploadTypeOK, UploadInv, StoredIsWhole, [Next]_vars
  PROVE  UploadTypeOK' /\ UploadInv' /\ StoredIsWhole'
<1>1. CASE UNCHANGED uploadVars
  BY <1>1 DEF uploadVars, UploadTypeOK, UploadInv, StoredIsWhole, Stored
<1>2. CASE UploadStep
  BY <1>2, ChunkTypes, FinalizeTypes DEF UploadStep
<1>3. CASE UploadsLost
  BY <1>3 DEF UploadsLost, UploadTypeOK, UploadInv, StoredIsWhole, Stored
<1>4. UNCHANGED uploadVars \/ UploadStep \/ UploadsLost
  BY DEF Next, vars, MergeStep, MergeReads, MergeWrites, MergeRefused, MergeFails,
         LockExpires, LinkFileToSession, ApplySessionManifest, OverrideRedaction,
         WorkerStep, TrackHold, CompleteUnpublished, PublishVerified, AttemptFails,
         Redact, Restart
<1> QED
  BY <1>1, <1>2, <1>3, <1>4

\* The types of the capture block and of those who write it.
BlockTypeOK ==
  /\ capture \in Captures
  /\ lock \in Callers \cup {None}
  /\ merging \in [Callers -> {"idle", "ask", "write", "done", "failed"}]
  /\ DOMAIN patch = Callers
  /\ \A w \in Callers : \A x \in DOMAIN patch[w] :
       x \in DOMAIN Values /\ patch[w][x] \in Values[x]
  /\ seen \in [Callers -> Captures \cup {None}]
  /\ \A w \in Callers : merging[w] = "write" => seen[w] \in Captures
  /\ work \in [Workers -> {"idle", "settle", "charge"}]
  /\ DOMAIN job = Workers
  /\ \A w \in Workers :
       IF work[w] = "idle" THEN job[w] = None
                           ELSE job[w] \in [of : Files, attempts : 0 .. MaxAttempts]
  /\ faults \in 0 .. MaxFaults
  /\ overran \in BOOLEAN /\ raced \in BOOLEAN

\* Fields that may be merged.
PatchType(p) == \A x \in DOMAIN p : x \in DOMAIN Values /\ p[x] \in Values[x]

LEMMA ChargeTypes ==
  ASSUME NEW c, c.attempts \in 0 .. MaxAttempts
  PROVE  PatchType(Charge(c))
BY CaptureAssumption DEF PatchType, Charge, Values

LEMMA TrueIsBoolean == TRUE \in BOOLEAN /\ FALSE \in BOOLEAN
OBVIOUS

LEMMA RetryTypes ==
  ASSUME NEW p \in [status : {"pending"}, attempts : {0}, since : BOOLEAN]
                     \cup [status : {"pending"}, attempts : {0}, since : BOOLEAN,
                           attested : BOOLEAN]
  PROVE  PatchType(p)
BY CaptureAssumption DEF PatchType, Values

LEMMA SinceTypes == PatchType([since |-> TRUE])
<1>1. "since" \in DOMAIN Values /\ Values.since = BOOLEAN
  BY DEF Values
<1>2. [since |-> TRUE].since = TRUE /\ DOMAIN [since |-> TRUE] = {"since"}
  OBVIOUS
<1> QED
  BY Zenon, <1>1, <1>2 DEF PatchType

\* Merged, a block is a block.
LEMMA MergeTypes ==
  ASSUME NEW c \in Captures, NEW p, PatchType(p), "attached" \notin DOMAIN p
  PROVE  Merge(c, p) \in Captures
BY DEF Captures, Values, PatchType, Merge, Appends

\* The end of a merge.
LEMMA EndTypes ==
  ASSUME BlockTypeOK, NEW w \in Callers, NEW outcome \in {"done", "failed"},
         EndMerge(w, outcome), capture' \in Captures, lock' \in Callers \cup {None},
         faults' \in 0 .. MaxFaults, overran' \in BOOLEAN, raced' \in BOOLEAN
  PROVE  BlockTypeOK'
<1>1. PatchType(NoPatch)
  BY DEF PatchType, NoPatch
<1>2. CASE w \notin Workers
  BY <1>1, <1>2 DEF EndMerge, BlockTypeOK, PatchType
<1>3. CASE w \in Workers /\ outcome = "failed" /\ work[w] = "settle"
  <2>1. PatchType(Charge(job[w]))
    BY <1>3, ChargeTypes DEF BlockTypeOK
  <2> QED
    BY <1>3, <2>1 DEF EndMerge, BlockTypeOK, PatchType, Ask
<1>4. CASE w \in Workers /\ ~(outcome = "failed" /\ work[w] = "settle")
  BY <1>1, <1>4 DEF EndMerge, BlockTypeOK, PatchType
<1> QED
  BY <1>2, <1>3, <1>4

\* The steps of a merge.
LEMMA MergeStepTypes ==
  ASSUME BlockTypeOK, PatchInv, NEW w \in Callers,
         MergeStep(w) \/ MergeRefused(w) \/ MergeFails(w)
  PROVE  BlockTypeOK'
<1> USE CaptureAssumption
<1>1. CASE MergeReads(w)
  <2>1. CASE Precondition(w, capture)
    <3>1. Merge(capture, patch[w]) \in Captures
      BY MergeTypes DEF BlockTypeOK, PatchInv, PatchType
    <3> QED
      BY <1>1, <2>1, <3>1 DEF MergeReads, BlockTypeOK
  <2>2. CASE ~Precondition(w, capture)
    BY <1>1, <2>2, EndTypes DEF MergeReads, BlockTypeOK
  <2> QED
    BY <2>1, <2>2
<1>2. CASE MergeWrites(w)
  <2>1. seen[w] \in Captures /\ capture \in Captures
    BY <1>2 DEF MergeWrites, BlockTypeOK
  <2>2. capture' \in Captures
    BY <1>2, <2>1 DEF MergeWrites, Captures
  <2>3. lock' \in Callers \cup {None} /\ overran' \in BOOLEAN
    BY <1>2 DEF MergeWrites, Release, BlockTypeOK
  <2>4. raced' \in BOOLEAN /\ faults' \in 0 .. MaxFaults
    BY <1>2 DEF MergeWrites, BlockTypeOK
  <2> QED
    BY <1>2, <2>2, <2>3, <2>4, EndTypes DEF MergeWrites
<1>3. CASE MergeRefused(w)
  BY <1>3, EndTypes DEF MergeRefused, BlockTypeOK
<1>4. CASE MergeFails(w)
  <2>1. lock' \in Callers \cup {None} /\ overran' \in BOOLEAN
    BY <1>4 DEF MergeFails, Release, BlockTypeOK
  <2> QED
    BY <1>4, <2>1, EndTypes DEF MergeFails, BlockTypeOK
<1> QED
  BY <1>1, <1>2, <1>3, <1>4 DEF MergeStep

\* A caller that asks, and a worker that has read a pending block.
LEMMA AskTypes ==
  ASSUME BlockTypeOK, NEW w \in Callers, NEW p, Ask(w, p), PatchType(p),
         UNCHANGED <<capture, lock, seen, faults, overran, raced>>,
         \/ UNCHANGED <<work, job>>
         \/ /\ w \in Workers /\ capture.av \in Files
            /\ \E next \in {"settle", "charge"} : work' = [work EXCEPT ![w] = next]
            /\ job' = [job EXCEPT ![w] = [of |-> capture.av, attempts |-> capture.attempts]]
  PROVE  BlockTypeOK'
<1>1. merging' \in [Callers -> {"idle", "ask", "write", "done", "failed"}]
  BY DEF BlockTypeOK, Ask
<1>2. \A x \in Callers : merging'[x] = "write" => seen'[x] \in Captures
  BY DEF BlockTypeOK, Ask
<1>3. DOMAIN patch' = Callers /\ \A x \in Callers : PatchType(patch'[x])
  BY DEF BlockTypeOK, Ask, PatchType
<1>4. CASE UNCHANGED <<work, job>>
  BY <1>1, <1>2, <1>3, <1>4 DEF BlockTypeOK, PatchType
<1>5. CASE ~UNCHANGED <<work, job>>
  <2>1. capture.attempts \in 0 .. MaxAttempts
    BY DEF BlockTypeOK, Captures, Values
  <2>2. /\ work' \in [Workers -> {"idle", "settle", "charge"}]
        /\ DOMAIN job' = Workers
        /\ \A x \in Workers :
             IF work'[x] = "idle" THEN job'[x] = None
             ELSE job'[x] \in [of : Files, attempts : 0 .. MaxAttempts]
    BY <1>5, <2>1 DEF BlockTypeOK
  <2> QED
    BY <1>1, <1>2, <1>3, <2>2 DEF BlockTypeOK, PatchType
<1> QED
  BY <1>4, <1>5

LEMMA CallerTypes ==
  ASSUME BlockTypeOK,
         \/ \E f \in Files : LinkFileToSession(f)
         \/ \E m \in Manifests : ApplySessionManifest(m)
         \/ \E o \in Overrides : OverrideRedaction(o)
  PROVE  BlockTypeOK'
<1> USE CaptureAssumption
<1>1. ASSUME NEW f \in Files, LinkFileToSession(f) PROVE BlockTypeOK'
  <2>1. PatchType(LinkPatch(f))
    BY DEF PatchType, LinkPatch, Values
  <2> QED
    BY <1>1, <2>1, AskTypes DEF LinkFileToSession, Callers
<1>2. ASSUME NEW m \in Manifests, ApplySessionManifest(m) PROVE BlockTypeOK'
  <2>1. \A s \in SegKinds : PatchType([segments |-> s])
    BY DEF PatchType, Values
  <2> QED
    BY <1>2, <2>1, AskTypes DEF ApplySessionManifest, Callers
<1>3. ASSUME NEW o \in Overrides, OverrideRedaction(o) PROVE BlockTypeOK'
  <2> DEFINE retry == [status |-> "pending", attempts |-> 0, since |-> TRUE]
              attest == [status |-> "pending", attempts |-> 0, since |-> TRUE,
                         attested |-> TRUE]
  <2>2. retry \in [status : {"pending"}, attempts : {0}, since : BOOLEAN]
    BY Zenon, TrueIsBoolean
  <2>3. attest \in [status : {"pending"}, attempts : {0}, since : BOOLEAN,
                   attested : BOOLEAN]
    BY Zenon, TrueIsBoolean
  <2>4. PatchType(retry) /\ PatchType(attest)
    BY <2>2, <2>3, RetryTypes
  <2>5. Ask(o, retry) \/ Ask(o, attest)
    BY <1>3 DEF OverrideRedaction
  <2> QED
    BY <1>3, <2>4, <2>5, AskTypes DEF OverrideRedaction, Callers
<1> QED
  BY <1>1, <1>2, <1>3

LEMMA WorkerTypes ==
  ASSUME BlockTypeOK, NEW w \in Workers, WorkerStep(w)
  PROVE  BlockTypeOK'
<1>1. ASSUME NEW next \in {"settle", "charge"}, NEW p, Redact(w, next, p),
             capture.av \in Files => PatchType(p)
      PROVE  BlockTypeOK'
  <2>1. capture.av \in Files
    BY <1>1 DEF Redact, BlockTypeOK, Captures, Values
  <2>2. w \in Callers
    BY DEF Callers
  <2> QED
    BY <1>1, <2>1, <2>2, AskTypes DEF Redact
<1>2. CASE TrackHold(w)
  <2>1. PatchType([status |-> "awaiting"])
    BY DEF PatchType, Values
  <2> QED
    BY <1>1, <1>2, <2>1, SinceTypes DEF TrackHold
<1>3. CASE CompleteUnpublished(w)
  <2>1. PatchType([status |-> "complete"])
    BY DEF PatchType, Values
  <2> QED
    BY <1>1, <1>3, <2>1 DEF CompleteUnpublished
<1>4. CASE PublishVerified(w)
  <2>1. \A f \in Files, v \in {"all", "some"} :
          PatchType([public |-> [of |-> f, shows |-> v], status |-> "complete"])
    BY DEF PatchType, Values, Variants
  <2> QED
    BY <1>1, <1>4, <2>1 DEF PublishVerified
<1>5. CASE AttemptFails(w)
  <2>1. PatchType(Charge(capture))
    BY ChargeTypes DEF BlockTypeOK, Captures, Values
  <2> QED
    BY <1>1, <1>5, <2>1 DEF AttemptFails
<1> QED
  BY <1>2, <1>3, <1>4, <1>5 DEF WorkerStep

LEMMA OtherTypes ==
  ASSUME BlockTypeOK, LockExpires \/ Restart \/ UNCHANGED captureVars
  PROVE  BlockTypeOK'
<1> USE CaptureAssumption DEF BlockTypeOK
<1>1. CASE LockExpires
  <2>1. overran' \in BOOLEAN
    BY Zenon, <1>1, TrueIsBoolean DEF LockExpires
  <2>2. faults' \in 0 .. MaxFaults /\ lock' = None
    BY <1>1 DEF LockExpires
  <2> QED
    BY <1>1, <2>1, <2>2 DEF LockExpires
<1>2. CASE Restart
  <2>1. overran' \in BOOLEAN
    BY Zenon, <1>2, TrueIsBoolean DEF Restart
  <2>2. merging' \in [Callers -> {"idle", "ask", "write", "done", "failed"}]
        /\ \A w \in Callers : merging'[w] # "write"
    BY <1>2 DEF Restart
  <2>3. /\ DOMAIN patch' = Callers
        /\ \A w \in Callers : DOMAIN patch'[w] = {}
        /\ seen' \in [Callers -> Captures \cup {None}]
        /\ work' \in [Workers -> {"idle", "settle", "charge"}]
        /\ DOMAIN job' = Workers /\ \A w \in Workers : work'[w] = "idle" /\ job'[w] = None
        /\ faults' \in 0 .. MaxFaults
    BY <1>2 DEF Restart, NoPatch
  <2> QED
    BY <1>2, <2>1, <2>2, <2>3 DEF Restart
<1>3. CASE UNCHANGED captureVars
  BY <1>3 DEF captureVars
<1> QED
  BY <1>1, <1>2, <1>3

LEMMA CaptureInitInv == Init => CaptureInv
<1> SUFFICES ASSUME Init PROVE BlockTypeOK
  BY UploadInitTypes, MergeInitInv DEF CaptureInv, TypeOK, BlockTypeOK
<1>1. capture \in Captures
  <2>1. capture.attested \in BOOLEAN /\ capture.since \in BOOLEAN
    BY Zenon, TrueIsBoolean DEF Init
  <2> QED
    BY <2>1, CaptureAssumption DEF Init, Captures, Values
<1>2. overran \in BOOLEAN /\ raced \in BOOLEAN
  BY Zenon, TrueIsBoolean DEF Init
<1>3. DOMAIN NoPatch = {}
  BY DEF NoPatch
<1> QED
  BY <1>1, <1>2, <1>3, CaptureAssumption DEF Init, BlockTypeOK

LEMMA CaptureNextInv == CaptureInv /\ [Next]_vars => CaptureInv'
<1> SUFFICES ASSUME UploadTypeOK, UploadInv, StoredIsWhole, MergeInv, BlockTypeOK,
                    [Next]_vars
             PROVE  BlockTypeOK'
  BY UploadNextTypes, MergeNextInv DEF CaptureInv, TypeOK, BlockTypeOK
<1> QED
  BY MergeStepTypes, CallerTypes, WorkerTypes, OtherTypes DEF Next, vars, MergeInv

\* The types of uploads, block, callers and workers, and what ties them together
\* (upload-processor.ts, record-manager.ts, redaction-worker.ts).
THEOREM CaptureInvariant == Spec => []CaptureInv
BY CaptureInitInv, CaptureNextInv, PTL DEF Spec

\* A recording that is stored is the declared one, unless another finalize call
\* was at the same combined file (upload-processor.ts, FA-BB-012, FA-BB-007).
THEOREM StoredRecordingsAreWhole == Spec => []StoredIsWhole
<1>1. CaptureInv => StoredIsWhole
  BY DEF CaptureInv
<1> QED
  BY <1>1, CaptureInvariant, PTL

=============================================================================
