----------------------------- MODULE RecordSagas -----------------------------
(***************************************************************************)
(* What the create, update, publish and archive sagas of core/src/saga do  *)
(* to a record: its row, its draft row, its markdown file, git's index and *)
(* HEAD.  The engine is reduced to what SagaExecutor shows of it: steps in *)
(* order, a failing step (thrown or timed out) starts the compensation of  *)
(* the steps before it in reverse, a step that timed out may still write.  *)
(* The lock table keeps the sagas of one record apart; sagas of different  *)
(* records interleave and share one git index.                             *)
(*                                                                         *)
(* A version is the whole content of a record; None is no row or no file.  *)
(***************************************************************************)
EXTENDS Naturals, Sequences

CONSTANTS
  Records,   \* record ids
  Versions,  \* contents
  None,      \* no row, no draft, no file
  MaxOps     \* bound: sagas started and drafts saved, all records together

ASSUME RecordAssumption == None \notin Versions /\ MaxOps \in Nat

Content == Versions \cup {None}
\* The file under records/<type>/<year>/ (the path of the row, which archiving
\* does not change) and the one under archive/.
Paths == {"live", "archive"}
Ops == {"create", "update", "publish", "archive"}

VARIABLES
  db,        \* the records table: content of the row
  archived,  \* the row's status is 'archived'
  draft,     \* the record_drafts table
  file,      \* the working tree
  index,     \* .git/index
  head,      \* the tree of HEAD
  mode,      \* idle, going forward, or compensating
  op,        \* the saga of the record, the last one when idle
  at,        \* the step it is at
  new,       \* the content it writes
  orig,      \* context.originalRecord
  origArch,  \* context.originalRecord.status is 'archived'
  existed,   \* context.recordExisted
  backup,    \* context.deletedDraftBackup
  committed, \* context.commitHash is set
  verdict,   \* how the last saga of the record ended
  silent,    \* history: something it left behind went unreported
  strayed,   \* history: a step of the record has timed out, ever
  late,      \* the step still running after its timeout
  before,    \* history: the record when the saga started
  ops        \* operations so far

dataVars == <<db, archived, draft, file, index, head>>
ctxVars == <<op, new, orig, origArch, existed, backup, committed>>
histVars == <<silent, strayed, before, ops>>
vars == <<dataVars, ctxVars, histVars, mode, at, verdict, late>>

Trees == [Records -> [Paths -> Content]]
NoLate == [step |-> "none", op |-> "create", new |-> None]

TypeOK ==
  /\ db \in [Records -> Content]
  /\ archived \in [Records -> BOOLEAN]
  /\ draft \in [Records -> Content]
  /\ file \in Trees /\ index \in Trees /\ head \in Trees
  /\ mode \in [Records -> {"idle", "forward", "back"}]
  /\ op \in [Records -> Ops]
  /\ at \in [Records -> 0 .. 6]
  /\ new \in [Records -> Content]
  /\ orig \in [Records -> Content]
  /\ origArch \in [Records -> BOOLEAN]
  /\ existed \in [Records -> BOOLEAN]
  /\ backup \in [Records -> Content]
  /\ committed \in [Records -> BOOLEAN]
  /\ verdict \in [Records -> {"none", "ok", "rolledBack", "stuck"}]
  /\ silent \in [Records -> BOOLEAN]
  /\ strayed \in [Records -> BOOLEAN]
  /\ ops \in 0 .. MaxOps

EmptyTree == [r \in Records |-> [p \in Paths |-> None]]

Snapshot(r) == [db |-> db[r], archived |-> archived[r], draft |-> draft[r],
                file |-> file[r], head |-> head[r]]

Init ==
  /\ db = [r \in Records |-> None]
  /\ archived = [r \in Records |-> FALSE]
  /\ draft = [r \in Records |-> None]
  /\ file = EmptyTree /\ index = EmptyTree /\ head = EmptyTree
  /\ mode = [r \in Records |-> "idle"]
  /\ op = [r \in Records |-> "create"]
  /\ at = [r \in Records |-> 0]
  /\ new = [r \in Records |-> None]
  /\ orig = [r \in Records |-> None]
  /\ origArch = [r \in Records |-> FALSE]
  /\ existed = [r \in Records |-> FALSE]
  /\ backup = [r \in Records |-> None]
  /\ committed = [r \in Records |-> FALSE]
  /\ verdict = [r \in Records |-> "none"]
  /\ silent = [r \in Records |-> FALSE]
  /\ strayed = [r \in Records |-> FALSE]
  /\ late = [r \in Records |-> NoLate]
  /\ before = [r \in Records |-> Snapshot(r)]
  /\ ops = 0

-----------------------------------------------------------------------------
(* The sagas.                                                              *)

\* Mutant: the draft is deleted before the commit.
StepsOfDraftFirst(o) ==
  CASE o = "update"  -> <<"row", "file", "commit", "hooks">>
    [] o = "publish" -> <<"row", "file", "draft", "commit", "index", "hooks">>
    [] OTHER         -> <<"row", "file", "commit", "index", "hooks">>

\* saga.steps.
StepsOf(o) ==
  CASE o = "update"  -> <<"row", "file", "commit", "hooks">>
    [] o = "publish" -> <<"row", "file", "commit", "draft", "index", "hooks">>
    [] OTHER         -> <<"row", "file", "commit", "index", "hooks">>

StepCount(o) == Len(StepsOf(o))

Step(r) == StepsOf(op[r])[at[r]]

\* getRecord: the file at the row's path, else the row.
Current(r) == IF file[r]["live"] # None THEN file[r]["live"] ELSE db[r]

\* The status getRecord reports: a live file beside an archived row may carry
\* either status in its frontmatter, which is not modelled.
CurrentArchived(r) ==
  IF archived[r] /\ file[r]["live"] # None THEN BOOLEAN ELSE {archived[r]}

\* Mutant: only the new archive path is staged (FA-CORE-010).
StagedPathsNewOnly(o) == IF o = "archive" THEN {"archive"} ELSE {"live"}

\* The files handed to git.commit.
StagedPaths(o) == IF o = "archive" THEN Paths ELSE {"live"}

\* git add fails on a path that neither the working tree nor the index knows.
Addable(r, o) ==
  \A p \in StagedPaths(o) : file[r][p] # None \/ index[r][p] # None

Added(r, o) ==
  [index EXCEPT ![r] = [p \in Paths |->
     IF p \in StagedPaths(o) THEN file[r][p] ELSE index[r][p]]]

\* A saga of the record starts; the lock table admits one at a time.
StartSaga(r, o, v) ==
  /\ mode[r] = "idle"
  /\ ops < MaxOps
  /\ ops' = ops + 1
  /\ mode' = [mode EXCEPT ![r] = "forward"]
  /\ op' = [op EXCEPT ![r] = o]
  /\ at' = [at EXCEPT ![r] = 1]
  /\ new' = [new EXCEPT ![r] = v]
  /\ orig' = [orig EXCEPT ![r] = None]
  /\ origArch' = [origArch EXCEPT ![r] = FALSE]
  /\ existed' = [existed EXCEPT ![r] = FALSE]
  /\ backup' = [backup EXCEPT ![r] = None]
  /\ committed' = [committed EXCEPT ![r] = FALSE]
  /\ silent' = [silent EXCEPT ![r] = FALSE]
  /\ before' = [before EXCEPT ![r] = Snapshot(r)]
  /\ UNCHANGED <<dataVars, strayed, verdict, late>>

\* createDraft and updateDraft take no saga lock.
SaveDraft(r, v) ==
  /\ ops < MaxOps
  /\ ops' = ops + 1
  /\ draft' = [draft EXCEPT ![r] = v]
  /\ UNCHANGED <<db, archived, file, index, head, ctxVars, silent, strayed,
                 before, mode, at, verdict, late>>

\* The step is done; the next one, or the end.
Advance(r) ==
  IF at[r] < StepCount(op[r])
    THEN /\ at' = [at EXCEPT ![r] = @ + 1]
         /\ UNCHANGED <<mode, verdict>>
    ELSE /\ at' = [at EXCEPT ![r] = 0]
         /\ mode' = [mode EXCEPT ![r] = "idle"]
         /\ verdict' = [verdict EXCEPT ![r] = "ok"]

Doing(r, O, step) == mode[r] = "forward" /\ op[r] \in O /\ Step(r) = step

-----------------------------------------------------------------------------
(* The first steps: the row.                                               *)

\* What the first step of a saga requires: no row, the draft, or the row.
RowReady(r, o) ==
  CASE o = "create"  -> db[r] = None
    [] o = "publish" -> draft[r] # None
    [] OTHER         -> db[r] # None

PutRow(r, o, v) ==
  /\ db' = IF o = "archive" THEN db ELSE [db EXCEPT ![r] = v]
  /\ archived' = [archived EXCEPT ![r] =
       CASE o = "archive" -> TRUE [] o = "update" -> @ [] OTHER -> FALSE]

CreateInRecords(r) ==
  /\ Doing(r, {"create"}, "row") /\ RowReady(r, "create")
  /\ PutRow(r, "create", new[r])
  /\ Advance(r)
  /\ UNCHANGED <<draft, file, index, head, ctxVars, histVars, late>>

UpdateInRecords(r) ==
  /\ Doing(r, {"update"}, "row") /\ RowReady(r, "update")
  /\ orig' = [orig EXCEPT ![r] = Current(r)]
  /\ PutRow(r, "update", new[r])
  /\ Advance(r)
  /\ UNCHANGED <<draft, file, index, head, op, new, origArch, existed, backup,
                 committed, histVars, late>>

\* The draft becomes the row, a new one or over the old one.
MoveToRecords(r) ==
  /\ Doing(r, {"publish"}, "row") /\ RowReady(r, "publish")
  /\ new' = [new EXCEPT ![r] = draft[r]]
  /\ existed' = [existed EXCEPT ![r] = db[r] # None]
  /\ PutRow(r, "publish", draft[r])
  /\ Advance(r)
  /\ UNCHANGED <<draft, file, index, head, op, orig, origArch, backup, committed,
                 histVars, late>>

UpdateStatusToArchived(r) ==
  /\ Doing(r, {"archive"}, "row") /\ RowReady(r, "archive")
  /\ orig' = [orig EXCEPT ![r] = Current(r)]
  /\ origArch' \in {[origArch EXCEPT ![r] = x] : x \in CurrentArchived(r)}
  /\ PutRow(r, "archive", None)
  /\ Advance(r)
  /\ UNCHANGED <<draft, file, index, head, op, new, existed, backup, committed,
                 histVars, late>>

-----------------------------------------------------------------------------
(* The second steps: the file.                                             *)

PutFile(r, o, v) ==
  file' = [file EXCEPT ![r] =
    IF o = "archive" THEN [live |-> None, archive |-> @["live"]]
                     ELSE [@ EXCEPT !["live"] = v]]

\* fs.writeFile of the markdown that the row step left in the context.
WriteFile(r) ==
  /\ PutFile(r, op[r], new[r])
  /\ Advance(r)
  /\ UNCHANGED <<db, archived, draft, index, head, ctxVars, histVars, late>>

CreateFile(r) == Doing(r, {"create"}, "file") /\ WriteFile(r)

UpdateFile(r) == Doing(r, {"update"}, "file") /\ WriteFile(r)

CreateOrUpdateFile(r) == Doing(r, {"publish"}, "file") /\ WriteFile(r)

\* fs.rename, which throws without a source.
MoveFileToArchive(r) ==
  /\ Doing(r, {"archive"}, "file")
  /\ file[r]["live"] # None
  /\ PutFile(r, "archive", None)
  /\ Advance(r)
  /\ UNCHANGED <<db, archived, draft, index, head, ctxVars, histVars, late>>

-----------------------------------------------------------------------------
(* The commit and what follows it.                                         *)

\* GitEngine.commit: add the saga's paths, then commit the whole index, in one
\* turn of the mutation chain.
CommitToGit(r) ==
  /\ Doing(r, Ops, "commit")
  /\ Addable(r, op[r])
  /\ index' = Added(r, op[r])
  /\ head' = index'
  /\ committed' = [committed EXCEPT ![r] = TRUE]
  /\ Advance(r)
  /\ UNCHANGED <<db, archived, draft, file, op, new, orig, origArch, existed,
                 backup, histVars, late>>

\* DeleteDraft: snapshot, then delete.
DeleteDraft(r) ==
  /\ Doing(r, {"publish"}, "draft")
  /\ backup' = [backup EXCEPT ![r] = draft[r]]
  /\ draft' = [draft EXCEPT ![r] = None]
  /\ Advance(r)
  /\ UNCHANGED <<db, archived, file, index, head, op, new, orig, origArch, existed,
                 committed, histVars, late>>

\* QueueIndexing and RemoveFromIndex write nothing that is modelled and swallow
\* their errors.
QueueIndexing(r) ==
  /\ Doing(r, Ops, "index")
  /\ Advance(r)
  /\ UNCHANGED <<dataVars, ctxVars, histVars, late>>

\* EmitHooks swallows the errors of the hook handlers it awaits.
EmitHooks(r) ==
  /\ Doing(r, Ops, "hooks")
  /\ Advance(r)
  /\ UNCHANGED <<dataVars, ctxVars, histVars, late>>

-----------------------------------------------------------------------------
(* Failures.                                                               *)

\* Mutant: compensate's loop index is one too low.
StartBackTooLow(r) ==
  /\ mode' = [mode EXCEPT ![r] = "back"]
  /\ at' = [at EXCEPT ![r] = @ - 2]
  /\ verdict' = [verdict EXCEPT ![r] = "rolledBack"]

\* SagaStepError: the steps before the failed one are compensated.
StartBack(r) ==
  /\ mode' = [mode EXCEPT ![r] = "back"]
  /\ at' = [at EXCEPT ![r] = @ - 1]
  /\ verdict' = [verdict EXCEPT ![r] = "rolledBack"]

\* The step throws: nothing written, or (git commit after git add) staged.
StepThrows(r) ==
  /\ mode[r] = "forward" /\ Step(r) \notin {"index", "hooks"}
  /\ \/ UNCHANGED index
     \/ Step(r) = "commit" /\ Addable(r, op[r]) /\ index' = Added(r, op[r])
  /\ StartBack(r)
  /\ UNCHANGED <<db, archived, draft, file, head, ctxVars, histVars, late>>

\* The row is written and the step throws all the same: archive reads it back,
\* publish of a new record emits record:created.  Nobody compensates the step.
RowStepThrowsLate(r) ==
  /\ Doing(r, {"publish", "archive"}, "row") /\ RowReady(r, op[r])
  /\ op[r] = "publish" => db[r] = None
  /\ PutRow(r, op[r], draft[r])
  /\ silent' = [silent EXCEPT ![r] = TRUE]
  /\ StartBack(r)
  /\ UNCHANGED <<draft, file, index, head, ctxVars, strayed, before, ops, late>>

\* The step's timer fires first and the step runs on.
StepTimesOut(r) ==
  /\ mode[r] = "forward" /\ late[r] = NoLate
  /\ late' = [late EXCEPT ![r] = [step |-> Step(r), op |-> op[r], new |-> new[r]]]
  /\ strayed' = [strayed EXCEPT ![r] = TRUE]
  /\ StartBack(r)
  /\ UNCHANGED <<dataVars, ctxVars, silent, before, ops>>

\* The straggler's write, whatever the record looks like by now.
LateWrite(r) ==
  /\ late[r] # NoLate
  /\ LET o == late[r].op
         s == late[r].step
     IN  \/ /\ s = "row" /\ RowReady(r, o)
            /\ PutRow(r, o, IF o = "publish" THEN draft[r] ELSE late[r].new)
            /\ UNCHANGED <<draft, file, index, head>>
         \/ /\ s = "file" /\ (o = "archive" => file[r]["live"] # None)
            /\ PutFile(r, o, late[r].new)
            /\ UNCHANGED <<db, archived, draft, index, head>>
         \/ /\ s = "commit" /\ Addable(r, o)
            /\ index' = Added(r, o)
            /\ head' = index'
            /\ UNCHANGED <<db, archived, draft, file>>
         \/ /\ s = "draft"
            /\ draft' = [draft EXCEPT ![r] = None]
            /\ UNCHANGED <<db, archived, file, index, head>>
  /\ late' = [late EXCEPT ![r] = NoLate]
  /\ UNCHANGED <<ctxVars, histVars, mode, at, verdict>>

\* The straggler fails or had nothing to write.
LateNothing(r) ==
  /\ late[r] # NoLate
  /\ late' = [late EXCEPT ![r] = NoLate]
  /\ UNCHANGED <<dataVars, ctxVars, histVars, mode, at, verdict>>

-----------------------------------------------------------------------------
(* Compensation.                                                           *)

Undoing(r, O, step) ==
  mode[r] = "back" /\ at[r] > 0 /\ op[r] \in O /\ Step(r) = step

StepBack(r) ==
  /\ at' = [at EXCEPT ![r] = @ - 1]
  /\ UNCHANGED <<ctxVars, strayed, before, ops, mode, late>>

\* compensate of a row step: the row is restored, or it throws and the saga
\* needs an operator.
RestoreRow(r, v, a) ==
  /\ \/ /\ db' = [db EXCEPT ![r] = v]
        /\ archived' = [archived EXCEPT ![r] = a]
        /\ UNCHANGED verdict
     \/ /\ verdict' = [verdict EXCEPT ![r] = "stuck"]
        /\ UNCHANGED <<db, archived>>
  /\ StepBack(r)
  /\ UNCHANGED <<draft, file, index, head, silent>>

UndoCreateInRecords(r) ==
  Undoing(r, {"create"}, "row") /\ RestoreRow(r, None, archived[r])

UndoUpdateInRecords(r) ==
  Undoing(r, {"update"}, "row") /\ RestoreRow(r, orig[r], archived[r])

\* A row that publish has overwritten is left as it is.
UndoMoveToRecords(r) ==
  /\ Undoing(r, {"publish"}, "row")
  /\ IF existed[r] THEN StepBack(r) /\ UNCHANGED <<dataVars, silent, verdict>>
                   ELSE RestoreRow(r, None, archived[r])

UndoUpdateStatusToArchived(r) ==
  Undoing(r, {"archive"}, "row") /\ RestoreRow(r, db[r], origArch[r])

\* compensate of a file step: errors are logged, not thrown, and the saga
\* counts the step as compensated.
RestoreFile(r, f) ==
  /\ \/ /\ file' = [file EXCEPT ![r] = f]
        /\ UNCHANGED silent
     \/ /\ silent' = [silent EXCEPT ![r] = TRUE]
        /\ UNCHANGED file
  /\ StepBack(r)
  /\ UNCHANGED <<db, archived, draft, index, head, verdict>>

UndoCreateFile(r) ==
  /\ Undoing(r, {"create"}, "file")
  /\ RestoreFile(r, [file[r] EXCEPT !["live"] = None])

UndoUpdateFile(r) ==
  /\ Undoing(r, {"update"}, "file")
  /\ RestoreFile(r, [file[r] EXCEPT !["live"] = orig[r]])

\* Deletes the file, also one that was there before.
UndoCreateOrUpdateFile(r) ==
  /\ Undoing(r, {"publish"}, "file")
  /\ RestoreFile(r, [file[r] EXCEPT !["live"] = None])

\* Mutant: the archived copy is dropped, the original not put back.
UndoMoveFileToArchiveByUnlink(r) ==
  /\ Undoing(r, {"archive"}, "file")
  /\ RestoreFile(r, [file[r] EXCEPT !["archive"] = None])

\* Renames back; a missing source is no error.
UndoMoveFileToArchive(r) ==
  /\ Undoing(r, {"archive"}, "file")
  /\ RestoreFile(r, IF file[r]["archive"] = None THEN file[r]
                    ELSE [live |-> file[r]["archive"], archive |-> None])

\* createDraft from the snapshot; an INSERT over a newer draft fails silently.
UndoDeleteDraft(r) ==
  /\ Undoing(r, {"publish"}, "draft")
  /\ \/ /\ draft' = [draft EXCEPT ![r] = IF @ = None THEN backup[r] ELSE @]
        /\ UNCHANGED silent
     \/ /\ silent' = [silent EXCEPT ![r] = TRUE]
        /\ UNCHANGED draft
  /\ StepBack(r)
  /\ UNCHANGED <<db, archived, file, index, head, verdict>>

\* isCompensatable is false for commits and indexing: skipped.
SkipStep(r) ==
  /\ mode[r] = "back" /\ at[r] > 0 /\ Step(r) \in {"commit", "index"}
  /\ StepBack(r)
  /\ UNCHANGED <<dataVars, silent, verdict>>

EndBack(r) ==
  /\ mode[r] = "back" /\ at[r] = 0
  /\ mode' = [mode EXCEPT ![r] = "idle"]
  /\ UNCHANGED <<dataVars, ctxVars, histVars, at, verdict, late>>

-----------------------------------------------------------------------------
Forward(r) ==
  \/ CreateInRecords(r) \/ UpdateInRecords(r) \/ MoveToRecords(r)
  \/ UpdateStatusToArchived(r) \/ CreateFile(r) \/ UpdateFile(r)
  \/ CreateOrUpdateFile(r) \/ MoveFileToArchive(r)
  \/ CommitToGit(r) \/ DeleteDraft(r) \/ QueueIndexing(r) \/ EmitHooks(r)

Fail(r) ==
  \/ StepThrows(r) \/ RowStepThrowsLate(r) \/ StepTimesOut(r)
  \/ LateWrite(r) \/ LateNothing(r)

Back(r) ==
  \/ UndoCreateInRecords(r) \/ UndoUpdateInRecords(r) \/ UndoMoveToRecords(r)
  \/ UndoUpdateStatusToArchived(r) \/ UndoCreateFile(r) \/ UndoUpdateFile(r)
  \/ UndoCreateOrUpdateFile(r) \/ UndoMoveFileToArchive(r)
  \/ UndoDeleteDraft(r) \/ SkipStep(r) \/ EndBack(r)

Next ==
  \E r \in Records :
    \/ \E v \in Versions : \/ StartSaga(r, "create", v)
                           \/ StartSaga(r, "update", v)
                           \/ SaveDraft(r, v)
    \/ StartSaga(r, "publish", None)
    \/ StartSaga(r, "archive", None)
    \/ Forward(r)
    \/ Fail(r)
    \/ Back(r)

Spec == Init /\ [][Next]_vars

-----------------------------------------------------------------------------
(* Properties.                                                             *)

Settled(r) == mode[r] = "idle" /\ ~strayed[r]

\* When a saga reports success and no step of the record ever timed out, the
\* row, the working tree and HEAD tell the same story: the live file is the
\* row's content, or, after archiving, only the archived file is left.
SuccessAgrees ==
  \A r \in Records : Settled(r) /\ verdict[r] = "ok" =>
    /\ head[r]["live"] = file[r]["live"]
    /\ IF op[r] = "archive"
         THEN file[r]["live"] = None /\ file[r]["archive"] # None
              /\ head[r]["archive"] = file[r]["archive"] /\ archived[r]
         ELSE file[r]["live"] = db[r] /\ db[r] = new[r]

\* The row and the live file said the same when the saga started.
InStep(b) == b.db = b.file["live"]

\* A saga that failed and compensated without an error leaves row, draft and
\* files as they were, if they were in step and nothing was left unreported (a
\* file undo that failed, a row step that wrote and then threw).
\* Publishing over an existing row is the exception (FailureKeepsFile).
RollbackRestores ==
  \A r \in Records :
    /\ Settled(r) /\ verdict[r] = "rolledBack" /\ ~silent[r]
    /\ InStep(before[r])
    /\ ~(op[r] = "publish" /\ existed[r])
    => /\ db[r] = before[r].db
       /\ archived[r] => before[r].archived
       /\ file[r]["live"] = before[r].file["live"]

\* The text of a draft is never in nobody's hands: what publish read is in
\* HEAD when it deletes the draft, unless a straggler rewrote the file.
DraftOutlivesCommit ==
  [][\A r \in Records :
       DeleteDraft(r) /\ draft[r] = new[r] /\ ~strayed[r] => head[r]["live"] = draft[r]]_vars

-----------------------------------------------------------------------------
(* What the repository says and the code does not keep.                    *)

\* docs/specs/saga-pattern.md:88, a failed commit: "Operation fails, previous
\* state remains": the file of a published record survives it.
FailureKeepsFile ==
  \A r \in Records :
    /\ Settled(r) /\ verdict[r] = "rolledBack" /\ ~silent[r] /\ ~committed[r]
    /\ InStep(before[r])
    => file[r]["live"] = before[r].file["live"]
-----------------------------------------------------------------------------
(* The inductive invariant: what each saga has done to its record by the    *)
(* step it is at, and what its compensation still has to take back.         *)

\* The engine's position is a step of the saga, and what it remembers of a
\* straggler and of the start is well formed.
PositionOK ==
  /\ late \in [Records -> [step : {"none", "row", "file", "commit", "draft", "index",
                                   "hooks"},
                           op : Ops, new : Content]]
  /\ before \in [Records -> [db : Content, archived : BOOLEAN, draft : Content,
                             file : [Paths -> Content], head : [Paths -> Content]]]
  /\ \A r \in Records :
       /\ mode[r] = "forward" => at[r] \in 1 .. StepCount(op[r])
       /\ mode[r] = "back" => at[r] \in 0 .. StepCount(op[r]) - 1

\* The row step of the saga has been done.
RowDone(r) ==
  /\ IF op[r] = "archive" THEN db[r] = before[r].db /\ archived[r]
                          ELSE db[r] = new[r]
  /\ op[r] = "create" => before[r].db = None
  /\ op[r] = "publish" => (existed[r] <=> before[r].db # None)
  /\ op[r] \in {"create", "publish"} => ~archived[r]
  /\ op[r] = "update" => archived[r] = before[r].archived
  /\ op[r] = "archive" => (origArch[r] => before[r].archived)
  /\ op[r] \in {"update", "archive"} =>
       orig[r] = IF before[r].file["live"] # None THEN before[r].file["live"]
                                                  ELSE before[r].db

\* The file step has been done.
FileDone(r) ==
  IF op[r] = "archive"
    THEN /\ before[r].file["live"] # None
         /\ file[r]["live"] = None
         /\ file[r]["archive"] = before[r].file["live"]
    ELSE file[r]["live"] = new[r]

\* What the commit step put into git is still there.  The index holds no more
\* of the record than HEAD, so the commit of another record changes neither.
CommitDone(r) ==
  /\ index[r] = head[r]
  /\ \A p \in StagedPaths(op[r]) : head[r][p] = file[r][p]

\* What compensation promises to restore (see RollbackRestores).
Restorable(r) ==
  /\ verdict[r] = "rolledBack" /\ ~silent[r]
  /\ InStep(before[r])
  /\ ~(op[r] = "publish" /\ existed[r])

FileBack(r) == file[r]["live"] = before[r].file["live"]

RowBack(r) == db[r] = before[r].db /\ (archived[r] => before[r].archived)

Progress(r) ==
  /\ late[r] = NoLate
  /\ mode[r] = "forward" =>
       /\ at[r] = 1 => db[r] = before[r].db /\ archived[r] = before[r].archived
       /\ at[r] <= 2 => file[r] = before[r].file
       /\ at[r] >= 2 => RowDone(r)
       /\ at[r] >= 3 => FileDone(r)
       /\ at[r] >= 4 => CommitDone(r)
  /\ mode[r] = "idle" /\ verdict[r] = "ok" =>
       RowDone(r) /\ FileDone(r) /\ CommitDone(r)
  /\ mode[r] = "back" => verdict[r] # "ok"
  /\ mode[r] = "back" /\ Restorable(r) =>
       /\ at[r] >= 1 => RowDone(r)
       /\ at[r] >= 2 => FileDone(r)
       /\ at[r] <= 1 => FileBack(r)
       /\ at[r] = 0 => RowBack(r)
  /\ mode[r] = "idle" /\ Restorable(r) => FileBack(r) /\ RowBack(r)

RecordInv ==
  /\ TypeOK
  /\ PositionOK
  /\ \A r \in Records : ~strayed[r] => Progress(r)
=============================================================================
