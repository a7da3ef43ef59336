-------------------------- MODULE RecordSagasProofs --------------------------
(***************************************************************************)
(* What the four sagas do to a record, for any records and contents and    *)
(* any number of sagas: success means that row, file and HEAD agree, a     *)
(* clean rollback restores what was there.                                 *)
(***************************************************************************)
EXTENDS RecordSagas, TLAPS

\* Where the steps of a saga are.
LEMMA StepPlaces ==
  ASSUME NEW o \in Ops
  PROVE  /\ StepCount(o) \in 4 .. 6
         /\ \A i \in 1 .. StepCount(o) :
              /\ StepsOf(o)[i] = "row" <=> i = 1
              /\ StepsOf(o)[i] = "file" <=> i = 2
              /\ StepsOf(o)[i] = "commit" <=> i = 3
              /\ StepsOf(o)[i] = "draft" => o = "publish" /\ i = 4
              /\ StepsOf(o)[i] \in {"row", "file", "commit", "draft", "index", "hooks"}
<1>1. CASE o = "update"
  BY <1>1 DEF StepsOf, StepCount
<1>2. CASE o = "publish"
  BY <1>2 DEF StepsOf, StepCount
<1>3. CASE o \notin {"update", "publish"}
  BY <1>3 DEF StepsOf, StepCount
<1> QED
  BY <1>1, <1>2, <1>3

\* What git.commit is given stays inside the two trees.
LEMMA AddedTyped ==
  ASSUME TypeOK, NEW r \in Records, NEW o \in Ops
  PROVE  /\ Added(r, o) \in Trees
         /\ \A t \in Records : t # r => Added(r, o)[t] = index[t]
         /\ \A p \in Paths : Added(r, o)[r][p] =
                IF p \in StagedPaths(o) THEN file[r][p] ELSE index[r][p]
<1>1. /\ file \in [Records -> [Paths -> Content]]
      /\ index \in [Records -> [Paths -> Content]]
  BY DEF TypeOK, Trees
<1>2. [p \in Paths |-> IF p \in StagedPaths(o) THEN file[r][p] ELSE index[r][p]]
        \in [Paths -> Content]
  BY <1>1
<1> QED
  BY <1>1, <1>2 DEF Added, Trees

\* So does what a file step writes.
LEMMA PutFileTyped ==
  ASSUME TypeOK, NEW r \in Records, NEW o \in Ops, NEW v \in Content, PutFile(r, o, v)
  PROVE  /\ file' \in Trees
         /\ \A t \in Records : t # r => file'[t] = file[t]
         /\ o = "archive" => file'[r]["live"] = None /\ file'[r]["archive"] = file[r]["live"]
         /\ o # "archive" => file'[r]["live"] = v
<1>1. file \in [Records -> [Paths -> Content]]
  BY DEF TypeOK, Trees
<1>2. CASE o = "archive"
  <2>1. [live |-> None, archive |-> file[r]["live"]] \in [Paths -> Content]
    BY <1>1 DEF Paths, Content
  <2> QED
    BY <1>1, <1>2, <2>1 DEF PutFile, Trees
<1>3. CASE o # "archive"
  <2>1. [file[r] EXCEPT !["live"] = v] \in [Paths -> Content]
    BY <1>1 DEF Paths
  <2> QED
    BY <1>1, <1>3, <2>1 DEF PutFile, Trees, Paths
<1> QED
  BY <1>2, <1>3

\* The row step touches the row of its record only.
LEMMA PutRowTyped ==
  ASSUME TypeOK, NEW r \in Records, NEW o \in Ops, NEW v \in Content, PutRow(r, o, v)
  PROVE  /\ db' \in [Records -> Content] /\ archived' \in [Records -> BOOLEAN]
         /\ \A t \in Records : t # r => db'[t] = db[t] /\ archived'[t] = archived[t]
         /\ db'[r] = IF o = "archive" THEN db[r] ELSE v
         /\ o = "archive" => archived'[r]
         /\ o = "update" => archived'[r] = archived[r]
         /\ o \in {"create", "publish"} => ~archived'[r]
<1> USE DEF TypeOK
<1>1. CASE o = "archive"
  BY <1>1 DEF PutRow
<1>2. CASE o = "update"
  BY <1>2 DEF PutRow
<1>3. CASE o \in {"create", "publish"}
  BY <1>3 DEF PutRow
<1> QED
  BY <1>1, <1>2, <1>3 DEF Ops

\* The engine goes on to the next step of the saga, or the saga has succeeded.
LEMMA AdvanceTyped ==
  ASSUME TypeOK, PositionOK, NEW r \in Records, mode[r] = "forward", Advance(r)
  PROVE  /\ at' \in [Records -> 0 .. 6]
         /\ mode' \in [Records -> {"idle", "forward", "back"}]
         /\ verdict' \in [Records -> {"none", "ok", "rolledBack", "stuck"}]
         /\ \A t \in Records : t # r =>
              at'[t] = at[t] /\ mode'[t] = mode[t] /\ verdict'[t] = verdict[t]
         /\ \/ /\ mode'[r] = "forward" /\ at'[r] = at[r] + 1
               /\ at'[r] \in 1 .. StepCount(op[r])
            \/ /\ mode'[r] = "idle" /\ verdict'[r] = "ok"
               /\ at[r] = StepCount(op[r]) /\ at[r] >= 4
<1>1. op[r] \in Ops /\ at[r] \in 1 .. StepCount(op[r]) /\ at[r] \in Nat
  BY DEF TypeOK, PositionOK
<1>2. StepCount(op[r]) \in 4 .. 6
  BY <1>1, StepPlaces
<1>3. CASE at[r] < StepCount(op[r])
  <2>1. at' = [at EXCEPT ![r] = at[r] + 1] /\ mode' = mode /\ verdict' = verdict
    BY <1>3 DEF Advance
  <2>2. at[r] + 1 \in 1 .. StepCount(op[r]) /\ at[r] + 1 \in 0 .. 6
    BY <1>1, <1>2, <1>3
  <2>3. at'[r] = at[r] + 1 /\ at' \in [Records -> 0 .. 6]
        /\ \A t \in Records : t # r => at'[t] = at[t]
    BY <2>1, <2>2 DEF TypeOK
  <2> QED
    BY <2>1, <2>2, <2>3 DEF TypeOK
<1>4. CASE ~(at[r] < StepCount(op[r]))
  <2>1. /\ at' = [at EXCEPT ![r] = 0] /\ mode' = [mode EXCEPT ![r] = "idle"]
        /\ verdict' = [verdict EXCEPT ![r] = "ok"]
    BY <1>4 DEF Advance
  <2>2. at[r] = StepCount(op[r]) /\ at[r] >= 4
    BY <1>1, <1>2, <1>4
  <2>3. /\ at' \in [Records -> 0 .. 6]
        /\ mode' \in [Records -> {"idle", "forward", "back"}]
        /\ verdict' \in [Records -> {"none", "ok", "rolledBack", "stuck"}]
    BY <2>1 DEF TypeOK
  <2>4. /\ mode'[r] = "idle" /\ verdict'[r] = "ok"
        /\ \A t \in Records : t # r =>
             at'[t] = at[t] /\ mode'[t] = mode[t] /\ verdict'[t] = verdict[t]
    BY <2>1 DEF TypeOK
  <2> QED
    BY <2>2, <2>3, <2>4
<1> QED
  BY <1>3, <1>4

\* A failed step starts the compensation one step below itself.
LEMMA StartBackTyped ==
  ASSUME TypeOK, PositionOK, NEW r \in Records, mode[r] = "forward", StartBack(r)
  PROVE  /\ at' \in [Records -> 0 .. 6]
         /\ mode' \in [Records -> {"idle", "forward", "back"}]
         /\ verdict' \in [Records -> {"none", "ok", "rolledBack", "stuck"}]
         /\ \A t \in Records : t # r =>
              at'[t] = at[t] /\ mode'[t] = mode[t] /\ verdict'[t] = verdict[t]
         /\ mode'[r] = "back" /\ verdict'[r] = "rolledBack" /\ at'[r] = at[r] - 1
         /\ at'[r] \in 0 .. StepCount(op[r]) - 1
<1>1. op[r] \in Ops /\ at[r] \in 1 .. StepCount(op[r]) /\ at[r] \in 0 .. 6
  BY DEF TypeOK, PositionOK
<1>2. StepCount(op[r]) \in 4 .. 6
  BY <1>1, StepPlaces
<1> QED
  BY <1>1, <1>2 DEF TypeOK, StartBack

\* Each compensation takes the loop index down by one.
LEMMA StepBackTyped ==
  ASSUME TypeOK, PositionOK, NEW r \in Records, mode[r] = "back", at[r] > 0, StepBack(r)
  PROVE  /\ at' \in [Records -> 0 .. 6]
         /\ \A t \in Records : t # r => at'[t] = at[t]
         /\ at'[r] = at[r] - 1 /\ at'[r] \in 0 .. StepCount(op[r]) - 1
         /\ UNCHANGED <<ctxVars, strayed, before, ops, mode, late>>
<1>1. op[r] \in Ops /\ at[r] \in 0 .. StepCount(op[r]) - 1 /\ at[r] \in 0 .. 6
  BY DEF TypeOK, PositionOK
<1>2. StepCount(op[r]) \in 4 .. 6
  BY <1>1, StepPlaces
<1> QED
  BY <1>1, <1>2 DEF TypeOK, StepBack

\* Compensation of a row step: the row, or nothing and a saga for the operator.
LEMMA RestoreRowTyped ==
  ASSUME TypeOK, NEW r \in Records, NEW v \in Content, NEW x \in BOOLEAN,
         RestoreRow(r, v, x)
  PROVE  /\ db' \in [Records -> Content] /\ archived' \in [Records -> BOOLEAN]
         /\ verdict' \in [Records -> {"none", "ok", "rolledBack", "stuck"}]
         /\ \A t \in Records : t # r => /\ db'[t] = db[t] /\ archived'[t] = archived[t]
                                        /\ verdict'[t] = verdict[t]
         /\ \/ db'[r] = v /\ archived'[r] = x /\ verdict' = verdict
            \/ verdict'[r] = "stuck"
<1>1. CASE /\ db' = [db EXCEPT ![r] = v] /\ archived' = [archived EXCEPT ![r] = x]
           /\ verdict' = verdict
  BY <1>1 DEF TypeOK
<1>2. CASE verdict' = [verdict EXCEPT ![r] = "stuck"] /\ db' = db /\ archived' = archived
  BY <1>2 DEF TypeOK
<1> QED
  BY <1>1, <1>2 DEF RestoreRow

\* Compensation of a file step: the file, or nothing and not a word of it.
LEMMA RestoreFileTyped ==
  ASSUME TypeOK, NEW r \in Records, NEW f \in [Paths -> Content], RestoreFile(r, f)
  PROVE  /\ file' \in Trees /\ silent' \in [Records -> BOOLEAN]
         /\ \A t \in Records : t # r => file'[t] = file[t] /\ silent'[t] = silent[t]
         /\ \/ file'[r] = f /\ silent' = silent
            \/ silent'[r]
<1>1. CASE file' = [file EXCEPT ![r] = f] /\ silent' = silent
  BY <1>1 DEF TypeOK, Trees
<1>2. CASE silent' = [silent EXCEPT ![r] = TRUE] /\ file' = file
  BY <1>2 DEF TypeOK
<1> QED
  BY <1>1, <1>2 DEF RestoreFile

-----------------------------------------------------------------------------
(* Types.                                                                  *)

Typed == TypeOK /\ PositionOK

\* The empty repository is well typed.
LEMMA InitTyped == Init => Typed
<1> SUFFICES ASSUME Init PROVE Typed
  OBVIOUS
<1>1. TypeOK
  BY RecordAssumption DEF Init, TypeOK, EmptyTree, Trees, Content, Ops
<1>2. before \in [Records -> [db : Content, archived : BOOLEAN, draft : Content,
                             file : [Paths -> Content], head : [Paths -> Content]]]
  BY <1>1 DEF Init, Snapshot, TypeOK, Trees
<1>3. NoLate \in [step : {"none", "row", "file", "commit", "draft", "index", "hooks"},
                 op : Ops, new : Content]
  BY DEF NoLate, Ops, Content
<1>4. \A r \in Records : mode[r] = "idle"
  BY DEF Init
<1> QED
  BY <1>1, <1>2, <1>3, <1>4 DEF Typed, PositionOK, Init

\* Starting a saga, saving a draft.
LEMMA OutsideTyped ==
  ASSUME Typed, NEW r \in Records, NEW v \in Content,
         (\E o \in Ops : StartSaga(r, o, v)) \/ SaveDraft(r, v)
  PROVE  Typed'
<1> USE DEF Typed, TypeOK, PositionOK, dataVars, ctxVars
<1>1. ASSUME NEW o \in Ops, StartSaga(r, o, v) PROVE Typed'
  <2>1. before' \in [Records -> [db : Content, archived : BOOLEAN, draft : Content,
                                file : [Paths -> Content], head : [Paths -> Content]]]
    <3>1. Snapshot(r) \in [db : Content, archived : BOOLEAN, draft : Content,
                           file : [Paths -> Content], head : [Paths -> Content]]
      BY DEF Snapshot, Trees
    <3> QED
      BY <1>1, <3>1 DEF StartSaga
  <2>2. TypeOK'
    BY <1>1, RecordAssumption DEF StartSaga, Content
  <2>3. \A t \in Records : /\ mode'[t] = "forward" => at'[t] \in 1 .. StepCount(op'[t])
                           /\ mode'[t] = "back" => at'[t] \in 0 .. StepCount(op'[t]) - 1
    <3>1. 1 \in 1 .. StepCount(o)
      <4>1. StepCount(o) \in 4 .. 6
        BY <1>1, StepPlaces
      <4> QED
        BY <4>1
    <3>2. /\ mode'[r] = "forward" /\ at'[r] = 1 /\ op'[r] = o
          /\ \A t \in Records : t # r => /\ mode'[t] = mode[t] /\ at'[t] = at[t]
                                         /\ op'[t] = op[t]
      BY <1>1 DEF StartSaga
    <3> QED
      BY <3>1, <3>2
  <2>4. late' = late
    BY <1>1 DEF StartSaga
  <2> QED
    BY <2>1, <2>2, <2>3, <2>4
<1>2. CASE SaveDraft(r, v)
  BY <1>2, RecordAssumption DEF SaveDraft
<1> QED
  BY <1>1, <1>2

\* Forward steps.
LEMMA ForwardTyped ==
  ASSUME Typed, NEW r \in Records, Forward(r)
  PROVE  Typed'
<1> USE DEF dataVars, ctxVars, histVars, Typed
<1>f. ASSUME mode[r] = "forward", Advance(r), UNCHANGED <<op, late, before>>
      PROVE  /\ PositionOK'
             /\ at' \in [Records -> 0 .. 6]
             /\ mode' \in [Records -> {"idle", "forward", "back"}]
             /\ verdict' \in [Records -> {"none", "ok", "rolledBack", "stuck"}]
  BY <1>f, AdvanceTyped DEF PositionOK
<1>1. CASE CreateInRecords(r)
  <2>1. new[r] \in Content /\ "create" \in Ops
    BY DEF TypeOK, Ops
  <2> QED
    BY <1>1, <1>f, <2>1, PutRowTyped DEF CreateInRecords, Doing, TypeOK
<1>2. CASE UpdateInRecords(r)
  <2>1. new[r] \in Content /\ "update" \in Ops /\ Current(r) \in Content
    BY DEF TypeOK, Ops, Current, Trees, Paths
  <2> QED
    BY <1>2, <1>f, <2>1, PutRowTyped DEF UpdateInRecords, Doing, TypeOK
<1>3. CASE MoveToRecords(r)
  <2>1. draft[r] \in Content /\ "publish" \in Ops
    BY DEF TypeOK, Ops
  <2>2. existed' \in [Records -> BOOLEAN]
    BY <1>3 DEF MoveToRecords, TypeOK
  <2> QED
    BY <1>3, <1>f, <2>1, <2>2, PutRowTyped DEF MoveToRecords, Doing, TypeOK
<1>4. CASE UpdateStatusToArchived(r)
  <2>1. None \in Content /\ "archive" \in Ops /\ Current(r) \in Content
    BY DEF TypeOK, Ops, Current, Trees, Paths, Content
  <2>2. CurrentArchived(r) \subseteq BOOLEAN
    BY DEF TypeOK, CurrentArchived
  <2>3. origArch' \in [Records -> BOOLEAN]
    BY <1>4, <2>2 DEF UpdateStatusToArchived, TypeOK
  <2> QED
    BY <1>4, <1>f, <2>1, <2>3, PutRowTyped DEF UpdateStatusToArchived, Doing, TypeOK
<1>5. CASE CreateFile(r) \/ UpdateFile(r) \/ CreateOrUpdateFile(r)
  <2>1. op[r] \in Ops /\ new[r] \in Content
    BY DEF TypeOK
  <2> QED
    BY <1>5, <1>f, <2>1, PutFileTyped
       DEF CreateFile, UpdateFile, CreateOrUpdateFile, WriteFile, Doing, TypeOK
<1>6. CASE MoveFileToArchive(r)
  <2>1. "archive" \in Ops /\ None \in Content
    BY DEF Ops, Content
  <2> QED
    BY <1>6, <1>f, <2>1, PutFileTyped DEF MoveFileToArchive, Doing, TypeOK
<1>7. CASE CommitToGit(r)
  <2>1. op[r] \in Ops
    BY DEF TypeOK
  <2>2. committed' \in [Records -> BOOLEAN]
    BY <1>7 DEF CommitToGit, TypeOK
  <2> QED
    BY <1>7, <1>f, <2>1, <2>2, AddedTyped DEF CommitToGit, Doing, TypeOK
<1>8. CASE DeleteDraft(r)
  <2>1. None \in Content
    BY DEF Content
  <2> QED
    BY <1>8, <1>f, <2>1 DEF DeleteDraft, Doing, TypeOK
<1>9. CASE QueueIndexing(r) \/ EmitHooks(r)
  BY <1>9, <1>f DEF QueueIndexing, EmitHooks, Doing, TypeOK
<1> QED
  BY <1>1, <1>2, <1>3, <1>4, <1>5, <1>6, <1>7, <1>8, <1>9 DEF Forward

\* Failures, and what a straggler writes.
LEMMA FailTyped ==
  ASSUME Typed, NEW r \in Records, Fail(r)
  PROVE  Typed'
<1> USE DEF dataVars, ctxVars, histVars, Typed
<1>f. ASSUME mode[r] = "forward", StartBack(r), UNCHANGED <<op, late, before>>
      PROVE  /\ PositionOK'
             /\ at' \in [Records -> 0 .. 6]
             /\ mode' \in [Records -> {"idle", "forward", "back"}]
             /\ verdict' \in [Records -> {"none", "ok", "rolledBack", "stuck"}]
  BY <1>f, StartBackTyped DEF PositionOK
<1>o. op[r] \in Ops /\ late[r].op \in Ops /\ late[r].new \in Content /\ draft[r] \in Content
      /\ None \in Content /\ new[r] \in Content
  BY DEF TypeOK, PositionOK, Content
<1>1. CASE StepThrows(r)
  <2>1. index' \in Trees
    BY <1>1, <1>o, AddedTyped DEF StepThrows, TypeOK
  <2> QED
    BY <1>1, <1>f, <2>1 DEF StepThrows, TypeOK
<1>2. CASE RowStepThrowsLate(r)
  <2>1. silent' \in [Records -> BOOLEAN]
    BY <1>2 DEF RowStepThrowsLate, TypeOK
  <2> QED
    BY <1>2, <1>f, <1>o, <2>1, PutRowTyped DEF RowStepThrowsLate, Doing, TypeOK
<1>3. CASE StepTimesOut(r)
  <2>1. strayed' \in [Records -> BOOLEAN]
    BY <1>3 DEF StepTimesOut, TypeOK
  <2>2. TypeOK'
    BY <1>3, <2>1, StartBackTyped DEF StepTimesOut, TypeOK
  <2>3. Step(r) \in {"row", "file", "commit", "draft", "index", "hooks"}
    BY <1>3, <1>o, StepPlaces DEF StepTimesOut, Step, PositionOK
  <2>4. late' \in [Records -> [step : {"none", "row", "file", "commit", "draft", "index",
                                       "hooks"},
                               op : Ops, new : Content]]
    <3>1. [step |-> Step(r), op |-> op[r], new |-> new[r]]
            \in [step : {"none", "row", "file", "commit", "draft", "index", "hooks"},
                 op : Ops, new : Content]
      BY <1>o, <2>3
    <3> QED
      BY <1>3, <3>1 DEF StepTimesOut, PositionOK
  <2>5. UNCHANGED <<op, before>>
    BY <1>3 DEF StepTimesOut
  <2> QED
    BY <1>3, <2>2, <2>4, <2>5, StartBackTyped DEF StepTimesOut, PositionOK
<1>4. ASSUME late' = [late EXCEPT ![r] = NoLate], UNCHANGED <<ctxVars, histVars, mode, at, verdict>>
      PROVE  PositionOK'
  BY <1>4 DEF PositionOK, NoLate, Ops, Content
<1>5. CASE LateWrite(r)
  <2>1. PositionOK'
    BY <1>4, <1>5 DEF LateWrite
  <2>2. PICK v \in Content :
          \/ PutRow(r, late[r].op, v) /\ UNCHANGED <<draft, file, index, head>>
          \/ PutFile(r, late[r].op, v) /\ UNCHANGED <<db, archived, draft, index, head>>
          \/ /\ index' = Added(r, late[r].op) /\ head' = index'
             /\ UNCHANGED <<db, archived, draft, file>>
          \/ draft' = [draft EXCEPT ![r] = None] /\ UNCHANGED <<db, archived, file, index, head>>
    BY <1>5, <1>o DEF LateWrite
  <2>3. /\ db' \in [Records -> Content] /\ archived' \in [Records -> BOOLEAN]
        /\ draft' \in [Records -> Content]
        /\ file' \in Trees /\ index' \in Trees /\ head' \in Trees
    <3>1. CASE PutRow(r, late[r].op, v) /\ UNCHANGED <<draft, file, index, head>>
      BY <1>o, <3>1, PutRowTyped DEF TypeOK
    <3>2. CASE PutFile(r, late[r].op, v) /\ UNCHANGED <<db, archived, draft, index, head>>
      BY <1>o, <3>2, PutFileTyped DEF TypeOK
    <3>3. CASE /\ index' = Added(r, late[r].op) /\ head' = index'
               /\ UNCHANGED <<db, archived, draft, file>>
      BY <1>o, <3>3, AddedTyped DEF TypeOK
    <3>4. CASE /\ draft' = [draft EXCEPT ![r] = None]
               /\ UNCHANGED <<db, archived, file, index, head>>
      BY <1>o, <3>4 DEF TypeOK
    <3> QED
      BY <2>2, <3>1, <3>2, <3>3, <3>4
  <2> QED
    BY <1>5, <2>1, <2>3 DEF LateWrite, TypeOK
<1>6. CASE LateNothing(r)
  BY <1>4, <1>6 DEF LateNothing, TypeOK
<1> QED
  BY <1>1, <1>2, <1>3, <1>5, <1>6 DEF Fail

\* Compensation.
LEMMA BackTyped ==
  ASSUME Typed, NEW r \in Records, Back(r)
  PROVE  Typed'
<1> USE DEF dataVars, ctxVars, histVars, Typed
<1>f. ASSUME mode[r] = "back", at[r] > 0, StepBack(r)
      PROVE  /\ PositionOK'
             /\ at' \in [Records -> 0 .. 6]
             /\ UNCHANGED <<ctxVars, strayed, before, ops, mode, late>>
  BY <1>f, StepBackTyped DEF PositionOK
<1>o. /\ orig[r] \in Content /\ None \in Content /\ db[r] \in Content
      /\ backup[r] \in Content /\ draft[r] \in Content
      /\ archived[r] \in BOOLEAN /\ origArch[r] \in BOOLEAN
      /\ file[r] \in [Paths -> Content] /\ "live" \in Paths /\ "archive" \in Paths
  BY DEF TypeOK, Content, Trees, Paths
<1>r. ASSUME NEW v \in Content, NEW x \in BOOLEAN, mode[r] = "back", at[r] > 0,
             RestoreRow(r, v, x)
      PROVE  Typed'
  BY <1>f, <1>r, RestoreRowTyped DEF RestoreRow, TypeOK
<1>g. ASSUME NEW f \in [Paths -> Content], mode[r] = "back", at[r] > 0, RestoreFile(r, f)
      PROVE  Typed'
  BY <1>f, <1>g, RestoreFileTyped DEF RestoreFile, TypeOK
<1>1. CASE UndoCreateInRecords(r)
  BY <1>1, <1>o, <1>r DEF UndoCreateInRecords, Undoing
<1>2. CASE UndoUpdateInRecords(r)
  BY <1>2, <1>o, <1>r DEF UndoUpdateInRecords, Undoing
<1>3. CASE UndoMoveToRecords(r)
  <2>1. CASE existed[r]
    BY <1>3, <1>f, <2>1 DEF UndoMoveToRecords, Undoing, TypeOK
  <2>2. CASE ~existed[r]
    BY <1>3, <1>o, <1>r, <2>2 DEF UndoMoveToRecords, Undoing
  <2> QED
    BY <2>1, <2>2
<1>4. CASE UndoUpdateStatusToArchived(r)
  BY <1>4, <1>o, <1>r DEF UndoUpdateStatusToArchived, Undoing
<1>5. CASE UndoCreateFile(r) \/ UndoUpdateFile(r) \/ UndoCreateOrUpdateFile(r)
  <2>1. /\ [file[r] EXCEPT !["live"] = None] \in [Paths -> Content]
        /\ [file[r] EXCEPT !["live"] = orig[r]] \in [Paths -> Content]
    BY <1>o
  <2> QED
    BY <1>5, <1>g, <2>1 DEF UndoCreateFile, UndoUpdateFile, UndoCreateOrUpdateFile, Undoing
<1>6. CASE UndoMoveFileToArchive(r)
  <2>1. [live |-> file[r]["archive"], archive |-> None] \in [Paths -> Content]
    BY <1>o DEF Paths
  <2> QED
    BY <1>6, <1>g, <1>o, <2>1 DEF UndoMoveFileToArchive, Undoing
<1>7. CASE UndoDeleteDraft(r)
  <2>1. draft' \in [Records -> Content] /\ silent' \in [Records -> BOOLEAN]
    <3>1. CASE draft' = [draft EXCEPT ![r] = IF @ = None THEN backup[r] ELSE @]
               /\ UNCHANGED silent
      BY <1>o, <3>1 DEF TypeOK
    <3>2. CASE silent' = [silent EXCEPT ![r] = TRUE] /\ UNCHANGED draft
      BY <3>2 DEF TypeOK
    <3> QED
      BY <1>7, <3>1, <3>2 DEF UndoDeleteDraft
  <2> QED
    BY <1>7, <1>f, <2>1 DEF UndoDeleteDraft, Undoing, TypeOK
<1>8. CASE SkipStep(r)
  BY <1>8, <1>f DEF SkipStep, TypeOK
<1>9. CASE EndBack(r)
  BY <1>9 DEF EndBack, TypeOK, PositionOK
<1> QED
  BY <1>1, <1>2, <1>3, <1>4, <1>5, <1>6, <1>7, <1>8, <1>9 DEF Back

-----------------------------------------------------------------------------
(* A record is changed by its own saga.                                    *)

\* What a step may do to a record it is not about: nothing, or commit what is
\* staged of it.
Alone(t) ==
  /\ db'[t] = db[t] /\ archived'[t] = archived[t] /\ file'[t] = file[t]
  /\ index'[t] = index[t] /\ head'[t] \in {head[t], index[t]}
  /\ mode'[t] = mode[t] /\ op'[t] = op[t] /\ at'[t] = at[t] /\ new'[t] = new[t]
  /\ orig'[t] = orig[t] /\ origArch'[t] = origArch[t] /\ existed'[t] = existed[t]
  /\ verdict'[t] = verdict[t] /\ silent'[t] = silent[t] /\ strayed'[t] = strayed[t]
  /\ late'[t] = late[t] /\ before'[t] = before[t]

\* What was achieved for a record stands while the sagas of others run: after its
\* commit the index holds no more of it than HEAD.
LEMMA AloneKeeps ==
  ASSUME NEW t \in Records, ~strayed[t] => Progress(t), Alone(t)
  PROVE  (~strayed[t] => Progress(t))'
<1> SUFFICES ASSUME ~strayed[t], Progress(t) PROVE Progress(t)'
  BY DEF Alone
<1>1. RowDone(t)' <=> RowDone(t)
  BY DEF Alone, RowDone
<1>2. FileDone(t)' <=> FileDone(t)
  BY DEF Alone, FileDone
<1>3. CommitDone(t) => CommitDone(t)'
  BY DEF Alone, CommitDone
<1>4. Restorable(t)' <=> Restorable(t)
  BY DEF Alone, Restorable, InStep
<1>5. (FileBack(t)' <=> FileBack(t)) /\ (RowBack(t)' <=> RowBack(t))
  BY DEF Alone, FileBack, RowBack
<1> QED
  BY <1>1, <1>2, <1>3, <1>4, <1>5 DEF Alone, Progress

\* Every step is about one record and leaves the others alone.
LEMMA OthersAlone ==
  ASSUME Typed, NEW r \in Records, NEW t \in Records, t # r,
         \/ \E o \in Ops, v \in Content : StartSaga(r, o, v)
         \/ \E v \in Content : SaveDraft(r, v)
         \/ Forward(r) \/ Fail(r) \/ Back(r)
  PROVE  Alone(t)
<1> USE DEF dataVars, ctxVars, histVars, Typed, Alone
<1>o. /\ op[r] \in Ops /\ new[r] \in Content /\ draft[r] \in Content /\ None \in Content
      /\ orig[r] \in Content /\ db[r] \in Content
      /\ late[r].op \in Ops /\ late[r].new \in Content
  BY DEF TypeOK, PositionOK, Content
<1>1. CASE (\E o \in Ops, v \in Content : StartSaga(r, o, v))
           \/ (\E v \in Content : SaveDraft(r, v))
  BY <1>1 DEF StartSaga, SaveDraft, TypeOK, PositionOK
<1>2. CASE Forward(r)
  <2>a. ASSUME Advance(r)
        PROVE  mode'[t] = mode[t] /\ at'[t] = at[t] /\ verdict'[t] = verdict[t]
    BY <2>a DEF Advance, TypeOK
  <2>p. ASSUME NEW o \in Ops, NEW v \in Content, PutRow(r, o, v)
        PROVE  db'[t] = db[t] /\ archived'[t] = archived[t]
    BY <2>p, PutRowTyped
  <2>f. ASSUME NEW o \in Ops, NEW v \in Content, PutFile(r, o, v)
        PROVE  file'[t] = file[t]
    BY <2>f, PutFileTyped
  <2>1. CASE CreateInRecords(r) \/ UpdateInRecords(r) \/ MoveToRecords(r)
             \/ UpdateStatusToArchived(r)
    <3>1. \E o \in Ops, v \in Content : PutRow(r, o, v)
      BY <1>o, <2>1 DEF CreateInRecords, UpdateInRecords, MoveToRecords,
         UpdateStatusToArchived, Ops
    <3>2. db'[t] = db[t] /\ archived'[t] = archived[t]
      BY <3>1, <2>p
    <3> QED
      BY <2>1, <2>a, <3>2 DEF CreateInRecords, UpdateInRecords, MoveToRecords,
         UpdateStatusToArchived, TypeOK
  <2>2. CASE CreateFile(r) \/ UpdateFile(r) \/ CreateOrUpdateFile(r) \/ MoveFileToArchive(r)
    <3>1. \E o \in Ops, v \in Content : PutFile(r, o, v)
      BY <1>o, <2>2 DEF CreateFile, UpdateFile, CreateOrUpdateFile, WriteFile,
         MoveFileToArchive, Ops
    <3>2. file'[t] = file[t]
      BY <3>1, <2>f
    <3> QED
      BY <2>2, <2>a, <3>2 DEF CreateFile, UpdateFile, CreateOrUpdateFile, WriteFile,
         MoveFileToArchive
  <2>3. CASE CommitToGit(r)
    BY <1>o, <2>3, <2>a, AddedTyped DEF CommitToGit
  <2>4. CASE DeleteDraft(r) \/ QueueIndexing(r) \/ EmitHooks(r)
    BY <2>4, <2>a DEF DeleteDraft, QueueIndexing, EmitHooks
  <2> QED
    BY <1>2, <2>1, <2>2, <2>3, <2>4 DEF Forward
<1>3. CASE Fail(r)
  <2>a. ASSUME StartBack(r)
        PROVE  mode'[t] = mode[t] /\ at'[t] = at[t] /\ verdict'[t] = verdict[t]
    BY <2>a DEF StartBack, TypeOK
  <2>1. CASE StepThrows(r)
    BY <1>o, <2>1, <2>a, AddedTyped DEF StepThrows
  <2>2. CASE RowStepThrowsLate(r)
    <3>1. db'[t] = db[t] /\ archived'[t] = archived[t]
      BY <1>o, <2>2, PutRowTyped DEF RowStepThrowsLate
    <3> QED
      BY <2>2, <2>a, <3>1 DEF RowStepThrowsLate, TypeOK
  <2>3. CASE StepTimesOut(r)
    BY <2>3, <2>a DEF StepTimesOut, TypeOK, PositionOK
  <2>4. CASE LateWrite(r)
    <3>1. /\ db'[t] = db[t] /\ archived'[t] = archived[t] /\ file'[t] = file[t]
          /\ index'[t] = index[t] /\ head'[t] \in {head[t], index[t]}
      BY <1>o, <2>4, PutRowTyped, PutFileTyped, AddedTyped DEF LateWrite
    <3> QED
      BY <2>4, <3>1 DEF LateWrite, PositionOK
  <2>5. CASE LateNothing(r)
    BY <2>5 DEF LateNothing, PositionOK
  <2> QED
    BY <1>3, <2>1, <2>2, <2>3, <2>4, <2>5 DEF Fail
<1>4. CASE Back(r)
  <2>a. ASSUME StepBack(r) PROVE at'[t] = at[t] /\ UNCHANGED <<ctxVars, strayed, before, mode, late>>
    BY <2>a DEF StepBack, TypeOK
  <2>r. ASSUME NEW v, NEW x, RestoreRow(r, v, x)
        PROVE  Alone(t)
    <3>1. db'[t] = db[t] /\ archived'[t] = archived[t] /\ verdict'[t] = verdict[t]
      BY <2>r DEF RestoreRow, TypeOK
    <3> QED
      BY <2>r, <2>a, <3>1 DEF RestoreRow
  <2>f. ASSUME NEW f, RestoreFile(r, f)
        PROVE  Alone(t)
    <3>1. file'[t] = file[t] /\ silent'[t] = silent[t]
      BY <2>f DEF RestoreFile, TypeOK, Trees
    <3> QED
      BY <2>f, <2>a, <3>1 DEF RestoreFile
  <2>1. CASE UndoCreateInRecords(r) \/ UndoUpdateInRecords(r) \/ UndoUpdateStatusToArchived(r)
    BY <2>1, <2>r DEF UndoCreateInRecords, UndoUpdateInRecords, UndoUpdateStatusToArchived
  <2>2. CASE UndoMoveToRecords(r)
    BY <2>2, <2>a, <2>r DEF UndoMoveToRecords
  <2>3. CASE UndoCreateFile(r) \/ UndoUpdateFile(r) \/ UndoCreateOrUpdateFile(r)
             \/ UndoMoveFileToArchive(r)
    BY <2>3, <2>f DEF UndoCreateFile, UndoUpdateFile, UndoCreateOrUpdateFile,
       UndoMoveFileToArchive
  <2>4. CASE UndoDeleteDraft(r)
    <3>1. silent'[t] = silent[t]
      BY <2>4 DEF UndoDeleteDraft, TypeOK
    <3> QED
      BY <2>4, <2>a, <3>1 DEF UndoDeleteDraft
  <2>5. CASE SkipStep(r)
    BY <2>5, <2>a DEF SkipStep
  <2>6. CASE EndBack(r)
    BY <2>6 DEF EndBack, TypeOK
  <2> QED
    BY <1>4, <2>1, <2>2, <2>3, <2>4, <2>5, <2>6 DEF Back
<1> QED
  BY <1>1, <1>2, <1>3, <1>4

-----------------------------------------------------------------------------
(* A saga and its own record.                                              *)

\* A saga starts from what it takes down as the record's state.
LEMMA StartProgress ==
  ASSUME RecordInv, NEW r \in Records, NEW o \in Ops, NEW v \in Content,
         StartSaga(r, o, v)
  PROVE  (~strayed[r] => Progress(r))'
<1> USE DEF RecordInv, TypeOK, PositionOK
<1> SUFFICES ASSUME ~strayed'[r] PROVE Progress(r)'
  OBVIOUS
<1>1. ~strayed[r] /\ Progress(r)
  BY DEF StartSaga
<1>2. late'[r] = NoLate /\ mode'[r] = "forward" /\ at'[r] = 1
  BY <1>1 DEF StartSaga, Progress
<1>3. /\ db'[r] = before'[r].db /\ archived'[r] = before'[r].archived
      /\ file'[r] = before'[r].file
  BY DEF StartSaga, Snapshot, dataVars
<1> QED
  BY <1>2, <1>3 DEF Progress

\* Drafts are no part of it.
LEMMA DraftProgress ==
  ASSUME RecordInv, NEW r \in Records, NEW v \in Content, SaveDraft(r, v)
  PROVE  (~strayed[r] => Progress(r))'
BY DEF RecordInv, SaveDraft, ctxVars, Progress, RowDone, FileDone, CommitDone,
   Restorable, FileBack, RowBack

\* Each forward step adds its own effect to those of the steps before it.
LEMMA ForwardProgress ==
  ASSUME RecordInv, NEW r \in Records, Forward(r)
  PROVE  (~strayed[r] => Progress(r))'
<1> USE DEF dataVars, ctxVars, histVars
<1>t. Typed
  BY DEF RecordInv, Typed
<1>s. UNCHANGED <<strayed, op, late, before>> /\ mode[r] = "forward"
  BY DEF Forward, CreateInRecords, UpdateInRecords, MoveToRecords,
     UpdateStatusToArchived, CreateFile, UpdateFile, CreateOrUpdateFile, WriteFile,
     MoveFileToArchive, CommitToGit, DeleteDraft, QueueIndexing, EmitHooks, Doing
<1> SUFFICES ASSUME ~strayed[r], Progress(r) PROVE Progress(r)'
  BY <1>s DEF RecordInv
<1>o. /\ op[r] \in Ops /\ new[r] \in Content /\ draft[r] \in Content /\ None \in Content
      /\ at[r] \in 1 .. StepCount(op[r]) /\ at[r] \in Nat /\ StepCount(op[r]) \in 4 .. 6
      /\ file[r] \in [Paths -> Content] /\ index[r] \in [Paths -> Content]
      /\ db[r] \in Content /\ archived[r] \in BOOLEAN
  BY <1>t, <1>s, StepPlaces DEF Typed, TypeOK, PositionOK, Content, Trees
<1>a. ASSUME Advance(r)
      PROVE  \/ mode'[r] = "forward" /\ at'[r] = at[r] + 1
             \/ mode'[r] = "idle" /\ verdict'[r] = "ok" /\ at[r] >= 4
  BY <1>a, <1>t, <1>s, AdvanceTyped DEF Typed
<1>1. ASSUME at[r] = 1, Advance(r), RowDone(r)', file' = file PROVE Progress(r)'
  <2>1. mode'[r] = "forward" /\ at'[r] = 2
    BY <1>1, <1>a
  <2>2. late'[r] = NoLate /\ file'[r] = before'[r].file
    BY <1>1, <1>s DEF Progress
  <2> QED
    BY <1>1, <2>1, <2>2 DEF Progress
<1>2. ASSUME at[r] = 2, Advance(r), RowDone(r)', FileDone(r)' PROVE Progress(r)'
  <2>1. mode'[r] = "forward" /\ at'[r] = 3
    BY <1>2, <1>a
  <2>2. late'[r] = NoLate
    BY <1>s DEF Progress
  <2> QED
    BY <1>2, <2>1, <2>2 DEF Progress
<1>3. ASSUME at[r] >= 3, Advance(r), RowDone(r)', FileDone(r)', CommitDone(r)'
      PROVE  Progress(r)'
  <2>1. late'[r] = NoLate
    BY <1>s DEF Progress
  <2>2. CASE mode'[r] = "forward" /\ at'[r] = at[r] + 1
    BY <1>3, <1>o, <2>1, <2>2 DEF Progress
  <2>3. CASE mode'[r] = "idle" /\ verdict'[r] = "ok"
    BY <1>3, <2>1, <2>3 DEF Progress, Restorable
  <2> QED
    BY <1>a, <1>3, <2>2, <2>3
<1>b. /\ at[r] = 1 => db[r] = before[r].db /\ archived[r] = before[r].archived
      /\ at[r] <= 2 => file[r] = before[r].file
      /\ at[r] >= 2 => RowDone(r)
      /\ at[r] >= 3 => FileDone(r)
      /\ at[r] >= 4 => CommitDone(r)
  BY <1>s DEF Progress
<1>p. /\ Step(r) = "row" <=> at[r] = 1
      /\ Step(r) = "file" <=> at[r] = 2
      /\ Step(r) = "commit" <=> at[r] = 3
  BY <1>o, StepPlaces DEF Step
<1>4. CASE CreateInRecords(r)
  <2>1. at[r] = 1 /\ op[r] = "create" /\ db[r] = None
    BY <1>4, <1>p DEF CreateInRecords, Doing, RowReady
  <2>2. db'[r] = new[r] /\ ~archived'[r]
    BY <1>4, <1>o, <1>t, <2>1, PutRowTyped DEF CreateInRecords, Typed
  <2>3. RowDone(r)'
    BY <1>4, <1>b, <1>s, <2>1, <2>2 DEF RowDone, CreateInRecords
  <2> QED
    BY <1>1, <1>4, <2>1, <2>3 DEF CreateInRecords
<1>5. CASE UpdateInRecords(r)
  <2>1. at[r] = 1 /\ op[r] = "update"
    BY <1>5, <1>p DEF UpdateInRecords, Doing
  <2>2. db'[r] = new[r] /\ archived'[r] = archived[r]
    BY <1>5, <1>o, <1>t, <2>1, PutRowTyped DEF UpdateInRecords, Typed
  <2>3. orig'[r] = Current(r)
    BY <1>5, <1>t DEF UpdateInRecords, Typed, TypeOK
  <2>4. RowDone(r)'
    BY <1>5, <1>b, <1>s, <2>1, <2>2, <2>3 DEF RowDone, UpdateInRecords, Current
  <2> QED
    BY <1>1, <1>5, <2>1, <2>4 DEF UpdateInRecords
<1>6. CASE MoveToRecords(r)
  <2>1. at[r] = 1 /\ op[r] = "publish"
    BY <1>6, <1>p DEF MoveToRecords, Doing
  <2>2. db'[r] = draft[r] /\ ~archived'[r]
    BY <1>6, <1>o, <1>t, <2>1, PutRowTyped DEF MoveToRecords, Typed
  <2>3. new'[r] = draft[r] /\ (existed'[r] <=> db[r] # None)
    BY <1>6, <1>t DEF MoveToRecords, Typed, TypeOK
  <2>4. RowDone(r)'
    BY <1>6, <1>b, <1>s, <2>1, <2>2, <2>3 DEF RowDone
  <2> QED
    BY <1>1, <1>6, <2>1, <2>4 DEF MoveToRecords
<1>7. CASE UpdateStatusToArchived(r)
  <2>1. at[r] = 1 /\ op[r] = "archive"
    BY <1>7, <1>p DEF UpdateStatusToArchived, Doing
  <2>2. db'[r] = db[r] /\ archived'[r]
    BY <1>7, <1>o, <1>t, <2>1, PutRowTyped DEF UpdateStatusToArchived, Typed, Ops
  <2>3. orig'[r] = Current(r)
    BY <1>7, <1>t DEF UpdateStatusToArchived, Typed, TypeOK
  <2>4. origArch'[r] => archived[r]
    <3>1. PICK x \in CurrentArchived(r) : origArch' = [origArch EXCEPT ![r] = x]
      BY <1>7 DEF UpdateStatusToArchived
    <3>2. origArch'[r] = x
      BY <1>t, <3>1 DEF Typed, TypeOK
    <3>3. x => archived[r]
      BY <1>o DEF CurrentArchived
    <3> QED
      BY <3>2, <3>3
  <2>5. RowDone(r)'
    BY <1>7, <1>b, <1>s, <2>1, <2>2, <2>3, <2>4 DEF RowDone, Current
  <2> QED
    BY <1>1, <1>7, <2>1, <2>5 DEF UpdateStatusToArchived
<1>8. CASE CreateFile(r) \/ UpdateFile(r) \/ CreateOrUpdateFile(r)
  <2>1. at[r] = 2 /\ op[r] # "archive" /\ PutFile(r, op[r], new[r]) /\ Advance(r)
    BY <1>8, <1>p DEF CreateFile, UpdateFile, CreateOrUpdateFile, WriteFile, Doing
  <2>2. file'[r]["live"] = new[r]
    BY <1>o, <1>t, <2>1, PutFileTyped DEF Typed
  <2>3. RowDone(r)' /\ new' = new
    BY <1>8, <1>b, <1>s, <2>1 DEF RowDone, CreateFile, UpdateFile, CreateOrUpdateFile,
       WriteFile
  <2>4. FileDone(r)'
    BY <1>s, <2>1, <2>2, <2>3 DEF FileDone
  <2> QED
    BY <1>2, <2>1, <2>3, <2>4
<1>9. CASE MoveFileToArchive(r)
  <2>1. /\ at[r] = 2 /\ op[r] = "archive" /\ file[r]["live"] # None
        /\ PutFile(r, "archive", None) /\ Advance(r)
    BY <1>9, <1>p DEF MoveFileToArchive, Doing
  <2>2. file'[r]["live"] = None /\ file'[r]["archive"] = file[r]["live"]
    BY <1>o, <1>t, <2>1, PutFileTyped DEF Typed
  <2>3. RowDone(r)'
    BY <1>9, <1>b, <1>s, <2>1 DEF RowDone, MoveFileToArchive
  <2>4. FileDone(r)'
    BY <1>b, <1>s, <2>1, <2>2 DEF FileDone
  <2> QED
    BY <1>2, <2>1, <2>3, <2>4
<1>10. CASE CommitToGit(r)
  <2>1. at[r] = 3 /\ Advance(r)
    BY <1>10, <1>p DEF CommitToGit, Doing
  <2>2. RowDone(r)' /\ FileDone(r)'
    BY <1>10, <1>b, <1>s, <2>1 DEF CommitToGit, RowDone, FileDone
  <2>3. /\ head' = index' /\ file' = file
        /\ \A p \in StagedPaths(op[r]) : index'[r][p] = file[r][p]
    BY <1>10, <1>o, <1>t, AddedTyped DEF CommitToGit, Typed, StagedPaths, Paths
  <2>4. CommitDone(r)'
    BY <1>s, <2>3 DEF CommitDone
  <2> QED
    BY <1>3, <2>1, <2>2, <2>4
<1>11. CASE DeleteDraft(r) \/ QueueIndexing(r) \/ EmitHooks(r)
  <2>1. at[r] >= 4 /\ Advance(r)
    <3>1. Step(r) \notin {"row", "file", "commit"} /\ Advance(r)
      BY <1>11 DEF DeleteDraft, QueueIndexing, EmitHooks, Doing
    <3> QED
      BY <1>o, <1>p, <3>1
  <2>2. RowDone(r)' /\ FileDone(r)' /\ CommitDone(r)'
    BY <1>11, <1>b, <1>s, <1>o, <2>1 DEF DeleteDraft, QueueIndexing, EmitHooks, RowDone,
       FileDone, CommitDone
  <2> QED
    BY <1>3, <1>o, <2>1, <2>2
<1> QED
  BY <1>4, <1>5, <1>6, <1>7, <1>8, <1>9, <1>10, <1>11 DEF Forward

\* A step that throws leaves what the steps before it did; one that times out
\* strays.
LEMMA FailProgress ==
  ASSUME RecordInv, NEW r \in Records, Fail(r)
  PROVE  (~strayed[r] => Progress(r))'
<1> USE DEF dataVars, ctxVars, histVars
<1>t. Typed
  BY DEF RecordInv, Typed
<1> SUFFICES ASSUME ~strayed'[r] PROVE Progress(r)'
  OBVIOUS
<1>0. ~StepTimesOut(r)
  BY <1>t DEF StepTimesOut, Typed, TypeOK
<1>1. UNCHANGED <<strayed, op, before>> /\ Progress(r) /\ late[r] = NoLate
  BY <1>0 DEF Fail, StepThrows, RowStepThrowsLate, LateWrite, LateNothing, RecordInv, Progress
<1>2. StepThrows(r) \/ RowStepThrowsLate(r)
  BY <1>0, <1>1 DEF Fail, LateWrite, LateNothing
<1>3. mode[r] = "forward" /\ StartBack(r) /\ late' = late
  BY <1>2 DEF StepThrows, RowStepThrowsLate, Doing
<1>4. /\ mode'[r] = "back" /\ verdict'[r] = "rolledBack" /\ at'[r] = at[r] - 1
      /\ at[r] \in 1 .. StepCount(op[r]) /\ StepCount(op[r]) \in 4 .. 6
  BY <1>t, <1>3, StartBackTyped, StepPlaces DEF Typed, TypeOK, PositionOK
<1>5. CASE StepThrows(r)
  <2>1. /\ RowDone(r)' <=> RowDone(r)
        /\ FileDone(r)' <=> FileDone(r)
    BY <1>1, <1>5 DEF StepThrows, RowDone, FileDone
  <2>2. at'[r] >= 1 => RowDone(r)'
    BY <1>1, <1>3, <1>4, <2>1 DEF Progress
  <2>3. at'[r] >= 2 => FileDone(r)'
    BY <1>1, <1>3, <1>4, <2>1 DEF Progress
  <2>4. at'[r] <= 1 => FileBack(r)'
    <3>1. at'[r] <= 1 => at[r] <= 2
      BY <1>4
    <3> QED
      BY <1>1, <1>3, <1>5, <3>1 DEF Progress, FileBack, StepThrows
  <2>5. at'[r] = 0 => RowBack(r)'
    <3>1. at'[r] = 0 => at[r] = 1
      BY <1>4
    <3> QED
      BY <1>1, <1>3, <1>5, <3>1 DEF Progress, RowBack, StepThrows
  <2> QED
    BY <1>1, <1>3, <1>4, <2>2, <2>3, <2>4, <2>5 DEF Progress
<1>6. CASE RowStepThrowsLate(r)
  <2>1. silent'[r]
    BY <1>6, <1>t DEF RowStepThrowsLate, Typed, TypeOK
  <2> QED
    BY <1>1, <1>3, <1>4, <2>1 DEF Progress, Restorable
<1> QED
  BY <1>2, <1>5, <1>6

\* Each compensation takes its own step back.
LEMMA BackProgress ==
  ASSUME RecordInv, NEW r \in Records, Back(r)
  PROVE  (~strayed[r] => Progress(r))'
<1> USE DEF dataVars, ctxVars, histVars
<1>t. Typed
  BY DEF RecordInv, Typed
<1>s. UNCHANGED <<ctxVars, strayed, late, before>> /\ mode[r] = "back"
  BY DEF Back, UndoCreateInRecords, UndoUpdateInRecords, UndoMoveToRecords,
     UndoUpdateStatusToArchived, UndoCreateFile, UndoUpdateFile,
     UndoCreateOrUpdateFile, UndoMoveFileToArchive, UndoDeleteDraft, SkipStep,
     EndBack, RestoreRow, RestoreFile, StepBack, Undoing
<1> SUFFICES ASSUME ~strayed[r], Progress(r) PROVE Progress(r)'
  BY <1>s DEF RecordInv
<1>o. /\ op[r] \in Ops /\ at[r] \in 0 .. StepCount(op[r]) - 1 /\ at[r] \in Nat
      /\ StepCount(op[r]) \in 4 .. 6
      /\ orig[r] \in Content /\ None \in Content /\ db[r] \in Content
      /\ archived[r] \in BOOLEAN /\ origArch[r] \in BOOLEAN
      /\ file[r] \in [Paths -> Content] /\ "live" \in Paths /\ "archive" \in Paths
  BY <1>t, <1>s, StepPlaces DEF Typed, TypeOK, PositionOK, Content, Trees, Paths
<1>p. at[r] > 0 => /\ Step(r) = "row" <=> at[r] = 1
                   /\ Step(r) = "file" <=> at[r] = 2
  BY <1>o, StepPlaces DEF Step
<1>b. /\ verdict[r] # "ok" /\ late[r] = NoLate
      /\ Restorable(r) => /\ at[r] >= 1 => RowDone(r)
                          /\ at[r] >= 2 => FileDone(r)
                          /\ at[r] <= 1 => FileBack(r)
                          /\ at[r] = 0 => RowBack(r)
  BY <1>s DEF Progress
<1>r. ASSUME NEW v \in Content, NEW x \in BOOLEAN, at[r] = 1, RestoreRow(r, v, x),
             Restorable(r) => v = before[r].db /\ (x => before[r].archived)
      PROVE  Progress(r)'
  <2>1. mode' = mode /\ at'[r] = 0 /\ file' = file /\ silent' = silent
    BY <1>r, <1>t DEF RestoreRow, StepBack, Typed, TypeOK
  <2>2. \/ db'[r] = v /\ archived'[r] = x /\ verdict' = verdict
        \/ verdict'[r] = "stuck"
    BY <1>r, <1>t, RestoreRowTyped DEF Typed
  <2>3. CASE db'[r] = v /\ archived'[r] = x /\ verdict' = verdict
    <3>1. Restorable(r)' => Restorable(r)
      BY <1>s, <2>1, <2>3 DEF Restorable, InStep
    <3>2. Restorable(r)' => RowBack(r)' /\ FileBack(r)'
      BY <1>b, <1>r, <1>s, <2>1, <2>3, <3>1 DEF RowBack, FileBack
    <3> QED
      BY <1>b, <1>s, <2>1, <2>3, <3>2 DEF Progress
  <2>4. CASE verdict'[r] = "stuck"
    BY <1>b, <1>s, <2>1, <2>4 DEF Progress, Restorable
  <2> QED
    BY <2>2, <2>3, <2>4
<1>f. ASSUME NEW f \in [Paths -> Content], at[r] = 2, RestoreFile(r, f),
             Restorable(r) => f["live"] = before[r].file["live"]
      PROVE  Progress(r)'
  <2>1. mode' = mode /\ at'[r] = 1 /\ UNCHANGED <<db, archived, verdict>>
    BY <1>f, <1>t DEF RestoreFile, StepBack, Typed, TypeOK
  <2>2. (file'[r] = f /\ silent' = silent) \/ silent'[r]
    BY <1>f, <1>t, RestoreFileTyped DEF Typed
  <2>3. CASE file'[r] = f /\ silent' = silent
    <3>1. Restorable(r)' => Restorable(r)
      BY <1>s, <2>1, <2>3 DEF Restorable, InStep
    <3>2. Restorable(r)' => RowDone(r)' /\ FileBack(r)'
      BY <1>b, <1>f, <1>s, <2>1, <2>3, <3>1 DEF RowDone, FileBack
    <3> QED
      BY <1>b, <1>s, <2>1, <3>2 DEF Progress
  <2>4. CASE silent'[r]
    BY <1>b, <1>s, <2>1, <2>4 DEF Progress, Restorable
  <2> QED
    BY <2>2, <2>3, <2>4
\* The row.
<1>1. CASE UndoCreateInRecords(r)
  <2>1. at[r] = 1 /\ op[r] = "create"
    BY <1>1, <1>p DEF UndoCreateInRecords, Undoing
  <2>2. Restorable(r) => None = before[r].db /\ ~archived[r]
    BY <1>b, <2>1 DEF RowDone
  <2> QED
    BY <1>1, <1>o, <1>r, <2>1, <2>2 DEF UndoCreateInRecords
<1>2. CASE UndoUpdateInRecords(r)
  <2>1. at[r] = 1 /\ op[r] = "update"
    BY <1>2, <1>p DEF UndoUpdateInRecords, Undoing
  <2>2. Restorable(r) => orig[r] = before[r].db /\ archived[r] = before[r].archived
    BY <1>b, <2>1 DEF RowDone, Restorable, InStep
  <2> QED
    BY <1>2, <1>o, <1>r, <2>1, <2>2 DEF UndoUpdateInRecords
<1>3. CASE UndoMoveToRecords(r)
  <2>1. at[r] = 1 /\ op[r] = "publish"
    BY <1>3, <1>p DEF UndoMoveToRecords, Undoing
  <2>2. CASE existed[r]
    <3>1. StepBack(r) /\ UNCHANGED <<verdict, silent>>
      BY <1>3, <2>2 DEF UndoMoveToRecords
    <3>2. mode' = mode /\ at'[r] = 0
      BY <1>t, <2>1, <3>1 DEF StepBack, Typed, TypeOK
    <3> QED
      BY <1>b, <1>s, <2>1, <2>2, <3>1, <3>2 DEF Progress, Restorable
  <2>3. CASE ~existed[r]
    <3>1. Restorable(r) => None = before[r].db /\ ~archived[r]
      BY <1>b, <2>1, <2>3 DEF RowDone
    <3> QED
      BY <1>3, <1>o, <1>r, <2>1, <2>3, <3>1 DEF UndoMoveToRecords
  <2> QED
    BY <2>2, <2>3
<1>4. CASE UndoUpdateStatusToArchived(r)
  <2>1. at[r] = 1 /\ op[r] = "archive"
    BY <1>4, <1>p DEF UndoUpdateStatusToArchived, Undoing
  <2>2. Restorable(r) => db[r] = before[r].db /\ (origArch[r] => before[r].archived)
    BY <1>b, <2>1 DEF RowDone
  <2> QED
    BY <1>4, <1>o, <1>r, <2>1, <2>2 DEF UndoUpdateStatusToArchived
\* The file.
<1>5. CASE UndoCreateFile(r) \/ UndoCreateOrUpdateFile(r)
  <2>1. /\ at[r] = 2 /\ op[r] \in {"create", "publish"}
        /\ RestoreFile(r, [file[r] EXCEPT !["live"] = None])
    BY <1>5, <1>p DEF UndoCreateFile, UndoCreateOrUpdateFile, Undoing
  <2>2. Restorable(r) => before[r].db = None
    BY <1>b, <2>1 DEF RowDone, Restorable
  <2>3. [file[r] EXCEPT !["live"] = None] \in [Paths -> Content]
    BY <1>o
  <2>4. [file[r] EXCEPT !["live"] = None]["live"] = None
    BY <1>o
  <2> QED
    BY <1>f, <2>1, <2>2, <2>3, <2>4 DEF Restorable, InStep
<1>6. CASE UndoUpdateFile(r)
  <2>1. /\ at[r] = 2 /\ op[r] = "update"
        /\ RestoreFile(r, [file[r] EXCEPT !["live"] = orig[r]])
    BY <1>6, <1>p DEF UndoUpdateFile, Undoing
  <2>2. Restorable(r) => orig[r] = before[r].file["live"]
    BY <1>b, <2>1 DEF RowDone, Restorable, InStep
  <2>3. [file[r] EXCEPT !["live"] = orig[r]] \in [Paths -> Content]
    BY <1>o
  <2>4. [file[r] EXCEPT !["live"] = orig[r]]["live"] = orig[r]
    BY <1>o
  <2> QED
    BY <1>f, <2>1, <2>2, <2>3, <2>4
<1>7. CASE UndoMoveFileToArchive(r)
  <2> DEFINE f == IF file[r]["archive"] = None THEN file[r]
                  ELSE [live |-> file[r]["archive"], archive |-> None]
  <2>1. at[r] = 2 /\ op[r] = "archive" /\ RestoreFile(r, f)
    BY <1>7, <1>p DEF UndoMoveFileToArchive, Undoing
  <2>2. f \in [Paths -> Content]
    <3>1. [live |-> file[r]["archive"], archive |-> None] \in [Paths -> Content]
      BY <1>o DEF Paths
    <3> QED
      BY <1>o, <3>1
  <2>3. Restorable(r) => f["live"] = before[r].file["live"]
    <3> SUFFICES ASSUME Restorable(r) PROVE f["live"] = before[r].file["live"]
      OBVIOUS
    <3>1. file[r]["archive"] = before[r].file["live"] /\ file[r]["archive"] # None
      BY <1>b, <2>1 DEF FileDone
    <3>2. f = [live |-> file[r]["archive"], archive |-> None]
      BY <3>1
    <3> QED
      BY <3>1, <3>2
  <2> HIDE DEF f
  <2> QED
    BY <1>f, <2>1, <2>2, <2>3
\* What follows the file.
<1>8. CASE UndoDeleteDraft(r) \/ SkipStep(r)
  <2>1. at[r] >= 3 /\ StepBack(r) /\ UNCHANGED <<db, archived, file, verdict>>
    <3>1. /\ at[r] > 0 /\ Step(r) \in {"draft", "commit", "index"} /\ StepBack(r)
          /\ UNCHANGED <<db, archived, file, verdict>>
      BY <1>8 DEF UndoDeleteDraft, SkipStep, Undoing
    <3> QED
      BY <1>o, <1>p, <3>1
  <2>2. silent[r] => silent'[r]
    BY <1>8, <1>t DEF UndoDeleteDraft, SkipStep, Typed, TypeOK
  <2>3. mode' = mode /\ at'[r] = at[r] - 1
    BY <1>t, <2>1 DEF StepBack, Typed, TypeOK
  <2>4. Restorable(r)' => Restorable(r)
    BY <1>s, <2>1, <2>2 DEF Restorable, InStep
  <2>5. Restorable(r)' => RowDone(r)' /\ FileDone(r)'
    <3>1. Restorable(r)' => RowDone(r) /\ FileDone(r)
      BY <1>b, <1>o, <2>1, <2>4
    <3> QED
      BY <1>s, <2>1, <3>1 DEF RowDone, FileDone
  <2>6. at'[r] >= 2
    BY <1>o, <2>1, <2>3
  <2> QED
    BY <1>b, <1>o, <1>s, <2>1, <2>3, <2>5, <2>6 DEF Progress
<1>9. CASE EndBack(r)
  <2>1. mode'[r] = "idle" /\ at[r] = 0 /\ UNCHANGED <<dataVars, histVars, verdict>>
    BY <1>9, <1>t DEF EndBack, Typed, TypeOK
  <2>2. Restorable(r)' => Restorable(r)
    BY <1>s, <2>1 DEF Restorable, InStep
  <2>3. Restorable(r)' => FileBack(r)' /\ RowBack(r)'
    BY <1>b, <1>o, <1>s, <2>1, <2>2 DEF FileBack, RowBack
  <2> QED
    BY <1>b, <1>s, <2>1, <2>3 DEF Progress
<1> QED
  BY <1>1, <1>2, <1>3, <1>4, <1>5, <1>6, <1>7, <1>8, <1>9 DEF Back

-----------------------------------------------------------------------------
(* The theorems.                                                           *)

\* RecordInv holds at the start.
LEMMA RecordInitInv == Init => RecordInv
<1> SUFFICES ASSUME Init PROVE RecordInv
  OBVIOUS
<1>1. Typed
  BY InitTyped
<1>2. \A r \in Records : Progress(r)
  BY DEF Init, Progress, Restorable
<1> QED
  BY <1>1, <1>2 DEF RecordInv, Typed

\* RecordInv is inductive.
LEMMA RecordNextInv == RecordInv /\ [Next]_vars => RecordInv'
<1> SUFFICES ASSUME RecordInv, [Next]_vars PROVE RecordInv'
  OBVIOUS
<1>t. Typed
  BY DEF RecordInv, Typed
<1>1. ASSUME NEW r \in Records,
             \/ \E o \in Ops, v \in Content : StartSaga(r, o, v)
             \/ \E v \in Content : SaveDraft(r, v)
             \/ Forward(r) \/ Fail(r) \/ Back(r)
      PROVE  RecordInv'
  <2>1. Typed'
    BY <1>1, <1>t, OutsideTyped, ForwardTyped, FailTyped, BackTyped
  <2>2. (~strayed[r] => Progress(r))'
    BY <1>1, StartProgress, DraftProgress, ForwardProgress, FailProgress, BackProgress
  <2>3. ASSUME NEW t \in Records, t # r PROVE (~strayed[t] => Progress(t))'
    <3>1. Alone(t)
      BY <1>1, <1>t, <2>3, OthersAlone
    <3> QED
      BY <3>1, AloneKeeps DEF RecordInv
  <2> QED
    BY <2>1, <2>2, <2>3 DEF RecordInv, Typed
<1>2. CASE Next
  <2>1. None \in Content /\ Versions \subseteq Content
        /\ {"create", "update", "publish", "archive"} \subseteq Ops
    BY DEF Content, Ops
  <2> QED
    BY <1>1, <1>2, <2>1 DEF Next
<1>3. CASE UNCHANGED vars
  <2>1. Typed'
    BY <1>3, <1>t DEF vars, dataVars, ctxVars, histVars, Typed, TypeOK, PositionOK
  <2>2. \A t \in Records : Alone(t)
    BY <1>3 DEF vars, dataVars, ctxVars, histVars, Alone
  <2> QED
    BY <2>1, <2>2, AloneKeeps DEF RecordInv, Typed
<1> QED
  BY <1>2, <1>3

\* What each saga has done to its record by the step it is at, what its
\* compensation has still to take back, and the types under that, hold for any
\* records and contents and however many sagas run, fail and time out.
THEOREM RecordInvariant == Spec => []RecordInv
BY RecordInitInv, RecordNextInv, PTL DEF Spec

\* A saga that reports success has left row, working tree and HEAD in agreement,
\* and they stay so until the record's next saga, whatever the sagas of other
\* records stage and commit.
THEOREM SuccessIsAgreement == Spec => []SuccessAgrees
<1>1. RecordInv => SuccessAgrees
  <2> SUFFICES ASSUME RecordInv, NEW r \in Records, Settled(r), verdict[r] = "ok"
               PROVE  /\ head[r]["live"] = file[r]["live"]
                      /\ IF op[r] = "archive"
                           THEN file[r]["live"] = None /\ file[r]["archive"] # None
                                /\ head[r]["archive"] = file[r]["archive"] /\ archived[r]
                           ELSE file[r]["live"] = db[r] /\ db[r] = new[r]
    BY DEF SuccessAgrees
  <2>1. RowDone(r) /\ FileDone(r) /\ CommitDone(r)
    BY DEF RecordInv, Progress, Settled
  <2>2. "live" \in StagedPaths(op[r])
        /\ (op[r] = "archive" => "archive" \in StagedPaths(op[r]))
    BY DEF StagedPaths, Paths
  <2> QED
    BY <2>1, <2>2 DEF RowDone, FileDone, CommitDone
<1> QED
  BY RecordInvariant, <1>1, PTL

\* A saga that failed and compensated without an error has restored the row and
\* the live file of its record, publishing over an existing row excepted.
THEOREM RollbackIsClean == Spec => []RollbackRestores
<1>1. RecordInv => RollbackRestores
  BY DEF RecordInv, Progress, Restorable, FileBack, RowBack, Settled, RollbackRestores
<1> QED
  BY RecordInvariant, <1>1, PTL

\* What publish read from the draft is in HEAD when the draft is deleted.
THEOREM DraftIsCommittedFirst == Spec => DraftOutlivesCommit
<1>1. RecordInv /\ [Next]_vars =>
        [\A r \in Records :
           DeleteDraft(r) /\ draft[r] = new[r] /\ ~strayed[r]
             => head[r]["live"] = draft[r]]_vars
  <2> SUFFICES ASSUME RecordInv, NEW r \in Records, DeleteDraft(r), draft[r] = new[r],
                      ~strayed[r]
               PROVE  head[r]["live"] = draft[r]
    OBVIOUS
  <2>1. mode[r] = "forward" /\ op[r] = "publish" /\ Step(r) = "draft"
    BY DEF DeleteDraft, Doing
  <2>2. at[r] = 4
    BY <2>1, StepPlaces DEF RecordInv, TypeOK, PositionOK, Step
  <2>3. FileDone(r) /\ CommitDone(r)
    BY <2>1, <2>2 DEF RecordInv, Progress
  <2> QED
    BY <2>1, <2>3 DEF FileDone, CommitDone, StagedPaths
<1> QED
  BY RecordInvariant, <1>1, PTL DEF Spec, DraftOutlivesCommit
=============================================================================
