------------------------- MODULE SagaExecutorProofs -------------------------
(***************************************************************************)
(* The executor over the lock table: for any number of sagas, records and  *)
(* steps, and any timeouts in the order the defaults have.                 *)
(***************************************************************************)
EXTENDS SagaExecutor, ResourceLockProofs

\* Every step of the executor is one statement of the lock manager, or leaves
\* the lock table alone.
LEMMA SagaStepIsLockStep == [SagaNext]_vars => [LockNext]_lockVars
<1> SUFFICES ASSUME [SagaNext]_vars PROVE [LockNext]_lockVars
  OBVIOUS
<1>1. CASE UNCHANGED vars
  BY <1>1 DEF vars
<1>2. CASE SagaTick
  BY <1>2 DEF SagaTick, LockNext
<1>3. ASSUME NEW s \in Holders, Execute(s) PROVE [LockNext]_lockVars
  BY <1>3 DEF Execute, CheckIdempotency, SaveParentRow, AcquireLock, LockRefused,
     ClearIdempotencyKey, SaveKeyedRow, Complete, StartCompensation,
     CompensateStep, EndCompensation, MarkFailed, ReleaseAndReturn,
     LockNext, HolderStep
<1>4. ASSUME NEW s \in Holders, ExecuteSaga(s) \/ SagaTimesOut(s) \/ LateWrite(s)
      PROVE  [LockNext]_lockVars
  BY <1>4 DEF ExecuteSaga, StepEnds, BeginStep, StepSucceeds, StepThrows,
     StepTimesOut, RecordResult, RecordFailure, SagaTimesOut, LateWrite
<1>5. ASSUME NEW s \in Holders, Recover(s) \/ SagaCrash(s) PROVE [LockNext]_lockVars
  BY <1>5 DEF Recover, RecoveryScan, RecoveryRelease, FlagStatus, FlagCompensation,
     SagaCrash, LockNext
<1> QED
  BY <1>1, <1>2, <1>3, <1>4, <1>5 DEF SagaNext

\* The executor uses the lock table as ResourceLock says, so what holds of the
\* table under any callers holds under the sagas.
THEOREM SagasUseTheLock == SagaSpec => LockSpec
<1>1. SagaInit => LockInit
  BY DEF SagaInit
<1> QED
  BY <1>1, SagaStepIsLockStep, PTL DEF SagaSpec, LockSpec

\* So what the sagas of one record see is a lease: it is granted while no saga
\* in time has it.
THEOREM SagasHoldLeases == SagaSpec => KeysAreLeased
BY SagasUseTheLock, LockImplementsLease, PTL

LEMMA SagaInitInv == SagaInit => SagaInv
<1> SUFFICES ASSUME SagaInit PROVE SagaInv
  OBVIOUS
<1>1. LockInv
  BY LockInitInv DEF SagaInit
<1>2. SagaTypeOK
  BY <1>1, SagaAssumption, TimeoutOrder DEF SagaInit, SagaTypeOK, LockInv, Steps, PcStates, RunStates, Outcomes
<1>3. CallHoldsLock /\ RunWatched /\ RowFollows /\ ScanIsLate
  BY DEF SagaInit, LockInit, CallHoldsLock, RunWatched, RowFollows, ScanIsLate
<1>4. StepsInOrder
  BY SagaAssumption DEF SagaInit, StepsInOrder, InOrder, UndoneAbove
<1> QED
  BY <1>1, <1>2, <1>3, <1>4 DEF SagaInv

\* execute() before the race.
LEMMA BeforeTheRace ==
  ASSUME SagaInv, NEW s \in Holders,
         \/ CheckIdempotency(s) \/ SaveParentRow(s) \/ AcquireLock(s)
         \/ LockRefused(s) \/ ClearIdempotencyKey(s) \/ SaveKeyedRow(s)
  PROVE  SagaTypeOK' /\ CallHoldsLock' /\ RunWatched' /\ RowFollows' /\ ScanIsLate'
<1> USE SagaAssumption, LockAssumption, TimeoutOrder
        DEF SagaInv, SagaTypeOK, LockTypeOK, CallHoldsLock, RunWatched,
            RowFollows, ScanIsLate, Steps, PcStates, RunStates, Outcomes, AcqStates,
            lockVars, rowVars, recVars, callVars
<1>1. CASE CheckIdempotency(s)
  <2> PICK w \in {"cached", "duplicate", "none"} :
        /\ pc[s] = "submitted"
        /\ pc' = [pc EXCEPT ![s] = IF w = "none" THEN "saveParent" ELSE "returned"]
        /\ outcome' = IF w = "none" THEN outcome ELSE [outcome EXCEPT ![s] = w]
        /\ UNCHANGED <<lockVars, run, cur, late, applied, undo, unfixed, ik,
                       rowVars, recVars, age>>
    BY <1>1, Zenon DEF CheckIdempotency, Return
  <2>1. CASE w = "none"
    BY <2>1
  <2>2. CASE w # "none"
    BY <2>2
  <2> QED
    BY <2>1, <2>2
<1>2. CASE SaveParentRow(s)
  BY <1>2 DEF SaveParentRow, AcquireExternalLock
<1>3. CASE AcquireLock(s)
  <2>1. CASE InsertLock(s)
    BY <1>3, <2>1 DEF AcquireLock, InsertLock
  <2>2. CASE GetLock(s)
    BY <1>3, <2>2 DEF AcquireLock, GetLock
  <2>3. CASE StealExpired(s)
    BY <1>3, <2>3 DEF AcquireLock, StealExpired, Live
  <2> QED
    BY <1>3, <2>1, <2>2, <2>3 DEF AcquireLock
<1>4. CASE LockRefused(s)
  BY <1>4 DEF LockRefused, AcquireFails, DeleteState, Without, Return
<1>5. CASE ClearIdempotencyKey(s)
  BY <1>5 DEF ClearIdempotencyKey
<1>6. CASE SaveKeyedRow(s)
  <2>1. CASE KeyTaken(s)
    <3>1. /\ pc[s] = "saveKey"
          /\ pc' = [pc EXCEPT ![s] = "failing"]
          /\ outcome' = [outcome EXCEPT ![s] = "failed"]
          /\ UNCHANGED <<run, rowVars, lockVars, cur, late, applied, undo, unfixed,
                         ik, recVars, age>>
      BY <1>6, <2>1, Zenon DEF SaveKeyedRow
    <3> QED
      BY <3>1
  <2>2. CASE ~KeyTaken(s)
    <3>1. /\ pc[s] = "saveKey"
          /\ status' = [status EXCEPT ![s] = "executing"]
          /\ comp' = [comp EXCEPT ![s] = "null"]
          /\ results' = [results EXCEPT ![s] = 0]
          /\ keyCol' = [keyCol EXCEPT ![s] = ik[s]]
          /\ pc' = [pc EXCEPT ![s] = "racing"]
          /\ run' = [run EXCEPT ![s] = "begin"]
          /\ UNCHANGED <<outcome, lockVars, cur, late, applied, undo, unfixed,
                         ik, recVars, age>>
      BY <1>6, <2>2, Zenon DEF SaveKeyedRow
    <3>2. SagaTypeOK'
      BY <3>1
    <3>3. CallHoldsLock' /\ RunWatched'
      BY <3>1
    <3>4. RowFollows' /\ ScanIsLate'
      BY <3>1
    <3> QED
      BY <3>2, <3>3, <3>4
  <2> QED
    BY <2>1, <2>2
<1> QED
  BY <1>1, <1>2, <1>3, <1>4, <1>5, <1>6

\* The loop index stays inside saga.steps.
LEMMA NextStep == \A i \in Steps : i # NSteps => i + 1 \in Steps
BY SagaAssumption DEF Steps

\* executeSaga(), whether or not execute() still waits for it.
LEMMA StepsOfTheRun ==
  ASSUME SagaInv, NEW s \in Holders,
         ExecuteSaga(s) \/ SagaTimesOut(s) \/ LateWrite(s)
  PROVE  SagaTypeOK' /\ CallHoldsLock' /\ RunWatched' /\ RowFollows' /\ ScanIsLate'
<1> USE SagaAssumption, LockAssumption, TimeoutOrder
        DEF SagaInv, SagaTypeOK, LockTypeOK, CallHoldsLock, RunWatched,
            RowFollows, ScanIsLate, Steps, PcStates, RunStates, Outcomes,
            lockVars, rowVars, recVars, callVars
<1>1. CASE BeginStep(s)
  BY <1>1 DEF BeginStep, SetStatus
<1>2. CASE StepSucceeds(s)
  BY <1>2 DEF StepSucceeds
<1>3. CASE StepThrows(s)
  <2>1. SagaTypeOK'
    <3>1. CASE applied' = applied
      BY <1>3, <3>1 DEF StepThrows
    <3>2. CASE applied' = [applied EXCEPT ![s] = @ \cup {cur[s]}]
      BY <1>3, <3>2 DEF StepThrows
    <3> QED
      BY <1>3, <3>1, <3>2 DEF StepThrows
  <2>2. CallHoldsLock' /\ RunWatched'
    BY <1>3 DEF StepThrows
  <2>3. RowFollows' /\ ScanIsLate'
    BY <1>3 DEF StepThrows
  <2> QED
    BY <2>1, <2>2, <2>3
<1>4. CASE StepTimesOut(s)
  BY <1>4 DEF StepTimesOut
<1>5. CASE RecordResult(s)
  <2>1. SagaTypeOK'
    <3>1. cur' \in [Holders -> Steps] /\ results' \in [Holders -> 0 .. NSteps]
      <4>1. cur[s] \in Steps /\ cur[s] \in 0 .. NSteps
        OBVIOUS
      <4>2. cur[s] # NSteps => cur[s] + 1 \in Steps
        BY <4>1, NextStep
      <4>3. cur' = [cur EXCEPT ![s] = IF @ = NSteps THEN @ ELSE @ + 1]
        BY <1>5 DEF RecordResult
      <4>4. results' = [results EXCEPT ![s] = cur[s]]
        BY <1>5 DEF RecordResult
      <4>5. cur' \in [Holders -> Steps]
        BY <4>1, <4>2, <4>3
      <4> QED
        BY <4>1, <4>4, <4>5
    <3>2. run' \in [Holders -> RunStates]
      BY <1>5 DEF RecordResult
    <3>3. UNCHANGED <<lockVars, pc, late, applied, undo, unfixed, outcome, ik,
                      status, comp, keyCol, recVars, age>>
      BY <1>5, Zenon DEF RecordResult
    <3> QED
      BY <3>1, <3>2, <3>3
  <2>2. CallHoldsLock' /\ RunWatched'
    BY <1>5 DEF RecordResult
  <2>3. RowFollows' /\ ScanIsLate'
    BY <1>5 DEF RecordResult
  <2> QED
    BY <2>1, <2>2, <2>3
<1>6. CASE RecordFailure(s)
  BY <1>6 DEF RecordFailure, SetStatus
<1>7. CASE SagaTimesOut(s)
  BY <1>7 DEF SagaTimesOut
<1>8. CASE LateWrite(s)
  BY <1>8 DEF LateWrite
<1> QED
  BY <1>1, <1>2, <1>3, <1>4, <1>5, <1>6, <1>7, <1>8 DEF ExecuteSaga, StepEnds

\* execute() after the race.
LEMMA AfterTheRace ==
  ASSUME SagaInv, NEW s \in Holders,
         \/ Complete(s) \/ StartCompensation(s) \/ CompensateStep(s)
         \/ EndCompensation(s) \/ MarkFailed(s) \/ ReleaseAndReturn(s)
  PROVE  SagaTypeOK' /\ CallHoldsLock' /\ RunWatched' /\ RowFollows' /\ ScanIsLate'
<1> USE SagaAssumption, LockAssumption, TimeoutOrder
        DEF SagaInv, SagaTypeOK, LockTypeOK, CallHoldsLock, RunWatched,
            RowFollows, ScanIsLate, Steps, PcStates, RunStates, Outcomes, AcqStates,
            lockVars, rowVars, recVars, callVars
<1>1. CASE Complete(s)
  BY <1>1 DEF Complete, SetStatus
<1>2. CASE StartCompensation(s)
  BY <1>2 DEF StartCompensation, SetComp
<1>3. CASE CompensateStep(s)
  <2>1. SagaTypeOK'
    <3>1. applied' \in [Holders -> SUBSET Steps]
      BY <1>3 DEF CompensateStep
    <3>2. unfixed' \in [Holders -> SUBSET Steps]
      <4>1. \/ unfixed' = unfixed
            \/ unfixed' = [unfixed EXCEPT ![s] = @ \cup {undo[s]}]
        BY <1>3, Zenon DEF CompensateStep
      <4>2. undo[s] \in Steps
        BY <1>3 DEF CompensateStep
      <4> QED
        BY <4>1, <4>2
    <3>3. undo' \in [Holders -> 0 .. NSteps]
      BY <1>3 DEF CompensateStep
    <3>4. UNCHANGED <<lockVars, pc, run, cur, late, outcome, ik, rowVars, recVars, age>>
      BY <1>3, Zenon DEF CompensateStep
    <3> QED
      BY <3>1, <3>2, <3>3, <3>4
  <2>2. CallHoldsLock' /\ RunWatched'
    BY <1>3 DEF CompensateStep
  <2>3. RowFollows' /\ ScanIsLate'
    BY <1>3 DEF CompensateStep
  <2> QED
    BY <2>1, <2>2, <2>3
<1>4. CASE EndCompensation(s)
  BY <1>4 DEF EndCompensation, SetComp
<1>5. CASE MarkFailed(s)
  BY <1>5 DEF MarkFailed, SetStatus
<1>6. CASE ReleaseAndReturn(s)
  BY <1>6 DEF ReleaseAndReturn, ReleaseLock
<1> QED
  BY <1>1, <1>2, <1>3, <1>4, <1>5, <1>6

\* Recovery, a crash, the clock.
LEMMA AroundTheCall ==
  ASSUME SagaInv,
         (\E s \in Holders : Recover(s) \/ SagaCrash(s)) \/ SagaTick
  PROVE  SagaTypeOK' /\ CallHoldsLock' /\ RunWatched' /\ RowFollows' /\ ScanIsLate'
<1> USE SagaAssumption, LockAssumption, TimeoutOrder
        DEF SagaInv, SagaTypeOK, LockTypeOK, CallHoldsLock, RunWatched,
            RowFollows, ScanIsLate, Steps, PcStates, RunStates, Outcomes, AcqStates,
            lockVars, rowVars, recVars, callVars
<1>1. ASSUME NEW s \in Holders, RecoveryScan(s)
      PROVE  SagaTypeOK' /\ CallHoldsLock' /\ RunWatched' /\ RowFollows' /\ ScanIsLate'
  BY <1>1 DEF RecoveryScan, Stuck, FailedUncompensated
<1>2. ASSUME NEW s \in Holders, RecoveryRelease(s)
      PROVE  SagaTypeOK' /\ CallHoldsLock' /\ RunWatched' /\ RowFollows' /\ ScanIsLate'
  BY <1>2 DEF RecoveryRelease, ReleaseAllForSaga, Without, Live
<1>3. ASSUME NEW s \in Holders, FlagStatus(s)
      PROVE  SagaTypeOK' /\ CallHoldsLock' /\ RunWatched' /\ RowFollows' /\ ScanIsLate'
  BY <1>3 DEF FlagStatus, SetStatus
<1>4. ASSUME NEW s \in Holders, FlagCompensation(s)
      PROVE  SagaTypeOK' /\ CallHoldsLock' /\ RunWatched' /\ RowFollows' /\ ScanIsLate'
  BY <1>4 DEF FlagCompensation, SetComp
<1>5. ASSUME NEW s \in Holders, SagaCrash(s)
      PROVE  SagaTypeOK' /\ CallHoldsLock' /\ RunWatched' /\ RowFollows' /\ ScanIsLate'
  BY <1>5 DEF SagaCrash, Crash, Alive
<1>6. CASE SagaTick
  BY <1>6 DEF SagaTick, OnTime, Tick
<1> QED
  BY <1>1, <1>2, <1>3, <1>4, <1>5, <1>6 DEF Recover

\* The progress of a saga is its own: what another one does to the shared tables
\* takes at most the idempotency key from its row.
LEMMA OtherSagaKept ==
  ASSUME NEW t \in Holders, InOrder(t), UndoneAbove(t),
         pc'[t] = pc[t], run'[t] = run[t], cur'[t] = cur[t], late'[t] = late[t],
         applied'[t] = applied[t], undo'[t] = undo[t], unfixed'[t] = unfixed[t],
         ik'[t] = ik[t], status'[t] = status[t], comp'[t] = comp[t],
         results'[t] = results[t], keyCol'[t] \in {NoKey, keyCol[t]}
  PROVE  InOrder(t)' /\ UndoneAbove(t)'
BY DEF InOrder, UndoneAbove

\* Every step of the executor keeps the steps in order.
LEMMA StepsKept == SagaInv /\ SagaNext => StepsInOrder'
<1> SUFFICES ASSUME SagaInv, SagaNext, NEW t \in Holders
             PROVE  InOrder(t)' /\ UndoneAbove(t)'
  BY DEF StepsInOrder
<1> DEFINE Goal == InOrder(t)' /\ UndoneAbove(t)'
<1>i. SagaTypeOK /\ InOrder(t) /\ UndoneAbove(t)
  BY DEF SagaInv, StepsInOrder
<1>w. /\ pc[t] \in {"submitted", "saveParent", "locking", "saveKey", "dead"}
           => run[t] = "off"
      /\ pc[t] = "compensating" => run[t] = "threw"
      /\ status[t] = "completed" => run[t] \in {"off", "finished"}
  BY DEF SagaInv, RunWatched, RowFollows
<1> USE <1>i, <1>w, SagaAssumption DEF SagaTypeOK, lockVars, rowVars, recVars, callVars, Steps
<1>1. ASSUME NEW s \in Holders, CheckIdempotency(s) PROVE Goal
  BY <1>1 DEF CheckIdempotency, Return, InOrder, UndoneAbove
<1>2. ASSUME NEW s \in Holders,
             SaveParentRow(s) \/ AcquireLock(s) \/ LockRefused(s)
      PROVE  Goal
  <2>1. CASE s # t
    BY <1>2, <2>1, OtherSagaKept DEF SaveParentRow, AcquireLock, LockRefused, Return
  <2>2. CASE s = t
    BY <1>2, <2>2 DEF SaveParentRow, AcquireLock, LockRefused, Return, InOrder, UndoneAbove
  <2> QED
    BY <2>1, <2>2
<1>3. ASSUME NEW s \in Holders, ClearIdempotencyKey(s) PROVE Goal
  <2>1. CASE s # t
    BY <1>3, <2>1, OtherSagaKept DEF ClearIdempotencyKey
  <2>2. CASE s = t
    BY <1>3, <2>2 DEF ClearIdempotencyKey, InOrder, UndoneAbove
  <2> QED
    BY <2>1, <2>2
<1>4. ASSUME NEW s \in Holders, SaveKeyedRow(s) PROVE Goal
  <2>1. CASE s # t
    BY <1>4, <2>1, OtherSagaKept DEF SaveKeyedRow
  <2>2. CASE s = t
    BY <1>4, <2>2 DEF SaveKeyedRow, InOrder, UndoneAbove
  <2> QED
    BY <2>1, <2>2
<1>5. ASSUME NEW s \in Holders, BeginStep(s) PROVE Goal
  <2>1. CASE s # t
    BY <1>5, <2>1, OtherSagaKept DEF BeginStep, SetStatus
  <2>2. CASE s = t
    BY <1>5, <2>2 DEF BeginStep, SetStatus, InOrder, UndoneAbove
  <2> QED
    BY <2>1, <2>2
<1>6. ASSUME NEW s \in Holders, StepEnds(s) PROVE Goal
  <2>1. CASE s # t
    BY <1>6, <2>1, OtherSagaKept DEF StepEnds, StepSucceeds, StepThrows, StepTimesOut
  <2>2. CASE s = t
    <3>1. CASE StepSucceeds(s)
      BY <2>2, <3>1 DEF StepSucceeds, InOrder, UndoneAbove
    <3>2. CASE StepThrows(s)
      <4>1. applied'[t] = applied[t] \/ applied'[t] = applied[t] \cup {cur[t]}
        BY <2>2, <3>2 DEF StepThrows
      <4> QED
        BY <2>2, <3>2, <4>1 DEF StepThrows, InOrder, UndoneAbove
    <3>3. CASE StepTimesOut(s)
      BY <2>2, <3>3 DEF StepTimesOut, InOrder, UndoneAbove
    <3> QED
      BY <1>6, <3>1, <3>2, <3>3 DEF StepEnds
  <2> QED
    BY <2>1, <2>2
<1>7. ASSUME NEW s \in Holders, RecordResult(s) PROVE Goal
  BY <1>7 DEF RecordResult, InOrder, UndoneAbove
<1>8. ASSUME NEW s \in Holders, RecordFailure(s) PROVE Goal
  BY <1>8 DEF RecordFailure, SetStatus, InOrder, UndoneAbove
<1>9. ASSUME NEW s \in Holders, SagaTimesOut(s) PROVE Goal
  <2>1. CASE s # t
    BY <1>9, <2>1, OtherSagaKept DEF SagaTimesOut
  <2>2. CASE s = t
    BY <1>9, <2>2 DEF SagaTimesOut, InOrder, UndoneAbove
  <2> QED
    BY <2>1, <2>2
<1>10. ASSUME NEW s \in Holders, LateWrite(s) PROVE Goal
  <2>1. CASE s # t
    BY <1>10, <2>1, OtherSagaKept DEF LateWrite
  <2>2. CASE s = t
    BY <1>10, <2>2 DEF LateWrite, InOrder, UndoneAbove
  <2> QED
    BY <2>1, <2>2
<1>11. ASSUME NEW s \in Holders, Complete(s) PROVE Goal
  BY <1>11 DEF Complete, SetStatus, InOrder, UndoneAbove
<1>12. ASSUME NEW s \in Holders, StartCompensation(s) PROVE Goal
  <2>1. CASE s # t
    BY <1>12, <2>1, OtherSagaKept DEF StartCompensation, SetComp
  <2>2. CASE s = t
    <3>1. InOrder(t)'
      BY <1>12, <2>2 DEF StartCompensation, InOrder
    <3>2. UndoneAbove(t)'
      <4>1. \A i \in applied[t] : i > cur[t] - 1 => i = cur[t]
        BY DEF InOrder
      <4>2. undo'[t] = cur[t] - 1 /\ applied' = applied /\ cur' = cur /\ run' = run
        BY <1>12, <2>2 DEF StartCompensation
      <4>3. comp'[t] = "completed" => comp[t] = "completed"
        BY <1>12, <2>2 DEF StartCompensation, SetComp
      <4> QED
        BY <4>1, <4>2, <4>3 DEF UndoneAbove
    <3> QED
      BY <3>1, <3>2
  <2> QED
    BY <2>1, <2>2
<1>13. ASSUME NEW s \in Holders, CompensateStep(s) PROVE Goal
  <2>1. CASE s # t
    BY <1>13, <2>1, OtherSagaKept DEF CompensateStep
  <2>2. CASE s = t
    <3>t. cur[t] \in Nat /\ undo[t] \in Nat /\ applied[t] \subseteq Nat
      OBVIOUS
    <3>1. /\ pc[t] = "compensating" /\ undo[t] > 0 /\ undo'[t] = undo[t] - 1
          /\ UNCHANGED <<pc, run, cur, late, ik, status, comp, keyCol, results>>
      BY <1>13, <2>2 DEF CompensateStep
    <3>2. \/ undo[t] \notin Compensatable /\ UNCHANGED <<applied, unfixed>>
          \/ /\ applied'[t] = IF results[t] >= undo[t] THEN applied[t] \ {undo[t]}
                                                      ELSE applied[t]
             /\ unfixed' = unfixed
          \/ unfixed'[t] = unfixed[t] \cup {undo[t]} /\ applied' = applied
      BY <1>13, <2>2 DEF CompensateStep
    <3>3. applied'[t] \subseteq applied[t]
      BY <3>2
    <3>4. InOrder(t)'
      BY <3>1, <3>3 DEF InOrder
    <3>5. undo[t] \in applied'[t] \cap Compensatable =>
            undo[t] = cur[t] \/ undo[t] \in unfixed'[t]
      <4> SUFFICES ASSUME undo[t] \in applied'[t], undo[t] \in Compensatable,
                          undo[t] # cur[t]
                   PROVE  undo[t] \in unfixed'[t]
        OBVIOUS
      <4>1. undo[t] \in 1 .. cur[t] /\ results[t] = cur[t] - 1
        BY <3>1, <3>3 DEF InOrder
      <4>2. results[t] >= undo[t]
        <5>1. cur[t] \in Nat /\ undo[t] \in Nat
          BY <3>t
        <5>2. undo[t] <= cur[t] /\ results[t] = cur[t] - 1
          BY <4>1
        <5>3. undo[t] # cur[t]
          OBVIOUS
        <5>4. undo[t] <= cur[t] - 1
          BY <5>1, <5>2, <5>3
        <5> QED
          BY <5>1, <5>2, <5>4
      <4> QED
        BY <3>2, <4>2
    <3>6. UndoneAbove(t)'
      <4>1. comp'[t] = "completed" =>
              /\ run'[t] \in {"threw", "off"}
              /\ applied'[t] \cap Compensatable \subseteq {cur'[t]}
        BY <3>1, <3>3 DEF UndoneAbove
      <4>2. ASSUME NEW i \in applied'[t] \cap Compensatable, i > undo'[t], i # undo[t]
            PROVE  i = cur'[t] \/ i \in unfixed'[t]
        <5>1. i \in applied[t] /\ i > undo[t]
          BY <3>t, <3>1, <3>3, <4>2
        <5>2. i = cur[t] \/ i \in unfixed[t]
          BY <3>1, <5>1 DEF UndoneAbove
        <5> QED
          BY <3>1, <3>2, <5>2
      <4> QED
        BY <3>1, <3>5, <4>1, <4>2 DEF UndoneAbove
    <3> QED
      BY <3>4, <3>6
  <2> QED
    BY <2>1, <2>2
<1>14. ASSUME NEW s \in Holders, EndCompensation(s) PROVE Goal
  <2>1. CASE s # t
    BY <1>14, <2>1, OtherSagaKept DEF EndCompensation, SetComp
  <2>2. CASE s = t
    BY <1>14, <2>2 DEF EndCompensation, SetComp, InOrder, UndoneAbove
  <2> QED
    BY <2>1, <2>2
<1>15. ASSUME NEW s \in Holders, MarkFailed(s) \/ ReleaseAndReturn(s) PROVE Goal
  <2>1. CASE s # t
    BY <1>15, <2>1, OtherSagaKept DEF MarkFailed, ReleaseAndReturn, SetStatus
  <2>2. CASE s = t
    BY <1>15, <2>2 DEF MarkFailed, ReleaseAndReturn, SetStatus, InOrder, UndoneAbove
  <2> QED
    BY <2>1, <2>2
<1>16. ASSUME NEW s \in Holders, Recover(s) PROVE Goal
  <2>1. CASE s # t
    BY <1>16, <2>1, OtherSagaKept DEF Recover, RecoveryScan, RecoveryRelease, FlagStatus, FlagCompensation,
       SetStatus, SetComp
  <2>2. CASE s = t
    BY <1>16, <2>2 DEF Recover, RecoveryScan, RecoveryRelease, FlagStatus, FlagCompensation,
       SetStatus, SetComp, InOrder, UndoneAbove
  <2> QED
    BY <2>1, <2>2
<1>17. ASSUME NEW s \in Holders, SagaCrash(s) PROVE Goal
  BY <1>17 DEF SagaCrash, InOrder, UndoneAbove
<1>18. CASE SagaTick
  BY <1>18 DEF SagaTick, InOrder, UndoneAbove
<1> QED
  BY <1>1, <1>2, <1>3, <1>4, <1>5, <1>6, <1>7, <1>8, <1>9, <1>10, <1>11, <1>12,
     <1>13, <1>14, <1>15, <1>16, <1>17, <1>18 DEF SagaNext, Execute, ExecuteSaga

\* SagaInv is inductive.
LEMMA SagaNextInv == SagaInv /\ [SagaNext]_vars => SagaInv'
<1> SUFFICES ASSUME SagaInv, [SagaNext]_vars PROVE SagaInv'
  OBVIOUS
<1>1. LockInv'
  BY SagaStepIsLockStep, LockNextInv DEF SagaInv
<1>2. SagaTypeOK' /\ CallHoldsLock' /\ RunWatched' /\ RowFollows' /\ ScanIsLate'
  <2>1. CASE UNCHANGED vars
    BY <2>1 DEF vars, lockVars, callVars, rowVars, recVars, SagaInv, SagaTypeOK,
       LockTypeOK, CallHoldsLock, RunWatched, RowFollows, ScanIsLate
  <2>2. CASE SagaNext
    BY <2>2, BeforeTheRace, StepsOfTheRun, AfterTheRace, AroundTheCall
       DEF SagaNext, Execute
  <2> QED
    BY <2>1, <2>2
<1>3. StepsInOrder'
  <2>1. CASE UNCHANGED vars
    BY <2>1 DEF vars, callVars, rowVars, SagaInv, StepsInOrder, InOrder, UndoneAbove
  <2>2. CASE SagaNext
    BY <2>2, StepsKept
  <2> QED
    BY <2>1, <2>2
<1> QED
  BY <1>1, <1>2, <1>3 DEF SagaInv

\* What ties execute(), executeSaga(), the saga's row, its lock and the recovery
\* scans together holds for any sagas, records, keys, steps and timeouts.
THEOREM SagaInvariant == SagaSpec => []SagaInv
BY SagaInitInv, SagaNextInv, PTL DEF SagaSpec

\* Type correctness of the executor's state and the lock table under it.
THEOREM SagaTypeCorrect == SagaSpec => []SagaTypeOK
<1>1. SagaInv => SagaTypeOK
  BY DEF SagaInv
<1> QED
  BY SagaInvariant, <1>1, PTL

\* Two sagas of one record never write at the same time unless a timer has
\* fired or recovery has taken a lock: a saga that writes in time holds the row
\* of its record, and the row has one holder.
THEOREM SagasExclusiveInTime == SagaSpec => []ExclusiveInTime
<1>1. SagaInv => ExclusiveInTime
  <2> SUFFICES ASSUME SagaInv, NEW s \in Holders, NEW t \in Holders,
                      s # t, wants[s] = wants[t], Writing(s), Writing(t),
                      ~OutOfTime(s), ~OutOfTime(t)
               PROVE  FALSE
    BY DEF ExclusiveInTime
  <2>1. Holding(s) /\ Holding(t)
    BY DEF SagaInv, CallHoldsLock, RunWatched, Writing, OutOfTime, Holding
  <2>2. HolderOwnsRow
    BY DEF SagaInv, LockInv
  <2> QED
    BY <2>1, <2>2 DEF HolderOwnsRow, OutOfTime
<1> QED
  BY SagaInvariant, <1>1, PTL

\* A call that has returned holds no lock, and its row is final unless the saga
\* timer fired.
THEOREM ReturnedCallsAreClean == SagaSpec => [](ReturnedHoldsNoLock /\ NoPhantomExecuting)
<1>1. SagaInv => ReturnedHoldsNoLock /\ NoPhantomExecuting
  BY DEF SagaInv, LockInv, NoLeakedRow, CallHoldsLock, RowFollows,
     ReturnedHoldsNoLock, NoPhantomExecuting
<1> QED
  BY SagaInvariant, <1>1, PTL

\* compensation_status 'completed' is the truth: whatever timed out, crashed or
\* was written late, every compensatable step before the failed one is undone.
THEOREM CompletedCompensationUndid == SagaSpec => []CompensationUndoesPrefix
<1>1. SagaInv => CompensationUndoesPrefix
  BY DEF SagaInv, StepsInOrder, UndoneAbove, CompensationUndoesPrefix
<1> QED
  BY SagaInvariant, <1>1, PTL

\* A row that has all its results keeps them, and a call keeps its key.
LEMMA FullRowStays ==
  ASSUME SagaInv, SagaNext
  PROVE  ik' = ik /\ \A t \in Holders : results[t] = NSteps => results'[t] = NSteps
<1> USE SagaAssumption DEF callVars, rowVars, recVars
<1>1. ASSUME NEW s \in Holders, Execute(s)
      PROVE  /\ ik' = ik
             /\ results' = results \/ (pc[s] = "saveKey" /\ results' = [results EXCEPT ![s] = 0])
  BY <1>1, Zenon DEF Execute, CheckIdempotency, SaveParentRow, AcquireLock, LockRefused,
     ClearIdempotencyKey, SaveKeyedRow, Complete, StartCompensation,
     CompensateStep, EndCompensation, MarkFailed, ReleaseAndReturn
<1>2. ASSUME NEW s \in Holders,
             ExecuteSaga(s) \/ SagaTimesOut(s) \/ LateWrite(s)
      PROVE  /\ ik' = ik
             /\ \/ results' = results
                \/ /\ run[s] \in {"begin", "record"}
                   /\ \E n : results' = [results EXCEPT ![s] = n]
  BY <1>2 DEF ExecuteSaga, StepEnds, BeginStep, StepSucceeds, StepThrows,
     StepTimesOut, RecordResult, RecordFailure, SagaTimesOut, LateWrite
<1>3. ASSUME NEW s \in Holders, Recover(s) \/ SagaCrash(s)
      PROVE  ik' = ik /\ results' = results
  BY <1>3 DEF Recover, RecoveryScan, RecoveryRelease, FlagStatus, FlagCompensation,
     SagaCrash
<1>4. CASE SagaTick
  BY <1>4 DEF SagaTick
<1>5. \A t \in Holders : results[t] = NSteps =>
        pc[t] # "saveKey" /\ run[t] \notin {"begin", "record"}
  BY DEF SagaInv, StepsInOrder, InOrder
<1>6. results \in [Holders -> 0 .. NSteps]
  BY DEF SagaInv, SagaTypeOK
<1>7. ASSUME NEW s \in Holders, Execute(s)
      PROVE  \A t \in Holders : results[t] = NSteps => results'[t] = NSteps
  BY <1>1, <1>5, <1>6, <1>7
<1>8. ASSUME NEW s \in Holders, ExecuteSaga(s) \/ SagaTimesOut(s) \/ LateWrite(s)
      PROVE  \A t \in Holders : results[t] = NSteps => results'[t] = NSteps
  BY <1>2, <1>5, <1>6, <1>8
<1> QED
  BY <1>1, <1>2, <1>3, <1>4, <1>7, <1>8, Zenon DEF SagaNext

\* A call gets a cached answer only from another saga's completed row.
LEMMA CachedFromCompleted ==
  ASSUME SagaInv, SagaNext, NEW s \in Holders, outcome'[s] = "cached",
         outcome[s] # "cached"
  PROVE  \E t \in Holders : t # s /\ ik[t] = ik[s] /\ results[t] = NSteps
<1>t. outcome \in [Holders -> Outcomes]
  BY DEF SagaInv, SagaTypeOK
<1>1. CheckIdempotency(s)
  <2>1. ASSUME NEW t \in Holders, Execute(t) PROVE t = s /\ CheckIdempotency(s)
    <3>1. CheckIdempotency(t)
      BY <1>t, <2>1 DEF Execute, SaveParentRow, AcquireLock, LockRefused, Return,
         ClearIdempotencyKey, SaveKeyedRow, Complete, StartCompensation,
         CompensateStep, EndCompensation, MarkFailed, ReleaseAndReturn, callVars
    <3>2. outcome'[t] = outcome[t] \/ s = t
      BY <1>t, <3>1 DEF CheckIdempotency, Return
    <3> QED
      BY <1>t, <3>1, <3>2 DEF CheckIdempotency, Return
  <2>2. ASSUME NEW t \in Holders,
               \/ ExecuteSaga(t) \/ SagaTimesOut(t) \/ LateWrite(t)
               \/ Recover(t) \/ SagaCrash(t)
        PROVE  FALSE
    BY <1>t, <2>2 DEF ExecuteSaga, StepEnds, BeginStep, StepSucceeds, StepThrows,
       StepTimesOut, RecordResult, RecordFailure, SagaTimesOut, LateWrite, callVars,
       Recover, RecoveryScan, RecoveryRelease, FlagStatus, FlagCompensation, SagaCrash
  <2>3. CASE SagaTick
    BY <2>3 DEF SagaTick, callVars
  <2> QED
    BY <2>1, <2>2, <2>3 DEF SagaNext
<1>2. \E t \in Prior(s) : status[t] = "completed"
  BY <1>1, <1>t DEF CheckIdempotency, Return
<1>3. PICK t \in parent : keyCol[t] = ik[s] /\ status[t] = "completed"
  BY <1>2 DEF Prior
<1>4. t \in Holders /\ s \notin parent
  BY <1>1 DEF SagaInv, SagaTypeOK, LockTypeOK, CallHoldsLock, CheckIdempotency
<1>5. results[t] = NSteps /\ keyCol[t] \in {NoKey, ik[t]}
  BY <1>3, <1>4 DEF SagaInv, StepsInOrder, InOrder
<1>6. ik[s] # NoKey
  BY SagaAssumption DEF SagaInv, SagaTypeOK
<1> QED
  BY <1>3, <1>4, <1>5, <1>6

\* A cached answer is the result of a run that did everything, whatever has
\* happened to that run's row since.
THEOREM CachedAnswersAreComplete == SagaSpec => []CachedIsComplete
<1> DEFINE Cached == \A s \in Holders : outcome[s] = "cached" =>
             \E t \in Holders : t # s /\ ik[t] = ik[s] /\ results[t] = NSteps
<1>1. SagaInit => Cached
  BY DEF SagaInit
<1>2. SagaInv /\ Cached /\ [SagaNext]_vars => Cached'
  <2> SUFFICES ASSUME SagaInv, Cached, [SagaNext]_vars PROVE Cached'
    OBVIOUS
  <2>1. CASE UNCHANGED vars
    BY <2>1 DEF vars, callVars, rowVars
  <2>2. CASE SagaNext
    <3> SUFFICES ASSUME NEW s \in Holders, outcome'[s] = "cached"
                 PROVE  \E t \in Holders : t # s /\ ik'[t] = ik'[s] /\ results'[t] = NSteps
      OBVIOUS
    <3>1. \E t \in Holders : t # s /\ ik[t] = ik[s] /\ results[t] = NSteps
      BY <2>2, CachedFromCompleted
    <3> QED
      BY <2>2, <3>1, FullRowStays
  <2> QED
    BY <2>1, <2>2
<1>3. SagaInv /\ Cached => CachedIsComplete
  BY DEF SagaInv, StepsInOrder, InOrder, CachedIsComplete
<1> QED
  BY SagaInvariant, <1>1, <1>2, <1>3, PTL DEF SagaSpec

\* Recovery never unlocks a saga whose steps still run before its timeout.
THEOREM RecoveryIsSafe == SagaSpec => RecoverySparesRunning
<1>1. SagaInv /\ [SagaNext]_vars =>
        [\A s \in Holders :
           RecoveryRelease(s) /\ pc[s] = "racing" => run[s] = "threw"]_vars
  BY DEF SagaInv, ScanIsLate, RecoveryRelease
<1> QED
  BY SagaInvariant, <1>1, PTL DEF SagaSpec, RecoverySparesRunning

\* A saga reported successful stays so: no failure path of its own call, no
\* straggling executeSaga() and no recovery scan relabels or deletes its row.
THEOREM CompletedStays == SagaSpec => CompletedIsFinal
<1> DEFINE Stays == \A t \in Holders : t \in parent /\ status[t] = "completed"
                      => t \in parent' /\ status'[t] = "completed"
<1>1. ASSUME SagaInv, SagaNext PROVE Stays
  <2> USE <1>1 DEF SagaInv, SagaTypeOK, LockTypeOK, RowFollows, ScanIsLate,
              RunWatched, lockVars, rowVars, SetStatus
  <2>1. ASSUME NEW s \in Holders, SaveParentRow(s) PROVE Stays
    BY <2>1 DEF SaveParentRow, AcquireExternalLock
  <2>2. ASSUME NEW s \in Holders, AcquireLock(s) PROVE Stays
    BY <2>2 DEF AcquireLock, InsertLock, GetLock, StealExpired
  <2>3. ASSUME NEW s \in Holders, LockRefused(s) PROVE Stays
    BY <2>3 DEF LockRefused, AcquireFails, DeleteState
  <2>4. ASSUME NEW s \in Holders, SaveKeyedRow(s) PROVE Stays
    <3>1. pc[s] = "saveKey" /\ parent' = parent
          /\ \A t \in Holders \ {s} : status'[t] = status[t]
      BY <2>4 DEF SaveKeyedRow
    <3> QED
      BY <3>1
  <2>5. ASSUME NEW s \in Holders,
               \/ CheckIdempotency(s) \/ ClearIdempotencyKey(s)
               \/ StartCompensation(s) \/ CompensateStep(s) \/ EndCompensation(s)
        PROVE  Stays
    BY <2>5, Zenon DEF CheckIdempotency, ClearIdempotencyKey, StartCompensation,
       CompensateStep, EndCompensation
  <2>6. ASSUME NEW s \in Holders, Complete(s) \/ MarkFailed(s) PROVE Stays
    BY <2>6 DEF Complete, MarkFailed
  <2>7. ASSUME NEW s \in Holders, ReleaseAndReturn(s) PROVE Stays
    BY <2>7 DEF ReleaseAndReturn, ReleaseLock
  <2>8. ASSUME NEW s \in Holders, BeginStep(s) \/ RecordFailure(s) PROVE Stays
    BY <2>8 DEF BeginStep, RecordFailure
  <2>9. ASSUME NEW s \in Holders,
               StepEnds(s) \/ RecordResult(s) \/ SagaTimesOut(s) \/ LateWrite(s)
        PROVE  Stays
    BY <2>9, Zenon DEF StepEnds, StepSucceeds, StepThrows, StepTimesOut,
       RecordResult, SagaTimesOut, LateWrite
  <2>10. ASSUME NEW s \in Holders, Recover(s) PROVE Stays
    BY <2>10 DEF Recover, RecoveryScan, RecoveryRelease, ReleaseAllForSaga,
       FlagStatus, FlagCompensation
  <2>11. ASSUME NEW s \in Holders, SagaCrash(s) PROVE Stays
    BY <2>11 DEF SagaCrash, Crash
  <2>12. CASE SagaTick
    BY <2>12 DEF SagaTick, Tick
  <2> QED
    BY <1>1, <2>1, <2>2, <2>3, <2>4, <2>5, <2>6, <2>7, <2>8, <2>9, <2>10, <2>11, <2>12,
       Zenon DEF SagaNext, Execute, ExecuteSaga
<1>2. SagaInv /\ [SagaNext]_vars =>
        [\A s \in Holders : s \in parent /\ status[s] = "completed"
           => s \in parent' /\ status'[s] = "completed"]_vars
  BY <1>1
<1> QED
  BY SagaInvariant, <1>2, PTL DEF SagaSpec, CompletedIsFinal
=============================================================================
