---------------------------- MODULE SagaExecutor ----------------------------
(***************************************************************************)
(* core/src/saga/saga-executor.ts with the idempotency check, the          *)
(* saga_states rows and the recovery scan, over the lock table of          *)
(* ResourceLock.  Holders are saga ids: one per call of execute.           *)
(*                                                                         *)
(* execute() races executeSaga() against a timer and nothing cancels the   *)
(* loser, so the two have program counters of their own: pc for execute,   *)
(* run for executeSaga.  late holds the steps whose execute() lost the     *)
(* race against its step timer and may still write.                        *)
(***************************************************************************)
EXTENDS ResourceLock

CONSTANTS
  IdemKeys,       \* idempotency keys, as generateIdempotencyKey makes them
  NoKey,          \* idempotency_key IS NULL
  NSteps,         \* saga.steps.length
  Compensatable,  \* steps with isCompensatable and a compensate method
  Critical,       \* steps for which isCriticalStep holds
  SagaTimeout,    \* config.defaultTimeout, in ticks
  KeyTtl,         \* ttl of checkIdempotency for the key
  Staleness,      \* IN_FLIGHT_STALENESS_MS
  StuckTimeout,   \* stuckTimeoutMs of the recovery scan
  Scannable,      \* bound: the sagas whose rows a recovery scan comes upon
  Crashable       \* bound: the sagas whose process may die

Steps == 1 .. NSteps

ASSUME SagaAssumption ==
  /\ NoKey \notin IdemKeys
  /\ NSteps \in Nat \ {0}
  /\ Compensatable \subseteq Steps
  /\ Critical \subseteq Steps
  /\ Scannable \subseteq Holders
  /\ Crashable \subseteq Holders
  /\ {SagaTimeout, KeyTtl, Staleness, StuckTimeout} \subseteq Nat
  /\ MaxAttempts = 1                 \* execute does not retry a refused lock

\* The defaults are ordered: 300 s, 330 s (lock), 360 s, 600 s.
ASSUME TimeoutOrder ==
  /\ SagaTimeout < LockTimeout
  /\ SagaTimeout < Staleness
  /\ LockTimeout < StuckTimeout

VARIABLES
  pc,        \* where execute() is
  run,       \* where executeSaga() is
  cur,       \* currentStepIndex of executeSaga
  late,      \* steps that timed out and are still running
  applied,   \* steps whose writes are in place
  undo,      \* compensate()'s loop index
  unfixed,   \* compensations that threw
  outcome,   \* what the caller of execute() got
  ik,        \* the idempotency key of the call
  status,    \* saga_states.status
  comp,      \* saga_states.compensation_status
  keyCol,    \* saga_states.idempotency_key
  results,   \* length of saga_states.step_results
  age,       \* ticks since saga_states.started_at
  rec,       \* where a recovery scan is with this saga
  seen       \* the status the scan read

callVars == <<pc, run, cur, late, applied, undo, unfixed, outcome, ik>>
rowVars == <<status, comp, keyCol, results>>
recVars == <<rec, seen>>
vars == <<lockVars, callVars, rowVars, recVars, age>>

PcStates == {"submitted", "saveParent", "locking", "saveKey", "racing",
             "compensating", "failing", "unlocking", "returned", "dead"}
RunStates == {"off", "begin", "exec", "record", "fail", "finished", "threw"}
Outcomes == {"none", "ok", "cached", "duplicate", "locked", "failed", "timeout"}

SagaTypeOK ==
  /\ LockTypeOK
  /\ pc \in [Holders -> PcStates]
  /\ run \in [Holders -> RunStates]
  /\ cur \in [Holders -> Steps]
  /\ late \in [Holders -> SUBSET Steps]
  /\ applied \in [Holders -> SUBSET Steps]
  /\ undo \in [Holders -> 0 .. NSteps]
  /\ unfixed \in [Holders -> SUBSET Steps]
  /\ outcome \in [Holders -> Outcomes]
  /\ ik \in [Holders -> IdemKeys]
  /\ status \in [Holders -> {"executing", "completed", "failed"}]
  /\ comp \in [Holders -> {"null", "executing", "completed", "partial", "failed"}]
  /\ keyCol \in [Holders -> IdemKeys \cup {NoKey}]
  /\ results \in [Holders -> 0 .. NSteps]
  /\ age \in [Holders -> 0 .. StuckTimeout + 1]
  /\ rec \in [Holders -> {"none", "release", "status", "comp"}]
  /\ seen \in [Holders -> {"executing", "failed"}]

SagaInit ==
  /\ LockInit
  /\ pc = [s \in Holders |-> "submitted"]
  /\ run = [s \in Holders |-> "off"]
  /\ cur = [s \in Holders |-> 1]
  /\ late = [s \in Holders |-> {}]
  /\ applied = [s \in Holders |-> {}]
  /\ undo = [s \in Holders |-> 0]
  /\ unfixed = [s \in Holders |-> {}]
  /\ outcome = [s \in Holders |-> "none"]
  /\ ik \in [Holders -> IdemKeys]
  /\ status = [s \in Holders |-> "executing"]
  /\ comp = [s \in Holders |-> "null"]
  /\ keyCol = [s \in Holders |-> NoKey]
  /\ results = [s \in Holders |-> 0]
  /\ age = [s \in Holders |-> 0]
  /\ rec = [s \in Holders |-> "none"]
  /\ seen = [s \in Holders |-> "executing"]

Return(s, what) ==
  /\ pc' = [pc EXCEPT ![s] = "returned"]
  /\ outcome' = [outcome EXCEPT ![s] = what]

\* UPDATE saga_states SET status = ? WHERE id = ?: nothing without the row.
SetStatus(s, st) ==
  status' = IF s \in parent THEN [status EXCEPT ![s] = st] ELSE status

SetComp(s, c) ==
  comp' = IF s \in parent THEN [comp EXCEPT ![s] = c] ELSE comp

-----------------------------------------------------------------------------
(* execute(), up to the race.                                              *)

\* The rows that getStateByIdempotencyKey returns for the key and that have
\* not outlived the key's ttl.  The column is UNIQUE: at most one.
Prior(s) == {t \in parent : keyCol[t] = ik[s] /\ age[t] <= KeyTtl}

\* Nothing was written yet: a cached result, a refusal, or go on.
CheckIdempotency(s) ==
  /\ pc[s] = "submitted"
  /\ IF \E t \in Prior(s) : status[t] = "completed"
       THEN Return(s, "cached")
       ELSE IF \E t \in Prior(s) : status[t] = "executing" /\ age[t] <= Staleness
       THEN Return(s, "duplicate")
       ELSE /\ pc' = [pc EXCEPT ![s] = "saveParent"]
            /\ UNCHANGED outcome
  /\ UNCHANGED <<lockVars, run, cur, late, applied, undo, unfixed, ik,
                 rowVars, recVars, age>>

\* saveState without the key, then acquireLock starts.
SaveParentRow(s) ==
  /\ pc[s] = "saveParent"
  /\ AcquireExternalLock(s)
  /\ pc' = [pc EXCEPT ![s] = "locking"]
  /\ UNCHANGED <<run, cur, late, applied, undo, unfixed, outcome, ik,
                 rowVars, recVars, age>>

\* The statements of acquireLock, as ResourceLock has them.
AcquireLock(s) ==
  /\ pc[s] = "locking"
  /\ InsertLock(s) \/ GetLock(s) \/ StealExpired(s)
  /\ UNCHANGED <<callVars, rowVars, recVars, age>>

\* Mutant: a refusal leaves the row that could not be deleted as it is.
LockRefusedUnmarked(s) ==
  /\ pc[s] = "locking"
  /\ AcquireFails(s)
  /\ Return(s, "locked")
  /\ UNCHANGED <<run, cur, late, applied, undo, unfixed, ik,
                 rowVars, recVars, age>>

\* SagaLockError: the parent row is deleted (best effort), the outer catch
\* marks what is left of it failed, and execute rethrows.
LockRefused(s) ==
  /\ pc[s] = "locking"
  /\ AcquireFails(s)
  /\ status' = IF s \in parent' THEN [status EXCEPT ![s] = "failed"] ELSE status
  /\ Return(s, "locked")
  /\ UNCHANGED <<run, cur, late, applied, undo, unfixed, ik,
                 comp, keyCol, results, recVars, age>>

\* clearIdempotencyKey: whoever has the key gives it up.
ClearIdempotencyKey(s) ==
  /\ pc[s] = "locking"
  /\ acq[s] = "holding"
  /\ keyCol' = [t \in Holders |->
                  IF t \in parent /\ keyCol[t] = ik[s] THEN NoKey ELSE keyCol[t]]
  /\ pc' = [pc EXCEPT ![s] = "saveKey"]
  /\ UNCHANGED <<lockVars, run, cur, late, applied, undo, unfixed, outcome, ik,
                 status, comp, results, recVars, age>>

KeyTaken(s) == \E t \in parent \ {s} : keyCol[t] = ik[s]

\* saveState with the key: the upsert of the whole row, or the UNIQUE
\* constraint when another saga claimed the key since; then the race starts.
SaveKeyedRow(s) ==
  /\ pc[s] = "saveKey"
  /\ IF KeyTaken(s)
       THEN /\ pc' = [pc EXCEPT ![s] = "failing"]
            /\ outcome' = [outcome EXCEPT ![s] = "failed"]
            /\ UNCHANGED <<run, rowVars>>
       ELSE /\ status' = [status EXCEPT ![s] = "executing"]
            /\ comp' = [comp EXCEPT ![s] = "null"]
            /\ results' = [results EXCEPT ![s] = 0]
            /\ keyCol' = [keyCol EXCEPT ![s] = ik[s]]
            /\ pc' = [pc EXCEPT ![s] = "racing"]
            /\ run' = [run EXCEPT ![s] = "begin"]
            /\ UNCHANGED outcome
  /\ UNCHANGED <<lockVars, cur, late, applied, undo, unfixed, ik, recVars, age>>

-----------------------------------------------------------------------------
(* executeSaga().  It neither knows nor cares whether execute() still      *)
(* waits for it.                                                           *)

\* updateStatus('executing', i) and updateStepResults before the step.
BeginStep(s) ==
  /\ run[s] = "begin"
  /\ SetStatus(s, "executing")
  /\ results' = [results EXCEPT ![s] = cur[s] - 1]
  /\ run' = [run EXCEPT ![s] = "exec"]
  /\ UNCHANGED <<lockVars, pc, cur, late, applied, undo, unfixed, outcome, ik,
                 comp, keyCol, recVars, age>>

\* step.execute resolves.
StepSucceeds(s) ==
  /\ run[s] = "exec"
  /\ applied' = [applied EXCEPT ![s] = @ \cup {cur[s]}]
  /\ run' = [run EXCEPT ![s] = "record"]
  /\ UNCHANGED <<lockVars, pc, cur, late, undo, unfixed, outcome, ik,
                 rowVars, recVars, age>>

\* step.execute rejects, before or after its write took effect.
StepThrows(s) ==
  /\ run[s] = "exec"
  /\ applied' \in {applied, [applied EXCEPT ![s] = @ \cup {cur[s]}]}
  /\ run' = [run EXCEPT ![s] = "fail"]
  /\ UNCHANGED <<lockVars, pc, cur, late, undo, unfixed, outcome, ik,
                 rowVars, recVars, age>>

\* The step's timer wins the race; step.execute runs on.
StepTimesOut(s) ==
  /\ run[s] = "exec"
  /\ late' = [late EXCEPT ![s] = @ \cup {cur[s]}]
  /\ run' = [run EXCEPT ![s] = "fail"]
  /\ UNCHANGED <<lockVars, pc, cur, applied, undo, unfixed, outcome, ik,
                 rowVars, recVars, age>>

\* The write of a step that had timed out takes effect.
LateWrite(s) ==
  /\ \E i \in late[s] :
       /\ applied' = [applied EXCEPT ![s] = @ \cup {i}]
       /\ late' = [late EXCEPT ![s] = @ \ {i}]
  /\ UNCHANGED <<lockVars, pc, run, cur, undo, unfixed, outcome, ik,
                 rowVars, recVars, age>>

\* Mutant: the result of the step is not persisted.
RecordResultInMemory(s) ==
  /\ run[s] = "record"
  /\ run' = [run EXCEPT ![s] = IF cur[s] = NSteps THEN "finished" ELSE "begin"]
  /\ cur' = [cur EXCEPT ![s] = IF @ = NSteps THEN @ ELSE @ + 1]
  /\ UNCHANGED <<lockVars, pc, late, applied, undo, unfixed, outcome, ik,
                 rowVars, recVars, age>>

\* stepResults.push and updateStepResults, then the loop goes on or returns.
RecordResult(s) ==
  /\ run[s] = "record"
  /\ results' = [results EXCEPT ![s] = cur[s]]
  /\ run' = [run EXCEPT ![s] = IF cur[s] = NSteps THEN "finished" ELSE "begin"]
  /\ cur' = [cur EXCEPT ![s] = IF @ = NSteps THEN @ ELSE @ + 1]
  /\ UNCHANGED <<lockVars, pc, late, applied, undo, unfixed, outcome, ik,
                 status, comp, keyCol, recVars, age>>

\* The catch block: updateStatus('failed', i), then SagaStepError.
RecordFailure(s) ==
  /\ run[s] = "fail"
  /\ SetStatus(s, "failed")
  /\ run' = [run EXCEPT ![s] = "threw"]
  /\ UNCHANGED <<lockVars, pc, cur, late, applied, undo, unfixed, outcome, ik,
                 comp, keyCol, results, recVars, age>>

-----------------------------------------------------------------------------
(* execute(), from the race on.                                            *)

\* executeSaga won the race: updateStatus('completed').
Complete(s) ==
  /\ pc[s] = "racing"
  /\ run[s] = "finished"
  /\ SetStatus(s, "completed")
  /\ outcome' = [outcome EXCEPT ![s] = "ok"]
  /\ pc' = [pc EXCEPT ![s] = "unlocking"]
  /\ UNCHANGED <<lockVars, run, cur, late, applied, undo, unfixed, ik,
                 comp, keyCol, results, recVars, age>>

\* The saga timer won: marked failed, nothing compensated, run goes on.
SagaTimesOut(s) ==
  /\ pc[s] = "racing"
  /\ age[s] >= SagaTimeout
  /\ outcome' = [outcome EXCEPT ![s] = "timeout"]
  /\ pc' = [pc EXCEPT ![s] = "failing"]
  /\ UNCHANGED <<lockVars, run, cur, late, applied, undo, unfixed, ik,
                 rowVars, recVars, age>>

\* Mutant: the loop starts one step too low.
StartCompensationTooLow(s) ==
  /\ pc[s] = "racing"
  /\ run[s] = "threw"
  /\ SetComp(s, "executing")
  /\ undo' = [undo EXCEPT ![s] = IF cur[s] > 2 THEN cur[s] - 2 ELSE 0]
  /\ pc' = [pc EXCEPT ![s] = "compensating"]
  /\ UNCHANGED <<lockVars, run, cur, late, applied, unfixed, outcome, ik,
                 status, keyCol, results, recVars, age>>

\* Mutant: the lock is given back before compensate().
StartCompensationUnlocked(s) ==
  /\ pc[s] = "racing"
  /\ run[s] = "threw"
  /\ ReleaseLock(s)
  /\ SetComp(s, "executing")
  /\ undo' = [undo EXCEPT ![s] = cur[s] - 1]
  /\ pc' = [pc EXCEPT ![s] = "compensating"]
  /\ UNCHANGED <<run, cur, late, applied, unfixed, outcome, ik,
                 status, keyCol, results, recVars, age>>

\* executeSaga threw a SagaStepError: compensate(), from the step before.
StartCompensation(s) ==
  /\ pc[s] = "racing"
  /\ run[s] = "threw"
  /\ SetComp(s, "executing")
  /\ undo' = [undo EXCEPT ![s] = cur[s] - 1]
  /\ pc' = [pc EXCEPT ![s] = "compensating"]
  /\ UNCHANGED <<lockVars, run, cur, late, applied, unfixed, outcome, ik,
                 status, keyCol, results, recVars, age>>

\* One iteration: getState for the result, then step.compensate(context,
\* result), which does nothing without a result and may throw.
CompensateStep(s) ==
  /\ pc[s] = "compensating"
  /\ undo[s] > 0
  /\ LET i == undo[s]
         undone == [applied EXCEPT ![s] = IF results[s] >= i THEN @ \ {i} ELSE @]
     IN  IF i \notin Compensatable
           THEN UNCHANGED <<applied, unfixed>>
           ELSE \/ applied' = undone /\ UNCHANGED unfixed
                \/ /\ unfixed' = [unfixed EXCEPT ![s] = @ \cup {i}]
                   /\ UNCHANGED applied
  /\ undo' = [undo EXCEPT ![s] = @ - 1]
  /\ UNCHANGED <<lockVars, pc, run, cur, late, outcome, ik,
                 rowVars, recVars, age>>

\* Mutant: compensate() starts over until no step fails.
EndCompensationRetries(s) ==
  /\ pc[s] = "compensating"
  /\ undo[s] = 0
  /\ IF unfixed[s] = {}
       THEN /\ pc' = [pc EXCEPT ![s] = "failing"]
            /\ UNCHANGED <<undo, unfixed>>
       ELSE /\ undo' = [undo EXCEPT ![s] = cur[s] - 1]
            /\ unfixed' = [unfixed EXCEPT ![s] = {}]
            /\ UNCHANGED pc
  /\ UNCHANGED <<lockVars, run, cur, late, applied, outcome, ik,
                 rowVars, recVars, age>>

\* updateCompensationStatus with the verdict.
EndCompensation(s) ==
  /\ pc[s] = "compensating"
  /\ undo[s] = 0
  /\ SetComp(s, IF unfixed[s] = {} THEN "completed"
                ELSE IF unfixed[s] \cap Critical # {} THEN "failed"
                ELSE "partial")
  /\ outcome' = [outcome EXCEPT ![s] = "failed"]
  /\ pc' = [pc EXCEPT ![s] = "failing"]
  /\ UNCHANGED <<lockVars, run, cur, late, applied, undo, unfixed, ik,
                 status, keyCol, results, recVars, age>>

\* updateStatus('failed'), then the error is rethrown through finally.
MarkFailed(s) ==
  /\ pc[s] = "failing"
  /\ SetStatus(s, "failed")
  /\ pc' = [pc EXCEPT ![s] = "unlocking"]
  /\ UNCHANGED <<lockVars, run, cur, late, applied, undo, unfixed, outcome, ik,
                 comp, keyCol, results, recVars, age>>

\* Mutant: releaseLock(resourceKey), whoever holds it by now.
ReleaseAndReturnAnyHolder(s) ==
  /\ pc[s] = "unlocking"
  /\ ReleaseLockAnyHolder(s)
  /\ pc' = [pc EXCEPT ![s] = "returned"]
  /\ UNCHANGED <<run, cur, late, applied, undo, unfixed, outcome, ik,
                 rowVars, recVars, age>>

\* finally: releaseLock(resourceKey, sagaId).
ReleaseAndReturn(s) ==
  /\ pc[s] = "unlocking"
  /\ ReleaseLock(s)
  /\ pc' = [pc EXCEPT ![s] = "returned"]
  /\ UNCHANGED <<run, cur, late, applied, undo, unfixed, outcome, ik,
                 rowVars, recVars, age>>

-----------------------------------------------------------------------------
(* saga-recovery.ts: a process that starts scans saga_states while other   *)
(* processes may be running sagas (the CLI beside the API server).         *)

\* Mutant: the scan takes every executing row.
StuckAtAnyAge(s) == s \in parent /\ status[s] = "executing"

\* Mutant: started_at is compared the wrong way round.
StuckWhileYoung(s) ==
  s \in parent /\ status[s] = "executing" /\ age[s] < StuckTimeout

\* getStuckSagas.
Stuck(s) == s \in parent /\ status[s] = "executing" /\ age[s] > StuckTimeout

\* getFailedSagas.
FailedUncompensated(s) ==
  s \in parent /\ status[s] = "failed" /\ comp[s] # "completed"

\* recover() reads both lists; it works on what it read.
RecoveryScan(s) ==
  /\ s \in Scannable
  /\ rec[s] = "none"
  /\ Stuck(s) \/ FailedUncompensated(s)
  /\ seen' = [seen EXCEPT ![s] = status[s]]
  /\ rec' = [rec EXCEPT ![s] = "release"]
  /\ UNCHANGED <<lockVars, callVars, rowVars, age>>

RecoveryRelease(s) ==
  /\ rec[s] = "release"
  /\ ReleaseAllForSaga(s)
  /\ rec' = [rec EXCEPT ![s] = IF seen[s] = "executing" THEN "status" ELSE "comp"]
  /\ UNCHANGED <<callVars, rowVars, seen, age>>

\* flagForReview, first statement: only if the scan saw 'executing'.
FlagStatus(s) ==
  /\ rec[s] = "status"
  /\ SetStatus(s, "failed")
  /\ rec' = [rec EXCEPT ![s] = "comp"]
  /\ UNCHANGED <<lockVars, callVars, comp, keyCol, results, seen, age>>

FlagCompensation(s) ==
  /\ rec[s] = "comp"
  /\ SetComp(s, "partial")
  /\ rec' = [rec EXCEPT ![s] = "none"]
  /\ UNCHANGED <<lockVars, callVars, status, keyCol, results, seen, age>>

-----------------------------------------------------------------------------
(* The environment.                                                        *)

\* The timers fire on time and a statement waits at most busy_timeout (5 s):
\* a call that is on its way to the end of the race is not older than
\* SagaTimeout plus one tick.  compensate() runs under no timer.
OnTime(s) == pc[s] \in {"locking", "saveKey", "racing"} => age[s] <= SagaTimeout

SagaTick ==
  /\ \A s \in Holders : OnTime(s)
  /\ Tick
  /\ age' = [s \in Holders |-> IF s \in parent /\ age[s] <= StuckTimeout
                                  THEN age[s] + 1 ELSE age[s]]
  /\ UNCHANGED <<callVars, rowVars, recVars>>

\* Something of the call is still running in its process.
Alive(s) ==
  \/ pc[s] \notin {"submitted", "saveParent", "returned", "dead"}
  \/ pc[s] = "returned" /\ (run[s] \notin {"off", "finished", "threw"} \/ late[s] # {})

\* The process dies; what the database holds stays.
SagaCrash(s) ==
  /\ s \in Crashable
  /\ Alive(s)
  /\ Crash(s)
  /\ pc' = [pc EXCEPT ![s] = "dead"]
  /\ run' = [run EXCEPT ![s] = "off"]
  /\ late' = [late EXCEPT ![s] = {}]
  /\ undo' = [undo EXCEPT ![s] = 0]
  /\ UNCHANGED <<cur, applied, unfixed, outcome, ik, rowVars, recVars, age>>

StepEnds(s) == StepSucceeds(s) \/ StepThrows(s) \/ StepTimesOut(s)

ExecuteSaga(s) ==
  BeginStep(s) \/ StepEnds(s) \/ RecordResult(s) \/ RecordFailure(s)

Execute(s) ==
  \/ CheckIdempotency(s)
  \/ SaveParentRow(s)
  \/ AcquireLock(s)
  \/ LockRefused(s)
  \/ ClearIdempotencyKey(s)
  \/ SaveKeyedRow(s)
  \/ Complete(s)
  \/ StartCompensation(s)
  \/ CompensateStep(s)
  \/ EndCompensation(s)
  \/ MarkFailed(s)
  \/ ReleaseAndReturn(s)

Recover(s) ==
  RecoveryScan(s) \/ RecoveryRelease(s) \/ FlagStatus(s) \/ FlagCompensation(s)

SagaNext ==
  \/ \E s \in Holders :
       \/ Execute(s)
       \/ ExecuteSaga(s)
       \/ SagaTimesOut(s)
       \/ LateWrite(s)
       \/ Recover(s)
       \/ SagaCrash(s)
  \/ SagaTick

SagaSpec == SagaInit /\ [][SagaNext]_vars

\* Statements complete, a step ends or its timer fires, compensations end,
\* time passes, and sooner or later some process starts and recovers.
\* A late write, a crash and a saga timeout are never owed.
SagaFairSpec ==
  /\ SagaSpec
  /\ \A s \in Holders :
       /\ WF_vars(Execute(s))
       /\ WF_vars(ExecuteSaga(s))
       /\ WF_vars(Recover(s))
  /\ WF_vars(SagaTick)

-----------------------------------------------------------------------------
(* Properties.                                                             *)

\* The saga may write the record now: a step or a compensation is running.
Writing(s) == run[s] = "exec" \/ pc[s] = "compensating" \/ late[s] # {}

\* A timer of the saga has fired, or its lock's has, or recovery took the lock.
OutOfTime(s) ==
  late[s] # {} \/ outcome[s] = "timeout" \/ Expired(s) \/ s \in evicted

\* FA-CORE-007: two sagas never interleave their writes on one record, as long
\* as neither has run into a timeout or lost its lock early.
ExclusiveInTime ==
  \A s, t \in Holders :
    /\ s # t /\ wants[s] = wants[t]
    /\ Writing(s) /\ Writing(t)
    => OutOfTime(s) \/ OutOfTime(t)

\* What 'completed' in compensation_status stands for: every compensatable
\* step before the failed one is undone; only the failed step itself may
\* have left something behind.
CompensationUndoesPrefix ==
  \A s \in Holders :
    s \in parent /\ comp[s] = "completed"
      => applied[s] \cap Compensatable \subseteq {cur[s]}

\* A cached answer is the last step's result of a run that did everything.
CachedIsComplete ==
  \A s \in Holders : outcome[s] = "cached" =>
    \E t \in Holders : /\ t # s /\ ik[t] = ik[s]
                        /\ applied[t] = Steps
                        /\ results[t] = NSteps

\* A saga reported successful is never relabelled, by a recovery that acts on
\* an old reading of the row either.
CompletedIsFinal ==
  [][\A s \in Holders : s \in parent /\ status[s] = "completed"
       => s \in parent' /\ status'[s] = "completed"]_vars

\* The finally block and the cascade: a call that has returned holds no lock.
ReturnedHoldsNoLock ==
  \A s \in Holders : pc[s] = "returned" => \A k \in Keys : lock[k] # s

\* A row stays 'executing' behind a returned call only when the saga timer
\* fired: refusals, failures and compensations all leave a final row.
NoPhantomExecuting ==
  \A s \in Holders :
    pc[s] = "returned" /\ s \in parent /\ status[s] = "executing"
      => outcome[s] = "timeout"

\* Recovery spares a saga whose steps are still running.
RecoverySparesRunning ==
  [][\A s \in Holders :
       RecoveryRelease(s) /\ pc[s] = "racing" => run[s] = "threw"]_vars

\* Every call comes back (or its process dies).
CallReturns ==
  \A s \in Holders : pc[s] = "submitted" ~> pc[s] \in {"returned", "dead"}

\* What a crash leaves behind is found: the row does not stay 'executing' and
\* the record does not stay locked.  (The lock of a saga that died between its
\* last status and its release is not scanned for: only its expiry frees it.)
OrphanResolved ==
  \A s \in Holders :
    pc[s] = "dead" ~> /\ s \in parent => status[s] # "executing"
                      /\ \A k \in Keys : lock[k] = s => Expired(s)

-----------------------------------------------------------------------------
(* The inductive invariant: what ties execute(), executeSaga(), the row and *)
(* a recovery scan to one another.                                         *)

\* From the row's saga_states stub to the finally block the call is where the
\* lock manager thinks it is.
CallHoldsLock ==
  \A s \in Holders :
    /\ pc[s] \in {"submitted", "saveParent"} =>
         acq[s] = "idle" /\ s \notin parent /\ age[s] = 0
    /\ pc[s] = "locking" =>
         acq[s] \in {"insert", "conflict", "noParent", "steal", "refused",
                     "fault", "holding"}
    /\ pc[s] \in {"saveKey", "racing", "compensating", "failing", "unlocking"} =>
         acq[s] = "holding"
    /\ pc[s] = "returned" => acq[s] \in {"idle", "gaveUp", "released"}
    /\ pc[s] = "dead" => acq[s] = "dead"
    /\ pc[s] \in {"locking", "saveKey", "racing"} => age[s] <= SagaTimeout + 1

\* executeSaga() works only while execute() waits for it, or after the saga
\* timer has taken execute() away.
RunWatched ==
  \A s \in Holders :
    /\ pc[s] \in {"submitted", "saveParent", "locking", "saveKey", "dead"} =>
         run[s] = "off"
    /\ pc[s] = "compensating" => run[s] = "threw"
    /\ run[s] \in {"begin", "exec", "record", "fail"} =>
         pc[s] = "racing" \/ outcome[s] = "timeout"
    /\ outcome[s] = "timeout" => pc[s] \in {"failing", "unlocking", "returned", "dead"}

\* The row's status follows the call: final once the call is done with it.
RowFollows ==
  \A s \in Holders :
    /\ pc[s] \in {"submitted", "saveParent", "locking", "saveKey"} =>
         status[s] = "executing"
    /\ pc[s] \in {"unlocking", "returned"} /\ s \in parent /\ status[s] = "executing"
         => outcome[s] = "timeout"
    /\ status[s] = "completed" =>
         /\ pc[s] \in {"unlocking", "returned", "dead"}
         /\ run[s] \in {"off", "finished"}
    /\ status[s] = "failed" /\ pc[s] = "racing" => run[s] = "threw"

\* A scan works on what it read: an 'executing' row it took is too old for its
\* call to be in the race, and can no longer become 'completed'.
ScanIsLate ==
  \A s \in Holders :
    /\ rec[s] # "none" =>
         /\ pc[s] \notin {"submitted", "saveParent", "locking", "saveKey"}
         /\ pc[s] = "racing" => run[s] = "threw"
    /\ rec[s] = "status" => seen[s] = "executing"
    /\ rec[s] \in {"release", "status"} /\ seen[s] = "executing" =>
         age[s] > StuckTimeout /\ status[s] # "completed"

\* executeSaga() takes the steps in order and persists each result before the
\* next one; what a timer left running is the step it stopped at; a full row of
\* results stands for a run that did everything.
InOrder(s) ==
  /\ pc[s] \in {"submitted", "saveParent", "locking", "saveKey"} =>
       cur[s] = 1 /\ applied[s] = {} /\ results[s] = 0
  /\ applied[s] \subseteq 1 .. cur[s]
  /\ late[s] \subseteq {cur[s]}
  /\ late[s] # {} => run[s] \in {"fail", "threw"}
  /\ run[s] \in {"begin", "exec", "record", "fail", "threw"} =>
       results[s] = cur[s] - 1
  /\ run[s] \in {"begin", "exec"} => applied[s] = 1 .. (cur[s] - 1)
  /\ run[s] = "record" => applied[s] = 1 .. cur[s]
  /\ run[s] = "finished" => results[s] = NSteps
  /\ results[s] = NSteps => run[s] \in {"off", "finished"} /\ applied[s] = Steps
  /\ status[s] = "completed" => results[s] = NSteps
  /\ keyCol[s] \in {NoKey, ik[s]}

\* compensate() has undone, or failed to undo, every step between its index and
\* the failed step, and its verdict was true of all of them.
UndoneAbove(s) ==
  /\ pc[s] = "compensating" =>
       \A i \in applied[s] \cap Compensatable :
         i > undo[s] => i = cur[s] \/ i \in unfixed[s]
  /\ comp[s] = "completed" =>
       /\ run[s] \in {"threw", "off"}
       /\ applied[s] \cap Compensatable \subseteq {cur[s]}

StepsInOrder == \A s \in Holders : InOrder(s) /\ UndoneAbove(s)

SagaInv ==
  /\ SagaTypeOK /\ LockInv /\ CallHoldsLock /\ RunWatched /\ RowFollows /\ ScanIsLate
  /\ StepsInOrder
=============================================================================
