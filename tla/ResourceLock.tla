---------------------------- MODULE ResourceLock ----------------------------
(***************************************************************************)
(* core/src/saga/resource-lock.ts: the database-backed lock table that     *)
(* serialises writers of one record.  Every action is one SQL statement    *)
(* (the JavaScript between two awaited statements touches no shared state),*)
(* so two holders interleave exactly where the code awaits.                *)
(*                                                                         *)
(* A holder is one holder id: a saga id, or the id mergeCapture makes for  *)
(* an external lock.  It asks for one key.  Time is the countdown left[h]  *)
(* to the expires_at that h computed when it (re)entered acquireLock.      *)
(***************************************************************************)
EXTENDS Naturals

CONSTANTS
  Holders,      \* holder ids: saga ids and external holder ids
  Keys,         \* resource keys, "record:<id>", "capture:<id>"
  Nobody,       \* no row in saga_resource_locks for a key
  LockTimeout,  \* the timeout argument of acquireLock, in ticks
  Extension,    \* additionalTimeout of extendLock, in ticks
  MaxAttempts,  \* how often a refused holder calls acquireExternalLock
  MaxLeft       \* bound: extendLock stops pushing an expiry past this

ASSUME LockAssumption ==
  /\ Nobody \notin Holders
  /\ LockTimeout \in Nat \ {0}
  /\ Extension \in Nat \ {0}
  /\ MaxAttempts \in Nat \ {0}
  /\ MaxLeft \in Nat

VARIABLES
  parent,    \* holders that own a row of saga_states
  lock,      \* saga_resource_locks: the holder of each key's row
  left,      \* ticks before the expiry computed by the holder
  acq,       \* where the holder is in the lock manager
  wants,     \* the key the holder asks for
  evicted,   \* history: holders whose unexpired row someone else deleted
  attempts   \* acquireExternalLock calls so far (record-manager's loop)

lockVars == <<parent, lock, left, acq, wants, evicted, attempts>>

AcqStates == {"idle", "insert", "conflict", "noParent", "steal", "refused",
              "fault", "holding", "extend", "released", "done", "gaveUp", "dead"}

LockTypeOK ==
  /\ parent \in SUBSET Holders
  /\ lock \in [Keys -> Holders \cup {Nobody}]
  /\ left \in [Holders -> Nat]
  /\ acq \in [Holders -> AcqStates]
  /\ wants \in [Holders -> Keys]
  /\ evicted \in SUBSET Holders
  /\ attempts \in [Holders -> Nat]

LockInit ==
  /\ parent = {}
  /\ lock = [k \in Keys |-> Nobody]
  /\ left = [h \in Holders |-> 0]
  /\ acq = [h \in Holders |-> "idle"]
  /\ wants \in [Holders -> Keys]
  /\ evicted = {}
  /\ attempts = [h \in Holders |-> 0]

\* existingLock.expiresAt < new Date(), for the row of holder h.
Expired(h) == left[h] = 0

\* The rows left once the rows of the holders in H are deleted.
Without(H) == [k \in Keys |-> IF lock[k] \in H THEN Nobody ELSE lock[k]]

\* The holders of the rows that a step removes before they expired.
Live(H) == {h \in H \cap Holders : ~Expired(h)}

\* DELETE FROM saga_states: ON DELETE CASCADE drops the holder's lock rows.
DeleteState(h) ==
  /\ parent' = parent \ {h}
  /\ lock' = Without({h})

-----------------------------------------------------------------------------
(* Acquiring.  The caller's saga_states row is written first: the stub of  *)
(* acquireExternalLock, or the parent row of a saga.                       *)

\* The stub INSERT (ON CONFLICT(id) DO NOTHING), then acquireLock computes
\* expiresAt.
AcquireExternalLock(h) ==
  /\ acq[h] = "idle"
  /\ parent' = parent \cup {h}
  /\ acq' = [acq EXCEPT ![h] = "insert"]
  /\ left' = [left EXCEPT ![h] = LockTimeout]
  /\ attempts' = [attempts EXCEPT ![h] = @ + 1]
  /\ UNCHANGED <<lock, wants, evicted>>

\* Mutant: INSERT OR REPLACE.
InsertLockReplaces(h) ==
  /\ acq[h] = "insert"
  /\ LET won == h \in parent
     IN  /\ lock' = IF won THEN [lock EXCEPT ![wants[h]] = h] ELSE lock
         /\ acq' = [acq EXCEPT ![h] = IF won THEN "holding" ELSE "noParent"]
  /\ UNCHANGED <<parent, left, wants, evicted, attempts>>

\* acquireLock's INSERT: the primary key and the foreign key decide.
InsertLock(h) ==
  /\ acq[h] = "insert"
  /\ LET free == lock[wants[h]] = Nobody
         won  == free /\ h \in parent
     IN  /\ lock' = IF won THEN [lock EXCEPT ![wants[h]] = h] ELSE lock
         /\ acq' = [acq EXCEPT ![h] = IF won THEN "holding"
                                      ELSE IF free THEN "noParent"
                                      ELSE "conflict"]
  /\ UNCHANGED <<parent, left, wants, evicted, attempts>>

\* Mutant: a conflict is retried at once, the row's expiry unread.
GetLockSpins(h) ==
  /\ acq[h] \in {"conflict", "noParent"}
  /\ acq' = [acq EXCEPT ![h] = "insert"]
  /\ UNCHANGED <<parent, lock, left, wants, evicted, attempts>>

\* The catch block: getLock, and what its answer means.
GetLock(h) ==
  /\ acq[h] \in {"conflict", "noParent"}
  /\ LET row == lock[wants[h]]
     IN  acq' = [acq EXCEPT ![h] =
                   IF row # Nobody
                     THEN IF Expired(row) THEN "steal" ELSE "refused"
                     ELSE IF acq[h] = "noParent" THEN "fault" ELSE "refused"]
  /\ UNCHANGED <<parent, lock, left, wants, evicted, attempts>>

\* releaseLock(resourceKey) without a holder, then acquireLock from the top.
StealExpired(h) ==
  /\ acq[h] = "steal"
  /\ lock' = [lock EXCEPT ![wants[h]] = Nobody]
  /\ evicted' = evicted \cup Live({lock[wants[h]]})
  /\ acq' = [acq EXCEPT ![h] = "insert"]
  /\ left' = [left EXCEPT ![h] = LockTimeout]
  /\ UNCHANGED <<parent, wants, attempts>>

\* acquireLock threw: the stub is deleted (best effort) and the caller
\* retries while attempts are left and the error is contention.
AcquireFails(h) ==
  /\ acq[h] \in {"refused", "fault"}
  /\ \/ DeleteState(h)
     \/ UNCHANGED <<parent, lock>>
  /\ acq' = [acq EXCEPT ![h] =
               IF acq[h] = "refused" /\ attempts[h] < MaxAttempts
                 THEN "idle" ELSE "gaveUp"]
  /\ UNCHANGED <<left, wants, evicted, attempts>>

-----------------------------------------------------------------------------
(* Giving the lock back.                                                   *)

\* Mutant: the DELETE forgets AND saga_id = ?.
ReleaseLockAnyHolder(h) ==
  /\ acq[h] = "holding"
  /\ lock' = [lock EXCEPT ![wants[h]] = Nobody]
  /\ acq' = [acq EXCEPT ![h] = "released"]
  /\ UNCHANGED <<parent, left, wants, evicted, attempts>>

\* releaseLock(resourceKey, sagaId): only a row of this holder goes.
ReleaseLock(h) ==
  /\ acq[h] = "holding"
  /\ lock' = IF lock[wants[h]] = h
               THEN [lock EXCEPT ![wants[h]] = Nobody] ELSE lock
  /\ acq' = [acq EXCEPT ![h] = "released"]
  /\ UNCHANGED <<parent, left, wants, evicted, attempts>>

\* releaseExternalLock's second statement.
ReleaseExternalLock(h) ==
  /\ acq[h] = "released"
  /\ DeleteState(h)
  /\ acq' = [acq EXCEPT ![h] = "done"]
  /\ UNCHANGED <<left, wants, evicted, attempts>>

\* Crash recovery frees every row of a holder, live or not.
ReleaseAllForSaga(h) ==
  /\ h \in parent
  /\ lock' = Without({h})
  /\ evicted' = evicted \cup (IF \E k \in Keys : lock[k] = h THEN Live({h}) ELSE {})
  /\ UNCHANGED <<parent, left, acq, wants, attempts>>

\* DELETE ... WHERE expires_at < now.
CleanupExpiredLocks ==
  /\ lock' = Without({h \in Holders : Expired(h)})
  /\ UNCHANGED <<parent, left, acq, wants, evicted, attempts>>

-----------------------------------------------------------------------------
(* extendLock: getLock and the UPDATE are two statements.                  *)

ExtendLockCheck(h) ==
  /\ acq[h] = "holding"
  /\ lock[wants[h]] = h
  /\ left[h] + Extension <= MaxLeft
  /\ acq' = [acq EXCEPT ![h] = "extend"]
  /\ UNCHANGED <<parent, lock, left, wants, evicted, attempts>>

\* The UPDATE matches no row once the lock was stolen.  A row that expired d
\* ticks ago gains Extension - d of them: the countdown has forgotten d.
ExtendLockUpdate(h) ==
  /\ acq[h] = "extend"
  /\ left' \in IF lock[wants[h]] # h THEN {left}
               ELSE IF Expired(h)
                 THEN {[left EXCEPT ![h] = n] : n \in 0 .. Extension}
                 ELSE {[left EXCEPT ![h] = @ + Extension]}
  /\ acq' = [acq EXCEPT ![h] = "holding"]
  /\ UNCHANGED <<parent, lock, wants, evicted, attempts>>

-----------------------------------------------------------------------------
(* The environment: time passes, and a process dies with its holder.       *)

Tick ==
  /\ left' = [h \in Holders |-> IF left[h] = 0 THEN 0 ELSE left[h] - 1]
  /\ UNCHANGED <<parent, lock, acq, wants, evicted, attempts>>

\* The process stops between two statements; its rows stay in the database.
Crash(h) ==
  /\ acq[h] \notin {"idle", "done", "gaveUp", "dead"}
  /\ acq' = [acq EXCEPT ![h] = "dead"]
  /\ UNCHANGED <<parent, lock, left, wants, evicted, attempts>>

HolderStep(h) ==
  \/ AcquireExternalLock(h)
  \/ InsertLock(h)
  \/ GetLock(h)
  \/ StealExpired(h)
  \/ AcquireFails(h)
  \/ ReleaseLock(h)
  \/ ReleaseExternalLock(h)

ExtendLock(h) == ExtendLockCheck(h) \/ ExtendLockUpdate(h)

LockNext ==
  \/ \E h \in Holders :
       HolderStep(h) \/ ExtendLock(h) \/ ReleaseAllForSaga(h) \/ Crash(h)
  \/ CleanupExpiredLocks
  \/ Tick

LockSpec == LockInit /\ [][LockNext]_lockVars
\* A holder's statements complete: SQLite answers or fails, and every await
\* of acquireLock and releaseLock is one statement.  Time passes.  Nothing
\* obliges a caller to extend, a sweep to run or a process to crash.
LockFairSpec ==
  /\ LockSpec
  /\ \A h \in Holders : WF_lockVars(HolderStep(h))
  /\ WF_lockVars(Tick)

-----------------------------------------------------------------------------
(* Properties.                                                             *)

\* Between acquireLock's return and its release the caller writes.
Holding(h) == acq[h] \in {"holding", "extend"}

\* A caller whose acquireLock returned, whose expiry has not passed and whose
\* row nobody deleted early is the holder of the key's row: a steal, a sweep,
\* another holder's release and the cascade of a saga_states deletion all
\* leave it alone.
HolderOwnsRow ==
  \A h \in Holders :
    Holding(h) /\ ~Expired(h) /\ h \notin evicted => lock[wants[h]] = h

\* Who may write under a key: its callers between acquireLock's return and
\* their release, in time and not evicted.
MayWrite(h) == Holding(h) /\ ~Expired(h) /\ h \notin evicted

Owners == [k \in Keys |-> {h \in Holders : MayWrite(h) /\ wants[h] = k}]

TheLease == INSTANCE Lease WITH owners <- Owners

\* The lock table implements the lease: statement by statement, a key is granted
\* only while nobody has it, though the INSERT sees rows and no clock, and the
\* takeover, the sweep and extendLock see the clock but not who still writes.
KeysAreLeased == TheLease!LeaseSpec

\* So two callers hold one key at a time only if one of them outlived its
\* timeout or was evicted (StealTakesOnlyExpired tells who evicts whom).
Exclusion ==
  \A g, h \in Holders :
    /\ Holding(g) /\ ~Expired(g) /\ g \notin evicted
    /\ Holding(h) /\ ~Expired(h) /\ h \notin evicted
    /\ wants[g] = wants[h]
    => g = h

\* The stub of saga_states is there whenever a lock row is or is about to be:
\* the enforced foreign key never turns an acquisition into a raw fault, and
\* no lock row outlives its parent.
ParentRowFirst ==
  /\ \A h \in Holders : acq[h] \notin {"noParent", "fault"}
  /\ \A h \in Holders : acq[h] \in {"insert", "conflict", "steal"} => h \in parent
  /\ \A k \in Keys : lock[k] # Nobody => lock[k] \in parent

\* A row belongs to a holder that asked for its key and has not returned: only
\* a crash leaves one behind.
NoLeakedRow ==
  \A k \in Keys, h \in Holders :
    lock[k] = h => wants[h] = k /\ acq[h] \in {"holding", "extend", "dead"}

\* The inductive invariant.
LockInv == LockTypeOK /\ HolderOwnsRow /\ ParentRowFirst /\ NoLeakedRow

\* Every acquisition ends, with the lock or with an error: a conflict with a
\* crashed holder's row is refused or, once the row has expired, taken over.
AcquireEnds ==
  \A h \in Holders :
    acq[h] = "insert" ~> acq[h] \in {"holding", "gaveUp", "dead"}

\* resource-lock.ts:130 calls the DELETE of a takeover "Clean up expired
\* lock": it deletes nothing but an expired row.
StealTakesOnlyExpired ==
  [][\A h \in Holders :
       StealExpired(h) => \/ lock[wants[h]] = Nobody
                          \/ Expired(lock[wants[h]])]_lockVars
=============================================================================
