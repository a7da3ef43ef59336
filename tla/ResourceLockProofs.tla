------------------------- MODULE ResourceLockProofs -------------------------
(***************************************************************************)
(* The lock table keeps its promises for any number of holders and keys    *)
(* and any timeout.                                                        *)
(***************************************************************************)
EXTENDS ResourceLock, TLAPS

\* A new database satisfies the invariant.
LEMMA LockInitInv == LockInit => LockInv
BY LockAssumption DEF LockInit, LockInv, LockTypeOK, HolderOwnsRow, Holding,
   Expired, ParentRowFirst, NoLeakedRow, AcqStates

\* The steps that only move a holder inside the lock manager, or the clock.
LEMMA LockQuietStep ==
  ASSUME LockInv,
         \/ \E h \in Holders : GetLock(h) \/ ExtendLockCheck(h) \/ Crash(h)
         \/ Tick
  PROVE  LockInv'
<1> USE LockAssumption DEF LockInv, LockTypeOK, HolderOwnsRow, Holding, Expired,
        ParentRowFirst, NoLeakedRow, AcqStates
<1>1. CASE \E h \in Holders : GetLock(h)
  BY <1>1 DEF GetLock
<1>2. CASE \E h \in Holders : ExtendLockCheck(h)
  BY <1>2 DEF ExtendLockCheck
<1>3. CASE \E h \in Holders : Crash(h)
  BY <1>3 DEF Crash
<1>4. CASE Tick
  BY <1>4 DEF Tick
<1> QED
  BY <1>1, <1>2, <1>3, <1>4

\* Acquiring: the row is taken only when the key is free.
LEMMA LockAcquireStep ==
  ASSUME LockInv, NEW h \in Holders,
         AcquireExternalLock(h) \/ InsertLock(h) \/ StealExpired(h)
  PROVE  LockInv'
<1> USE LockAssumption DEF LockInv, LockTypeOK, HolderOwnsRow, Holding, Expired,
        ParentRowFirst, NoLeakedRow, AcqStates
<1>1. CASE AcquireExternalLock(h)
  BY <1>1 DEF AcquireExternalLock
<1>2. CASE InsertLock(h)
  BY <1>2 DEF InsertLock
<1>3. CASE StealExpired(h)
  BY <1>3 DEF StealExpired, Live
<1> QED
  BY <1>1, <1>2, <1>3

\* Giving back: nobody else's row goes, except an expired or evicted one.
LEMMA LockReleaseStep ==
  ASSUME LockInv, NEW h \in Holders,
         \/ AcquireFails(h) \/ ReleaseLock(h) \/ ReleaseExternalLock(h)
         \/ ReleaseAllForSaga(h) \/ ExtendLockUpdate(h) \/ CleanupExpiredLocks
  PROVE  LockInv'
<1> USE LockAssumption DEF LockInv, LockTypeOK, HolderOwnsRow, Holding, Expired,
        ParentRowFirst, NoLeakedRow, AcqStates, Without
<1>1. CASE AcquireFails(h)
  BY <1>1 DEF AcquireFails, DeleteState
<1>2. CASE ReleaseLock(h)
  BY <1>2 DEF ReleaseLock
<1>3. CASE ReleaseExternalLock(h)
  BY <1>3 DEF ReleaseExternalLock, DeleteState
<1>4. CASE ReleaseAllForSaga(h)
  BY <1>4 DEF ReleaseAllForSaga, Live
<1>5. CASE ExtendLockUpdate(h)
  BY <1>5 DEF ExtendLockUpdate
<1>6. CASE CleanupExpiredLocks
  BY <1>6 DEF CleanupExpiredLocks
<1> QED
  BY <1>1, <1>2, <1>3, <1>4, <1>5, <1>6

\* LockInv is inductive.
LEMMA LockNextInv == LockInv /\ [LockNext]_lockVars => LockInv'
<1> SUFFICES ASSUME LockInv, [LockNext]_lockVars PROVE LockInv'
  OBVIOUS
<1>1. CASE UNCHANGED lockVars
  BY <1>1 DEF lockVars, LockInv, LockTypeOK, HolderOwnsRow, Holding, Expired,
     ParentRowFirst, NoLeakedRow
<1>2. CASE \E h \in Holders : GetLock(h) \/ ExtendLockCheck(h) \/ Crash(h)
  BY <1>2, LockQuietStep
<1>3. CASE Tick
  BY <1>3, LockQuietStep
<1>4. CASE \E h \in Holders :
             AcquireExternalLock(h) \/ InsertLock(h) \/ StealExpired(h)
  BY <1>4, LockAcquireStep
<1>5. CASE \E h \in Holders :
             \/ AcquireFails(h) \/ ReleaseLock(h) \/ ReleaseExternalLock(h)
             \/ ReleaseAllForSaga(h) \/ ExtendLockUpdate(h)
  BY <1>5, LockReleaseStep
<1>6. CASE CleanupExpiredLocks
  <2>1. CASE Holders = {}
    BY <1>6, <2>1, LockAssumption DEF CleanupExpiredLocks, LockInv, LockTypeOK,
       HolderOwnsRow, ParentRowFirst, NoLeakedRow, Without
  <2>2. CASE Holders # {}
    <3>1. PICK h \in Holders : TRUE
      BY <2>2
    <3> QED
      BY <1>6, <3>1, LockReleaseStep
  <2> QED
    BY <2>1, <2>2
<1> QED
  BY <1>1, <1>2, <1>3, <1>4, <1>5, <1>6
  DEF LockNext, HolderStep, ExtendLock

\* Owners own their row, the parent row comes first and only a crash leaves a row
\* behind, for any holders, keys and timeouts.
THEOREM LockInvariant == LockSpec => []LockInv
BY LockInitInv, LockNextInv, PTL DEF LockSpec

\* Type correctness of the lock table and its clients.
THEOREM LockTypeCorrect == LockSpec => []LockTypeOK
<1>1. LockInv => LockTypeOK
  BY DEF LockInv
<1> QED
  BY LockInvariant, <1>1, PTL

\* A caller that acquired the lock, is in time and was not evicted holds the
\* row, whatever the other holders, sweeps and recoveries do.
THEOREM LockHolderOwnsRow == LockSpec => []HolderOwnsRow
<1>1. LockInv => HolderOwnsRow
  BY DEF LockInv
<1> QED
  BY LockInvariant, <1>1, PTL

\* So two such callers never hold one key.
LEMMA OwnersExclude == HolderOwnsRow => Exclusion
BY DEF HolderOwnsRow, Exclusion

THEOREM LockExclusion == LockSpec => []Exclusion
BY LockHolderOwnsRow, OwnersExclude, PTL

\* No acquisition meets a foreign key fault and no lock row is left without
\* its saga_states row or, unless its process died, without its holder.
THEOREM LockRowsSound == LockSpec => [](ParentRowFirst /\ NoLeakedRow)
<1>1. LockInv => ParentRowFirst /\ NoLeakedRow
  BY DEF LockInv
<1> QED
  BY LockInvariant, <1>1, PTL

-----------------------------------------------------------------------------
(* The refinement.                                                         *)

\* A step after which nobody may write who could not before takes leases away.
LEMMA LosingStep ==
  ASSUME wants' = wants, \A h \in Holders : MayWrite(h)' => MayWrite(h)
  PROVE  TheLease!Lose
<1>1. Owners' \in [Keys -> SUBSET Holders]
  BY DEF Owners
<1>2. \A k \in Keys : Owners'[k] \subseteq Owners[k]
  BY DEF Owners
<1> QED
  BY <1>1, <1>2 DEF TheLease!Lose

\* The row of a key is that of whoever may write under it, so a step of its
\* holder, or of one that finds no row, grants the key while nobody has it.
LEMMA GrantingStep ==
  ASSUME LockInv, wants' = wants, NEW h \in Holders,
         lock[wants[h]] \in {h, Nobody}, ~MayWrite(h), MayWrite(h)',
         \A g \in Holders \ {h} : MayWrite(g)' <=> MayWrite(g)
  PROVE  TheLease!Grant(wants[h], h)
<1>1. wants \in [Holders -> Keys] /\ Nobody \notin Holders
  BY LockAssumption DEF LockInv, LockTypeOK
<1>2. Owners[wants[h]] = {}
  <2>1. SUFFICES ASSUME NEW g \in Holders, MayWrite(g), wants[g] = wants[h]
                 PROVE  FALSE
    BY <1>1 DEF Owners
  <2>2. lock[wants[g]] = g
    BY <2>1 DEF LockInv, HolderOwnsRow, MayWrite
  <2> QED
    BY <1>1, <2>1, <2>2
<1>3. Owners' = [Owners EXCEPT ![wants[h]] = {h}]
  <2>1. ASSUME NEW k \in Keys
        PROVE  Owners'[k] = IF k = wants[h] THEN {h} ELSE Owners[k]
    <3>1. CASE k = wants[h]
      BY <1>1, <1>2, <3>1 DEF Owners
    <3>2. CASE k # wants[h]
      BY <1>1, <3>2 DEF Owners
    <3> QED
      BY <3>1, <3>2
  <2>2. Owners' = [k \in Keys |-> Owners'[k]] /\ DOMAIN Owners = Keys
    BY DEF Owners
  <2> QED
    BY <2>1, <2>2, <1>1
<1> QED
  BY <1>2, <1>3 DEF TheLease!Grant

\* The INSERT that finds the key free.
LEMMA InsertIsLeaseStep ==
  ASSUME LockInv, NEW h \in Holders, InsertLock(h)
  PROVE  TheLease!LeaseNext
<1> USE DEF LockInv, LockTypeOK, InsertLock, MayWrite, Holding, Expired
<1>1. wants' = wants /\ ~MayWrite(h)
  OBVIOUS
<1>2. \A g \in Holders \ {h} : MayWrite(g)' <=> MayWrite(g)
  OBVIOUS
<1>3. CASE MayWrite(h)'
  <2>1. lock[wants[h]] = Nobody
    BY <1>3
  <2> QED
    BY <1>1, <1>2, <1>3, <2>1, GrantingStep DEF TheLease!LeaseNext
<1>4. CASE ~MayWrite(h)'
  BY <1>1, <1>2, <1>4, LosingStep DEF TheLease!LeaseNext
<1> QED
  BY <1>3, <1>4

\* An UPDATE of a row that expired brings its holder back, unless the row has
\* been taken over.
LEMMA ExtendIsLeaseStep ==
  ASSUME LockInv, NEW h \in Holders, ExtendLockUpdate(h)
  PROVE  TheLease!LeaseNext
<1> USE DEF LockInv, LockTypeOK, ExtendLockUpdate, MayWrite, Holding, Expired
<1>1. wants' = wants
  OBVIOUS
<1>2. \A g \in Holders \ {h} : MayWrite(g)' <=> MayWrite(g)
  OBVIOUS
<1>3. CASE MayWrite(h)' /\ ~MayWrite(h)
  <2>1. lock[wants[h]] = h
    BY <1>3
  <2> QED
    BY <1>1, <1>2, <1>3, <2>1, GrantingStep DEF TheLease!LeaseNext
<1>4. CASE MayWrite(h)' => MayWrite(h)
  BY <1>1, <1>2, <1>4, LosingStep DEF TheLease!LeaseNext
<1> QED
  BY <1>3, <1>4

\* Every other step of a holder can only end a lease.
LEMMA OtherStepLoses ==
  ASSUME LockInv, NEW h \in Holders,
         \/ AcquireExternalLock(h) \/ GetLock(h) \/ StealExpired(h)
         \/ AcquireFails(h) \/ ReleaseLock(h) \/ ReleaseExternalLock(h)
         \/ ExtendLockCheck(h) \/ ReleaseAllForSaga(h) \/ Crash(h)
  PROVE  TheLease!LeaseNext
<1>1. wants' = wants /\ \A g \in Holders : MayWrite(g)' => MayWrite(g)
  <2> USE DEF LockInv, LockTypeOK, MayWrite, Holding, Expired
  <2>1. CASE AcquireExternalLock(h)
    BY <2>1 DEF AcquireExternalLock
  <2>2. CASE GetLock(h)
    BY <2>2 DEF GetLock
  <2>3. CASE StealExpired(h)
    BY <2>3 DEF StealExpired
  <2>4. CASE AcquireFails(h)
    BY <2>4 DEF AcquireFails
  <2>5. CASE ReleaseLock(h)
    BY <2>5 DEF ReleaseLock
  <2>6. CASE ReleaseExternalLock(h)
    BY <2>6 DEF ReleaseExternalLock
  <2>7. CASE ExtendLockCheck(h)
    BY <2>7 DEF ExtendLockCheck
  <2>8. CASE ReleaseAllForSaga(h)
    BY <2>8 DEF ReleaseAllForSaga
  <2>9. CASE Crash(h)
    BY <2>9 DEF Crash
  <2> QED
    BY <2>1, <2>2, <2>3, <2>4, <2>5, <2>6, <2>7, <2>8, <2>9
<1> QED
  BY <1>1, LosingStep DEF TheLease!LeaseNext

\* Every step of the lock table is a step of the lease.
LEMMA LockStepIsLeaseStep ==
  LockInv /\ [LockNext]_lockVars => [TheLease!LeaseNext]_Owners
<1> SUFFICES ASSUME LockInv, [LockNext]_lockVars
             PROVE  [TheLease!LeaseNext]_Owners
  OBVIOUS
<1>1. CASE UNCHANGED lockVars
  BY <1>1 DEF lockVars, Owners, MayWrite, Holding, Expired
<1>2. CASE \E h \in Holders : InsertLock(h)
  BY <1>2, InsertIsLeaseStep
<1>3. CASE \E h \in Holders : ExtendLockUpdate(h)
  BY <1>3, ExtendIsLeaseStep
<1>4. CASE \E h \in Holders :
             \/ AcquireExternalLock(h) \/ GetLock(h) \/ StealExpired(h)
             \/ AcquireFails(h) \/ ReleaseLock(h) \/ ReleaseExternalLock(h)
             \/ ExtendLockCheck(h) \/ ReleaseAllForSaga(h) \/ Crash(h)
  BY <1>4, OtherStepLoses
<1>5. CASE CleanupExpiredLocks
  <2>1. wants' = wants /\ \A g \in Holders : MayWrite(g)' => MayWrite(g)
    BY <1>5 DEF CleanupExpiredLocks, MayWrite, Holding, Expired
  <2> QED
    BY <2>1, LosingStep DEF TheLease!LeaseNext
<1>6. CASE Tick
  <2>1. wants' = wants /\ \A g \in Holders : MayWrite(g)' => MayWrite(g)
    BY <1>6 DEF Tick, MayWrite, Holding, Expired
  <2> QED
    BY <2>1, LosingStep DEF TheLease!LeaseNext
<1> QED
  BY <1>1, <1>2, <1>3, <1>4, <1>5, <1>6
  DEF LockNext, HolderStep, ExtendLock

\* The database-backed lock implements the lease its callers rely on, for any
\* number of holders and keys and any timeouts.
THEOREM LockImplementsLease == LockSpec => KeysAreLeased
<1>1. LockInit => TheLease!LeaseInit
  BY DEF LockInit, TheLease!LeaseInit, Owners, MayWrite, Holding
<1> QED
  BY <1>1, LockInitInv, LockNextInv, LockStepIsLeaseStep, PTL
  DEF LockSpec, KeysAreLeased, TheLease!LeaseSpec
=============================================================================
