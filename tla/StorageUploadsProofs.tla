------------------------ MODULE StorageUploadsProofs ------------------------
(* Theorems about StorageUploads and the breaker it extends.                *)
EXTENDS StorageUploads, FiniteSetTheorems, TLAPS

-----------------------------------------------------------------------------
(* The breaker.                                                            *)

\* Whatever execute() and the clock do to the breaker.
BreakerStep ==
  Enter \/ OnSuccess \/ OnFailure \/ BreakerTick \/ TransitionToClosed \/ UNCHANGED breakerVars

\* Its counters keep their meaning in whatever state a late outcome meets it.
LEMMA BreakerKept ==
  ASSUME BreakerTypeOK, BreakerCounts, BreakerStep
  PROVE  BreakerTypeOK' /\ BreakerCounts'
<1> USE BreakerAssumption DEF BreakerTypeOK, BreakerCounts
<1>1. CASE Enter
  BY <1>1 DEF Enter, TransitionToHalfOpen, breakerVars
<1>2. CASE OnSuccess
  BY <1>2 DEF OnSuccess, TransitionToClosed, breakerVars
<1>3. CASE OnFailure
  BY <1>3 DEF OnFailure, TransitionToOpen, breakerVars
<1>4. CASE BreakerTick
  BY <1>4 DEF BreakerTick
<1>5. CASE TransitionToClosed
  BY <1>5 DEF TransitionToClosed
<1>6. CASE UNCHANGED breakerVars
  BY <1>6 DEF breakerVars
<1>7. QED
  BY <1>1, <1>2, <1>3, <1>4, <1>5, <1>6 DEF BreakerStep

\* No action of the service touches the breaker in any other way.
LEMMA StepsTheBreaker ==
  ASSUME [Next]_vars
  PROVE  BreakerStep
<1>1. ASSUME NEW u \in Uploads, BeginUpload(u)
      PROVE  BreakerStep
  BY <1>1 DEF BeginUpload, BreakerStep
<1>2. ASSUME NEW u \in Uploads, BeginStream(u)
      PROVE  BreakerStep
  BY <1>2 DEF BeginStream, BreakerStep
<1>3. ASSUME NEW u \in Uploads, ReadUsage(u)
      PROVE  BreakerStep
  BY <1>3 DEF ReadUsage, BreakerStep
<1>4. ASSUME NEW u \in Uploads, Admit(u)
      PROVE  BreakerStep
  BY <1>4 DEF Admit, BreakerStep
<1>5. ASSUME NEW u \in Uploads, EnterUpload(u)
      PROVE  BreakerStep
  BY <1>5 DEF EnterUpload, BreakerStep
<1>6. ASSUME NEW u \in Uploads, PutTimesOut(u)
      PROVE  BreakerStep
  BY <1>6 DEF PutTimesOut, BreakerStep
<1>7. ASSUME NEW u \in Uploads, Record(u)
      PROVE  BreakerStep
  BY <1>7 DEF Record, BreakerStep
<1>8. ASSUME NEW u \in Uploads, FinishUpload(u)
      PROVE  BreakerStep
  BY <1>8 DEF FinishUpload, BreakerStep
<1>9. ASSUME NEW u \in Uploads, Put(u)
      PROVE  BreakerStep
  BY <1>9 DEF Put, BreakerStep
<1>10. ASSUME NEW u \in Uploads, PutStream(u)
      PROVE  BreakerStep
  BY <1>10 DEF PutStream, BreakerStep
<1>11. ASSUME NEW u \in Uploads, LatePut(u)
      PROVE  BreakerStep
  BY <1>11 DEF LatePut, BreakerStep
<1>12. ASSUME NEW d \in Deletes, EnterDelete(d)
      PROVE  BreakerStep
  BY <1>12 DEF EnterDelete, BreakerStep
<1>13. ASSUME NEW d \in Deletes, Remove(d)
      PROVE  BreakerStep
  BY <1>13 DEF Remove, BreakerStep
<1>14. ASSUME NEW d \in Deletes, RemoveFails(d)
      PROVE  BreakerStep
  BY <1>14 DEF RemoveFails, BreakerStep
<1>15. ASSUME NEW d \in Deletes, RemoveRow(d)
      PROVE  BreakerStep
  BY <1>15 DEF RemoveRow, BreakerStep
<1>16. ASSUME NEW d \in Deletes, NEW f \in Files, BeginDelete(d, f)
      PROVE  BreakerStep
  BY <1>16 DEF BeginDelete, BreakerStep
<1>17. ASSUME NEW g \in Downloads, EnterDownload(g)
      PROVE  BreakerStep
  BY <1>17 DEF EnterDownload, BreakerStep
<1>18. ASSUME NEW g \in Downloads, Download(g)
      PROVE  BreakerStep
  BY <1>18 DEF Download, BreakerStep
<1>19. ASSUME NEW g \in Downloads, NEW f \in Files, BeginDownload(g, f)
      PROVE  BreakerStep
  BY <1>19 DEF BeginDownload, BreakerStep
<1>20. ASSUME NEW f \in Files, LateRemove(f)
      PROVE  BreakerStep
  BY <1>20 DEF LateRemove, BreakerStep
<1>21. CASE Tick
  BY <1>21 DEF Tick, BreakerStep
<1>22. CASE Restart
  BY <1>22 DEF Restart, BreakerStep
<1>23. CASE UNCHANGED vars
  BY <1>23 DEF vars, BreakerStep
<1>24. QED
  BY <1>1, <1>2, <1>3, <1>4, <1>5, <1>6, <1>7, <1>8, <1>9, <1>10, <1>11, <1>12, <1>13,
     <1>14, <1>15, <1>16, <1>17, <1>18, <1>19, <1>20, <1>21, <1>22, <1>23 DEF Next,
     LocalStep

-----------------------------------------------------------------------------
(* Types.                                                                  *)

\* The initial state is typed.
LEMMA InitTyped ==
  ASSUME Init
  PROVE  TypeOK /\ BreakerCounts
<1> USE BreakerAssumption, StorageAssumption
<1>1. BreakerTypeOK /\ BreakerCounts
  BY DEF Init, BreakerInit, BreakerTypeOK, BreakerCounts
<1>2. TypeOK
  BY <1>1 DEF Init, TypeOK, Files, Uploads, Nothing, InScope, Phases, CallPhases
<1>3. QED
  BY <1>1, <1>2

\* The conjuncts of TypeOK without the breaker's.
StorageTypeOK ==
  /\ rows \in SUBSET Files
  /\ objects \in SUBSET Files
  /\ phase \in [Uploads -> Phases]
  /\ used \in [Uploads -> [Scopes -> SUBSET Files]]
  /\ reservations \in SUBSET Uploads
  /\ age \in [Uploads -> 0 .. ReservationTtl]
  /\ latePuts \in SUBSET Uploads
  /\ lateRemoves \in SUBSET Files
  /\ deleting \in [Deletes -> CallPhases]
  /\ deletes \in [Deletes -> Files \cup {Null}]
  /\ getting \in [Downloads -> CallPhases]
  /\ gets \in [Downloads -> Files \cup {Null}]
  /\ unsized \in SUBSET Streams
  /\ blind \in [Scopes -> SUBSET Files]
  /\ removing \in SUBSET Files
  /\ deleted \in SUBSET Files

\* The finally block keeps the types.
LEMMA ReturnTyped ==
  ASSUME StorageTypeOK, NEW u \in Uploads, NEW how \in Phases, Return(u, how)
  PROVE  /\ phase' \in [Uploads -> Phases]
         /\ used' \in [Uploads -> [Scopes -> SUBSET Files]]
         /\ age' \in [Uploads -> 0 .. ReservationTtl]
         /\ reservations' \in SUBSET Uploads
         /\ UNCHANGED <<unsized, blind>>
<1>1. Nothing \in [Scopes -> SUBSET Files]
  BY DEF Nothing
<1>2. 0 \in 0 .. ReservationTtl
  BY StorageAssumption
<1>3. QED
  BY <1>1, <1>2 DEF Return, StorageTypeOK

\* Every step keeps the types; a delete under way has a file by CallInv.
LEMMA StorageTyped ==
  ASSUME StorageTypeOK, CallInv, [Next]_vars
  PROVE  StorageTypeOK'
<1>1. ASSUME NEW u \in Uploads, BeginUpload(u)
      PROVE  StorageTypeOK'
  <2>1. CASE Return(u, "failed")
    BY <1>1, <2>1, ReturnTyped, StorageAssumption DEF BeginUpload, StorageTypeOK, Files,
       Uploads, Phases, quotaVars, deleteVars, downloadVars, lateVars
  <2>2. CASE ~Return(u, "failed")
    BY <1>1, <2>2, StorageAssumption DEF BeginUpload, StorageTypeOK, Files, Uploads, Phases,
       quotaVars, deleteVars, downloadVars, lateVars
  <2>3. QED
    BY <2>1, <2>2
<1>2. ASSUME NEW u \in Uploads, BeginStream(u)
      PROVE  StorageTypeOK'
  <2>1. CASE Return(u, "failed")
    BY <1>2, <2>1, ReturnTyped DEF BeginStream, StorageTypeOK, Phases, deleteVars,
       downloadVars, lateVars
  <2>2. CASE phase' = [phase EXCEPT ![u] = "global"] /\ UNCHANGED quotaVars
    BY <1>2, <2>2 DEF BeginStream, StorageTypeOK, Phases, quotaVars, deleteVars,
       downloadVars, lateVars
  <2>3. CASE /\ u \in Streams
             /\ unsized' = unsized \cup {u}
             /\ phase' = [phase EXCEPT ![u] = "send"]
             /\ blind' = [sc \in Scopes |->
                          IF sc \in ScopesOf(u) THEN blind[sc] \cup {u} ELSE blind[sc]]
             /\ UNCHANGED <<used, reservations, age>>
    <3>1. blind' \in [Scopes -> SUBSET Files]
      BY <2>3 DEF StorageTypeOK, Files
    <3>2. QED
      BY <1>2, <2>3, <3>1 DEF BeginStream, StorageTypeOK, Phases, deleteVars, downloadVars,
         lateVars
  <2>4. QED
    BY <1>2, <2>1, <2>2, <2>3 DEF BeginStream
<1>3. ASSUME NEW u \in Uploads, ReadUsage(u)
      PROVE  StorageTypeOK'
  <2>1. Global \in Scopes /\ FolderOf[u] \in Scopes
    BY StorageAssumption DEF Scopes, Files
  <2>2. ASSUME NEW sc \in Scopes, NEW S \in SUBSET Files, used' = [used EXCEPT ![u][sc] = S]
        PROVE  used' \in [Uploads -> [Scopes -> SUBSET Files]]
    BY <2>2 DEF StorageTypeOK
  <2>3. (IF Limited(Global) THEN rows ELSE {}) \in SUBSET Files
    BY DEF StorageTypeOK
  <2>4. (IF Limited(FolderOf[u]) THEN InScope(rows, FolderOf[u]) ELSE {}) \in SUBSET Files
    BY DEF StorageTypeOK, InScope
  <2>5. Nothing \in [Scopes -> SUBSET Files]
    BY DEF Nothing
  <2>6. \/ used' = [used EXCEPT ![u][Global] = IF Limited(Global) THEN rows ELSE {}]
        \/ used' = [used EXCEPT ![u][FolderOf[u]] =
                      IF Limited(FolderOf[u]) THEN InScope(rows, FolderOf[u]) ELSE {}]
        \/ used' = [used EXCEPT ![u] = Nothing]
    BY <1>3 DEF ReadUsage, Return
  <2>7. used' \in [Uploads -> [Scopes -> SUBSET Files]]
    BY <2>1, <2>2, <2>3, <2>4, <2>5, <2>6 DEF StorageTypeOK
  <2>8. /\ \E p \in {"folder", "admit", "failed"} : phase' = [phase EXCEPT ![u] = p]
        /\ reservations' \in {reservations, reservations \ {u}}
        /\ age' \in {age, [age EXCEPT ![u] = 0]}
        /\ UNCHANGED <<unsized, blind>>
    BY <1>3 DEF ReadUsage, Return
  <2>9. /\ phase' \in [Uploads -> Phases]
        /\ reservations' \in SUBSET Uploads
        /\ age' \in [Uploads -> 0 .. ReservationTtl]
    <3>1. age' \in [Uploads -> 0 .. ReservationTtl]
      <4>1. 0 \in 0 .. ReservationTtl
        BY StorageAssumption
      <4>2. QED
        BY <2>8, <4>1 DEF StorageTypeOK
    <3>2. phase' \in [Uploads -> Phases]
      BY <2>8 DEF StorageTypeOK, Phases
    <3>3. QED
      BY <2>8, <3>1, <3>2 DEF StorageTypeOK
  <2>10. QED
    BY <1>3, <2>7, <2>8, <2>9 DEF ReadUsage, StorageTypeOK, lateVars, deleteVars, downloadVars
<1>4. ASSUME NEW u \in Uploads, Admit(u)
      PROVE  StorageTypeOK'
  BY <1>4, StorageAssumption DEF Admit, Unexpired, Committed, InScope, CallInv,
     StorageTypeOK, Files, Uploads, Scopes, ScopesOf, Nothing, Phases, deleteVars,
     downloadVars, lateVars
<1>5. ASSUME NEW u \in Uploads, EnterUpload(u)
      PROVE  StorageTypeOK'
  <2>1. CASE Return(u, "failed")
    BY <1>5, <2>1, ReturnTyped, StorageAssumption DEF EnterUpload, StorageTypeOK, Files,
       Uploads, Phases, quotaVars, deleteVars, downloadVars, lateVars
  <2>2. CASE ~Return(u, "failed")
    BY <1>5, <2>2, StorageAssumption DEF EnterUpload, StorageTypeOK, Files, Uploads, Phases,
       quotaVars, deleteVars, downloadVars, lateVars
  <2>3. QED
    BY <2>1, <2>2
<1>6. ASSUME NEW u \in Uploads, PutTimesOut(u)
      PROVE  StorageTypeOK'
  <2>1. CASE Return(u, "failed")
    BY <1>6, <2>1, ReturnTyped, StorageAssumption DEF PutTimesOut, StorageTypeOK, Files,
       Uploads, Phases, deleteVars, downloadVars
  <2>2. QED
    BY <1>6, <2>1 DEF PutTimesOut
<1>7. ASSUME NEW u \in Uploads, Record(u)
      PROVE  StorageTypeOK'
  <2>1. CASE Return(u, "failed")
    BY <1>7, <2>1, ReturnTyped, StorageAssumption DEF Record, StorageTypeOK, Files, Uploads,
       Phases, quotaVars, deleteVars, downloadVars, lateVars
  <2>2. CASE ~Return(u, "failed")
    BY <1>7, <2>2, StorageAssumption DEF Record, StorageTypeOK, Files, Uploads, Phases,
       quotaVars, deleteVars, downloadVars, lateVars
  <2>3. QED
    BY <2>1, <2>2
<1>8. ASSUME NEW u \in Uploads, FinishUpload(u)
      PROVE  StorageTypeOK'
  <2>1. CASE Return(u, "ok")
    BY <1>8, <2>1, ReturnTyped, StorageAssumption DEF FinishUpload, StorageTypeOK, Files,
       Uploads, Phases, deleteVars, downloadVars, lateVars
  <2>2. QED
    BY <1>8, <2>1 DEF FinishUpload
<1>9. ASSUME NEW u \in Uploads, Put(u)
      PROVE  StorageTypeOK'
  <2>1. CASE Stored(u)
    BY <1>9, <2>1, StorageAssumption DEF Put, Stored, StorageTypeOK, Files, Phases,
       quotaVars, deleteVars, downloadVars, lateVars
  <2>2. CASE NotStored(u)
    <3>1. Return(u, "failed") /\ "failed" \in Phases
      BY <2>2 DEF NotStored, Phases
    <3>2. QED
      BY <2>2, <3>1, ReturnTyped DEF NotStored, StorageTypeOK, Files, deleteVars,
         downloadVars, lateVars
  <2>3. QED
    BY <1>9, <2>1, <2>2 DEF Put
<1>10. ASSUME NEW u \in Uploads, PutStream(u)
      PROVE  StorageTypeOK'
  <2>1. CASE Stored(u)
    BY <1>10, <2>1, StorageAssumption DEF PutStream, Stored, StorageTypeOK, Files, Phases,
       quotaVars, deleteVars, downloadVars, lateVars
  <2>2. CASE NotStored(u)
    <3>1. Return(u, "failed") /\ "failed" \in Phases
      BY <2>2 DEF NotStored, Phases
    <3>2. QED
      BY <2>2, <3>1, ReturnTyped DEF NotStored, StorageTypeOK, Files, deleteVars,
         downloadVars, lateVars
  <2>3. QED
    BY <1>10, <2>1, <2>2 DEF PutStream
<1>11. ASSUME NEW u \in Uploads, LatePut(u)
      PROVE  StorageTypeOK'
  BY <1>11, StorageAssumption DEF LatePut, CallInv, StorageTypeOK, Files, Uploads,
     quotaVars, deleteVars, downloadVars
<1>12. ASSUME NEW d \in Deletes, EnterDelete(d)
      PROVE  StorageTypeOK'
  <2>1. CASE Enter /\ SetDelete(d, "provider") /\ removing' = removing \cup {deletes[d]}
    BY <1>12, <2>1, StorageAssumption DEF EnterDelete, CallInv, SetDelete, EndDelete,
       StorageTypeOK, Files, Uploads, CallPhases, quotaVars, downloadVars, lateVars
  <2>2. CASE EndDelete(d) /\ UNCHANGED removing
    BY <1>12, <2>2, StorageAssumption DEF EnterDelete, CallInv, SetDelete, EndDelete,
       StorageTypeOK, Files, Uploads, CallPhases, quotaVars, downloadVars, lateVars
  <2>3. QED
    BY <1>12, <2>1, <2>2 DEF EnterDelete
<1>13. ASSUME NEW d \in Deletes, Remove(d)
      PROVE  StorageTypeOK'
  BY <1>13, StorageAssumption DEF Remove, SetDelete, CallInv, StorageTypeOK, Files, Uploads,
     CallPhases, quotaVars, downloadVars, lateVars
<1>14. ASSUME NEW d \in Deletes, RemoveFails(d)
      PROVE  StorageTypeOK'
  BY <1>14, StorageAssumption DEF RemoveFails, EndDelete, CallInv, StorageTypeOK, Files,
     Uploads, CallPhases, quotaVars, downloadVars
<1>15. ASSUME NEW d \in Deletes, RemoveRow(d)
      PROVE  StorageTypeOK'
  BY <1>15, StorageAssumption DEF RemoveRow, EndDelete, CallInv, StorageTypeOK, Files,
     Uploads, CallPhases, quotaVars, downloadVars, lateVars
<1>16. ASSUME NEW d \in Deletes, NEW f \in Files, BeginDelete(d, f)
      PROVE  StorageTypeOK'
  BY <1>16, StorageAssumption DEF BeginDelete, CallInv, StorageTypeOK, Files, Uploads,
     CallPhases, quotaVars, downloadVars, lateVars
<1>17. ASSUME NEW g \in Downloads, EnterDownload(g)
      PROVE  StorageTypeOK'
  BY <1>17, StorageAssumption DEF EnterDownload, EndGet, CallInv, StorageTypeOK, Files,
     Uploads, CallPhases, quotaVars, deleteVars, lateVars
<1>18. ASSUME NEW g \in Downloads, Download(g)
      PROVE  StorageTypeOK'
  BY <1>18, StorageAssumption DEF Download, EndGet, CallInv, StorageTypeOK, Files, Uploads,
     CallPhases, quotaVars, deleteVars, lateVars
<1>19. ASSUME NEW g \in Downloads, NEW f \in Files, BeginDownload(g, f)
      PROVE  StorageTypeOK'
  BY <1>19, StorageAssumption DEF BeginDownload, CallInv, StorageTypeOK, Files, Uploads,
     CallPhases, quotaVars, deleteVars, lateVars
<1>20. ASSUME NEW f \in Files, LateRemove(f)
      PROVE  StorageTypeOK'
  BY <1>20, StorageAssumption DEF LateRemove, CallInv, StorageTypeOK, Files, Uploads,
     quotaVars, deleteVars, downloadVars
<1>21. CASE Tick
  BY <1>21, StorageAssumption DEF Tick, CallInv, StorageTypeOK, Files, Uploads, deleteVars,
     downloadVars, lateVars
<1>22. CASE Restart
  BY <1>22, StorageAssumption DEF Restart, CallInv, StorageTypeOK, Files, Uploads, Nothing,
     Phases, CallPhases
<1>23. CASE UNCHANGED vars
  BY <1>23, StorageAssumption DEF vars, CallInv, StorageTypeOK, Files, Uploads, quotaVars,
     deleteVars, downloadVars, lateVars
<1>24. QED
  BY <1>1, <1>2, <1>3, <1>4, <1>5, <1>6, <1>7, <1>8, <1>9, <1>10, <1>11, <1>12, <1>13,
     <1>14, <1>15, <1>16, <1>17, <1>18, <1>19, <1>20, <1>21, <1>22, <1>23 DEF Next,
     LocalStep

\* Reservations are made by admit and dropped by finally, prune and restart only.
LEMMA HeadroomKept ==
  ASSUME StorageTypeOK, HeadroomInv, [Next]_vars
  PROVE  HeadroomInv'
<1>1. ASSUME NEW u \in Uploads, BeginUpload(u)
      PROVE  HeadroomInv'
  BY <1>1, StorageAssumption DEF BeginUpload, Return, StorageTypeOK, HeadroomInv, InFlight,
     Uploads, quotaVars, deleteVars, downloadVars, lateVars
<1>2. ASSUME NEW u \in Uploads, BeginStream(u)
      PROVE  HeadroomInv'
  <2>1. CASE Return(u, "failed")
    BY <1>2, <2>1, StorageAssumption DEF BeginStream, Return, StorageTypeOK, HeadroomInv,
       InFlight, Uploads, quotaVars, deleteVars, downloadVars, lateVars
  <2>2. CASE phase' = [phase EXCEPT ![u] = "global"] /\ UNCHANGED quotaVars
    BY <1>2, <2>2, StorageAssumption DEF BeginStream, Return, StorageTypeOK, HeadroomInv,
       InFlight, Uploads, quotaVars, deleteVars, downloadVars, lateVars
  <2>3. CASE /\ u \in Streams
             /\ unsized' = unsized \cup {u}
             /\ phase' = [phase EXCEPT ![u] = "send"]
             /\ blind' = [sc \in Scopes |->
                          IF sc \in ScopesOf(u) THEN blind[sc] \cup {u} ELSE blind[sc]]
             /\ UNCHANGED <<used, reservations, age>>
    BY <1>2, <2>3, StorageAssumption DEF BeginStream, Return, StorageTypeOK, HeadroomInv,
       InFlight, Uploads, quotaVars, deleteVars, downloadVars, lateVars
  <2>4. QED
    BY <1>2, <2>1, <2>2, <2>3 DEF BeginStream
<1>3. ASSUME NEW u \in Uploads, ReadUsage(u)
      PROVE  HeadroomInv'
  <2>1. CASE phase[u] = "global" /\ ~Return(u, "failed")
    BY <1>3, <2>1, StorageAssumption DEF ReadUsage, Return, StorageTypeOK, HeadroomInv,
       InFlight, Uploads, deleteVars, downloadVars, lateVars
  <2>2. CASE phase[u] = "folder" /\ ~Return(u, "failed")
    BY <1>3, <2>2, StorageAssumption DEF ReadUsage, Return, StorageTypeOK, HeadroomInv,
       InFlight, Uploads, deleteVars, downloadVars, lateVars
  <2>3. CASE Return(u, "failed")
    BY <1>3, <2>3, StorageAssumption DEF ReadUsage, Return, StorageTypeOK, HeadroomInv,
       InFlight, Uploads, deleteVars, downloadVars, lateVars
  <2>4. QED
    BY <1>3, <2>1, <2>2, <2>3 DEF ReadUsage
<1>4. ASSUME NEW u \in Uploads, Admit(u)
      PROVE  HeadroomInv'
  <2>1. CASE Fits(u)
    BY <1>4, <2>1, StorageAssumption DEF Admit, Unexpired, Committed, InScope,
       StorageTypeOK, HeadroomInv, InFlight, Uploads, deleteVars, downloadVars, lateVars
  <2>2. CASE ~Fits(u)
    BY <1>4, <2>2, StorageAssumption DEF Admit, Unexpired, Committed, InScope,
       StorageTypeOK, HeadroomInv, InFlight, Uploads, deleteVars, downloadVars, lateVars
  <2>3. QED
    BY <1>4, <2>1, <2>2 DEF Admit
<1>5. ASSUME NEW u \in Uploads, EnterUpload(u)
      PROVE  HeadroomInv'
  <2>1. CASE phase' = [phase EXCEPT ![u] = "send"] /\ UNCHANGED quotaVars
    BY <1>5, <2>1, StorageAssumption DEF EnterUpload, Return, StorageTypeOK, HeadroomInv,
       InFlight, Uploads, quotaVars, deleteVars, downloadVars, lateVars
  <2>2. CASE Return(u, "failed")
    BY <1>5, <2>2, StorageAssumption DEF EnterUpload, Return, StorageTypeOK, HeadroomInv,
       InFlight, Uploads, quotaVars, deleteVars, downloadVars, lateVars
  <2>3. QED
    BY <1>5, <2>1, <2>2 DEF EnterUpload
<1>6. ASSUME NEW u \in Uploads, PutTimesOut(u)
      PROVE  HeadroomInv'
  BY <1>6, StorageAssumption DEF PutTimesOut, Return, StorageTypeOK, HeadroomInv, InFlight,
     Uploads, deleteVars, downloadVars
<1>7. ASSUME NEW u \in Uploads, Record(u)
      PROVE  HeadroomInv'
  BY <1>7, StorageAssumption DEF Record, Return, StorageTypeOK, HeadroomInv, InFlight,
     Uploads, quotaVars, deleteVars, downloadVars, lateVars
<1>8. ASSUME NEW u \in Uploads, FinishUpload(u)
      PROVE  HeadroomInv'
  BY <1>8, StorageAssumption DEF FinishUpload, Return, StorageTypeOK, HeadroomInv, InFlight,
     Uploads, deleteVars, downloadVars, lateVars
<1>9. ASSUME NEW u \in Uploads, Put(u)
      PROVE  HeadroomInv'
  BY <1>9, StorageAssumption DEF Put, Stored, NotStored, Return, StorageTypeOK, HeadroomInv,
     InFlight, Uploads, quotaVars, deleteVars, downloadVars, lateVars
<1>10. ASSUME NEW u \in Uploads, PutStream(u)
      PROVE  HeadroomInv'
  BY <1>10, StorageAssumption DEF PutStream, Stored, NotStored, Return, StorageTypeOK,
     HeadroomInv, InFlight, Uploads, quotaVars, deleteVars, downloadVars, lateVars
<1>11. ASSUME NEW u \in Uploads, LatePut(u)
      PROVE  HeadroomInv'
  BY <1>11, StorageAssumption DEF LatePut, StorageTypeOK, HeadroomInv, InFlight, Uploads,
     quotaVars, deleteVars, downloadVars
<1>12. ASSUME NEW d \in Deletes, EnterDelete(d)
      PROVE  HeadroomInv'
  BY <1>12, StorageAssumption DEF EnterDelete, SetDelete, EndDelete, StorageTypeOK,
     HeadroomInv, InFlight, Uploads, quotaVars, downloadVars, lateVars
<1>13. ASSUME NEW d \in Deletes, Remove(d)
      PROVE  HeadroomInv'
  BY <1>13, StorageAssumption DEF Remove, SetDelete, StorageTypeOK, HeadroomInv, InFlight,
     Uploads, quotaVars, downloadVars, lateVars
<1>14. ASSUME NEW d \in Deletes, RemoveFails(d)
      PROVE  HeadroomInv'
  BY <1>14, StorageAssumption DEF RemoveFails, EndDelete, StorageTypeOK, HeadroomInv,
     InFlight, Uploads, quotaVars, downloadVars
<1>15. ASSUME NEW d \in Deletes, RemoveRow(d)
      PROVE  HeadroomInv'
  BY <1>15, StorageAssumption DEF RemoveRow, EndDelete, StorageTypeOK, HeadroomInv,
     InFlight, Uploads, quotaVars, downloadVars, lateVars
<1>16. ASSUME NEW d \in Deletes, NEW f \in Files, BeginDelete(d, f)
      PROVE  HeadroomInv'
  BY <1>16, StorageAssumption DEF BeginDelete, StorageTypeOK, HeadroomInv, InFlight,
     Uploads, quotaVars, downloadVars, lateVars
<1>17. ASSUME NEW g \in Downloads, EnterDownload(g)
      PROVE  HeadroomInv'
  BY <1>17, StorageAssumption DEF EnterDownload, EndGet, StorageTypeOK, HeadroomInv,
     InFlight, Uploads, quotaVars, deleteVars, lateVars
<1>18. ASSUME NEW g \in Downloads, Download(g)
      PROVE  HeadroomInv'
  BY <1>18, StorageAssumption DEF Download, EndGet, StorageTypeOK, HeadroomInv, InFlight,
     Uploads, quotaVars, deleteVars, lateVars
<1>19. ASSUME NEW g \in Downloads, NEW f \in Files, BeginDownload(g, f)
      PROVE  HeadroomInv'
  BY <1>19, StorageAssumption DEF BeginDownload, StorageTypeOK, HeadroomInv, InFlight,
     Uploads, quotaVars, deleteVars, lateVars
<1>20. ASSUME NEW f \in Files, LateRemove(f)
      PROVE  HeadroomInv'
  BY <1>20, StorageAssumption DEF LateRemove, StorageTypeOK, HeadroomInv, InFlight, Uploads,
     quotaVars, deleteVars, downloadVars
<1>21. CASE Tick
  BY <1>21, StorageAssumption DEF Tick, StorageTypeOK, HeadroomInv, InFlight, Uploads,
     deleteVars, downloadVars, lateVars
<1>22. CASE Restart
  BY <1>22, StorageAssumption DEF Restart, StorageTypeOK, HeadroomInv, InFlight, Uploads
<1>23. CASE UNCHANGED vars
  BY <1>23, StorageAssumption DEF vars, StorageTypeOK, HeadroomInv, InFlight, Uploads,
     quotaVars, deleteVars, downloadVars, lateVars
<1>24. QED
  BY <1>1, <1>2, <1>3, <1>4, <1>5, <1>6, <1>7, <1>8, <1>9, <1>10, <1>11, <1>12, <1>13,
     <1>14, <1>15, <1>16, <1>17, <1>18, <1>19, <1>20, <1>21, <1>22, <1>23 DEF Next,
     LocalStep

\* A file is known to deletes only once recorded, and no late put has such a file.
LEMMA CallsKept ==
  ASSUME StorageTypeOK, CallInv, [Next]_vars
  PROVE  CallInv'
<1>1. ASSUME NEW u \in Uploads, BeginUpload(u)
      PROVE  CallInv'
  <2>1. CASE Return(u, "failed")
    BY <1>1, <2>1, StorageAssumption DEF BeginUpload, Return, StorageTypeOK, CallInv,
       Recorded, Files, Uploads, quotaVars, deleteVars, downloadVars, lateVars
  <2>2. CASE phase' = [phase EXCEPT ![u] = "global"] /\ UNCHANGED quotaVars
    BY <1>1, <2>2, StorageAssumption DEF BeginUpload, Return, StorageTypeOK, CallInv,
       Recorded, Files, Uploads, quotaVars, deleteVars, downloadVars, lateVars
  <2>3. QED
    BY <1>1, <2>1, <2>2 DEF BeginUpload
<1>2. ASSUME NEW u \in Uploads, BeginStream(u)
      PROVE  CallInv'
  <2>1. CASE Return(u, "failed")
    BY <1>2, <2>1, StorageAssumption DEF BeginStream, Return, StorageTypeOK, CallInv,
       Recorded, Files, Uploads, quotaVars, deleteVars, downloadVars, lateVars
  <2>2. CASE phase' = [phase EXCEPT ![u] = "global"] /\ UNCHANGED quotaVars
    BY <1>2, <2>2, StorageAssumption DEF BeginStream, Return, StorageTypeOK, CallInv,
       Recorded, Files, Uploads, quotaVars, deleteVars, downloadVars, lateVars
  <2>3. CASE /\ u \in Streams
             /\ unsized' = unsized \cup {u}
             /\ phase' = [phase EXCEPT ![u] = "send"]
             /\ blind' = [sc \in Scopes |->
                          IF sc \in ScopesOf(u) THEN blind[sc] \cup {u} ELSE blind[sc]]
             /\ UNCHANGED <<used, reservations, age>>
    BY <1>2, <2>3, StorageAssumption DEF BeginStream, Return, StorageTypeOK, CallInv,
       Recorded, Files, Uploads, quotaVars, deleteVars, downloadVars, lateVars
  <2>4. QED
    BY <1>2, <2>1, <2>2, <2>3 DEF BeginStream
<1>3. ASSUME NEW u \in Uploads, ReadUsage(u)
      PROVE  CallInv'
  <2>1. UNCHANGED <<rows, removing, latePuts, lateRemoves, deleting, deletes, deleted>>
    BY <1>3 DEF ReadUsage, lateVars, deleteVars
  <2>2. /\ phase[u] \in {"global", "folder"}
        /\ \E p \in {"folder", "admit", "failed"} : phase' = [phase EXCEPT ![u] = p]
    BY <1>3 DEF ReadUsage, Return
  <2>3. \A f : Recorded(f) => Recorded(f)'
    BY <2>2 DEF Recorded, StorageTypeOK
  <2>4. \A w \in latePuts : phase'[w] = phase[w]
    BY <2>2 DEF CallInv, StorageTypeOK
  <2>5. QED
    BY <2>1, <2>3, <2>4 DEF CallInv
<1>4. ASSUME NEW u \in Uploads, Admit(u)
      PROVE  CallInv'
  <2>1. UNCHANGED <<rows, removing, latePuts, lateRemoves, deleting, deletes, deleted>>
    BY <1>4 DEF Admit, lateVars, deleteVars
  <2>2. /\ phase[u] \in {"admit"}
        /\ \E p \in {"enter", "send", "failed"} : phase' = [phase EXCEPT ![u] = p]
    BY <1>4 DEF Admit
  <2>3. \A f : Recorded(f) => Recorded(f)'
    BY <2>2 DEF Recorded, StorageTypeOK
  <2>4. \A w \in latePuts : phase'[w] = phase[w]
    BY <2>2 DEF CallInv, StorageTypeOK
  <2>5. QED
    BY <2>1, <2>3, <2>4 DEF CallInv
<1>5. ASSUME NEW u \in Uploads, EnterUpload(u)
      PROVE  CallInv'
  <2>1. CASE phase' = [phase EXCEPT ![u] = "send"] /\ UNCHANGED quotaVars
    BY <1>5, <2>1, StorageAssumption DEF EnterUpload, Return, StorageTypeOK, CallInv,
       Recorded, Files, Uploads, quotaVars, deleteVars, downloadVars, lateVars
  <2>2. CASE Return(u, "failed")
    BY <1>5, <2>2, StorageAssumption DEF EnterUpload, Return, StorageTypeOK, CallInv,
       Recorded, Files, Uploads, quotaVars, deleteVars, downloadVars, lateVars
  <2>3. QED
    BY <1>5, <2>1, <2>2 DEF EnterUpload
<1>6. ASSUME NEW u \in Uploads, PutTimesOut(u)
      PROVE  CallInv'
  BY <1>6, StorageAssumption DEF PutTimesOut, Return, StorageTypeOK, CallInv, Recorded,
     Files, Uploads, deleteVars, downloadVars
<1>7. ASSUME NEW u \in Uploads, Record(u)
      PROVE  CallInv'
  <2>1. CASE rows' = rows \cup {u} /\ phase' = [phase EXCEPT ![u] = "index"] /\ UNCHANGED quotaVars
    BY <1>7, <2>1, StorageAssumption DEF Record, Return, StorageTypeOK, CallInv, Recorded,
       Files, Uploads, quotaVars, deleteVars, downloadVars, lateVars
  <2>2. CASE Return(u, "failed") /\ UNCHANGED rows
    BY <1>7, <2>2, StorageAssumption DEF Record, Return, StorageTypeOK, CallInv, Recorded,
       Files, Uploads, quotaVars, deleteVars, downloadVars, lateVars
  <2>3. QED
    BY <1>7, <2>1, <2>2 DEF Record
<1>8. ASSUME NEW u \in Uploads, FinishUpload(u)
      PROVE  CallInv'
  BY <1>8, StorageAssumption DEF FinishUpload, Return, StorageTypeOK, CallInv, Recorded,
     Files, Uploads, deleteVars, downloadVars, lateVars
<1>9. ASSUME NEW u \in Uploads, Put(u)
      PROVE  CallInv'
  <2>1. CASE Stored(u)
    BY <1>9, <2>1, StorageAssumption DEF Put, Stored, NotStored, Return, StorageTypeOK,
       CallInv, Recorded, Files, Uploads, quotaVars, deleteVars, downloadVars, lateVars
  <2>2. CASE NotStored(u)
    BY <1>9, <2>2, StorageAssumption DEF Put, Stored, NotStored, Return, StorageTypeOK,
       CallInv, Recorded, Files, Uploads, quotaVars, deleteVars, downloadVars, lateVars
  <2>3. QED
    BY <1>9, <2>1, <2>2 DEF Put
<1>10. ASSUME NEW u \in Uploads, PutStream(u)
      PROVE  CallInv'
  <2>1. CASE Stored(u)
    BY <1>10, <2>1, StorageAssumption DEF PutStream, Stored, NotStored, Return,
       StorageTypeOK, CallInv, Recorded, Files, Uploads, quotaVars, deleteVars,
       downloadVars, lateVars
  <2>2. CASE NotStored(u)
    BY <1>10, <2>2, StorageAssumption DEF PutStream, Stored, NotStored, Return,
       StorageTypeOK, CallInv, Recorded, Files, Uploads, quotaVars, deleteVars,
       downloadVars, lateVars
  <2>3. QED
    BY <1>10, <2>1, <2>2 DEF PutStream
<1>11. ASSUME NEW u \in Uploads, LatePut(u)
      PROVE  CallInv'
  BY <1>11, StorageAssumption DEF LatePut, StorageTypeOK, CallInv, Recorded, Files, Uploads,
     quotaVars, deleteVars, downloadVars
<1>12. ASSUME NEW d \in Deletes, EnterDelete(d)
      PROVE  CallInv'
  <2>1. CASE Enter /\ SetDelete(d, "provider") /\ removing' = removing \cup {deletes[d]}
    BY <1>12, <2>1, StorageAssumption DEF EnterDelete, SetDelete, EndDelete, StorageTypeOK,
       CallInv, Recorded, Files, Uploads, CallPhases, quotaVars, downloadVars, lateVars
  <2>2. CASE EndDelete(d) /\ UNCHANGED removing
    BY <1>12, <2>2, StorageAssumption DEF EnterDelete, SetDelete, EndDelete, StorageTypeOK,
       CallInv, Recorded, Files, Uploads, CallPhases, quotaVars, downloadVars, lateVars
  <2>3. QED
    BY <1>12, <2>1, <2>2 DEF EnterDelete
<1>13. ASSUME NEW d \in Deletes, Remove(d)
      PROVE  CallInv'
  BY <1>13, StorageAssumption DEF Remove, SetDelete, StorageTypeOK, CallInv, Recorded,
     Files, Uploads, CallPhases, quotaVars, downloadVars, lateVars
<1>14. ASSUME NEW d \in Deletes, RemoveFails(d)
      PROVE  CallInv'
  BY <1>14, StorageAssumption DEF RemoveFails, EndDelete, StorageTypeOK, CallInv, Recorded,
     Files, Uploads, CallPhases, quotaVars, downloadVars
<1>15. ASSUME NEW d \in Deletes, RemoveRow(d)
      PROVE  CallInv'
  BY <1>15, StorageAssumption DEF RemoveRow, EndDelete, StorageTypeOK, CallInv, Recorded,
     Files, Uploads, CallPhases, quotaVars, downloadVars, lateVars
<1>16. ASSUME NEW d \in Deletes, NEW f \in Files, BeginDelete(d, f)
      PROVE  CallInv'
  BY <1>16, StorageAssumption DEF BeginDelete, StorageTypeOK, CallInv, Recorded, Files,
     Uploads, CallPhases, quotaVars, downloadVars, lateVars
<1>17. ASSUME NEW g \in Downloads, EnterDownload(g)
      PROVE  CallInv'
  BY <1>17, StorageAssumption DEF EnterDownload, EndGet, StorageTypeOK, CallInv, Recorded,
     Files, Uploads, CallPhases, quotaVars, deleteVars, lateVars
<1>18. ASSUME NEW g \in Downloads, Download(g)
      PROVE  CallInv'
  BY <1>18, StorageAssumption DEF Download, EndGet, StorageTypeOK, CallInv, Recorded, Files,
     Uploads, CallPhases, quotaVars, deleteVars, lateVars
<1>19. ASSUME NEW g \in Downloads, NEW f \in Files, BeginDownload(g, f)
      PROVE  CallInv'
  BY <1>19, StorageAssumption DEF BeginDownload, StorageTypeOK, CallInv, Recorded, Files,
     Uploads, CallPhases, quotaVars, deleteVars, lateVars
<1>20. ASSUME NEW f \in Files, LateRemove(f)
      PROVE  CallInv'
  BY <1>20, StorageAssumption DEF LateRemove, StorageTypeOK, CallInv, Recorded, Files,
     Uploads, quotaVars, deleteVars, downloadVars
<1>21. CASE Tick
  BY <1>21, StorageAssumption DEF Tick, StorageTypeOK, CallInv, Recorded, Files, Uploads,
     deleteVars, downloadVars, lateVars
<1>22. CASE Restart
  BY <1>22, StorageAssumption DEF Restart, StorageTypeOK, CallInv, Recorded, Files, Uploads,
     CallPhases
<1>23. CASE UNCHANGED vars
  BY <1>23, StorageAssumption DEF vars, StorageTypeOK, CallInv, Recorded, Files, Uploads,
     quotaVars, deleteVars, downloadVars, lateVars
<1>24. QED
  BY <1>1, <1>2, <1>3, <1>4, <1>5, <1>6, <1>7, <1>8, <1>9, <1>10, <1>11, <1>12, <1>13,
     <1>14, <1>15, <1>16, <1>17, <1>18, <1>19, <1>20, <1>21, <1>22, <1>23 DEF Next,
     LocalStep

\* Rows come after their objects, objects go before their rows.
LEMMA StoreKept ==
  ASSUME StorageTypeOK, CallInv, StoreInv, [Next]_vars
  PROVE  StoreInv'
<1>1. ASSUME NEW u \in Uploads, BeginUpload(u)
      PROVE  StoreInv'
  BY <1>1, StorageAssumption DEF BeginUpload, Return, StorageTypeOK, CallInv, StoreInv,
     Recorded, RowHasObject, DeletedIsGone, Files, Uploads, quotaVars, deleteVars,
     downloadVars, lateVars
<1>2. ASSUME NEW u \in Uploads, BeginStream(u)
      PROVE  StoreInv'
  BY <1>2, StorageAssumption DEF BeginStream, Return, StorageTypeOK, CallInv, StoreInv,
     Recorded, RowHasObject, DeletedIsGone, Files, Uploads, quotaVars, deleteVars,
     downloadVars, lateVars
<1>3. ASSUME NEW u \in Uploads, ReadUsage(u)
      PROVE  StoreInv'
  BY <1>3, StorageAssumption DEF ReadUsage, Return, StorageTypeOK, CallInv, StoreInv,
     Recorded, RowHasObject, DeletedIsGone, Files, Uploads, deleteVars, downloadVars,
     lateVars
<1>4. ASSUME NEW u \in Uploads, Admit(u)
      PROVE  StoreInv'
  BY <1>4, StorageAssumption DEF Admit, Unexpired, Committed, InScope, StorageTypeOK,
     CallInv, StoreInv, Recorded, RowHasObject, DeletedIsGone, Files, Uploads, deleteVars,
     downloadVars, lateVars
<1>5. ASSUME NEW u \in Uploads, EnterUpload(u)
      PROVE  StoreInv'
  BY <1>5, StorageAssumption DEF EnterUpload, Return, StorageTypeOK, CallInv, StoreInv,
     Recorded, RowHasObject, DeletedIsGone, Files, Uploads, quotaVars, deleteVars,
     downloadVars, lateVars
<1>6. ASSUME NEW u \in Uploads, PutTimesOut(u)
      PROVE  StoreInv'
  BY <1>6, StorageAssumption DEF PutTimesOut, Return, StorageTypeOK, CallInv, StoreInv,
     Recorded, RowHasObject, DeletedIsGone, Files, Uploads, deleteVars, downloadVars
<1>7. ASSUME NEW u \in Uploads, Record(u)
      PROVE  StoreInv'
  BY <1>7, StorageAssumption DEF Record, Return, StorageTypeOK, CallInv, StoreInv, Recorded,
     RowHasObject, DeletedIsGone, Files, Uploads, quotaVars, deleteVars, downloadVars,
     lateVars
<1>8. ASSUME NEW u \in Uploads, FinishUpload(u)
      PROVE  StoreInv'
  BY <1>8, StorageAssumption DEF FinishUpload, Return, StorageTypeOK, CallInv, StoreInv,
     Recorded, RowHasObject, DeletedIsGone, Files, Uploads, deleteVars, downloadVars,
     lateVars
<1>9. ASSUME NEW u \in Uploads, Put(u)
      PROVE  StoreInv'
  BY <1>9, StorageAssumption DEF Put, Stored, NotStored, Return, StorageTypeOK, CallInv,
     StoreInv, Recorded, RowHasObject, DeletedIsGone, Files, Uploads, quotaVars, deleteVars,
     downloadVars, lateVars
<1>10. ASSUME NEW u \in Uploads, PutStream(u)
      PROVE  StoreInv'
  BY <1>10, StorageAssumption DEF PutStream, Stored, NotStored, Return, StorageTypeOK,
     CallInv, StoreInv, Recorded, RowHasObject, DeletedIsGone, Files, Uploads, quotaVars,
     deleteVars, downloadVars, lateVars
<1>11. ASSUME NEW u \in Uploads, LatePut(u)
      PROVE  StoreInv'
  BY <1>11, StorageAssumption DEF LatePut, StorageTypeOK, CallInv, StoreInv, Recorded,
     RowHasObject, DeletedIsGone, Files, Uploads, quotaVars, deleteVars, downloadVars
<1>12. ASSUME NEW d \in Deletes, EnterDelete(d)
      PROVE  StoreInv'
  BY <1>12, StorageAssumption DEF EnterDelete, SetDelete, EndDelete, StorageTypeOK, CallInv,
     StoreInv, Recorded, RowHasObject, DeletedIsGone, Files, Uploads, CallPhases, quotaVars,
     downloadVars, lateVars
<1>13. ASSUME NEW d \in Deletes, Remove(d)
      PROVE  StoreInv'
  BY <1>13, StorageAssumption DEF Remove, SetDelete, StorageTypeOK, CallInv, StoreInv,
     Recorded, RowHasObject, DeletedIsGone, Files, Uploads, CallPhases, quotaVars,
     downloadVars, lateVars
<1>14. ASSUME NEW d \in Deletes, RemoveFails(d)
      PROVE  StoreInv'
  BY <1>14, StorageAssumption DEF RemoveFails, EndDelete, StorageTypeOK, CallInv, StoreInv,
     Recorded, RowHasObject, DeletedIsGone, Files, Uploads, CallPhases, quotaVars,
     downloadVars
<1>15. ASSUME NEW d \in Deletes, RemoveRow(d)
      PROVE  StoreInv'
  BY <1>15, StorageAssumption DEF RemoveRow, EndDelete, StorageTypeOK, CallInv, StoreInv,
     Recorded, RowHasObject, DeletedIsGone, Files, Uploads, CallPhases, quotaVars,
     downloadVars, lateVars
<1>16. ASSUME NEW d \in Deletes, NEW f \in Files, BeginDelete(d, f)
      PROVE  StoreInv'
  BY <1>16, StorageAssumption DEF BeginDelete, StorageTypeOK, CallInv, StoreInv, Recorded,
     RowHasObject, DeletedIsGone, Files, Uploads, CallPhases, quotaVars, downloadVars,
     lateVars
<1>17. ASSUME NEW g \in Downloads, EnterDownload(g)
      PROVE  StoreInv'
  BY <1>17, StorageAssumption DEF EnterDownload, EndGet, StorageTypeOK, CallInv, StoreInv,
     Recorded, RowHasObject, DeletedIsGone, Files, Uploads, CallPhases, quotaVars,
     deleteVars, lateVars
<1>18. ASSUME NEW g \in Downloads, Download(g)
      PROVE  StoreInv'
  BY <1>18, StorageAssumption DEF Download, EndGet, StorageTypeOK, CallInv, StoreInv,
     Recorded, RowHasObject, DeletedIsGone, Files, Uploads, CallPhases, quotaVars,
     deleteVars, lateVars
<1>19. ASSUME NEW g \in Downloads, NEW f \in Files, BeginDownload(g, f)
      PROVE  StoreInv'
  BY <1>19, StorageAssumption DEF BeginDownload, StorageTypeOK, CallInv, StoreInv, Recorded,
     RowHasObject, DeletedIsGone, Files, Uploads, CallPhases, quotaVars, deleteVars,
     lateVars
<1>20. ASSUME NEW f \in Files, LateRemove(f)
      PROVE  StoreInv'
  BY <1>20, StorageAssumption DEF LateRemove, StorageTypeOK, CallInv, StoreInv, Recorded,
     RowHasObject, DeletedIsGone, Files, Uploads, quotaVars, deleteVars, downloadVars
<1>21. CASE Tick
  BY <1>21, StorageAssumption DEF Tick, StorageTypeOK, CallInv, StoreInv, Recorded,
     RowHasObject, DeletedIsGone, Files, Uploads, deleteVars, downloadVars, lateVars
<1>22. CASE Restart
  BY <1>22, StorageAssumption DEF Restart, StorageTypeOK, CallInv, StoreInv, Recorded,
     RowHasObject, DeletedIsGone, Files, Uploads, CallPhases
<1>23. CASE UNCHANGED vars
  BY <1>23, StorageAssumption DEF vars, StorageTypeOK, CallInv, StoreInv, Recorded,
     RowHasObject, DeletedIsGone, Files, Uploads, quotaVars, deleteVars, downloadVars,
     lateVars
<1>24. QED
  BY <1>1, <1>2, <1>3, <1>4, <1>5, <1>6, <1>7, <1>8, <1>9, <1>10, <1>11, <1>12, <1>13,
     <1>14, <1>15, <1>16, <1>17, <1>18, <1>19, <1>20, <1>21, <1>22, <1>23 DEF Next,
     LocalStep

-----------------------------------------------------------------------------
(* Bytes.                                                                  *)

\* A set of files has finitely many bytes.
LEMMA ContentFinite ==
  ASSUME NEW S \in SUBSET Files
  PROVE  IsFiniteSet(Content(S)) /\ Bytes(S) \in Nat
<1> DEFINE P == {{f} \X (1 .. SizeOf[f]) : f \in S}
           F == [f \in S |-> {f} \X (1 .. SizeOf[f])]
<1>1. IsFiniteSet(S)
  BY FilesAssumption, FS_Subset
<1>2. IsFiniteSet(P)
  <2>1. F \in Surjection(S, P)
    BY DEF Surjection
  <2> QED
    BY <1>1, <2>1, FS_Surjection
<1>3. \A T \in P : IsFiniteSet(T)
  <2> SUFFICES ASSUME NEW f \in S PROVE IsFiniteSet({f} \X (1 .. SizeOf[f]))
    OBVIOUS
  <2>1. SizeOf[f] \in Int /\ 1 \in Int
    BY StorageAssumption
  <2>2. IsFiniteSet({f})
    BY FS_Singleton
  <2>3. IsFiniteSet(1 .. SizeOf[f])
    BY <2>1, FS_Interval
  <2> QED
    BY <2>2, <2>3, FS_Product
<1>4. IsFiniteSet(Content(S))
  BY <1>2, <1>3, FS_UNION DEF Content
<1> QED
  BY <1>4, FS_CardinalityType DEF Bytes

\* Fewer files have no more bytes.
LEMMA BytesMonotonic ==
  ASSUME NEW T \in SUBSET Files, NEW S \in SUBSET T
  PROVE  Bytes(S) <= Bytes(T)
<1>1. Content(S) \subseteq Content(T)
  BY DEF Content
<1> QED
  BY <1>1, ContentFinite, FS_Subset DEF Bytes

\* Two sets of files have at most the bytes of the one and of the other.
LEMMA BytesSubadditive ==
  ASSUME NEW S \in SUBSET Files, NEW T \in SUBSET Files
  PROVE  Bytes(S \cup T) <= Bytes(S) + Bytes(T)
<1>1. Content(S \cup T) = Content(S) \cup Content(T)
  BY DEF Content
<1>2. IsFiniteSet(Content(S)) /\ IsFiniteSet(Content(T))
      /\ IsFiniteSet(Content(S) \cap Content(T))
  BY ContentFinite, FS_Subset
<1>3. /\ Cardinality(Content(S)) \in Nat /\ Cardinality(Content(T)) \in Nat
      /\ Cardinality(Content(S) \cap Content(T)) \in Nat
  BY <1>2, FS_CardinalityType
<1>4. Cardinality(Content(S) \cup Content(T)) =
        Cardinality(Content(S)) + Cardinality(Content(T))
          - Cardinality(Content(S) \cap Content(T))
  BY <1>2, FS_Union
<1>5. /\ Bytes(S \cup T) = Cardinality(Content(S) \cup Content(T))
      /\ Bytes(S) = Cardinality(Content(S)) /\ Bytes(T) = Cardinality(Content(T))
  BY <1>1 DEF Bytes
<1> QED
  BY <1>3, <1>4, <1>5

\* One more file adds its size.
LEMMA BytesAdd ==
  ASSUME NEW S \in SUBSET Files, NEW f \in Files \ S
  PROVE  Bytes(S \cup {f}) = Bytes(S) + SizeOf[f]
<1> DEFINE C == {f} \X (1 .. SizeOf[f])
<1>1. SizeOf[f] \in Nat
  BY StorageAssumption
<1>2. IsFiniteSet(C) /\ Cardinality(C) = SizeOf[f]
  <2>1. IsFiniteSet({f}) /\ Cardinality({f}) = 1
    BY FS_Singleton
  <2>2. IsFiniteSet(1 .. SizeOf[f]) /\ Cardinality(1 .. SizeOf[f]) = SizeOf[f]
    BY <1>1, FS_Interval
  <2>3. IsFiniteSet(C) /\ Cardinality(C) = Cardinality({f}) * Cardinality(1 .. SizeOf[f])
    BY <2>1, <2>2, FS_Product
  <2>4. Cardinality(C) = 1 * SizeOf[f]
    BY <2>1, <2>2, <2>3
  <2> QED
    BY <1>1, <2>3, <2>4
<1>3. Content(S \cup {f}) = Content(S) \cup C
  BY DEF Content
<1>4. Content(S) \cap C = {}
  BY DEF Content
<1>5. IsFiniteSet(Content(S)) /\ Cardinality(Content(S)) \in Nat
  BY ContentFinite DEF Bytes
<1>6. Cardinality(Content(S) \cup C) = Cardinality(Content(S)) + Cardinality(C)
                                        - Cardinality(Content(S) \cap C)
  <2> HIDE DEF C
  <2> QED
    BY <1>2, <1>5, FS_Union
<1>7. Cardinality({}) = 0
  BY FS_EmptySet
<1>8. Bytes(S \cup {f}) = Cardinality(Content(S) \cup C) /\ Bytes(S) = Cardinality(Content(S))
  BY <1>3 DEF Bytes
<1>9. Cardinality(Content(S) \cup C) = Cardinality(Content(S)) + SizeOf[f] - 0
  BY <1>2, <1>4, <1>6, <1>7
<1> HIDE DEF C
<1> QED
  BY <1>1, <1>5, <1>8, <1>9

-----------------------------------------------------------------------------
(* The quota.                                                              *)

\* Stored or on its way.
Taken == rows \cup {u \in Uploads : InFlight(u)}

\* The step commits nothing, and no upload begins anew.
Quiet ==
  /\ blind' = blind
  /\ Taken' \subseteq Taken
  /\ \A v \in Uploads : phase[v] # "idle" => phase'[v] # "idle"

\* A stream whose size nobody knows is let in.
BeginUnmetered(u) ==
  /\ phase[u] = "idle"
  /\ rows' = rows
  /\ phase' = [phase EXCEPT ![u] = "send"]
  /\ blind' = [sc \in Scopes |-> IF sc \in ScopesOf(u) THEN blind[sc] \cup {u} ELSE blind[sc]]

\* An upload that moves on, or returns, commits nothing unless it was admitted.
LEMMA PhaseQuiet ==
  ASSUME StorageTypeOK, NEW u \in Uploads, NEW p, p # "idle",
         phase' = [phase EXCEPT ![u] = p], blind' = blind, rows' \subseteq rows \cup {u},
         p \in {"enter", "send", "record", "index"} \/ u \in rows' =>
           InFlight(u) \/ u \in rows
  PROVE  Quiet
<1>1. \A v \in Uploads : phase'[v] = IF v = u THEN p ELSE phase[v]
  BY DEF StorageTypeOK
<1>2. \A v \in Uploads : InFlight(v)' => v \in Taken
  BY <1>1 DEF InFlight, Taken
<1>3. rows' \subseteq Taken
  BY DEF Taken
<1>4. Taken' \subseteq Taken
  <2> SUFFICES ASSUME NEW f \in Taken' PROVE f \in Taken
    OBVIOUS
  <2>1. f \in rows' \/ (f \in Uploads /\ InFlight(f)')
    BY DEF Taken
  <2> QED
    BY <1>2, <1>3, <2>1
<1> QED
  BY <1>1, <1>4 DEF Quiet

\* What changes no phase and adds no row commits nothing.
LEMMA IdleQuiet ==
  ASSUME phase' = phase, blind' = blind, rows' \subseteq rows
  PROVE  Quiet
BY DEF Quiet, Taken, InFlight

\* Only an admission and a stream of unknown size commit anything.
LEMMA StepsCommit ==
  ASSUME StorageTypeOK, [Next]_vars
  PROVE  \/ Quiet
         \/ \E u \in Uploads : Admit(u) \/ BeginUnmetered(u)
<1> USE DEF quotaVars
<1>1. ASSUME NEW u \in Uploads, BeginUpload(u) PROVE Quiet
  <2>1. \E p \in {"failed", "global"} : phase' = [phase EXCEPT ![u] = p]
    BY <1>1 DEF BeginUpload, Return
  <2>2. blind' = blind /\ rows' = rows
    BY <1>1 DEF BeginUpload, Return
  <2> QED
    BY <2>1, <2>2, PhaseQuiet
<1>2. ASSUME NEW u \in Uploads, BeginStream(u) PROVE Quiet \/ BeginUnmetered(u)
  <2>1. rows' = rows /\ phase[u] = "idle"
    BY <1>2 DEF BeginStream
  <2>2. \/ blind' = blind /\ \E p \in {"failed", "global"} : phase' = [phase EXCEPT ![u] = p]
        \/ BeginUnmetered(u)
    BY <1>2 DEF BeginStream, Return, BeginUnmetered
  <2> QED
    BY <2>1, <2>2, PhaseQuiet
<1>3. ASSUME NEW u \in Uploads, ReadUsage(u) PROVE Quiet
  <2>1. blind' = blind /\ rows' = rows
    BY <1>3 DEF ReadUsage, Return
  <2>2. \E p \in {"folder", "admit", "failed"} : phase' = [phase EXCEPT ![u] = p]
    BY <1>3 DEF ReadUsage, Return
  <2> QED
    BY <2>1, <2>2, PhaseQuiet
<1>4. ASSUME NEW u \in Uploads,
             EnterUpload(u) \/ PutTimesOut(u) \/ FinishUpload(u) \/ Put(u) \/ PutStream(u)
      PROVE  Quiet
  <2>1. blind' = blind /\ rows' = rows /\ InFlight(u)
    BY <1>4 DEF EnterUpload, PutTimesOut, FinishUpload, Put, PutStream, Stored, NotStored,
                Return, InFlight
  <2>2. \E p \in {"send", "failed", "record", "ok"} : phase' = [phase EXCEPT ![u] = p]
    BY <1>4 DEF EnterUpload, PutTimesOut, FinishUpload, Put, PutStream, Stored, NotStored,
                Return
  <2> QED
    BY <2>1, <2>2, PhaseQuiet
<1>5. ASSUME NEW u \in Uploads, Record(u) PROVE Quiet
  <2>1. blind' = blind /\ rows' \subseteq rows \cup {u} /\ InFlight(u)
    BY <1>5 DEF Record, Return, InFlight
  <2>2. \E p \in {"index", "failed"} : phase' = [phase EXCEPT ![u] = p]
    BY <1>5 DEF Record, Return
  <2> QED
    BY <2>1, <2>2, PhaseQuiet
<1>6. ASSUME NEW u \in Uploads, LatePut(u) PROVE Quiet
  BY <1>6, IdleQuiet DEF LatePut
<1>7. ASSUME NEW d \in Deletes,
             \/ EnterDelete(d) \/ Remove(d) \/ RemoveFails(d) \/ RemoveRow(d)
             \/ \E f \in Files : BeginDelete(d, f)
      PROVE  Quiet
  BY <1>7, IdleQuiet DEF EnterDelete, Remove, RemoveFails, RemoveRow, BeginDelete
<1>8. ASSUME NEW g \in Downloads,
             EnterDownload(g) \/ Download(g) \/ \E f \in Files : BeginDownload(g, f)
      PROVE  Quiet
  BY <1>8, IdleQuiet DEF EnterDownload, Download, BeginDownload
<1>9. ASSUME NEW f \in Files, LateRemove(f) PROVE Quiet
  BY <1>9, IdleQuiet DEF LateRemove
<1>10. CASE Tick
  BY <1>10, IdleQuiet DEF Tick
<1>11. CASE Restart
  <2>1. /\ blind' = blind /\ rows' = rows
        /\ phase' = [u \in Uploads |-> IF phase[u] \in {"idle", "ok", "failed"} THEN phase[u]
                                                                              ELSE "lost"]
    BY <1>11 DEF Restart
  <2> QED
    BY <2>1 DEF Quiet, Taken, InFlight
<1>12. CASE UNCHANGED vars
  BY <1>12, IdleQuiet DEF vars
<1> QED
  BY <1>1, <1>2, <1>3, <1>4, <1>5, <1>6, <1>7, <1>8, <1>9, <1>10, <1>11, <1>12
     DEF Next, LocalStep

\* The files of a scope that are taken: the rows and uploads of that scope.
LEMMA CommittedIsTaken ==
  ASSUME NEW sc
  PROVE  Committed(sc) = InScope(Taken, sc)
BY DEF Committed, Taken

\* Only an upload that has begun is blind.
LEMMA BlindKept ==
  ASSUME StorageTypeOK, CallInv, BlindInv, [Next]_vars
  PROVE  BlindInv'
<1>1. CASE Quiet
  BY <1>1 DEF Quiet, BlindInv
<1>2. ASSUME NEW u \in Uploads, BeginUnmetered(u) PROVE BlindInv'
  BY <1>2 DEF BeginUnmetered, BlindInv, StorageTypeOK
<1>3. ASSUME NEW u \in Uploads, Admit(u) PROVE BlindInv'
  <2>1. /\ phase[u] = "admit"
        /\ \E p \in {"enter", "send", "failed"} : phase' = [phase EXCEPT ![u] = p]
    BY <1>3 DEF Admit
  <2>2. \A v \in Uploads : phase[v] # "idle" => phase'[v] # "idle"
    BY <2>1 DEF StorageTypeOK
  <2>3. \A sc \in Scopes : blind'[sc] \subseteq Committed(sc) \cup blind[sc]
    BY <1>3 DEF Admit
  <2>4. \A sc \in Scopes : \A v \in Uploads : v \in Committed(sc) => phase[v] # "idle"
    BY StorageAssumption DEF Committed, InScope, InFlight, CallInv, Recorded
  <2> QED
    BY <2>2, <2>3, <2>4 DEF BlindInv
<1> QED
  BY <1>1, <1>2, <1>3, StepsCommit

\* A file is in the scopes its admission checks.
LEMMA ScopesOfFile ==
  ASSUME NEW u \in Uploads, NEW sc \in Scopes, NEW S
  PROVE  InScope(S \cup {u}, sc) = IF sc \in ScopesOf(u) THEN InScope(S, sc) \cup {u}
                                                         ELSE InScope(S, sc)
BY DEF InScope, ScopesOf

\* A scope whose commitments do not grow stays within its limit.
LEMMA LimitHolds ==
  ASSUME StorageTypeOK, QuotaKept, NEW sc \in Scopes, Limited(sc), NEW C \in SUBSET Committed(sc)
  PROVE  Bytes(C) <= LimitOf[sc] + Bytes(blind[sc])
<1>1. Committed(sc) \in SUBSET Files /\ C \in SUBSET Files /\ blind[sc] \in SUBSET Files
  BY DEF Committed, InScope, StorageTypeOK, Files
<1>2. Bytes(C) <= Bytes(Committed(sc))
  BY <1>1, BytesMonotonic
<1>3. Bytes(C) \in Nat /\ Bytes(Committed(sc)) \in Nat /\ Bytes(blind[sc]) \in Nat
  BY <1>1, ContentFinite
<1>4. Bytes(Committed(sc)) <= LimitOf[sc] + Bytes(blind[sc]) /\ LimitOf[sc] \in Nat
  BY StorageAssumption DEF QuotaKept
<1> QED
  BY <1>2, <1>3, <1>4

\* An admission counts what it read, what is reserved and what it asks for; what
\* it could not count is blind.
LEMMA AdmitKeepsQuota ==
  ASSUME StorageTypeOK, QuotaKept, NEW u \in Uploads, Admit(u)
  PROVE  QuotaKept'
<1> SUFFICES ASSUME NEW sc \in Scopes, Limited(sc)
             PROVE  Bytes(Committed(sc)') <= LimitOf[sc] + Bytes(blind'[sc])
  BY DEF QuotaKept, Bytes
<1>a. phase[u] = "admit" /\ rows' = rows
  BY DEF Admit
<1>b. Taken \in SUBSET Files /\ Committed(sc) \in SUBSET Files /\ LimitOf[sc] \in Nat
  BY StorageAssumption DEF Taken, Committed, InScope, StorageTypeOK, Files
<1>1. CASE /\ Fits(u)
           /\ phase' = [phase EXCEPT ![u] = IF u \in Buffered THEN "enter" ELSE "send"]
           /\ blind' = [s \in Scopes |->
                          IF s \in ScopesOf(u) THEN Committed(s) \ (used[u][s] \cup Unexpired)
                                               ELSE blind[s]]
  <2>1. Taken' \subseteq Taken \cup {u}
    BY <1>a, <1>1 DEF Taken, InFlight, StorageTypeOK
  <2>2. CASE sc \in ScopesOf(u)
    <3> DEFINE U == used[u][sc]
               R == InScope(Unexpired, sc)
               B == Committed(sc) \ (used[u][sc] \cup Unexpired)
    <3>1. U \in SUBSET Files /\ R \in SUBSET Files /\ B \in SUBSET Files /\ u \in Files
      BY <1>b DEF StorageTypeOK, InScope, Unexpired, Files
    <3>2. Committed(sc) \subseteq (U \cup R) \cup B
      BY DEF Committed, InScope
    <3>3. Committed(sc)' \subseteq ((U \cup R) \cup B) \cup {u}
      BY <2>1, <3>2 DEF Committed, Taken, InScope
    <3>4. Bytes(U) + Bytes(R) + SizeOf[u] <= LimitOf[sc]
      BY <1>1, <2>2 DEF Fits
    <3>5. blind'[sc] = B
      BY <1>1, <2>2
    <3> HIDE DEF U, R, B
    <3>6. /\ Bytes(U) \in Nat /\ Bytes(R) \in Nat /\ Bytes(B) \in Nat
          /\ Bytes(U \cup R) \in Nat /\ Bytes((U \cup R) \cup B) \in Nat
          /\ Bytes(((U \cup R) \cup B) \cup {u}) \in Nat /\ Bytes({u}) \in Nat
          /\ Bytes(Committed(sc)') \in Nat /\ SizeOf[u] \in Nat
      <4>1. (U \cup R) \in SUBSET Files /\ ((U \cup R) \cup B) \in SUBSET Files
            /\ (((U \cup R) \cup B) \cup {u}) \in SUBSET Files /\ {u} \in SUBSET Files
            /\ Committed(sc)' \in SUBSET Files
        BY <3>1, <3>3
      <4>2. SizeOf[u] \in Nat
        BY <3>1, StorageAssumption
      <4> QED
        BY <3>1, <4>1, <4>2, ContentFinite
    <3>7. Bytes(U \cup R) <= Bytes(U) + Bytes(R)
      BY <3>1, BytesSubadditive
    <3>8. Bytes((U \cup R) \cup B) <= Bytes(U \cup R) + Bytes(B)
      <4>1. (U \cup R) \in SUBSET Files
        BY <3>1
      <4> QED
        BY <3>1, <4>1, BytesSubadditive
    <3>9. Bytes(((U \cup R) \cup B) \cup {u}) <= Bytes((U \cup R) \cup B) + SizeOf[u]
      <4>1. ((U \cup R) \cup B) \in SUBSET Files
        BY <3>1
      <4>2. CASE u \in ((U \cup R) \cup B)
        <5>1. ((U \cup R) \cup B) \cup {u} = (U \cup R) \cup B
          BY <4>2
        <5>2. Bytes(((U \cup R) \cup B) \cup {u}) = Bytes((U \cup R) \cup B)
          BY <5>1
        <5> QED
          BY <3>6, <5>2
      <4>3. CASE u \notin ((U \cup R) \cup B)
        <5>1. Bytes(((U \cup R) \cup B) \cup {u}) = Bytes((U \cup R) \cup B) + SizeOf[u]
          BY <3>1, <4>1, <4>3, BytesAdd
        <5> QED
          BY <3>6, <5>1
      <4> QED
        BY <4>2, <4>3
    <3>10. Bytes(Committed(sc)') <= Bytes(((U \cup R) \cup B) \cup {u})
      <4>1. (((U \cup R) \cup B) \cup {u}) \in SUBSET Files
        BY <3>1
      <4> QED
        BY <3>3, <4>1, BytesMonotonic
    <3>11. Bytes(Committed(sc)') <= LimitOf[sc] + Bytes(B)
      BY <1>b, <3>4, <3>6, <3>7, <3>8, <3>9, <3>10
    <3> QED
      BY <3>5, <3>11
  <2>3. CASE sc \notin ScopesOf(u)
    <3>1. Committed(sc)' \subseteq Committed(sc)
      BY <2>1, <2>3 DEF Committed, Taken, InScope, ScopesOf
    <3>2. blind'[sc] = blind[sc]
      BY <1>1, <2>3
    <3> QED
      BY <1>b, <3>1, <3>2, LimitHolds
  <2> QED
    BY <2>2, <2>3
<1>2. CASE phase' = [phase EXCEPT ![u] = "failed"] /\ blind' = blind
  <2>1. Committed(sc)' \subseteq Committed(sc)
    BY <1>a, <1>2 DEF Committed, InScope, InFlight, StorageTypeOK
  <2> QED
    BY <1>2, <1>b, <2>1, LimitHolds
<1> QED
  BY <1>1, <1>2 DEF Admit

\* A stream of unknown size takes what nobody counts, and all of it is blind.
LEMMA UnmeteredKeepsQuota ==
  ASSUME StorageTypeOK, CallInv, BlindInv, QuotaKept, NEW u \in Uploads, BeginUnmetered(u)
  PROVE  QuotaKept'
<1> SUFFICES ASSUME NEW sc \in Scopes, Limited(sc)
             PROVE  Bytes(Committed(sc)') <= LimitOf[sc] + Bytes(blind'[sc])
  BY DEF QuotaKept, Bytes
<1>1. Taken' = Taken \cup {u}
  <2>1. /\ rows' = rows /\ phase'[u] = "send"
        /\ \A v \in Uploads : v # u => phase'[v] = phase[v]
    BY DEF BeginUnmetered, StorageTypeOK
  <2> QED
    BY <2>1 DEF Taken, InFlight
<1>2. Committed(sc)' = InScope(Taken \cup {u}, sc)
  BY <1>1 DEF Committed, Taken
<1>3. u \in Files /\ Committed(sc) \in SUBSET Files /\ blind[sc] \in SUBSET Files
      /\ LimitOf[sc] \in Nat
  BY StorageAssumption DEF Committed, InScope, StorageTypeOK, Files
<1>4. CASE sc \in ScopesOf(u)
  <2>1. Committed(sc)' = Committed(sc) \cup {u}
    BY <1>2, <1>4, ScopesOfFile, CommittedIsTaken
  <2>2. blind'[sc] = blind[sc] \cup {u}
    BY <1>4 DEF BeginUnmetered
  <2>3. phase[u] = "idle"
    BY DEF BeginUnmetered
  <2>4. u \notin blind[sc]
    BY <2>3 DEF BlindInv
  <2>5. u \notin Committed(sc)
    <3>1. u \notin rows
      BY <2>3, StorageAssumption DEF CallInv, Recorded, Uploads
    <3> QED
      BY <2>3, <3>1 DEF Committed, InScope, InFlight
  <2>6. Bytes(Committed(sc) \cup {u}) = Bytes(Committed(sc)) + SizeOf[u]
    BY <1>3, <2>5, BytesAdd
  <2>7. Bytes(blind[sc] \cup {u}) = Bytes(blind[sc]) + SizeOf[u]
    BY <1>3, <2>4, BytesAdd
  <2>8. Bytes(Committed(sc)) <= LimitOf[sc] + Bytes(blind[sc])
    BY DEF QuotaKept
  <2>9. Bytes(Committed(sc)) \in Nat /\ Bytes(blind[sc]) \in Nat /\ SizeOf[u] \in Nat
    BY <1>3, ContentFinite, StorageAssumption
  <2>10. Bytes(Committed(sc) \cup {u}) <= LimitOf[sc] + Bytes(blind[sc] \cup {u})
    BY <1>3, <2>6, <2>7, <2>8, <2>9
  <2> QED
    BY <2>1, <2>2, <2>10
<1>5. CASE sc \notin ScopesOf(u)
  <2>1. Committed(sc)' \subseteq Committed(sc)
    BY <1>2, <1>5, ScopesOfFile, CommittedIsTaken
  <2>2. blind'[sc] = blind[sc]
    BY <1>5 DEF BeginUnmetered
  <2> QED
    BY <2>1, <2>2, LimitHolds
<1> QED
  BY <1>4, <1>5

\* Each step keeps the quota.
LEMMA QuotaStep ==
  ASSUME StorageTypeOK, CallInv, BlindInv, QuotaKept, [Next]_vars
  PROVE  QuotaKept'
<1>1. CASE Quiet
  <2> SUFFICES ASSUME NEW sc \in Scopes, Limited(sc)
               PROVE  Bytes(Committed(sc)') <= LimitOf[sc] + Bytes(blind'[sc])
    BY DEF QuotaKept, Bytes
  <2>1. Committed(sc)' \subseteq Committed(sc) /\ blind' = blind
    BY <1>1 DEF Quiet, Committed, Taken, InScope
  <2> QED
    BY <2>1, LimitHolds
<1> QED
  BY <1>1, StepsCommit, AdmitKeepsQuota, UnmeteredKeepsQuota

-----------------------------------------------------------------------------
(* The theorems.                                                           *)

\* What ties uploads, deletes, reservations, rows and objects together holds for any
\* instance: it holds at first and every step keeps it.
THEOREM StorageInvariant == Spec => []StorageInv
<1>1. Init => StorageInv
  <2> SUFFICES ASSUME Init PROVE StorageInv
    OBVIOUS
  <2>1. TypeOK /\ BreakerCounts
    BY InitTyped
  <2>b. BlindInv
    BY StorageAssumption DEF Init, BlindInv, InScope
  <2>2. HeadroomInv /\ CallInv /\ StoreInv
    BY StorageAssumption DEF Init, HeadroomInv, CallInv, StoreInv, Recorded, RowHasObject,
       DeletedIsGone, InFlight, Uploads
  <2>3. QED
    BY <2>1, <2>b, <2>2 DEF StorageInv
<1>2. StorageInv /\ [Next]_vars => StorageInv'
  <2> SUFFICES ASSUME StorageInv, [Next]_vars PROVE StorageInv'
    OBVIOUS
  <2>1. BreakerTypeOK' /\ BreakerCounts'
    BY StepsTheBreaker, BreakerKept DEF StorageInv, TypeOK
  <2>2. StorageTypeOK
    BY DEF StorageInv, TypeOK, StorageTypeOK
  <2>3. StorageTypeOK'
    BY <2>2, StorageTyped DEF StorageInv
  <2>4. TypeOK'
    BY <2>1, <2>3 DEF TypeOK, StorageTypeOK
  <2>5. HeadroomInv' /\ CallInv' /\ StoreInv' /\ BlindInv'
    BY <2>2, HeadroomKept, CallsKept, StoreKept, BlindKept DEF StorageInv
  <2>6. QED
    BY <2>1, <2>4, <2>5 DEF StorageInv
<1>3. QED
  BY <1>1, <1>2, PTL DEF Spec

\* The types, for any number of calls, files and folders and any thresholds.
THEOREM StorageTypeCorrect == Spec => []TypeOK
<1>1. StorageInv => TypeOK
  BY DEF StorageInv
<1>2. QED
  BY <1>1, StorageInvariant, PTL

\* A breaker always has a way back, whatever calls report late into whatever state.
THEOREM BreakerRecovers == Spec => []NeverWedged
<1>1. StorageInv => NeverWedged
  BY BreakerAssumption DEF StorageInv, TypeOK, BreakerTypeOK, BreakerCounts, NeverWedged
<1>2. QED
  BY <1>1, StorageInvariant, PTL

\* No reservation outlives its call, and none is reclaimed under a running timer.
THEOREM ReservationsHold == Spec => []HeadroomHeld
<1>1. StorageInv => HeadroomHeld
  BY StorageAssumption DEF StorageInv, TypeOK, HeadroomInv, HeadroomHeld, InFlight, Uploads
<1>2. QED
  BY <1>1, StorageInvariant, PTL

\* The answer of uploadFile agrees with the database.
THEOREM UploadsReportTheirRow == Spec => []ReportMatchesRow
<1>1. StorageInv => ReportMatchesRow
  BY StorageAssumption DEF StorageInv, CallInv, StoreInv, Recorded, ReportMatchesRow, Uploads
<1>2. QED
  BY <1>1, StorageInvariant, PTL

\* A row that no delete has touched has its object.
THEOREM RowsHaveObjects == Spec => []RowHasObject
<1>1. StorageInv => RowHasObject
  BY DEF StorageInv, StoreInv
<1>2. QED
  BY <1>1, StorageInvariant, PTL

\* A file reported deleted never comes back.
THEOREM DeletesAreFinal == Spec => []DeletedIsGone
<1>1. StorageInv => DeletedIsGone
  BY DEF StorageInv, StoreInv
<1>2. QED
  BY <1>1, StorageInvariant, PTL

\* A quota is exceeded by no more than what the last admission could not count,
\* whatever the sizes and the limits and however many uploads are under way.
THEOREM QuotaIsKept == Spec => []QuotaKept
<1>1. Init => QuotaKept
  <2> SUFFICES ASSUME Init, NEW sc \in Scopes
               PROVE  Bytes(Committed(sc)) <= LimitOf[sc] + Bytes(blind[sc])
    BY DEF QuotaKept
  <2>1. Committed(sc) = blind[sc]
    BY DEF Init, Committed, InScope, InFlight
  <2>2. blind[sc] \in SUBSET Files /\ LimitOf[sc] \in Nat
    BY StorageAssumption DEF Init, InScope, Files
  <2>3. Bytes(blind[sc]) \in Nat
    BY <2>2, ContentFinite
  <2>4. Bytes(blind[sc]) <= LimitOf[sc] + Bytes(blind[sc])
    BY <2>2, <2>3
  <2> QED
    BY <2>1, <2>4
<1>2. StorageInv /\ QuotaKept /\ [Next]_vars => QuotaKept'
  BY QuotaStep DEF StorageInv, TypeOK, StorageTypeOK
<1>3. QED
  BY <1>1, <1>2, StorageInvariant, PTL DEF Spec
=============================================================================
