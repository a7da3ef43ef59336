-------------------------------- MODULE Lease --------------------------------
(***************************************************************************)
(* What the lock table of core/src/saga/resource-lock.ts promises its      *)
(* callers: a key is granted to one of them while nobody has it, and       *)
(* whoever has it may lose it at any moment: by giving it back, by its     *)
(* timeout, by recovery, by dying.  Of rows, statements and clocks a       *)
(* caller knows nothing.                                                   *)
(***************************************************************************)
CONSTANTS
  Holders,  \* those who ask
  Keys      \* what they ask for

VARIABLE
  owners    \* who may write under each key

LeaseInit == owners = [k \in Keys |-> {}]

Grant(k, h) ==
  /\ owners[k] = {}
  /\ owners' = [owners EXCEPT ![k] = {h}]

Lose ==
  /\ owners' \in [Keys -> SUBSET Holders]
  /\ \A k \in Keys : owners'[k] \subseteq owners[k]

LeaseNext ==
  \/ \E k \in Keys, h \in Holders : Grant(k, h)
  \/ Lose

LeaseSpec == LeaseInit /\ [][LeaseNext]_owners
=============================================================================
