--------------------------- MODULE MCSagaExecutor ---------------------------
(* SagaExecutor on a small instance.                                       *)
EXTENDS SagaExecutor, TLC

CONSTANTS s1, s2, r1, r2, i1, i2

TwoSagas == {s1, s2}
OneSaga == {s1}
NoSagas == {}
OneRecord == {r1}
TwoRecords == {r1, r2}
OneOperation == {i1}
TwoOperations == {i1, i2}

\* The shape of the record sagas: writes that can be undone around a commit
\* (step 3 of four) that cannot.
DbOnly == {1}
DbThenFile == {1, 2}
DbThenFileThenDraft == {1, 2, 4}
DraftIsCritical == {3, 4}

\* Sagas, records and operations are compared for equality only.
SagaSymmetry ==
  Permutations(Holders) \cup Permutations(Keys) \cup Permutations(IdemKeys)
=============================================================================
