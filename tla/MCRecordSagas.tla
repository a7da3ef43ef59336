---------------------------- MODULE MCRecordSagas ----------------------------
(* RecordSagas on a small instance.                                        *)
EXTENDS RecordSagas, TLC

CONSTANTS a, b, v1, v2

OneRecord == {a}
TwoRecords == {a, b}
TwoVersions == {v1, v2}
OneVersion == {v1}

\* Records and contents are compared for equality only.
RecordSymmetry == Permutations(Records) \cup Permutations(Versions)
=============================================================================
