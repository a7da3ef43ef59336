-------------------------- MODULE MCStorageUploads --------------------------
(* StorageUploads on a small instance.                                     *)
EXTENDS StorageUploads

CONSTANTS b1, s1, d1, g1, folderA

OneBuffered == {b1}
OneStream == {s1}
OneDelete == {d1}
OneDownload == {g1}
OneFolder == {folderA}

\* Both uploads go to folderA, which has room for one of them; in all there is
\* room for both.
FileFolder == [f \in Files |-> folderA]
UnitSize == [f \in Files |-> 1]
Limits == [sc \in Scopes |-> IF sc = folderA THEN 1 ELSE IF sc = Global THEN 2 ELSE 0]
=============================================================================
