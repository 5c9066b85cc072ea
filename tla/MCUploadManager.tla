-------------------------- MODULE MCUploadManager --------------------------
(* Instances of UploadManager for TLC.                                     *)
EXTENDS UploadManager

\* Every row is about a file of its own.
OwnFiles == [i \in Items |-> i]

\* Row 3 follows an encode job or a rebuild of the first upload.
SharedFiles == [i \in Items |-> IF i = 3 THEN 1 ELSE i]
=============================================================================
