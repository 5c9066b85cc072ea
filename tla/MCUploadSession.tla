-------------------------- MODULE MCUploadSession --------------------------
(* Instances of UploadSession for TLC.                                     *)
EXTENDS UploadSession, TLC

CONSTANTS s1, s2, s3

\* All sessions upload the same bytes, or each its own.
SameContent == [s \in Sessions |-> "same"]
OwnContent  == [s \in Sessions |-> s]

\* The handlers are interchangeable (safety runs only).
HandlerSymmetry == Permutations(Tasks)
=============================================================================
