-------------------------- MODULE MCStorageQuota ---------------------------
(* Instances of StorageQuota for TLC.                                      *)
EXTENDS StorageQuota, TLC

CONSTANTS h1, h2, s1, s2, s3, s4

\* Handlers and sessions are interchangeable.
QuotaSymmetry == Permutations(Handlers) \cup Permutations(Sessions)
=============================================================================
