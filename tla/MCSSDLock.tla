----------------------------- MODULE MCSSDLock -----------------------------
(* Two requesters and a server around one SSD.                             *)
EXTENDS SSDLock, TLC

CONSTANTS r1, r2, s1, m1, m2

\* The requesters are alike, and no property checked with it is a liveness one.
Requesters == Permutations({r1, r2})
=============================================================================
