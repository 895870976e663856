---------------------------- MODULE MCClaimStream ----------------------------
(* Small instances of ClaimStream for TLC. *)
EXTENDS ClaimStream

CONSTANTS p1, p2, s1, s2

\* Both streams on one process; the worker may be there or on the other one.
Together == [s \in Streams |-> p1]
=============================================================================
