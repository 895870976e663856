--------------------------- MODULE MCClaimService ---------------------------
(* Small instances of ClaimService for TLC. *)
EXTENDS ClaimService, TLC

CONSTANTS c1, c2, p1, p2, r1, r2

\* The faults a run allows; the kinds it does not name do not occur.
Faults(f) == [k \in FaultKinds |-> IF k \in DOMAIN f THEN f[k] ELSE 0]

NoFaults     == Faults(<<>>)
AtMostOnce   == Faults([io |-> 1, cancel |-> 1, crash |-> 1, ttl |-> 1, expiry |-> 1])
CrashOnly    == Faults([crash |-> 2])
Everything   == [k \in FaultKinds |-> 1]
CancelOnly   == Faults([cancel |-> 1])

\* Reviewers differ in nothing but their names.
Symmetry == Permutations(Reviewers)

=============================================================================
