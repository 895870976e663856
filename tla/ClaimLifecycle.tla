--------------------------- MODULE ClaimLifecycle ---------------------------
(***************************************************************************)
(* What ClaimPilot promises about the stored record of one claim, with no  *)
(* process, queue or request in sight: a claim is accepted, adjudicated    *)
(* once, and either settled, failed, or handed to a human whose verdict is *)
(* final, until the record expires.  ClaimService is shown to implement    *)
(* this when every message is delivered at most once.                      *)
(***************************************************************************)
CONSTANT Claims

VARIABLE record     \* Claims -> ClaimRecord, the persisted snapshot of a claim

\* ClaimRecord.status (worker.py:46), plus "absent" for a claim not stored yet.
Statuses == {"absent", "pending", "processing", "completed", "escalated", "error"}

\* What the graph's router may conclude.
Dispositions == {"auto_approved", "auto_denied", "escalated"}

\* HumanDecisionRequest.decision.
Verdicts == {"approve", "deny"}

\* The fields of ClaimRecord that decide what becomes of a claim.
Record == [status      : Statuses,
           disposition : Dispositions \cup {"none"},
           human       : Verdicts \cup {"none"}]

Absent == [status |-> "absent", disposition |-> "none", human |-> "none"]

Fresh == [status |-> "pending", disposition |-> "none", human |-> "none"]

\* Mutant of Concluded: the disposition stored as the status.
ConcludedUnmapped(r, d) == [r EXCEPT !.disposition = d, !.status = d]

\* The record after the graph concluded with disposition d.
Concluded(r, d) ==
  [r EXCEPT !.disposition = d,
            !.status = IF d = "escalated" THEN "escalated" ELSE "completed"]

\* Mutant of Adjudicated: the escalation's disposition stays.
AdjudicatedHalf(r, v) == [r EXCEPT !.human = v, !.status = "completed"]

\* The record after a human's verdict v.
Adjudicated(r, v) ==
  [r EXCEPT !.human = v,
            !.status = "completed",
            !.disposition = IF v = "approve" THEN "auto_approved" ELSE "auto_denied"]

-----------------------------------------------------------------------------
Init == record = [c \in Claims |-> Absent]

Become(c, r) == record' = [record EXCEPT ![c] = r]

\* POST /v1/claims stores the claim.
Accept(c) == /\ record[c].status = "absent"
             /\ Become(c, Fresh)

\* A worker takes the claim up.
Start(c) == /\ record[c].status = "pending"
            /\ Become(c, [record[c] EXCEPT !.status = "processing"])

\* The graph's conclusion is stored.
Conclude(c) == /\ record[c].status = "processing"
               /\ \E d \in Dispositions : Become(c, Concluded(record[c], d))

\* The worker gives the claim up.
Fail(c) == /\ record[c].status \in {"pending", "processing"}
           /\ Become(c, [record[c] EXCEPT !.status = "error"])

\* POST /v1/claims/{id}/decision, on an escalated claim only.
Adjudicate(c) == /\ record[c].status = "escalated"
                 /\ \E v \in Verdicts : Become(c, Adjudicated(record[c], v))

\* The store drops the record a day after it was last written.
Expire(c) == /\ record[c] # Absent
             /\ Become(c, Absent)

Next == \E c \in Claims :
          \/ Accept(c) \/ Start(c) \/ Conclude(c)
          \/ Fail(c) \/ Adjudicate(c) \/ Expire(c)

Spec == Init /\ [][Next]_record
=============================================================================
