----------------------------- MODULE MCEvalGate -----------------------------
(* Small instances of EvalGate for TLC. *)
EXTENDS EvalGate, SequencesExt, TLC

Case(disposition, coverage, tools) ==
  [disposition |-> disposition, coverage |-> coverage, tools |-> tools]

Approval == Case("auto_approved", TRUE, "last")
Denial == Case("auto_denied", TRUE, "last")
Escalation == Case("escalated", TRUE, "last")

Copies(case, n) == [i \in 1 .. n |-> case]

\* The golden set of the repository (three approvals, a denial and six
\* escalations); an empty one; sets without and with only escalations, whose
\* cases expect no tool calls, some, or no coverage decision; and one large
\* enough for a miss of a kind that stays within the thresholds.
MCGoldenSets ==
  {<<Approval, Escalation, Denial>> \o Copies(Approval, 2) \o Copies(Escalation, 5), <<>>,
   <<Case("auto_approved", FALSE, "none"), Denial>> \o Copies(Approval, 3),
   <<Case("escalated", FALSE, "some"), Case("escalated", TRUE, "none")>>
     \o Copies(Escalation, 3),
   <<Escalation, Approval>> \o Copies(Escalation, 4) \o Copies(Approval, 14)}

Alike == Permutations(Requests)
=============================================================================
