---------------------------- MODULE Adjudication ----------------------------
(***************************************************************************)
(* What one run of the claim graph promises, with no node, agent or model  *)
(* in sight: it comes to one outcome and keeps it; at most one agent fails *)
(* in it; and once one has, the only outcome left is a human's desk.       *)
(* ClaimGraph is shown to implement this; ClaimService, which runs the     *)
(* graph in one step, uses nothing else of it.                             *)
(***************************************************************************)

VARIABLES outcome,    \* "running", what the run concluded, or "raised"
          failed      \* an agent has failed

vars == <<outcome, failed>>

Init == outcome = "running" /\ failed = FALSE

AgentFails == /\ outcome = "running" /\ failed = FALSE
              /\ failed' = TRUE
              /\ UNCHANGED outcome

\* Without a human; never after a failure.
Settle == /\ outcome = "running" /\ failed = FALSE
          /\ outcome' \in {"auto_approved", "auto_denied"}
          /\ UNCHANGED failed

Escalate == /\ outcome = "running"
            /\ outcome' = "escalated"
            /\ UNCHANGED failed

\* The graph raises instead of concluding; the caller has to deal with it.
Raise == /\ outcome = "running" /\ failed = FALSE
         /\ outcome' = "raised"
         /\ UNCHANGED failed

Next == AgentFails \/ Settle \/ Escalate \/ Raise

Spec == Init /\ [][Next]_vars
=============================================================================
