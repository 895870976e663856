----------------------------- MODULE ClaimGraph -----------------------------
(***************************************************************************)
(* One run of the claim-adjudication graph (graph/build_graph.py and       *)
(* graph/nodes.py): the six agent nodes in a row, the router, and the      *)
(* terminal nodes.  A node's step is its whole wrapper: the skip after an  *)
(* earlier error, the agent's work, the capture of what it raises, and the *)
(* trace entry.                                                            *)
(***************************************************************************)
EXTENDS Agents

CONSTANTS None,           \* a state key that is not set
          Tau1,           \* threshold_coverage_confidence, in hundredths
          Tau2,           \* threshold_risk_score, in hundredths
          Tau3,           \* threshold_max_auto_amount
          Inputs,         \* the claims submitted: the amount in the text, or
                          \* Missing if there is none ("$0" counts as none)
          Retrievals,     \* outcomes of RagPipeline.retrieve
          Replies         \* LLM nodes -> the replies the model may give

LlmNodes == {"intake", "coverage_decision", "fraud_risk", "settlement", "compliance"}
AgentNodes == LlmNodes \cup {"policy_retrieval"}
Nodes == AgentNodes \cup {"route", "finalize_auto", "human_escalation", "error_handler"}

\* Mutant of Edge: a misspelt node name.
EdgeTypo == [intake            |-> "policy_retrieval",
             policy_retrieval  |-> "coverage_decision",
             coverage_decision |-> "fraud_risk",
             fraud_risk        |-> "settlement",
             settlement        |-> "compliance",
             compliance        |-> "router",
             finalize_auto     |-> "END",
             error_handler     |-> "human_escalation",
             human_escalation  |-> "END"]

\* The linear edges; "raised" is the graph itself raising.
Edge == [intake            |-> "policy_retrieval",
         policy_retrieval  |-> "coverage_decision",
         coverage_decision |-> "fraud_risk",
         fraud_risk        |-> "settlement",
         settlement        |-> "compliance",
         compliance        |-> "route",
         finalize_auto     |-> "END",
         error_handler     |-> "human_escalation",
         human_escalation  |-> "END"]

ASSUME TauAssumption == Tau1 \in Int /\ Tau2 \in Int /\ Tau3 \in Int
ASSUME NoneAssumption == None \notin {"auto_approved", "auto_denied", "escalated"}
ASSUME InputsAssumption == Inputs \subseteq Nat \cup {Missing}
ASSUME RepliesAssumption == LlmNodes \subseteq DOMAIN Replies

\* Nothing is assumed of the model but that a field is a number or is not.
ASSUME NumbersAssumption ==
  /\ \A reply \in Replies["intake"] :
       reply.kind = "object" => Number(reply.fields.claimed_amount)
  /\ \A reply \in Replies["coverage_decision"] :
       reply.kind = "object" => Number(reply.fields.confidence)
  /\ \A reply \in Replies["fraud_risk"] :
       reply.kind = "object" => Number(reply.fields.score)
  /\ \A reply \in Replies["settlement"] : reply.kind = "object" =>
       /\ Number(reply.fields.payable_amount)
       /\ Number(reply.fields.deductible_applied)
       /\ Number(reply.fields.limit_applied)

ASSUME RetrievalsAssumption ==
  \A r \in Retrievals : ~r.raised => r.value.citations \in Seq(STRING)

VARIABLES node,         \* the node that runs next
          raw,          \* raw_input
          output,       \* AgentNodes -> what the node put into the state
          errors,       \* the nodes that recorded an AgentError, in order
          trace,        \* StepTrace entries, in order
          disposition

vars == <<node, raw, output, errors, trace, disposition>>

Init == /\ node = "intake"
        /\ raw \in Inputs
        /\ output = [n \in AgentNodes |-> None]
        /\ errors = <<>>
        /\ trace = <<>>
        /\ disposition = None

Traced(n, result) == trace' = Append(trace, [node |-> n, result |-> result])

-----------------------------------------------------------------------------
(* The agent nodes, inside _safe *)

\* Mutant of Skip: no trace entry.
SkipUntraced(n) ==
  /\ node = n /\ errors # <<>>
  /\ node' = Edge[n]
  /\ UNCHANGED <<raw, output, errors, trace, disposition>>

\* A node that follows an error is skipped.
Skip(n) ==
  /\ node = n /\ errors # <<>>
  /\ Traced(n, "skipped")
  /\ node' = Edge[n]
  /\ UNCHANGED <<raw, output, errors, disposition>>

\* Mutant of Runs: a node runs whatever happened before it.
RunsAnyway(n) == node = n

Runs(n) == node = n /\ errors = <<>>

\* Node n comes to result r.  An exception becomes an AgentError, unless
\* its message is empty: then AgentError itself raises, and so does the graph.
Finish(n, r) ==
  /\ \/ /\ ~r.raised
        /\ output' = [output EXCEPT ![n] = r.value]
        /\ Traced(n, "done")
        /\ node' = Edge[n]
        /\ UNCHANGED errors
     \/ /\ r.raised /\ ~r.silent
        /\ errors' = Append(errors, n)
        /\ Traced(n, "error")
        /\ node' = Edge[n]
        /\ UNCHANGED output
     \/ /\ r.raised /\ r.silent
        /\ node' = "raised"
        /\ UNCHANGED <<output, errors, trace>>
  /\ UNCHANGED <<raw, disposition>>

ClaimFacts == output["intake"]
Context == output["policy_retrieval"]
Coverage == output["coverage_decision"]
Risk == output["fraud_risk"]
Settlement == output["settlement"]
Passed == output["compliance"]

Intake ==
  \/ Skip("intake")
  \/ /\ Runs("intake")
     /\ \E reply \in Replies["intake"] :
          Finish("intake", ExtractFacts(raw, reply))

\* Without any chunk a placeholder citation stands in for the clauses.
PolicyRetrieval ==
  \/ Skip("policy_retrieval")
  \/ /\ Runs("policy_retrieval")
     /\ \E r \in Retrievals :
          Finish("policy_retrieval",
                 IF r.raised THEN r
                 ELSE Returned([sufficient |-> r.value.sufficient,
                                citations |-> IF r.value.citations = <<>> THEN <<"none">>
                                              ELSE r.value.citations]))

CoverageDecision ==
  \/ Skip("coverage_decision")
  \/ /\ Runs("coverage_decision")
     /\ \E reply \in Replies["coverage_decision"] : \E r \in DecideCoverage(Context, reply) :
          Finish("coverage_decision", r)

FraudRisk ==
  \/ Skip("fraud_risk")
  \/ /\ Runs("fraud_risk")
     /\ \E reply \in Replies["fraud_risk"] :
          Finish("fraud_risk", AssessRisk(ClaimFacts, reply))

SettlementNode ==
  \/ Skip("settlement")
  \/ /\ Runs("settlement")
     /\ \E reply \in Replies["settlement"] :
          Finish("settlement", ComputeSettlement(ClaimFacts.amount, Coverage, reply))

Compliance ==
  \/ Skip("compliance")
  \/ /\ Runs("compliance")
     /\ \E reply \in Replies["compliance"] :
          Finish("compliance", ReviewCompliance(reply))

-----------------------------------------------------------------------------
(* The router and the terminal nodes *)

WithinThresholds ==
  /\ None \notin {Coverage, Risk, Settlement, Passed}
  /\ Coverage.confidence >= Tau1
  /\ Risk <= Tau2
  /\ Settlement.payable <= Tau3
  /\ Passed

\* Mutant of Route: the conditional edge looks at the disposition only.
RouteByDisposition ==
  /\ node = "route"
  /\ disposition' = IF errors = <<>> /\ WithinThresholds
                    THEN IF Coverage.decision = "denied" THEN "auto_denied"
                                                         ELSE "auto_approved"
                    ELSE "escalated"
  /\ node' = IF disposition' # "escalated" THEN "finalize_auto" ELSE "human_escalation"
  /\ Traced("route", "done")
  /\ UNCHANGED <<raw, output, errors>>

\* make_route_node, and the conditional edge that follows it.
Route ==
  /\ node = "route"
  /\ disposition' = IF errors = <<>> /\ WithinThresholds
                    THEN IF Coverage.decision = "denied" THEN "auto_denied"
                                                         ELSE "auto_approved"
                    ELSE "escalated"
  /\ node' = IF errors # <<>> THEN "error_handler"
             ELSE IF disposition' # "escalated" THEN "finalize_auto"
             ELSE "human_escalation"
  /\ Traced("route", "done")
  /\ UNCHANGED <<raw, output, errors>>

FinalizeAuto ==
  /\ node = "finalize_auto"
  /\ node' = Edge[node]
  /\ Traced("finalize_auto", "done")
  /\ UNCHANGED <<raw, output, errors, disposition>>

\* error_handler and human_escalation.
Escalate(n) ==
  /\ node = n
  /\ node' = Edge[n]
  /\ disposition' = "escalated"
  /\ Traced(n, "done")
  /\ UNCHANGED <<raw, output, errors>>

-----------------------------------------------------------------------------
Next == \/ Intake \/ PolicyRetrieval \/ CoverageDecision
        \/ FraudRisk \/ SettlementNode \/ Compliance
        \/ Route \/ FinalizeAuto
        \/ Escalate("error_handler") \/ Escalate("human_escalation")

Spec == Init /\ [][Next]_vars

-----------------------------------------------------------------------------
(* Properties *)

Dispositions == {"auto_approved", "auto_denied", "escalated"}
Automatic == disposition \in {"auto_approved", "auto_denied"}
Ended == node = "END"

TypeOK ==
  /\ node \in Nodes \cup {"END", "raised"}
  /\ raw \in Inputs
  /\ DOMAIN output = AgentNodes
  /\ errors \in Seq(AgentNodes)
  /\ trace \in Seq([node : Nodes, result : {"done", "error", "skipped"}])
  /\ disposition \in Dispositions \cup {None}

\* A claim settled without a human rests on retrieved policy: retrieval was
\* sufficient, gave more than one clause, and the opinion cites some of them
\* and nothing else.  No model reply can get around this.
AutoIsGrounded ==
  Automatic => /\ Context.sufficient
          /\ Len(Context.citations) >= 2
          /\ Coverage.citations # {}
          /\ Coverage.citations \subseteq Elements(Context.citations)

\* A flag that the history tool returned holds: whatever score the model gives
\* and whatever it claims of coverage, such a claim is not settled without a
\* human.  The tool is asked with the party as the model extracted it, and
\* returns nothing for a claimant it knows by an id: see HistoryIsFound.
FlaggedNeverAuto == Automatic => ~Lookup(ClaimFacts.party).flagged

\* An automatic denial pays nothing, and an automatic approval no more than
\* the automatic authority and the policy limit.
AutoPayable ==
  /\ disposition = "auto_denied" => Settlement.payable = 0
  /\ disposition = "auto_approved" =>
       /\ Settlement.payable \in 0..Tau3
       /\ Settlement.limit = 0 \/ Settlement.payable <= Settlement.limit

\* A run in which some node failed ends with a human and through the error
\* handler, and nothing ran after the failure.
FailureEscalates ==
  Ended /\ errors # <<>> =>
    /\ disposition = "escalated"
    /\ Len(errors) = 1
    /\ \E i \in DOMAIN trace : trace[i].node = "error_handler"
    /\ \A n \in AgentNodes : output[n] # None =>
         \E i, j \in DOMAIN trace : i < j /\ trace[i] = [node |-> n, result |-> "done"]
                                          /\ trace[j] = [node |-> errors[1], result |-> "error"]

\* The nodes a finished run went through.
Path == <<"intake", "policy_retrieval", "coverage_decision", "fraud_risk", "settlement",
          "compliance", "route">>
        \o IF errors # <<>> THEN <<"error_handler", "human_escalation">>
           ELSE IF Automatic THEN <<"finalize_auto">> ELSE <<"human_escalation">>

\* The audit trail is complete: every node of the path appended one entry, in
\* order, skipped and failed ones included.
AuditTrail == Ended => [i \in DOMAIN trace |-> trace[i].node] = Path

\* What a run has come to, seen from outside.
Outcome == IF node = "END" THEN disposition
           ELSE IF node = "raised" THEN "raised" ELSE "running"

Adjudicated == INSTANCE Adjudication WITH outcome <- Outcome, failed <- errors # <<>>

\* The graph implements Adjudication: whatever the agents make of a claim, a
\* run concludes once, and after a failure only with an escalation.
ImplementsAdjudication == Adjudicated!Spec

\* The claimant's history counts (fraud_risk.py:46): a claimant some record
\* names and flags is never settled without a human.
HistoryIsFound ==
  Automatic => \A id \in DOMAIN ClaimantRecords :
            ClaimantRecords[id].name = ClaimFacts.party => ~ClaimantRecords[id].flagged
=============================================================================
