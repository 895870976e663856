-------------------------- MODULE ClaimGraphProofs --------------------------
(* Theorems about ClaimGraph: what a claim settled without a human rests   *)
(* on, for every record set, retrieval, model reply and threshold.         *)
EXTENDS ClaimGraph, TLAPS

\* The least tool score of a flagged party.
FlagWeight == 40

-----------------------------------------------------------------------------
(* What the agents return *)

LEMMA ClampRange ==
  ASSUME NEW v, Number(v), NEW d \in 0..100
  PROVE  Clamp(v, d) \in 0..100
<1> USE OddAssumption DEF Odd, Clamp
<1>1. CASE v = Missing
  BY <1>1
<1>2. CASE v = Bad
  BY <1>2
<1>3. CASE v = NaN
  BY <1>3
<1>4. CASE v \notin Odd
  <2>1. v \in Int
    BY <1>4 DEF Number
  <2>2. Clamp(v, d) = AtLeast(0, AtMost(100, v))
    BY <1>4
  <2> QED BY <2>1, <2>2 DEF AtLeast, AtMost
<1> QED BY <1>1, <1>2, <1>3, <1>4

\* A reply that cannot be read makes the agent raise.
LEMMA FailureRaises == \A reply : Failure(reply).raised = TRUE
  BY DEF Failure, Raised, RaisedSilently

\* A field of a readable reply is a number or none if those of an object are.
LEMMA FieldNumber ==
  ASSUME NEW reply, NEW names, NEW f \in names,
         reply.kind = "object" => Number(reply.fields[f])
  PROVE  Number(Fields(reply, names)[f])
  BY DEF Fields, Number, Odd

\* What intake makes of a reply has an amount that is not negative.
LEMMA FactsAmount ==
  ASSUME NEW text \in Nat \cup {Missing}, NEW reply,
         reply.kind = "object" => Number(reply.fields.claimed_amount),
         ~ExtractFacts(text, reply).raised
  PROVE  ExtractFacts(text, reply).value.amount \in Nat
<1> DEFINE given == Fields(reply, {"claimed_amount", "party"})
           usable == Readable(reply) /\ given.claimed_amount # Bad /\ given.party # Bad
           amount == IF usable /\ given.claimed_amount # Missing THEN given.claimed_amount
                     ELSE IF text # Missing THEN text
                     ELSE IF usable THEN 0 ELSE 5000
           party == IF usable /\ given.party # Missing THEN given.party ELSE Anonymous
<1>1. Number(given.claimed_amount)
  BY FieldNumber
<1>2. amount = NaN \/ amount \in Int
  <2> HIDE DEF given
  <2> QED BY <1>1 DEF Number, Odd
<1>3. ExtractFacts(text, reply)
        = IF amount = NaN \/ amount < 0 THEN Raised ELSE Returned(Facts(amount, party))
  BY DEF ExtractFacts
<1> HIDE DEF amount, party
<1>4. amount # NaN /\ ~(amount < 0)
  BY <1>3 DEF Raised
<1>5. ExtractFacts(text, reply).value.amount = amount
  BY <1>3, <1>4 DEF Returned, Facts
<1> QED BY <1>2, <1>4, <1>5

\* What an opinion above the cap on weak retrieval rests on.
Grounded(context, opinion) ==
  /\ context.sufficient
  /\ Len(context.citations) >= 2
  /\ opinion.citations # {}
  /\ opinion.citations \subseteq Elements(context.citations)

Supported(context, opinion) ==
  /\ opinion.confidence \in Int
  /\ opinion.confidence > WeakCap => Grounded(context, opinion)

\* Whatever the model replies, an opinion of decide() is grounded or carries
\* no more confidence than the cap.
LEMMA OpinionSupported ==
  ASSUME NEW context, Len(context.citations) \in Nat, NEW reply,
         reply.kind = "object" => Number(reply.fields.confidence),
         NEW r \in DecideCoverage(context, reply), ~r.raised
  PROVE  Supported(context, r.value)
<1> DEFINE given == Fields(reply, CoverageFields)
           raws == IF given.citations \in Odd THEN {} ELSE given.citations
           decision == IF given.decision \in Decisions THEN given.decision ELSE "partial"
           clamped == Clamp(given.confidence, 50)
           confidence == CapConfidence(clamped, context)
           unsupported == Opinion("partial", Unsupported, {context.citations[1]})
           valid == Elements(context.citations)
<1>1. clamped \in 0..100
  <2>1. Number(given.confidence)
    BY FieldNumber DEF CoverageFields
  <2> HIDE DEF given
  <2> QED BY <2>1, ClampRange
<1> HIDE DEF clamped
<1>2. /\ confidence \in Int
      /\ confidence > WeakCap => Len(context.citations) >= 2
  BY <1>1 DEF CapConfidence, AtMost, WeakCap
<1>3. Supported(context, unsupported)
  BY DEF Supported, Opinion, Unsupported, WeakCap
<1>4. DecideCoverage(context, reply) =
        IF ~context.sufficient THEN {Returned(unsupported)}
        ELSE IF ~Readable(reply) THEN {Failure(reply)}
        ELSE IF Bad \in raws THEN {Raised}
        ELSE {Returned(IF cited = {} THEN unsupported
                       ELSE Opinion(decision, confidence, cited)) :
                cited \in FilterCitations(raws, valid)}
  BY DEF DecideCoverage, clamped
<1> HIDE DEF raws, decision, confidence, unsupported
<1>5. CASE ~context.sufficient
  BY <1>3, <1>4, <1>5 DEF Returned
<1>6. CASE context.sufficient
  <2>1. PICK cited \in FilterCitations(raws, valid) :
          r = Returned(IF cited = {} THEN unsupported
                       ELSE Opinion(decision, confidence, cited))
    BY <1>4, <1>6, FailureRaises DEF Raised
  <2>2. r.value = IF cited = {} THEN unsupported ELSE Opinion(decision, confidence, cited)
    BY <2>1 DEF Returned
  <2>3. cited \subseteq valid
    BY <2>1 DEF FilterCitations
  <2> QED BY <1>2, <1>3, <1>6, <2>2, <2>3 DEF Supported, Grounded, Opinion
<1> QED BY <1>5, <1>6

\* The model cannot talk a flagged party's score below the weight of the flag.
LEMMA RiskFloor ==
  ASSUME NEW facts, NEW reply,
         reply.kind = "object" => Number(reply.fields.score),
         ~AssessRisk(facts, reply).raised
  PROVE  /\ AssessRisk(facts, reply).value \in Int
         /\ Lookup(facts.party).flagged => AssessRisk(facts, reply).value >= FlagWeight
<1> DEFINE model == Clamp(Fields(reply, {"score"}).score, 50)
           tool == ToolScore(facts.amount, Lookup(facts.party))
<1>1. model \in 0..100
  <2>1. Number(Fields(reply, {"score"}).score)
    BY FieldNumber
  <2> QED BY <2>1, ClampRange
<1>2. tool \in Int /\ (Lookup(facts.party).flagged => tool >= FlagWeight)
  BY DEF ToolScore, AtMost, FlagWeight
<1>3. AssessRisk(facts, reply).value = AtLeast(model, tool)
  BY FailureRaises DEF AssessRisk, Returned
<1> HIDE DEF model, tool
<1> QED BY <1>1, <1>2, <1>3 DEF AtLeast, FlagWeight

\* A denial pays nothing, and no proposal pays more than the limit it states.
Payable(opinion, proposal) ==
  /\ proposal.payable \in Nat
  /\ proposal.limit = 0 \/ proposal.payable <= proposal.limit
  /\ opinion.decision = "denied" => proposal.payable = 0

LEMMA FiguresPayable ==
  ASSUME NEW amount \in Nat, NEW given,
         Number(given.payable_amount), Number(given.deductible_applied),
         Number(given.limit_applied),
         ~SettleFigures(amount, given).raised
  PROVE  LET p == SettleFigures(amount, given).value
         IN  /\ p.payable \in Nat
             /\ p.limit = 0 \/ p.payable <= p.limit
<1> DEFINE payable == ToDecimal(given.payable_amount, 0)
           deductible == ToDecimal(given.deductible_applied, 0)
           limit == ToDecimal(given.limit_applied, amount)
           cut == IF limit > 0 /\ payable > limit THEN limit ELSE payable
<1>1. \A v, d : Number(v) /\ d \in Int => ToDecimal(v, d) \in Int \/ ToDecimal(v, d) = NaN
  BY OddAssumption DEF Number, Odd, ToDecimal
<1>2. /\ payable \in Int \/ payable = NaN
      /\ limit \in Int \/ limit = NaN
  BY <1>1
<1>3. SettleFigures(amount, given)
        = IF NaN \in {payable, deductible, limit} THEN Raised
          ELSE IF cut < 0 \/ deductible < 0 \/ limit < 0 THEN Raised
          ELSE Returned(Proposal(cut, deductible, limit))
  BY DEF SettleFigures
<1> HIDE DEF payable, deductible, limit
<1>4. /\ payable \in Int /\ limit \in Int
      /\ ~(cut < 0) /\ ~(limit < 0)
      /\ SettleFigures(amount, given) = Returned(Proposal(cut, deductible, limit))
  BY <1>2, <1>3 DEF Raised
<1>5. /\ SettleFigures(amount, given).value.payable = cut
      /\ SettleFigures(amount, given).value.limit = limit
  BY <1>4 DEF Returned, Proposal
<1> QED BY <1>4, <1>5

LEMMA SettlementPayable ==
  ASSUME NEW amount \in Nat, NEW opinion, NEW reply,
         reply.kind = "object" => /\ Number(reply.fields.payable_amount)
                                  /\ Number(reply.fields.deductible_applied)
                                  /\ Number(reply.fields.limit_applied),
         ~ComputeSettlement(amount, opinion, reply).raised
  PROVE  Payable(opinion, ComputeSettlement(amount, opinion, reply).value)
<1>1. CASE opinion.decision = "denied"
  BY <1>1 DEF ComputeSettlement, Returned, Proposal, Payable
<1>2. CASE opinion.decision # "denied"
  <2> DEFINE given == Fields(reply, SettlementFields)
  <2>1. /\ Number(given.payable_amount) /\ Number(given.deductible_applied)
        /\ Number(given.limit_applied)
    BY FieldNumber DEF SettlementFields
  <2>2. ComputeSettlement(amount, opinion, reply) = SettleFigures(amount, given)
    BY <1>2, FailureRaises DEF ComputeSettlement
  <2> HIDE DEF given
  <2> QED BY <1>2, <2>1, <2>2, FiguresPayable DEF Payable
<1> QED BY <1>1, <1>2

-----------------------------------------------------------------------------
(* What the graph's state holds by the time the router reads it *)

AfterIntake == {"policy_retrieval", "coverage_decision", "fraud_risk", "settlement",
                "compliance", "route"}
AfterRetrieval == AfterIntake \ {"policy_retrieval"}
AfterCoverage == AfterRetrieval \ {"coverage_decision"}
AfterRisk == AfterCoverage \ {"fraud_risk"}
AfterSettlement == AfterRisk \ {"settlement"}

\* Without an error so far, each node that is behind has left a sound result.
ResultsSound ==
  errors = <<>> =>
    /\ node \in AfterIntake => ClaimFacts.amount \in Nat
    /\ node \in AfterRetrieval => Len(Context.citations) \in Nat
    /\ node \in AfterCoverage => Supported(Context, Coverage)
    /\ node \in AfterRisk =>
         /\ Risk \in Int
         /\ Lookup(ClaimFacts.party).flagged => Risk >= FlagWeight
    /\ node \in AfterSettlement => Payable(Coverage, Settlement)

\* The disposition is automatic only behind the router.
AutoIsLate == Automatic => node \in {"finalize_auto", "END"}

StateShape ==
  /\ errors \in Seq(AgentNodes)
  /\ output = [n \in AgentNodes |-> output[n]]

\* What an automatic disposition rests on, by the thresholds that make it so.
AutoSound ==
  /\ WeakCap < Tau1 => AutoIsGrounded
  /\ Tau2 < FlagWeight => FlaggedNeverAuto
  /\ AutoPayable

GInv == StateShape /\ ResultsSound /\ AutoIsLate /\ AutoSound

\* A step of an agent node: a skip, or a run that comes to some result.
AgentStep(n) == Skip(n) \/ (Runs(n) /\ \E r : Finish(n, r))

AgentsNext == Intake \/ PolicyRetrieval \/ CoverageDecision \/ FraudRisk
              \/ SettlementNode \/ Compliance

LEMMA AgentsStep ==
  ASSUME AgentsNext
  PROVE  \E n \in AgentNodes : AgentStep(n)
  BY DEF AgentsNext, AgentStep, AgentNodes, LlmNodes, Intake, PolicyRetrieval,
         CoverageDecision, FraudRisk, SettlementNode, Compliance

LEMMA ShapeKept ==
  ASSUME StateShape, NEW n \in AgentNodes, AgentStep(n)
  PROVE  StateShape' /\ disposition' = disposition /\ node = n
  BY DEF StateShape, AgentStep, Skip, Runs, Finish

\* Nothing is asked of a claim that is not settled automatically.
LEMMA NotAuto ==
  /\ ~Automatic => AutoSound
  /\ ~Automatic' => AutoSound'
<1>1. ~Automatic => AutoSound
  BY DEF AutoSound, Automatic, AutoIsGrounded, FlaggedNeverAuto, AutoPayable
<1>2. ~Automatic' => AutoSound'
  BY DEF AutoSound, Automatic, AutoIsGrounded, FlaggedNeverAuto, AutoPayable
<1> QED BY <1>1, <1>2

\* A step that touches neither the results nor the disposition.
LEMMA ResultsKept ==
  ASSUME AutoSound, UNCHANGED <<output, disposition>>
  PROVE  AutoSound'
<1>1. /\ ClaimFacts' = ClaimFacts /\ Context' = Context /\ Coverage' = Coverage
      /\ Settlement' = Settlement /\ (Automatic' <=> Automatic)
  BY DEF ClaimFacts, Context, Coverage, Settlement, Automatic
<1>2. /\ AutoIsGrounded => AutoIsGrounded'
      /\ FlaggedNeverAuto => FlaggedNeverAuto'
      /\ AutoPayable => AutoPayable'
  BY <1>1 DEF AutoIsGrounded, FlaggedNeverAuto, AutoPayable
<1> QED BY <1>2 DEF AutoSound

\* An agent node's step leaves the disposition unset, as it was.
LEMMA AutoKept ==
  ASSUME AutoIsLate, StateShape, NEW n \in AgentNodes, AgentStep(n)
  PROVE  AutoIsLate' /\ AutoSound'
<1>1. ~Automatic
  BY ShapeKept DEF AutoIsLate, AgentNodes, LlmNodes
<1>2. ~Automatic'
  BY <1>1, ShapeKept DEF Automatic
<1> QED BY <1>2, NotAuto DEF AutoIsLate
\* A run that leaves no error and does not raise has put its result into the
\* state, and nothing else.
LEMMA Effect ==
  ASSUME StateShape, NEW n \in AgentNodes, Runs(n), NEW r, Finish(n, r),
         errors' = <<>>, node' # "raised"
  PROVE  /\ ~r.raised
         /\ output'[n] = r.value
         /\ \A m \in AgentNodes \ {n} : output'[m] = output[m]
         /\ node' = Edge[n]
<1>1. Append(errors, n) # <<>>
  BY DEF StateShape
<1> QED BY <1>1 DEF StateShape, Runs, Finish

LEMMA SkipSound ==
  ASSUME NEW n \in AgentNodes, Skip(n)
  PROVE  ResultsSound'
  BY DEF Skip, ResultsSound

\* What the text says of the amount, if anything.
RawOK == raw \in Nat \cup {Missing}

LEMMA IntakeSound ==
  ASSUME GInv, RawOK, Intake
  PROVE  ResultsSound'
<1>1. CASE Skip("intake")
  BY <1>1, SkipSound DEF AgentNodes, LlmNodes
<1>2. CASE ~Skip("intake")
  <2>1. PICK reply \in Replies["intake"] :
          Runs("intake") /\ Finish("intake", ExtractFacts(raw, reply))
    BY <1>2 DEF Intake
  <2>2. SUFFICES ASSUME errors' = <<>>, node' # "raised"
                 PROVE  ResultsSound'
    BY DEF ResultsSound, AfterIntake, AfterRetrieval, AfterCoverage, AfterRisk,
           AfterSettlement
  <2>3. /\ ~ExtractFacts(raw, reply).raised
        /\ output'["intake"] = ExtractFacts(raw, reply).value
        /\ node' = "policy_retrieval"
    BY <2>1, <2>2, Effect DEF GInv, AgentNodes, LlmNodes, Edge
  <2>4. output'["intake"].amount \in Nat
    BY <2>3, FactsAmount, NumbersAssumption DEF RawOK
  <2> QED BY <2>3, <2>4 DEF ResultsSound, ClaimFacts, AfterIntake, AfterRetrieval,
             AfterCoverage, AfterRisk, AfterSettlement
<1> QED BY <1>1, <1>2

LEMMA RetrievalSound ==
  ASSUME GInv, PolicyRetrieval
  PROVE  ResultsSound'
<1>1. CASE Skip("policy_retrieval")
  BY <1>1, SkipSound DEF AgentNodes, LlmNodes
<1>2. CASE ~Skip("policy_retrieval")
  <2> DEFINE Result(r) == IF r.raised THEN r
                          ELSE Returned([sufficient |-> r.value.sufficient,
                                         citations |-> IF r.value.citations = <<>> THEN <<"none">>
                                                       ELSE r.value.citations])
  <2>1. PICK r \in Retrievals :
          Runs("policy_retrieval") /\ Finish("policy_retrieval", Result(r))
    BY <1>2 DEF PolicyRetrieval
  <2>2. SUFFICES ASSUME errors' = <<>>, node' # "raised"
                 PROVE  ResultsSound'
    BY DEF ResultsSound, AfterIntake, AfterRetrieval, AfterCoverage, AfterRisk,
           AfterSettlement
  <2> HIDE DEF Result
  <2>3. /\ ~Result(r).raised
        /\ output'["policy_retrieval"] = Result(r).value
        /\ output'["intake"] = output["intake"]
        /\ node' = "coverage_decision"
    BY <2>1, <2>2, Effect DEF GInv, AgentNodes, LlmNodes, Edge
  <2>4. ~r.raised
    BY <2>3 DEF Result
  <2>5. r.value.citations \in Seq(STRING)
    BY <2>4, RetrievalsAssumption
  <2>6. Len(output'["policy_retrieval"].citations) \in Nat
    <3>1. Len(<<"none">>) = 1
      OBVIOUS
    <3>2. output'["policy_retrieval"].citations
            = IF r.value.citations = <<>> THEN <<"none">> ELSE r.value.citations
      BY <2>3, <2>4 DEF Result, Returned
    <3> QED BY <2>5, <3>1, <3>2
  <2>7. ClaimFacts.amount \in Nat
    BY <2>1 DEF GInv, ResultsSound, Runs, AfterIntake
  <2> QED BY <2>3, <2>6, <2>7 DEF ResultsSound, ClaimFacts, Context, AfterIntake,
             AfterRetrieval, AfterCoverage, AfterRisk, AfterSettlement
<1> QED BY <1>1, <1>2

LEMMA CoverageSound ==
  ASSUME GInv, CoverageDecision
  PROVE  ResultsSound'
<1>1. CASE Skip("coverage_decision")
  BY <1>1, SkipSound DEF AgentNodes, LlmNodes
<1>2. CASE ~Skip("coverage_decision")
  <2>0. PICK reply \in Replies["coverage_decision"] :
          \E r \in DecideCoverage(Context, reply) :
            Runs("coverage_decision") /\ Finish("coverage_decision", r)
    BY <1>2 DEF CoverageDecision
  <2>1. PICK r \in DecideCoverage(Context, reply) :
          Runs("coverage_decision") /\ Finish("coverage_decision", r)
    BY <2>0
  <2>2. SUFFICES ASSUME errors' = <<>>, node' # "raised"
                 PROVE  ResultsSound'
    BY DEF ResultsSound, AfterIntake, AfterRetrieval, AfterCoverage, AfterRisk,
           AfterSettlement
  <2>3. /\ ~r.raised
        /\ output'["coverage_decision"] = r.value
        /\ output'["intake"] = output["intake"]
        /\ output'["policy_retrieval"] = output["policy_retrieval"]
        /\ node' = "fraud_risk"
    BY <2>1, <2>2, Effect DEF GInv, AgentNodes, LlmNodes, Edge
  <2>4. ClaimFacts.amount \in Nat /\ Len(Context.citations) \in Nat
    BY <2>1 DEF GInv, ResultsSound, Runs, AfterIntake, AfterRetrieval
  <2>5. Supported(Context, r.value)
    BY <2>1, <2>3, <2>4, OpinionSupported, NumbersAssumption
  <2>6. Supported(Context, Coverage)'
    BY <2>3, <2>5 DEF Supported, Grounded, Context, Coverage
  <2> QED BY <2>3, <2>4, <2>6 DEF ResultsSound, ClaimFacts, Context, AfterIntake,
             AfterRetrieval, AfterCoverage, AfterRisk, AfterSettlement
<1> QED BY <1>1, <1>2

LEMMA RiskSound ==
  ASSUME GInv, FraudRisk
  PROVE  ResultsSound'
<1>1. CASE Skip("fraud_risk")
  BY <1>1, SkipSound DEF AgentNodes, LlmNodes
<1>2. CASE ~Skip("fraud_risk")
  <2>1. PICK reply \in Replies["fraud_risk"] :
          Runs("fraud_risk") /\ Finish("fraud_risk", AssessRisk(ClaimFacts, reply))
    BY <1>2 DEF FraudRisk
  <2>2. SUFFICES ASSUME errors' = <<>>, node' # "raised"
                 PROVE  ResultsSound'
    BY DEF ResultsSound, AfterIntake, AfterRetrieval, AfterCoverage, AfterRisk,
           AfterSettlement
  <2>3. /\ ~AssessRisk(ClaimFacts, reply).raised
        /\ output'["fraud_risk"] = AssessRisk(ClaimFacts, reply).value
        /\ output'["intake"] = output["intake"]
        /\ output'["policy_retrieval"] = output["policy_retrieval"]
        /\ output'["coverage_decision"] = output["coverage_decision"]
        /\ node' = "settlement"
    BY <2>1, <2>2, Effect DEF GInv, AgentNodes, LlmNodes, Edge
  <2>4. /\ ClaimFacts.amount \in Nat
        /\ Len(Context.citations) \in Nat
        /\ Supported(Context, Coverage)
    BY <2>1 DEF GInv, ResultsSound, Runs, AfterIntake, AfterRetrieval, AfterCoverage
  <2>5. /\ output'["fraud_risk"] \in Int
        /\ Lookup(ClaimFacts.party).flagged => output'["fraud_risk"] >= FlagWeight
    BY <2>3, RiskFloor, NumbersAssumption
  <2> QED BY <2>3, <2>4, <2>5 DEF ResultsSound, ClaimFacts, Context, Coverage, Risk,
             Supported, Grounded, AfterIntake, AfterRetrieval, AfterCoverage, AfterRisk,
             AfterSettlement
<1> QED BY <1>1, <1>2

LEMMA SettlementSound ==
  ASSUME GInv, SettlementNode
  PROVE  ResultsSound'
<1>1. CASE Skip("settlement")
  BY <1>1, SkipSound DEF AgentNodes, LlmNodes
<1>2. CASE ~Skip("settlement")
  <2>1. PICK reply \in Replies["settlement"] :
          /\ Runs("settlement")
          /\ Finish("settlement", ComputeSettlement(ClaimFacts.amount, Coverage, reply))
    BY <1>2 DEF SettlementNode
  <2>2. SUFFICES ASSUME errors' = <<>>, node' # "raised"
                 PROVE  ResultsSound'
    BY DEF ResultsSound, AfterIntake, AfterRetrieval, AfterCoverage, AfterRisk,
           AfterSettlement
  <2> DEFINE result == ComputeSettlement(ClaimFacts.amount, Coverage, reply)
  <2>3. /\ ~result.raised
        /\ output'["settlement"] = result.value
        /\ \A m \in AgentNodes \ {"settlement"} : output'[m] = output[m]
        /\ node' = "compliance"
    BY <2>1, <2>2, Effect DEF GInv, AgentNodes, LlmNodes, Edge
  <2>4. /\ ClaimFacts.amount \in Nat
        /\ Len(Context.citations) \in Nat
        /\ Supported(Context, Coverage)
        /\ Risk \in Int
        /\ Lookup(ClaimFacts.party).flagged => Risk >= FlagWeight
    BY <2>1 DEF GInv, ResultsSound, Runs, AfterIntake, AfterRetrieval, AfterCoverage,
                AfterRisk
  <2>5. Payable(Coverage, result.value)
    BY <2>3, <2>4, SettlementPayable, NumbersAssumption
  <2> HIDE DEF result
  <2>6. ClaimFacts' = ClaimFacts /\ Context' = Context /\ Coverage' = Coverage /\ Risk' = Risk
    BY <2>3 DEF ClaimFacts, Context, Coverage, Risk, AgentNodes, LlmNodes
  <2>7. Payable(Coverage, Settlement)'
    BY <2>3, <2>5, <2>6 DEF Payable, Settlement
  <2> QED BY <2>3, <2>4, <2>6, <2>7 DEF ResultsSound, Supported, Grounded, AfterIntake,
             AfterRetrieval, AfterCoverage, AfterRisk, AfterSettlement
<1> QED BY <1>1, <1>2

LEMMA ComplianceSound ==
  ASSUME GInv, Compliance
  PROVE  ResultsSound'
<1>1. CASE Skip("compliance")
  BY <1>1, SkipSound DEF AgentNodes, LlmNodes
<1>2. CASE ~Skip("compliance")
  <2>1. PICK reply \in Replies["compliance"] :
          Runs("compliance") /\ Finish("compliance", ReviewCompliance(reply))
    BY <1>2 DEF Compliance
  <2>2. SUFFICES ASSUME errors' = <<>>, node' # "raised"
                 PROVE  ResultsSound'
    BY DEF ResultsSound, AfterIntake, AfterRetrieval, AfterCoverage, AfterRisk,
           AfterSettlement
  <2>3. \A m \in AgentNodes \ {"compliance"} : output'[m] = output[m]
    BY <2>1, <2>2, Effect DEF GInv, AgentNodes, LlmNodes
  <2>4. /\ ClaimFacts' = ClaimFacts /\ Context' = Context /\ Coverage' = Coverage
        /\ Risk' = Risk /\ Settlement' = Settlement
    BY <2>3 DEF ClaimFacts, Context, Coverage, Risk, Settlement, AgentNodes, LlmNodes
  <2> QED BY <2>1, <2>4 DEF GInv, ResultsSound, Runs, Supported, Grounded, Payable, AfterIntake,
             AfterRetrieval, AfterCoverage, AfterRisk, AfterSettlement
<1> QED BY <1>1, <1>2

\* The router is where the results become a disposition.
LEMMA RouteSound ==
  ASSUME GInv, Route
  PROVE  GInv'
<1>1. /\ StateShape' /\ AutoIsLate'
      /\ ResultsSound'
  BY DEF GInv, Route, StateShape, AutoIsLate, Automatic, ResultsSound, AfterIntake,
         AfterRetrieval, AfterCoverage, AfterRisk, AfterSettlement
<1>2. CASE ~(errors = <<>> /\ WithinThresholds)
  <2>1. disposition' = "escalated"
    BY <1>2 DEF Route
  <2>2. ~Automatic'
    BY <2>1 DEF Automatic
  <2> QED BY <1>1, <2>2, NotAuto DEF GInv
<1>3. CASE errors = <<>> /\ WithinThresholds
  <2>1. /\ Supported(Context, Coverage)
        /\ Risk \in Int
        /\ Lookup(ClaimFacts.party).flagged => Risk >= FlagWeight
        /\ Payable(Coverage, Settlement)
    BY <1>3 DEF Route, GInv, ResultsSound, AfterIntake, AfterRetrieval, AfterCoverage,
                AfterRisk, AfterSettlement
  <2>2. ClaimFacts' = ClaimFacts /\ Context' = Context /\ Coverage' = Coverage
        /\ Settlement' = Settlement
    BY DEF Route, ClaimFacts, Context, Coverage, Settlement
  <2>3. ASSUME WeakCap < Tau1 PROVE AutoIsGrounded'
    <3>1. Coverage.confidence > WeakCap
      BY <1>3, <2>1, <2>3, TauAssumption DEF WithinThresholds, Supported, WeakCap
    <3> QED BY <2>1, <2>2, <3>1 DEF Supported, Grounded, AutoIsGrounded
  <2>4. ASSUME Tau2 < FlagWeight PROVE FlaggedNeverAuto'
    <3>1. ~Lookup(ClaimFacts.party).flagged
      BY <1>3, <2>1, <2>4, TauAssumption DEF WithinThresholds, FlagWeight
    <3> QED BY <2>2, <3>1 DEF FlaggedNeverAuto
  <2>5. AutoPayable'
    <3>1. disposition' = IF Coverage.decision = "denied" THEN "auto_denied" ELSE "auto_approved"
      BY <1>3 DEF Route
    <3>2. Settlement.payable \in Nat /\ Settlement.payable <= Tau3
      BY <1>3, <2>1 DEF WithinThresholds, Payable
    <3> QED BY <2>1, <2>2, <3>1, <3>2, TauAssumption DEF AutoPayable, Payable
  <2> QED BY <1>1, <2>3, <2>4, <2>5 DEF GInv, AutoSound
<1> QED BY <1>2, <1>3

LEMMA GraphInit == Init => GInv
<1> SUFFICES ASSUME Init PROVE GInv
  OBVIOUS
<1>1. ~Automatic
  BY NoneAssumption DEF Init, Automatic
<1>2. StateShape /\ ResultsSound
  BY DEF Init, StateShape, ResultsSound, AfterIntake, AfterRetrieval, AfterCoverage,
         AfterRisk, AfterSettlement
<1> QED BY <1>1, <1>2, NotAuto DEF GInv, AutoIsLate

LEMMA GraphStep == RawOK /\ GInv /\ [Next]_vars => RawOK' /\ GInv'
<1> SUFFICES ASSUME RawOK, GInv, [Next]_vars PROVE RawOK' /\ GInv'
  OBVIOUS
<1>1. CASE AgentsNext
  <2>1. PICK n \in AgentNodes : AgentStep(n)
    BY <1>1, AgentsStep
  <2>2. StateShape' /\ AutoIsLate' /\ AutoSound'
    BY <2>1, ShapeKept, AutoKept DEF GInv
  <2>3. RawOK'
    BY <2>1 DEF RawOK, AgentStep, Skip, Finish
  <2>4. ResultsSound'
    BY <1>1, IntakeSound, RetrievalSound, CoverageSound, RiskSound, SettlementSound,
       ComplianceSound DEF RawOK, AgentsNext
  <2> QED BY <2>2, <2>3, <2>4 DEF GInv
<1>2. CASE Route
  BY <1>2, RouteSound DEF RawOK, Route
<1>3. CASE FinalizeAuto
  <2>1. StateShape' /\ ResultsSound' /\ AutoIsLate' /\ RawOK'
    BY <1>3 DEF FinalizeAuto, RawOK, GInv, StateShape, ResultsSound, AutoIsLate, Automatic, Edge,
       AfterIntake, AfterRetrieval, AfterCoverage, AfterRisk, AfterSettlement
  <2> QED BY <1>3, <2>1, ResultsKept DEF FinalizeAuto, GInv
<1>4. ASSUME NEW n \in {"error_handler", "human_escalation"}, Escalate(n)
      PROVE  RawOK' /\ GInv'
  <2>1. StateShape' /\ ResultsSound' /\ RawOK' /\ ~Automatic'
    BY <1>4 DEF Escalate, RawOK, GInv, StateShape, ResultsSound, Automatic, Edge,
       AfterIntake, AfterRetrieval, AfterCoverage, AfterRisk, AfterSettlement
  <2> QED BY <2>1, NotAuto DEF GInv, AutoIsLate
<1>5. CASE UNCHANGED vars
  <2>1. StateShape' /\ AutoIsLate' /\ RawOK'
    BY <1>5 DEF vars, RawOK, GInv, StateShape, AutoIsLate, Automatic
  <2>2. /\ ClaimFacts' = ClaimFacts /\ Context' = Context /\ Coverage' = Coverage
        /\ Risk' = Risk /\ Settlement' = Settlement /\ node' = node /\ errors' = errors
    BY <1>5 DEF vars, ClaimFacts, Context, Coverage, Risk, Settlement
  <2>3. ResultsSound'
    BY <2>2 DEF GInv, ResultsSound, Supported, Grounded, Payable
  <2> QED BY <1>5, <2>1, <2>3, ResultsKept DEF vars, GInv
<1> QED BY <1>1, <1>2, <1>3, <1>4, <1>5 DEF Next, AgentsNext

LEMMA GraphInv == Spec => []GInv
<1>1. Init => RawOK
  BY InputsAssumption DEF Init, RawOK
<1> QED BY <1>1, GraphInit, GraphStep, PTL DEF Spec

-----------------------------------------------------------------------------
(* The theorems about automatic dispositions *)

\* A claim settled without a human rests on sufficient retrieval of at least two
\* clauses and on an opinion that cites some of them and nothing else, whatever
\* the model replies: provided the threshold for the confidence is above the cap
\* on weak retrieval, as the shipped configuration has it.
THEOREM GroundedAuto ==
  ASSUME WeakCap < Tau1
  PROVE  Spec => []AutoIsGrounded
<1>1. GInv => AutoIsGrounded
  BY DEF GInv, AutoSound
<1> QED BY <1>1, GraphInv, PTL

\* A flag that the history tool returned for the extracted party holds against
\* every reply of the model, provided the risk threshold is below its weight.
\* That the tool finds the record is not claimed: HistoryIsFound fails.
THEOREM FlaggedEscalated ==
  ASSUME Tau2 < FlagWeight
  PROVE  Spec => []FlaggedNeverAuto
<1>1. GInv => FlaggedNeverAuto
  BY DEF GInv, AutoSound
<1> QED BY <1>1, GraphInv, PTL

\* An automatic denial pays nothing, and an automatic approval no more than the
\* automatic authority and the policy limit, under any thresholds.
THEOREM AutoWithinLimits == Spec => []AutoPayable
<1>1. GInv => AutoPayable
  BY DEF GInv, AutoSound
<1> QED BY <1>1, GraphInv, PTL

-----------------------------------------------------------------------------
(* The trace: what it says of the way taken, and of what failed on it *)

LEMMA GraphTypeInit == Init => TypeOK
  BY DEF Init, TypeOK, Nodes, AgentNodes, LlmNodes

LEMMA GraphTypeStep == TypeOK /\ [Next]_vars => TypeOK'
<1> SUFFICES ASSUME TypeOK, [Next]_vars PROVE TypeOK'
  OBVIOUS
<1>1. CASE AgentsNext
  <2>1. PICK n \in AgentNodes : AgentStep(n)
    BY <1>1, AgentsStep
  <2>3. Edge[n] \in Nodes
    BY DEF Edge, Nodes, AgentNodes, LlmNodes
  <2>4. trace' \in Seq([node : Nodes, result : {"done", "error", "skipped"}])
    <3>1. \/ UNCHANGED trace
          \/ \E result \in {"done", "error", "skipped"} : Traced(n, result)
      BY <2>1 DEF AgentStep, Skip, Finish
    <3>2. ASSUME NEW result \in {"done", "error", "skipped"}
          PROVE  [node |-> n, result |-> result]
                   \in [node : Nodes, result : {"done", "error", "skipped"}]
      BY DEF Nodes
    <3>3. CASE UNCHANGED trace
      BY <3>3 DEF TypeOK
    <3>4. ASSUME NEW result \in {"done", "error", "skipped"}, Traced(n, result)
          PROVE  trace' \in Seq([node : Nodes, result : {"done", "error", "skipped"}])
      <4> DEFINE Entries == [node : Nodes, result : {"done", "error", "skipped"}]
                 entry == [node |-> n, result |-> result]
      <4>1. entry \in Entries /\ trace \in Seq(Entries) /\ trace' = Append(trace, entry)
        BY <3>2, <3>4 DEF TypeOK, Traced
      <4> HIDE DEF Entries, entry
      <4>2. trace' \in Seq(Entries)
        BY <4>1
      <4> QED BY <4>2 DEF Entries
    <3> QED BY <3>1, <3>3, <3>4
  <2>5. errors' \in Seq(AgentNodes)
    BY <2>1 DEF TypeOK, AgentStep, Skip, Finish
  <2> QED BY <2>1, <2>3, <2>4, <2>5 DEF TypeOK, AgentStep, Skip, Finish
<1>2. CASE Route
  BY <1>2 DEF Route, TypeOK, Traced, Nodes, Dispositions
<1>3. CASE FinalizeAuto
  BY <1>3 DEF FinalizeAuto, TypeOK, Traced, Nodes, Edge
<1>4. ASSUME NEW n \in {"error_handler", "human_escalation"}, Escalate(n)
      PROVE  TypeOK'
  BY <1>4 DEF Escalate, TypeOK, Traced, Nodes, Edge, Dispositions
<1>5. CASE UNCHANGED vars
  BY <1>5 DEF vars, TypeOK
<1> QED BY <1>1, <1>2, <1>3, <1>4, <1>5 DEF Next, AgentsNext

\* The state is always of its type.
THEOREM GraphTypeCorrect == Spec => []TypeOK
  BY GraphTypeInit, GraphTypeStep, PTL DEF Spec

\* The nodes every run goes through, and how many are behind each of them.
Trunk == <<"intake", "policy_retrieval", "coverage_decision", "fraud_risk", "settlement",
           "compliance", "route">>

Position == [intake |-> 0, policy_retrieval |-> 1, coverage_decision |-> 2,
             fraud_risk |-> 3, settlement |-> 4, compliance |-> 5, route |-> 6]

OnTrunk == \A i \in DOMAIN trace : i <= 7 => trace[i].node = Trunk[i]

\* How many entries there are, and what follows the trunk, by where the run is.
Walked ==
  /\ node \in AgentNodes \cup {"route"} => Len(trace) = Position[node]
  /\ node = "finalize_auto" => Len(trace) = 7 /\ errors = <<>> /\ Automatic
  /\ node = "error_handler" => Len(trace) = 7 /\ errors # <<>>
  /\ node = "human_escalation" =>
       /\ errors = <<>> => Len(trace) = 7
       /\ errors # <<>> => Len(trace) = 8 /\ trace[8].node = "error_handler"
  /\ node = "END" =>
       /\ errors = <<>> =>
            /\ Len(trace) = 8
            /\ trace[8].node = IF Automatic THEN "finalize_auto" ELSE "human_escalation"
       /\ errors # <<>> =>
            /\ Len(trace) = 9
            /\ trace[8].node = "error_handler" /\ trace[9].node = "human_escalation"
            /\ disposition = "escalated"

\* Node n is done by entry j of the trace.
DoneBefore(n, j) ==
  \E i \in DOMAIN trace : i < j /\ trace[i] = [node |-> n, result |-> "done"]

\* At most one node failed, and every result in the state is from before.
FailureTraced ==
  /\ errors = <<>> =>
       \A n \in AgentNodes : output[n] # None => DoneBefore(n, Len(trace) + 1)
  /\ errors # <<>> =>
       /\ Len(errors) = 1
       /\ \E j \in DOMAIN trace :
            /\ trace[j] = [node |-> errors[1], result |-> "error"]
            /\ \A n \in AgentNodes : output[n] # None => DoneBefore(n, j)

TraceInv == TypeOK /\ OnTrunk /\ Walked /\ FailureTraced

\* Every step but a raise appends one entry, and keeps the others.
LEMMA Appended ==
  ASSUME TypeOK, NEW n, NEW result, Traced(n, result)
  PROVE  /\ Len(trace') = Len(trace) + 1
         /\ DOMAIN trace = 1..Len(trace)
         /\ DOMAIN trace' = 1..(Len(trace) + 1)
         /\ DOMAIN trace \subseteq DOMAIN trace'
         /\ \A i \in DOMAIN trace : trace'[i] = trace[i]
         /\ trace'[Len(trace) + 1] = [node |-> n, result |-> result]
         /\ Len(trace) \in Nat
  BY DEF TypeOK, Traced

\* What was done stays done.
LEMMA DoneKept ==
  ASSUME TypeOK, NEW n, NEW result, Traced(n, result)
  PROVE  \A m, j : DoneBefore(m, j) => DoneBefore(m, j)'
<1> SUFFICES ASSUME NEW m, NEW j, DoneBefore(m, j)
             PROVE  \E i \in DOMAIN trace' :
                      i < j /\ trace'[i] = [node |-> m, result |-> "done"]
  BY DEF DoneBefore
<1>1. PICK i \in DOMAIN trace : i < j /\ trace[i] = [node |-> m, result |-> "done"]
  BY DEF DoneBefore
<1>2. /\ \A k \in DOMAIN trace : trace'[k] = trace[k]
      /\ DOMAIN trace \subseteq DOMAIN trace'
  BY Appended
<1> QED BY <1>1, <1>2

LEMMA AgentsWalk ==
  ASSUME TraceInv, NEW n \in AgentNodes, AgentStep(n), TypeOK'
  PROVE  OnTrunk' /\ Walked'
<1>1. node = n /\ Len(trace) = Position[n]
  BY DEF AgentStep, Skip, Runs, TraceInv, Walked
<1>2. CASE node' = "raised" /\ UNCHANGED trace
  BY <1>2 DEF TraceInv, OnTrunk, Walked, AgentNodes, LlmNodes
<1>3. CASE node' = Edge[n] /\ \E result : Traced(n, result)
  <2>1. PICK result : Traced(n, result)
    BY <1>3
  <2>2. Trunk[Len(trace) + 1] = n /\ Len(trace) + 1 = Position[Edge[n]]
    BY <1>1 DEF Trunk, Position, Edge, AgentNodes, LlmNodes
  <2>3. OnTrunk'
    <3> SUFFICES ASSUME NEW i \in DOMAIN trace', i <= 7
                 PROVE  trace'[i].node = Trunk[i]
      BY DEF OnTrunk
    <3>1. CASE i \in DOMAIN trace
      BY <2>1, <3>1, Appended DEF TraceInv, OnTrunk
    <3>2. /\ trace'[Len(trace) + 1] = [node |-> n, result |-> result]
          /\ DOMAIN trace = 1..Len(trace) /\ DOMAIN trace' = 1..(Len(trace) + 1)
          /\ Len(trace) \in Nat
      BY <2>1, Appended DEF TraceInv
    <3>3. CASE i = Len(trace) + 1
      BY <2>2, <3>2, <3>3
    <3> QED BY <3>1, <3>2, <3>3
  <2>4. Edge[n] \in AgentNodes \cup {"route"}
    BY DEF Edge, AgentNodes, LlmNodes
  <2>5. Walked'
    BY <1>3, <2>1, <2>2, <2>4, Appended DEF TraceInv, Walked, AgentNodes, LlmNodes
  <2> QED BY <2>3, <2>5
<1> QED BY <1>2, <1>3 DEF AgentStep, Skip, Finish

\* An entry for any step that changes neither the results nor the errors.
LEMMA FailureKept ==
  ASSUME TypeOK, FailureTraced, NEW n, NEW result, Traced(n, result),
         UNCHANGED <<output, errors>>
  PROVE  FailureTraced'
<1>1. /\ Len(trace') = Len(trace) + 1 /\ Len(trace) \in Nat
      /\ DOMAIN trace = 1..Len(trace) /\ DOMAIN trace \subseteq DOMAIN trace'
      /\ \A i \in DOMAIN trace : trace'[i] = trace[i]
  BY Appended
<1>2. CASE errors = <<>>
  <2>1. ASSUME NEW m \in AgentNodes, output'[m] # None
        PROVE  \E i \in DOMAIN trace' :
                 i < Len(trace') + 1 /\ trace'[i] = [node |-> m, result |-> "done"]
    <3>1. PICK i \in DOMAIN trace :
            i < Len(trace) + 1 /\ trace[i] = [node |-> m, result |-> "done"]
      BY <1>2, <2>1 DEF FailureTraced, DoneBefore
    <3>2. i < Len(trace') + 1
      BY <1>1, <3>1
    <3> QED BY <1>1, <3>1, <3>2
  <2> QED BY <1>2, <2>1 DEF FailureTraced, DoneBefore
<1>3. CASE errors # <<>>
  <2>1. PICK j \in DOMAIN trace :
          /\ trace[j] = [node |-> errors[1], result |-> "error"]
          /\ \A m \in AgentNodes : output[m] # None => DoneBefore(m, j)
    BY <1>3 DEF FailureTraced
  <2>2. \A m \in AgentNodes : output[m] # None => DoneBefore(m, j)'
    BY <2>1, DoneKept
  <2>3. j \in DOMAIN trace' /\ trace'[j] = trace[j]
    BY <1>1
  <2> QED BY <1>3, <2>1, <2>2, <2>3 DEF FailureTraced, DoneBefore
<1> QED BY <1>2, <1>3

LEMMA AgentsFail ==
  ASSUME TraceInv, NEW n \in AgentNodes, AgentStep(n)
  PROVE  FailureTraced'
<1>1. CASE Skip(n)
  BY <1>1, FailureKept DEF Skip, TraceInv
<1>2. ASSUME Runs(n), NEW r, Finish(n, r)
      PROVE  FailureTraced'
  <2>1. errors = <<>>
    BY <1>2 DEF Runs
  <2>2. CASE ~r.raised /\ Traced(n, "done") /\ UNCHANGED errors
               /\ output' = [output EXCEPT ![n] = r.value]
    <3>1. /\ Len(trace') = Len(trace) + 1 /\ Len(trace) \in Nat
          /\ DOMAIN trace = 1..Len(trace) /\ DOMAIN trace' = 1..(Len(trace) + 1)
          /\ \A i \in DOMAIN trace : trace'[i] = trace[i]
          /\ trace'[Len(trace) + 1] = [node |-> n, result |-> "done"]
      BY <2>2, Appended DEF TraceInv
    <3>2. ASSUME NEW m \in AgentNodes, output'[m] # None
          PROVE  \E i \in DOMAIN trace' :
                   i < Len(trace') + 1 /\ trace'[i] = [node |-> m, result |-> "done"]
      <4>1. CASE m = n
        <5>1. Len(trace) + 1 \in DOMAIN trace' /\ Len(trace) + 1 < Len(trace') + 1
          BY <3>1
        <5> QED BY <3>1, <4>1, <5>1
      <4>2. CASE m # n
        <5>1. output[m] # None
          BY <2>2, <3>2, <4>2
        <5>2. PICK i \in DOMAIN trace :
                i < Len(trace) + 1 /\ trace[i] = [node |-> m, result |-> "done"]
          BY <2>1, <5>1 DEF TraceInv, FailureTraced, DoneBefore
        <5>3. i \in DOMAIN trace' /\ i < Len(trace') + 1 /\ trace'[i] = trace[i]
          BY <3>1, <5>2
        <5> QED BY <5>2, <5>3
      <4> QED BY <4>1, <4>2
    <3> QED BY <2>1, <2>2, <3>2 DEF FailureTraced, DoneBefore
  <2>3. CASE Traced(n, "error") /\ errors' = Append(errors, n) /\ UNCHANGED output
    <3>1. errors' = <<n>>
      BY <2>1, <2>3
    <3>2. /\ Len(trace) + 1 \in DOMAIN trace'
          /\ trace'[Len(trace) + 1] = [node |-> n, result |-> "error"]
      BY <2>3, Appended DEF TraceInv
    <3>3. \A m \in AgentNodes : output[m] # None => DoneBefore(m, Len(trace) + 1)
      BY <2>1 DEF TraceInv, FailureTraced
    <3>4. \A m \in AgentNodes : output'[m] # None =>
            \E i \in DOMAIN trace' :
              i < Len(trace) + 1 /\ trace'[i] = [node |-> m, result |-> "done"]
      <4>1. /\ DOMAIN trace \subseteq DOMAIN trace'
            /\ \A i \in DOMAIN trace : trace'[i] = trace[i]
        BY <2>3, Appended DEF TraceInv
      <4> QED BY <2>3, <3>3, <4>1 DEF DoneBefore
    <3>5. errors' # <<>> /\ Len(errors') = 1 /\ errors'[1] = n
      BY <3>1
    <3> HIDE <3>1
    <3> QED BY <3>2, <3>4, <3>5 DEF FailureTraced, DoneBefore
  <2>4. CASE UNCHANGED <<output, errors, trace>>
    BY <2>4 DEF TraceInv, FailureTraced, DoneBefore
  <2> QED BY <1>2, <2>2, <2>3, <2>4 DEF Finish
<1> QED BY <1>1, <1>2 DEF AgentStep

LEMMA TraceInit == Init => TraceInv
  BY GraphTypeInit DEF Init, TraceInv, OnTrunk, Walked, FailureTraced, AgentNodes, LlmNodes,
     Position

LEMMA TraceStep == TraceInv /\ [Next]_vars => TraceInv'
<1> SUFFICES ASSUME TraceInv, [Next]_vars PROVE TraceInv'
  OBVIOUS
<1> TypeOK'
  BY GraphTypeStep DEF TraceInv
<1>1. CASE AgentsNext
  <2>1. PICK n \in AgentNodes : AgentStep(n)
    BY <1>1, AgentsStep
  <2> QED BY <2>1, AgentsWalk, AgentsFail DEF TraceInv
<1>2. ASSUME NEW n \in {"route", "finalize_auto", "error_handler", "human_escalation"},
             node = n, Traced(n, "done"), UNCHANGED <<output, errors>>,
             \/ Route \/ FinalizeAuto
             \/ Escalate("error_handler") \/ Escalate("human_escalation")
      PROVE  TraceInv'
  <2>1. FailureTraced'
    BY <1>2, FailureKept DEF TraceInv
  <2>2. /\ Len(trace') = Len(trace) + 1 /\ Len(trace) \in Nat
        /\ DOMAIN trace = 1..Len(trace) /\ DOMAIN trace' = 1..(Len(trace) + 1)
        /\ \A i \in DOMAIN trace : trace'[i] = trace[i]
        /\ trace'[Len(trace) + 1] = [node |-> n, result |-> "done"]
    BY <1>2, Appended DEF TraceInv
  <2>3. IF n = "route" THEN Len(trace) = 6 ELSE Len(trace) \in {7, 8}
    <3>1. n = "route" => Len(trace) = 6
      BY <1>2 DEF TraceInv, Walked, Position
    <3>2. n \in {"finalize_auto", "error_handler"} => Len(trace) = 7
      BY <1>2 DEF TraceInv, Walked
    <3>3. n = "human_escalation" => Len(trace) \in {7, 8}
      BY <1>2 DEF TraceInv, Walked
    <3> QED BY <3>1, <3>2, <3>3
  <2>4. OnTrunk'
    <3> SUFFICES ASSUME NEW i \in DOMAIN trace', i <= 7
                 PROVE  trace'[i].node = Trunk[i]
      BY DEF OnTrunk
    <3>1. CASE i \in DOMAIN trace
      BY <2>2, <3>1 DEF TraceInv, OnTrunk
    <3>2. CASE i = Len(trace) + 1
      <4>1. i = 7 /\ n = "route"
        BY <2>2, <2>3, <3>2
      <4> QED BY <2>2, <3>2, <4>1 DEF Trunk
    <3> QED BY <2>2, <3>1, <3>2
  <2>5. Walked'
    <3>1. trace'[Len(trace) + 1].node = n
      BY <2>2
    <3>2. CASE n = "route"
      <4>1. Route /\ Len(trace') = 7
        <5>1. node = "route" /\ Len(trace) = 6
          BY <1>2, <2>3, <3>2
        <5>2. Route
          BY <1>2, <5>1 DEF FinalizeAuto, Escalate
        <5>3. Len(trace') = 7
          BY <2>2, <5>1
        <5> QED BY <5>2, <5>3
      <4>2. CASE node' = "error_handler"
        BY <4>1, <4>2 DEF Walked, Route, AgentNodes, LlmNodes
      <4>3. CASE node' = "finalize_auto"
        <5>1. errors' = <<>> /\ Automatic'
          BY <4>1, <4>3 DEF Route, Automatic
        <5> QED BY <4>1, <4>3, <5>1 DEF Walked, AgentNodes, LlmNodes
      <4>4. CASE node' = "human_escalation"
        <5>1. errors' = <<>>
          BY <4>1, <4>4 DEF Route
        <5> QED BY <4>1, <4>4, <5>1 DEF Walked, AgentNodes, LlmNodes
      <4> QED BY <4>1, <4>2, <4>3, <4>4 DEF Route
    <3>3. CASE n = "finalize_auto"
      <4>1. node' = "END" /\ disposition' = disposition
        BY <1>2, <3>3 DEF Route, FinalizeAuto, Escalate, Edge
      <4>2. errors' = <<>> /\ Automatic' /\ Len(trace') = 8
        <5>1. errors = <<>> /\ Automatic /\ Len(trace) = 7 /\ errors' = errors
          BY <1>2, <3>3 DEF TraceInv, Walked
        <5>2. Automatic'
          BY <4>1, <5>1 DEF Automatic
        <5> QED BY <2>2, <5>1, <5>2
      <4>3. trace'[8].node = "finalize_auto"
        BY <2>2, <3>1, <3>3, <4>2
      <4> QED BY <4>1, <4>2, <4>3 DEF Walked, AgentNodes, LlmNodes
    <3>4. CASE n = "error_handler"
      <4>1. node' = "human_escalation"
        BY <1>2, <3>4 DEF Route, FinalizeAuto, Escalate, Edge
      <4>2. errors' # <<>> /\ Len(trace') = 8
        <5>1. errors # <<>> /\ Len(trace) = 7 /\ errors' = errors
          BY <1>2, <3>4 DEF TraceInv, Walked
        <5> QED BY <2>2, <5>1
      <4>3. trace'[8].node = "error_handler"
        BY <2>2, <3>1, <3>4, <4>2
      <4> QED BY <4>1, <4>2, <4>3 DEF Walked, AgentNodes, LlmNodes
    <3>5. CASE n = "human_escalation"
      <4>1. node' = "END" /\ disposition' = "escalated"
        BY <1>2, <3>5 DEF Route, FinalizeAuto, Escalate, Edge
      <4>2. ~Automatic'
        BY <4>1 DEF Automatic
      <4>3. CASE errors = <<>>
        <5>1. errors' = <<>> /\ Len(trace') = 8
          <6>1. Len(trace) = 7 /\ errors' = errors
            BY <1>2, <3>5, <4>3 DEF TraceInv, Walked
          <6> QED BY <2>2, <4>3, <6>1
        <5>2. trace'[8].node = "human_escalation"
          BY <2>2, <3>1, <3>5, <5>1
        <5> QED BY <4>1, <4>2, <5>1, <5>2 DEF Walked, AgentNodes, LlmNodes
      <4>4. CASE errors # <<>>
        <5>1. /\ errors' # <<>> /\ Len(trace) = 8 /\ Len(trace') = 9
              /\ trace[8].node = "error_handler"
          BY <1>2, <2>2, <3>5, <4>4 DEF TraceInv, Walked
        <5>2. 8 \in DOMAIN trace
          BY <2>2, <5>1
        <5>3. trace'[8].node = "error_handler" /\ trace'[9].node = "human_escalation"
          BY <2>2, <3>1, <3>5, <5>1, <5>2
        <5> QED BY <4>1, <5>1, <5>3 DEF Walked, AgentNodes, LlmNodes
      <4> QED BY <4>3, <4>4
    <3> QED BY <1>2, <3>2, <3>3, <3>4, <3>5
  <2> QED BY <2>1, <2>4, <2>5 DEF TraceInv
<1>3. CASE UNCHANGED vars
  BY <1>3 DEF vars, TraceInv, OnTrunk, Walked, FailureTraced, DoneBefore, Automatic
<1> QED BY <1>1, <1>2, <1>3 DEF Next, AgentsNext, Route, FinalizeAuto, Escalate

LEMMA TraceAlways == Spec => []TraceInv
  BY TraceInit, TraceStep, PTL DEF Spec

\* A run in which a node failed ends with a human, through the error handler, and
\* no node ran after the failure: whatever fails and whatever the model replies.
THEOREM FailuresEscalate == Spec => []FailureEscalates
<1>1. TraceInv => FailureEscalates
  <2> SUFFICES ASSUME TraceInv, Ended, errors # <<>>
               PROVE  /\ disposition = "escalated"
                      /\ Len(errors) = 1
                      /\ \E i \in DOMAIN trace : trace[i].node = "error_handler"
                      /\ \A n \in AgentNodes : output[n] # None =>
                           \E i, j \in DOMAIN trace :
                             /\ i < j
                             /\ trace[i] = [node |-> n, result |-> "done"]
                             /\ trace[j] = [node |-> errors[1], result |-> "error"]
    BY DEF FailureEscalates
  <2>1. disposition = "escalated" /\ Len(trace) = 9 /\ trace[8].node = "error_handler"
    BY DEF TraceInv, Walked, Ended
  <2>2. 8 \in DOMAIN trace
    BY <2>1 DEF TraceInv, TypeOK
  <2>3. Len(errors) = 1
    BY DEF TraceInv, FailureTraced
  <2>4. PICK j \in DOMAIN trace :
          /\ trace[j] = [node |-> errors[1], result |-> "error"]
          /\ \A n \in AgentNodes : output[n] # None => DoneBefore(n, j)
    BY DEF TraceInv, FailureTraced
  <2> QED BY <2>1, <2>2, <2>3, <2>4 DEF DoneBefore
<1> QED BY <1>1, TraceAlways, PTL

\* The audit trail of a finished run is complete and in order: one entry for every
\* node of the way it took, skipped and failed nodes included.
THEOREM AuditTrailComplete == Spec => []AuditTrail
<1>1. TraceInv => AuditTrail
  <2> SUFFICES ASSUME TraceInv, Ended
               PROVE  [i \in DOMAIN trace |-> trace[i].node] = Path
    BY DEF AuditTrail
  <2> DEFINE Branch == IF errors # <<>> THEN <<"error_handler", "human_escalation">>
                     ELSE IF Automatic THEN <<"finalize_auto">> ELSE <<"human_escalation">>
  <2>1. Path = Trunk \o Branch
    BY DEF Path, Trunk
  <2>2. DOMAIN trace = 1..Len(trace) /\ Len(trace) = 7 + Len(Branch)
    BY DEF TraceInv, TypeOK, Walked, Ended
  <2>3. \A i \in 1..7 : trace[i].node = Trunk[i]
    BY <2>2 DEF TraceInv, OnTrunk
  <2>4. \A i \in 1..Len(Branch) : trace[7 + i].node = Branch[i]
    BY DEF TraceInv, Walked, Ended
  <2>5. /\ DOMAIN Path = 1..(7 + Len(Branch))
        /\ \A i \in 1..7 : Path[i] = Trunk[i]
        /\ \A i \in 1..Len(Branch) : Path[7 + i] = Branch[i]
    BY <2>1 DEF Trunk
  <2>6. \A i \in DOMAIN trace : trace[i].node = Path[i]
    <3> SUFFICES ASSUME NEW i \in DOMAIN trace PROVE trace[i].node = Path[i]
      OBVIOUS
    <3>1. CASE i <= 7
      BY <2>2, <2>3, <2>5, <3>1
    <3>2. CASE i > 7
      <4>1. i - 7 \in 1..Len(Branch) /\ i = 7 + (i - 7)
        BY <2>2, <3>2
      <4> QED BY <2>4, <2>5, <4>1
    <3> QED BY <2>2, <3>1, <3>2
  <2>7. Path = [i \in DOMAIN Path |-> Path[i]]
    BY <2>1 DEF Trunk
  <2> HIDE DEF Branch
  <2> QED BY <2>2, <2>5, <2>6, <2>7
<1> QED BY <1>1, TraceAlways, PTL
-----------------------------------------------------------------------------
(* The graph implements its abstract specification *)

LEMMA RefinesInit == Init => Adjudicated!Init
  BY DEF Init, Adjudicated!Init, Outcome

\* An agent node goes on, fails, or makes the graph raise.
LEMMA RefinesAgents ==
  ASSUME TypeOK, AgentsNext
  PROVE  [Adjudicated!Next]_(Adjudicated!vars)
<1>1. PICK n \in AgentNodes : AgentStep(n)
  BY AgentsStep
<1>2. node = n /\ Outcome = "running"
  BY <1>1 DEF AgentStep, Skip, Runs, AgentNodes, LlmNodes, Outcome
<1>3. Edge[n] \notin {"END", "raised"}
  BY DEF Edge, AgentNodes, LlmNodes
<1>4. CASE Skip(n)
  BY <1>2, <1>3, <1>4 DEF Skip, Outcome, Adjudicated!vars
<1>5. ASSUME Runs(n), NEW r, Finish(n, r)
      PROVE  [Adjudicated!Next]_(Adjudicated!vars)
  <2>1. errors = <<>> /\ disposition' = disposition
    BY <1>5 DEF Runs, Finish
  <2>2. CASE ~r.raised
    <3>1. node' = Edge[n] /\ errors' = errors
      BY <1>5, <2>2 DEF Finish
    <3> QED BY <1>2, <1>3, <3>1 DEF Outcome, Adjudicated!vars
  <2>3. CASE r.raised /\ ~r.silent
    <3>1. node' = Edge[n] /\ errors' = Append(errors, n)
      BY <1>5, <2>3 DEF Finish
    <3>2. errors' # <<>>
      BY <2>1, <3>1 DEF TypeOK
    <3>3. Outcome' = "running"
      BY <1>3, <3>1 DEF Outcome
    <3>4. Adjudicated!AgentFails
      BY <1>2, <2>1, <3>2, <3>3 DEF Adjudicated!AgentFails
    <3> QED BY <3>4 DEF Adjudicated!Next
  <2>4. CASE r.raised /\ r.silent
    <3>1. node' = "raised" /\ errors' = errors
      BY <1>5, <2>4 DEF Finish
    <3>2. Outcome' = "raised"
      BY <3>1 DEF Outcome
    <3>3. Adjudicated!Raise
      BY <1>2, <2>1, <3>1, <3>2 DEF Adjudicated!Raise
    <3> QED BY <3>3 DEF Adjudicated!Next
  <2> QED BY <2>2, <2>3, <2>4
<1> QED BY <1>1, <1>4, <1>5 DEF AgentStep

\* The router is not seen from outside; a terminal node concludes the run.
LEMMA RefinesStep ==
  ASSUME TypeOK, Walked, [Next]_vars
  PROVE  [Adjudicated!Next]_(Adjudicated!vars)
<1>1. CASE AgentsNext
  BY <1>1, RefinesAgents
<1>2. CASE Route
  <2>1. Outcome = "running" /\ Outcome' = "running" /\ errors' = errors
    BY <1>2 DEF Route, Outcome
  <2> QED BY <2>1 DEF Adjudicated!vars
<1>3. CASE FinalizeAuto
  <2>1. node = "finalize_auto" /\ node' = "END" /\ UNCHANGED <<disposition, errors>>
    BY <1>3 DEF FinalizeAuto, Edge
  <2>2. errors = <<>> /\ Automatic
    BY <2>1 DEF Walked
  <2>3. Outcome = "running" /\ Outcome' = disposition
    BY <2>1 DEF Outcome
  <2>4. Adjudicated!Settle
    BY <2>1, <2>2, <2>3 DEF Adjudicated!Settle, Automatic
  <2> QED BY <2>4 DEF Adjudicated!Next
<1>4. CASE Escalate("error_handler")
  <2>1. /\ node = "error_handler" /\ node' = "human_escalation" /\ errors' = errors
    BY <1>4 DEF Escalate, Edge
  <2> QED BY <2>1 DEF Outcome, Adjudicated!vars
<1>5. CASE Escalate("human_escalation")
  <2>1. /\ node = "human_escalation" /\ node' = "END"
        /\ errors' = errors /\ disposition' = "escalated"
    BY <1>5 DEF Escalate, Edge
  <2>2. Outcome = "running" /\ Outcome' = "escalated"
    BY <2>1 DEF Outcome
  <2>3. Adjudicated!Escalate
    BY <2>1, <2>2 DEF Adjudicated!Escalate
  <2> QED BY <2>3 DEF Adjudicated!Next
<1>6. CASE UNCHANGED vars
  BY <1>6 DEF vars, Outcome, Adjudicated!vars
<1> QED BY <1>1, <1>2, <1>3, <1>4, <1>5, <1>6 DEF Next, AgentsNext

\* Seen from outside, a run of the graph is a run of Adjudication: it concludes
\* once, and after a failed agent only with an escalation.
THEOREM GraphImplements == Spec => ImplementsAdjudication
<1>1. TraceInv => TypeOK /\ Walked
  BY DEF TraceInv
<1>2. TypeOK /\ Walked /\ [Next]_vars => [Adjudicated!Next]_(Adjudicated!vars)
  BY RefinesStep
<1> QED BY <1>1, <1>2, RefinesInit, TraceAlways, PTL
        DEF Spec, ImplementsAdjudication, Adjudicated!Spec
=============================================================================
