------------------------------- MODULE Agents -------------------------------
(***************************************************************************)
(* The decision agents (agents/*.py) and the intake extraction as          *)
(* functions of the LLM's reply.                                           *)
(*                                                                         *)
(* Confidences and scores are in hundredths.  A field of a JSON reply is a *)
(* value, Missing, or Bad (present but not of the expected form); a number *)
(* may also be NaN, which both JSON and float() accept.                    *)
(***************************************************************************)
EXTENDS Integers, Sequences, FiniteSets

CONSTANTS Missing, Bad, NaN,
          Resembles,        \* <<raw id, clause id>>: the lenient match accepts
          ClaimantRecords,  \* claimant id -> [name, priors, flagged]
          PadsUnparsable    \* the LLM client replaces unparsable text by an
                            \* object without fields (infra/providers/azure)

Odd == {Missing, Bad, NaN}

ASSUME OddAssumption == /\ Odd \cap Int = {}
                        /\ Missing \notin {Bad, NaN} /\ Bad # NaN
ASSUME PadsAssumption == PadsUnparsable \in BOOLEAN

\* What a field may hold where the agent expects a number.
Number(v) == v \in Odd \/ v \in Int

Elements(s) == {s[i] : i \in DOMAIN s}
AtLeast(a, b) == IF a >= b THEN a ELSE b
AtMost(a, b)  == IF a <= b THEN a ELSE b

\* What an agent returns when it raises, and when what it raises has an empty
\* message, which AgentError refuses (models/trace.py).
Raised == [raised |-> TRUE, silent |-> FALSE]
RaisedSilently == [raised |-> TRUE, silent |-> TRUE]
Returned(v) == [raised |-> FALSE, value |-> v]

-----------------------------------------------------------------------------
(* The LLM's reply: the call fails, with a message or without, or its       *)
(* content is no JSON, JSON that is no object, or an object with some       *)
(* fields.                                                                  *)

Fails == [kind |-> "fails"]
FailsSilently == [kind |-> "silent"]
Unparsable == [kind |-> "unparsable"]
Array == [kind |-> "array"]
Object(fields) == [kind |-> "object", fields |-> fields]

\* generate(), json.loads and the isinstance check leave an object, or raise.
Readable(reply) ==
  reply.kind = "object" \/ (reply.kind = "unparsable" /\ PadsUnparsable)

Failure(reply) == IF reply = FailsSilently THEN RaisedSilently ELSE Raised

\* The object's fields, names being the fields the agent reads.
Fields(reply, names) ==
  IF reply.kind = "object" THEN reply.fields ELSE [n \in names |-> Missing]

\* _clamp: float() fails on Bad; NaN loses against both bounds and gives 1.0.
Clamp(v, default) ==
  CASE v = Missing -> default
    [] v = Bad -> 50
    [] v = NaN -> 100
    [] OTHER -> AtLeast(0, AtMost(100, v))

-----------------------------------------------------------------------------
(* Intake (graph/nodes.py) *)

Facts(amount, party) == [amount |-> amount, party |-> party]

\* The party of a claim whose parties cannot be extracted.
Anonymous == "Claimant"

\* The amount and the first party: the model's, the amount found in the text
\* when the model gives none.  Missing stands for no amount, "" and "0"; a zero
\* written otherwise, as "0.00", is an amount.  The whole extraction is caught,
\* so intake survives any failure of the model; ClaimFacts is built outside of
\* the try and refuses a negative amount and NaN.
ExtractFacts(textAmount, reply) ==
  LET raw == Fields(reply, {"claimed_amount", "party"})
      usable == Readable(reply) /\ raw.claimed_amount # Bad /\ raw.party # Bad
      amount == IF usable /\ raw.claimed_amount # Missing THEN raw.claimed_amount
                ELSE IF textAmount # Missing THEN textAmount
                ELSE IF usable THEN 0 ELSE 5000
      party == IF usable /\ raw.party # Missing THEN raw.party ELSE Anonymous
  IN  IF amount = NaN \/ amount < 0 THEN Raised ELSE Returned(Facts(amount, party))

-----------------------------------------------------------------------------
(* Coverage (agents/coverage.py) *)

Decisions == {"covered", "denied", "partial"}

\* Confidence of an opinion nothing supports, and the cap on weak retrieval.
Unsupported == 10
WeakCap == 60

Opinion(decision, confidence, citations) ==
  [decision |-> decision, confidence |-> confidence, citations |-> citations]

\* The retrieved clauses a cited id may be taken for: itself if it is one of
\* them, else any one that resembles it (the loop runs over an unordered set).
Matches(raw, valid) ==
  IF raw \in valid THEN {raw} ELSE {id \in valid : <<raw, id>> \in Resembles}

\* The sets of citations that can be left of those the model gave.
FilterCitations(raws, valid) ==
  LET kept == {raw \in raws : Matches(raw, valid) # {}}
  IN  {cited \in SUBSET valid :
         \E pick \in [kept -> valid] :
           /\ \A raw \in kept : pick[raw] \in Matches(raw, valid)
           /\ cited = {pick[raw] : raw \in kept}}

\* Mutant of CapConfidence: weak retrieval does not count.
CapNothing(confidence, context) == confidence

CapConfidence(confidence, context) ==
  IF Len(context.citations) <= 1 THEN AtMost(confidence, WeakCap) ELSE confidence

CoverageFields == {"decision", "confidence", "citations"}

\* decide(): the possible results.  The citations of a reply are the ids of
\* the well-formed ones (_filter_citations drops the others); an id that is no
\* string raises.
DecideCoverage(context, reply) ==
  LET raw == Fields(reply, CoverageFields)
      raws == IF raw.citations \in Odd THEN {} ELSE raw.citations
      decision == IF raw.decision \in Decisions THEN raw.decision ELSE "partial"
      confidence == CapConfidence(Clamp(raw.confidence, 50), context)
      unsupported == Opinion("partial", Unsupported, {context.citations[1]})
  IN  IF ~context.sufficient THEN {Returned(unsupported)}
      ELSE IF ~Readable(reply) THEN {Failure(reply)}
      ELSE IF Bad \in raws THEN {Raised}
      ELSE {Returned(IF cited = {} THEN unsupported ELSE Opinion(decision, confidence, cited)) :
              cited \in FilterCitations(raws, Elements(context.citations))}

-----------------------------------------------------------------------------
(* Fraud and risk (agents/fraud_risk.py and the tools of mcp_servers)       *)

\* claims_history.lookup: the records are kept by claimant id.  Nothing found
\* scores as no history.
Lookup(id) ==
  IF id \in DOMAIN ClaimantRecords THEN ClaimantRecords[id]
  ELSE [name |-> id, priors |-> 0, flagged |-> FALSE]

\* fraud_signals.score: high amount, prior claims, flagged.
ToolScore(amount, history) ==
  AtMost(100, (IF amount > 25000 THEN 20 ELSE 0)
              + (IF history.priors >= 3 THEN 30 ELSE 0)
              + (IF history.flagged THEN 40 ELSE 0))

\* Mutant of AssessRisk: the model's score alone.
AssessByModel(facts, reply) ==
  IF Readable(reply) THEN Returned(Clamp(Fields(reply, {"score"}).score, 50)) ELSE Failure(reply)

\* assess(): the tool's score is a floor under the model's.  What is looked up
\* is the name of the first party.
AssessRisk(facts, reply) ==
  IF Readable(reply)
  THEN Returned(AtLeast(Clamp(Fields(reply, {"score"}).score, 50),
                        ToolScore(facts.amount, Lookup(facts.party))))
  ELSE Failure(reply)

-----------------------------------------------------------------------------
(* Settlement (agents/settlement.py) *)

\* _to_decimal after dict.get; Decimal("NaN") is a Decimal.
ToDecimal(v, default) ==
  CASE v = Missing -> default
    [] v = Bad -> 0
    [] OTHER -> v

Proposal(payable, deductible, limit) ==
  [payable |-> payable, deductible |-> deductible, limit |-> limit]

\* The model's figures, the payable amount cut to the limit.  Comparing with NaN
\* raises, and SettlementProposal refuses NaN and negative figures.
SettleFigures(amount, raw) ==
  LET payable == ToDecimal(raw.payable_amount, 0)
      deductible == ToDecimal(raw.deductible_applied, 0)
      limit == ToDecimal(raw.limit_applied, amount)
      cut == IF limit > 0 /\ payable > limit THEN limit ELSE payable
  IN  IF NaN \in {payable, deductible, limit} THEN Raised
      ELSE IF cut < 0 \/ deductible < 0 \/ limit < 0 THEN Raised
      ELSE Returned(Proposal(cut, deductible, limit))

SettlementFields == {"payable_amount", "deductible_applied", "limit_applied"}

\* Mutant of ComputeSettlement: a denial is settled like any other claim.
SettleAnyDecision(amount, opinion, reply) ==
  IF Readable(reply) THEN SettleFigures(amount, Fields(reply, SettlementFields))
  ELSE Failure(reply)

\* compute(): a denial pays nothing, and the model is not asked.
ComputeSettlement(amount, opinion, reply) ==
  IF opinion.decision = "denied" THEN Returned(Proposal(0, 0, amount))
  ELSE IF Readable(reply) THEN SettleFigures(amount, Fields(reply, SettlementFields))
  ELSE Failure(reply)

-----------------------------------------------------------------------------
(* Compliance (agents/compliance.py) *)

\* review(): bool() of the field, which defaults to True and is False only for
\* false, null, 0 and the like; any other value, such as "false", is True.
ReviewCompliance(reply) ==
  IF Readable(reply) THEN Returned(Fields(reply, {"passed"}).passed # FALSE)
  ELSE Failure(reply)
=============================================================================
