---------------------------- MODULE MCClaimGraph ----------------------------
(* Small instances of ClaimGraph for TLC. *)
EXTENDS ClaimGraph

\* As the records the code ships with, but the flag alone weighs on "sam"; "clt3"
\* scores by its prior claims and, with a high amount, by both.
MCRecords == [clt1 |-> [name |-> "jane", priors |-> 2, flagged |-> FALSE],
              clt2 |-> [name |-> "sam",  priors |-> 2, flagged |-> TRUE],
              clt3 |-> [name |-> "bob",  priors |-> 3, flagged |-> FALSE]]

MCInputs == {Missing, 0, 30000}

\* "a2" is a shortened id that fits both clauses; "x" fits none.
MCResembles == {<<"a2", "a">>, <<"a2", "b">>}

Chunks(s, ok) == Returned([citations |-> s, sufficient |-> ok])

MCRetrievals == {Raised, Chunks(<<>>, FALSE), Chunks(<<"a">>, TRUE),
                 Chunks(<<"a", "b">>, FALSE), Chunks(<<"a", "b">>, TRUE)}

\* A transport error without a message, as a timed-out search request has.
RetrievalTimesOut == MCRetrievals \cup {RaisedSilently}

NoObject == {FailsSilently, Unparsable, Array}

IntakeReply(a, p) == Object([claimed_amount |-> a, party |-> p])
CoverageReply(d, n, c) == Object([decision |-> d, confidence |-> n, citations |-> c])
SettlementReply(p, d, l) ==
  Object([payable_amount |-> p, deductible_applied |-> d, limit_applied |-> l])

MCReplies ==
  [intake |-> {IntakeReply(Missing, "sam"), IntakeReply(8000, "clt2"), IntakeReply(8000, Missing),
               IntakeReply(0, "clt3"), IntakeReply(-1, "jane"), IntakeReply(Bad, "clt2"),
               Unparsable},
   coverage_decision |->
     {CoverageReply(d, n, c) : d \in {"covered", "denied"}, n \in {70, NaN},
                               c \in {{"a"}, {"a2", "x"}, {"x"}}}
     \cup {CoverageReply(Bad, 69, {"a"}), CoverageReply("covered", Missing, Bad),
           CoverageReply("covered", 100, {"a", Bad})}
     \cup NoObject,
   fraud_risk |-> {Object([score |-> s]) : s \in {0, 30, 31, Bad}} \cup {Fails},
   settlement |->
     {SettlementReply(p, 0, l) : p \in {-1, 10000, 10001}, l \in {Missing, 0, 9500}}
     \cup {SettlementReply(Bad, 500, NaN), Unparsable},
   compliance |-> {Object([passed |-> v]) : v \in {TRUE, FALSE, Missing}}
                  \cup {Array, Unparsable}]
=============================================================================
