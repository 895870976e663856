--------------------------- MODULE EvalGateProofs ---------------------------
(* Theorems about EvalGate: for every golden set and every release, what the *)
(* scorecard counts and what an open gate says about the cases.              *)
EXTENDS EvalGate, FiniteSetTheorems, TLAPS

-----------------------------------------------------------------------------
(* The results of a release *)

\* A release does something possible with each golden case.
ReleaseOK ==
  /\ golden \in Seq(Cases)
  /\ DOMAIN release = DOMAIN golden
  /\ \A i \in DOMAIN golden : release[i] \in Outcomes /\ Possible(golden[i], release[i])

\* How the fields of a case's result hang together.
Shape(r) ==
  /\ r.correct <=> r.actual = r.expected
  /\ r.passed <=> r.correct /\ r.faithful /\ r.tools

LEMMA ResultShape ==
  ASSUME NEW case \in Cases, NEW o \in Outcomes
  PROVE  Shape(CaseResult(case, o))
<1> DEFINE ran == o.end # "raised"
           r == CaseResult(case, o)
           actual == IF ran THEN o.disposition ELSE "none"
           correct == ran /\ o.disposition = case.disposition
           faithful == ran /\ ~o.hallucinated
           tools == ran /\ (case.tools = "none" \/ o.tooled)
<1>1. /\ r.expected = case.disposition /\ r.actual = actual /\ r.correct = correct
      /\ r.faithful = faithful /\ r.tools = tools
      /\ r.passed = (correct /\ faithful /\ tools)
  BY DEF CaseResult
<1>2. case.disposition # "none"
  BY DEF Cases, Dispositions
<1>3. (actual = case.disposition) <=> correct
  BY <1>2
<1> HIDE DEF r, actual, faithful, tools, correct, ran
<1> QED BY <1>1, <1>3 DEF Shape, r

LEMMA ReleaseInit == Init => ReleaseOK
<1> SUFFICES ASSUME Init PROVE ReleaseOK
  OBVIOUS
<1>1. PICK first \in [1 .. MaxRegressed -> Outcomes] :
        release = [i \in DOMAIN golden |->
                     IF i <= MaxRegressed THEN first[i] ELSE Right(golden[i])]
  BY DEF Init
<1>2. golden \in Seq(Cases) /\ \A i \in DOMAIN golden : Possible(golden[i], release[i])
  BY GoldenAssumption DEF Init
<1>3. DOMAIN golden = 1 .. Len(golden) /\ Len(golden) \in Nat
  BY <1>2
<1>4. \A i \in DOMAIN golden : golden[i] \in Cases
  BY <1>2
<1>5. \A case \in Cases : Right(case) \in Outcomes
  BY DEF Right, Outcomes, Cases
<1>6. ASSUME NEW i \in DOMAIN golden PROVE release[i] \in Outcomes
  <2>1. release[i] = IF i <= MaxRegressed THEN first[i] ELSE Right(golden[i])
    BY <1>1, <1>6
  <2>2. i <= MaxRegressed => i \in 1 .. MaxRegressed
    BY <1>3, <1>6, RegressedAssumption
  <2> QED BY <1>1, <1>4, <1>5, <1>6, <2>1, <2>2
<1>7. DOMAIN release = DOMAIN golden
  BY <1>1
<1> QED BY <1>2, <1>6, <1>7 DEF ReleaseOK

-----------------------------------------------------------------------------
(* What the scorecard counts *)

Whole == 1 .. Len(golden)
Result(i) == CaseResult(golden[i], release[i])
Passing == {i \in Whole : Result(i).passed}
Correct == {i \in Whole : Result(i).correct}
Faithful == {i \in Whole : Result(i).faithful}
Tooled == {i \in Whole : Result(i).tools}
TruePos == {i \in Whole : Result(i).actual = "escalated" /\ Result(i).expected = "escalated"}
FalsePos == {i \in Whole : Result(i).actual = "escalated" /\ Result(i).expected # "escalated"}
FalseNeg == {i \in Whole : Result(i).actual # "escalated" /\ Result(i).expected = "escalated"}

\* The results of the first n cases.
Prefix(n) == [i \in 1 .. n |-> Result(i)]

LEMMA WholeRun ==
  ASSUME ReleaseOK
  PROVE  /\ DOMAIN golden = Whole /\ Len(golden) \in Nat
         /\ AllResults = Prefix(Len(golden))
         /\ Len(AllResults) = Len(golden) /\ DOMAIN AllResults = Whole
<1>1. DOMAIN golden = Whole /\ Len(golden) \in Nat
  BY DEF ReleaseOK, Whole
<1>2. AllResults = Prefix(Len(golden))
  BY <1>1 DEF AllResults, Prefix, Whole, Result
<1>3. DOMAIN AllResults = 1 .. Len(golden)
  BY <1>1 DEF AllResults, Whole
<1> QED BY <1>1, <1>2, <1>3 DEF Whole

LEMMA Card ==
  ASSUME ReleaseOK
  PROVE  LET card == Scorecard(AllResults)
             n == Cardinality(Whole)
         IN  /\ card.total = n /\ n = Len(golden)
             /\ card.passed = Cardinality(Passing)
             /\ card.failed = n - Cardinality(Passing)
             /\ card.decision_accuracy = Frac(Cardinality(Correct), n)
             /\ card.citation_faithfulness = Frac(Cardinality(Faithful), n)
             /\ card.tool_call_accuracy = Frac(Cardinality(Tooled), n)
             /\ card.escalation_precision
                  = Ratio(Cardinality(TruePos), Cardinality(TruePos) + Cardinality(FalsePos))
             /\ card.escalation_recall
                  = Ratio(Cardinality(TruePos), Cardinality(TruePos) + Cardinality(FalseNeg))
<1>1. Len(AllResults) = Cardinality(Whole) /\ Cardinality(Whole) = Len(golden)
  <2>1. Len(golden) \in Nat /\ Len(AllResults) = Len(golden)
    BY WholeRun
  <2>2. \A n \in Nat : Cardinality(1 .. n) = n
    <3> SUFFICES ASSUME NEW n \in Nat PROVE Cardinality(1 .. n) = n
      OBVIOUS
    <3>1. 1 \in Int /\ n \in Int
      OBVIOUS
    <3>2. Cardinality(1 .. n) = IF 1 > n THEN 0 ELSE n - 1 + 1
      BY <3>1, FS_Interval, Zenon
    <3> QED BY <3>2
  <2> QED BY <2>1, <2>2 DEF Whole
<1>2. DOMAIN AllResults = Whole /\ \A i \in Whole : AllResults[i] = Result(i)
  BY WholeRun DEF AllResults, Result
<1>3. /\ {i \in DOMAIN AllResults : AllResults[i].passed} = Passing
      /\ {i \in DOMAIN AllResults : AllResults[i].correct} = Correct
      /\ {i \in DOMAIN AllResults : AllResults[i].faithful} = Faithful
      /\ {i \in DOMAIN AllResults : AllResults[i].tools} = Tooled
  BY <1>2 DEF Passing, Correct, Faithful, Tooled
<1>4. /\ {i \in DOMAIN AllResults : /\ AllResults[i].actual = "escalated"
                                    /\ AllResults[i].expected = "escalated"} = TruePos
      /\ {i \in DOMAIN AllResults : /\ AllResults[i].actual = "escalated"
                                    /\ AllResults[i].expected # "escalated"} = FalsePos
      /\ {i \in DOMAIN AllResults : /\ AllResults[i].actual # "escalated"
                                    /\ AllResults[i].expected = "escalated"} = FalseNeg
  BY <1>2 DEF TruePos, FalsePos, FalseNeg
<1> QED BY <1>1, <1>3, <1>4 DEF Scorecard, Count

LEMMA Counts ==
  ASSUME ReleaseOK
  PROVE  /\ Cardinality(Whole) \in Nat
         /\ \A S \in SUBSET Whole : /\ IsFiniteSet(S)
                                    /\ Cardinality(S) \in 0 .. Cardinality(Whole)
                                    /\ Cardinality(S) = Cardinality(Whole) => S = Whole
<1>1. IsFiniteSet(Whole)
  BY WholeRun, FS_Interval DEF Whole
<1> QED BY <1>1, FS_Subset, FS_CardinalityType

\* Each case has a result, which hangs together.
LEMMA CaseOf ==
  ASSUME ReleaseOK
  PROVE  \A i \in Whole : /\ golden[i] \in Cases /\ release[i] \in Outcomes
                          /\ Possible(golden[i], release[i]) /\ Shape(Result(i))
<1> SUFFICES ASSUME NEW i \in Whole
             PROVE  /\ golden[i] \in Cases /\ release[i] \in Outcomes
                    /\ Possible(golden[i], release[i]) /\ Shape(Result(i))
  OBVIOUS
<1>1. i \in DOMAIN golden
  BY WholeRun
<1>2. golden[i] \in Cases /\ release[i] \in Outcomes /\ Possible(golden[i], release[i])
  BY <1>1 DEF ReleaseOK
<1> QED BY <1>2, ResultShape DEF Result

-----------------------------------------------------------------------------
(* What an open gate says *)

\* Every case has called its tools, and nine in ten are right, and faithful.
LEMMA GateSays ==
  ASSUME ReleaseOK, GateOpen(Scorecard(AllResults))
  PROVE  /\ Cardinality(Whole) > 0 /\ Tooled = Whole
         /\ 10 * Cardinality(Correct) >= 9 * Cardinality(Whole)
         /\ 10 * Cardinality(Faithful) >= 9 * Cardinality(Whole)
<1> DEFINE n == Cardinality(Whole)
<1>1. /\ n > 0
      /\ Meets(Frac(Cardinality(Correct), n), 90)
      /\ Meets(Frac(Cardinality(Faithful), n), 90)
      /\ Meets(Frac(Cardinality(Tooled), n), 100)
  BY Card DEF GateOpen
<1>2. /\ 100 * Cardinality(Correct) >= 90 * n
      /\ 100 * Cardinality(Faithful) >= 90 * n
      /\ 100 * Cardinality(Tooled) >= 100 * n
  BY <1>1 DEF Meets, Frac
<1>3. /\ n \in Nat
      /\ Cardinality(Correct) \in 0 .. n /\ Cardinality(Faithful) \in 0 .. n
      /\ Cardinality(Tooled) \in 0 .. n /\ (Cardinality(Tooled) = n => Tooled = Whole)
  BY Counts DEF Correct, Faithful, Tooled
<1> HIDE DEF n
<1>4. Cardinality(Tooled) = n
  BY <1>2, <1>3
<1>5. 10 * Cardinality(Correct) >= 9 * n /\ 10 * Cardinality(Faithful) >= 9 * n
  BY <1>2, <1>3
<1> QED BY <1>1, <1>3, <1>4, <1>5 DEF n

\* A case that raised has no correct tool calls, and one that ended in error
\* has not made the last agent's: the gate is closed on its release.
LEMMA OpenMeansUnbroken ==
  ASSUME ReleaseOK, GateOpen(Scorecard(AllResults)), NEW i \in DOMAIN golden
  PROVE  release[i].end # "raised" /\ (golden[i].tools = "last" => release[i].end = "done")
<1>1. i \in Whole /\ i \in Tooled
  BY WholeRun, GateSays
<1>2. Result(i).tools
  BY <1>1 DEF Tooled
<1>3. release[i].end # "raised" /\ (golden[i].tools = "none" \/ release[i].tooled)
  BY <1>2 DEF Result, CaseResult
<1>4. Possible(golden[i], release[i])
  BY <1>1, CaseOf
<1> QED BY <1>3, <1>4 DEF Possible

\* One case in ten may be wrong and another one unfaithful.
LEMMA OpenMeansMostPass ==
  ASSUME ReleaseOK, GateOpen(Scorecard(AllResults))
  PROVE  Cardinality(Whole) > 0 /\ 10 * Cardinality(Passing) >= 8 * Cardinality(Whole)
<1>1. Passing = Correct \cap Faithful
  <2>1. \A i \in Whole : Result(i).tools
    BY GateSays DEF Tooled
  <2>2. \A i \in Whole : Result(i).passed <=> Result(i).correct /\ Result(i).faithful
    BY <2>1, CaseOf DEF Shape
  <2> QED BY <2>2 DEF Passing, Correct, Faithful
<1>2. /\ Cardinality(Whole) \in Nat
      /\ Correct \cup Faithful \in SUBSET Whole
      /\ Correct \in SUBSET Whole /\ Faithful \in SUBSET Whole /\ Passing \in SUBSET Whole
  BY Counts DEF Correct, Faithful, Passing
<1>3. /\ IsFiniteSet(Correct) /\ IsFiniteSet(Faithful)
      /\ Cardinality(Correct \cup Faithful) \in 0 .. Cardinality(Whole)
      /\ Cardinality(Correct) \in Nat /\ Cardinality(Faithful) \in Nat
      /\ Cardinality(Passing) \in Nat
  BY <1>2, Counts
<1>4. Cardinality(Correct \cup Faithful)
        = Cardinality(Correct) + Cardinality(Faithful) - Cardinality(Passing)
  BY <1>1, <1>3, FS_Union
<1> QED BY <1>2, <1>3, <1>4, GateSays

\* A release all of whose cases pass has nothing to close the gate.
LEMMA AllPassOpens ==
  ASSUME ReleaseOK, Scorecard(AllResults).total > 0, Scorecard(AllResults).failed = 0
  PROVE  GateOpen(Scorecard(AllResults))
<1> DEFINE n == Cardinality(Whole)
<1>1. n \in Nat /\ n > 0 /\ n - Cardinality(Passing) = 0
  BY Card, Counts
<1>2. Passing = Whole
  <2>1. Passing \in SUBSET Whole
    BY DEF Passing
  <2>2. Cardinality(Passing) \in 0 .. n /\ (Cardinality(Passing) = n => Passing = Whole)
    BY <2>1, Counts
  <2> HIDE DEF n
  <2>3. Cardinality(Passing) = n
    BY <1>1, <2>2
  <2> QED BY <2>2, <2>3
<1>3. ASSUME NEW i \in Whole
      PROVE  /\ Result(i).correct /\ Result(i).faithful /\ Result(i).tools
             /\ Result(i).actual = Result(i).expected
  <2>1. Result(i).passed /\ Shape(Result(i))
    BY <1>2, CaseOf DEF Passing
  <2> QED BY <2>1 DEF Shape
<1>4. Correct = Whole /\ Faithful = Whole /\ Tooled = Whole
  BY <1>3 DEF Correct, Faithful, Tooled
<1>5. FalsePos = {} /\ FalseNeg = {}
  BY <1>3 DEF FalsePos, FalseNeg
<1>6. Cardinality(FalsePos) = 0 /\ Cardinality(FalseNeg) = 0
  BY <1>5, FS_EmptySet
<1> DEFINE t == Cardinality(TruePos)
<1>7. t \in Nat
  <2>1. TruePos \in SUBSET Whole
    BY DEF TruePos
  <2> QED BY <2>1, <1>1, Counts
<1>8. Meets(Ratio(t, t + 0), 80)
  <2> HIDE DEF t
  <2>1. CASE t = 0
    <3>1. Ratio(t, t + 0).num = 1 /\ Ratio(t, t + 0).den = 1
      BY <2>1 DEF Ratio, Frac
    <3> QED BY <3>1 DEF Meets
  <2>2. CASE t # 0
    <3>1. Ratio(t, t + 0).num = t /\ Ratio(t, t + 0).den = t
      BY <1>7, <2>2 DEF Ratio, Frac
    <3> QED BY <1>7, <3>1 DEF Meets
  <2> QED BY <2>1, <2>2
<1>9. Meets(Frac(n, n), 90) /\ Meets(Frac(n, n), 100)
  <2> HIDE DEF n
  <2>1. Frac(n, n).num = n /\ Frac(n, n).den = n
    BY DEF Frac
  <2> QED BY <1>1, <2>1 DEF Meets
<1>10. /\ Scorecard(AllResults).total > 0
       /\ Scorecard(AllResults).decision_accuracy = Frac(n, n)
       /\ Scorecard(AllResults).citation_faithfulness = Frac(n, n)
       /\ Scorecard(AllResults).tool_call_accuracy = Frac(n, n)
       /\ Scorecard(AllResults).escalation_precision = Ratio(t, t + 0)
       /\ Scorecard(AllResults).escalation_recall = Ratio(t, t + 0)
  BY <1>4, <1>6, Card
<1> HIDE DEF n, t
<1> QED BY <1>8, <1>9, <1>10 DEF GateOpen

\* The fractions of a scorecard are at most one, and what passed is right.
LEMMA CardBounds ==
  ASSUME ReleaseOK, NEW c, c = Scorecard(AllResults)
  PROVE  /\ c.passed + c.failed = c.total
         /\ c.passed <= c.decision_accuracy.num
         /\ \A f \in {c.decision_accuracy, c.citation_faithfulness, c.tool_call_accuracy,
                      c.escalation_precision, c.escalation_recall} : f.num <= f.den
<1> DEFINE n == Cardinality(Whole)
<1>1. /\ n \in Nat
      /\ Cardinality(Passing) \in 0 .. n /\ Cardinality(Correct) \in 0 .. n
      /\ Cardinality(Faithful) \in 0 .. n /\ Cardinality(Tooled) \in 0 .. n
      /\ Cardinality(TruePos) \in 0 .. n /\ Cardinality(FalsePos) \in 0 .. n
      /\ Cardinality(FalseNeg) \in 0 .. n
  BY Counts DEF Passing, Correct, Faithful, Tooled, TruePos, FalsePos, FalseNeg
<1>2. Cardinality(Passing) <= Cardinality(Correct)
  <2>1. Passing \in SUBSET Correct
    BY CaseOf DEF Passing, Correct, Shape
  <2>2. IsFiniteSet(Correct)
    BY Counts DEF Correct
  <2> QED BY <2>1, <2>2, FS_Subset
<1>3. /\ c.total = n /\ c.passed = Cardinality(Passing) /\ c.failed = n - Cardinality(Passing)
      /\ c.decision_accuracy = Frac(Cardinality(Correct), n)
      /\ c.citation_faithfulness = Frac(Cardinality(Faithful), n)
      /\ c.tool_call_accuracy = Frac(Cardinality(Tooled), n)
      /\ c.escalation_precision
           = Ratio(Cardinality(TruePos), Cardinality(TruePos) + Cardinality(FalsePos))
      /\ c.escalation_recall
           = Ratio(Cardinality(TruePos), Cardinality(TruePos) + Cardinality(FalseNeg))
  BY Card
<1> HIDE DEF n
<1>4. \A a \in 0 .. n : Frac(a, n).num <= Frac(a, n).den
  BY <1>1 DEF Frac
<1>5. ASSUME NEW a \in Nat, NEW b \in Nat PROVE Ratio(a, a + b).num <= Ratio(a, a + b).den
  BY DEF Ratio, Frac
<1>6. c.passed + c.failed = c.total
  BY <1>1, <1>3
<1>7. c.passed <= c.decision_accuracy.num
  BY <1>2, <1>3 DEF Frac
<1>8. /\ c.escalation_precision.num <= c.escalation_precision.den
      /\ c.escalation_recall.num <= c.escalation_recall.den
  <2>1. /\ Cardinality(TruePos) \in Nat /\ Cardinality(FalsePos) \in Nat
        /\ Cardinality(FalseNeg) \in Nat
    BY <1>1
  <2>2. /\ Ratio(Cardinality(TruePos), Cardinality(TruePos) + Cardinality(FalsePos)).num
             <= Ratio(Cardinality(TruePos), Cardinality(TruePos) + Cardinality(FalsePos)).den
        /\ Ratio(Cardinality(TruePos), Cardinality(TruePos) + Cardinality(FalseNeg)).num
             <= Ratio(Cardinality(TruePos), Cardinality(TruePos) + Cardinality(FalseNeg)).den
    BY <1>5, <2>1
  <2> QED BY <1>3, <2>2
<1>9. /\ c.decision_accuracy.num <= c.decision_accuracy.den
      /\ c.citation_faithfulness.num <= c.citation_faithfulness.den
      /\ c.tool_call_accuracy.num <= c.tool_call_accuracy.den
  BY <1>1, <1>3, <1>4
<1> QED BY <1>6, <1>7, <1>8, <1>9

-----------------------------------------------------------------------------
(* The requests and CI *)

\* What is kept and served is the scorecard of the whole golden set.
Kept ==
  /\ cached \in {NoCard, Scorecard(AllResults)}
  /\ \A q \in Requests : /\ request[q].pc \in {"new", "running", "served", "unavailable"}
                         /\ request[q].pc = "served" => request[q].card = Scorecard(AllResults)

\* Each request has the results of the first cases, one for each.
OwnResults ==
  /\ DOMAIN request = Requests
  /\ \A q \in Requests : \E n \in 0 .. Len(golden) : request[q].results = Prefix(n)

Decided ==
  /\ ci \in {"not run", "0", "1"}
  /\ ci = "0" => GateOpen(Scorecard(AllResults))

GInv == ReleaseOK /\ Kept /\ OwnResults /\ Decided

LEMMA Prefixes ==
  ASSUME ReleaseOK, NEW n \in 0 .. Len(golden)
  PROVE  /\ Len(Prefix(n)) = n
         /\ Prefix(0) = <<>>
         /\ Append(Prefix(n), Result(n + 1)) = Prefix(n + 1)
<1>1. n \in Nat
  BY WholeRun
<1>2. DOMAIN Prefix(n) = 1 .. n
  BY DEF Prefix
<1>3. Prefix(n) \in Seq({Result(i) : i \in 1 .. n})
  BY <1>1 DEF Prefix
<1>4. Len(Prefix(n)) = n
  BY <1>1, <1>2, <1>3
<1>5. Prefix(0) = <<>>
  BY DEF Prefix
<1> DEFINE more == Append(Prefix(n), Result(n + 1))
<1>6. DOMAIN more = 1 .. n + 1 /\ \A i \in 1 .. n + 1 : more[i] = Result(i)
  <2>1. more = [i \in 1 .. Len(Prefix(n)) + 1 |->
                  IF i = Len(Prefix(n)) + 1 THEN Result(n + 1) ELSE Prefix(n)[i]]
    BY <1>3
  <2>2. more = [i \in 1 .. n + 1 |-> IF i = n + 1 THEN Result(n + 1) ELSE Prefix(n)[i]]
    BY <1>4, <2>1
  <2>3. \A i \in 1 .. n : Prefix(n)[i] = Result(i)
    BY DEF Prefix
  <2> HIDE DEF more
  <2> QED BY <1>1, <2>2, <2>3
<1>7. more = [i \in 1 .. n + 1 |-> more[i]]
  BY <1>3, <1>6
<1> HIDE DEF more
<1>8. more = Prefix(n + 1)
  BY <1>6, <1>7 DEF Prefix
<1> QED BY <1>4, <1>5, <1>8 DEF more

LEMMA GateInit == Init => GInv
<1> SUFFICES ASSUME Init PROVE GInv
  OBVIOUS
<1>1. ReleaseOK
  BY ReleaseInit
<1>2. /\ cached = NoCard /\ ci = "not run"
      /\ request = [q \in Requests |-> [pc |-> "new", results |-> <<>>, card |-> NoCard]]
  BY DEF Init
<1>3. 0 \in 0 .. Len(golden)
  BY <1>1, WholeRun
<1>4. <<>> = Prefix(0)
  BY <1>1, <1>3, Prefixes
<1>5. DOMAIN request = Requests
      /\ \A q \in Requests : request[q].pc = "new" /\ request[q].results = <<>>
  BY <1>2
<1> QED BY <1>1, <1>2, <1>3, <1>4, <1>5 DEF GInv, Kept, OwnResults, Decided

\* A step of a request, given the first n results.
LEMMA RequestStep ==
  ASSUME ReleaseOK, Kept, OwnResults, Decided, NEW q \in Requests, NEW n \in 0 .. Len(golden),
         NEW pc \in {"running", "served", "unavailable"}, NEW card,
         Update(q, pc, Prefix(n), card), pc = "served" => card = Scorecard(AllResults),
         UNCHANGED <<golden, release, ci>>, cached' \in {NoCard, Scorecard(AllResults)}
  PROVE  GInv'
<1>1. AllResults' = AllResults /\ ReleaseOK' /\ \A m : Prefix(m)' = Prefix(m)
  BY DEF AllResults, ReleaseOK, Prefix, Result
<1>2. Scorecard(AllResults)' = Scorecard(AllResults)
  BY <1>1
<1> DEFINE now == [pc |-> pc, results |-> Prefix(n), card |-> card]
<1>3. /\ DOMAIN request' = Requests
      /\ \A p \in Requests : request'[p] = IF p = q THEN now ELSE request[p]
  BY DEF Update, OwnResults
<1>4. now.pc = pc /\ now.results = Prefix(n) /\ now.card = card
  OBVIOUS
<1> HIDE DEF now
<1>5. Kept'
  <2>1. ASSUME NEW p \in Requests
        PROVE  /\ request'[p].pc \in {"new", "running", "served", "unavailable"}
               /\ request'[p].pc = "served" => request'[p].card = Scorecard(AllResults)
    <3>1. CASE p = q
      BY <1>3, <1>4, <3>1
    <3>2. CASE p # q
      BY <1>3, <3>2 DEF Kept
    <3> QED BY <3>1, <3>2
  <2> QED BY <1>2, <2>1 DEF Kept
<1>6. OwnResults'
  <2>1. ASSUME NEW p \in Requests
        PROVE  \E m \in 0 .. Len(golden) : request'[p].results = Prefix(m)
    <3>1. CASE p = q
      BY <1>3, <1>4, <3>1
    <3>2. CASE p # q
      BY <1>3, <3>2 DEF OwnResults
    <3> QED BY <3>1, <3>2
  <2>2. \A p \in Requests : \E m \in (0 .. Len(golden))' : (request[p].results = Prefix(m))'
    BY <1>1, <2>1
  <2> QED BY <1>3, <2>2 DEF OwnResults
<1>7. Decided'
  BY <1>2 DEF Decided
<1> QED BY <1>1, <1>5, <1>6, <1>7 DEF GInv

LEMMA GateStep == GInv /\ [Next]_vars => GInv'
<1> SUFFICES ASSUME GInv, [Next]_vars PROVE GInv'
  OBVIOUS
<1> USE DEF GInv
<1>1. 0 \in 0 .. Len(golden) /\ <<>> = Prefix(0)
  <2>1. 0 \in 0 .. Len(golden)
    BY WholeRun
  <2> QED BY <2>1, Prefixes
<1>2. ASSUME NEW q \in Requests, Arrive(q) PROVE GInv'
  <2>1. CASE cached # NoCard
    <3>1. Update(q, "served", Prefix(0), cached) /\ cached = Scorecard(AllResults)
      BY <1>1, <1>2, <2>1 DEF Arrive, Kept
    <3> QED BY <1>1, <1>2, <3>1, RequestStep DEF Arrive, Kept
  <2>2. CASE cached = NoCard
    <3>1. Update(q, "running", Prefix(0), NoCard)
      BY <1>1, <1>2, <2>2 DEF Arrive
    <3> QED BY <1>1, <1>2, <3>1, RequestStep DEF Arrive, Kept
  <2> QED BY <2>1, <2>2
<1>3. ASSUME NEW q \in Requests, RunCase(q) PROVE GInv'
  <2>1. PICK n \in 0 .. Len(golden) : request[q].results = Prefix(n)
    BY DEF OwnResults
  <2>2. Len(Prefix(n)) = n /\ Append(Prefix(n), Result(n + 1)) = Prefix(n + 1)
    BY Prefixes
  <2>3. n + 1 <= Len(golden) /\ Update(q, "running", Append(Prefix(n), Result(n + 1)), NoCard)
    BY <1>3, <2>1, <2>2 DEF RunCase, Result
  <2>4. n + 1 \in 0 .. Len(golden)
    BY <2>3, WholeRun
  <2>5. Update(q, "running", Prefix(n + 1), NoCard)
    BY <2>2, <2>3
  <2> QED BY <1>3, <2>4, <2>5, RequestStep DEF RunCase, Kept
<1>4. ASSUME NEW q \in Requests, Finish(q) PROVE GInv'
  <2>1. PICK n \in 0 .. Len(golden) : request[q].results = Prefix(n)
    BY DEF OwnResults
  <2>2. Len(Prefix(n)) = n
    BY Prefixes
  <2>3. n = Len(golden)
    BY <1>4, <2>1, <2>2 DEF Finish
  <2>4. request[q].results = AllResults
    BY <2>1, <2>3, WholeRun
  <2>5. Update(q, "served", Prefix(0), Scorecard(AllResults)) /\ cached' = Scorecard(AllResults)
    BY <1>1, <1>4, <2>4 DEF Finish
  <2> QED BY <1>1, <1>4, <2>5, RequestStep DEF Finish
<1>5. ASSUME NEW q \in Requests, Unavailable(q) PROVE GInv'
  <2>1. Update(q, "unavailable", Prefix(0), NoCard)
    BY <1>1, <1>5 DEF Unavailable
  <2> QED BY <1>1, <1>5, <2>1, RequestStep DEF Unavailable, Kept
<1>6. CASE RunInCI
  <2>1. AllResults' = AllResults /\ ReleaseOK' /\ \A m : Prefix(m)' = Prefix(m)
    BY <1>6 DEF RunInCI, AllResults, ReleaseOK, Prefix, Result
  <2>2. Kept' /\ OwnResults'
    BY <1>6, <2>1 DEF RunInCI, Kept, OwnResults
  <2>3. ci' \in {"0", "1"} /\ (ci' = "0" => GateOpen(Scorecard(AllResults)))
    BY <1>6 DEF RunInCI
  <2>4. Decided'
    BY <2>1, <2>3 DEF Decided
  <2> QED BY <2>1, <2>2, <2>4
<1>7. CASE UNCHANGED vars
  <2>1. AllResults' = AllResults /\ ReleaseOK' /\ \A m : Prefix(m)' = Prefix(m)
    BY <1>7 DEF vars, AllResults, ReleaseOK, Prefix, Result
  <2> QED BY <1>7, <2>1 DEF vars, Kept, OwnResults, Decided
<1> QED BY <1>2, <1>3, <1>4, <1>5, <1>6, <1>7 DEF Next

LEMMA GateAlways == Spec => []GInv
  BY GateInit, GateStep, PTL DEF Spec

\* The counts of every scorecard that is served or kept add up, and no request
\* has more results than there are cases.
THEOREM GateTypeCorrect == Spec => []TypeOK
<1>1. ASSUME GInv PROVE TypeOK
  <2>1. \A c \in Served \cup ({cached} \ {NoCard}) : c = Scorecard(AllResults)
    BY <1>1 DEF GInv, Kept, Served
  <2>2. /\ ci \in {"not run", "0", "1"}
        /\ \A q \in Requests : request[q].pc \in {"new", "running", "served", "unavailable"}
    BY <1>1 DEF GInv, Kept, Decided
  <2>3. ReleaseOK
    BY <1>1 DEF GInv
  <2>4. ASSUME NEW q \in Requests PROVE Len(request[q].results) <= Len(golden)
    <3>1. PICK n \in 0 .. Len(golden) : request[q].results = Prefix(n)
      BY <1>1 DEF GInv, OwnResults
    <3>2. Len(Prefix(n)) = n
      BY <2>3, Prefixes
    <3> QED BY <2>3, <3>1, <3>2, WholeRun
  <2> QED BY <2>1, <2>2, <2>3, <2>4, CardBounds DEF TypeOK
<1> QED BY <1>1, GateAlways, PTL

\* Whatever the golden set, CI passes no release whose graph raises on a case,
\* nor one of whose agents fails on a case that expects the last agent's call.
THEOREM BrokenNeverMerges == Spec => []BrokenAgentStopsMerge
<1>1. GInv => BrokenAgentStopsMerge
  BY OpenMeansUnbroken DEF GInv, Decided, BrokenAgentStopsMerge
<1> QED BY <1>1, GateAlways, PTL

\* Whatever the size of the golden set, a release that CI passes gives at least
\* eight cases in ten the disposition and tool calls expected and no citation
\* made up; its coverage decisions may all be wrong.
THEOREM MergedMostlyPass == Spec => []MergeMeansMostPass
<1>1. ASSUME GInv, ci = "0"
      PROVE  LET fine == {i \in DOMAIN golden :
                            /\ release[i].disposition = golden[i].disposition
                            /\ ~release[i].hallucinated
                            /\ golden[i].tools = "none" \/ release[i].tooled}
             IN  golden # <<>> /\ 10 * Cardinality(fine) >= 8 * Len(golden)
  <2> DEFINE fine == {i \in DOMAIN golden :
                        /\ release[i].disposition = golden[i].disposition
                        /\ ~release[i].hallucinated
                        /\ golden[i].tools = "none" \/ release[i].tooled}
  <2>1. ReleaseOK /\ GateOpen(Scorecard(AllResults))
    BY <1>1 DEF GInv, Decided
  <2>2. /\ DOMAIN golden = Whole /\ Cardinality(Whole) = Len(golden)
        /\ Cardinality(Whole) \in Nat /\ Cardinality(Whole) > 0
        /\ 10 * Cardinality(Passing) >= 8 * Cardinality(Whole)
    BY <2>1, WholeRun, Card, Counts, OpenMeansMostPass
  <2>3. Passing \subseteq fine
    <3> SUFFICES ASSUME NEW i \in Passing PROVE i \in fine
      OBVIOUS
    <3>1. i \in Whole /\ Result(i).passed
      BY DEF Passing
    <3>2. /\ release[i].disposition = golden[i].disposition /\ ~release[i].hallucinated
          /\ golden[i].tools = "none" \/ release[i].tooled
      BY <3>1 DEF Result, CaseResult
    <3> QED BY <2>2, <3>1, <3>2
  <2>4. fine \in SUBSET Whole
    BY <2>2
  <2> HIDE DEF fine
  <2>5. IsFiniteSet(fine) /\ Cardinality(fine) \in Nat
    BY <2>1, <2>4, Counts
  <2>6. Cardinality(Passing) \in Nat /\ Cardinality(Passing) <= Cardinality(fine)
    BY <2>3, <2>5, FS_Subset, FS_CardinalityType
  <2>7. golden # <<>>
    BY <2>2
  <2>8. 10 * Cardinality(fine) >= 8 * Len(golden)
    BY <2>2, <2>5, <2>6
  <2> QED BY <2>7, <2>8 DEF fine
<1>2. GInv => MergeMeansMostPass
  BY <1>1 DEF MergeMeansMostPass
<1> QED BY <1>2, GateAlways, PTL

\* A golden set that passes entirely opens the gate, whatever it expects.
THEOREM PerfectPasses == Spec => []PerfectOpens
<1>1. GInv => PerfectOpens
  BY AllPassOpens DEF GInv, PerfectOpens
<1> QED BY <1>1, GateAlways, PTL

\* However overlapping requests interleave and fail, every scorecard kept or
\* served counts each golden case once, and its gate is the one CI applied.
THEOREM CardsComplete == Spec => []ServedIsComplete
<1>1. GInv => ServedIsComplete
  BY DEF GInv, Kept, Decided, ServedIsComplete, Served
<1> QED BY <1>1, GateAlways, PTL
=============================================================================
