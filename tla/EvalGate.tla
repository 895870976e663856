------------------------------ MODULE EvalGate ------------------------------
(***************************************************************************)
(* The evaluation gate (evals/): the golden cases are run one after the    *)
(* other through the graph with scripted models, the results are added up  *)
(* into a scorecard, and five thresholds decide whether CI may merge.  The *)
(* API runs the same cases on the first GET /v1/evals/latest, each request *)
(* that finds no scorecard on its own, and keeps the scorecard.            *)
(*                                                                         *)
(* The models are scripted, so a release of the code handles each case the *)
(* same way every time.                                                    *)
(***************************************************************************)
EXTENDS Naturals, Sequences, FiniteSets

CONSTANTS Requests,     \* GET /v1/evals/latest requests to one API process
          GoldenSets,   \* golden data sets: sequences of cases
          MaxRegressed  \* bound on the cases that a release may get wrong

Dispositions == {"auto_approved", "auto_denied", "escalated"}

(***************************************************************************)
(* A case says which disposition to expect, perhaps which coverage         *)
(* decision, and which tool calls: none at all, some, or "last", that is   *)
(* also regs.search, which the last agent calls.                           *)
(***************************************************************************)
Cases == [disposition: Dispositions, coverage: BOOLEAN, tools: {"none", "some", "last"}]

ASSUME GoldenAssumption == GoldenSets \subseteq Seq(Cases)

ASSUME RegressedAssumption == MaxRegressed \in Nat

(***************************************************************************)
(* What the graph makes of a case: end is "raised" when it raises, "error" *)
(* when an agent failed and the error path escalated, "done" otherwise.    *)
(* coverage: whether the opinion, if any, decides as the case expects.     *)
(* hallucinated: the coverage opinion cites a clause that was not          *)
(* retrieved.  tooled: the agents called every tool the case expects.      *)
(***************************************************************************)
Outcomes == [end: {"raised", "error", "done"}, disposition: Dispositions,
             coverage: {"none", "right", "wrong"},
             hallucinated: BOOLEAN, tooled: BOOLEAN]

\* An agent that fails leaves no tool calls in its trace step, and the agents
\* after it are skipped: then the last one has called no tool.
Possible(case, o) ==
  /\ o.end = "raised" => o.coverage = "none" /\ ~o.tooled
  /\ o.end = "done" => o.coverage # "none"
  /\ o.end # "done" => o.disposition = "escalated" /\ (case.tools = "last" => ~o.tooled)
  /\ o.coverage = "none" => ~o.hallucinated

Right(case) == [end |-> "done", disposition |-> case.disposition,
                coverage |-> "right", hallucinated |-> FALSE, tooled |-> TRUE]

VARIABLES golden,       \* evals/golden/cases.json
          release,      \* what the code under test makes of each golden case
          request,      \* Requests -> where it is, its results, its answer
          cached,       \* app.state.eval_scorecard
          ci            \* exit code of run_evals.py, once it has run

vars == <<golden, release, request, cached, ci>>

-----------------------------------------------------------------------------
(* _run_case *)

\* Mutant of CaseResult: missing tools do not matter once a case escalates.
CaseResultLenient(case, o) ==
  LET ran == o.end # "raised"
      correct == ran /\ o.disposition = case.disposition
      faithful == ran /\ ~o.hallucinated
      tools == ran /\ (case.tools = "none" \/ o.tooled \/ o.disposition = "escalated")
  IN  [expected |-> case.disposition, actual |-> IF ran THEN o.disposition ELSE "none",
       coverage |-> IF case.coverage THEN o.coverage ELSE "none",
       correct |-> correct, faithful |-> faithful, tools |-> tools,
       passed |-> correct /\ faithful /\ tools]

\* The coverage decision is compared, and the comparison goes no further: it
\* decides neither whether the case passed nor anything in the scorecard.
CaseResult(case, o) ==
  LET ran == o.end # "raised"
      correct == ran /\ o.disposition = case.disposition
      faithful == ran /\ ~o.hallucinated
      tools == ran /\ (case.tools = "none" \/ o.tooled)
  IN  [expected |-> case.disposition, actual |-> IF ran THEN o.disposition ELSE "none",
       coverage |-> IF case.coverage THEN o.coverage ELSE "none",
       correct |-> correct, faithful |-> faithful, tools |-> tools,
       passed |-> correct /\ faithful /\ tools]

\* What _run_all returns when it gets through all the cases.
AllResults == [i \in DOMAIN golden |-> CaseResult(golden[i], release[i])]

-----------------------------------------------------------------------------
(* compute_scorecard, with ratios kept as fractions *)

Frac(a, b) == [num |-> a, den |-> b]

\* Mutants of Ratio: the fraction is upside down; nothing to count counts as
\* nothing right.
RatioFlipped(a, b) == IF a = 0 THEN Frac(1, 1) ELSE Frac(b, a)

RatioZero(a, b) == IF b = 0 THEN Frac(0, 1) ELSE Frac(a, b)

Ratio(a, b) == IF b = 0 THEN Frac(1, 1) ELSE Frac(a, b)

\* _check: the metric is not below the threshold, a percentage.
Meets(f, percent) == 100 * f.num >= percent * f.den

Count(results, Is(_)) == Cardinality({i \in DOMAIN results : Is(results[i])})

\* Mutant of GateOpen: hallucinated citations are reported only.
GateUncited(card) ==
  /\ card.total > 0
  /\ Meets(card.decision_accuracy, 90)
  /\ Meets(card.tool_call_accuracy, 100)
  /\ Meets(card.escalation_precision, 80)
  /\ Meets(card.escalation_recall, 80)

GateOpen(card) ==
  /\ card.total > 0
  /\ Meets(card.decision_accuracy, 90)
  /\ Meets(card.citation_faithfulness, 90)
  /\ Meets(card.tool_call_accuracy, 100)
  /\ Meets(card.escalation_precision, 80)
  /\ Meets(card.escalation_recall, 80)

Scorecard(results) ==
  LET n == Len(results)
      passed == Count(results, LAMBDA r : r.passed)
      escalated(r) == r.actual = "escalated"
      tp == Count(results, LAMBDA r : escalated(r) /\ r.expected = "escalated")
      fp == Count(results, LAMBDA r : escalated(r) /\ r.expected # "escalated")
      fn == Count(results, LAMBDA r : ~escalated(r) /\ r.expected = "escalated")
  IN  [total |-> n, passed |-> passed, failed |-> n - passed,
       decision_accuracy     |-> Frac(Count(results, LAMBDA r : r.correct), n),
       citation_faithfulness |-> Frac(Count(results, LAMBDA r : r.faithful), n),
       tool_call_accuracy    |-> Frac(Count(results, LAMBDA r : r.tools), n),
       escalation_precision  |-> Ratio(tp, tp + fp),
       escalation_recall     |-> Ratio(tp, tp + fn)]

NoCard == [total |-> 0]

-----------------------------------------------------------------------------
(* The golden set and the release *)

\* The order of the cases makes no difference to a scorecard: those a release
\* may get wrong come first.
Init ==
  /\ golden \in GoldenSets
  /\ \E first \in [1 .. MaxRegressed -> Outcomes] :
       release = [i \in DOMAIN golden |->
                    IF i <= MaxRegressed THEN first[i] ELSE Right(golden[i])]
  /\ \A i \in DOMAIN golden : Possible(golden[i], release[i])
  /\ request = [q \in Requests |-> [pc |-> "new", results |-> <<>>, card |-> NoCard]]
  /\ cached = NoCard
  /\ ci = "not run"

-----------------------------------------------------------------------------
(* GET /v1/evals/latest, and run_evals.py in CI *)

Update(q, pc, results, card) ==
  request' = [request EXCEPT ![q] = [pc |-> pc, results |-> results, card |-> card]]

\* The cache is looked at once, before the cases are run.
Arrive(q) ==
  /\ request[q].pc = "new"
  /\ IF cached # NoCard THEN Update(q, "served", <<>>, cached)
                        ELSE Update(q, "running", <<>>, NoCard)
  /\ UNCHANGED <<golden, release, cached, ci>>

\* Mutant of RunCase: the scorecard is kept as it grows.
RunCasePublishing(q) ==
  LET results == request[q].results
      i == Len(results) + 1
      more == Append(results, CaseResult(golden[i], release[i]))
  IN  /\ request[q].pc = "running" /\ i <= Len(golden)
      /\ Update(q, "running", more, NoCard)
      /\ cached' = Scorecard(more)
      /\ UNCHANGED <<golden, release, ci>>

\* The await of one case of _run_all; other requests go on in between.
RunCase(q) ==
  LET results == request[q].results
      i == Len(results) + 1
  IN  /\ request[q].pc = "running" /\ i <= Len(golden)
      /\ Update(q, "running", Append(results, CaseResult(golden[i], release[i])), NoCard)
      /\ UNCHANGED <<golden, release, cached, ci>>

Finish(q) ==
  LET card == Scorecard(request[q].results)
  IN  /\ request[q].pc = "running" /\ Len(request[q].results) = Len(golden)
      /\ cached' = card
      /\ Update(q, "served", <<>>, card)
      /\ UNCHANGED <<golden, release, ci>>

\* The data set cannot be loaded, or a case raises before its graph runs: the
\* results so far are dropped.
Unavailable(q) ==
  /\ request[q].pc = "running" /\ Len(request[q].results) < Len(golden)
  /\ Update(q, "unavailable", <<>>, NoCard)
  /\ UNCHANGED <<golden, release, cached, ci>>

\* main, in a process of its own: what it cannot load or run ends it with a
\* traceback and code 1.
RunInCI ==
  /\ ci = "not run"
  /\ ci' \in {IF GateOpen(Scorecard(AllResults)) THEN "0" ELSE "1", "1"}
  /\ UNCHANGED <<golden, release, request, cached>>

Next == \/ RunInCI
        \/ \E q \in Requests : Arrive(q) \/ RunCase(q) \/ Finish(q) \/ Unavailable(q)

Spec == Init /\ [][Next]_vars

-----------------------------------------------------------------------------
(* Properties *)

Served == {request[q].card : q \in {r \in Requests : request[r].pc = "served"}}

\* Every result is counted once, by what passed and by what escalated.
TypeOK ==
  /\ ci \in {"not run", "0", "1"}
  /\ \A q \in Requests : /\ request[q].pc \in {"new", "running", "served", "unavailable"}
                         /\ Len(request[q].results) <= Len(golden)
  /\ \A c \in Served \cup ({cached} \ {NoCard}) :
       /\ c.passed + c.failed = c.total
       /\ c.passed <= c.decision_accuracy.num
       /\ \A f \in {c.decision_accuracy, c.citation_faithfulness, c.tool_call_accuracy,
                    c.escalation_precision, c.escalation_recall} : f.num <= f.den

\* CI never passes a release whose graph raises on a case, nor one of whose
\* agents fails on a case that expects the last agent's tool call, as every
\* case of the repository's golden set does: not even when each case it fails
\* on expects the escalation that the error path then makes (run_evals.py:9
\* has CI exit 1 on a regression).
BrokenAgentStopsMerge ==
  ci = "0" => \A i \in DOMAIN golden :
                /\ release[i].end # "raised"
                /\ golden[i].tools = "last" => release[i].end = "done"

\* Whichever metrics its misses are spread over, a release that CI passes gives
\* at least eight cases in ten the disposition and the tool calls that the
\* golden set expects, with no citation made up.  Nothing follows about the
\* coverage decisions, which the set expects too: CaseResult.passed, the
\* scorecard and the gate leave them out.
MergeMeansMostPass ==
  ci = "0" => LET fine == {i \in DOMAIN golden :
                             /\ release[i].disposition = golden[i].disposition
                             /\ ~release[i].hallucinated
                             /\ golden[i].tools = "none" \/ release[i].tooled}
              IN  golden # <<>> /\ 10 * Cardinality(fine) >= 8 * Len(golden)

\* A golden set that passes entirely opens the gate, also one in which no case
\* expects an escalation or all do.
PerfectOpens ==
  LET card == Scorecard(AllResults)
  IN  card.total > 0 /\ card.failed = 0 => GateOpen(card)

\* However the cases of overlapping requests interleave, and whichever of them
\* fail half-way, each scorecard that is kept or served counts every golden
\* case once, and has its gate open if CI passed the release.
ServedIsComplete ==
  \A c \in Served \cup ({cached} \ {NoCard}) :
    c = Scorecard(AllResults) /\ (ci = "0" => GateOpen(c))
=============================================================================
