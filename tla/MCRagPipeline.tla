---------------------------- MODULE MCRagPipeline ----------------------------
(* Small instances of RagPipeline for TLC. *)
EXTENDS RagPipeline

\* The second release drops clause 1, rewrites clause 2 and adds clause 5.
MCCorpus == <<[id \in 1 .. 4 |-> "first"],
              [id \in 2 .. 5 |-> IF id = 2 THEN "second" ELSE "first"]>>

\* A clause may be nearest and match as well, or match and be far away.
MCQueries == {[similar |-> s, matches |-> m] :
                s \in {<<1, 2, 3, 4, 5>>, <<5, 4, 3, 2, 1>>, <<2, 5, 1, 3, 4>>},
                m \in {<<>>, <<4>>, <<1, 2>>, <<3, 5, 2>>}}

MCFaults == [k \in FaultKinds |-> 1]

\* 0.35, of 10 * 238266.
MCTau == 833931
MCMarks == {0, 2000000}
=============================================================================
