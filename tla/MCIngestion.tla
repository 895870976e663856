---------------------------- MODULE MCIngestion ----------------------------
(* Small instances of Ingestion for TLC. *)
EXTENDS Ingestion

CONSTANTS p, q, a, b    \* the names

\* A text of n words, of which the k-th is "a" or "b" in turn, from w on.
Words(w, n) == [i \in 1 .. n |-> IF i % 2 = 1 THEN w ELSE IF w = "a" THEN "b" ELSE "a"]

Headed(h, n) == [title |-> h, body |-> Words("b", n),
                 heading |-> IF h = <<a>> THEN <<"a">>
                             ELSE IF h = <<b>> THEN <<"b">> ELSE <<"c">>]

\* Sections that fit, that fill a window exactly, that need another window for
\* one word, and long ones; with and without a preamble; titles that repeat, and
\* headings "part0" and "a:part1".
Bodies == {<<>>} \cup {<<Headed(h, m)>> : h \in {<<a>>, <<0>>}, m \in {0, 2, 4, 7}}
                 \cup {<<Headed(<<a>>, m), Headed(h, n)>> : m \in {1, 3}, n \in {0, 5},
                                                                  h \in {<<a>>, <<b>>, <<a, 1>>}}

MCDocuments(id) == {[doc_id |-> id, preamble |-> Words("a", n), sections |-> s] :
                      n \in {0, 4, 6}, s \in Bodies}

\* Two versions of one document may meet in a corpus.
MCCorpora == {<<d>> : d \in MCDocuments(<<p>>)}
             \cup {<<d, e>> : d \in MCDocuments(<<p>>),
                              e \in {f \in UNION {MCDocuments(i) : i \in {<<p>>, <<q>>, <<p, a>>}} :
                                       Len(f.preamble) # 6 /\ Len(f.sections) = 1}}
=============================================================================
