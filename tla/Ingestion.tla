------------------------------ MODULE Ingestion ------------------------------
(***************************************************************************)
(* The part of RagPipeline.ingest (rag/pipeline.py) that runs before its   *)
(* first await: rag/chunker.py cuts every document into sections and every *)
(* section into windows of words, then each chunk goes into the pipeline's *)
(* lookup table and into the lexical index (rag/bm25.py).                  *)
(*                                                                         *)
(* A window is kept as the range of words it takes from its section; a     *)
(* word is a term of the lexical index, and what it reads like is left out.*)
(* The strings that clause ids are made of are kept apart at their colons: *)
(* "pol-1:Exclusions:part0" is <<pol-1, Exclusions, 0>>, where a number n  *)
(* stands for the segment "partn", also in a heading that happens to have  *)
(* it.                                                                     *)
(***************************************************************************)
EXTENDS Naturals, Sequences, FiniteSets

CONSTANTS MaxTokens,    \* rag_chunk_tokens: words in a window, at most
          Overlap,      \* rag_chunk_overlap: words a window repeats
          Terms,        \* the words of the corpus
          Names,        \* what stands between the colons of ids and headings, but "partn"
          Corpora       \* the corpora that may be ingested, each a sequence of documents

\* The settings do not check this; the defaults are 450 and 50.
ASSUME WindowAssumption == MaxTokens \in Nat /\ Overlap \in Nat /\ Overlap < MaxTokens

Segments == Names \cup Nat
Text == Seq(Segments) \ {<<>>}

\* A document: its id, the words before the first heading, and its headed
\* sections.  A heading counts as a string and by its words.  SourceDoc.text is
\* never empty, but it may be blank.
Document == [doc_id: Text,
             preamble: Seq(Terms),
             sections: Seq([title: Text, heading: Seq(Terms) \ {<<>>}, body: Seq(Terms)])]

ASSUME CorporaAssumption == \A corpus \in Corpora : corpus \in Seq(Document)

VARIABLES corpus,   \* the documents ingested
          doc,      \* the document being cut, a position in corpus
          section,  \* the section being cut, a position in Sections(corpus[doc])
          start,    \* the first word not in a window yet, less the overlap (from 0)
          parts,    \* the windows cut from the section so far
          chunks,   \* all_chunks
          indexed,  \* how many of them are in the tables
          lookup,   \* clause id -> chunk: RagPipeline._chunks and BM25Index._docs
          df        \* BM25Index._df: term -> how many indexed chunks have it

vars == <<corpus, doc, section, start, parts, chunks, indexed, lookup, df>>

-----------------------------------------------------------------------------
(* Sections, windows and chunks *)

\* _split_sections: the preamble, unless it is blank and headings follow, and
\* then each heading with its body.  The chunk's text repeats the heading.
Sections(d) ==
  LET titled == [i \in DOMAIN d.sections |->
                   [path  |-> d.sections[i].title,
                    words |-> d.sections[i].heading \o d.sections[i].body]]
  IN  IF d.preamble # <<>> \/ d.sections = <<>>
      THEN <<[path |-> <<>>, words |-> d.preamble]>> \o titled
      ELSE titled

Section == Sections(corpus[doc])[section]
Size == Len(Section.words)

\* The end of the window that starts at s, in a section of n words.
End(s, n) == IF s + MaxTokens < n THEN s + MaxTokens ELSE n

\* clause_base: the document's id and the section's title.
Base(d, s) == corpus[d].doc_id \o Sections(corpus[d])[s].path

\* Section s of document d, cut at the given windows.  A section in one window
\* has its base for clause id, the windows of the others add their numbers.
Chunks(d, s, windows) ==
  [i \in DOMAIN windows |->
     [id   |-> IF Len(windows) = 1 THEN Base(d, s) ELSE Append(Base(d, s), i - 1),
      doc  |-> d, section |-> s, from |-> windows[i].from, to |-> windows[i].to]]

\* The terms of a chunk's text (Counter(tokens), without the counts).
TermsOf(chunk) ==
  LET words == Sections(corpus[chunk.doc])[chunk.section].words
  IN  {words[i] : i \in chunk.from + 1 .. chunk.to}

-----------------------------------------------------------------------------
Init == /\ corpus \in Corpora
        /\ doc = 1 /\ section = 1 /\ start = 0
        /\ parts = <<>> /\ chunks = <<>> /\ indexed = 0
        /\ lookup = <<>>
        /\ df = [t \in Terms |-> 0]

Cutting == doc <= Len(corpus)

\* Mutant of CutWindow: the overlap is taken after the last window as well.
CutWindowAgain ==
  /\ Cutting /\ Size > MaxTokens /\ start < Size
  /\ parts' = Append(parts, [from |-> start, to |-> End(start, Size)])
  /\ start' = End(start, Size) - Overlap
  /\ UNCHANGED <<corpus, doc, section, chunks, indexed, lookup, df>>

\* Mutant of CutWindow: only full windows are kept.
CutFullWindow ==
  /\ Cutting /\ Size > MaxTokens /\ start < Size
  /\ parts' = IF start + MaxTokens <= Size
              THEN Append(parts, [from |-> start, to |-> start + MaxTokens]) ELSE parts
  /\ start' = IF End(start, Size) < Size THEN End(start, Size) - Overlap ELSE Size
  /\ UNCHANGED <<corpus, doc, section, chunks, indexed, lookup, df>>

\* One turn of the loop of _split_by_tokens.
CutWindow ==
  /\ Cutting /\ Size > MaxTokens /\ start < Size
  /\ parts' = Append(parts, [from |-> start, to |-> End(start, Size)])
  /\ start' = IF End(start, Size) < Size THEN End(start, Size) - Overlap ELSE Size
  /\ UNCHANGED <<corpus, doc, section, chunks, indexed, lookup, df>>

\* Mutants of Emit: the windows share the section's clause id, and one turn
\* too many over the sections.
EmitUnnumbered ==
  /\ Cutting /\ (Size <= MaxTokens \/ start >= Size)
  /\ LET new == Chunks(doc, section, IF Size <= MaxTokens THEN <<[from |-> 0, to |-> Size]>>
                                                           ELSE parts)
     IN  chunks' = chunks \o [i \in DOMAIN new |-> [new[i] EXCEPT !.id = Base(doc, section)]]
  /\ IF section < Len(Sections(corpus[doc]))
     THEN section' = section + 1 /\ doc' = doc
     ELSE section' = 1 /\ doc' = doc + 1
  /\ start' = 0 /\ parts' = <<>>
  /\ UNCHANGED <<corpus, indexed, lookup, df>>

EmitPastTheEnd ==
  /\ Cutting /\ (Size <= MaxTokens \/ start >= Size)
  /\ chunks' = chunks \o Chunks(doc, section,
                                IF Size <= MaxTokens THEN <<[from |-> 0, to |-> Size]>>
                                                     ELSE parts)
  /\ IF section <= Len(Sections(corpus[doc]))
     THEN section' = section + 1 /\ doc' = doc
     ELSE section' = 1 /\ doc' = doc + 1
  /\ start' = 0 /\ parts' = <<>>
  /\ UNCHANGED <<corpus, indexed, lookup, df>>

\* A section that fits is one chunk, even when it is blank; a longer one is
\* done when its loop ends.  Then comes the next section, or document.
Emit ==
  /\ Cutting /\ (Size <= MaxTokens \/ start >= Size)
  /\ chunks' = chunks \o Chunks(doc, section,
                                IF Size <= MaxTokens THEN <<[from |-> 0, to |-> Size]>>
                                                     ELSE parts)
  /\ IF section < Len(Sections(corpus[doc]))
     THEN section' = section + 1 /\ doc' = doc
     ELSE section' = 1 /\ doc' = doc + 1
  /\ start' = 0 /\ parts' = <<>>
  /\ UNCHANGED <<corpus, indexed, lookup, df>>

\* Mutant of Add: the terms of a chunk that is replaced stay counted.
AddOnTop ==
  /\ ~Cutting /\ indexed < Len(chunks)
  /\ LET new == chunks[indexed + 1]
     IN  /\ df' = [t \in Terms |-> df[t] + (IF t \in TermsOf(new) THEN 1 ELSE 0)]
         /\ lookup' = [id \in DOMAIN lookup \cup {new.id} |->
                         IF id = new.id THEN new ELSE lookup[id]]
  /\ indexed' = indexed + 1
  /\ UNCHANGED <<corpus, doc, section, start, parts, chunks>>

\* The next chunk goes into _chunks and BM25Index.add: one with the same
\* clause id is replaced, and its terms are no longer counted.
Add ==
  /\ ~Cutting /\ indexed < Len(chunks)
  /\ LET new == chunks[indexed + 1]
         Old(t) == new.id \in DOMAIN lookup /\ t \in TermsOf(lookup[new.id])
     IN  /\ df' = [t \in Terms |-> (IF Old(t) THEN df[t] - 1 ELSE df[t])
                                     + (IF t \in TermsOf(new) THEN 1 ELSE 0)]
         /\ lookup' = [id \in DOMAIN lookup \cup {new.id} |->
                         IF id = new.id THEN new ELSE lookup[id]]
  /\ indexed' = indexed + 1
  /\ UNCHANGED <<corpus, doc, section, start, parts, chunks>>

Next == CutWindow \/ Emit \/ Add

Spec == Init /\ [][Next]_vars

-----------------------------------------------------------------------------
(* Properties *)

Window == [from: Nat, to: Nat]

ClauseId == Seq(Segments)

Chunk == [id: ClauseId, doc: Nat, section: Nat, from: Nat, to: Nat]

TypeOK ==
  /\ corpus \in Seq(Document)
  /\ doc \in 1 .. Len(corpus) + 1
  /\ section \in Nat \ {0}
  /\ Cutting => section \in DOMAIN Sections(corpus[doc])
  /\ start \in Nat
  /\ Cutting => start <= Size
  /\ parts \in Seq(Window)
  /\ chunks \in Seq(Chunk)
  /\ indexed \in 0 .. Len(chunks)
  /\ DOMAIN lookup \subseteq ClauseId /\ \A id \in DOMAIN lookup : lookup[id] \in Chunk
  /\ df \in [Terms -> Nat]

\* No text is dropped between the windows or at the tail of a section
\* (chunker.py:32): the words before the loop's position are all in a window.
NoTextDropped ==
  Cutting /\ Size > MaxTokens =>
    \A i \in 1 .. (IF start = Size THEN Size ELSE IF start = 0 THEN 0 ELSE start + Overlap) :
      \E j \in DOMAIN parts : parts[j].from < i /\ i <= parts[j].to

\* The windows of a section move on: each brings words the one before it did
\* not have and repeats exactly the overlap, so the loop comes to its end.
WindowsAdvance ==
  /\ \A i \in DOMAIN parts : parts[i].to - parts[i].from \in 1 .. MaxTokens
  /\ \A i \in DOMAIN parts : i > 1 => /\ parts[i].to > parts[i-1].to
                                      /\ parts[i].from = parts[i-1].to - Overlap

\* The string y reads like a window of a section with the base x.
IsPart(y, x) == /\ Len(y) = Len(x) + 1 /\ y[Len(y)] \in Nat
                /\ \A i \in DOMAIN x : y[i] = x[i]

\* No two sections have a base in common, and none reads like a window of one
\* that is cut.
DistinctTitles ==
  \A d, e \in DOMAIN corpus :
    \A s \in DOMAIN Sections(corpus[d]), t \in DOMAIN Sections(corpus[e]) :
      /\ Base(d, s) = Base(e, t) => d = e /\ s = t
      /\ IsPart(Base(e, t), Base(d, s)) => Len(Sections(corpus[d])[s].words) <= MaxTokens

Ingested == ~Cutting /\ indexed = Len(chunks)

\* When no section has the title of another, or that of one of its windows
\* (a heading "part0" under a preamble that is cut), every word of the corpus
\* can be looked up by a clause id; otherwise the later section overwrites the
\* earlier (chunker.py:43-47, pipeline.py:64).
EveryWordCitable ==
  Ingested /\ DistinctTitles =>
    \A d \in DOMAIN corpus : \A s \in DOMAIN Sections(corpus[d]) :
      \A i \in 1 .. Len(Sections(corpus[d])[s].words) :
        \E id \in DOMAIN lookup :
          /\ lookup[id].doc = d /\ lookup[id].section = s
          /\ lookup[id].from < i /\ i <= lookup[id].to

\* The document frequencies are exact, chunks that replaced others included.
\* One that is too high makes the weight of its term negative, and a chunk that
\* has the term is then not found by it (bm25.py:64-73).
FrequenciesExact ==
  \A t \in Terms : df[t] = Cardinality({id \in DOMAIN lookup : t \in TermsOf(lookup[id])})
=============================================================================
