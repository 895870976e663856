--------------------------- MODULE IngestionProofs ---------------------------
(* Theorems about Ingestion: for every window size, every overlap below it *)
(* and every corpus, the windows of a section advance and lose no word of  *)
(* it, the words of sections with titles of their own can be cited, and    *)
(* the term frequencies of the lexical index are exact.                    *)
EXTENDS Ingestion, FiniteSetTheorems, TLAPS

Titled == [path: Seq(Segments), words: Seq(Terms)]

LEMMA FunctionIsSeq ==
  ASSUME NEW S, NEW n \in Nat, NEW f \in [1 .. n -> S]
  PROVE  f \in Seq(S) /\ Len(f) = n
  OBVIOUS

LEMMA ElementOfSeq ==
  ASSUME NEW S, NEW s \in Seq(S), NEW i \in DOMAIN s
  PROVE  s[i] \in S
  OBVIOUS

\* A document has at least one section, and each is a title and its words.
LEMMA SectionsShape ==
  ASSUME NEW d \in Document
  PROVE  Sections(d) \in Seq(Titled) /\ Len(Sections(d)) \in Nat \ {0}
<1> DEFINE titled == [i \in DOMAIN d.sections |->
                        [path  |-> d.sections[i].title,
                         words |-> d.sections[i].heading \o d.sections[i].body]]
           first == [path |-> <<>>, words |-> d.preamble]
<1>1. d.sections \in Seq([title: Text, heading: Seq(Terms) \ {<<>>}, body: Seq(Terms)])
      /\ d.preamble \in Seq(Terms)
  BY DEF Document
<1>2. \A i \in DOMAIN d.sections : /\ d.sections[i].title \in Seq(Segments)
                                   /\ d.sections[i].heading \in Seq(Terms)
                                   /\ d.sections[i].body \in Seq(Terms)
  <2> SUFFICES ASSUME NEW i \in DOMAIN d.sections
               PROVE  /\ d.sections[i].title \in Seq(Segments)
                      /\ d.sections[i].heading \in Seq(Terms)
                      /\ d.sections[i].body \in Seq(Terms)
    OBVIOUS
  <2>1. d.sections[i] \in [title: Text, heading: Seq(Terms) \ {<<>>}, body: Seq(Terms)]
    BY <1>1, ElementOfSeq
  <2>2. /\ d.sections[i].title \in Text
        /\ d.sections[i].heading \in Seq(Terms) \ {<<>>} /\ d.sections[i].body \in Seq(Terms)
    BY <2>1
  <2> QED BY <2>2 DEF Text
<1>3. \A i \in DOMAIN d.sections : titled[i] \in Titled
  <2> SUFFICES ASSUME NEW i \in DOMAIN d.sections PROVE titled[i] \in Titled
    OBVIOUS
  <2>1. d.sections[i].heading \o d.sections[i].body \in Seq(Terms)
    BY <1>2
  <2>2. titled[i] = [path  |-> d.sections[i].title,
                     words |-> d.sections[i].heading \o d.sections[i].body]
    OBVIOUS
  <2> QED BY <1>2, <2>1, <2>2 DEF Titled
<1>4. titled \in Seq(Titled) /\ Len(titled) = Len(d.sections)
  <2>1. DOMAIN titled = 1 .. Len(d.sections) /\ Len(d.sections) \in Nat
    BY <1>1
  <2>2. titled = [i \in 1 .. Len(d.sections) |-> titled[i]]
    BY <2>1
  <2>3. \A i \in 1 .. Len(d.sections) : titled[i] \in Titled
    BY <1>3, <2>1
  <2> HIDE DEF titled
  <2>4. titled \in [1 .. Len(d.sections) -> Titled]
    BY <2>2, <2>3
  <2> QED BY <2>1, <2>4, FunctionIsSeq
<1>5. first \in Titled
  <2>1. <<>> \in Seq(Segments)
    OBVIOUS
  <2> QED BY <1>1, <2>1 DEF Titled
<1>6. Sections(d) = IF d.preamble # <<>> \/ d.sections = <<>>
                    THEN <<first>> \o titled ELSE titled
  BY DEF Sections
<1> HIDE DEF titled, first
<1>7. <<first>> \o titled \in Seq(Titled) /\ Len(<<first>> \o titled) = 1 + Len(titled)
  BY <1>4, <1>5
<1>8. d.sections # <<>> => Len(d.sections) # 0
  BY <1>1
<1>9. Len(d.sections) \in Nat
  BY <1>1
<1> QED BY <1>4, <1>6, <1>7, <1>8, <1>9

\* Where the cutting is.
PlaceOK == /\ corpus \in Corpora
           /\ doc \in Nat \ {0}
           /\ Cutting => section \in DOMAIN Sections(corpus[doc])

\* How far the windows of the section reach.
Reached == IF parts = <<>> THEN 0 ELSE parts[Len(parts)].to

\* The loop of _split_by_tokens: where the next window starts, and that the one
\* before reaches beyond the overlap.
LoopOK ==
  /\ start \in Nat /\ parts \in Seq(Window)
  /\ parts = <<>> => start = 0
  /\ parts # <<>> =>
       /\ Cutting /\ Size > MaxTokens
       /\ Overlap < Reached /\ Reached <= Size
       /\ start = IF Reached < Size THEN Reached - Overlap ELSE Size

\* Every word up to there is in a window.
CoveredUp == \A i \in 1 .. Reached : \E j \in DOMAIN parts : parts[j].from < i /\ i <= parts[j].to

WInv == PlaceOK /\ LoopOK /\ WindowsAdvance /\ CoveredUp

LEMMA SizeType == PlaceOK /\ Cutting => Size \in Nat
<1> SUFFICES ASSUME PlaceOK, Cutting PROVE Size \in Nat
  OBVIOUS
<1>1. corpus \in Seq(Document)
  BY CorporaAssumption DEF PlaceOK
<1>2. doc \in 1 .. Len(corpus)
  BY <1>1 DEF PlaceOK, Cutting
<1>3. corpus[doc] \in Document
  BY <1>1, <1>2
<1>4. Sections(corpus[doc]) \in Seq(Titled)
  BY <1>3, SectionsShape
<1>5. Section \in Titled
  BY <1>4 DEF PlaceOK, Section
<1> QED BY <1>5 DEF Titled, Size

LEMMA WindowInit == Init => WInv
<1> SUFFICES ASSUME Init PROVE WInv
  OBVIOUS
<1>1. PlaceOK
  <2>1. corpus \in Corpora /\ doc = 1 /\ section = 1
    BY DEF Init
  <2>2. CASE Cutting
    <3>1. corpus \in Seq(Document)
      BY <2>1, CorporaAssumption
    <3>2. corpus[1] \in Document
      BY <2>1, <2>2, <3>1 DEF Cutting
    <3>3. Sections(corpus[1]) \in Seq(Titled) /\ Len(Sections(corpus[1])) \in Nat \ {0}
      BY <3>2, SectionsShape
    <3>4. 1 \in DOMAIN Sections(corpus[1])
      BY <3>3
    <3> QED BY <2>1, <3>4 DEF PlaceOK
  <2> QED BY <2>1, <2>2 DEF PlaceOK
<1>2. LoopOK /\ Reached = 0
  BY DEF Init, LoopOK, Reached
<1>3. WindowsAdvance
  BY DEF Init, WindowsAdvance
<1>4. CoveredUp
  BY <1>2 DEF CoveredUp
<1> QED BY <1>1, <1>2, <1>3, <1>4 DEF WInv

\* A new window starts where the overlap has it and reaches further.
LEMMA WindowCut == WInv /\ CutWindow => WInv'
<1> SUFFICES ASSUME WInv, CutWindow PROVE WInv'
  OBVIOUS
<1> DEFINE w == [from |-> start, to |-> End(start, Size)]
           n == Len(parts)
<1>1. /\ Cutting /\ Size > MaxTokens /\ start < Size
      /\ parts' = Append(parts, w)
      /\ start' = IF End(start, Size) < Size THEN End(start, Size) - Overlap ELSE Size
      /\ UNCHANGED <<corpus, doc, section>>
  BY DEF CutWindow
<1>2. Size \in Nat /\ start \in Nat /\ parts \in Seq(Window)
  BY <1>1, SizeType DEF WInv, LoopOK
<1>3. MaxTokens \in Nat /\ Overlap \in Nat /\ Overlap < MaxTokens
  BY WindowAssumption
<1>4. Size' = Size /\ (Cutting' <=> Cutting)
  BY <1>1 DEF Size, Section, Cutting
<1>5. /\ End(start, Size) \in Nat /\ start < End(start, Size)
      /\ End(start, Size) - start \in 1 .. MaxTokens
      /\ End(start, Size) <= Size
      /\ Overlap < End(start, Size)
  BY <1>1, <1>2, <1>3 DEF End
<1>6. w \in Window /\ w.from = start /\ w.to = End(start, Size)
  BY <1>2, <1>5 DEF Window
<1> HIDE DEF w
<1>7. /\ parts' \in Seq(Window) /\ n \in Nat /\ Len(parts') = n + 1
      /\ DOMAIN parts = 1 .. n /\ DOMAIN parts' = 1 .. n + 1
      /\ parts'[n + 1] = w /\ \A i \in 1 .. n : parts'[i] = parts[i]
      /\ parts' # <<>>
  BY <1>1, <1>2, <1>6
<1> HIDE DEF n
<1>8. Reached' = w.to
  BY <1>7 DEF Reached
<1>9. PlaceOK'
  BY <1>1, <1>4 DEF WInv, PlaceOK
<1>10. LoopOK'
  <2>1. start' \in Nat
    BY <1>1, <1>2, <1>3, <1>5
  <2>2. start' = IF Reached' < Size' THEN Reached' - Overlap ELSE Size'
    BY <1>1, <1>4, <1>6, <1>8
  <2>3. Overlap < Reached' /\ Reached' <= Size'
    BY <1>4, <1>5, <1>6, <1>8
  <2>4. Cutting' /\ Size' > MaxTokens
    BY <1>1, <1>4
  <2> QED BY <1>7, <2>1, <2>2, <2>3, <2>4 DEF LoopOK
\* The window before, if there is one, ends short of the section.
<1>11. parts # <<>> => /\ n \in 1 .. n /\ Reached = parts[n].to
                       /\ Reached < Size /\ start = Reached - Overlap
                       /\ Reached \in Nat
  <2> SUFFICES ASSUME parts # <<>> PROVE /\ n \in 1 .. n /\ Reached = parts[n].to
                                         /\ Reached < Size /\ start = Reached - Overlap
                                         /\ Reached \in Nat
    OBVIOUS
  <2>1. n # 0 /\ Reached = parts[n].to
    BY <1>2 DEF n, Reached
  <2>2. parts[n] \in Window
    BY <1>2, <1>7, <2>1
  <2>3. Reached \in Nat
    BY <2>1, <2>2 DEF Window
  <2> QED BY <1>1, <1>7, <2>1, <2>3 DEF WInv, LoopOK
<1>12. WindowsAdvance'
  <2>1. ASSUME NEW i \in DOMAIN parts'
        PROVE  parts'[i].to - parts'[i].from \in 1 .. MaxTokens
    BY <1>5, <1>6, <1>7, <2>1 DEF WInv, WindowsAdvance
  <2>2. ASSUME NEW i \in DOMAIN parts', i > 1
        PROVE  parts'[i].to > parts'[i-1].to /\ parts'[i].from = parts'[i-1].to - Overlap
    <3>1. CASE i \in 1 .. n
      <4>1. i - 1 \in 1 .. n
        BY <2>2, <3>1, <1>7
      <4> QED BY <1>7, <2>2, <3>1, <4>1 DEF WInv, WindowsAdvance
    <3>2. CASE i = n + 1
      <4>1. n # 0 /\ n \in 1 .. n
        BY <1>7, <2>2, <3>2
      <4>2. parts # <<>>
        BY <4>1, <1>7
      <4>3. parts'[i] = w /\ parts'[i-1] = parts[n]
        BY <1>7, <3>2, <4>1
      <4>4. w.to > Reached
        BY <1>1, <1>2, <1>3, <1>6, <1>11, <4>2 DEF End
      <4> QED BY <1>6, <1>11, <4>2, <4>3, <4>4
    <3> QED BY <1>7, <2>2, <3>1, <3>2
  <2> QED BY <2>1, <2>2 DEF WindowsAdvance
<1>13. CoveredUp'
  <2> SUFFICES ASSUME NEW i \in 1 .. Reached'
               PROVE  \E j \in DOMAIN parts' : parts'[j].from < i /\ i <= parts'[j].to
    BY DEF CoveredUp
  <2>1. CASE i > start
    <3>1. n + 1 \in DOMAIN parts'
      BY <1>7
    <3>2. w.from < i /\ i <= w.to
      BY <1>5, <1>6, <1>8, <2>1
    <3> QED BY <1>7, <3>1, <3>2
  <2>2. CASE i <= start
    <3>1. parts # <<>>
      BY <1>2, <1>8, <2>2 DEF WInv, LoopOK
    <3>2. i \in 1 .. Reached
      BY <1>2, <1>3, <1>11, <2>2, <3>1
    <3>3. PICK j \in DOMAIN parts : parts[j].from < i /\ i <= parts[j].to
      BY <3>2 DEF WInv, CoveredUp
    <3> QED BY <1>7, <3>3
  <2>3. i \in Nat /\ start \in Nat
    BY <1>2, <1>5, <1>6, <1>8
  <2> QED BY <2>1, <2>2, <2>3
<1> QED BY <1>9, <1>10, <1>12, <1>13 DEF WInv

\* The next section starts without windows.
LEMMA WindowEmit == WInv /\ Emit => WInv'
<1> SUFFICES ASSUME WInv, Emit PROVE WInv'
  OBVIOUS
<1>1. start' = 0 /\ parts' = <<>> /\ corpus' = corpus
  BY DEF Emit
<1>2. LoopOK' /\ Reached' = 0
  BY <1>1 DEF LoopOK, Reached
<1>3. WindowsAdvance'
  BY <1>1 DEF WindowsAdvance
<1>4. CoveredUp'
  BY <1>2 DEF CoveredUp
<1>5. /\ corpus \in Seq(Document) /\ doc \in Nat \ {0} /\ Cutting
      /\ section \in DOMAIN Sections(corpus[doc])
  BY CorporaAssumption DEF WInv, PlaceOK, Emit
<1>6. \A d \in 1 .. Len(corpus) : /\ Sections(corpus[d]) \in Seq(Titled)
                                  /\ Len(Sections(corpus[d])) \in Nat \ {0}
  BY <1>5, SectionsShape
<1>7. PlaceOK'
  <2>1. CASE section < Len(Sections(corpus[doc]))
    <3>1. section' = section + 1 /\ doc' = doc
      BY <2>1 DEF Emit
    <3>2. doc \in 1 .. Len(corpus)
      BY <1>5 DEF Cutting
    <3>3. section + 1 \in DOMAIN Sections(corpus[doc])
      BY <1>5, <1>6, <2>1, <3>2
    <3> QED BY <1>1, <1>5, <3>1, <3>3 DEF WInv, PlaceOK, Cutting
  <2>2. CASE ~(section < Len(Sections(corpus[doc])))
    <3>1. section' = 1 /\ doc' = doc + 1
      BY <2>2 DEF Emit
    <3>2. ASSUME Cutting' PROVE 1 \in DOMAIN Sections(corpus[doc + 1])
      <4>1. doc + 1 \in 1 .. Len(corpus)
        BY <1>1, <1>5, <3>1, <3>2 DEF Cutting
      <4> QED BY <1>6, <4>1
    <3> QED BY <1>1, <1>5, <3>1, <3>2 DEF WInv, PlaceOK
  <2> QED BY <2>1, <2>2
<1> QED BY <1>2, <1>3, <1>4, <1>7 DEF WInv

LEMMA WindowStep == WInv /\ [Next]_vars => WInv'
<1> SUFFICES ASSUME WInv, [Next]_vars PROVE WInv'
  OBVIOUS
<1>1. CASE CutWindow
  BY <1>1, WindowCut
<1>2. CASE Emit
  BY <1>2, WindowEmit
<1>3. CASE Add \/ UNCHANGED vars
  <2>1. UNCHANGED <<corpus, doc, section, start, parts>>
    BY <1>3 DEF Add, vars
  <2>2. Size' = Size /\ (Cutting' <=> Cutting) /\ Reached' = Reached
    BY <2>1 DEF Size, Section, Cutting, Reached
  <2> QED BY <2>1, <2>2 DEF WInv, PlaceOK, LoopOK, WindowsAdvance, CoveredUp
<1> QED BY <1>1, <1>2, <1>3 DEF Next

LEMMA WindowsAlways == Spec => []WInv
  BY WindowInit, WindowStep, PTL DEF Spec

\* The windows of every section move on by at least one new word and repeat
\* exactly the overlap: the loop of the chunker ends, for every chunk size and
\* every overlap below it.
THEOREM WindowsMoveOn == Spec => []WindowsAdvance
<1>1. WInv => WindowsAdvance
  BY DEF WInv
<1> QED BY <1>1, WindowsAlways, PTL

\* No word of a section is dropped between its windows or after the last one.
THEOREM NothingDropped == Spec => []NoTextDropped
<1>1. ASSUME WInv PROVE NoTextDropped
  <2> SUFFICES ASSUME Cutting, Size > MaxTokens,
                      NEW i \in 1 .. (IF start = Size THEN Size
                                      ELSE IF start = 0 THEN 0 ELSE start + Overlap)
               PROVE  \E j \in DOMAIN parts : parts[j].from < i /\ i <= parts[j].to
    BY DEF NoTextDropped
  <2>1. Size \in Nat /\ start \in Nat /\ MaxTokens \in Nat /\ Overlap \in Nat
    BY <1>1, SizeType, WindowAssumption DEF WInv, LoopOK
  <2>2. parts # <<>>
    BY <1>1, <2>1 DEF WInv, LoopOK
  <2>3. Reached \in Nat
    <3>1. parts \in Seq(Window)
      BY <1>1 DEF WInv, LoopOK
    <3>2. parts[Len(parts)] \in Window
      BY <2>2, <3>1
    <3> QED BY <2>2, <3>2 DEF Reached, Window
  <2>4. i \in 1 .. Reached
    BY <1>1, <2>1, <2>2, <2>3 DEF WInv, LoopOK
  <2> QED BY <1>1, <2>4 DEF WInv, CoveredUp
<1> QED BY <1>1, WindowsAlways, PTL

-----------------------------------------------------------------------------
(* The chunks, the tables and the frequencies *)

\* Section s of document d comes before the one being cut.
Before(d, s) == d < doc \/ (d = doc /\ s < section)

\* A clause id of section s: its base, or when it is cut a window's number too.
NamedFor(d, s, id) ==
  \/ id = Base(d, s)
  \/ /\ Len(Sections(corpus[d])[s].words) > MaxTokens
     /\ \E n \in Nat : id = Append(Base(d, s), n)

\* Every chunk names the section it was cut from, which has been done.
Placed ==
  \A k \in DOMAIN chunks :
    /\ chunks[k].doc \in DOMAIN corpus
    /\ chunks[k].section \in DOMAIN Sections(corpus[chunks[k].doc])
    /\ Before(chunks[k].doc, chunks[k].section)
    /\ NamedFor(chunks[k].doc, chunks[k].section, chunks[k].id)

\* Every word of a section that has been done is in a chunk of that section.
CutUp ==
  \A d \in DOMAIN corpus : \A s \in DOMAIN Sections(corpus[d]) : Before(d, s) =>
    \A i \in 1 .. Len(Sections(corpus[d])[s].words) :
      \E k \in DOMAIN chunks : /\ chunks[k].doc = d /\ chunks[k].section = s
                               /\ chunks[k].from < i /\ i <= chunks[k].to

\* No two chunks have the same clause id, when no two sections have a title in
\* common.
DistinctIds ==
  DistinctTitles => \A j, k \in DOMAIN chunks : chunks[j].id = chunks[k].id => j = k

\* So none that is in the tables has been replaced.
Stored ==
  DistinctTitles => \A k \in 1 .. indexed : /\ chunks[k].id \in DOMAIN lookup
                                            /\ lookup[chunks[k].id] = chunks[k]

TypesInv == WInv /\ TypeOK

\* The sum over the index is exact only while the table is finite.
CountInv == TypesInv /\ IsFiniteSet(DOMAIN lookup) /\ FrequenciesExact

CiteInv == CountInv /\ Placed /\ CutUp /\ DistinctIds /\ Stored

LEMMA CorpusShape ==
  ASSUME corpus \in Corpora, NEW d \in DOMAIN corpus
  PROVE  /\ corpus[d].doc_id \in Seq(Segments)
         /\ Sections(corpus[d]) \in Seq(Titled)
         /\ Len(Sections(corpus[d])) \in Nat \ {0}
<1>1. corpus \in Seq(Document)
  BY CorporaAssumption
<1>2. corpus[d] \in Document
  BY <1>1
<1> QED BY <1>2, SectionsShape DEF Document, Text

LEMMA SectionShape ==
  ASSUME corpus \in Corpora, NEW d \in DOMAIN corpus, NEW s \in DOMAIN Sections(corpus[d])
  PROVE  /\ Base(d, s) \in Seq(Segments)
         /\ Sections(corpus[d])[s].words \in Seq(Terms)
<1>1. Sections(corpus[d])[s] \in Titled
  BY CorpusShape
<1>2. corpus[d].doc_id \in Seq(Segments) /\ Sections(corpus[d])[s].path \in Seq(Segments)
  BY <1>1, CorpusShape DEF Titled
<1>3. Base(d, s) \in Seq(Segments)
  BY <1>2 DEF Base
<1> QED BY <1>1, <1>3 DEF Titled

\* A number put behind a base can be told from the base, and from other numbers
\* and other bases.
LEMMA PartsDiffer ==
  ASSUME NEW x \in Seq(Segments), NEW y \in Seq(Segments), NEW m \in Nat, NEW n \in Nat
  PROVE  /\ Append(x, m) \in Seq(Segments)
         /\ Append(x, m) = Append(y, n) => x = y /\ m = n
         /\ IsPart(Append(x, m), x)
<1> DEFINE z == Append(x, m)
<1>1. m \in Segments /\ n \in Segments
  BY DEF Segments
<1>2. z \in Seq(Segments) /\ Len(z) = Len(x) + 1 /\ z[Len(x) + 1] = m
      /\ Len(x) \in Nat /\ DOMAIN x = 1 .. Len(x) /\ \A i \in DOMAIN x : z[i] = x[i]
  BY <1>1
<1>3. ASSUME z = Append(y, n) PROVE x = y /\ m = n
  <2>1. /\ Len(z) = Len(y) + 1 /\ z[Len(y) + 1] = n
        /\ Len(y) \in Nat /\ DOMAIN y = 1 .. Len(y) /\ \A i \in DOMAIN y : z[i] = y[i]
    BY <1>1, <1>3
  <2>2. Len(x) = Len(y) /\ m = n
    <3> HIDE DEF z
    <3>1. \A j, k \in Nat : j + 1 = k + 1 => j = k
      OBVIOUS
    <3>2. Len(x) + 1 = Len(y) + 1 /\ Len(x) \in Nat /\ Len(y) \in Nat
      BY <1>2, <2>1, Zenon
    <3>3. Len(x) = Len(y)
      BY <3>1, <3>2
    <3>4. z[Len(x) + 1] = m /\ z[Len(y) + 1] = n
      BY <1>2, <2>1, Zenon
    <3> QED BY <3>3, <3>4
  <2>3. \A i \in 1 .. Len(x) : x[i] = y[i]
    BY <1>2, <2>1, <2>2
  <2> QED BY <2>2, <2>3
<1>4. IsPart(z, x)
  BY <1>2 DEF IsPart
<1> QED BY <1>2, <1>3, <1>4

\* The clause id of window i of n.
WindowId(d, s, n, i) == IF n = 1 THEN Base(d, s) ELSE Append(Base(d, s), i - 1)

\* What Chunks makes: one chunk for each window, with clause ids of its own.
LEMMA ChunksShape ==
  ASSUME corpus \in Corpora, NEW d \in DOMAIN corpus, NEW s \in DOMAIN Sections(corpus[d]),
         NEW windows \in Seq(Window)
  PROVE  /\ Chunks(d, s, windows) \in Seq(Chunk)
         /\ Len(Chunks(d, s, windows)) = Len(windows)
         /\ \A i \in 1 .. Len(windows) :
              /\ Chunks(d, s, windows)[i].doc = d
              /\ Chunks(d, s, windows)[i].section = s
              /\ Chunks(d, s, windows)[i].from = windows[i].from
              /\ Chunks(d, s, windows)[i].to = windows[i].to
              /\ Chunks(d, s, windows)[i].id = WindowId(d, s, Len(windows), i)
         /\ \A i, j \in 1 .. Len(windows) :
              Chunks(d, s, windows)[i].id = Chunks(d, s, windows)[j].id => i = j
<1> DEFINE n == Len(windows)
           id(i) == WindowId(d, s, n, i)
           chunk(i) == [id |-> id(i), doc |-> d, section |-> s,
                        from |-> windows[i].from, to |-> windows[i].to]
<1>1. n \in Nat /\ DOMAIN windows = 1 .. n
  OBVIOUS
<1>2. Chunks(d, s, windows) = [i \in 1 .. n |-> chunk(i)]
  BY <1>1 DEF Chunks, WindowId
<1>3. d \in Nat /\ s \in Nat
  <2>1. corpus \in Seq(Document)
    BY CorporaAssumption
  <2> QED BY <2>1, CorpusShape
<1>4. Base(d, s) \in Seq(Segments)
  BY SectionShape
<1>5. ASSUME NEW i \in 1 .. n PROVE id(i) \in ClauseId
  <2>1. i - 1 \in Nat
    BY <1>1
  <2>2. Append(Base(d, s), i - 1) \in Seq(Segments)
    BY <1>4, <2>1, PartsDiffer
  <2> QED BY <1>4, <2>2 DEF ClauseId, WindowId
<1>6. ASSUME NEW i \in 1 .. n PROVE chunk(i) \in Chunk
  <2>1. windows[i] \in Window
    BY <1>1, ElementOfSeq
  <2>2. windows[i].from \in Nat /\ windows[i].to \in Nat
    BY <2>1 DEF Window
  <2> HIDE DEF id
  <2> QED BY <1>3, <1>5, <2>2 DEF Chunk
<1>7. ASSUME NEW i \in 1 .. n, NEW j \in 1 .. n, id(i) = id(j) PROVE i = j
  <2>1. CASE n = 1
    BY <2>1
  <2>2. CASE n # 1
    <3>1. i - 1 \in Nat /\ j - 1 \in Nat /\ i \in Nat /\ j \in Nat
      BY <1>1
    <3>2. Append(Base(d, s), i - 1) = Append(Base(d, s), j - 1)
      BY <1>7, <2>2 DEF WindowId
    <3>3. i - 1 = j - 1
      BY <1>4, <3>1, <3>2, PartsDiffer
    <3> QED BY <3>1, <3>3
  <2> QED BY <2>1, <2>2
<1>8. Chunks(d, s, windows) \in Seq(Chunk) /\ Len(Chunks(d, s, windows)) = n
  <2> HIDE DEF chunk
  <2>1. [i \in 1 .. n |-> chunk(i)] \in [1 .. n -> Chunk]
    BY <1>6
  <2> QED BY <1>1, <1>2, <2>1, FunctionIsSeq
<1>9. \A i \in 1 .. n : Chunks(d, s, windows)[i] = chunk(i)
  <2> HIDE DEF chunk
  <2> QED BY <1>2
<1>10. \A i \in 1 .. n : /\ chunk(i).doc = d /\ chunk(i).section = s
                         /\ chunk(i).from = windows[i].from /\ chunk(i).to = windows[i].to
                         /\ chunk(i).id = id(i)
  OBVIOUS
<1> HIDE DEF chunk
<1>11. \A i, j \in 1 .. n : Chunks(d, s, windows)[i].id = Chunks(d, s, windows)[j].id => i = j
  <2> HIDE DEF id
  <2> QED BY <1>7, <1>9, <1>10
<1> QED BY <1>8, <1>9, <1>10, <1>11

\* The windows of a section that is done.
Done == IF Size <= MaxTokens THEN <<[from |-> 0, to |-> Size]>> ELSE parts

LEMMA DoneCovers ==
  ASSUME WInv, Emit
  PROVE  /\ Done \in Seq(Window)
         /\ \A i \in 1 .. Size : \E j \in DOMAIN Done : Done[j].from < i /\ i <= Done[j].to
<1>1. Size \in Nat /\ MaxTokens \in Nat /\ Overlap \in Nat /\ start \in Nat
  BY SizeType, WindowAssumption DEF WInv, LoopOK, Emit
<1>2. CASE Size <= MaxTokens
  <2> DEFINE whole == [from |-> 0, to |-> Size]
  <2>1. whole \in Window /\ whole.from = 0 /\ whole.to = Size
    BY <1>1 DEF Window
  <2> HIDE DEF whole
  <2>2. Done = <<whole>>
    BY <1>2 DEF Done, whole
  <2>3. Done \in Seq(Window) /\ 1 \in DOMAIN Done /\ Done[1] = whole
    BY <2>1, <2>2
  <2> QED BY <1>1, <2>1, <2>3
<1>3. CASE ~(Size <= MaxTokens)
  <2>1. Done = parts /\ start >= Size /\ parts \in Seq(Window)
    BY <1>3 DEF Done, Emit, WInv, LoopOK
  <2>2. parts # <<>>
    BY <1>1, <1>3, <2>1 DEF WInv, LoopOK
  <2>3. Reached \in Nat
    <3>1. parts[Len(parts)] \in Window
      BY <2>1, <2>2
    <3> QED BY <2>2, <3>1 DEF Reached, Window
  <2>4. Reached = Size
    BY <1>1, <2>1, <2>2, <2>3 DEF WInv, LoopOK
  <2> QED BY <2>1, <2>4 DEF WInv, CoveredUp
<1> QED BY <1>2, <1>3

\* What Emit leaves: the chunks of the section behind the others.
LEMMA Emitted ==
  ASSUME TypesInv, Emit
  PROVE  LET new == Chunks(doc, section, Done)
         IN  /\ doc \in DOMAIN corpus /\ section \in DOMAIN Sections(corpus[doc])
             /\ doc \in Nat /\ section \in Nat
             /\ chunks \in Seq(Chunk) /\ new \in Seq(Chunk) /\ Len(new) = Len(Done)
             /\ Done \in Seq(Window)
             /\ chunks' = chunks \o new
             /\ chunks' \in Seq(Chunk) /\ Len(chunks') = Len(chunks) + Len(new)
             /\ \A k \in DOMAIN chunks : k \in DOMAIN chunks' /\ chunks'[k] = chunks[k]
             /\ \A k \in DOMAIN new : /\ Len(chunks) + k \in DOMAIN chunks'
                                      /\ chunks'[Len(chunks) + k] = new[k]
             /\ \A k \in DOMAIN chunks' :
                  k \in DOMAIN chunks \/ (k > Len(chunks) /\ k - Len(chunks) \in DOMAIN new)
             /\ corpus' = corpus /\ indexed' = indexed /\ lookup' = lookup /\ df' = df
<1> DEFINE new == Chunks(doc, section, Done)
           n == Len(chunks)
<1>1. /\ corpus \in Corpora /\ corpus \in Seq(Document) /\ Cutting
      /\ doc \in Nat \ {0} /\ section \in Nat
  BY CorporaAssumption DEF TypesInv, WInv, PlaceOK, TypeOK, Emit
<1>2. doc \in DOMAIN corpus /\ section \in DOMAIN Sections(corpus[doc])
  BY <1>1 DEF TypesInv, WInv, PlaceOK, Cutting
<1>3. Done \in Seq(Window)
  BY DoneCovers DEF TypesInv
<1>4. new \in Seq(Chunk) /\ Len(new) = Len(Done)
  BY <1>1, <1>2, <1>3, ChunksShape
<1>5. chunks \in Seq(Chunk)
  BY DEF TypesInv, TypeOK
<1>6. chunks' = chunks \o new
  BY DEF Emit, Done
<1> HIDE DEF new
<1>7. /\ chunks' \in Seq(Chunk) /\ Len(chunks') = Len(chunks) + Len(new)
      /\ DOMAIN chunks = 1 .. Len(chunks) /\ DOMAIN new = 1 .. Len(new)
      /\ DOMAIN chunks' = 1 .. Len(chunks) + Len(new)
      /\ Len(chunks) \in Nat /\ Len(new) \in Nat
  <2>1. chunks \o new \in Seq(Chunk) /\ Len(chunks \o new) = Len(chunks) + Len(new)
    BY <1>4, <1>5
  <2>2. DOMAIN (chunks \o new) = 1 .. Len(chunks) + Len(new)
    BY <2>1
  <2> QED BY <1>4, <1>5, <1>6, <2>1, <2>2
<1>8. \A k \in DOMAIN chunks : k \in DOMAIN chunks' /\ chunks'[k] = chunks[k]
  BY <1>4, <1>5, <1>6, <1>7
<1>9. \A k \in DOMAIN new : n + k \in DOMAIN chunks' /\ chunks'[n + k] = new[k]
  <2> SUFFICES ASSUME NEW k \in DOMAIN new
               PROVE  n + k \in DOMAIN chunks' /\ chunks'[n + k] = new[k]
    OBVIOUS
  <2>1. k \in 1 .. Len(new) /\ n + k \in 1 .. n + Len(new) /\ ~(n + k <= n)
    BY <1>7
  <2> QED BY <1>4, <1>5, <1>6, <1>7, <2>1
<1>10. \A k \in DOMAIN chunks' : k \in DOMAIN chunks \/ (k > n /\ k - n \in DOMAIN new)
  BY <1>7
<1>11. UNCHANGED <<corpus, indexed, lookup, df>>
  BY DEF Emit
<1> QED BY <1>1, <1>2, <1>3, <1>4, <1>5, <1>6, <1>7, <1>8, <1>9, <1>10, <1>11 DEF new

\* The next place: what was before the section still is, and the section too.
LEMMA PlaceMoves ==
  ASSUME TypesInv, Emit, NEW d \in DOMAIN corpus, NEW s \in DOMAIN Sections(corpus[d])
  PROVE  /\ Before(d, s)' <=> Before(d, s) \/ (d = doc /\ s = section)
         /\ doc' \in 1 .. Len(corpus) + 1 /\ section' \in Nat \ {0}
<1>1. /\ corpus \in Seq(Document) /\ Cutting /\ corpus \in Corpora
      /\ doc \in Nat \ {0} /\ section \in Nat \ {0} /\ section \in DOMAIN Sections(corpus[doc])
  BY CorporaAssumption DEF TypesInv, WInv, PlaceOK, TypeOK, Emit
<1>2. doc \in 1 .. Len(corpus) /\ d \in 1 .. Len(corpus) /\ Len(corpus) \in Nat
  BY <1>1 DEF Cutting
<1>3. s \in 1 .. Len(Sections(corpus[d])) /\ Len(Sections(corpus[doc])) \in Nat
      /\ section \in 1 .. Len(Sections(corpus[doc]))
  BY <1>1, <1>2, CorpusShape
<1>4. CASE section < Len(Sections(corpus[doc]))
  <2>1. section' = section + 1 /\ doc' = doc
    BY <1>4 DEF Emit
  <2> QED BY <1>1, <1>2, <1>3, <2>1 DEF Before
<1>5. CASE ~(section < Len(Sections(corpus[doc])))
  <2>1. section' = 1 /\ doc' = doc + 1
    BY <1>5 DEF Emit
  <2>2. section = Len(Sections(corpus[doc]))
    BY <1>3, <1>5
  <2>3. d = doc => s <= section
    BY <1>3, <2>2
  <2> QED BY <1>1, <1>2, <1>3, <2>1, <2>3 DEF Before
<1> QED BY <1>4, <1>5

\* What the chunks say depends on the documents only.
LEMMA TermsStay ==
  ASSUME corpus' = corpus, NEW t
  PROVE  {id \in DOMAIN lookup : t \in TermsOf(lookup[id])}'
         = {id \in DOMAIN lookup' : t \in TermsOf(lookup'[id])}
<1>1. ASSUME NEW id \in DOMAIN lookup' PROVE TermsOf(lookup[id])' = TermsOf(lookup'[id])
  BY DEF TermsOf
<1> QED BY <1>1

LEMMA CountInit == Init => CountInv
<1> SUFFICES ASSUME Init PROVE CountInv
  OBVIOUS
<1>1. WInv
  BY WindowInit
<1>2. corpus \in Corpora /\ corpus \in Seq(Document)
  BY CorporaAssumption DEF Init
<1>3. DOMAIN lookup = {} /\ lookup = <<>>
  BY DEF Init
<1>4. Cutting => Size \in Nat
  BY <1>1, SizeType DEF WInv
<1>5. TypeOK
  <2>1. doc = 1 /\ section = 1 /\ start = 0 /\ parts = <<>> /\ chunks = <<>> /\ indexed = 0
    BY DEF Init
  <2>2. df \in [Terms -> Nat]
    BY DEF Init
  <2>3. doc \in 1 .. Len(corpus) + 1
    BY <1>2, <2>1
  <2>4. Cutting => section \in DOMAIN Sections(corpus[doc]) /\ start <= Size
    BY <1>1, <1>4, <2>1 DEF WInv, PlaceOK
  <2>5. parts \in Seq(Window) /\ chunks \in Seq(Chunk) /\ indexed \in 0 .. Len(chunks)
    BY <2>1
  <2> QED BY <1>2, <1>3, <2>1, <2>2, <2>3, <2>4, <2>5 DEF TypeOK
<1>6. IsFiniteSet(DOMAIN lookup)
  BY <1>3, FS_EmptySet
<1>7. FrequenciesExact
  <2> SUFFICES ASSUME NEW t \in Terms
               PROVE  df[t] = Cardinality({id \in DOMAIN lookup : t \in TermsOf(lookup[id])})
    BY DEF FrequenciesExact
  <2>1. {id \in DOMAIN lookup : t \in TermsOf(lookup[id])} = {}
    BY <1>3
  <2> QED BY <2>1, FS_EmptySet DEF Init
<1> QED BY <1>1, <1>5, <1>6, <1>7 DEF CountInv, TypesInv

\* While the documents are cut, the tables are left alone.
LEMMA CountCut == CountInv /\ (CutWindow \/ Emit) => CountInv'
<1> SUFFICES ASSUME CountInv, CutWindow \/ Emit PROVE CountInv'
  OBVIOUS
<1>1. WInv'
  BY WindowCut, WindowEmit DEF CountInv, TypesInv
<1>2. UNCHANGED <<corpus, indexed, lookup, df>>
  BY DEF CutWindow, Emit
<1>3. IsFiniteSet(DOMAIN lookup)' /\ FrequenciesExact'
  BY <1>2 DEF CountInv, FrequenciesExact, TermsOf
<1>4. /\ corpus \in Corpora /\ corpus \in Seq(Document) /\ Cutting
      /\ doc \in 1 .. Len(corpus)
  <2>1. corpus \in Corpora /\ Cutting /\ doc \in Nat \ {0}
    BY DEF CountInv, TypesInv, WInv, PlaceOK, CutWindow, Emit
  <2>2. corpus \in Seq(Document)
    BY <2>1, CorporaAssumption
  <2> QED BY <2>1, <2>2 DEF Cutting
<1>5. doc' \in 1 .. Len(corpus) + 1 /\ section' \in Nat \ {0} /\ chunks' \in Seq(Chunk)
      /\ indexed \in 0 .. Len(chunks')
  <2>1. CASE CutWindow
    <3>1. UNCHANGED <<doc, section, chunks>>
      BY <2>1 DEF CutWindow
    <3> QED BY <3>1 DEF CountInv, TypesInv, TypeOK
  <2>2. CASE Emit
    <3>1. doc \in DOMAIN corpus /\ section \in DOMAIN Sections(corpus[doc])
      BY <2>2, Emitted DEF CountInv
    <3>2. doc' \in 1 .. Len(corpus) + 1 /\ section' \in Nat \ {0}
      BY <2>2, <3>1, PlaceMoves DEF CountInv
    <3>3. /\ chunks' \in Seq(Chunk) /\ Len(chunks) \in Nat
          /\ Len(chunks') = Len(chunks) + Len(Done) /\ Len(Done) \in Nat
      <4>1. /\ chunks' \in Seq(Chunk) /\ chunks \in Seq(Chunk) /\ Done \in Seq(Window)
            /\ Len(Chunks(doc, section, Done)) = Len(Done)
            /\ Len(chunks') = Len(chunks) + Len(Chunks(doc, section, Done))
        BY <2>2, Emitted DEF CountInv
      <4> QED BY <4>1
    <3>4. indexed \in 0 .. Len(chunks)
      BY DEF CountInv, TypesInv, TypeOK
    <3> QED BY <3>2, <3>3, <3>4
  <2> QED BY <2>1, <2>2
<1>6. Cutting' => (start <= Size)'
  <2> SUFFICES ASSUME Cutting' PROVE (start <= Size)'
    OBVIOUS
  <2>1. CASE Emit
    <3>1. Size' \in Nat
      <4>1. doc' \in DOMAIN corpus /\ section' \in DOMAIN Sections(corpus[doc'])
        <5>1. section' \in DOMAIN Sections(corpus'[doc']) /\ doc' \in Nat \ {0}
          BY <1>1 DEF WInv, PlaceOK
        <5>2. doc' <= Len(corpus)
          BY <1>2 DEF Cutting
        <5> QED BY <1>2, <1>4, <5>1, <5>2
      <4>2. Sections(corpus[doc'])[section'].words \in Seq(Terms)
        BY <1>4, <4>1, SectionShape
      <4>3. Size' = Len(Sections(corpus[doc'])[section'].words)
        BY <1>2 DEF Size, Section
      <4> QED BY <4>2, <4>3
    <3> QED BY <2>1, <3>1 DEF Emit
  <2>2. CASE CutWindow
    <3>1. Size' = Size /\ Size \in Nat /\ start \in Nat /\ Overlap \in Nat
      BY <2>2, SizeType, WindowAssumption
         DEF CutWindow, Size, Section, CountInv, TypesInv, WInv, LoopOK
    <3>2. End(start, Size) <= Size /\ End(start, Size) \in Nat
      BY <3>1, WindowAssumption DEF End
    <3>3. start' = IF End(start, Size) < Size THEN End(start, Size) - Overlap ELSE Size
      BY <2>2 DEF CutWindow
    <3> QED BY <3>1, <3>2, <3>3
  <2> QED BY <2>1, <2>2
<1>7. start' \in Nat /\ parts' \in Seq(Window)
      /\ (Cutting' => section' \in DOMAIN Sections(corpus'[doc']))
  BY <1>1 DEF WInv, LoopOK, PlaceOK
<1>8. TypeOK'
  <2>1. corpus' \in Seq(Document) /\ doc' \in 1 .. Len(corpus') + 1
    BY <1>2, <1>4, <1>5
  <2>2. indexed' \in 0 .. Len(chunks')
    BY <1>2, <1>5
  <2>3. /\ DOMAIN lookup' \subseteq ClauseId
        /\ \A id \in DOMAIN lookup' : lookup'[id] \in Chunk
        /\ df' \in [Terms -> Nat]
    BY <1>2 DEF CountInv, TypesInv, TypeOK
  <2> QED BY <1>5, <1>6, <1>7, <2>1, <2>2, <2>3 DEF TypeOK
<1> QED BY <1>1, <1>3, <1>8 DEF CountInv, TypesInv

\* A chunk that is replaced is taken out of the count before the new one is
\* counted; one that is not only adds to it.
LEMMA CountAdd == CountInv /\ Add => CountInv'
<1> SUFFICES ASSUME CountInv, Add PROVE CountInv'
  OBVIOUS
<1> DEFINE new == chunks[indexed + 1]
           Having(t) == {id \in DOMAIN lookup : t \in TermsOf(lookup[id])}
           Counts(t) == IF t \in TermsOf(new) THEN 1 ELSE 0
           Old(t) == new.id \in DOMAIN lookup /\ t \in TermsOf(lookup[new.id])
<1>1. /\ chunks \in Seq(Chunk) /\ indexed \in 0 .. Len(chunks) /\ indexed < Len(chunks)
      /\ DOMAIN lookup \subseteq ClauseId /\ \A id \in DOMAIN lookup : lookup[id] \in Chunk
      /\ df \in [Terms -> Nat] /\ IsFiniteSet(DOMAIN lookup)
  BY DEF CountInv, TypesInv, TypeOK, Add
<1>2. new \in Chunk /\ new.id \in ClauseId
  <2>1. indexed + 1 \in DOMAIN chunks
    BY <1>1
  <2>2. new \in Chunk
    BY <1>1, <2>1
  <2> QED BY <2>2 DEF Chunk
<1>3. /\ UNCHANGED <<corpus, doc, section, start, parts, chunks>> /\ indexed' = indexed + 1
      /\ lookup' = [id \in DOMAIN lookup \cup {new.id} |-> IF id = new.id THEN new ELSE lookup[id]]
      /\ df' = [t \in Terms |-> (IF Old(t) THEN df[t] - 1 ELSE df[t]) + Counts(t)]
  BY DEF Add
<1> HIDE DEF new
<1>4. DOMAIN lookup' = DOMAIN lookup \cup {new.id} /\ lookup'[new.id] = new
      /\ \A id \in DOMAIN lookup \ {new.id} : lookup'[id] = lookup[id]
  BY <1>3
<1>5. WInv'
  <2>1. [Next]_vars
    BY DEF Next
  <2> QED BY <2>1, WindowStep DEF CountInv, TypesInv
<1>6. \A t \in Terms : df[t] = Cardinality(Having(t)) /\ IsFiniteSet(Having(t))
  <2> SUFFICES ASSUME NEW t \in Terms PROVE df[t] = Cardinality(Having(t)) /\ IsFiniteSet(Having(t))
    OBVIOUS
  <2>1. df[t] = Cardinality(Having(t))
    BY DEF CountInv, FrequenciesExact
  <2>2. Having(t) \in SUBSET (DOMAIN lookup)
    OBVIOUS
  <2> QED BY <1>1, <2>1, <2>2, FS_Subset
\* How the chunks that have a term change.
<1>7. ASSUME NEW t \in Terms
      PROVE  LET H == {id \in DOMAIN lookup' : t \in TermsOf(lookup'[id])}
             IN  /\ df'[t] = Cardinality(H)
                 /\ df'[t] \in Nat
  <2> DEFINE H == {id \in DOMAIN lookup' : t \in TermsOf(lookup'[id])}
             rest == Having(t) \ {new.id}
  <2>1. new.id \in Having(t) <=> Old(t)
    OBVIOUS
  <2>2. rest = {id \in DOMAIN lookup \ {new.id} : t \in TermsOf(lookup[id])}
    OBVIOUS
  <2>3. H = IF t \in TermsOf(new) THEN rest \cup {new.id} ELSE rest
    BY <1>4, <2>2
  <2> HIDE DEF Having, H, Old
  <2>4. /\ IsFiniteSet(rest)
        /\ Cardinality(rest) = IF Old(t) THEN df[t] - 1 ELSE df[t]
    BY <1>6, <2>1, FS_RemoveElement
  <2>5. new.id \notin rest
    OBVIOUS
  <2> HIDE DEF rest
  <2>6. /\ IsFiniteSet(rest \cup {new.id})
        /\ Cardinality(rest \cup {new.id}) = Cardinality(rest) + 1
    BY <2>4, <2>5, FS_AddElement
  <2>7. df'[t] = Cardinality(rest) + Counts(t)
    BY <1>3, <2>4
  <2>8. Cardinality(rest) \in Nat
    BY <2>4, FS_CardinalityType
  <2>9. df'[t] = Cardinality(H) /\ df'[t] \in Nat
    BY <2>3, <2>6, <2>7, <2>8
  <2> QED BY <2>9 DEF H
<1>8. FrequenciesExact'
  <2> HIDE DEF Having, Counts, Old
  <2>1. ASSUME NEW t \in Terms
        PROVE  df'[t] = Cardinality({id \in DOMAIN lookup : t \in TermsOf(lookup[id])}')
    BY <1>3, <1>7, TermsStay
  <2> QED BY <2>1 DEF FrequenciesExact
<1>9. IsFiniteSet(DOMAIN lookup')
  <2>1. IsFiniteSet(DOMAIN lookup \cup {new.id})
    BY <1>1, FS_AddElement
  <2> QED BY <1>4, <2>1
<1>10. DOMAIN lookup' \subseteq ClauseId /\ \A id \in DOMAIN lookup' : lookup'[id] \in Chunk
  BY <1>1, <1>2, <1>4
<1>11. df' \in [Terms -> Nat]
  <2> DEFINE value(t) == (IF Old(t) THEN df[t] - 1 ELSE df[t]) + Counts(t)
  <2>1. df' = [t \in Terms |-> value(t)]
    BY <1>3
  <2> HIDE DEF value
  <2>2. \A t \in Terms : value(t) \in Nat
    BY <1>7, <2>1
  <2> QED BY <2>1, <2>2
<1>12. TypeOK'
  <2>1. /\ UNCHANGED <<Cutting, Size>>
        /\ Sections(corpus'[doc']) = Sections(corpus[doc])
    BY <1>3 DEF Cutting, Size, Section
  <2>2. indexed' \in 0 .. Len(chunks')
    BY <1>1, <1>3
  <2>3. TypeOK
    BY DEF CountInv, TypesInv
  <2> HIDE DEF Having, Counts, Old
  <2> QED BY <1>3, <1>10, <1>11, <2>1, <2>2, <2>3 DEF TypeOK
<1> QED BY <1>5, <1>8, <1>9, <1>12 DEF CountInv, TypesInv

LEMMA CountStep == CountInv /\ [Next]_vars => CountInv'
<1> SUFFICES ASSUME CountInv, [Next]_vars PROVE CountInv'
  OBVIOUS
<1>1. CASE UNCHANGED vars
  <2>1. WInv'
    BY WindowStep DEF CountInv, TypesInv
  <2>2. TypeOK'
    BY <1>1 DEF CountInv, TypesInv, TypeOK, Cutting, Size, Section, vars
  <2>3. FrequenciesExact'
    <3>1. \A t : {id \in DOMAIN lookup : t \in TermsOf(lookup[id])}'
                 = {id \in DOMAIN lookup : t \in TermsOf(lookup[id])}
      BY <1>1, TermsStay DEF vars
    <3> QED BY <1>1, <3>1 DEF CountInv, FrequenciesExact, vars
  <2>4. IsFiniteSet(DOMAIN lookup')
    BY <1>1 DEF CountInv, vars
  <2> QED BY <2>1, <2>2, <2>3, <2>4 DEF CountInv, TypesInv
<1> QED BY <1>1, CountCut, CountAdd DEF Next

LEMMA CountAlways == Spec => []CountInv
  BY CountInit, CountStep, PTL DEF Spec

\* The chunker's place, the chunks and the tables are always of their types,
\* the frequencies never negative.
THEOREM IngestionTypeCorrect == Spec => []TypeOK
<1>1. CountInv => TypeOK
  BY DEF CountInv, TypesInv
<1> QED BY <1>1, CountAlways, PTL

\* The document frequencies of the lexical index are exact however many chunks
\* replace others, so that no term's weight turns negative.
THEOREM CountsExact == Spec => []FrequenciesExact
<1>1. CountInv => FrequenciesExact
  BY DEF CountInv
<1> QED BY <1>1, CountAlways, PTL

LEMMA CiteInit == Init => CiteInv
<1> SUFFICES ASSUME Init PROVE CiteInv
  OBVIOUS
<1>1. CountInv
  BY CountInit
<1>2. chunks = <<>> /\ DOMAIN chunks = {} /\ indexed = 0 /\ doc = 1 /\ section = 1
  BY DEF Init
<1>3. corpus \in Corpora /\ corpus \in Seq(Document)
  BY CorporaAssumption DEF Init
<1>4. \A d \in DOMAIN corpus : \A s \in DOMAIN Sections(corpus[d]) : ~Before(d, s)
  <2> SUFFICES ASSUME NEW d \in DOMAIN corpus, NEW s \in DOMAIN Sections(corpus[d])
               PROVE  ~Before(d, s)
    OBVIOUS
  <2>1. d \in Nat \ {0} /\ s \in Nat \ {0}
    <3>1. Sections(corpus[d]) \in Seq(Titled)
      BY <1>3, CorpusShape
    <3> QED BY <1>3, <3>1
  <2> QED BY <1>2, <2>1 DEF Before
<1>5. Placed /\ CutUp /\ DistinctIds /\ Stored
  BY <1>2, <1>4 DEF Placed, CutUp, DistinctIds, Stored
<1> QED BY <1>1, <1>5 DEF CiteInv

\* The new chunks hold the words of the section that is done, under its title.
LEMMA CiteEmit == CiteInv /\ Emit => CiteInv'
<1> SUFFICES ASSUME CiteInv, Emit PROVE CiteInv'
  OBVIOUS
<1> DEFINE new == Chunks(doc, section, Done)
           n == Len(chunks)
<1>1. CountInv /\ TypesInv /\ WInv /\ TypeOK /\ corpus \in Corpora
  BY DEF CiteInv, CountInv, TypesInv, WInv, PlaceOK
<1>2. CountInv'
  BY <1>1, CountCut
<1>3. /\ doc \in DOMAIN corpus /\ section \in DOMAIN Sections(corpus[doc])
      /\ doc \in Nat /\ section \in Nat
      /\ chunks \in Seq(Chunk) /\ new \in Seq(Chunk) /\ Len(new) = Len(Done)
      /\ Done \in Seq(Window)
      /\ \A k \in DOMAIN chunks : k \in DOMAIN chunks' /\ chunks'[k] = chunks[k]
      /\ \A k \in DOMAIN new : n + k \in DOMAIN chunks' /\ chunks'[n + k] = new[k]
      /\ \A k \in DOMAIN chunks' :
           k \in DOMAIN chunks \/ (k > n /\ k - n \in DOMAIN new)
      /\ corpus' = corpus /\ indexed' = indexed /\ lookup' = lookup
  BY <1>1, Emitted
<1>4. \A d \in DOMAIN corpus : \A s \in DOMAIN Sections(corpus[d]) :
        Before(d, s)' <=> Before(d, s) \/ (d = doc /\ s = section)
  BY <1>1, PlaceMoves
<1>5. /\ \A i \in DOMAIN new :
           /\ new[i].doc = doc /\ new[i].section = section
           /\ new[i].from = Done[i].from /\ new[i].to = Done[i].to
           /\ NamedFor(doc, section, new[i].id)
      /\ \A i, j \in DOMAIN new : new[i].id = new[j].id => i = j
      /\ DOMAIN new = DOMAIN Done
  <2>1. DOMAIN new = 1 .. Len(Done) /\ DOMAIN Done = 1 .. Len(Done)
    BY <1>3
  <2>2. /\ \A i \in 1 .. Len(Done) :
             /\ new[i].doc = doc /\ new[i].section = section
             /\ new[i].from = Done[i].from /\ new[i].to = Done[i].to
             /\ new[i].id = WindowId(doc, section, Len(Done), i)
        /\ \A i, j \in 1 .. Len(Done) : new[i].id = new[j].id => i = j
    <3>1. /\ corpus \in Corpora /\ doc \in DOMAIN corpus
          /\ section \in DOMAIN Sections(corpus[doc]) /\ Done \in Seq(Window)
      BY <1>1, <1>3
    <3> QED BY <3>1, ChunksShape
  <2> HIDE DEF new
  <2>3. Len(Done) # 1 => Len(Sections(corpus[doc])[section].words) > MaxTokens
    <3>1. CASE Size <= MaxTokens
      BY <3>1 DEF Done
    <3>2. CASE ~(Size <= MaxTokens)
      <4>1. Size \in Nat /\ MaxTokens \in Nat
        BY <1>1, SizeType, WindowAssumption DEF WInv, Emit
      <4>2. Size > MaxTokens
        BY <3>2, <4>1
      <4> QED BY <4>2 DEF Size, Section
    <3> QED BY <3>1, <3>2
  <2>4. ASSUME NEW i \in 1 .. Len(Done) PROVE NamedFor(doc, section, new[i].id)
    <3>1. i - 1 \in Nat
      BY <2>1, <1>3
    <3> QED BY <2>2, <2>3, <3>1 DEF NamedFor, WindowId
  <2> QED BY <2>1, <2>2, <2>4
<1> HIDE DEF new
<1>6. ~Before(doc, section)
  BY <1>3 DEF Before
\* A chunk is one of those before, or the j-th of the new ones.
<1>7. \A k \in DOMAIN chunks' :
        \/ k \in DOMAIN chunks /\ chunks'[k] = chunks[k]
        \/ \E j \in DOMAIN new : k = n + j /\ chunks'[k] = new[j]
  <2> SUFFICES ASSUME NEW k \in DOMAIN chunks', k \notin DOMAIN chunks
               PROVE  \E j \in DOMAIN new : k = n + j /\ chunks'[k] = new[j]
    BY <1>3
  <2>1. k - n \in DOMAIN new /\ n + (k - n) = k
    <3>1. k - n \in DOMAIN new
      BY <1>3
    <3>2. k \in Nat /\ n \in Nat
      <4>1. chunks' \in Seq(Chunk)
        BY <1>2 DEF CountInv, TypesInv, TypeOK
      <4> QED BY <1>3, <4>1
    <3> QED BY <3>1, <3>2
  <2> QED BY <1>3, <2>1
<1>8. Placed'
  <2> SUFFICES ASSUME NEW k \in DOMAIN chunks'
               PROVE  /\ chunks'[k].doc \in DOMAIN corpus
                      /\ chunks'[k].section \in DOMAIN Sections(corpus[chunks'[k].doc])
                      /\ \A d, s : d = chunks'[k].doc /\ s = chunks'[k].section => Before(d, s)'
                      /\ NamedFor(chunks'[k].doc, chunks'[k].section, chunks'[k].id)
    BY <1>3 DEF Placed, Before, NamedFor, Base
  <2>1. CASE k \in DOMAIN chunks /\ chunks'[k] = chunks[k]
    BY <1>4, <2>1 DEF CiteInv, Placed
  <2>2. CASE \E j \in DOMAIN new : k = n + j /\ chunks'[k] = new[j]
    BY <1>3, <1>4, <1>5, <2>2
  <2> QED BY <1>7, <2>1, <2>2
<1>9. CutUp'
  <2> SUFFICES ASSUME NEW d \in DOMAIN corpus, NEW s \in DOMAIN Sections(corpus[d]),
                      Before(d, s)',
                      NEW i \in 1 .. Len(Sections(corpus[d])[s].words)
               PROVE  \E k \in DOMAIN chunks' :
                        /\ chunks'[k].doc = d /\ chunks'[k].section = s
                        /\ chunks'[k].from < i /\ i <= chunks'[k].to
    BY <1>3 DEF CutUp, Before
  <2>1. CASE Before(d, s)
    BY <1>3, <2>1 DEF CiteInv, CutUp
  <2>2. CASE d = doc /\ s = section
    <3>1. i \in 1 .. Size
      BY <2>2 DEF Size, Section
    <3>2. PICK j \in DOMAIN Done : Done[j].from < i /\ i <= Done[j].to
      BY <1>1, <3>1, DoneCovers
    <3>3. n + j \in DOMAIN chunks' /\ chunks'[n + j] = new[j]
      BY <1>3, <1>5
    <3>4. /\ new[j].doc = d /\ new[j].section = s
          /\ new[j].from < i /\ i <= new[j].to
      BY <1>5, <2>2, <3>2
    <3> QED BY <3>3, <3>4
  <2> QED BY <1>4, <2>1, <2>2
<1>10. DistinctTitles' <=> DistinctTitles
  BY <1>3 DEF DistinctTitles, Base
\* A chunk cut before comes from another section, whose base is another and
\* not that of a window.
<1>11. ASSUME DistinctTitles, NEW k \in DOMAIN chunks, NEW j \in DOMAIN new
       PROVE  chunks[k].id # new[j].id
  <2> SUFFICES ASSUME chunks[k].id = new[j].id PROVE FALSE
    OBVIOUS
  <2> DEFINE x == Base(chunks[k].doc, chunks[k].section)
             y == Base(doc, section)
  <2>1. /\ chunks[k].doc \in DOMAIN corpus
        /\ chunks[k].section \in DOMAIN Sections(corpus[chunks[k].doc])
        /\ Before(chunks[k].doc, chunks[k].section)
        /\ NamedFor(chunks[k].doc, chunks[k].section, chunks[k].id)
    BY DEF CiteInv, Placed
  <2>2. NamedFor(doc, section, chunks[k].id)
    BY <1>5
  <2>3. x \in Seq(Segments) /\ y \in Seq(Segments)
    BY <1>1, <1>3, <2>1, SectionShape
  <2>4. x # y
    <3>1. x = y => chunks[k].doc = doc /\ chunks[k].section = section
      BY <1>3, <1>11, <2>1 DEF DistinctTitles
    <3> QED BY <1>6, <2>1, <3>1
  <2>5. /\ IsPart(y, x) => Len(Sections(corpus[chunks[k].doc])[chunks[k].section].words) <= MaxTokens
        /\ IsPart(x, y) => Len(Sections(corpus[doc])[section].words) <= MaxTokens
    BY <1>3, <1>11, <2>1 DEF DistinctTitles
  <2>6. /\ Len(Sections(corpus[chunks[k].doc])[chunks[k].section].words) \in Nat
        /\ Len(Sections(corpus[doc])[section].words) \in Nat /\ MaxTokens \in Nat
    <3>1. /\ Sections(corpus[chunks[k].doc])[chunks[k].section].words \in Seq(Terms)
          /\ Sections(corpus[doc])[section].words \in Seq(Terms)
      BY <1>1, <1>3, <2>1, SectionShape
    <3> QED BY <3>1, WindowAssumption
  <2> HIDE DEF x, y
  <2>7. ASSUME NEW m \in Nat, NEW n1 \in Nat
        PROVE  /\ Append(x, m) # Append(y, n1)
               /\ x = Append(y, n1) => IsPart(x, y)
               /\ y = Append(x, m) => IsPart(y, x)
    <3>1. /\ Append(x, m) = Append(y, n1) => x = y
          /\ IsPart(Append(x, m), x)
      BY <2>3, PartsDiffer
    <3>2. IsPart(Append(y, n1), y)
      BY <2>3, PartsDiffer
    <3> QED BY <2>4, <3>1, <3>2
  <2>8. CASE chunks[k].id = x
    <3>1. PICK n1 \in Nat : x = Append(y, n1) /\ Len(Sections(corpus[doc])[section].words) > MaxTokens
      BY <2>2, <2>4, <2>8 DEF NamedFor, y
    <3> QED BY <2>5, <2>6, <2>7, <3>1
  <2>9. CASE chunks[k].id # x
    <3>1. PICK m \in Nat :
            /\ chunks[k].id = Append(x, m)
            /\ Len(Sections(corpus[chunks[k].doc])[chunks[k].section].words) > MaxTokens
      BY <2>1, <2>9 DEF NamedFor, x
    <3>2. chunks[k].id = y \/ \E n1 \in Nat : chunks[k].id = Append(y, n1)
      BY <2>2 DEF NamedFor, y
    <3> QED BY <2>5, <2>6, <2>7, <3>1, <3>2
  <2> QED BY <2>8, <2>9
<1>12. DistinctIds'
  <2> SUFFICES ASSUME DistinctTitles, NEW j \in DOMAIN chunks', NEW k \in DOMAIN chunks',
                      chunks'[j].id = chunks'[k].id
               PROVE  j = k
    BY <1>10 DEF DistinctIds
  <2>1. CASE j \in DOMAIN chunks /\ k \in DOMAIN chunks
    BY <1>3, <2>1 DEF CiteInv, DistinctIds
  <2>2. CASE j \notin DOMAIN chunks /\ k \notin DOMAIN chunks
    BY <1>5, <1>7, <2>2
  <2>3. CASE j \in DOMAIN chunks /\ k \notin DOMAIN chunks
    BY <1>3, <1>7, <1>11, <2>3
  <2>4. CASE j \notin DOMAIN chunks /\ k \in DOMAIN chunks
    BY <1>3, <1>7, <1>11, <2>4
  <2> QED BY <2>1, <2>2, <2>3, <2>4
<1>13. Stored'
  <2>1. \A k \in 1 .. indexed : k \in DOMAIN chunks
    <3>1. indexed \in 0 .. Len(chunks)
      BY <1>1 DEF TypeOK
    <3> QED BY <1>3, <3>1
  <2> QED BY <1>3, <1>10, <2>1 DEF CiteInv, Stored
<1> QED BY <1>2, <1>8, <1>9, <1>12, <1>13 DEF CiteInv

\* With ids of their own, no chunk takes the place of another in the tables.
LEMMA CiteAdd == CiteInv /\ Add => CiteInv'
<1> SUFFICES ASSUME CiteInv, Add PROVE CiteInv'
  OBVIOUS
<1> DEFINE new == chunks[indexed + 1]
<1>1. CountInv'
  BY CountAdd DEF CiteInv
<1>2. /\ UNCHANGED <<corpus, doc, section, chunks>> /\ indexed' = indexed + 1
      /\ lookup' = [id \in DOMAIN lookup \cup {new.id} |-> IF id = new.id THEN new ELSE lookup[id]]
  BY DEF Add
<1>3. Placed' /\ CutUp' /\ DistinctIds' /\ (DistinctTitles' <=> DistinctTitles)
  <2>1. Placed' <=> Placed
    BY <1>2 DEF Placed, Before, NamedFor, Base
  <2>2. CutUp' <=> CutUp
    BY <1>2 DEF CutUp, Before
  <2>3. DistinctTitles' <=> DistinctTitles
    BY <1>2 DEF DistinctTitles, Base
  <2>4. DistinctIds' <=> DistinctIds
    BY <1>2, <2>3 DEF DistinctIds
  <2> QED BY <2>1, <2>2, <2>3, <2>4 DEF CiteInv
<1>4. Stored'
  <2> SUFFICES ASSUME DistinctTitles, NEW k \in 1 .. indexed + 1
               PROVE  chunks[k].id \in DOMAIN lookup' /\ lookup'[chunks[k].id] = chunks[k]
    BY <1>2, <1>3 DEF Stored
  <2>1. chunks \in Seq(Chunk) /\ indexed \in 0 .. Len(chunks) /\ indexed < Len(chunks)
    BY DEF CiteInv, CountInv, TypesInv, TypeOK, Add
  <2>2. k \in DOMAIN chunks /\ indexed + 1 \in DOMAIN chunks
    BY <2>1
  <2>3. CASE k = indexed + 1
    BY <1>2, <2>3
  <2>4. CASE k # indexed + 1
    <3>1. k \in 1 .. indexed
      BY <2>1, <2>4
    <3>2. chunks[k].id # new.id
      BY <2>2, <2>4 DEF CiteInv, DistinctIds
    <3>3. chunks[k].id \in DOMAIN lookup /\ lookup[chunks[k].id] = chunks[k]
      BY <3>1 DEF CiteInv, Stored
    <3> QED BY <1>2, <3>2, <3>3
  <2> QED BY <2>3, <2>4
<1> QED BY <1>1, <1>3, <1>4 DEF CiteInv

LEMMA CiteStep == CiteInv /\ [Next]_vars => CiteInv'
<1> SUFFICES ASSUME CiteInv, [Next]_vars PROVE CiteInv'
  OBVIOUS
<1>1. CASE CutWindow \/ UNCHANGED vars
  <2>1. UNCHANGED <<corpus, doc, section, chunks, indexed, lookup>>
    BY <1>1 DEF CutWindow, vars
  <2>2. CountInv'
    BY CountStep DEF CiteInv
  <2>3. (Placed' <=> Placed) /\ (CutUp' <=> CutUp)
    BY <2>1 DEF Placed, CutUp, Before, NamedFor, Base
  <2>4. (DistinctIds' <=> DistinctIds) /\ (Stored' <=> Stored)
    BY <2>1 DEF DistinctIds, Stored, DistinctTitles, Base
  <2> QED BY <2>2, <2>3, <2>4 DEF CiteInv
<1> QED BY <1>1, CiteEmit, CiteAdd DEF Next

LEMMA CiteAlways == Spec => []CiteInv
  BY CiteInit, CiteStep, PTL DEF Spec

\* When no section has the title of another or of one of its windows, every
\* word of the corpus can be looked up by a clause id once the ingestion has
\* filled the tables.
THEOREM WordsCitable == Spec => []EveryWordCitable
<1>1. ASSUME CiteInv PROVE EveryWordCitable
  <2> SUFFICES ASSUME Ingested, DistinctTitles,
                      NEW d \in DOMAIN corpus, NEW s \in DOMAIN Sections(corpus[d]),
                      NEW i \in 1 .. Len(Sections(corpus[d])[s].words)
               PROVE  \E id \in DOMAIN lookup :
                        /\ lookup[id].doc = d /\ lookup[id].section = s
                        /\ lookup[id].from < i /\ i <= lookup[id].to
    BY DEF EveryWordCitable
  <2>1. /\ corpus \in Corpora /\ corpus \in Seq(Document) /\ doc \in Nat
        /\ chunks \in Seq(Chunk) /\ indexed = Len(chunks)
    BY <1>1, CorporaAssumption DEF CiteInv, CountInv, TypesInv, WInv, PlaceOK, TypeOK, Ingested
  <2>2. Before(d, s)
    BY <2>1 DEF Ingested, Cutting, Before
  <2>3. PICK k \in DOMAIN chunks : /\ chunks[k].doc = d /\ chunks[k].section = s
                                   /\ chunks[k].from < i /\ i <= chunks[k].to
    BY <1>1, <2>2 DEF CiteInv, CutUp
  <2>4. k \in 1 .. indexed
    BY <2>1
  <2>5. chunks[k].id \in DOMAIN lookup /\ lookup[chunks[k].id] = chunks[k]
    BY <1>1, <2>4 DEF CiteInv, Stored
  <2> QED BY <2>3, <2>5
<1> QED BY <1>1, CiteAlways, PTL
=============================================================================
