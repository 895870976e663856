------------------------- MODULE RagPipelineProofs -------------------------
(* Theorems about RagPipeline: for any number of processes and releases of *)
(* the corpus, on a shared store or on stores of their own.                *)
EXTENDS RagPipeline, SequenceTheorems, FiniteSetTheorems, TLAPS

Places == Procs \cup {Cloud}

\* What is in the store p searches covers what is in p's tables.
Searchable(p) == DOMAIN Tables(p) \subseteq DOMAIN Store(p)

SInv ==
  /\ pc = [p \in Procs |-> pc[p]]
  /\ version = [p \in Procs |-> version[p]]
  /\ store = [x \in Places |-> store[x]]
  /\ faults \in [FaultKinds -> Nat]
  /\ \A p \in Procs : p \in Workers => version[p] = NoVersion
  /\ ReadyIsSearchable

\* A fault of another kind leaves the count of refused documents.
LEMMA RejectedCounts ==
  ASSUME faults \in [FaultKinds -> Nat], NEW k \in FaultKinds, Fault(k)
  PROVE  /\ faults' \in [FaultKinds -> Nat]
         /\ faults'["rejected"] = 0 => faults["rejected"] = 0 /\ k # "rejected"
  BY DEF Fault, FaultKinds

LEMMA SearchInit == Init => SInv
<1> SUFFICES ASSUME Init PROVE SInv
  OBVIOUS
<1>1. faults \in [FaultKinds -> Nat]
  BY DEF Init
<1>2. \A p \in Procs : pc[p] = "down" /\ version[p] = NoVersion
  BY DEF Init
<1>3. ReadyIsSearchable
  BY <1>2 DEF ReadyIsSearchable
<1> QED BY <1>1, <1>2, <1>3 DEF Init, SInv, Places

\* A step that takes p somewhere else than to "ready" and keeps the stores.
LEMMA SearchGoto ==
  ASSUME SInv, NEW p \in Procs, NEW l, l # "ready", Goto(p, l),
         UNCHANGED <<provider, store>>,
         version' = version \/ version' = [version EXCEPT ![p] = NoVersion],
         faults' = faults \/ \E k \in FaultKinds : Fault(k)
  PROVE  SInv'
<1>1. /\ faults' \in [FaultKinds -> Nat]
      /\ faults'["rejected"] = 0 => faults["rejected"] = 0
  BY RejectedCounts DEF SInv
<1>2. /\ pc' = [q \in Procs |-> pc'[q]] /\ pc'[p] = l
      /\ version' = [q \in Procs |-> version'[q]]
      /\ \A q \in Procs \ {p} : pc'[q] = pc[q] /\ version'[q] = version[q]
  BY DEF SInv, Goto
<1>3. \A q \in Procs : q \in Workers => version'[q] = NoVersion
  BY <1>2 DEF SInv
<1>4. ASSUME NEW q \in Procs, pc'[q] = "ready", faults'["rejected"] = 0
      PROVE  DOMAIN Tables(q)' \subseteq DOMAIN Store(q)'
  <2>1. q # p /\ pc[q] = "ready" /\ version'[q] = version[q]
    BY <1>2, <1>4
  <2>2. Tables(q)' = Tables(q) /\ Store(q)' = Store(q)
    BY <2>1 DEF Tables, Store, Place
  <2>3. DOMAIN Tables(q) \subseteq DOMAIN Store(q)
    BY <1>1, <1>4, <2>1 DEF SInv, ReadyIsSearchable
  <2> QED BY <2>2, <2>3
<1>5. ReadyIsSearchable'
  BY <1>4 DEF ReadyIsSearchable
<1>6. store' = [x \in Places |-> store'[x]]
  BY DEF SInv
<1> QED BY <1>1, <1>2, <1>3, <1>5, <1>6 DEF SInv

\* A process starts with the empty tables of a worker, or is not ready yet, and
\* touches no store but its own.
LEMMA SearchStart ==
  ASSUME SInv, NEW p \in Procs, NEW v \in Versions, Start(p, v)
  PROVE  SInv'
<1>1. /\ UNCHANGED <<provider, faults>>
      /\ store' = [store EXCEPT ![p] = <<>>]
      /\ store' = [x \in Places |-> store'[x]]
      /\ \A x \in Places \ {p} : store'[x] = store[x]
  BY DEF Start, SInv, Places
<1>2. /\ pc' = [q \in Procs |-> pc'[q]] /\ version' = [q \in Procs |-> version'[q]]
      /\ \A q \in Procs \ {p} : pc'[q] = pc[q] /\ version'[q] = version[q]
  BY DEF Start, SInv, Goto
<1>3. \A q \in Procs : q \in Workers => version'[q] = NoVersion
  BY <1>2 DEF Start, SInv
<1>4. pc'[p] = "ready" => DOMAIN Tables(p)' = {}
  <2>1. CASE p \in Workers
    BY <1>3, <2>1 DEF Tables
  <2>2. CASE p \notin Workers
    <3>1. /\ version'[p] = v /\ v # NoVersion
          /\ pc'[p] = IF DOMAIN Corpus[v] = {} THEN "ready" ELSE "embed"
      BY <2>2, PlaceAssumption DEF Start, SInv, Goto
    <3> QED BY <3>1 DEF Tables
  <2> QED BY <2>1, <2>2
<1>5. ASSUME NEW q \in Procs, pc'[q] = "ready", faults'["rejected"] = 0
      PROVE  DOMAIN Tables(q)' \subseteq DOMAIN Store(q)'
  <2>1. CASE q = p
    BY <1>4, <1>5, <2>1
  <2>2. CASE q # p
    <3>1. Place(q) \in Places \ {p} /\ Place(q)' = Place(q)
      BY <1>1, <2>2, PlaceAssumption DEF Place, Places
    <3>2. Tables(q)' = Tables(q) /\ Store(q)' = Store(q)
      BY <1>1, <1>2, <2>2, <3>1 DEF Tables, Store
    <3>3. DOMAIN Tables(q) \subseteq DOMAIN Store(q)
      BY <1>1, <1>2, <1>5, <2>2 DEF SInv, ReadyIsSearchable
    <3> QED BY <3>2, <3>3
  <2> QED BY <2>1, <2>2
<1>6. ReadyIsSearchable'
  BY <1>5 DEF ReadyIsSearchable
<1>7. faults' \in [FaultKinds -> Nat]
  BY <1>1 DEF SInv
<1> QED BY <1>1, <1>2, <1>3, <1>6, <1>7 DEF SInv

\* An upsert only adds to a store, and what it puts there is there.
LEMMA PutAdds ==
  ASSUME SInv, NEW p \in Procs, NEW ids, Put(p, ids), UNCHANGED provider
  PROVE  /\ store' = [x \in Places |-> store'[x]]
         /\ \A x \in Places : DOMAIN store[x] \subseteq DOMAIN store'[x]
         /\ ids \subseteq DOMAIN Store(p)'
<1> DEFINE new == [id \in ids \cup DOMAIN store[Place(p)] |->
                     IF id \in ids THEN Tables(p)[id] ELSE store[Place(p)][id]]
<1>1. Place(p) \in Places /\ Place(p)' = Place(p)
  BY DEF Place, Places
<1>2. store' = [store EXCEPT ![Place(p)] = new]
  BY DEF Put
<1>3. DOMAIN new = ids \cup DOMAIN store[Place(p)]
  OBVIOUS
<1> HIDE DEF new
<1>4. store'[Place(p)] = new /\ \A x \in Places \ {Place(p)} : store'[x] = store[x]
  BY <1>1, <1>2 DEF SInv
<1>5. Store(p)' = new
  BY <1>1, <1>4 DEF Store
<1> QED BY <1>1, <1>2, <1>3, <1>4, <1>5 DEF SInv

LEMMA SearchUpload ==
  ASSUME SInv, NEW p \in Procs, Upload(p)
  PROVE  SInv'
<1> DEFINE all == DOMAIN Tables(p)
           Done == Goto(p, IF p \in Jobs THEN "down" ELSE "ready")
                   /\ version' = [version EXCEPT ![p] = IF p \in Jobs THEN NoVersion ELSE @]
<1>1. UNCHANGED provider
  BY DEF Upload
<1>2. CASE Fault("io") /\ Exit(p) /\ UNCHANGED store
  <2>1. Goto(p, "down") /\ version' = [version EXCEPT ![p] = NoVersion]
    BY <1>2 DEF Exit
  <2> QED BY <1>1, <1>2, <2>1, SearchGoto DEF FaultKinds
<1>3. ASSUME NEW ids, Put(p, ids),
             Done \/ Exit(p),
             /\ faults' \in [FaultKinds -> Nat]
             /\ faults'["rejected"] = 0 =>
                  faults["rejected"] = 0 /\ (Done => ids = all)
      PROVE  SInv'
  <2>1. /\ store' = [x \in Places |-> store'[x]]
        /\ \A x \in Places : DOMAIN store[x] \subseteq DOMAIN store'[x]
        /\ ids \subseteq DOMAIN Store(p)'
    BY <1>1, <1>3, PutAdds
  <2>2. /\ pc' = [q \in Procs |-> pc'[q]] /\ version' = [q \in Procs |-> version'[q]]
        /\ \A q \in Procs \ {p} : pc'[q] = pc[q] /\ version'[q] = version[q]
        /\ version'[p] \in {version[p], NoVersion}
    BY <1>3 DEF Exit, Goto, SInv
  <2>3. \A q \in Procs : q \in Workers => version'[q] = NoVersion
    BY <2>2 DEF SInv
  <2>4. ASSUME NEW q \in Procs, pc'[q] = "ready", faults'["rejected"] = 0
        PROVE  DOMAIN Tables(q)' \subseteq DOMAIN Store(q)'
    <3>1. CASE q = p
      <4>1. Done
        BY <1>3, <2>4, <3>1 DEF Exit, Goto, SInv
      <4>2. DOMAIN Tables(p)' \subseteq all
        BY <2>2 DEF Tables
      <4> QED BY <1>3, <2>1, <2>4, <3>1, <4>1, <4>2
    <3>2. CASE q # p
      <4>1. Tables(q)' = Tables(q)
        BY <2>2, <3>2 DEF Tables
      <4>2. Place(q) \in Places /\ Place(q)' = Place(q)
        BY <1>1 DEF Place, Places
      <4>3. DOMAIN Store(q) \subseteq DOMAIN Store(q)'
        BY <2>1, <4>2 DEF Store
      <4>4. DOMAIN Tables(q) \subseteq DOMAIN Store(q)
        BY <1>3, <2>2, <2>4, <3>2 DEF SInv, ReadyIsSearchable
      <4> QED BY <4>1, <4>3, <4>4
    <3> QED BY <3>1, <3>2
  <2>5. ReadyIsSearchable'
    BY <2>4 DEF ReadyIsSearchable
  <2> QED BY <1>3, <2>1, <2>2, <2>3, <2>5 DEF SInv
<1>4. CASE Put(p, all) /\ Done /\ UNCHANGED faults
  <2>1. faults' \in [FaultKinds -> Nat] /\ faults' = faults
    BY <1>4 DEF SInv
  <2> QED BY <1>3, <1>4, <2>1
<1>5. CASE Fault("rejected") /\ Done /\ \E ids \in SUBSET all : Put(p, ids)
  <2>1. faults' \in [FaultKinds -> Nat] /\ faults'["rejected"] # 0
    BY <1>5, RejectedCounts DEF SInv, FaultKinds
  <2>2. PICK ids \in SUBSET all : Put(p, ids)
    BY <1>5
  <2> QED BY <1>3, <1>5, <2>1, <2>2
<1>6. CASE Fault("lost_reply") /\ Exit(p) /\ Put(p, all)
  <2>1. /\ faults' \in [FaultKinds -> Nat]
        /\ faults'["rejected"] = 0 => faults["rejected"] = 0
    BY <1>6, RejectedCounts DEF SInv, FaultKinds
  <2> QED BY <1>3, <1>6, <2>1
<1> QED BY <1>2, <1>4, <1>5, <1>6 DEF Upload

LEMMA SearchStep == SInv /\ [Next]_vars => SInv'
<1> SUFFICES ASSUME SInv, [Next]_vars PROVE SInv'
  OBVIOUS
<1>1. ASSUME NEW p \in Procs, NEW v \in Versions, Start(p, v) PROVE SInv'
  BY <1>1, SearchStart
<1>2. ASSUME NEW p \in Procs, Embed(p) \/ CheckIndex(p) \/ CreateIndex(p) \/ Crash(p)
      PROVE  SInv'
  <2>1. UNCHANGED <<provider, store>>
    BY <1>2 DEF Embed, CheckIndex, CreateIndex, Crash
  <2>2. faults' = faults \/ \E k \in FaultKinds : Fault(k)
    BY <1>2 DEF Embed, CheckIndex, CreateIndex, Crash, FaultKinds
  <2>3. /\ version' = version \/ version' = [version EXCEPT ![p] = NoVersion]
        /\ \E l \in {"down", "check", "create", "upload"} : Goto(p, l)
    BY <1>2 DEF Embed, CheckIndex, CreateIndex, Crash, Exit
  <2> QED BY <2>1, <2>2, <2>3, SearchGoto
<1>3. ASSUME NEW p \in Procs, Upload(p) PROVE SInv'
  BY <1>3, SearchUpload
<1>4. CASE Rerank \/ (\E p \in Procs, q \in Queries : Search(p, q)) \/ UNCHANGED vars
  <2>1. UNCHANGED <<provider, pc, version, store>>
    BY <1>4 DEF Rerank, Search, vars
  <2>2. faults' = faults \/ \E k \in FaultKinds : Fault(k)
    BY <1>4 DEF Rerank, Search, vars, FaultKinds
  <2>3. /\ faults' \in [FaultKinds -> Nat]
        /\ faults'["rejected"] = 0 => faults["rejected"] = 0
    BY <2>2, RejectedCounts DEF SInv
  <2>4. \A p \in Procs : Tables(p)' = Tables(p) /\ Store(p)' = Store(p)
    BY <2>1 DEF Tables, Store, Place
  <2>5. ReadyIsSearchable'
    BY <2>1, <2>3, <2>4 DEF SInv, ReadyIsSearchable
  <2> QED BY <2>1, <2>3, <2>5 DEF SInv
<1> QED BY <1>1, <1>2, <1>3, <1>4 DEF Next, Step

LEMMA SearchAlways == Spec => []SInv
  BY SearchInit, SearchStep, PTL DEF Spec

\* However many processes ingest whatever releases, in any order and with any
\* calls failing, a process that serves finds every clause of its own tables in
\* the store it searches, as long as the store refused no document.
THEOREM ServingIsSearchable == Spec => []ReadyIsSearchable
<1>1. SInv => ReadyIsSearchable
  BY DEF SInv
<1> QED BY <1>1, SearchAlways, PTL

-----------------------------------------------------------------------------
(* Lists *)

\* R orders S totally.
Total(S, R) ==
  /\ \A x \in S : <<x, x>> \notin R
  /\ \A x, y \in S : x # y => <<x, y>> \in R \/ <<y, x>> \in R
  /\ \A x, y, z \in S : <<x, y>> \in R /\ <<y, z>> \in R => <<x, z>> \in R

\* Listed names each member of a finite set once, in the order given.
LEMMA ListedInOrder ==
  ASSUME NEW S, IsFiniteSet(S), NEW R, Total(S, R)
  PROVE  LET list == Listed(S, R)
         IN  /\ Cardinality(S) \in Nat
             /\ list \in [1..Cardinality(S) -> S]
             /\ \A x \in S : \E n \in 1..Cardinality(S) : list[n] = x
             /\ \A m, n \in 1..Cardinality(S) : m < n => <<list[m], list[n]>> \in R
<1> DEFINE below(x) == {y \in S : <<y, x>> \in R}
           N == Cardinality(S)
           rank == [x \in S |-> Cardinality(below(x)) + 1]
<1>1. N \in Nat
  BY FS_CardinalityType
<1>2. \A x \in S : IsFiniteSet(below(x)) /\ Cardinality(below(x)) \in 0..(N - 1)
  <2> SUFFICES ASSUME NEW x \in S
               PROVE  IsFiniteSet(below(x)) /\ Cardinality(below(x)) \in 0..(N - 1)
    OBVIOUS
  <2>1. below(x) \in SUBSET (S \ {x})
    BY DEF Total
  <2>2. IsFiniteSet(S \ {x}) /\ Cardinality(S \ {x}) = N - 1
    BY FS_RemoveElement
  <2> HIDE DEF N, below
  <2>3. IsFiniteSet(below(x)) /\ Cardinality(below(x)) <= N - 1
    <3>1. IsFiniteSet(below(x)) /\ Cardinality(below(x)) <= Cardinality(S \ {x})
      BY <2>1, <2>2, FS_Subset
    <3> QED BY <2>2, <3>1
  <2>4. Cardinality(below(x)) \in Nat
    BY <2>3, FS_CardinalityType
  <2> QED BY <1>1, <2>3, <2>4
<1>3. \A x, y \in S : <<x, y>> \in R => Cardinality(below(x)) < Cardinality(below(y))
  <2> SUFFICES ASSUME NEW x \in S, NEW y \in S, <<x, y>> \in R
               PROVE  Cardinality(below(x)) < Cardinality(below(y))
    OBVIOUS
  <2>1. below(x) \in SUBSET below(y) /\ below(x) # below(y)
    BY DEF Total
  <2>2. IsFiniteSet(below(y)) /\ Cardinality(below(x)) \in Nat /\ Cardinality(below(y)) \in Nat
    BY <1>1, <1>2
  <2> HIDE DEF below
  <2>3. Cardinality(below(x)) <= Cardinality(below(y)) /\ Cardinality(below(x)) # Cardinality(below(y))
    BY <2>1, <2>2, FS_Subset
  <2> QED BY <2>2, <2>3
<1> HIDE DEF below
<1>4. rank \in Injection(S, 1..N)
  <2>1. rank \in [S -> 1..N]
    BY <1>1, <1>2
  <2>2. \A x, y \in S : rank[x] = rank[y] => x = y
    <3> SUFFICES ASSUME NEW x \in S, NEW y \in S, x # y PROVE rank[x] # rank[y]
      OBVIOUS
    <3>1. Cardinality(below(x)) \in Nat /\ Cardinality(below(y)) \in Nat
      BY <1>1, <1>2
    <3>2. CASE <<x, y>> \in R
      BY <1>3, <3>1, <3>2
    <3>3. CASE <<y, x>> \in R
      BY <1>3, <3>1, <3>3
    <3> QED BY <3>2, <3>3 DEF Total
  <2> QED BY <2>1, <2>2 DEF Injection, IsInjective
<1>5. rank \in Surjection(S, 1..N)
  <2>1. IsFiniteSet(1..N) /\ Cardinality(1..N) = N
    BY <1>1, FS_Interval
  <2> QED BY <1>4, <2>1, FS_Injection
<1>6. \A n \in 1..N : \E x \in S : Cardinality(below(x)) = n - 1
  <2> SUFFICES ASSUME NEW n \in 1..N PROVE \E x \in S : Cardinality(below(x)) = n - 1
    OBVIOUS
  <2>1. PICK x \in S : rank[x] = n
    BY <1>5 DEF Surjection
  <2> QED BY <1>1, <1>2, <2>1
<1> DEFINE list == [n \in 1..N |-> CHOOSE x \in S : Cardinality(below(x)) = n - 1]
<1>7. list = Listed(S, R)
  BY DEF Listed, below
<1>8. \A n \in 1..N : list[n] \in S /\ Cardinality(below(list[n])) = n - 1
  BY <1>6
<1> HIDE DEF list
<1>9. list \in [1..N -> S]
  BY <1>7, <1>8 DEF Listed
<1>10. \A x \in S : \E n \in 1..N : list[n] = x
  <2> SUFFICES ASSUME NEW x \in S PROVE \E n \in 1..N : list[n] = x
    OBVIOUS
  <2>1. rank[x] \in 1..N /\ rank[x] - 1 = Cardinality(below(x))
    BY <1>1, <1>2
  <2>2. list[rank[x]] \in S /\ Cardinality(below(list[rank[x]])) = Cardinality(below(x))
    BY <1>8, <2>1
  <2>3. rank[list[rank[x]]] = rank[x]
    BY <2>2
  <2>4. list[rank[x]] = x
    BY <1>4, <2>2, <2>3 DEF Injection, IsInjective
  <2> QED BY <2>1, <2>4
<1>11. \A m, n \in 1..N : m < n => <<list[m], list[n]>> \in R
  <2> SUFFICES ASSUME NEW m \in 1..N, NEW n \in 1..N, m < n PROVE <<list[m], list[n]>> \in R
    OBVIOUS
  <2>1. /\ list[m] \in S /\ list[n] \in S
        /\ Cardinality(below(list[m])) = m - 1 /\ Cardinality(below(list[n])) = n - 1
    BY <1>8
  <2>2. list[m] # list[n]
    BY <1>1, <2>1
  <2>3. CASE <<list[n], list[m]>> \in R
    BY <1>1, <1>3, <2>1, <2>3
  <2> QED BY <2>1, <2>2, <2>3 DEF Total
<1> QED BY <1>1, <1>7, <1>9, <1>10, <1>11

LEMMA UpTo ==
  ASSUME NEW n \in Nat, NEW P, P \subseteq 1..n
  PROVE  IsFiniteSet(P) /\ Cardinality(P) \in Nat /\ Cardinality(P) <= n
<1>1. IsFiniteSet(1..n) /\ Cardinality(1..n) = n
  BY FS_Interval
<1> QED BY <1>1, FS_Subset, FS_CardinalityType

LEMMA NumbersTotal ==
  ASSUME NEW P, P \subseteq Nat
  PROVE  Total(P, {ij \in P \X P : ij[1] < ij[2]})
BY DEF Total

\* What is kept of a list is a list, and its members stay in their order.
LEMMA KeptInOrder ==
  ASSUME NEW T, NEW s \in Seq(T), NEW P, P \subseteq DOMAIN s
  PROVE  LET kept == Kept(s, P)
         IN  /\ kept \in Seq(T) /\ Len(kept) \in Nat /\ Len(kept) <= Len(s)
             /\ DOMAIN kept = 1..Len(kept)
             /\ \E at \in [1..Len(kept) -> P] :
                  /\ \A m, n \in 1..Len(kept) : m < n => at[m] < at[n]
                  /\ \A n \in 1..Len(kept) : kept[n] = s[at[n]]
<1> DEFINE R == {ij \in P \X P : ij[1] < ij[2]}
           at == Listed(P, R)
           N == Cardinality(P)
<1>1. DOMAIN s = 1..Len(s) /\ Len(s) \in Nat
  BY LenProperties
<1>2. P \subseteq Nat
  BY <1>1
<1>3. Total(P, R)
  BY <1>2, NumbersTotal
<1>4. IsFiniteSet(P) /\ N <= Len(s)
  BY <1>1, UpTo
<1> HIDE DEF R
<1>5. /\ N \in Nat /\ at \in [1..N -> P]
      /\ \A m, n \in 1..N : m < n => <<at[m], at[n]>> \in R
  BY <1>3, <1>4, ListedInOrder
<1>6. \A m, n \in 1..N : m < n => at[m] < at[n]
  BY <1>5 DEF R
<1> DEFINE kept == [n \in 1..N |-> s[at[n]]]
<1>7. kept = Kept(s, P)
  BY DEF Kept, R
<1> HIDE DEF N, at
<1>8. \A n \in 1..N : s[at[n]] \in T
  BY <1>1, <1>5, ElementOfSeq
<1>9. kept \in Seq(T)
  BY <1>5, <1>8, SeqDef
<1>10. DOMAIN kept = 1..N /\ Len(kept) = N
  BY <1>5, <1>9, LenProperties
<1>11. \A n \in 1..N : kept[n] = s[at[n]]
  OBVIOUS
<1> HIDE DEF kept
<1> QED BY <1>4, <1>5, <1>6, <1>7, <1>9, <1>10, <1>11

\* The first entries of a list.
LEMMA Prefix ==
  ASSUME NEW T, NEW s \in Seq(T), NEW m \in Nat, m <= Len(s)
  PROVE  /\ SubSeq(s, 1, m) \in Seq(T) /\ Len(SubSeq(s, 1, m)) = m
         /\ \A i \in 1..m : SubSeq(s, 1, m)[i] = s[i]
         /\ DOMAIN SubSeq(s, 1, m) = 1..m
<1>1. \A i \in 1..m : s[i] \in T /\ 1 + i - 1 = i
  BY ElementOfSeq, LenProperties
<1>2. 1 \in Int /\ m \in Int /\ m - 1 + 1 = m /\ (m < 1 => m = 0)
  OBVIOUS
<1>3. /\ SubSeq(s, 1, m) \in Seq(T)
      /\ Len(SubSeq(s, 1, m)) = IF 1 <= m THEN m - 1 + 1 ELSE 0
      /\ \A i \in 1..m - 1 + 1 : SubSeq(s, 1, m)[i] = s[1 + i - 1]
  BY <1>1, <1>2, SubSeqProperties
<1>4. Len(SubSeq(s, 1, m)) = m
  BY <1>2, <1>3
<1>5. \A i \in 1..m : SubSeq(s, 1, m)[i] = s[i]
  BY <1>1, <1>2, <1>3
<1> QED BY <1>3, <1>4, <1>5, LenProperties

LEMMA FirstOfList ==
  ASSUME NEW T, NEW s \in Seq(T), NEW k \in Nat
  PROVE  LET first == First(s, k)
         IN  /\ first \in Seq(T) /\ Len(first) \in Nat /\ DOMAIN first = 1..Len(first)
             /\ Len(first) <= k /\ Len(first) <= Len(s)
             /\ \A i \in 1..Len(first) : first[i] = s[i]
<1>1. Len(s) \in Nat
  BY LenProperties
<1>2. PICK m \in 0..Len(s) : m = Min({k, Len(s)}) /\ m <= k
  <2>1. \E m \in {k, Len(s)} : \A y \in {k, Len(s)} : m =< y
    BY <1>1
  <2>2. Min({k, Len(s)}) \in {k, Len(s)} /\ \A y \in {k, Len(s)} : Min({k, Len(s)}) =< y
    BY <2>1 DEF Min
  <2> QED BY <1>1, <2>2
<1>3. First(s, k) = SubSeq(s, 1, m) /\ m \in Nat /\ m <= Len(s)
  BY <1>1, <1>2 DEF First
<1> DEFINE first == First(s, k)
<1>4. /\ first \in Seq(T) /\ Len(first) = m /\ DOMAIN first = 1..m
      /\ \A i \in 1..m : first[i] = s[i]
  BY <1>3, Prefix
<1> HIDE DEF first
<1>5. /\ first \in Seq(T) /\ Len(first) \in Nat /\ DOMAIN first = 1..Len(first)
      /\ Len(first) <= k /\ Len(first) <= Len(s)
      /\ \A i \in 1..Len(first) : first[i] = s[i]
  BY <1>1, <1>2, <1>3, <1>4
<1> QED BY <1>5 DEF first

\* A finite set of numbers has a least and a greatest one.
LEMMA Extremes ==
  ASSUME NEW S, S \subseteq Nat, IsFiniteSet(S), S # {}
  PROVE  /\ Min(S) \in S /\ \A y \in S : Min(S) <= y
         /\ Max(S) \in S /\ \A y \in S : y <= Max(S)
<1> DEFINE R == {ij \in S \X S : ij[1] < ij[2]}
           list == Listed(S, R)
           N == Cardinality(S)
<1>1. Total(S, R)
  BY NumbersTotal
<1>2. N \in Nat /\ N # 0
  BY FS_CardinalityType, FS_EmptySet
<1> HIDE DEF R
<1>3. /\ list \in [1..N -> S]
      /\ \A x \in S : \E n \in 1..N : list[n] = x
      /\ \A m, n \in 1..N : m < n => <<list[m], list[n]>> \in R
  BY <1>1, ListedInOrder
<1> HIDE DEF N, list
<1>4. \A m, n \in 1..N : m <= n => list[m] <= list[n]
  <2> SUFFICES ASSUME NEW m \in 1..N, NEW n \in 1..N, m <= n PROVE list[m] <= list[n]
    OBVIOUS
  <2>1. list[m] \in Nat /\ list[n] \in Nat
    BY <1>3
  <2>2. CASE m < n
    <3>1. <<list[m], list[n]>> \in R
      BY <1>3, <2>2
    <3> QED BY <2>1, <3>1 DEF R
  <2>3. CASE m = n
    BY <2>1, <2>3
  <2> QED BY <1>2, <2>2, <2>3
<1>5. list[1] \in S /\ \A y \in S : list[1] <= y
  BY <1>2, <1>3, <1>4
<1>6. list[N] \in S /\ \A y \in S : y <= list[N]
  BY <1>2, <1>3, <1>4
<1>7. Min(S) \in S /\ \A y \in S : Min(S) =< y
  BY <1>5 DEF Min
<1>8. Max(S) \in S /\ \A y \in S : Max(S) >= y
  <2>1. \E x \in S : \A y \in S : x >= y
    BY <1>6
  <2> QED BY <2>1 DEF Max
<1> QED BY <1>7, <1>8

-----------------------------------------------------------------------------
(* Scores *)

LEMMA Numbers ==
  /\ TopK \in Nat /\ DenseWeight \in Nat /\ LexicalWeight \in Nat /\ RrfK \in Nat
  /\ Scale \in Nat /\ Tau \in Nat /\ 3 * TopK \in Nat /\ 2 * TopK \in Nat
  BY NumbersAssumption

LEMMA TimesGrows ==
  ASSUME NEW a \in Nat, NEW b \in Nat, NEW c \in Nat, a <= b
  PROVE  c * a <= c * b
  OBVIOUS

\* A list as the searches give it: no longer than three times the cut.
HitList == {s \in Seq(ClauseIds) : Len(s) <= 3 * TopK}

\* What a rank contributes is between that of the last and that of the first.
LEMMA ShareBounds ==
  ASSUME NEW s \in HitList, NEW id, NEW w \in Nat
  PROVE  LET share == Share(s, id, w)
         IN  /\ share \in Nat
             /\ share * (RrfK + 1) <= w * Scale
             /\ id \notin Range(s) => share = 0
             /\ id \in Range(s) => w * Scale <= share * (RrfK + 3 * TopK)
<1> DEFINE ranks == {i \in DOMAIN s : s[i] = id}
<1>1. DOMAIN s = 1..Len(s) /\ Len(s) \in Nat /\ Len(s) <= 3 * TopK
  BY LenProperties DEF HitList
<1>2. (ranks = {}) <=> id \notin Range(s)
  BY DEF Range
<1>3. CASE ranks = {}
  <2>1. Share(s, id, w) = 0
    BY <1>3 DEF Share
  <2>2. 0 * (RrfK + 1) = 0 /\ w * Scale \in Nat
    BY Numbers
  <2> QED BY <1>2, <1>3, <2>1, <2>2
<1>4. CASE ranks # {}
  <2>1. ranks \subseteq 1..Len(s) /\ ranks \subseteq Nat
    BY <1>1
  <2>2. IsFiniteSet(ranks)
    BY <1>1, <2>1, UpTo
  <2>3. PICK r \in 1..(3 * TopK) : r = Min(ranks)
    <3>1. Min(ranks) \in ranks
      BY <1>4, <2>1, <2>2, Extremes
    <3>2. Min(ranks) \in 1..(3 * TopK)
      BY <1>1, <2>1, <3>1, Numbers
    <3> QED BY <3>2
  <2> DEFINE q == Scale \div (RrfK + r)
  <2>4. RrfK + r \in Nat \ {0} /\ Scale % (RrfK + r) = 0
    BY <2>3, ScaleAssumption, Numbers
  <2>5. q \in Nat /\ Scale = (RrfK + r) * q
    BY <2>4, Numbers
  <2>6. Share(s, id, w) = w * q
    BY <1>4, <2>3 DEF Share
  <2> HIDE DEF q
  <2>7. q * (RrfK + 1) <= Scale /\ Scale <= q * (RrfK + 3 * TopK)
    <3>1. q * (RrfK + 1) <= q * (RrfK + r)
      BY <2>5, <2>3, Numbers, TimesGrows
    <3>2. q * (RrfK + r) <= q * (RrfK + 3 * TopK)
      BY <2>5, <2>3, Numbers, TimesGrows
    <3>3. q * (RrfK + r) = Scale
      BY <2>5, <2>4
    <3> QED BY <3>1, <3>2, <3>3
  <2>8. (w * q) * (RrfK + 1) <= w * Scale /\ w * Scale <= (w * q) * (RrfK + 3 * TopK)
    <3>1. q * (RrfK + 1) \in Nat /\ q * (RrfK + 3 * TopK) \in Nat
      BY <2>5, Numbers
    <3>2. w * (q * (RrfK + 1)) <= w * Scale /\ w * Scale <= w * (q * (RrfK + 3 * TopK))
      BY <2>7, <3>1, Numbers, TimesGrows
    <3>3. /\ (w * q) * (RrfK + 1) = w * (q * (RrfK + 1))
          /\ (w * q) * (RrfK + 3 * TopK) = w * (q * (RrfK + 3 * TopK))
      BY <2>5, Numbers
    <3> QED BY <3>2, <3>3
  <2>9. w * q \in Nat
    BY <2>5
  <2> QED BY <1>2, <1>4, <2>6, <2>8, <2>9
<1> QED BY <1>3, <1>4

-----------------------------------------------------------------------------
(* Fusion *)

Hits == [id : ClauseIds, score : Nat]

\* The members of a list are finitely many.
LEMMA RangeFinite ==
  ASSUME NEW T, NEW s \in Seq(T)
  PROVE  IsFiniteSet(Range(s)) /\ Range(s) \subseteq T
<1>1. DOMAIN s = 1..Len(s) /\ Len(s) \in Nat /\ \A i \in 1..Len(s) : s[i] \in T
  BY LenProperties, ElementOfSeq
<1>2. IsFiniteSet(DOMAIN s)
  BY <1>1, UpTo
<1>3. s \in Surjection(DOMAIN s, Range(s))
  BY <1>1 DEF Surjection, Range
<1>4. IsFiniteSet(Range(s))
  BY <1>2, <1>3, FS_Surjection
<1> QED BY <1>1, <1>4 DEF Range

LEMMA ClausesNumbered == ClauseIds \subseteq Nat
  BY IdsAssumption

\* Hits with clauses of their own are totally ordered.
LEMMA BeforeTotal ==
  ASSUME NEW hits, hits \subseteq Hits, \A h, g \in hits : h.id = g.id => h = g
  PROVE  Total(hits, {hg \in hits \X hits : Before(hg[1], hg[2])})
<1> DEFINE R == {hg \in hits \X hits : Before(hg[1], hg[2])}
<1>1. \A h \in hits : h.id \in Nat /\ h.score \in Nat
  BY ClausesNumbered DEF Hits
<1>2. \A h, g \in hits : <<h, g>> \in R <=> Before(h, g)
  OBVIOUS
<1> HIDE DEF R
<1>3. \A h \in hits : <<h, h>> \notin R
  BY <1>1, <1>2 DEF Before
<1>4. \A h, g \in hits : h # g => <<h, g>> \in R \/ <<g, h>> \in R
  BY <1>1, <1>2 DEF Before
<1>5. \A h, g, k \in hits : <<h, g>> \in R /\ <<g, k>> \in R => <<h, k>> \in R
  BY <1>1, <1>2 DEF Before
<1> QED BY <1>3, <1>4, <1>5 DEF Total, R

\* What fusion and its cuts make of two lists: each clause once, the best
\* first, with scores that keep within what the lists can give.
FusedScore(h, d, l) ==
  /\ h.score * (RrfK + 1) <= (DenseWeight + LexicalWeight) * Scale
  /\ h.id \in Range(d) => DenseWeight * Scale <= h.score * (RrfK + 3 * TopK)
  /\ h.id \notin Range(d) => h.score * (RrfK + 1) <= LexicalWeight * Scale
  /\ h.id \notin Range(l) => h.score * (RrfK + 1) <= DenseWeight * Scale
  /\ h.id \in Range(d) \cap Range(l) =>
       (DenseWeight + LexicalWeight) * Scale <= h.score * (RrfK + 3 * TopK)

Candidates(hits, d, l) ==
  /\ hits \in Seq(Hits)
  /\ \A i, j \in 1..Len(hits) : i < j => /\ hits[i].id # hits[j].id
                                         /\ hits[i].score >= hits[j].score
  /\ \A i \in 1..Len(hits) : FusedScore(hits[i], d, l)

LEMMA FusedCandidates ==
  ASSUME NEW d \in HitList, NEW l \in HitList
  PROVE  Candidates(Fused(d, l), d, l)
<1> DEFINE ids == Range(d) \cup Range(l)
           score(id) == Share(d, id, DenseWeight) + Share(l, id, LexicalWeight)
           hits == {Hit(id, score(id)) : id \in ids}
           R == {hg \in hits \X hits : Before(hg[1], hg[2])}
           N == Cardinality(hits)
<1>1. d \in Seq(ClauseIds) /\ l \in Seq(ClauseIds)
  BY DEF HitList
<1>2. IsFiniteSet(ids) /\ ids \subseteq ClauseIds
  BY <1>1, RangeFinite, FS_Union
<1>3. ASSUME NEW id \in ids
      PROVE  /\ Hit(id, score(id)) \in Hits /\ Hit(id, score(id)).id = id
             /\ FusedScore(Hit(id, score(id)), d, l)
  <2> DEFINE a == Share(d, id, DenseWeight)
             b == Share(l, id, LexicalWeight)
  <2>1. /\ a \in Nat /\ a * (RrfK + 1) <= DenseWeight * Scale
        /\ id \notin Range(d) => a = 0
        /\ id \in Range(d) => DenseWeight * Scale <= a * (RrfK + 3 * TopK)
        /\ b \in Nat /\ b * (RrfK + 1) <= LexicalWeight * Scale
        /\ id \notin Range(l) => b = 0
        /\ id \in Range(l) => LexicalWeight * Scale <= b * (RrfK + 3 * TopK)
    BY ShareBounds, Numbers
  <2>2. /\ Hit(id, score(id)) \in Hits
        /\ Hit(id, score(id)).id = id /\ Hit(id, score(id)).score = a + b
    BY <1>2, <2>1 DEF Hit, Hits
  <2> HIDE DEF a, b
  <2>3. (a + b) * (RrfK + 1) <= (DenseWeight + LexicalWeight) * Scale
    <3>1. /\ (a + b) * (RrfK + 1) = a * (RrfK + 1) + b * (RrfK + 1)
          /\ (DenseWeight + LexicalWeight) * Scale = DenseWeight * Scale + LexicalWeight * Scale
          /\ a * (RrfK + 1) \in Nat /\ b * (RrfK + 1) \in Nat
          /\ DenseWeight * Scale \in Nat /\ LexicalWeight * Scale \in Nat
      BY <2>1, Numbers
    <3> QED BY <2>1, <3>1
  <2>4. id \in Range(d) => DenseWeight * Scale <= (a + b) * (RrfK + 3 * TopK)
    <3>1. /\ (a + b) * (RrfK + 3 * TopK) = a * (RrfK + 3 * TopK) + b * (RrfK + 3 * TopK)
          /\ a * (RrfK + 3 * TopK) \in Nat /\ b * (RrfK + 3 * TopK) \in Nat
          /\ DenseWeight * Scale \in Nat
      BY <2>1, Numbers
    <3> QED BY <2>1, <3>1
  <2>5. id \notin Range(d) => (a + b) * (RrfK + 1) <= LexicalWeight * Scale
    BY <2>1, Numbers
  <2>6. id \notin Range(l) => (a + b) * (RrfK + 1) <= DenseWeight * Scale
    BY <2>1, Numbers
  <2>7. id \in Range(d) \cap Range(l) =>
          (DenseWeight + LexicalWeight) * Scale <= (a + b) * (RrfK + 3 * TopK)
    <3>1. /\ (a + b) * (RrfK + 3 * TopK) = a * (RrfK + 3 * TopK) + b * (RrfK + 3 * TopK)
          /\ (DenseWeight + LexicalWeight) * Scale = DenseWeight * Scale + LexicalWeight * Scale
          /\ a * (RrfK + 3 * TopK) \in Nat /\ b * (RrfK + 3 * TopK) \in Nat
          /\ DenseWeight * Scale \in Nat /\ LexicalWeight * Scale \in Nat
      BY <2>1, Numbers
    <3> QED BY <2>1, <3>1
  <2> QED BY <2>2, <2>3, <2>4, <2>5, <2>6, <2>7 DEF FusedScore
<1> HIDE DEF ids, score
<1>4. /\ hits \subseteq Hits /\ \A h, g \in hits : h.id = g.id => h = g
      /\ \A h \in hits : FusedScore(h, d, l)
  BY <1>3
<1>5. IsFiniteSet(hits)
  <2> DEFINE f == [id \in ids |-> Hit(id, score(id))]
  <2>1. f \in Surjection(ids, hits)
    BY DEF Surjection
  <2> QED BY <1>2, <2>1, FS_Surjection
<1>6. Total(hits, R)
  BY <1>4, BeforeTotal
<1>7. Fused(d, l) = Listed(hits, R)
  BY DEF Fused, Ranked, ids, score
<1>8. \A h, g \in hits : <<h, g>> \in R => Before(h, g) /\ <<h, g>> \in R
  OBVIOUS
<1> DEFINE list == Listed(hits, R)
<1> HIDE DEF hits, R
<1>9. /\ N \in Nat /\ list \in [1..N -> hits]
      /\ \A m, n \in 1..N : m < n => <<list[m], list[n]>> \in R
  BY <1>5, <1>6, ListedInOrder
<1> HIDE DEF N, list
<1>10. list \in Seq(Hits) /\ Len(list) = N
  <2>1. list \in [1..N -> Hits]
    BY <1>4, <1>9
  <2>2. list \in Seq(Hits)
    BY <1>9, <2>1, SeqDef
  <2> QED BY <1>9, <2>2, LenProperties
<1>11. ASSUME NEW m \in 1..N, NEW n \in 1..N, m < n
       PROVE  list[m].id # list[n].id /\ list[m].score >= list[n].score
  <2>1. list[m] \in hits /\ list[n] \in hits /\ <<list[m], list[n]>> \in R
    BY <1>9, <1>11
  <2>2. Before(list[m], list[n]) /\ list[m] # list[n]
    BY <1>6, <1>8, <2>1 DEF Total
  <2>3. list[m].score \in Nat /\ list[n].score \in Nat
    BY <1>4, <2>1 DEF Hits
  <2> QED BY <1>4, <2>1, <2>2, <2>3 DEF Before
<1>12. \A i \in 1..N : FusedScore(list[i], d, l)
  BY <1>4, <1>9
<1>13. Candidates(list, d, l)
  BY <1>10, <1>11, <1>12 DEF Candidates
<1> QED BY <1>7, <1>13 DEF list

\* What is left of a list when the clauses a process does not have are dropped.
LEMMA OursKept ==
  ASSUME NEW T, NEW s \in Seq(T), NEW p
  PROVE  LET ours == Ours(p, s)
         IN  /\ ours \in Seq(T) /\ Len(ours) \in Nat /\ Len(ours) <= Len(s)
             /\ DOMAIN ours = 1..Len(ours)
             /\ \E at \in [1..Len(ours) -> 1..Len(s)] :
                  /\ \A m, n \in 1..Len(ours) : m < n => at[m] < at[n]
                  /\ \A n \in 1..Len(ours) : /\ ours[n] = s[at[n]]
                                             /\ ours[n].id \in DOMAIN Tables(p)
<1> DEFINE P == {i \in DOMAIN s : s[i].id \in DOMAIN Tables(p)}
           ours == Kept(s, P)
<1>1. ours = Ours(p, s)
  BY DEF Ours
<1>0. P \subseteq DOMAIN s
  OBVIOUS
<1>3. \A i \in P : i \in 1..Len(s) /\ s[i].id \in DOMAIN Tables(p)
  BY LenProperties
<1> HIDE DEF P
<1>2. /\ ours \in Seq(T) /\ Len(ours) \in Nat /\ Len(ours) <= Len(s)
      /\ DOMAIN ours = 1..Len(ours)
      /\ \E at \in [1..Len(ours) -> P] :
           /\ \A m, n \in 1..Len(ours) : m < n => at[m] < at[n]
           /\ \A n \in 1..Len(ours) : ours[n] = s[at[n]]
  BY <1>0, KeptInOrder, SMTT(30)
<1> HIDE DEF ours
<1>4. PICK at \in [1..Len(ours) -> P] :
        /\ \A m, n \in 1..Len(ours) : m < n => at[m] < at[n]
        /\ \A n \in 1..Len(ours) : ours[n] = s[at[n]]
  BY <1>2
<1>5. at \in [1..Len(ours) -> 1..Len(s)]
  BY <1>3
<1>6. \A n \in 1..Len(ours) : ours[n] = s[at[n]] /\ ours[n].id \in DOMAIN Tables(p)
  BY <1>3, <1>4
<1> QED BY <1>1, <1>2, <1>4, <1>5, <1>6

LEMMA CandidatesFirst ==
  ASSUME NEW hits, NEW d, NEW l, Candidates(hits, d, l), NEW k \in Nat
  PROVE  Candidates(First(hits, k), d, l) /\ Len(First(hits, k)) <= k
<1>1. hits \in Seq(Hits) /\ Len(hits) \in Nat
  BY LenProperties DEF Candidates
<1> DEFINE first == First(hits, k)
<1>2. /\ first \in Seq(Hits) /\ Len(first) \in Nat /\ Len(first) <= k /\ Len(first) <= Len(hits)
      /\ \A i \in 1..Len(first) : first[i] = hits[i]
  BY <1>1, FirstOfList
<1> HIDE DEF first
<1>3. Candidates(first, d, l)
  BY <1>1, <1>2, SMTT(20) DEF Candidates
<1> QED BY <1>2, <1>3 DEF first

LEMMA CandidatesOurs ==
  ASSUME NEW hits, NEW d, NEW l, Candidates(hits, d, l), NEW p
  PROVE  Candidates(Ours(p, hits), d, l) /\ Len(Ours(p, hits)) <= Len(hits)
<1>1. hits \in Seq(Hits) /\ Len(hits) \in Nat
  BY LenProperties DEF Candidates
<1> DEFINE ours == Ours(p, hits)
<1>2. /\ ours \in Seq(Hits) /\ Len(ours) \in Nat /\ Len(ours) <= Len(hits)
      /\ DOMAIN ours = 1..Len(ours)
      /\ \E at \in [1..Len(ours) -> 1..Len(hits)] :
           /\ \A m, n \in 1..Len(ours) : m < n => at[m] < at[n]
           /\ \A n \in 1..Len(ours) : /\ ours[n] = hits[at[n]]
                                      /\ ours[n].id \in DOMAIN Tables(p)
  BY <1>1, OursKept
<1> HIDE DEF ours
<1>3. PICK at \in [1..Len(ours) -> 1..Len(hits)] :
        /\ \A m, n \in 1..Len(ours) : m < n => at[m] < at[n]
        /\ \A n \in 1..Len(ours) : ours[n] = hits[at[n]]
  BY <1>2
<1>4. ASSUME NEW i \in 1..Len(ours), NEW j \in 1..Len(ours), i < j
      PROVE  ours[i].id # ours[j].id /\ ours[i].score >= ours[j].score
  <2>1. at[i] \in 1..Len(hits) /\ at[j] \in 1..Len(hits) /\ at[i] < at[j]
    BY <1>3, <1>4
  <2> QED BY <1>3, <2>1 DEF Candidates
<1>5. \A i \in 1..Len(ours) : FusedScore(ours[i], d, l)
  BY <1>3 DEF Candidates
<1>6. Candidates(ours, d, l)
  BY <1>2, <1>4, <1>5 DEF Candidates
<1> QED BY <1>2, <1>6 DEF ours

\* Both searches give lists of clauses, no longer than the cut.
LEMMA SearchLists ==
  ASSUME NEW p, NEW q \in Queries
  PROVE  Dense(p, q) \in HitList /\ Lexical(p, q) \in HitList
<1>1. q.similar \in Seq(ClauseIds) /\ q.matches \in Seq(ClauseIds) /\ 3 * TopK \in Nat
  BY QueriesAssumption, Numbers
<1>2. ASSUME NEW s \in Seq(ClauseIds), NEW ids
      PROVE  First(Known(s, ids), 3 * TopK) \in HitList
  <2>1. Known(s, ids) \in Seq(ClauseIds)
    BY KeptInOrder DEF Known
  <2> QED BY <1>1, <2>1, FirstOfList DEF HitList
<1> QED BY <1>1, <1>2 DEF Dense, Lexical

-----------------------------------------------------------------------------
(* Queries *)

Stages == {"down", "embed", "check", "create", "upload", "ready"}

StoresTyped ==
  \A x \in Places : DOMAIN store[x] \subseteq ClauseIds /\ Range(store[x]) \subseteq Texts

Types ==
  /\ provider \in {"azure", "fake"}
  /\ pc \in [Procs -> Stages]
  /\ version \in [Procs -> Versions \cup {NoVersion}]
  /\ index \in BOOLEAN
  /\ StoresTyped

\* An answer given without scores of the ranker rests on fused scores only.
FusedSuffices == provider = "azure" \/ Tau * (RrfK + 1) <= (DenseWeight + LexicalWeight) * Scale

\* The query in hand is one of a process that has served since it came.
QueryOK ==
  query # NoQuery =>
    /\ query.proc \in Procs /\ pc[query.proc] = "ready"
    /\ query.stage \in {"rerank", "answered", "raised"}
    /\ query.stage = "rerank" => /\ query.dense \in HitList /\ query.lexical \in HitList
                                 /\ Candidates(query.hits, query.dense, query.lexical)
                                 /\ Len(query.hits) <= 2 * TopK
    /\ query.stage = "answered" => /\ CitationsCurrent
                                   /\ Len(query.chunks) <= TopK
                                   /\ query.sufficient => FusedSuffices

RInv == SInv /\ Types /\ QueryOK

LEMMA RagInit == Init => RInv
<1> SUFFICES ASSUME Init PROVE Types /\ QueryOK
  BY SearchInit DEF RInv
<1>1. \A x \in Places : store[x] = <<>>
  BY DEF Init, Places
<1>2. StoresTyped
  BY <1>1 DEF StoresTyped, Range
<1> QED BY <1>2 DEF Init, Types, Stages, QueryOK

\* A step that leaves the query and its process alone.
LEMMA QueryKept ==
  ASSUME QueryOK, UNCHANGED <<provider, query>>,
         query # NoQuery => /\ pc'[query.proc] = pc[query.proc]
                            /\ version'[query.proc] = version[query.proc]
  PROVE  QueryOK'
<1>1. query # NoQuery => Tables(query.proc)' = Tables(query.proc)
  BY DEF Tables
<1> QED BY <1>1 DEF QueryOK, CitationsCurrent, Answered, FusedSuffices

\* The text of p's own tables is text of the corpus.
LEMMA TablesTyped ==
  ASSUME Types, NEW p \in Procs
  PROVE  DOMAIN Tables(p) \subseteq ClauseIds /\ \A id \in DOMAIN Tables(p) : Tables(p)[id] \in Texts
<1>1. CASE version[p] = NoVersion
  BY <1>1 DEF Tables
<1>2. CASE version[p] # NoVersion
  <2>1. version[p] \in Versions /\ Tables(p) = Corpus[version[p]]
    BY <1>2 DEF Types, Tables
  <2> QED BY <2>1 DEF ClauseIds, Texts, Range
<1> QED BY <1>1, <1>2

LEMMA PutTyped ==
  ASSUME RInv, NEW p \in Procs, NEW ids, ids \subseteq DOMAIN Tables(p), Put(p, ids)
  PROVE  StoresTyped'
<1> DEFINE old == store[Place(p)]
           new == [id \in ids \cup DOMAIN old |-> IF id \in ids THEN Tables(p)[id] ELSE old[id]]
<1>1. Place(p) \in Places
  BY DEF Place, Places
<1>2. store' = [store EXCEPT ![Place(p)] = new]
  BY DEF Put
<1>3. DOMAIN old \subseteq ClauseIds /\ \A id \in DOMAIN old : old[id] \in Texts
  BY <1>1 DEF RInv, Types, StoresTyped, Range
<1>4. DOMAIN new \subseteq ClauseIds /\ Range(new) \subseteq Texts
  BY <1>3, TablesTyped DEF RInv, Range
<1> HIDE DEF new
<1>5. \A x \in Places : store'[x] = IF x = Place(p) THEN new ELSE store[x]
  BY <1>1, <1>2 DEF RInv, SInv
<1> QED BY <1>4, <1>5 DEF RInv, Types, StoresTyped

LEMMA RagStartup ==
  ASSUME RInv, NEW p \in Procs, Step(p) \/ \E v \in Versions : Start(p, v)
  PROVE  Types' /\ QueryOK'
<1>t. SInv /\ Types /\ QueryOK
  BY DEF RInv
<1>1. /\ UNCHANGED <<provider, query>> /\ pc[p] # "ready"
      /\ \E l \in Stages : pc' = [pc EXCEPT ![p] = l]
      /\ index' \in BOOLEAN
  BY <1>t DEF Step, Start, Embed, CheckIndex, CreateIndex, Upload, Exit, Goto, Stages, Types
<1>2. \E v \in Versions \cup {NoVersion} : version' = [version EXCEPT ![p] = v]
  <2>1. version = [version EXCEPT ![p] = version[p]]
    BY <1>t DEF Types
  <2>2. version[p] \in Versions \cup {NoVersion}
    BY <1>t DEF Types
  <2> QED BY <2>1, <2>2 DEF Step, Start, Embed, CheckIndex, CreateIndex, Upload, Exit
<1>3. StoresTyped'
  <2>1. CASE Upload(p)
    <3>1. (store' = store) \/ \E ids \in SUBSET DOMAIN Tables(p) : Put(p, ids)
      BY <2>1 DEF Upload
    <3> QED BY <1>t, <3>1, PutTyped DEF Types, StoresTyped
  <2>2. CASE \E v \in Versions : Start(p, v)
    <3>1. store' = [store EXCEPT ![p] = <<>>]
      BY <2>2 DEF Start
    <3>2. \A x \in Places : store'[x] = IF x = p THEN <<>> ELSE store[x]
      BY <1>t, <3>1 DEF SInv, Places
    <3>3. DOMAIN <<>> = {} /\ Range(<<>>) = {}
      BY DEF Range
    <3> QED BY <1>t, <3>2, <3>3 DEF Types, StoresTyped
  <2>3. CASE Embed(p) \/ CheckIndex(p) \/ CreateIndex(p)
    BY <1>t, <2>3 DEF Embed, CheckIndex, CreateIndex, Types, StoresTyped
  <2> QED BY <2>1, <2>2, <2>3 DEF Step
<1>4. Types'
  BY <1>t, <1>1, <1>2, <1>3 DEF Types
<1>5. query # NoQuery => /\ pc'[query.proc] = pc[query.proc]
                         /\ version'[query.proc] = version[query.proc]
  BY <1>t, <1>1, <1>2 DEF QueryOK, Types
<1> QED BY <1>t, <1>1, <1>4, <1>5, QueryKept

LEMMA RagCrash == ASSUME RInv, NEW p \in Procs, Crash(p) PROVE Types' /\ QueryOK'
<1>t. SInv /\ Types /\ QueryOK
  BY DEF RInv
<1>1. Types'
  BY <1>t DEF Crash, Exit, Goto, Types, Stages, StoresTyped
<1>2. CASE query # NoQuery /\ query.proc = p
  BY <1>1, <1>2 DEF Crash, QueryOK
<1>3. CASE ~(query # NoQuery /\ query.proc = p)
  <2>1. UNCHANGED <<provider, query>>
    BY <1>3 DEF Crash
  <2>2. query # NoQuery => /\ pc'[query.proc] = pc[query.proc]
                           /\ version'[query.proc] = version[query.proc]
    BY <1>t, <1>3 DEF Crash, Exit, Goto, QueryOK, Types
  <2> QED BY <1>t, <1>1, <2>1, <2>2, QueryKept
<1> QED BY <1>2, <1>3, <1>1

LEMMA RagSearch ==
  ASSUME RInv, NEW p \in Procs, NEW q \in Queries, Search(p, q)
  PROVE  Types' /\ QueryOK'
<1>t. SInv /\ Types /\ QueryOK
  BY DEF RInv
<1>1. UNCHANGED <<provider, pc, version, index, store>> /\ pc[p] = "ready"
  BY DEF Search
<1>2. Types'
  BY <1>t, <1>1 DEF Types, StoresTyped
<1>3. CASE query' = [stage |-> "raised", proc |-> p]
  BY <1>1, <1>2, <1>3 DEF QueryOK
<1>4. CASE query' # [stage |-> "raised", proc |-> p]
  <2> DEFINE d == Dense(p, q)
             l == Lexical(p, q)
             hits == Ours(p, First(Fused(d, l), 2 * TopK))
  <2>1. query' = [stage |-> "rerank", proc |-> p, dense |-> d, lexical |-> l,
                       hits |-> hits]
    BY <1>4 DEF Search
  <2>2. d \in HitList /\ l \in HitList
    BY SearchLists
  <2> HIDE DEF d, l
  <2> DEFINE first == First(Fused(d, l), 2 * TopK)
  <2>3. Candidates(first, d, l) /\ Len(first) <= 2 * TopK
    BY <2>2, FusedCandidates, CandidatesFirst, Numbers
  <2> HIDE DEF first
  <2>4. Candidates(Ours(p, first), d, l) /\ Len(Ours(p, first)) <= Len(first)
    BY <2>3, CandidatesOurs
  <2>5. Len(first) \in Nat /\ Len(Ours(p, first)) \in Nat
    BY <2>3, <2>4, LenProperties DEF Candidates
  <2>6. Candidates(hits, d, l) /\ Len(hits) <= 2 * TopK
    BY <2>3, <2>4, <2>5, Numbers DEF first
  <2> HIDE DEF hits
  <2> QED BY <1>1, <1>2, <2>1, <2>2, <2>6 DEF QueryOK
<1> QED BY <1>2, <1>3, <1>4

\* What the reranker may return names no clause twice, and is cut.
LEMMA RerankedOnce ==
  ASSUME RInv, query.stage = "rerank", NEW s \in Reranked(query.proc, query.hits)
  PROVE  /\ \E T : s \in Seq(T)
         /\ Len(s) <= TopK
         /\ \A i, j \in 1..Len(s) : i < j => s[i].id # s[j].id
         /\ provider = "fake" => Candidates(s, query.dense, query.lexical)
<1>1. provider \in {"azure", "fake"} /\ Candidates(query.hits, query.dense, query.lexical)
  BY DEF RInv, Types, QueryOK, NoQuery
<1>2. CASE provider = "fake"
  <2>1. s = First(query.hits, TopK)
    BY <1>2 DEF Reranked
  <2>2. Candidates(s, query.dense, query.lexical) /\ Len(s) <= TopK
    BY <1>1, <2>1, CandidatesFirst, Numbers
  <2> QED BY <2>2 DEF Candidates
<1>3. CASE provider = "azure" /\ query.hits = <<>>
  <2>1. s = <<>>
    BY <1>3 DEF Reranked
  <2>2. s \in Seq({}) /\ Len(s) = 0
    BY <2>1, EmptySeq
  <2> QED BY <1>3, <2>2, Numbers
<1>4. CASE provider = "azure" /\ query.hits # <<>>
  <2> DEFINE T == {Hit(id, m) : id \in DOMAIN Store(query.proc), m \in Marks}
  <2>1. /\ s \in BoundedSeq(T, TopK)
        /\ \A i, j \in DOMAIN s : i < j => s[i].id # s[j].id
    BY <1>4 DEF Reranked
  <2> HIDE DEF T
  <2>2. PICK n \in 0..TopK : s \in [1..n -> T]
    BY <2>1 DEF BoundedSeq, SeqOf
  <2>3. n \in Nat /\ n <= TopK
    BY <2>2, Numbers
  <2>4. s \in Seq(T) /\ Len(s) = n /\ DOMAIN s = 1..n
    BY <2>2, <2>3, SeqDef, LenProperties
  <2> QED BY <1>4, <2>1, <2>3, <2>4
<1> QED BY <1>1, <1>2, <1>3, <1>4

\* Scores below the threshold are not enough.
LEMMA FusedNotEnough ==
  ASSUME NEW s, NEW d, NEW l, Candidates(s, d, l), Sufficient(s)
  PROVE  Tau * (RrfK + 1) <= (DenseWeight + LexicalWeight) * Scale
<1> DEFINE scores == {h.score : h \in Range(s)}
<1>1. /\ s \in Seq(Hits) /\ Len(s) \in Nat /\ DOMAIN s = 1..Len(s) /\ s # <<>>
      /\ \A i \in 1..Len(s) : s[i] \in Hits
  BY LenProperties, ElementOfSeq DEF Candidates, Sufficient
<1>2. scores = {s[i].score : i \in 1..Len(s)} /\ scores \subseteq Nat
  BY <1>1 DEF Range, Hits
<1>3. IsFiniteSet(scores)
  <2> DEFINE f == [i \in 1..Len(s) |-> s[i].score]
  <2>1. f \in Surjection(1..Len(s), scores)
    BY <1>2 DEF Surjection
  <2>2. IsFiniteSet(1..Len(s))
    BY <1>1, UpTo
  <2> QED BY <2>1, <2>2, FS_Surjection
<1>4. scores # {}
  <2>1. Len(s) # 0
    BY <1>1, EmptySeq
  <2>2. 1 \in 1..Len(s)
    BY <1>1, <2>1
  <2>3. s[1].score \in scores
    BY <1>2, <2>2
  <2> QED BY <2>3
<1>5. PICK i \in 1..Len(s) : s[i].score >= Tau
  <2>1. Max(scores) \in scores
    BY <1>2, <1>3, <1>4, Extremes
  <2>2. Max(scores) >= Tau
    BY DEF Sufficient
  <2> QED BY <1>2, <2>1, <2>2
<1>6. /\ s[i].score \in Nat
      /\ s[i].score * (RrfK + 1) <= (DenseWeight + LexicalWeight) * Scale
  BY <1>1 DEF Candidates, FusedScore, Hits
<1>7. Tau * (RrfK + 1) <= s[i].score * (RrfK + 1)
  <2>1. (RrfK + 1) * Tau <= (RrfK + 1) * s[i].score
    BY <1>5, <1>6, Numbers, TimesGrows
  <2> QED BY <2>1, <1>6, Numbers
<1>8. /\ Tau * (RrfK + 1) \in Nat /\ s[i].score * (RrfK + 1) \in Nat
      /\ (DenseWeight + LexicalWeight) * Scale \in Nat
  BY <1>6, Numbers
<1> QED BY <1>6, <1>7, <1>8

LEMMA RagRerank == ASSUME RInv, Rerank PROVE Types' /\ QueryOK'
<1>t. SInv /\ Types /\ QueryOK
  BY DEF RInv
<1>1. UNCHANGED <<provider, pc, version, index, store>> /\ query.stage = "rerank"
  BY DEF Rerank
<1>2. query.proc \in Procs /\ pc[query.proc] = "ready"
  BY <1>t, <1>1 DEF QueryOK, NoQuery
<1>3. Types'
  BY <1>t, <1>1 DEF Types, StoresTyped
<1>4. CASE query' = [stage |-> "raised", proc |-> query.proc]
  BY <1>1, <1>2, <1>3, <1>4 DEF QueryOK
<1>5. CASE query' # [stage |-> "raised", proc |-> query.proc]
  <2>0. PICK p \in Procs : p = query.proc
    BY <1>2
  <2>1. PICK s \in Reranked(p, query.hits) :
          query' = [stage |-> "answered", proc |-> p,
                    chunks |-> [i \in DOMAIN Ground(p, s) |->
                                  [clause |-> Ground(p, s)[i].id, score |-> Ground(p, s)[i].score,
                                   text |-> Text(p, Ground(p, s)[i].id)]],
                    sufficient |-> Sufficient(Ground(p, s))]
    BY <1>5, <2>0 DEF Rerank
  <2>2. PICK T : s \in Seq(T)
    BY <1>1, <2>0, <2>1, RerankedOnce
  <2>3. /\ Len(s) <= TopK /\ Len(s) \in Nat
        /\ \A i, j \in 1..Len(s) : i < j => s[i].id # s[j].id
        /\ provider = "fake" => Candidates(s, query.dense, query.lexical)
    BY <1>1, <2>0, <2>1, <2>2, RerankedOnce, LenProperties
  <2> DEFINE cited == Ours(p, s)
  <2>4. cited = Ground(p, s)
    BY DEF Ground
  <2>5. /\ cited \in Seq(T) /\ Len(cited) \in Nat /\ Len(cited) <= Len(s)
        /\ DOMAIN cited = 1..Len(cited)
        /\ \E at \in [1..Len(cited) -> 1..Len(s)] :
             /\ \A m, n \in 1..Len(cited) : m < n => at[m] < at[n]
             /\ \A n \in 1..Len(cited) : /\ cited[n] = s[at[n]]
                                         /\ cited[n].id \in DOMAIN Tables(p)
    BY <2>2, OursKept
  <2> HIDE DEF cited
  <2>6. \A i, j \in 1..Len(cited) : cited[i].id = cited[j].id => i = j
    <3> SUFFICES ASSUME NEW i \in 1..Len(cited), NEW j \in 1..Len(cited), i < j
                 PROVE  cited[i].id # cited[j].id
      BY <2>5
    <3>1. PICK at \in [1..Len(cited) -> 1..Len(s)] :
            /\ \A m, n \in 1..Len(cited) : m < n => at[m] < at[n]
            /\ \A n \in 1..Len(cited) : cited[n] = s[at[n]]
      BY <2>5
    <3>2. at[i] \in 1..Len(s) /\ at[j] \in 1..Len(s) /\ at[i] < at[j]
      BY <3>1
    <3>3. s[at[i]].id # s[at[j]].id
      BY <2>3, <3>2
    <3> QED BY <3>1, <3>3
  <2> DEFINE chunks == [i \in DOMAIN cited |->
                          [clause |-> cited[i].id, score |-> cited[i].score,
                           text |-> Text(p, cited[i].id)]]
  <2>7. /\ query'.stage = "answered" /\ query'.proc = p /\ query'.chunks = chunks
        /\ query'.sufficient = Sufficient(cited)
    BY <2>1, <2>4
  <2>8. /\ DOMAIN chunks = 1..Len(cited)
        /\ \A i \in 1..Len(cited) : /\ chunks[i].clause = cited[i].id
                                    /\ chunks[i].text = Tables(p)[cited[i].id]
    BY <2>5 DEF Text
  <2>9. Len(chunks) = Len(cited)
    <3>1. \A i \in 1..Len(cited) : chunks[i] \in {chunks[j] : j \in 1..Len(cited)}
      OBVIOUS
    <3>2. chunks \in Seq({chunks[j] : j \in 1..Len(cited)})
      BY <2>5, <3>1, SeqDef
    <3> QED BY <2>5, <2>8, <3>2, LenProperties
  <2> HIDE DEF chunks
  <2>10. Tables(p)' = Tables(p)
    BY <1>1 DEF Tables
  <2>11. CitationsCurrent'
    BY <2>5, <2>6, <2>7, <2>8, <2>10 DEF CitationsCurrent
  <2>12. query'.sufficient => FusedSuffices'
    <3> SUFFICES ASSUME Sufficient(cited), provider = "fake" PROVE FusedSuffices
      BY <1>1, <1>t, <2>7 DEF FusedSuffices, Types
    <3>1. Candidates(cited, query.dense, query.lexical)
      BY <2>3, CandidatesOurs DEF cited
    <3> QED BY <3>1, FusedNotEnough DEF FusedSuffices
  <2>13. Len(query'.chunks) <= TopK
    BY <2>3, <2>5, <2>7, <2>9, Numbers
  <2> QED BY <1>1, <1>2, <1>3, <2>0, <2>7, <2>11, <2>12, <2>13 DEF QueryOK
<1> QED BY <1>3, <1>4, <1>5

LEMMA RagStep == RInv /\ [Next]_vars => RInv'
<1> SUFFICES ASSUME RInv, [Next]_vars PROVE Types' /\ QueryOK'
  BY SearchStep DEF RInv
<1>1. CASE UNCHANGED vars
  BY <1>1, QueryKept DEF vars, RInv, Types, StoresTyped
<1>2. CASE Next
  BY <1>2, RagStartup, RagCrash, RagSearch, RagRerank DEF Next
<1> QED BY <1>1, <1>2

LEMMA RagAlways == Spec => []RInv
  BY RagInit, RagStep, PTL DEF Spec

\* The variables stay well typed, and no answer is longer than it may be.
THEOREM RagTypeCorrect == Spec => []TypeOK
<1>1. RInv => TypeOK
  <2> SUFFICES ASSUME RInv PROVE TypeOK
    OBVIOUS
  <2>1. DOMAIN store = Places
    BY DEF RInv, SInv
  <2>2. /\ query # NoQuery => query.stage \in {"rerank", "answered", "raised"} /\ query.proc \in Procs
        /\ query.stage = "rerank" => /\ Len(query.dense) <= 3 * TopK /\ Len(query.lexical) <= 3 * TopK
                                     /\ Len(query.hits) <= 2 * TopK
        /\ query.stage = "answered" => Len(query.chunks) <= TopK
    BY DEF RInv, QueryOK, HitList, NoQuery
  <2> QED BY <2>1, <2>2 DEF RInv, SInv, Types, StoresTyped, Stages, TypeOK
<1> QED BY <1>1, RagAlways, PTL

\* Whatever the shared store still has of other releases, an answer cites
\* clauses of the corpus its process ingested, as they read there, once each.
THEOREM AnswersCurrent == Spec => []CitationsCurrent
<1>1. RInv => CitationsCurrent
  BY DEF RInv, QueryOK, NoQuery, CitationsCurrent, Answered
<1> QED BY <1>1, RagAlways, PTL

\* The reranker is never given a clause twice.
THEOREM OneCandidate == Spec => []CandidatesOnce
<1>1. RInv => CandidatesOnce
  <2> SUFFICES ASSUME RInv, query.stage = "rerank",
                      NEW i \in DOMAIN query.hits, NEW j \in DOMAIN query.hits,
                      query.hits[i].id = query.hits[j].id
               PROVE  i = j
    BY DEF CandidatesOnce
  <2>1. Candidates(query.hits, query.dense, query.lexical)
    BY DEF RInv, QueryOK, NoQuery
  <2>2. DOMAIN query.hits = 1..Len(query.hits) /\ Len(query.hits) \in Nat
    BY <2>1, LenProperties DEF Candidates
  <2> QED BY <2>1, <2>2 DEF Candidates
<1> QED BY <1>1, RagAlways, PTL

\* Last in both lists outweighs first in one of them.
BothOutweigh ==
  /\ Scale # 0
  /\ \A w \in {DenseWeight, LexicalWeight} :
       w * (RrfK + 3 * TopK) < (DenseWeight + LexicalWeight) * (RrfK + 1)

\* A score that a lower bound in n and an upper bound in m keep apart.
LEMMA ScoresApart ==
  ASSUME NEW a \in Nat, NEW b \in Nat, NEW n \in Nat, NEW m \in Nat, NEW c \in Nat,
         NEW v \in Nat, NEW w \in Nat, c # 0, v * n < w * m,
         a * m <= v * c, w * c <= b * n
  PROVE  a < b
<1> SUFFICES ASSUME b <= a PROVE FALSE
  OBVIOUS
<1>1. b * n <= a * n
  OBVIOUS
<1>2. (a * m) * n <= (v * c) * n
  OBVIOUS
<1>3. (w * c) * m <= (a * n) * m
  BY <1>1
<1>4. (w * m) * c <= (v * n) * c
  BY <1>2, <1>3
<1> QED BY <1>4

\* With weights no further apart than that, what both searches found comes
\* first; 0.6 and 0.4 are, for every rag_k up to 13 (it is 5).
THEOREM BothComeFirst == ASSUME BothOutweigh PROVE Spec => []BothFirst
<1>1. RInv => BothFirst
  <2> SUFFICES ASSUME RInv, query.stage = "rerank",
                      NEW i \in DOMAIN query.hits, NEW j \in DOMAIN query.hits, i < j,
                      query.hits[j].id \in Both, query.hits[i].id \notin Both
               PROVE  FALSE
    BY DEF BothFirst
  <2>1. Candidates(query.hits, query.dense, query.lexical)
    BY DEF RInv, QueryOK, NoQuery
  <2>2. /\ DOMAIN query.hits = 1..Len(query.hits)
        /\ query.hits[i] \in Hits /\ query.hits[j] \in Hits
    BY <2>1, LenProperties, ElementOfSeq DEF Candidates
  <2> DEFINE a == query.hits[i].score
             b == query.hits[j].score
             n == RrfK + 3 * TopK
             m == RrfK + 1
             w == DenseWeight + LexicalWeight
  <2>3. PICK v \in {DenseWeight, LexicalWeight} : a * m <= v * Scale
    BY <2>1, <2>2 DEF Candidates, FusedScore, Both
  <2>4. a \in Nat /\ b \in Nat /\ a >= b /\ w * Scale <= b * n
    BY <2>1, <2>2 DEF Candidates, FusedScore, Hits, Both
  <2>5. /\ n \in Nat /\ m \in Nat /\ w \in Nat /\ v \in Nat
        /\ Scale \in Nat /\ Scale # 0 /\ v * n < w * m
    BY Numbers DEF BothOutweigh
  <2> HIDE DEF a, b, n, m, w
  <2>6. a < b
    BY <2>3, <2>4, <2>5, ScoresApart
  <2> QED BY <2>4, <2>6
<1> QED BY <1>1, RagAlways, PTL

\* The last rank of the dense list outweighs the first of the lexical one.
DenseOutweighs ==
  Scale # 0 /\ LexicalWeight * (RrfK + 3 * TopK) < DenseWeight * (RrfK + 1)

\* What the dense search found goes before what only BM25 did.
DenseFirst ==
  query.stage = "rerank" =>
    \A i, j \in DOMAIN query.hits :
      i < j /\ query.hits[j].id \in Range(query.dense) => query.hits[i].id \in Range(query.dense)

\* A consequence of the weights that 21-rag-pipeline.md does not want ("Lexical
\* matters for exact tokens", "Hybrid beats pure-dense on an exact-clause-ID
\* query"): with 0.6 and 0.4 and any rag_k up to 10, a clause that only BM25
\* found, be it the best match, never overtakes one of the dense search, and so
\* reaches the reranker only where the dense search leaves room.
THEOREM LexicalComesLast == ASSUME DenseOutweighs PROVE Spec => []DenseFirst
<1>1. RInv => DenseFirst
  <2> SUFFICES ASSUME RInv, query.stage = "rerank",
                      NEW i \in DOMAIN query.hits, NEW j \in DOMAIN query.hits, i < j,
                      query.hits[j].id \in Range(query.dense),
                      query.hits[i].id \notin Range(query.dense)
               PROVE  FALSE
    BY DEF DenseFirst
  <2>1. Candidates(query.hits, query.dense, query.lexical)
    BY DEF RInv, QueryOK, NoQuery
  <2>2. /\ DOMAIN query.hits = 1..Len(query.hits)
        /\ query.hits[i] \in Hits /\ query.hits[j] \in Hits
    BY <2>1, LenProperties, ElementOfSeq DEF Candidates
  <2> DEFINE a == query.hits[i].score
             b == query.hits[j].score
             n == RrfK + 3 * TopK
             m == RrfK + 1
  <2>3. /\ a \in Nat /\ b \in Nat /\ a >= b
        /\ a * m <= LexicalWeight * Scale /\ DenseWeight * Scale <= b * n
    BY <2>1, <2>2 DEF Candidates, FusedScore, Hits
  <2>4. /\ n \in Nat /\ m \in Nat /\ Scale \in Nat /\ Scale # 0
        /\ LexicalWeight * n < DenseWeight * m
    BY Numbers DEF DenseOutweighs
  <2> HIDE DEF a, b, n, m
  <2>5. a < b
    BY <2>3, <2>4, Numbers, ScoresApart
  <2> QED BY <2>3, <2>5
<1> QED BY <1>1, RagAlways, PTL

\* Weights that add up to one (ten tenths).
OneInAll == DenseWeight + LexicalWeight <= 10

\* With such weights no context is sufficient by its fused scores, unless the
\* threshold is below the score of a clause that both lists have first.
THEOREM FusionIsNotEnough == ASSUME OneInAll PROVE Spec => []FusionNeverSuffices
<1>1. RInv => FusionNeverSuffices
  <2> SUFFICES ASSUME RInv, Answered, query.sufficient, provider # "azure"
               PROVE  Tau * (RrfK + 1) <= 10 * Scale
    BY DEF FusionNeverSuffices
  <2>1. Tau * (RrfK + 1) <= (DenseWeight + LexicalWeight) * Scale
    BY DEF RInv, QueryOK, NoQuery, Answered, FusedSuffices
  <2>2. Scale * (DenseWeight + LexicalWeight) <= Scale * 10
    BY Numbers, TimesGrows DEF OneInAll
  <2>3. (DenseWeight + LexicalWeight) * Scale <= 10 * Scale
    BY <2>2, Numbers
  <2> QED BY <2>1, <2>3, Numbers
<1> QED BY <1>1, RagAlways, PTL
=============================================================================
