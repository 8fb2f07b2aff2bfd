--------------------------- MODULE TextFileProofs ---------------------------
(***************************************************************************)
(* Proofs about the files of the service: a document that is indexed again *)
(* (ChunkStore), the law that a server publishes (CdcSnapshot), the        *)
(* history of runs (RunLog), and the law that notices cite (LegalCorpus).  *)
(*                                                                         *)
(* The parts of TextService rest while another works, so an invariant of   *)
(* one says what it says when that part works, and that the part is at     *)
(* rest otherwise.                                                         *)
(***************************************************************************)
EXTENDS TextService, SequenceTheorems, FiniteSetTheorems, TLAPS

-----------------------------------------------------------------------------
(* Sequences and orders. *)

Parsing == INSTANCE FoldLemmas WITH Op <- ParseParagraph

LEMMA FunctionIsSeq ==
  ASSUME NEW n \in Nat, NEW S, NEW f, f = [i \in 1 .. n |-> f[i]], \A i \in 1 .. n : f[i] \in S
  PROVE  f \in Seq(S) /\ Len(f) = n
<1>1. f \in [1 .. n -> S]
  OBVIOUS
<1>2. [1 .. n -> S] \subseteq Seq(S)
  BY SeqDef, Zenon
<1>. QED  BY <1>1, <1>2

LEMMA SetOfConcat ==
  ASSUME NEW X, NEW s \in Seq(X), NEW t \in Seq(X)
  PROVE  s \o t \in Seq(X) /\ ToSet(s \o t) = ToSet(s) \cup ToSet(t)
<1>1. /\ s \o t \in Seq(X) /\ DOMAIN s = 1 .. Len(s) /\ DOMAIN t = 1 .. Len(t)
      /\ Len(s) \in Nat /\ Len(t) \in Nat /\ DOMAIN (s \o t) = 1 .. Len(s) + Len(t)
  OBVIOUS
<1>2. \A i \in 1 .. Len(s) + Len(t) : (s \o t)[i] = IF i <= Len(s) THEN s[i] ELSE t[i - Len(s)]
  OBVIOUS
<1>3. ASSUME NEW i \in DOMAIN s PROVE s[i] \in ToSet(s \o t)
  <2>1. i \in DOMAIN (s \o t) /\ (s \o t)[i] = s[i]
    BY <1>1, <1>2
  <2>. QED  BY <2>1 DEF ToSet
<1>4. ASSUME NEW i \in DOMAIN t PROVE t[i] \in ToSet(s \o t)
  <2>1. i + Len(s) \in DOMAIN (s \o t) /\ (s \o t)[i + Len(s)] = t[i]
    BY <1>1, <1>2
  <2>. QED  BY <2>1 DEF ToSet
<1>5. ASSUME NEW i \in DOMAIN (s \o t) PROVE (s \o t)[i] \in ToSet(s) \cup ToSet(t)
  <2>1. CASE i <= Len(s)
    <3>1. i \in DOMAIN s /\ (s \o t)[i] = s[i]
      BY <1>1, <1>2, <2>1
    <3>. QED  BY <3>1 DEF ToSet
  <2>2. CASE ~(i <= Len(s))
    <3>1. i - Len(s) \in DOMAIN t /\ (s \o t)[i] = t[i - Len(s)]
      BY <1>1, <1>2, <2>2
    <3>. QED  BY <3>1 DEF ToSet
  <2>. QED  BY <2>1, <2>2
<1>6. \A e \in ToSet(s \o t) : e \in ToSet(s) \cup ToSet(t)
  BY <1>5 DEF ToSet
<1>7. \A e \in ToSet(s) \cup ToSet(t) : e \in ToSet(s \o t)
  BY <1>3, <1>4 DEF ToSet
<1>. QED  BY <1>1, <1>6, <1>7

\* FlattenSeq is a recursive function over positions.
LEMMA FlattenHasSteps ==
  ASSUME NEW s, Len(s) \in Nat \ {0}
  PROVE  \E F : /\ F[1] = s[1]
                /\ \A k \in 2 .. Len(s) : F[k] = F[k - 1] \o s[k]
                /\ FlattenSeq(s) = F[Len(s)]
<1>. DEFINE n == Len(s)
            Solves(f, m) == f = [i \in 1 .. m |-> IF i = 1 THEN s[i] ELSE f[i - 1] \o s[i]]
            T == {m \in 0 .. n : \E f : Solves(f, m)}
<1>. HIDE DEF n
<1>0. n \in Nat \ {0}
  BY DEF n
<1>1. 0 \in T
  <2>. DEFINE f == [i \in 1 .. 0 |-> s[i]]
  <2>1. Solves(f, 0)
    OBVIOUS
  <2>2. \E g : Solves(g, 0)
    <3>. HIDE DEF Solves, f
    <3>. QED  BY <2>1
  <2>3. 0 \in 0 .. n
    BY <1>0
  <2>. HIDE DEF Solves
  <2>. QED  BY <2>2, <2>3
<1>2. ASSUME NEW k \in 1 .. n, k - 1 \in T PROVE k \in T
  <2>1. PICK g : Solves(g, k - 1)
    BY <1>2
  <2>. DEFINE h == [i \in 1 .. k |-> IF i = 1 THEN s[i] ELSE g[i - 1] \o s[i]]
  <2>2. ASSUME NEW i \in 1 .. k, i # 1 PROVE h[i - 1] = g[i - 1]
    <3>1. i - 1 \in 1 .. (k - 1) /\ i - 1 \in 1 .. k
      BY <1>0, <2>2
    <3>. QED  BY <2>1, <3>1
  <2>3. Solves(h, k)
    BY <2>2
  <2>4. \E f : Solves(f, k)
    <3>. HIDE DEF Solves, h
    <3>. QED  BY <2>3
  <2>5. k \in 0 .. n
    BY <1>0
  <2>. HIDE DEF Solves
  <2>. QED  BY <2>4, <2>5
<1>3. n \in T
  <2>. HIDE DEF T
  <2>1. \A k \in 0 .. n : k \in T
    BY <1>0, <1>1, <1>2, Parsing!RangeInduction
  <2>. QED  BY <1>0, <2>1
<1>. DEFINE F == CHOOSE f : Solves(f, n)
<1>4. Solves(F, n)
  BY <1>3, Zenon
<1>5. FlattenSeq(s) = F[n]
  BY <1>0 DEF FlattenSeq, n
<1>. HIDE DEF F
<1>6. F[1] = s[1]
  BY <1>0, <1>4
<1>7. ASSUME NEW k \in 2 .. n PROVE F[k] = F[k - 1] \o s[k]
  <2>1. k \in 1 .. n /\ k # 1
    BY <1>0
  <2>. QED  BY <1>4, <2>1, Zenon
<1>. QED  BY <1>5, <1>6, <1>7 DEF n

\* All that is in the parts, and nothing else.
LEMMA FlattenHolds ==
  ASSUME NEW X, NEW s \in Seq(Seq(X))
  PROVE  /\ FlattenSeq(s) \in Seq(X)
         /\ ToSet(FlattenSeq(s)) = UNION {ToSet(s[p]) : p \in DOMAIN s}
<1>. DEFINE n == Len(s)
            Held(k) == UNION {ToSet(s[p]) : p \in 1 .. k}
<1>1. n \in Nat /\ DOMAIN s = 1 .. n /\ \A p \in 1 .. n : s[p] \in Seq(X)
  OBVIOUS
<1>2. CASE n = 0
  <2>1. FlattenSeq(s) = s /\ s = <<>>
    BY <1>2 DEF FlattenSeq
  <2>. QED  BY <2>1 DEF ToSet
<1>3. CASE n # 0
  <2>1. Len(s) \in Nat \ {0}
    BY <1>1, <1>3
  <2>2. PICK F : /\ F[1] = s[1]
                 /\ \A k \in 2 .. n : F[k] = F[k - 1] \o s[k]
                 /\ FlattenSeq(s) = F[n]
    BY <2>1, FlattenHasSteps
  <2>. HIDE DEF n
  <2>. DEFINE Holds(k) == F[k] \in Seq(X) /\ ToSet(F[k]) = Held(k)
              T == {k \in 0 .. n : k = 0 \/ Holds(k)}
  <2>3. 0 \in T
    BY <1>1
  <2>4. ASSUME NEW k \in 1 .. n, k - 1 \in T PROVE k \in T
    <3>1. CASE k = 1
      <4>1. 1 .. 1 = {1} /\ 1 \in 1 .. n
        BY <1>1, <1>3
      <4>2. Held(1) = ToSet(s[1])
        BY <4>1
      <4>. HIDE DEF Held
      <4>. QED  BY <1>1, <2>2, <3>1, <4>1, <4>2
    <3>2. CASE k # 1
      <4>1. Holds(k - 1) /\ k \in 2 .. n /\ 1 .. k = (1 .. k - 1) \cup {k}
        <5>1. k - 1 # 0 /\ k \in 2 .. n
          BY <1>1, <3>2
        <5>2. 1 .. k = (1 .. k - 1) \cup {k}
          BY <1>1
        <5>. HIDE DEF Holds
        <5>. QED  BY <2>4, <5>1, <5>2
      <4>2. F[k] = F[k - 1] \o s[k] /\ s[k] \in Seq(X)
        BY <1>1, <2>2, <4>1
      <4>3. F[k] \in Seq(X) /\ ToSet(F[k]) = ToSet(F[k - 1]) \cup ToSet(s[k])
        BY <4>1, <4>2, SetOfConcat
      <4>4. Held(k) = Held(k - 1) \cup ToSet(s[k])
        BY <4>1
      <4>5. Holds(k) /\ k \in 0 .. n
        <5>. HIDE DEF Held
        <5>. QED  BY <1>1, <4>1, <4>3, <4>4
      <4>. HIDE DEF Holds
      <4>. QED  BY <4>5
    <3>. QED  BY <3>1, <3>2
  <2>5. n \in T
    <3>. HIDE DEF T
    <3>1. \A k \in 0 .. n : k \in T
      BY <1>1, <2>3, <2>4, Parsing!RangeInduction
    <3>. QED  BY <1>1, <3>1
  <2>. QED  BY <1>1, <1>3, <2>2, <2>5
<1>. QED  BY <1>2, <1>3

LEMMA AppendIsSome ==
  ASSUME NEW X, NEW s \in Seq(X), NEW x \in X
  PROVE  Append(s, x) \in Seq(X) /\ Append(s, x) # <<>>
<1>1. Append(s, x) \in Seq(X) /\ Len(Append(s, x)) = Len(s) + 1 /\ Len(s) \in Nat
  OBVIOUS
<1>. HIDE DEF Append
<1>2. Append(s, x) = <<>> => Len(Append(s, x)) = 0
  <2>1. Len(<<>>) = 0
    OBVIOUS
  <2>. QED  BY <2>1, Zenon
<1>. QED  BY <1>1, <1>2

LEMMA SetOfAppend ==
  ASSUME NEW S, NEW s \in Seq(S), NEW e \in S
  PROVE  /\ Append(s, e) \in Seq(S) /\ ToSet(s) \subseteq ToSet(Append(s, e))
         /\ e \in ToSet(Append(s, e))
         /\ ToSet(Append(s, e)) = ToSet(s) \cup {e}
<1>1. /\ Append(s, e) \in Seq(S) /\ Len(Append(s, e)) = Len(s) + 1 /\ Len(s) \in Nat
      /\ DOMAIN Append(s, e) = 1 .. Len(s) + 1 /\ DOMAIN s = 1 .. Len(s)
      /\ Append(s, e)[Len(s) + 1] = e
      /\ \A i \in 1 .. Len(s) : Append(s, e)[i] = s[i]
  OBVIOUS
<1>2. \A i \in DOMAIN s : i \in DOMAIN Append(s, e)
  BY <1>1
<1>3. Len(s) + 1 \in DOMAIN Append(s, e)
  BY <1>1
<1>4. \A i \in 1 .. Len(s) + 1 : Append(s, e)[i] = e \/ (i \in 1 .. Len(s) /\ Append(s, e)[i] = s[i])
  BY <1>1
<1>5. ToSet(s) \subseteq ToSet(Append(s, e)) /\ e \in ToSet(Append(s, e))
  BY <1>1, <1>2, <1>3 DEF ToSet
<1>6. ToSet(Append(s, e)) \subseteq ToSet(s) \cup {e}
  BY <1>1, <1>4 DEF ToSet
<1>. QED  BY <1>1, <1>5, <1>6

LEMMA SubSeqFacts ==
  ASSUME NEW C, NEW t \in Seq(C), NEW i \in 1 .. Len(t) + 1, NEW j \in i - 1 .. Len(t)
  PROVE  /\ SubSeq(t, i, j) \in Seq(C) /\ Len(SubSeq(t, i, j)) = j - i + 1
         /\ DOMAIN SubSeq(t, i, j) = 1 .. j - i + 1
         /\ \A k \in 1 .. j - i + 1 : SubSeq(t, i, j)[k] = t[i + k - 1]
<1>1. Len(t) \in Nat /\ \A k \in i .. j : t[k] \in C
  OBVIOUS
<1>2. /\ SubSeq(t, i, j) \in Seq(C) /\ Len(SubSeq(t, i, j)) = j - i + 1
      /\ \A k \in 1 .. j - i + 1 : SubSeq(t, i, j)[k] = t[i + k - 1]
  BY <1>1, SubSeqProperties
<1>. QED  BY <1>2

LEMMA FrontAndLast ==
  ASSUME NEW X, NEW s \in Seq(X), s # <<>>
  PROVE  Front(s) \in Seq(X) /\ Last(s) \in X
<1>. DEFINE n == Len(s)
<1>1. n \in Nat \ {0} /\ \A i \in 1 .. n : s[i] \in X
  BY EmptySeq
<1>. HIDE DEF n
<1>2. \A i \in 1 .. n - 1 : s[i] \in X
  BY <1>1
<1>3. n - 1 \in Int /\ 1 \in Int
  BY <1>1
<1>4. SubSeq(s, 1, n - 1) \in Seq(X)
  BY <1>2, <1>3, SubSeqProperties
<1>5. Front(s) = SubSeq(s, 1, n - 1) /\ Last(s) = s[n]
  BY DEF Front, Last, n
<1>. QED  BY <1>1, <1>4, <1>5

\* The pairs of S that are in order: a total order of a finite set.
IsOrder(S, before) ==
  /\ IsFiniteSet(S)
  /\ \A x \in S : <<x, x>> \notin before
  /\ \A x, y \in S : x = y \/ <<x, y>> \in before \/ <<y, x>> \in before
  /\ \A x, y, z \in S : <<x, y>> \in before /\ <<y, z>> \in before => <<x, z>> \in before

\* All of S, each once and in order.
IsInOrder(seq, S, before) ==
  /\ Cardinality(S) \in Nat /\ seq \in [1 .. Cardinality(S) -> S]
  /\ \A x \in S : \E r \in DOMAIN seq : seq[r] = x
  /\ \A r, q \in DOMAIN seq : r < q => <<seq[r], seq[q]>> \in before

LEMMA InOrderSorts ==
  ASSUME NEW S, NEW before, IsOrder(S, before)
  PROVE  IsInOrder(InOrder(S, before), S, before)
<1>. DEFINE n == Cardinality(S)
            above(x) == {y \in S : <<y, x>> \in before}
            seq == InOrder(S, before)
            rank == [x \in S |-> Cardinality(above(x)) + 1]
<1>0. IsFiniteSet(S) /\ n \in Nat
  BY FS_CardinalityType DEF IsOrder
<1>10. /\ \A x \in S : <<x, x>> \notin before
       /\ \A x, y \in S : x = y \/ <<x, y>> \in before \/ <<y, x>> \in before
       /\ \A x, y, z \in S : <<x, y>> \in before /\ <<y, z>> \in before => <<x, z>> \in before
  BY DEF IsOrder
<1>1. ASSUME NEW x \in S
      PROVE  IsFiniteSet(above(x)) /\ Cardinality(above(x)) \in 0 .. n - 1
  <2>1. above(x) \in SUBSET (S \ {x})
    BY <1>10
  <2>. HIDE DEF above
  <2>2. IsFiniteSet(S \ {x}) /\ Cardinality(S \ {x}) = n - 1
    BY <1>0, FS_RemoveElement
  <2>3. IsFiniteSet(above(x)) /\ Cardinality(above(x)) <= n - 1
    BY <2>1, <2>2, FS_Subset
  <2>4. Cardinality(above(x)) \in Nat
    BY <2>3, FS_CardinalityType
  <2>. QED  BY <1>0, <2>3, <2>4
<1>2. ASSUME NEW x \in S, NEW y \in S, <<x, y>> \in before
      PROVE  Cardinality(above(x)) < Cardinality(above(y))
  <2>1. above(x) \in SUBSET above(y) /\ x \in above(y) /\ x \notin above(x)
    BY <1>2, <1>10
  <2>2. IsFiniteSet(above(y)) /\ Cardinality(above(x)) \in Int /\ Cardinality(above(y)) \in Int
    BY <1>1
  <2>. HIDE DEF above
  <2>. QED  BY <2>1, <2>2, FS_Subset
<1>. HIDE DEF above, n, seq
<1>3. /\ rank \in [S -> 1 .. n]
      /\ \A x, y \in S : <<x, y>> \in before => rank[x] < rank[y]
  BY <1>0, <1>1, <1>2
<1>. HIDE DEF rank
<1>4. rank \in Injection(S, 1 .. n)
  <2>1. ASSUME NEW x \in S, NEW y \in S, rank[x] = rank[y] PROVE x = y
    <3>1. ~(rank[x] < rank[y]) /\ ~(rank[y] < rank[x])
      BY <1>3, <2>1
    <3>. QED  BY <1>3, <3>1, <1>10
  <2>. QED  BY <1>3, <2>1 DEF Injection, IsInjective
<1>5. rank \in Surjection(S, 1 .. n)
  <2>1. IsFiniteSet(1 .. n) /\ Cardinality(1 .. n) = n
    BY <1>0, FS_Interval
  <2>. QED  BY <1>0, <1>4, <2>1, FS_Injection DEF n
<1>6. ASSUME NEW r \in 1 .. n PROVE seq[r] \in S /\ rank[seq[r]] = r
  <2>1. \E x \in S : rank[x] = r
    BY <1>5 DEF Surjection
  <2>2. \A x \in S : rank[x] = r <=> Cardinality(above(x)) = r - 1
    BY <1>0, <1>1 DEF rank
  <2>3. \E x \in S : Cardinality(above(x)) = r - 1
    BY <2>1, <2>2
  <2>4. seq[r] = CHOOSE x \in S : Cardinality(above(x)) = r - 1
    BY DEF InOrder, above, n, seq
  <2>. QED  BY <2>2, <2>3, <2>4
<1>7. ASSUME NEW x \in S PROVE rank[x] \in 1 .. n /\ seq[rank[x]] = x
  <2>1. rank[x] \in 1 .. n
    BY <1>3
  <2>. QED  BY <1>4, <1>6, <2>1 DEF Injection, IsInjective
<1>8. ASSUME NEW r \in 1 .. n, NEW q \in 1 .. n, r < q
      PROVE  <<seq[r], seq[q]>> \in before
  <2>. DEFINE x == seq[r]
              y == seq[q]
  <2>1. x \in S /\ y \in S /\ rank[x] = r /\ rank[y] = q
    BY <1>6
  <2>. HIDE DEF x, y
  <2>2. x # y /\ ~(rank[y] < rank[x])
    BY <1>8, <2>1
  <2>3. <<x, y>> \in before
    BY <1>3, <2>1, <2>2, <1>10
  <2>. QED  BY <2>3 DEF x, y
<1>9. seq \in [1 .. n -> S]
  <2>. DEFINE f == [r \in 1 .. n |-> CHOOSE x \in S : Cardinality(above(x)) = r - 1]
  <2>1. seq = f
    BY DEF InOrder, above, n, seq
  <2>2. f = [r \in 1 .. n |-> f[r]]
    OBVIOUS
  <2>. HIDE DEF f
  <2>. QED  BY <1>6, <2>1, <2>2
<1>. QED  BY <1>0, <1>6, <1>7, <1>8, <1>9 DEF IsInOrder, n, seq

-----------------------------------------------------------------------------
(* The vector store. *)

WriterPlaces == {"idle", "embedded", "failed", "upsert", "remove", "done"}

Active(w) == writer[w].at \in {"upsert", "remove"}

StoreTypeOK ==
  /\ index \in [backend : {"memory", "chroma"}, chunk : [AllIds -> Writers \cup {0}],
                lately : SUBSET Writers, searchable : BOOLEAN, broken : BOOLEAN,
                crashes : Nat]
  /\ writer \in [Writers -> [at : WriterPlaces, existing : SUBSET AllIds]]

\* A chunk is stored under an id of the indexing it comes from.
ChunksAreOwned == \A i \in StoredIds : i \in Own(index.chunk[i])

\* An indexing between its calls is one of Chroma, of a document with text,
\* and is known to have had the document lately.
ActiveIsRecent ==
  \A w \in Writers : Active(w) =>
    /\ index.backend = "chroma"
    /\ w \in index.lately /\ ChunkCount[w] > 0

\* Whatever is left of before has been found by each indexing under way, and
\* will be taken out by each that has stored its own.
OldIsFound ==
  \A w \in Writers : \A i \in StoredIds :
    Active(w) /\ index.chunk[i] \notin index.lately =>
      i \in writer[w].existing /\ (writer[w].at = "remove" => i \notin Own(w))

\* An indexing that had the document alone, and has stored its chunks.
AloneIsStored ==
  \A w \in Writers : writer[w].at = "remove" /\ index.lately = {w} =>
    \A i \in Own(w) : index.chunk[i] = w

\* At rest.
RestIsWhole ==
  Quiet /\ ~index.broken =>
    /\ \A i \in StoredIds : index.chunk[i] \in index.lately
    /\ \A w \in Writers : index.lately = {w} => \A i \in Own(w) : index.chunk[i] = w

\* The first chunk is there once the document can be searched, or is about to be.
FirstIsStored ==
  index.searchable
    \/ (\E w \in Writers : writer[w].at = "remove" /\ \A v \in index.lately : ChunkCount[v] > 0)
  => 0 \in StoredIds

StoreInv ==
  /\ StoreTypeOK /\ ChunksAreOwned /\ ActiveIsRecent /\ OldIsFound /\ AloneIsStored
  /\ RestIsWhole /\ FirstIsStored

LEMMA StoreInvHolds == StoreInv => ReplacementIsWhole
<1>. SUFFICES ASSUME StoreInv PROVE ReplacementIsWhole
  OBVIOUS
<1>. USE DEF StoreInv
<1>1. ASSUME Quiet, ~index.broken, NEW i \in StoredIds
      PROVE  index.chunk[i] \in index.lately
  BY <1>1 DEF RestIsWhole
<1>2. ASSUME Quiet, ~index.broken, NEW w \in index.lately, index.lately = {w}, NEW i \in AllIds
      PROVE  index.chunk[i] = IF i \in Own(w) THEN w ELSE 0
  <2>1. w \in Writers
    BY DEF StoreTypeOK
  <2>2. CASE i \in Own(w)
    BY <1>2, <2>1, <2>2 DEF RestIsWhole
  <2>3. CASE i \notin Own(w)
    BY <1>2, <2>3 DEF RestIsWhole, ChunksAreOwned, StoredIds
  <2>. QED  BY <2>2, <2>3
<1>3. index.searchable => StoredIds # {}
  BY DEF FirstIsStored
<1>. QED  BY <1>1, <1>2, <1>3 DEF ReplacementIsWhole

LEMMA OwnFacts ==
  ASSUME NEW w \in Writers
  PROVE  /\ Own(w) \subseteq AllIds
         /\ ChunkCount[w] = 0 => Own(w) = {}
         /\ ChunkCount[w] > 0 => 0 \in Own(w)
<1>1. ChunkCount[w] \in Nat
  BY ChunkStoreAssumption
<1>2. 0 \in AllIds
  BY <1>1 DEF AllIds
<1>. QED  BY <1>1, <1>2 DEF Own

LEMMA StoreInitOK == StoreInit => StoreInv
<1>. SUFFICES ASSUME StoreInit PROVE StoreInv
  OBVIOUS
<1>1. StoreTypeOK
  BY DEF StoreInit, StoreTypeOK, WriterPlaces
<1>2. StoredIds = {} /\ (\A w \in Writers : writer[w].at = "idle") /\ ~index.searchable
  BY DEF StoreInit, StoredIds
<1>. QED
  BY <1>1, <1>2 DEF StoreInv, ChunksAreOwned, ActiveIsRecent, Active, OldIsFound, AloneIsStored,
                    RestIsWhole, FirstIsStored, StoreInit

LEMMA EmbedOK == ASSUME StoreInv, NEW w \in Writers, EmbedDocuments(w) PROVE StoreInv'
<1>1. PICK at \in {"embedded", "failed"} : writer' = [writer EXCEPT ![w].at = at]
  BY DEF EmbedDocuments
<1>2. writer[w].at = "idle" /\ index' = index
  BY DEF EmbedDocuments
<1>3. StoreTypeOK'
  BY <1>1, <1>2 DEF StoreInv, StoreTypeOK, WriterPlaces
<1>4. \A v \in Writers : /\ writer'[v].existing = writer[v].existing
                         /\ v # w => writer'[v].at = writer[v].at
                         /\ v = w => writer'[v].at = at
  BY <1>1 DEF StoreInv, StoreTypeOK
<1>5. Quiet' <=> Quiet
  BY <1>2, <1>4 DEF Quiet
<1>6. StoredIds' = StoredIds
  BY <1>2 DEF StoredIds
<1>. QED
  BY <1>1, <1>2, <1>3, <1>4, <1>5, <1>6
  DEF StoreInv, ChunksAreOwned, ActiveIsRecent, Active, OldIsFound, AloneIsStored,
      RestIsWhole, FirstIsStored

\* With a document without text the index loses what it had of it.
LEMMA DeleteOK == ASSUME StoreInv, NEW w \in Writers, DeleteIfEmpty(w) PROVE StoreInv'
<1>1. /\ writer[w].at = "embedded" /\ ChunkCount[w] = 0
      /\ writer' = [writer EXCEPT ![w].at = "done"]
      /\ index' = [index EXCEPT !.chunk = [i \in AllIds |-> 0], !.lately = With(w),
                                !.searchable = FALSE, !.broken = @ /\ ~Quiet]
  BY DEF DeleteIfEmpty
<1>2. /\ index'.chunk = [i \in AllIds |-> 0] /\ index'.lately = With(w)
      /\ index'.backend = index.backend /\ index'.searchable = FALSE
  BY <1>1 DEF StoreInv, StoreTypeOK
<1>3. index'.broken <=> index.broken /\ ~Quiet
  BY <1>1, Zenon DEF StoreInv, StoreTypeOK
<1>4. \A v \in Writers : writer'[v].at = IF v = w THEN "done" ELSE writer[v].at
  BY <1>1 DEF StoreInv, StoreTypeOK
<1>5. With(w) \in SUBSET Writers
  BY DEF With, StoreInv, StoreTypeOK
<1>6. StoreTypeOK'
  BY <1>1, <1>5 DEF StoreInv, StoreTypeOK, WriterPlaces
<1>7. StoredIds' = {}
  BY <1>2 DEF StoredIds
<1>8. Quiet' <=> Quiet
  BY <1>1, <1>4 DEF Quiet
<1>9. ActiveIsRecent'
  BY <1>1, <1>2, <1>3, <1>4 DEF StoreInv, ActiveIsRecent, Active, With, Quiet
<1>10. AloneIsStored'
  BY <1>1, <1>2, <1>4 DEF StoreInv, ActiveIsRecent, Active, AloneIsStored, With, Quiet
<1>11. RestIsWhole'
  <2>. SUFFICES ASSUME Quiet', NEW v \in Writers, index'.lately = {v} PROVE Own(v) = {}
    BY <1>7 DEF RestIsWhole
  <2>. QED  BY <1>1, <1>2, <1>8, OwnFacts DEF With
<1>12. FirstIsStored'
  <2>. SUFFICES ASSUME NEW v \in Writers, writer'[v].at = "remove",
                       \A u \in index'.lately : ChunkCount[u] > 0
                PROVE  FALSE
    BY <1>2 DEF FirstIsStored
  <2>. QED  BY <1>1, <1>2, ChunkStoreAssumption DEF With
<1>. QED
  BY <1>6, <1>7, <1>9, <1>10, <1>11, <1>12 DEF StoreInv, ChunksAreOwned, OldIsFound

\* The store in memory leaves no other indexing between its calls.
LEMMA ReplaceOK == ASSUME StoreInv, NEW w \in Writers, ReplaceInMemory(w) PROVE StoreInv'
<1>1. /\ index.backend = "memory" /\ ChunkCount[w] > 0
      /\ writer' = [writer EXCEPT ![w].at = "done"]
      /\ index' = [index EXCEPT !.chunk = [i \in AllIds |-> IF i \in Own(w) THEN w ELSE 0],
                                !.lately = {w}, !.searchable = TRUE]
  BY DEF ReplaceInMemory
<1>2. /\ index'.chunk = [i \in AllIds |-> IF i \in Own(w) THEN w ELSE 0]
      /\ index'.lately = {w}
  BY <1>1 DEF StoreInv, StoreTypeOK
<1>3. \A v \in Writers : writer'[v].at \notin {"upsert", "remove"}
  BY <1>1 DEF StoreInv, StoreTypeOK, ActiveIsRecent, Active
<1>4. StoreTypeOK'
  BY <1>1 DEF StoreInv, StoreTypeOK, WriterPlaces
<1>5. StoredIds' = Own(w)
  BY <1>2, OwnFacts, ChunkStoreAssumption DEF StoredIds
<1>6. \A i \in Own(w) : index'.chunk[i] = w
  BY <1>2, OwnFacts
<1>7. 0 \in Own(w)
  BY <1>1, OwnFacts
<1>. QED
  BY <1>2, <1>3, <1>4, <1>5, <1>6, <1>7
  DEF StoreInv, ChunksAreOwned, ActiveIsRecent, Active, OldIsFound, AloneIsStored,
      RestIsWhole, FirstIsStored

\* An indexing that begins finds all that is there.
LEMMA ReadOK == ASSUME StoreInv, NEW w \in Writers, ReadExistingIds(w) PROVE StoreInv'
<1>1. /\ index.backend = "chroma" /\ writer[w].at = "embedded" /\ ChunkCount[w] > 0
      /\ writer' = [writer EXCEPT ![w] = [at |-> "upsert", existing |-> StoredIds]]
      /\ index' = [index EXCEPT !.lately = With(w), !.broken = @ /\ ~Quiet]
  BY DEF ReadExistingIds
<1>2. /\ index'.chunk = index.chunk /\ index'.lately = With(w)
      /\ index'.backend = index.backend /\ index'.searchable = index.searchable
  BY <1>1 DEF StoreInv, StoreTypeOK
<1>4. /\ writer'[w].at = "upsert" /\ writer'[w].existing = StoredIds
      /\ \A v \in Writers \ {w} : writer'[v] = writer[v]
  BY <1>1 DEF StoreInv, StoreTypeOK
<1>5. With(w) \in SUBSET Writers /\ w \in With(w)
  BY DEF With, StoreInv, StoreTypeOK
<1>6. StoreTypeOK'
  BY <1>1, <1>5 DEF StoreInv, StoreTypeOK, WriterPlaces, StoredIds
<1>7. StoredIds' = StoredIds /\ ~Quiet'
  BY <1>2, <1>4 DEF StoredIds, Quiet
<1>8. \A v \in Writers \ {w} : Active(v) => With(w) = index.lately \cup {w}
  BY DEF Active, With, Quiet
<1>9. ActiveIsRecent'
  BY <1>1, <1>2, <1>4, <1>5, <1>8 DEF StoreInv, ActiveIsRecent, Active
<1>10. OldIsFound'
  BY <1>2, <1>4, <1>7, <1>8 DEF StoreInv, OldIsFound, Active
<1>11. AloneIsStored'
  <2>. SUFFICES ASSUME NEW v \in Writers, writer'[v].at = "remove", index'.lately = {v}
                PROVE  FALSE
    BY DEF AloneIsStored
  <2>. QED  BY <1>2, <1>4, <1>5
<1>12. FirstIsStored'
  BY <1>2, <1>4, <1>7, <1>8 DEF StoreInv, FirstIsStored, Active
<1>. QED
  BY <1>2, <1>6, <1>7, <1>9, <1>10, <1>11, <1>12 DEF StoreInv, ChunksAreOwned, RestIsWhole

\* What is stored under the ids of the new chunks is replaced.
LEMMA UpsertOK == ASSUME StoreInv, NEW w \in Writers, Upsert(w) PROVE StoreInv'
<1>1. /\ writer[w].at = "upsert" /\ Active(w)
      /\ writer' = [writer EXCEPT ![w].at = "remove"]
      /\ index' = [index EXCEPT !.chunk = [i \in AllIds |-> IF i \in Own(w) THEN w ELSE @[i]]]
  BY DEF Upsert, Active
<1>2. /\ index'.chunk = [i \in AllIds |-> IF i \in Own(w) THEN w ELSE index.chunk[i]]
      /\ index'.lately = index.lately /\ index'.searchable = index.searchable
      /\ index'.backend = index.backend /\ index'.broken = index.broken
  BY <1>1 DEF StoreInv, StoreTypeOK
<1>3. \A v \in Writers : /\ writer'[v].at = IF v = w THEN "remove" ELSE writer[v].at
                         /\ writer'[v].existing = writer[v].existing
  BY <1>1 DEF StoreInv, StoreTypeOK
<1>4. StoreTypeOK'
  BY <1>1 DEF StoreInv, StoreTypeOK, WriterPlaces
<1>5. StoredIds' = StoredIds \cup Own(w) /\ StoredIds' \subseteq AllIds
  BY <1>2, OwnFacts, ChunkStoreAssumption DEF StoredIds
<1>6. w \in index.lately /\ 0 \in Own(w) /\ ~Quiet'
  BY <1>1, <1>3, OwnFacts DEF StoreInv, ActiveIsRecent, Quiet
<1>7. \A v \in Writers : Active(v)' <=> Active(v)
  BY <1>1, <1>3 DEF Active
<1>8. \A i \in StoredIds' :
         IF i \in Own(w) THEN index'.chunk[i] = w
         ELSE i \in StoredIds /\ index'.chunk[i] = index.chunk[i]
  BY <1>2, <1>5
<1>9. ChunksAreOwned'
  BY <1>8 DEF StoreInv, ChunksAreOwned
<1>10. ActiveIsRecent'
  BY <1>2, <1>7 DEF StoreInv, ActiveIsRecent
<1>11. OldIsFound'
  <2>. SUFFICES ASSUME NEW v \in Writers, NEW i \in StoredIds', Active(v),
                       index'.chunk[i] \notin index.lately
                PROVE  i \in writer[v].existing /\ (writer'[v].at = "remove" => i \notin Own(v))
    BY <1>2, <1>3, <1>7 DEF OldIsFound
  <2>1. i \notin Own(w) /\ i \in StoredIds /\ index.chunk[i] \notin index.lately
    BY <1>6, <1>8
  <2>. QED  BY <1>1, <1>3, <2>1 DEF StoreInv, OldIsFound
<1>12. AloneIsStored'
  <2>. SUFFICES ASSUME NEW v \in Writers, writer'[v].at = "remove", index.lately = {v},
                       NEW i \in Own(v)
                PROVE  index'.chunk[i] = v
    BY <1>2 DEF AloneIsStored
  <2>1. v = w
    BY <1>6
  <2>. QED  BY <1>2, <1>5, <2>1
<1>13. FirstIsStored'
  BY <1>5, <1>6 DEF FirstIsStored
<1>. QED
  BY <1>4, <1>6, <1>9, <1>10, <1>11, <1>12, <1>13 DEF StoreInv, RestIsWhole

\* Only what is left of before is taken out, and by the last indexing all of it.
LEMMA RemoveOK == ASSUME StoreInv, NEW w \in Writers, RemoveStale(w) PROVE StoreInv'
<1>. DEFINE found == \A v \in index.lately : ChunkCount[v] > 0
<1>1. /\ writer[w].at = "remove" /\ Active(w)
      /\ writer' = [writer EXCEPT ![w].at = "done"]
      /\ index' = [index EXCEPT
           !.chunk = [i \in AllIds |-> IF i \in StaleIds(w) THEN 0 ELSE @[i]],
           !.searchable = @ \/ found]
  BY DEF RemoveStale, Active
<1>. HIDE DEF found
<1>2. /\ index'.chunk = [i \in AllIds |-> IF i \in StaleIds(w) THEN 0 ELSE index.chunk[i]]
      /\ index'.lately = index.lately
      /\ index'.backend = index.backend /\ index'.broken = index.broken
  BY <1>1 DEF StoreInv, StoreTypeOK
<1>3. index'.searchable <=> index.searchable \/ found
  BY <1>1, Zenon DEF StoreInv, StoreTypeOK
<1>4. \A v \in Writers : /\ writer'[v].at = IF v = w THEN "done" ELSE writer[v].at
                         /\ writer'[v].existing = writer[v].existing
  BY <1>1 DEF StoreInv, StoreTypeOK
<1>5. StoreTypeOK'
  <2>1. (index.searchable \/ found) \in BOOLEAN
    OBVIOUS
  <2>. DEFINE b == index.searchable \/ found
  <2>2. b \in BOOLEAN /\ index' = [index EXCEPT
           !.chunk = [i \in AllIds |-> IF i \in StaleIds(w) THEN 0 ELSE @[i]],
           !.searchable = b]
    BY <1>1, <2>1
  <2>. DEFINE c == [i \in AllIds |-> IF i \in StaleIds(w) THEN 0 ELSE index.chunk[i]]
  <2>3. c \in [AllIds -> Writers \cup {0}]
    BY DEF StoreInv, StoreTypeOK
  <2>4. index' = [index EXCEPT !.chunk = c, !.searchable = b]
    BY <2>2 DEF StoreInv, StoreTypeOK
  <2>. HIDE DEF b, c
  <2>5. index' \in [backend : {"memory", "chroma"}, chunk : [AllIds -> Writers \cup {0}],
                    lately : SUBSET Writers, searchable : BOOLEAN, broken : BOOLEAN,
                    crashes : Nat]
    BY <2>2, <2>3, <2>4 DEF StoreInv, StoreTypeOK
  <2>6. writer' \in [Writers -> [at : WriterPlaces, existing : SUBSET AllIds]]
    BY <1>1 DEF StoreInv, StoreTypeOK, WriterPlaces
  <2>. QED  BY <2>5, <2>6 DEF StoreTypeOK
<1>6. StoredIds' = StoredIds \ StaleIds(w)
  BY <1>2 DEF StoredIds
<1>7. /\ index.lately \in SUBSET Writers /\ w \in index.lately
      /\ 0 \in Own(w) /\ 0 \notin StaleIds(w)
  BY <1>1, OwnFacts DEF StoreInv, StoreTypeOK, ActiveIsRecent, StaleIds
<1>8. \A i \in StoredIds' : i \in StoredIds /\ index'.chunk[i] = index.chunk[i]
  BY <1>2, <1>6 DEF StoredIds
<1>9. ChunksAreOwned'
  BY <1>8 DEF StoreInv, ChunksAreOwned
<1>10. ActiveIsRecent'
  BY <1>2, <1>4 DEF StoreInv, ActiveIsRecent, Active
<1>11. OldIsFound'
  BY <1>2, <1>4, <1>8 DEF StoreInv, OldIsFound, Active
<1>12. AloneIsStored'
  BY <1>1, <1>2, <1>4, <1>7 DEF AloneIsStored
<1>13. ASSUME Quiet', NEW i \in StoredIds' PROVE index'.chunk[i] \in index.lately
  <2>. SUFFICES ASSUME index.chunk[i] \notin index.lately PROVE FALSE
    BY <1>8
  <2>1. i \in writer[w].existing /\ i \notin Own(w)
    BY <1>1, <1>8 DEF StoreInv, OldIsFound
  <2>. QED  BY <1>6, <2>1 DEF StaleIds
<1>14. ASSUME NEW v \in Writers, index.lately = {v}, NEW i \in Own(v)
       PROVE  index'.chunk[i] = v
  <2>1. v = w /\ i \in AllIds /\ i \notin StaleIds(w) /\ index.chunk[i] = w
    BY <1>1, <1>7, <1>14, OwnFacts DEF StoreInv, AloneIsStored, StaleIds
  <2>. QED  BY <1>2, <2>1
<1>15. FirstIsStored'
  <2>1. CASE found \/ index.searchable
    <3>1. 0 \in StoredIds
      BY <1>1, <2>1 DEF StoreInv, FirstIsStored, found
    <3>. QED  BY <1>6, <1>7, <3>1 DEF FirstIsStored
  <2>2. CASE ~found /\ ~index.searchable
    BY <1>2, <1>3, <2>2 DEF FirstIsStored, found
  <2>. QED  BY <2>1, <2>2
<1>16. RestIsWhole'
  BY <1>2, <1>13, <1>14 DEF RestIsWhole
<1>. QED  BY <1>5, <1>9, <1>10, <1>11, <1>12, <1>15, <1>16 DEF StoreInv

\* A deletion that raises leaves some of what there was.
LEMMA DeleteFailsOK == ASSUME StoreInv, NEW w \in Writers, DeleteFails(w) PROVE StoreInv'
<1>1. /\ writer[w].at = "embedded" /\ ChunkCount[w] = 0
      /\ writer' = [writer EXCEPT ![w].at = "failed"]
  BY DEF DeleteFails
<1>2. PICK removed \in SUBSET StoredIds :
        index' = [index EXCEPT !.chunk = [i \in AllIds |-> IF i \in removed THEN 0 ELSE @[i]],
                               !.lately = With(w), !.searchable = FALSE, !.broken = TRUE]
  BY DEF DeleteFails
<1>3. /\ index'.chunk = [i \in AllIds |-> IF i \in removed THEN 0 ELSE index.chunk[i]]
      /\ index'.lately = With(w) /\ index'.backend = index.backend
      /\ index'.searchable = FALSE /\ index'.broken = TRUE
  BY <1>2 DEF StoreInv, StoreTypeOK
<1>4. \A v \in Writers : /\ writer'[v].at = IF v = w THEN "failed" ELSE writer[v].at
                         /\ writer'[v].existing = writer[v].existing
  BY <1>1 DEF StoreInv, StoreTypeOK
<1>5. With(w) \in SUBSET Writers /\ w \in With(w)
  BY DEF With, StoreInv, StoreTypeOK
<1>6. StoreTypeOK'
  BY <1>1, <1>2, <1>5 DEF StoreInv, StoreTypeOK, WriterPlaces
<1>7. \A i \in StoredIds' : i \in StoredIds /\ index'.chunk[i] = index.chunk[i]
  BY <1>3 DEF StoredIds
<1>8. \A v \in Writers : Active(v)' => Active(v) /\ With(w) = index.lately \cup {w}
  BY <1>4 DEF Active, With, Quiet
<1>9. ChunksAreOwned'
  BY <1>7 DEF StoreInv, ChunksAreOwned
<1>10. ActiveIsRecent'
  BY <1>3, <1>8 DEF StoreInv, ActiveIsRecent
<1>11. OldIsFound'
  <2>. SUFFICES ASSUME NEW v \in Writers, NEW i \in StoredIds', Active(v)',
                       index'.chunk[i] \notin index'.lately
                PROVE  i \in writer'[v].existing /\ (writer'[v].at = "remove" => i \notin Own(v))
    BY DEF OldIsFound
  <2>1. Active(v) /\ index'.lately = index.lately \cup {w}
    BY <1>3, <1>8
  <2>2. i \in StoredIds /\ index.chunk[i] \notin index.lately
    BY <1>7, <2>1
  <2>3. i \in writer[v].existing /\ (writer[v].at = "remove" => i \notin Own(v))
    BY <2>1, <2>2 DEF StoreInv, OldIsFound
  <2>4. writer'[v].existing = writer[v].existing /\ (writer'[v].at = "remove" => writer[v].at = "remove")
    BY <1>4
  <2>. QED  BY <2>3, <2>4
<1>12. AloneIsStored' /\ FirstIsStored'
  <2>1. ASSUME NEW v \in Writers, writer'[v].at = "remove", index'.lately = {v} PROVE FALSE
    BY <1>3, <1>4, <1>5, <2>1
  <2>2. ASSUME NEW v \in Writers, \A u \in index'.lately : ChunkCount[u] > 0 PROVE FALSE
    BY <1>1, <1>3, <1>5, <2>2, ChunkStoreAssumption
  <2>. QED  BY <1>3, <2>1, <2>2 DEF AloneIsStored, FirstIsStored
<1>. QED
  BY <1>3, <1>6, <1>9, <1>10, <1>11, <1>12 DEF StoreInv, RestIsWhole

\* A document that cannot be read is left as it is.
LEMMA ReadFailsOK == ASSUME StoreInv, NEW w \in Writers, ReadFails(w) PROVE StoreInv'
<1>1. /\ writer[w].at = "embedded" /\ index' = index
      /\ writer' = [writer EXCEPT ![w].at = "failed"]
  BY DEF ReadFails
<1>2. StoreTypeOK'
  BY <1>1 DEF StoreInv, StoreTypeOK, WriterPlaces
<1>3. \A v \in Writers : /\ writer'[v].existing = writer[v].existing
                         /\ v # w => writer'[v].at = writer[v].at
                         /\ v = w => writer'[v].at = "failed"
  BY <1>1 DEF StoreInv, StoreTypeOK
<1>4. Quiet' <=> Quiet
  BY <1>1, <1>3 DEF Quiet
<1>5. StoredIds' = StoredIds
  BY <1>1 DEF StoredIds
<1>. QED
  BY <1>1, <1>2, <1>3, <1>4, <1>5
  DEF StoreInv, ChunksAreOwned, ActiveIsRecent, Active, OldIsFound, AloneIsStored,
      RestIsWhole, FirstIsStored

\* The indexing is over, the others are where they were.
Stopped(w) ==
  \A v \in Writers : /\ writer'[v].at = IF v = w THEN "failed" ELSE writer[v].at
                     /\ writer'[v].existing = writer[v].existing

\* What a call that is cut short does to the record of the store.
LEMMA CutShortFacts ==
  ASSUME StoreTypeOK, NEW w \in Writers, NEW chunk \in [AllIds -> Writers \cup {0}],
         CutShort(w, chunk)
  PROVE  /\ StoreTypeOK'
         /\ index'.chunk = chunk /\ index'.lately = index.lately
         /\ index'.backend = index.backend /\ index'.searchable = index.searchable
         /\ index'.broken
         /\ Stopped(w)
<1>1. /\ writer' = [writer EXCEPT ![w].at = "failed"]
      /\ index' = [index EXCEPT !.chunk = chunk, !.broken = TRUE]
  BY DEF CutShort
<1>2. StoreTypeOK'
  BY <1>1 DEF StoreTypeOK, WriterPlaces
<1>3. /\ index'.chunk = chunk /\ index'.lately = index.lately
      /\ index'.backend = index.backend /\ index'.searchable = index.searchable
  BY <1>1 DEF StoreTypeOK
<1>4. index'.broken
  BY <1>1 DEF StoreTypeOK
<1>5. Stopped(w)
  BY <1>1 DEF StoreTypeOK, Stopped
<1>. QED  BY <1>2, <1>3, <1>4, <1>5

\* An upsert that raises has written chunks of an indexing that has the document.
LEMMA UpsertFailsOK == ASSUME StoreInv, NEW w \in Writers, UpsertFails(w) PROVE StoreInv'
<1>1. writer[w].at = "upsert" /\ Active(w)
  BY DEF UpsertFails, Active
<1>2. PICK written \in SUBSET Own(w) :
        CutShort(w, [i \in AllIds |-> IF i \in written THEN w ELSE index.chunk[i]])
  BY DEF UpsertFails
<1>3. [i \in AllIds |-> IF i \in written THEN w ELSE index.chunk[i]]
        \in [AllIds -> Writers \cup {0}]
  BY DEF StoreInv, StoreTypeOK
<1>4. /\ StoreTypeOK'
      /\ index'.chunk = [i \in AllIds |-> IF i \in written THEN w ELSE index.chunk[i]]
      /\ index'.lately = index.lately /\ index'.backend = index.backend
      /\ index'.searchable = index.searchable /\ index'.broken /\ Stopped(w)
  BY <1>2, <1>3, CutShortFacts DEF StoreInv
<1>5. w \in index.lately
  BY <1>1 DEF StoreInv, ActiveIsRecent
<1>6. \A i \in StoredIds' :
         IF i \in written THEN index'.chunk[i] = w
         ELSE i \in StoredIds /\ index'.chunk[i] = index.chunk[i]
  BY <1>4 DEF StoredIds
<1>7. StoredIds \subseteq StoredIds'
  BY <1>4, ChunkStoreAssumption DEF StoredIds
<1>8. \A v \in Writers : Active(v)' => Active(v)
  BY <1>4 DEF Active, Stopped
<1>9. ChunksAreOwned'
  BY <1>6 DEF StoreInv, ChunksAreOwned
<1>10. ActiveIsRecent'
  BY <1>4, <1>8 DEF StoreInv, ActiveIsRecent
<1>11. OldIsFound'
  <2>. SUFFICES ASSUME NEW v \in Writers, NEW i \in StoredIds', Active(v)',
                       index'.chunk[i] \notin index'.lately
                PROVE  i \in writer'[v].existing /\ (writer'[v].at = "remove" => i \notin Own(v))
    BY DEF OldIsFound
  <2>1. i \in StoredIds /\ index.chunk[i] \notin index.lately
    BY <1>4, <1>5, <1>6
  <2>2. /\ writer'[v].existing = writer[v].existing
        /\ writer'[v].at = "remove" => writer[v].at = "remove"
    BY <1>4 DEF Stopped
  <2>. QED  BY <1>8, <2>1, <2>2 DEF StoreInv, OldIsFound
<1>12. AloneIsStored'
  BY <1>4, <1>5 DEF AloneIsStored, Stopped
<1>13. FirstIsStored'
  <2>1. ASSUME NEW v \in Writers, writer'[v].at = "remove" PROVE writer[v].at = "remove"
    BY <1>4, <2>1 DEF Stopped
  <2>. QED  BY <1>4, <1>7, <2>1 DEF StoreInv, FirstIsStored
<1>. QED
  BY <1>4, <1>9, <1>10, <1>11, <1>12, <1>13 DEF StoreInv, RestIsWhole

\* A removal that raises has taken out only what it should.
LEMMA RemoveFailsOK == ASSUME StoreInv, NEW w \in Writers, RemoveFails(w) PROVE StoreInv'
<1>1. writer[w].at = "remove" /\ Active(w)
  BY DEF RemoveFails, Active
<1>2. PICK removed \in SUBSET StaleIds(w) :
        CutShort(w, [i \in AllIds |-> IF i \in removed THEN 0 ELSE index.chunk[i]])
  BY DEF RemoveFails
<1>3. [i \in AllIds |-> IF i \in removed THEN 0 ELSE index.chunk[i]]
        \in [AllIds -> Writers \cup {0}]
  BY DEF StoreInv, StoreTypeOK
<1>4. /\ StoreTypeOK'
      /\ index'.chunk = [i \in AllIds |-> IF i \in removed THEN 0 ELSE index.chunk[i]]
      /\ index'.lately = index.lately /\ index'.backend = index.backend
      /\ index'.searchable = index.searchable /\ index'.broken /\ Stopped(w)
  BY <1>2, <1>3, CutShortFacts DEF StoreInv
<1>5. w \in index.lately /\ 0 \notin removed
  BY <1>1, OwnFacts DEF StoreInv, ActiveIsRecent, StaleIds
<1>6. \A i \in StoredIds' : i \in StoredIds /\ index'.chunk[i] = index.chunk[i]
  BY <1>4 DEF StoredIds
<1>7. 0 \in StoredIds => 0 \in StoredIds'
  BY <1>4, <1>5 DEF StoredIds
<1>8. \A v \in Writers : Active(v)' => Active(v)
  BY <1>4 DEF Active, Stopped
<1>9. ChunksAreOwned'
  BY <1>6 DEF StoreInv, ChunksAreOwned
<1>10. ActiveIsRecent'
  BY <1>4, <1>8 DEF StoreInv, ActiveIsRecent
<1>11. OldIsFound'
  BY <1>4, <1>6, <1>8 DEF StoreInv, OldIsFound, Active, Stopped
<1>12. AloneIsStored'
  BY <1>4, <1>5 DEF AloneIsStored, Stopped
<1>13. FirstIsStored'
  <2>1. ASSUME NEW v \in Writers, writer'[v].at = "remove" PROVE writer[v].at = "remove"
    BY <1>4, <2>1 DEF Stopped
  <2>. QED  BY <1>4, <1>7, <2>1 DEF StoreInv, FirstIsStored
<1>. QED
  BY <1>4, <1>9, <1>10, <1>11, <1>12, <1>13 DEF StoreInv, RestIsWhole

\* A crash ends all that was under way.
LEMMA CrashOK == ASSUME StoreInv, CrashStore PROVE StoreInv'
<1>. DEFINE memory == index.backend = "memory"
            kept   == IF memory THEN [i \in AllIds |-> 0] ELSE index.chunk
            recent == IF memory THEN {} ELSE index.lately
            torn   == index.broken \/ ~Quiet
            search == index.searchable /\ index.backend = "chroma"
<1>1. /\ writer' = [w \in Writers |->
                     IF writer[w].at = "idle" THEN writer[w] ELSE [writer[w] EXCEPT !.at = "done"]]
      /\ index' = [index EXCEPT !.crashes = @ + 1, !.broken = torn, !.chunk = kept,
                                !.lately = recent, !.searchable = search]
  BY DEF CrashStore
<1>2. /\ kept \in [AllIds -> Writers \cup {0}] /\ recent \in SUBSET Writers
      /\ torn \in BOOLEAN /\ search \in BOOLEAN
  BY DEF StoreInv, StoreTypeOK
<1>3. (torn <=> index.broken \/ ~Quiet) /\ (search <=> index.searchable /\ ~memory)
  BY DEF StoreInv, StoreTypeOK
<1>4. /\ memory => kept = [i \in AllIds |-> 0] /\ recent = {}
      /\ ~memory => kept = index.chunk /\ recent = index.lately
  OBVIOUS
<1>. HIDE DEF memory, kept, recent, torn, search
<1>5. index'.chunk = kept /\ index'.lately = recent /\ index'.backend = index.backend
  BY <1>1 DEF StoreInv, StoreTypeOK
<1>6. index'.broken = torn /\ index'.searchable = search
  BY <1>1, Zenon DEF StoreInv, StoreTypeOK
<1>7. \A w \in Writers : writer'[w].at \in {"idle", "done"}
  BY <1>1 DEF StoreInv, StoreTypeOK
<1>8. StoreTypeOK'
  <2>. DEFINE more == index.crashes + 1
  <2>1. more \in Nat
    BY DEF StoreInv, StoreTypeOK
  <2>2. index' = [index EXCEPT !.crashes = more, !.broken = torn, !.chunk = kept,
                               !.lately = recent, !.searchable = search]
    BY <1>1
  <2>. HIDE DEF more
  <2>3. index' \in [backend : {"memory", "chroma"}, chunk : [AllIds -> Writers \cup {0}],
                    lately : SUBSET Writers, searchable : BOOLEAN, broken : BOOLEAN,
                    crashes : Nat]
    BY <1>2, <2>1, <2>2 DEF StoreInv, StoreTypeOK
  <2>4. writer' \in [Writers -> [at : WriterPlaces, existing : SUBSET AllIds]]
    BY <1>1 DEF StoreInv, StoreTypeOK, WriterPlaces
  <2>. QED  BY <2>3, <2>4 DEF StoreTypeOK
<1>9. IF memory THEN StoredIds' = {} ELSE StoredIds' = StoredIds
  BY <1>4, <1>5 DEF StoredIds
<1>10. Quiet' /\ (\A w \in Writers : ~Active(w)' /\ writer'[w].at # "remove")
  BY <1>7 DEF Quiet, Active
<1>11. ChunksAreOwned'
  BY <1>4, <1>5, <1>9 DEF StoreInv, ChunksAreOwned
<1>12. RestIsWhole'
  BY <1>3, <1>4, <1>5, <1>6, <1>9 DEF StoreInv, RestIsWhole
<1>13. FirstIsStored'
  BY <1>3, <1>6, <1>9, <1>10 DEF StoreInv, FirstIsStored
<1>. QED
  BY <1>8, <1>10, <1>11, <1>12, <1>13 DEF StoreInv, ActiveIsRecent, OldIsFound, AloneIsStored

LEMMA StoreNextOK == StoreInv /\ StoreNext => StoreInv'
BY EmbedOK, DeleteOK, ReplaceOK, ReadOK, UpsertOK, RemoveOK,
   DeleteFailsOK, ReadFailsOK, UpsertFailsOK, RemoveFailsOK, CrashOK
DEF StoreNext

LEMMA StoreRests == StoreInv /\ UNCHANGED store => StoreInv'
<1>. SUFFICES ASSUME StoreInv, index' = index, writer' = writer PROVE StoreInv'
  BY DEF store
<1>. QED
  BY DEF StoreInv, StoreTypeOK, ChunksAreOwned, ActiveIsRecent, OldIsFound, AloneIsStored,
         RestIsWhole, FirstIsStored, StoredIds, Active, Quiet

\* The store while it works, and at rest.
StorePart == IF part = "store" THEN StoreInv ELSE NoStore

LEMMA RestingStore == NoStore => ReplacementIsWhole
<1>. SUFFICES ASSUME NoStore PROVE ReplacementIsWhole
  OBVIOUS
<1>1. StoredIds = {} /\ index.lately = {} /\ ~index.searchable
  BY DEF NoStore, StoredIds
<1>. QED  BY <1>1 DEF ReplacementIsWhole

\* At rest, unless a crash or a call that raised has cut a replacement short
\* since, a document that one indexing alone had last is that one's, whole,
\* whatever was cut short before it; after indexings that overlapped no chunk
\* of an earlier one is left; and a document that could be searched can be
\* searched all the time, also while replacements fail
\* (ChromaVectorStore.replace_document, RagPipeline.index_chunks): for any
\* number of indexings, chunks, crashes and calls that raise.
THEOREM ReindexingIsWhole == ServiceSpec => []ReplacementIsWhole
<1>1. ServiceInit => StorePart
  BY StoreInitOK DEF ServiceInit, StorePart
<1>2. StorePart /\ [ServiceNext]_service => StorePart'
  <2>. SUFFICES ASSUME StorePart, [ServiceNext]_service PROVE StorePart'
    OBVIOUS
  <2>1. part' = part
    BY DEF ServiceNext, service
  <2>2. (part = "store" /\ StoreNext) \/ UNCHANGED store
    BY DEF ServiceNext, service
  <2>3. CASE part = "store"
    BY <2>1, <2>2, <2>3, StoreNextOK, StoreRests DEF StorePart
  <2>4. CASE part # "store"
    BY <2>1, <2>2, <2>4 DEF StorePart, NoStore, store
  <2>. QED  BY <2>3, <2>4
<1>3. StorePart => ReplacementIsWhole
  BY StoreInvHolds, RestingStore DEF StorePart
<1>. QED  BY <1>1, <1>2, <1>3, PTL DEF ServiceSpec

-----------------------------------------------------------------------------
(* The articles of a page, whatever the page. *)

Specs(D) ==
  [key : Nat \X Nat, hierarchy : [1 .. 3 -> Seq(Nat)], blocks : {b \in Seq(D) : b # <<>>}]

Accumulators(D) ==
  [hierarchy : [1 .. 3 -> Seq(Nat)], pending : 0 .. 3, current : Seq(Specs(D)), done : Seq(Specs(D)),
   previous : Nat \X Nat, closed : BOOLEAN]

KeysIn(specs) == {specs[i].key : i \in DOMAIN specs}

ParsedKeys(acc) == KeysIn(acc.done) \cup KeysIn(acc.current)

\* The last article is one of those that have been found, and an article with
\* a suffix comes after the one without.
KeysInOrder(acc) ==
  /\ acc.previous = <<0, 0>> \/ acc.previous \in ParsedKeys(acc)
  /\ \A key \in ParsedKeys(acc) : <<key[1], 0>> \in ParsedKeys(acc)

ParserOK(D, acc) == acc \in Accumulators(D) /\ KeysInOrder(acc)

LEMMA KeysOfConcat ==
  ASSUME NEW D, NEW s \in Seq(Specs(D)), NEW t \in Seq(Specs(D))
  PROVE  s \o t \in Seq(Specs(D)) /\ KeysIn(s \o t) = KeysIn(s) \cup KeysIn(t)
<1>1. s \o t \in Seq(Specs(D)) /\ Len(s \o t) = Len(s) + Len(t)
  OBVIOUS
<1>2. \A i \in 1 .. Len(s) + Len(t) : (s \o t)[i] = IF i <= Len(s) THEN s[i] ELSE t[i - Len(s)]
  OBVIOUS
<1>3. KeysIn(s \o t) \subseteq KeysIn(s) \cup KeysIn(t)
  <2>. SUFFICES ASSUME NEW i \in 1 .. Len(s) + Len(t)
                PROVE  (s \o t)[i].key \in KeysIn(s) \cup KeysIn(t)
    BY <1>1 DEF KeysIn
  <2>1. CASE i <= Len(s)
    BY <1>2, <2>1 DEF KeysIn
  <2>2. CASE i > Len(s)
    <3>1. i - Len(s) \in DOMAIN t /\ (s \o t)[i] = t[i - Len(s)]
      BY <1>2, <2>2
    <3>. QED  BY <3>1 DEF KeysIn
  <2>. QED  BY <2>1, <2>2
<1>4. ASSUME NEW i \in DOMAIN s PROVE s[i].key \in KeysIn(s \o t)
  <2>1. i \in DOMAIN (s \o t) /\ (s \o t)[i] = s[i]
    BY <1>1, <1>2
  <2>. QED  BY <2>1 DEF KeysIn
<1>5. ASSUME NEW i \in DOMAIN t PROVE t[i].key \in KeysIn(s \o t)
  <2>1. i + Len(s) \in DOMAIN (s \o t) /\ (s \o t)[i + Len(s)] = t[i]
    BY <1>1, <1>2
  <2>. QED  BY <2>1 DEF KeysIn
<1>. QED  BY <1>1, <1>3, <1>4, <1>5 DEF KeysIn

LEMMA FinishOK ==
  ASSUME NEW D, NEW acc \in Accumulators(D)
  PROVE  /\ FinishCurrent(acc) \in Accumulators(D)
         /\ FinishCurrent(acc) = [acc EXCEPT !.done = acc.done \o acc.current, !.current = <<>>]
         /\ ParsedKeys(FinishCurrent(acc)) = ParsedKeys(acc)
         /\ KeysIn(FinishCurrent(acc).done) = ParsedKeys(acc)
<1>. DEFINE both == acc.done \o acc.current
            none == <<>>
<1>1. both \in Seq(Specs(D)) /\ KeysIn(both) = ParsedKeys(acc)
  BY KeysOfConcat DEF Accumulators, ParsedKeys
<1>2. FinishCurrent(acc) = [acc EXCEPT !.done = both, !.current = none]
  BY DEF FinishCurrent
<1>3. none \in Seq(Specs(D)) /\ KeysIn(none) = {}
  BY DEF KeysIn
<1>. HIDE DEF both, none
<1>4. FinishCurrent(acc) \in Accumulators(D)
  BY <1>1, <1>2, <1>3 DEF Accumulators
<1>5. FinishCurrent(acc).done = both /\ FinishCurrent(acc).current = none
  BY <1>2 DEF Accumulators
<1>. QED  BY <1>1, <1>2, <1>3, <1>4, <1>5 DEF ParsedKeys, both, none

LEMMA LevelKinds ==
  ASSUME NEW par \in LawParagraphs, par.kind \in ToSet(Levels)
  PROVE  LevelOf(par) \in 1 .. 3
<1>1. \E l \in 1 .. 3 : Levels[l] = par.kind
  BY DEF ToSet, Levels
<1>. QED  BY <1>1, Zenon DEF LevelOf

\* A step of the parser keeps the articles in order.
LEMMA ParseOK ==
  ASSUME NEW page \in Seq(LawParagraphs), NEW D, D = DOMAIN page, NEW i \in D, NEW acc,
         ParserOK(D, acc)
  PROVE  ParserOK(D, ParseParagraph(page, acc, i))
<1>. DEFINE par   == page[i]
            on    == [acc EXCEPT !.pending = 0]
            named == [on EXCEPT !.hierarchy[acc.pending] = Append(@, i)]
            spec  == [key |-> <<par.n, par.s>>, hierarchy |-> acc.hierarchy, blocks |-> <<i>>]
<1>0. i \in Nat /\ par \in LawParagraphs /\ acc \in Accumulators(D)
  BY DEF ParserOK
<1>1. /\ on \in Accumulators(D) /\ on.done = acc.done /\ on.current = acc.current
      /\ on.previous = acc.previous /\ on.hierarchy = acc.hierarchy /\ ParserOK(D, on)
  <2>. DEFINE zero == 0
  <2>1. zero \in 0 .. 3 /\ on = [acc EXCEPT !.pending = zero]
    OBVIOUS
  <2>. HIDE DEF zero, on
  <2>2. /\ on \in Accumulators(D) /\ on.done = acc.done /\ on.current = acc.current
        /\ on.previous = acc.previous /\ on.hierarchy = acc.hierarchy
    BY <1>0, <2>1 DEF Accumulators
  <2>. QED  BY <2>2 DEF ParserOK, KeysInOrder, ParsedKeys
<1>2. ASSUME acc.pending # 0 PROVE ParserOK(D, named)
  <2>. DEFINE hier == [acc.hierarchy EXCEPT ![acc.pending] = Append(@, i)]
  <2>1. hier \in [1 .. 3 -> Seq(Nat)]
    BY <1>0, <1>2 DEF Accumulators
  <2>2. named = [on EXCEPT !.hierarchy = hier]
    BY <1>1
  <2>. HIDE DEF hier, on, named
  <2>3. /\ named \in Accumulators(D) /\ named.done = acc.done /\ named.current = acc.current
        /\ named.previous = acc.previous
    BY <1>1, <2>1, <2>2 DEF Accumulators
  <2>. QED  BY <2>3 DEF ParserOK, KeysInOrder, ParsedKeys
<1>. DEFINE fin == FinishCurrent(on)
<1>3. /\ fin \in Accumulators(D) /\ fin.previous = acc.previous /\ fin.hierarchy = acc.hierarchy
      /\ ParsedKeys(fin) = ParsedKeys(acc) /\ KeysIn(fin.done) = ParsedKeys(acc)
      /\ fin.current = <<>>
  <2>1. fin = [on EXCEPT !.done = on.done \o on.current, !.current = <<>>]
    BY <1>1, FinishOK
  <2>2. ParsedKeys(fin) = ParsedKeys(on) /\ KeysIn(fin.done) = ParsedKeys(on) /\ fin \in Accumulators(D)
    BY <1>1, FinishOK
  <2>3. ParsedKeys(on) = ParsedKeys(acc)
    BY <1>1 DEF ParsedKeys
  <2>4. fin.previous = on.previous /\ fin.hierarchy = on.hierarchy /\ fin.current = <<>>
    BY <1>1, <2>1 DEF Accumulators
  <2>5. on.hierarchy = acc.hierarchy
    BY <1>0 DEF Accumulators
  <2>. QED  BY <1>1, <2>2, <2>3, <2>4, <2>5
<1>4. ASSUME par.kind \in ToSet(Levels)
      PROVE  ParserOK(D, [fin EXCEPT !.hierarchy = UpdateHierarchy(@, LevelOf(par), i),
                                  !.pending = IF par.bare THEN LevelOf(par) ELSE 0])
  <2>. DEFINE hier == UpdateHierarchy(acc.hierarchy, LevelOf(par), i)
              pend == IF par.bare THEN LevelOf(par) ELSE 0
              new  == [fin EXCEPT !.hierarchy = hier, !.pending = pend]
  <2>1. LevelOf(par) \in 1 .. 3
    BY <1>0, <1>4, LevelKinds
  <2>2. hier \in [1 .. 3 -> Seq(Nat)] /\ pend \in 0 .. 3
    BY <1>0, <2>1 DEF UpdateHierarchy, Accumulators
  <2>3. new = [fin EXCEPT !.hierarchy = UpdateHierarchy(@, LevelOf(par), i), !.pending = pend]
    BY <1>3
  <2>. HIDE DEF hier, pend, fin
  <2>4. /\ new \in Accumulators(D) /\ new.done = fin.done /\ new.current = fin.current
        /\ new.previous = fin.previous
    BY <1>3, <2>2 DEF Accumulators
  <2>5. ParsedKeys(new) = ParsedKeys(acc)
    BY <1>3, <2>4 DEF ParsedKeys
  <2>6. ParserOK(D, new)
    BY <1>3, <2>4, <2>5 DEF ParserOK, KeysInOrder
  <2>. QED  BY <2>3, <2>6 DEF pend, fin
<1>5. ASSUME IsNext(<<par.n, par.s>>, acc.previous)
      PROVE  ParserOK(D, [fin EXCEPT !.previous = <<par.n, par.s>>, !.current = <<spec>>])
  <2>. DEFINE key == <<par.n, par.s>>
              new == [fin EXCEPT !.previous = key, !.current = <<spec>>]
  <2>1. spec \in Specs(D) /\ key \in Nat \X Nat /\ spec.key = key
    BY <1>0 DEF Specs, Accumulators, LawParagraphs
  <2>2. acc.previous \in Nat \X Nat
    BY <1>0 DEF Accumulators
  <2>3. key[1] = par.n /\ key[2] = par.s /\ key = <<key[1], key[2]>>
    OBVIOUS
  <2>4. key[2] = 0 \/ (acc.previous # <<0, 0>> /\ key[1] = acc.previous[1])
    BY <1>5, <2>2, <2>3 DEF IsNext
  <2>. HIDE DEF key, spec, fin
  <2>5. /\ new \in Accumulators(D) /\ new.done = fin.done /\ new.current = <<spec>>
        /\ new.previous = key
    <3>. DEFINE one == <<spec>>
    <3>1. one \in Seq(Specs(D))
      BY <2>1
    <3>. HIDE DEF one
    <3>2. new = [fin EXCEPT !.previous = key, !.current = one]
      BY DEF one
    <3>3. /\ new \in Accumulators(D) /\ new.done = fin.done /\ new.current = one
          /\ new.previous = key
      BY <1>3, <2>1, <3>1, <3>2 DEF Accumulators
    <3>. QED  BY <3>3 DEF one
  <2>6. KeysIn(<<spec>>) = {key}
    BY <2>1 DEF KeysIn
  <2>7. ParsedKeys(new) = ParsedKeys(acc) \cup {key}
    BY <1>3, <2>5, <2>6 DEF ParsedKeys
  <2>8. <<key[1], 0>> \in ParsedKeys(new)
    <3>1. CASE key[2] = 0
      BY <2>3, <2>7, <3>1
    <3>2. CASE acc.previous # <<0, 0>> /\ key[1] = acc.previous[1]
      BY <2>7, <3>2 DEF ParserOK, KeysInOrder
    <3>. QED  BY <2>4, <3>1, <3>2
  <2>9. KeysInOrder(new)
    BY <2>5, <2>7, <2>8 DEF ParserOK, KeysInOrder
  <2>. QED  BY <2>5, <2>9 DEF ParserOK, key
<1>6. ParserOK(D, [fin EXCEPT !.closed = TRUE])
  <2>. DEFINE new == [fin EXCEPT !.closed = TRUE]
  <2>. HIDE DEF fin
  <2>1. /\ new \in Accumulators(D) /\ new.done = fin.done /\ new.current = fin.current
        /\ new.previous = fin.previous
    BY <1>3 DEF Accumulators
  <2>. QED  BY <1>3, <2>1 DEF ParserOK, KeysInOrder, ParsedKeys
<1>7. ASSUME acc.current # <<>>
      PROVE  ParserOK(D, [on EXCEPT !.current[1].blocks = Append(@, i)])
  <2>. DEFINE cur == [acc.current EXCEPT ![1].blocks = Append(@, i)]
              new == [on EXCEPT !.current = cur]
  <2>1. acc.current \in Seq(Specs(D)) /\ 1 \in DOMAIN acc.current
    BY <1>0, <1>7 DEF Accumulators
  <2>2. acc.current[1] \in Specs(D)
    BY <2>1
  <2>. DEFINE longer == [acc.current[1] EXCEPT !.blocks = Append(acc.current[1].blocks, i)]
  <2>3. Append(acc.current[1].blocks, i) \in {b \in Seq(D) : b # <<>>}
    <3>1. acc.current[1].blocks \in Seq(D)
      BY <2>2 DEF Specs
    <3>. QED  BY <3>1, AppendIsSome
  <2>4. longer \in Specs(D) /\ longer.key = acc.current[1].key
    BY <2>2, <2>3 DEF Specs
  <2>5. cur = [acc.current EXCEPT ![1] = longer]
    BY <2>1
  <2>6. cur \in Seq(Specs(D)) /\ KeysIn(cur) = KeysIn(acc.current)
    <3>. HIDE DEF longer, cur
    <3>1. DOMAIN cur = DOMAIN acc.current /\ \A j \in DOMAIN cur : cur[j].key = acc.current[j].key
      BY <2>1, <2>4, <2>5
    <3>2. cur \in Seq(Specs(D))
      BY <2>1, <2>4, <2>5
    <3>. QED  BY <3>1, <3>2 DEF KeysIn
  <2>7. new = [on EXCEPT !.current[1].blocks = Append(@, i)]
    BY <1>1
  <2>. HIDE DEF cur, on
  <2>8. /\ new \in Accumulators(D) /\ new.done = on.done /\ new.current = cur
        /\ new.previous = on.previous
    BY <1>1, <2>6 DEF Accumulators
  <2>9. ParsedKeys(new) = ParsedKeys(acc)
    BY <1>1, <2>6, <2>8 DEF ParsedKeys
  <2>10. ParserOK(D, new)
    BY <1>1, <2>8, <2>9 DEF ParserOK, KeysInOrder
  <2>. QED  BY <2>7, <2>10 DEF on
<1>. HIDE DEF named, on, fin
<1>. QED
  BY <1>1, <1>2, <1>4, <1>5, <1>6, <1>7 DEF ParseParagraph, named, on, fin

LEMMA PageFacts ==
  ASSUME NEW page \in Seq(LawParagraphs)
  PROVE  /\ [i \in DOMAIN page |-> i] \in Seq(Nat)
         /\ Len([i \in DOMAIN page |-> i]) = Len(page) /\ Len(page) \in Nat
         /\ DOMAIN [i \in DOMAIN page |-> i] = 1 .. Len(page) /\ DOMAIN page = 1 .. Len(page)
<1>1. DOMAIN page = 1 .. Len(page) /\ Len(page) \in Nat
  OBVIOUS
<1>. QED  BY <1>1

LEMMA ArticlesInOrder ==
  ASSUME NEW page \in Seq(LawParagraphs)
  PROVE  LET keys == KeysIn(ArticleSpecs(page))
         IN ArticleSpecs(page) \in Seq(Specs(DOMAIN page)) /\ \A key \in keys : <<key[1], 0>> \in keys
<1>. DEFINE D      == DOMAIN page
            places == [i \in DOMAIN page |-> i]
            start  == [hierarchy |-> <<<<>>, <<>>, <<>>>>, pending |-> 0, current |-> <<>>,
                       done |-> <<>>, previous |-> <<0, 0>>, closed |-> FALSE]
            end    == Parsing!Fold(page, start, places)
<1>1. ArticleSpecs(page) = FinishCurrent(end).done
  BY DEF ArticleSpecs, FoldLeft, MapThenFoldSet, Parsing!Fold, Max, Parsing!Max
<1>2. Len(places) = Len(page) /\ Len(page) \in Nat /\ DOMAIN places = 1 .. Len(page)
  BY PageFacts
<1>3. ParserOK(D, start)
  <2>. DEFINE none == <<>>
  <2>1. none \in Seq(Nat) /\ none \in Seq(Specs(D)) /\ <<0, 0>> \in Nat \X Nat
    OBVIOUS
  <2>2. <<none, none, none>> \in [1 .. 3 -> Seq(Nat)]
    <3>. HIDE DEF none
    <3>. QED  BY <2>1
  <2>3. start \in Accumulators(D)
    BY <2>1, <2>2 DEF Accumulators
  <2>4. start.previous = <<0, 0>> /\ KeysIn(start.done) = {} /\ KeysIn(start.current) = {}
    BY DEF KeysIn
  <2>. QED  BY <2>3, <2>4 DEF ParserOK, KeysInOrder, ParsedKeys
<1>. HIDE DEF start, places
<1>4. PICK F : Parsing!IsFold(F, page, start, places)
  BY <1>2, Parsing!FoldHasSteps
<1>5. /\ F[0] = start /\ end = F[Len(page)]
      /\ \A k \in 1 .. Len(page) : F[k] = ParseParagraph(page, F[k - 1], places[k])
  BY <1>2, <1>4 DEF Parsing!IsFold
<1>6. \A k \in 0 .. Len(page) : ParserOK(D, F[k])
  <2>. DEFINE T == {k \in 0 .. Len(page) : ParserOK(D, F[k])}
  <2>1. 0 \in T
    BY <1>2, <1>3, <1>5
  <2>2. ASSUME NEW k \in 1 .. Len(page), k - 1 \in T PROVE k \in T
    <3>1. places[k] = k /\ k \in DOMAIN page
      BY <1>2 DEF places
    <3>2. ParserOK(D, F[k - 1])
      BY <2>2
    <3>3. ParserOK(D, ParseParagraph(page, F[k - 1], k))
      BY <3>1, <3>2, ParseOK
    <3>. QED  BY <1>2, <1>5, <3>1, <3>3
  <2>. HIDE DEF T
  <2>3. \A k \in 0 .. Len(page) : k \in T
    BY <1>2, <2>1, <2>2, Parsing!RangeInduction
  <2>. QED  BY <2>3 DEF T
<1>7. ParserOK(D, end)
  BY <1>2, <1>5, <1>6
<1>. HIDE DEF end
<1>8. /\ KeysIn(ArticleSpecs(page)) = ParsedKeys(end) /\ FinishCurrent(end) \in Accumulators(D)
  BY <1>1, <1>7, FinishOK DEF ParserOK
<1>9. ArticleSpecs(page) \in Seq(Specs(D))
  BY <1>1, <1>8 DEF Accumulators
<1>. QED  BY <1>7, <1>8, <1>9 DEF ParserOK, KeysInOrder

\* An article of each number comes without a suffix, in a page that is complete.
LEMMA CompleteLaw ==
  ASSUME NEW page \in Seq(LawParagraphs), IsComplete(ParsedArticles(page))
  PROVE  /\ \A n \in 1 .. LAST : \E a \in ToSet(ParsedArticles(page)) : a.key = <<n, 0>>
         /\ \A key \in Extensions : \E a \in ToSet(ParsedArticles(page)) : a.key = key
<1>. DEFINE specs    == ArticleSpecs(page)
            articles == ParsedArticles(page)
            keys     == {a.key : a \in ToSet(articles)}
<1>1. /\ DOMAIN articles = DOMAIN specs
      /\ \A i \in DOMAIN specs : articles[i].key = specs[i].key
  BY DEF ParsedArticles, BuildArticle
<1>2. keys = KeysIn(specs)
  <2>. HIDE DEF specs, articles
  <2>. QED  BY <1>1 DEF ToSet, KeysIn
<1>3. {key[1] : key \in keys} = 1 .. LAST /\ Extensions \subseteq keys
  BY DEF IsComplete
<1>. HIDE DEF specs, articles
<1>4. ASSUME NEW n \in 1 .. LAST PROVE <<n, 0>> \in keys
  <2>1. PICK key \in keys : key[1] = n
    BY <1>3
  <2>2. key \in KeysIn(specs)
    BY <1>2, <2>1
  <2>3. <<key[1], 0>> \in KeysIn(specs)
    BY <2>2, ArticlesInOrder DEF specs
  <2>. QED  BY <1>2, <2>1, <2>3
<1>5. \A key \in keys : \E a \in ToSet(articles) : a.key = key
  OBVIOUS
<1>. HIDE DEF keys
<1>. QED  BY <1>3, <1>4, <1>5 DEF articles

-----------------------------------------------------------------------------
(* The release that a server reads while the maintainer's tool works.      *)

ServerPlaces == {"down", "manifest", "parsed", "validated", "up", "failed"}

LawTypeOK ==
  law \in [snapshot : Downloads,
           manifest : [sha : Downloads, review : {"pending_review", "legal_reviewed"}],
           tool : Seq(Downloads), reviewed : SUBSET Downloads,
           server : [at : ServerPlaces, sha : Downloads \cup {<<>>},
                     page : Downloads \cup {<<>>}]]

\* Only what has been read is promoted, so the hash that a server took from a
\* promoted manifest names a reviewed page, and the page it has parsed is that
\* one: the files may have been replaced since.
ReadsReviewed ==
  /\ law.manifest.review = "legal_reviewed" => law.manifest.sha \in law.reviewed
  /\ law.server.at \in {"manifest", "parsed", "validated", "up"} => law.server.sha \in law.reviewed
  /\ law.server.at \in {"parsed", "validated", "up"} =>
       law.server.page \in law.reviewed /\ IsComplete(ParsedArticles(law.server.page))

LawInv == LawTypeOK /\ ReadsReviewed

LEMMA LawInvHolds == LawInv => ServedLawWasReviewed
<1>. SUFFICES ASSUME LawInv, law.server.at = "up" PROVE ServedLawWasReviewed
  BY DEF ServedLawWasReviewed
<1>1. /\ law.server.page \in law.reviewed /\ law.server.sha \in law.reviewed
      /\ IsComplete(ParsedArticles(law.server.page))
  BY DEF LawInv, ReadsReviewed
<1>2. law.server.page \in Seq(LawParagraphs)
  BY <1>1, DownloadsAssumption DEF LawInv, LawTypeOK
<1>. QED  BY <1>1, <1>2, CompleteLaw DEF ServedLawWasReviewed

LEMMA LawInitOK == LawInit => LawInv
<1>. SUFFICES ASSUME NEW page \in Downloads,
                     law = [snapshot |-> page,
                            manifest |-> [sha |-> page, review |-> "legal_reviewed"],
                            tool |-> <<>>, reviewed |-> {page}, server |-> Down]
              PROVE  LawInv
  BY DEF LawInit
<1>1. Down \in [at : ServerPlaces, sha : Downloads \cup {<<>>}, page : Downloads \cup {<<>>}]
  BY DEF Down, ServerPlaces
<1>2. <<>> \in Seq(Downloads) /\ {page} \in SUBSET Downloads /\ law.server.at = "down"
  BY DEF Down
<1>3. LawTypeOK
  BY <1>1, <1>2 DEF LawTypeOK
<1>. QED  BY <1>2, <1>3 DEF LawInv, ReadsReviewed

\* The tool and the reviewer leave the server alone, and what is reviewed stays.
LEMMA ToolOK ==
  ASSUME LawInv,
         \/ \E page \in Downloads : WriteSnapshot(page)
         \/ WriteManifest \/ CrashTool \/ Promote
  PROVE  LawInv'
<1>1. ASSUME NEW page \in Downloads, WriteSnapshot(page) PROVE LawInv'
  <2>. DEFINE written == <<page>>
  <2>1. written \in Seq(Downloads)
    OBVIOUS
  <2>2. law' = [law EXCEPT !.snapshot = page, !.tool = written]
    BY <1>1, Zenon DEF WriteSnapshot
  <2>. HIDE DEF written
  <2>. QED  BY <2>1, <2>2 DEF LawInv, LawTypeOK, ReadsReviewed
<1>2. CASE WriteManifest
  <2>. DEFINE none == <<>>
              new  == [sha |-> law.tool[1], review |-> "pending_review"]
  <2>1. law.tool[1] \in Downloads
    BY <1>2 DEF WriteManifest, LawInv, LawTypeOK
  <2>2. /\ none \in Seq(Downloads) /\ new.review = "pending_review"
        /\ new \in [sha : Downloads, review : {"pending_review", "legal_reviewed"}]
    BY <2>1
  <2>3. law' = [law EXCEPT !.manifest = new, !.tool = none]
    BY <1>2 DEF WriteManifest
  <2>. HIDE DEF none, new
  <2>. QED  BY <2>2, <2>3 DEF LawInv, LawTypeOK, ReadsReviewed
<1>3. CASE CrashTool
  <2>. DEFINE none == <<>>
  <2>1. none \in Seq(Downloads) /\ law' = [law EXCEPT !.tool = none]
    BY <1>3 DEF CrashTool
  <2>. HIDE DEF none
  <2>. QED  BY <2>1 DEF LawInv, LawTypeOK, ReadsReviewed
<1>4. CASE Promote
  <2>. DEFINE new   == [law.manifest EXCEPT !.review = "legal_reviewed"]
              known == law.reviewed \cup {law.snapshot}
  <2>1. /\ new \in [sha : Downloads, review : {"pending_review", "legal_reviewed"}]
        /\ new.sha = law.snapshot /\ known \in SUBSET Downloads
    BY <1>4 DEF Promote, LawInv, LawTypeOK
  <2>2. law.reviewed \subseteq known /\ law.snapshot \in known
    OBVIOUS
  <2>3. law' = [law EXCEPT !.manifest = new, !.reviewed = known]
    BY <1>4 DEF Promote, LawInv, LawTypeOK
  <2>. HIDE DEF new, known
  <2>. QED  BY <2>1, <2>2, <2>3 DEF LawInv, LawTypeOK, ReadsReviewed
<1>. QED  BY <1>1, <1>2, <1>3, <1>4

\* A step of the server alone.
LEMMA ServerStep ==
  ASSUME LawInv, NEW server, law' = [law EXCEPT !.server = server],
         server \in [at : ServerPlaces, sha : Downloads \cup {<<>>}, page : Downloads \cup {<<>>}],
         server.at \in {"manifest", "parsed", "validated", "up"} => server.sha \in law.reviewed,
         server.at \in {"parsed", "validated", "up"} =>
           server.page \in law.reviewed /\ IsComplete(ParsedArticles(server.page))
  PROVE  LawInv'
<1>1. LawTypeOK'
  BY DEF LawInv, LawTypeOK
<1>2. /\ law'.server = server /\ law'.manifest = law.manifest /\ law'.reviewed = law.reviewed
  BY DEF LawInv, LawTypeOK
<1>. QED  BY <1>1, <1>2 DEF LawInv, ReadsReviewed

LEMMA FailsFacts ==
  /\ Fails \in [at : ServerPlaces, sha : Downloads \cup {<<>>}, page : Downloads \cup {<<>>}]
  /\ Fails.at = "failed"
BY DEF Fails, Down, ServerPlaces

LEMMA ServerOK ==
  ASSUME LawInv, ReadManifest \/ ReadSnapshot \/ ValidateProvenance \/ DigestCorpus \/ StopServer
  PROVE  LawInv'
<1>. DEFINE Servers == [at : ServerPlaces, sha : Downloads \cup {<<>>}, page : Downloads \cup {<<>>}]
<1>0. /\ law.server \in Servers /\ law.manifest.sha \in Downloads /\ law.snapshot \in Downloads
      /\ Promoted => law.manifest.sha \in law.reviewed
  BY DEF LawInv, LawTypeOK, ReadsReviewed, Promoted
<1>1. CASE ReadManifest
  <2>. DEFINE read == [at |-> "manifest", sha |-> law.manifest.sha, page |-> <<>>]
              new  == IF Promoted THEN read ELSE Fails
  <2>1. law' = [law EXCEPT !.server = new]
    BY <1>1 DEF ReadManifest
  <2>2. read \in Servers /\ read.at = "manifest" /\ read.sha = law.manifest.sha
    BY <1>0 DEF ServerPlaces
  <2>. HIDE DEF read
  <2>3. /\ new \in Servers /\ new.at \in {"manifest", "failed"}
        /\ new.at = "manifest" => new.sha \in law.reviewed
    BY <1>0, <2>2, FailsFacts
  <2>. HIDE DEF new
  <2>. QED  BY <2>1, <2>3, ServerStep
<1>2. CASE ReadSnapshot
  <2>. DEFINE read == [law.server EXCEPT !.at = "parsed", !.page = law.snapshot]
              new  == IF Loads(law.snapshot, law.server.sha) THEN read ELSE Fails
  <2>1. law' = [law EXCEPT !.server = new] /\ law.server.at = "manifest"
    BY <1>2 DEF ReadSnapshot, LawInv, LawTypeOK
  <2>2. /\ read \in Servers /\ read.at = "parsed" /\ read.sha = law.server.sha
        /\ read.page = law.snapshot
    BY <1>0 DEF ServerPlaces
  <2>3. law.server.sha \in law.reviewed
    BY <2>1 DEF LawInv, ReadsReviewed
  <2>. HIDE DEF read
  <2>4. /\ new \in Servers /\ new.at \in {"parsed", "failed"}
        /\ new.at = "parsed" => /\ new.sha \in law.reviewed /\ new.page \in law.reviewed
                                /\ IsComplete(ParsedArticles(new.page))
    BY <2>2, <2>3, FailsFacts DEF Loads
  <2>. HIDE DEF new
  <2>. QED  BY <2>1, <2>4, ServerStep
<1>3. CASE ValidateProvenance
  <2>. DEFINE read == [law.server EXCEPT !.at = "validated"]
              new  == IF Promoted /\ law.manifest.sha = law.server.sha THEN read ELSE Fails
  <2>1. law' = [law EXCEPT !.server = new] /\ law.server.at = "parsed"
    BY <1>3 DEF ValidateProvenance, LawInv, LawTypeOK
  <2>2. /\ read \in Servers /\ read.at = "validated" /\ read.sha = law.server.sha
        /\ read.page = law.server.page
    BY <1>0 DEF ServerPlaces
  <2>3. /\ law.server.sha \in law.reviewed /\ law.server.page \in law.reviewed
        /\ IsComplete(ParsedArticles(law.server.page))
    BY <2>1 DEF LawInv, ReadsReviewed
  <2>. HIDE DEF read
  <2>4. /\ new \in Servers /\ new.at \in {"validated", "failed"}
        /\ new.at = "validated" => /\ new.sha \in law.reviewed /\ new.page \in law.reviewed
                                   /\ IsComplete(ParsedArticles(new.page))
    BY <2>2, <2>3, FailsFacts
  <2>. HIDE DEF new
  <2>. QED  BY <2>1, <2>4, ServerStep
<1>4. CASE DigestCorpus
  <2>. DEFINE read == [law.server EXCEPT !.at = "up", !.sha = law.manifest.sha]
              new  == IF Promoted THEN read ELSE Fails
  <2>1. law' = [law EXCEPT !.server = new] /\ law.server.at = "validated"
    BY <1>4 DEF DigestCorpus, LawInv, LawTypeOK
  <2>2. /\ read \in Servers /\ read.at = "up" /\ read.sha = law.manifest.sha
        /\ read.page = law.server.page
    BY <1>0 DEF ServerPlaces
  <2>3. law.server.page \in law.reviewed /\ IsComplete(ParsedArticles(law.server.page))
    BY <2>1 DEF LawInv, ReadsReviewed
  <2>. HIDE DEF read
  <2>4. /\ new \in Servers /\ new.at \in {"up", "failed"}
        /\ new.at = "up" => /\ new.sha \in law.reviewed /\ new.page \in law.reviewed
                            /\ IsComplete(ParsedArticles(new.page))
    BY <1>0, <2>2, <2>3, FailsFacts
  <2>. HIDE DEF new
  <2>. QED  BY <2>1, <2>4, ServerStep
<1>5. CASE StopServer
  <2>1. law' = [law EXCEPT !.server = Down]
    BY <1>5 DEF StopServer
  <2>2. Down \in Servers /\ Down.at = "down"
    BY DEF Down, ServerPlaces
  <2>. QED  BY <2>1, <2>2, ServerStep
<1>. QED  BY <1>1, <1>2, <1>3, <1>4, <1>5

LawPart == IF part = "release" THEN LawInv ELSE NoRelease

LEMMA RestingLaw == NoRelease => ServedLawWasReviewed
<1>. SUFFICES ASSUME NoRelease PROVE law.server.at = "down"
  BY DEF ServedLawWasReviewed
<1>. QED  BY DEF NoRelease, Down

\* A server that is up serves a page that somebody reviewed, with an article of
\* every number and those with a suffix that are required, and publishes the
\* digest of a reviewed release (load_official_cdc, LegalCorpus), wherever the
\* refreshes, crashes, promotions and its own reads fell: for any pages that
\* the site may have.
THEOREM OnlyReviewedLawIsServed == ServiceSpec => []ServedLawWasReviewed
<1>1. ServiceInit => LawPart
  BY LawInitOK DEF ServiceInit, LawPart
<1>2. LawPart /\ [ServiceNext]_service => LawPart'
  <2>. SUFFICES ASSUME LawPart, [ServiceNext]_service PROVE LawPart'
    OBVIOUS
  <2>1. part' = part
    BY DEF ServiceNext, service
  <2>2. (part = "release" /\ LawNext) \/ law' = law
    BY DEF ServiceNext, service
  <2>3. CASE part = "release" /\ LawNext
    BY <2>1, <2>3, ToolOK, ServerOK DEF LawPart, LawNext
  <2>4. CASE law' = law
    BY <2>1, <2>4 DEF LawPart, NoRelease, LawInv, LawTypeOK, ReadsReviewed
  <2>. QED  BY <2>2, <2>3, <2>4
<1>3. LawPart => ServedLawWasReviewed
  BY LawInvHolds, RestingLaw DEF LawPart
<1>. QED  BY <1>1, <1>2, <1>3, PTL DEF ServiceSpec

-----------------------------------------------------------------------------
(* The history of runs. *)

PieceParts == {"body", "head", "tail", "break", "torn", "bad"}

Pieces == [run : Runs, part : PieceParts]

LineStep(given, lines, piece) ==
  IF piece.part = "break" THEN Append(lines, <<>>)
  ELSE Append(Front(lines), Append(Last(lines), piece))

Reading == INSTANCE FoldLemmas WITH Op <- LineStep

LEMMA LinesAreFold == ASSUME NEW file PROVE LinesOf(file) = Reading!Fold(0, <<<<>>>>, file)
BY DEF LinesOf, FoldLeft, MapThenFoldSet, Reading!Fold, Max, Reading!Max, LineStep

LEMMA FrontIs ==
  ASSUME NEW X, NEW s \in Seq(X), s # <<>>
  PROVE  /\ Len(s) \in Nat \ {0} /\ Last(s) = s[Len(s)]
         /\ Front(s) \in Seq(X) /\ Len(Front(s)) = Len(s) - 1
         /\ \A i \in 1 .. Len(s) - 1 : Front(s)[i] = s[i]
<1>. DEFINE n == Len(s)
<1>1. n \in Nat \ {0}
  BY EmptySeq
<1>. DEFINE j == n - 1
<1>2. n \in Int /\ j \in 1 - 1 .. n /\ j = n - 1
  BY <1>1
<1>. HIDE DEF j
<1>3. /\ Len(SubSeq(s, 1, j)) = j - 1 + 1
      /\ \A i \in 1 .. j - 1 + 1 : SubSeq(s, 1, j)[i] = s[1 + i - 1]
  <2>1. 1 \in 1 .. Len(s) + 1 /\ j \in 1 - 1 .. Len(s)
    BY <1>1, <1>2
  <2>. QED  BY <2>1, SubSeqFacts
<1>. HIDE DEF n
<1>4. j - 1 + 1 = n - 1 /\ \A i \in 1 .. n - 1 : 1 + i - 1 = i
  BY <1>1, <1>2
<1>5. Front(s) = SubSeq(s, 1, j) /\ Last(s) = s[n]
  BY <1>2 DEF Front, Last, n
<1>. QED  BY <1>1, <1>3, <1>4, <1>5, FrontAndLast DEF n

\* What one piece more makes of the lines.
LEMMA LineStepIs ==
  ASSUME NEW lines \in Seq(Seq(Pieces)), lines # <<>>, NEW p \in Pieces
  PROVE  LET new == LineStep(0, lines, p)
             m   == Len(lines)
         IN /\ m \in Nat \ {0} /\ new \in Seq(Seq(Pieces)) /\ new # <<>>
            /\ p.part = "break" =>
                 /\ Len(new) = m + 1 /\ new[m + 1] = <<>>
                 /\ \A i \in 1 .. m : new[i] = lines[i]
            /\ p.part # "break" =>
                 /\ Len(new) = m /\ new[m] = Append(lines[m], p)
                 /\ \A i \in 1 .. m - 1 : new[i] = lines[i]
<1>. DEFINE new == LineStep(0, lines, p)
            m   == Len(lines)
<1>1. m \in Nat \ {0} /\ \A i \in 1 .. m : lines[i] \in Seq(Pieces)
  BY EmptySeq
<1>. DEFINE X == Seq(Pieces)
<1>2. CASE p.part = "break"
  <2>1. new = Append(lines, <<>>)
    BY <1>2 DEF LineStep
  <2>0. <<>> \in Seq(Pieces)
    BY EmptySeq
  <2>2. PICK none \in X : none = <<>>
    BY <2>0
  <2>. HIDE DEF X
  <2>3. /\ Append(lines, none) \in Seq(X) /\ Append(lines, none) # <<>>
        /\ Len(Append(lines, none)) = m + 1 /\ Append(lines, none)[m + 1] = none
        /\ \A i \in 1 .. m : Append(lines, none)[i] = lines[i]
    BY AppendProperties DEF X
  <2>. QED  BY <1>1, <1>2, <2>1, <2>2, <2>3 DEF X
<1>3. CASE p.part # "break"
  <2>. DEFINE front == Front(lines)
  <2>1. PICK last \in Seq(Pieces) : last = lines[m]
    BY <1>1
  <2>2. front \in Seq(Seq(Pieces)) /\ Len(front) = m - 1 /\ \A i \in 1 .. m - 1 : front[i] = lines[i]
    BY FrontIs
  <2>3. PICK more \in Seq(Pieces) : more = Append(last, p)
    BY AppendIsSome
  <2>4. new = Append(front, more)
    BY <1>3, <2>1, <2>3 DEF LineStep, Last
  <2>. HIDE DEF front, m, new
  <2>5. Append(front, more) \in Seq(Seq(Pieces)) /\ Append(front, more) # <<>>
    BY <2>2, AppendIsSome
  <2>6. /\ Len(Append(front, more)) = m /\ Append(front, more)[m] = more
        /\ \A i \in 1 .. m - 1 : Append(front, more)[i] = front[i]
    BY <1>1, <2>2
  <2>7. /\ new \in Seq(Seq(Pieces)) /\ new # <<>> /\ Len(new) = m /\ new[m] = more
        /\ \A i \in 1 .. m - 1 : new[i] = lines[i]
    BY <2>2, <2>4, <2>5, <2>6
  <2>. QED  BY <1>1, <1>3, <2>1, <2>3, <2>7 DEF new, m
<1>. QED  BY <1>2, <1>3

\* A piece at the end of the file is the last of its lines.
LEMMA LinesWithOneMore ==
  ASSUME NEW file \in Seq(Pieces), NEW p \in Pieces
  PROVE  file \o <<p>> \in Seq(Pieces) /\ LinesOf(file \o <<p>>) = LineStep(0, LinesOf(file), p)
<1>. DEFINE n == Len(file)
            t == file \o <<p>>
<1>1. /\ t \in Seq(Pieces) /\ n \in Nat /\ DOMAIN file = 1 .. n /\ Len(t) = n + 1
      /\ DOMAIN t = 1 .. n + 1 /\ t[n + 1] = p /\ \A k \in 1 .. n : t[k] = file[k]
  OBVIOUS
<1>. HIDE DEF t, n
<1>2. Reading!Fold(0, <<<<>>>>, t) = LineStep(0, Reading!Fold(0, <<<<>>>>, file), t[n + 1])
  BY <1>1, Reading!FoldOneMore DEF n
<1>. QED  BY <1>1, <1>2, LinesAreFold DEF t

\* What the pieces of run r have made of the lines so far: they may have gone on
\* with the last line by one piece, and begun others without a whole record.
GoesOn(new, lines, r) ==
  /\ new \in Seq(Seq(Pieces)) /\ new # <<>> /\ Len(lines) <= Len(new)
  /\ \A i \in 1 .. Len(lines) - 1 : new[i] = lines[i]
  /\ \/ new[Len(lines)] = lines[Len(lines)]
     \/ \E p \in Pieces : p.run = r /\ new[Len(lines)] = Append(lines[Len(lines)], p)
  /\ \A i \in Len(lines) + 1 .. Len(new) :
       \/ new[i] = <<>>
       \/ \E x \in Pieces : x.run = r /\ x.part # "body" /\ new[i] = <<x>>

LEMMA FirstPiece ==
  ASSUME NEW lines \in Seq(Seq(Pieces)), lines # <<>>, NEW p \in Pieces, p.part # "break"
  PROVE  LET new == LineStep(0, lines, p)
         IN /\ GoesOn(new, lines, p.run) /\ Len(new) = Len(lines)
            /\ new[Len(lines)] = Append(lines[Len(lines)], p)
<1>. DEFINE new == LineStep(0, lines, p)
            m   == Len(lines)
<1>1. /\ m \in Nat \ {0} /\ new \in Seq(Seq(Pieces)) /\ new # <<>>
      /\ Len(new) = m /\ new[m] = Append(lines[m], p)
      /\ \A i \in 1 .. m - 1 : new[i] = lines[i]
  BY LineStepIs
<1>. HIDE DEF new, m
<1>2. m <= Len(new) /\ \A i \in m + 1 .. Len(new) : FALSE
  BY <1>1
<1>. QED  BY <1>1, <1>2 DEF GoesOn, new, m

LEMMA BreakPiece ==
  ASSUME NEW lines \in Seq(Seq(Pieces)), lines # <<>>, NEW r, NEW old, GoesOn(old, lines, r),
         NEW p \in Pieces, p.part = "break"
  PROVE  LET new == LineStep(0, old, p)
         IN /\ GoesOn(new, lines, r) /\ Len(new) = Len(old) + 1 /\ new[Len(new)] = <<>>
            /\ new[Len(lines)] = old[Len(lines)]
<1>. DEFINE new == LineStep(0, old, p)
            m   == Len(lines)
            l   == Len(old)
<1>1. /\ l \in Nat \ {0} /\ new \in Seq(Seq(Pieces)) /\ new # <<>>
      /\ Len(new) = l + 1 /\ new[l + 1] = <<>>
      /\ \A i \in 1 .. l : new[i] = old[i]
  BY LineStepIs DEF GoesOn
<1>2. m \in Nat \ {0} /\ m <= l
  BY EmptySeq DEF GoesOn
<1>. HIDE DEF new, m, l
<1>3. m <= Len(new) /\ new[m] = old[m] /\ \A i \in 1 .. m - 1 : new[i] = old[i]
  BY <1>1, <1>2
<1>4. \A i \in m + 1 .. Len(new) : (i = l + 1 /\ new[i] = <<>>) \/ (i \in m + 1 .. l /\ new[i] = old[i])
  BY <1>1, <1>2
<1>5. \A i \in m + 1 .. Len(new) :
        new[i] = <<>> \/ \E x \in Pieces : x.run = r /\ x.part # "body" /\ new[i] = <<x>>
  BY <1>4 DEF GoesOn, m, l
<1>6. new[Len(new)] = <<>>
  BY <1>1
<1>. QED  BY <1>1, <1>3, <1>5, <1>6 DEF GoesOn, new, m, l

LEMMA LaterPiece ==
  ASSUME NEW lines \in Seq(Seq(Pieces)), lines # <<>>, NEW old, NEW p \in Pieces,
         GoesOn(old, lines, p.run), Len(lines) < Len(old), old[Len(old)] = <<>>,
         p.part \notin {"break", "body"}
  PROVE  LET new == LineStep(0, old, p)
         IN /\ GoesOn(new, lines, p.run) /\ Len(new) = Len(old)
            /\ new[Len(lines)] = old[Len(lines)]
<1>. DEFINE new == LineStep(0, old, p)
            m   == Len(lines)
            l   == Len(old)
<1>1. /\ l \in Nat \ {0} /\ new \in Seq(Seq(Pieces)) /\ new # <<>>
      /\ Len(new) = l /\ new[l] = Append(old[l], p)
      /\ \A i \in 1 .. l - 1 : new[i] = old[i]
  BY LineStepIs DEF GoesOn
<1>2. m \in Nat \ {0} /\ m < l
  BY EmptySeq
<1>3. new[l] = <<p>>
  BY <1>1
<1>. HIDE DEF new, m, l
<1>4. m <= Len(new) /\ new[m] = old[m] /\ \A i \in 1 .. m - 1 : new[i] = old[i]
  BY <1>1, <1>2
<1>5. \A i \in m + 1 .. Len(new) : (i = l /\ new[i] = <<p>>) \/ (i \in m + 1 .. l /\ new[i] = old[i])
  BY <1>1, <1>2, <1>3
<1>6. \A i \in m + 1 .. Len(new) :
        new[i] = <<>> \/ \E x \in Pieces : x.run = p.run /\ x.part # "body" /\ new[i] = <<x>>
  BY <1>5 DEF GoesOn, m, l
<1>. QED  BY <1>1, <1>4, <1>6 DEF GoesOn, new, m, l

\* The lines of the history after n runs: a whole record is there once, and that
\* of a run that was appended is there unless the run before it was torn.  A
\* line is still open only after a tear.
HistoryOK(lines, n, appended, torn) ==
  /\ lines \in Seq(Seq(Pieces)) /\ lines # <<>>
  /\ \A i \in DOMAIN lines : \A k \in DOMAIN lines[i] : lines[i][k].run \in 1 .. n
  /\ \A i, j \in DOMAIN lines :
       Parses(lines[i]) /\ Parses(lines[j]) /\ lines[i][1].run = lines[j][1].run => i = j
  /\ \A r \in appended \ Separated :
       r - 1 \in torn \/ \E i \in 1 .. Len(lines) - 1 : lines[i] = <<Piece(r, "body")>>
  /\ lines[Len(lines)] = <<>> \/ n \in torn

LEMMA HistoryStep ==
  ASSUME NEW n \in Nat, NEW lines, NEW appended, NEW torn, HistoryOK(lines, n, appended, torn),
         NEW new, GoesOn(new, lines, n + 1), NEW more, NEW broken, torn \subseteq broken,
         new[Len(new)] = <<>> \/ n + 1 \in broken,
         \A r \in more \ appended :
           /\ r = n + 1
           /\ \/ r \in Separated
              \/ /\ Len(lines) < Len(new)
                 /\ new[Len(lines)] = Append(lines[Len(lines)], Piece(r, "body"))
  PROVE  HistoryOK(new, n + 1, more, broken)
<1>. DEFINE m == Len(lines)
            l == Len(new)
<1>1. /\ m \in Nat \ {0} /\ l \in Nat \ {0} /\ m <= l
      /\ lines \in Seq(Seq(Pieces)) /\ new \in Seq(Seq(Pieces)) /\ new # <<>>
      /\ DOMAIN lines = 1 .. m /\ DOMAIN new = 1 .. l
  BY EmptySeq DEF HistoryOK, GoesOn
<1>2. /\ \A i \in 1 .. m : lines[i] \in Seq(Pieces)
      /\ \A i \in 1 .. l : new[i] \in Seq(Pieces)
  BY <1>1
<1>3. /\ \A i \in 1 .. m - 1 : new[i] = lines[i]
      /\ \/ new[m] = lines[m]
         \/ \E p \in Pieces : p.run = n + 1 /\ new[m] = Append(lines[m], p)
      /\ \A i \in m + 1 .. l :
           \/ new[i] = <<>>
           \/ \E x \in Pieces : x.run = n + 1 /\ x.part # "body" /\ new[i] = <<x>>
  BY DEF GoesOn
<1>4. /\ \A i \in 1 .. m : \A k \in DOMAIN lines[i] : lines[i][k].run \in 1 .. n
      /\ \A i, j \in 1 .. m :
           Parses(lines[i]) /\ Parses(lines[j]) /\ lines[i][1].run = lines[j][1].run => i = j
      /\ \A r \in appended \ Separated :
           r - 1 \in torn \/ \E i \in 1 .. m - 1 : lines[i] = <<Piece(r, "body")>>
      /\ lines[m] = <<>> \/ n \in torn
  BY <1>1 DEF HistoryOK
<1>5. new[l] = <<>> \/ n + 1 \in broken
  OBVIOUS
<1>6. \A r \in more \ appended :
        /\ r = n + 1
        /\ r \in Separated \/ (m < l /\ new[m] = Append(lines[m], Piece(r, "body")))
  OBVIOUS
<1>. HIDE DEF m, l
<1>7. ASSUME NEW i \in 1 .. l
      PROVE  \/ i \in 1 .. m /\ new[i] = lines[i]
             \/ i = m /\ \E p \in Pieces : p.run = n + 1 /\ new[m] = Append(lines[m], p)
             \/ /\ i \in m + 1 .. l
                /\ \/ new[i] = <<>>
                   \/ \E x \in Pieces : x.run = n + 1 /\ x.part # "body" /\ new[i] = <<x>>
  <2>1. i \in 1 .. m - 1 \/ i = m \/ i \in m + 1 .. l
    BY <1>1
  <2>2. 1 .. m - 1 \subseteq 1 .. m /\ m \in 1 .. m
    BY <1>1
  <2>. QED  BY <1>3, <2>1, <2>2, Zenon
<1>8. ASSUME NEW i \in 1 .. l, NEW k \in DOMAIN new[i] PROVE new[i][k].run \in 1 .. n + 1
  <2>1. CASE i \in 1 .. m /\ new[i] = lines[i]
    BY <1>4, <1>8, <2>1
  <2>2. ASSUME i = m, NEW p \in Pieces, p.run = n + 1, new[m] = Append(lines[m], p)
        PROVE  new[i][k].run \in 1 .. n + 1
    <3>1. lines[m] \in Seq(Pieces) /\ m \in 1 .. m
      BY <1>1, <1>2
    <3>2. k \in 1 .. Len(lines[m]) + 1 /\ Len(lines[m]) \in Nat
      BY <1>8, <2>2, <3>1
    <3>3. k = Len(lines[m]) + 1 => new[i][k] = p
      BY <2>2, <3>1
    <3>4. k # Len(lines[m]) + 1 => k \in DOMAIN lines[m] /\ new[i][k] = lines[m][k]
      BY <2>2, <3>1, <3>2
    <3>5. k # Len(lines[m]) + 1 => new[i][k].run \in 1 .. n
      BY <1>4, <3>1, <3>4
    <3>. QED  BY <2>2, <3>3, <3>5
  <2>3. CASE new[i] = <<>>
    BY <1>8, <2>3
  <2>4. ASSUME NEW x \in Pieces, x.run = n + 1, new[i] = <<x>> PROVE new[i][k].run \in 1 .. n + 1
    BY <1>8, <2>4
  <2>. QED  BY <1>7, <2>1, <2>2, <2>3, <2>4
<1>9. ASSUME NEW i \in 1 .. l, Parses(new[i])
      PROVE  \/ i \in 1 .. m /\ Parses(lines[i]) /\ new[i] = lines[i] /\ new[i][1].run \in 1 .. n
             \/ i = m /\ new[i][1].run = n + 1
  <2>1. CASE i \in 1 .. m /\ new[i] = lines[i]
    <3>1. 1 \in DOMAIN lines[i]
      BY <1>2, <1>9, <2>1 DEF Parses
    <3>. QED  BY <1>4, <1>9, <2>1, <3>1
  <2>2. ASSUME i = m, NEW p \in Pieces, p.run = n + 1, new[m] = Append(lines[m], p)
        PROVE  new[i][1].run = n + 1
    <3>1. lines[m] \in Seq(Pieces)
      BY <1>1, <1>2
    <3>2. Len(new[m]) = 1
      BY <1>9, <2>2 DEF Parses
    <3>3. Len(lines[m]) = 0
      BY <2>2, <3>1, <3>2
    <3>4. new[m][1] = p
      BY <2>2, <3>1, <3>3
    <3>. QED  BY <2>2, <3>4
  <2>3. ~(new[i] = <<>>)
    BY <1>9 DEF Parses
  <2>4. ~ \E x \in Pieces : x.run = n + 1 /\ x.part # "body" /\ new[i] = <<x>>
    BY <1>9 DEF Parses
  <2>. QED  BY <1>7, <2>1, <2>2, <2>3, <2>4
<1>10. ASSUME NEW i \in 1 .. l, NEW j \in 1 .. l, Parses(new[i]), Parses(new[j]),
              new[i][1].run = new[j][1].run
       PROVE  i = j
  <2>1. n + 1 \notin 1 .. n
    OBVIOUS
  <2>. QED  BY <1>4, <1>9, <1>10, <2>1
<1>11. ASSUME NEW r \in more \ Separated
       PROVE  r - 1 \in broken \/ \E i \in 1 .. l - 1 : new[i] = <<Piece(r, "body")>>
  <2>1. CASE r \in appended
    <3>1. r - 1 \in torn \/ \E i \in 1 .. m - 1 : lines[i] = <<Piece(r, "body")>>
      BY <1>4, <1>11, <2>1
    <3>2. 1 .. m - 1 \subseteq 1 .. l - 1
      BY <1>1
    <3>. QED  BY <1>3, <3>1, <3>2
  <2>2. CASE r \notin appended
    <3>1. r = n + 1 /\ m < l /\ new[m] = Append(lines[m], Piece(r, "body"))
      BY <1>6, <1>11, <2>2
    <3>2. CASE lines[m] = <<>>
      <4>1. new[m] = <<Piece(r, "body")>> /\ m \in 1 .. l - 1
        BY <1>1, <3>1, <3>2
      <4>. QED  BY <4>1
    <3>3. CASE lines[m] # <<>>
      <4>1. n \in torn /\ r - 1 = n
        BY <1>4, <3>1, <3>3
      <4>. QED  BY <4>1
    <3>. QED  BY <3>2, <3>3
  <2>. QED  BY <2>1, <2>2
<1>. QED  BY <1>1, <1>5, <1>8, <1>10, <1>11 DEF HistoryOK, l

LEMMA IsTuple ==
  ASSUME NEW X, NEW s \in Seq(X)
  PROVE  /\ Len(s) = 1 => s = <<s[1]>>
         /\ Len(s) = 2 => s = <<s[1], s[2]>>
         /\ Len(s) = 3 => s = <<s[1], s[2], s[3]>>
         /\ Len(s) = 4 => s = <<s[1], s[2], s[3], s[4]>>
<1>0. Len(s) \in Nat /\ \A i \in 1 .. Len(s) : s[i] \in X
  OBVIOUS
<1>1. CASE Len(s) = 1
  <2>. DEFINE t == <<s[1]>>
  <2>1. s[1] \in X
    BY <1>0, <1>1
  <2>2. t \in Seq(X) /\ Len(t) = 1 /\ t[1] = s[1]
    BY <2>1
  <2>. HIDE DEF t
  <2>3. \A i \in 1 .. Len(s) : s[i] = t[i]
    BY <1>1, <2>2
  <2>4. s = t
    BY <1>1, <2>2, <2>3, SeqEqual
  <2>. QED  BY <1>1, <2>4 DEF t
<1>2. CASE Len(s) = 2
  <2>. DEFINE t == <<s[1], s[2]>>
  <2>1. s[1] \in X /\ s[2] \in X
    BY <1>0, <1>2
  <2>2. t \in Seq(X) /\ Len(t) = 2 /\ t[1] = s[1] /\ t[2] = s[2]
    BY <2>1
  <2>. HIDE DEF t
  <2>3. \A i \in 1 .. Len(s) : i = 1 \/ i = 2
    BY <1>2
  <2>4. s = t
    BY <1>2, <2>2, <2>3, SeqEqual
  <2>. QED  BY <1>2, <2>4 DEF t
<1>3. CASE Len(s) = 3
  <2>. DEFINE t == <<s[1], s[2], s[3]>>
  <2>1. s[1] \in X /\ s[2] \in X /\ s[3] \in X
    BY <1>0, <1>3
  <2>2. t \in Seq(X) /\ Len(t) = 3 /\ t[1] = s[1] /\ t[2] = s[2] /\ t[3] = s[3]
    BY <2>1
  <2>. HIDE DEF t
  <2>3. \A i \in 1 .. Len(s) : i = 1 \/ i = 2 \/ i = 3
    BY <1>3
  <2>4. s = t
    BY <1>3, <2>2, <2>3, SeqEqual
  <2>. QED  BY <1>3, <2>4 DEF t
<1>4. CASE Len(s) = 4
  <2>. DEFINE t == <<s[1], s[2], s[3], s[4]>>
  <2>1. s[1] \in X /\ s[2] \in X /\ s[3] \in X /\ s[4] \in X
    BY <1>0, <1>4
  <2>2. t \in Seq(X) /\ Len(t) = 4 /\ t[1] = s[1] /\ t[2] = s[2] /\ t[3] = s[3] /\ t[4] = s[4]
    BY <2>1
  <2>. HIDE DEF t
  <2>3. \A i \in 1 .. Len(s) : i = 1 \/ i = 2 \/ i = 3 \/ i = 4
    BY <1>4
  <2>4. s = t
    BY <1>4, <2>2, <2>3, SeqEqual
  <2>. QED  BY <1>4, <2>4 DEF t
<1>. QED  BY <1>1, <1>2, <1>3, <1>4

LEMMA TwoIs ==
  ASSUME NEW X, NEW a \in X, NEW b \in X
  PROVE  <<a>> \o <<b>> = <<a, b>>
<1>. DEFINE t == <<a>> \o <<b>>
<1>1. /\ t \in Seq(X) /\ Len(t) = 2
      /\ t[1] = a /\ t[2] = b
  OBVIOUS
<1>. HIDE DEF t
<1>2. t = <<a, b>>
  BY <1>1, IsTuple
<1>. QED  BY <1>2 DEF t

LEMMA ThreeIs ==
  ASSUME NEW X, NEW a \in X, NEW b \in X, NEW c \in X
  PROVE  <<a, b>> \o <<c>> = <<a, b, c>>
<1>. DEFINE t == <<a, b>> \o <<c>>
<1>1. /\ t \in Seq(X) /\ Len(t) = 3
      /\ t[1] = a /\ t[2] = b /\ t[3] = c
  OBVIOUS
<1>. HIDE DEF t
<1>2. t = <<a, b, c>>
  BY <1>1, IsTuple
<1>. QED  BY <1>2 DEF t

LEMMA FourIs ==
  ASSUME NEW X, NEW a \in X, NEW b \in X, NEW c \in X, NEW d \in X
  PROVE  <<a, b, c>> \o <<d>> = <<a, b, c, d>>
<1>. DEFINE t == <<a, b, c>> \o <<d>>
<1>1. /\ t \in Seq(X) /\ Len(t) = 4
      /\ t[1] = a /\ t[2] = b /\ t[3] = c /\ t[4] = d
  OBVIOUS
<1>. HIDE DEF t
<1>2. t = <<a, b, c, d>>
  BY <1>1, IsTuple
<1>. QED  BY <1>2 DEF t

LEMMA StartIs ==
  ASSUME NEW X, NEW t \in Seq(X), NEW n \in 1 .. Len(t)
  PROVE  /\ SubSeq(t, 1, n) \in Seq(X) /\ Len(SubSeq(t, 1, n)) = n
         /\ \A k \in 1 .. n : SubSeq(t, 1, n)[k] = t[k]
<1>1. Len(t) \in Nat /\ 1 \in 1 .. Len(t) + 1 /\ n \in 1 - 1 .. Len(t) /\ n - 1 + 1 = n
  OBVIOUS
<1>2. \A k \in 1 .. n : 1 + k - 1 = k
  OBVIOUS
<1>3. /\ SubSeq(t, 1, n) \in Seq(X) /\ Len(SubSeq(t, 1, n)) = n - 1 + 1
      /\ \A k \in 1 .. n - 1 + 1 : SubSeq(t, 1, n)[k] = t[1 + k - 1]
  BY <1>1, SubSeqFacts
<1>. QED  BY <1>1, <1>2, <1>3

LEMMA TwoStarts ==
  ASSUME NEW X, NEW a \in X, NEW b \in X
  PROVE  /\ SubSeq(<<a, b>>, 1, 1) = <<a>>
<1>. DEFINE t == <<a, b>>
<1>1. t \in Seq(X) /\ Len(t) = 2 /\ t[1] = a /\ t[2] = b
  OBVIOUS
<1>. HIDE DEF t
<1>2. SubSeq(t, 1, 1) = <<a>>
  <2>1. /\ SubSeq(t, 1, 1) \in Seq(X) /\ Len(SubSeq(t, 1, 1)) = 1
        /\ SubSeq(t, 1, 1)[1] = a
    BY <1>1, StartIs
  <2>. QED  BY <2>1, IsTuple
<1>. QED  BY <1>2 DEF t

LEMMA FourStarts ==
  ASSUME NEW X, NEW a \in X, NEW b \in X, NEW c \in X, NEW d \in X
  PROVE  /\ SubSeq(<<a, b, c, d>>, 1, 1) = <<a>>
         /\ SubSeq(<<a, b, c, d>>, 1, 2) = <<a, b>>
         /\ SubSeq(<<a, b, c, d>>, 1, 3) = <<a, b, c>>
<1>. DEFINE t == <<a, b, c, d>>
<1>1. t \in Seq(X) /\ Len(t) = 4 /\ t[1] = a /\ t[2] = b /\ t[3] = c /\ t[4] = d
  OBVIOUS
<1>. HIDE DEF t
<1>2. SubSeq(t, 1, 1) = <<a>>
  <2>1. /\ SubSeq(t, 1, 1) \in Seq(X) /\ Len(SubSeq(t, 1, 1)) = 1
        /\ SubSeq(t, 1, 1)[1] = a
    BY <1>1, StartIs
  <2>. QED  BY <2>1, IsTuple
<1>3. SubSeq(t, 1, 2) = <<a, b>>
  <2>1. /\ SubSeq(t, 1, 2) \in Seq(X) /\ Len(SubSeq(t, 1, 2)) = 2
        /\ SubSeq(t, 1, 2)[1] = a /\ SubSeq(t, 1, 2)[2] = b
    BY <1>1, StartIs
  <2>. QED  BY <2>1, IsTuple
<1>4. SubSeq(t, 1, 3) = <<a, b, c>>
  <2>1. /\ SubSeq(t, 1, 3) \in Seq(X) /\ Len(SubSeq(t, 1, 3)) = 3
        /\ SubSeq(t, 1, 3)[1] = a /\ SubSeq(t, 1, 3)[2] = b /\ SubSeq(t, 1, 3)[3] = c
    BY <1>1, StartIs
  <2>. QED  BY <2>1, IsTuple
<1>. QED  BY <1>2, <1>3, <1>4 DEF t

\* What writing a record adds, two, three or four pieces of it.
LEMMA ConcatTwo ==
  ASSUME NEW s \in Seq(Pieces), NEW a \in Pieces, NEW b \in Pieces
  PROVE  s \o <<a, b>> = (s \o <<a>>) \o <<b>>
<1>1. <<a>> \in Seq(Pieces) /\ <<b>> \in Seq(Pieces)
  OBVIOUS
<1>2. s \o (<<a>> \o <<b>>) = (s \o <<a>>) \o <<b>>
  BY <1>1, ConcatAssociative
<1>3. <<a>> \o <<b>> = <<a, b>>
  BY TwoIs
<1>. QED  BY <1>2, <1>3, Zenon

LEMMA ConcatThree ==
  ASSUME NEW s \in Seq(Pieces), NEW a \in Pieces, NEW b \in Pieces, NEW c \in Pieces
  PROVE  s \o <<a, b, c>> = (s \o <<a, b>>) \o <<c>>
<1>1. <<a, b>> \in Seq(Pieces) /\ <<c>> \in Seq(Pieces)
  OBVIOUS
<1>2. s \o (<<a, b>> \o <<c>>) = (s \o <<a, b>>) \o <<c>>
  BY <1>1, ConcatAssociative
<1>3. <<a, b>> \o <<c>> = <<a, b, c>>
  BY ThreeIs
<1>. QED  BY <1>2, <1>3, Zenon

LEMMA ConcatFour ==
  ASSUME NEW s \in Seq(Pieces), NEW a \in Pieces, NEW b \in Pieces, NEW c \in Pieces
  PROVE  s \o <<a, b, c, b>> = (s \o <<a, b, c>>) \o <<b>>
<1>1. <<a, b, c>> \in Seq(Pieces) /\ <<b>> \in Seq(Pieces)
  OBVIOUS
<1>2. s \o (<<a, b, c>> \o <<b>>) = (s \o <<a, b, c>>) \o <<b>>
  BY <1>1, ConcatAssociative
<1>3. <<a, b, c>> \o <<b>> = <<a, b, c, b>>
  BY FourIs
<1>. QED  BY <1>2, <1>3, Zenon

LEMMA OneWritten ==
  ASSUME NEW file \in Seq(Pieces), LinesOf(file) \in Seq(Seq(Pieces)), LinesOf(file) # <<>>,
         NEW p \in Pieces, p.part # "break"
  PROVE  LET lines == LinesOf(file)
             new   == LinesOf(file \o <<p>>)
         IN /\ file \o <<p>> \in Seq(Pieces) /\ GoesOn(new, lines, p.run)
            /\ Len(new) = Len(lines) /\ new[Len(lines)] = Append(lines[Len(lines)], p)
BY LinesWithOneMore, FirstPiece

LEMMA TwoWritten ==
  ASSUME NEW file \in Seq(Pieces), LinesOf(file) \in Seq(Seq(Pieces)), LinesOf(file) # <<>>,
         NEW p \in Pieces, NEW b \in Pieces, p.part # "break", b.part = "break"
  PROVE  LET lines == LinesOf(file)
             new   == LinesOf(file \o <<p, b>>)
         IN /\ file \o <<p, b>> \in Seq(Pieces) /\ GoesOn(new, lines, p.run)
            /\ Len(new) = Len(lines) + 1 /\ new[Len(new)] = <<>>
            /\ new[Len(lines)] = Append(lines[Len(lines)], p)
<1>. DEFINE lines == LinesOf(file)
            one   == file \o <<p>>
            first == LinesOf(one)
            new   == LinesOf(one \o <<b>>)
<1>1. /\ one \in Seq(Pieces) /\ GoesOn(first, lines, p.run)
      /\ Len(first) = Len(lines) /\ first[Len(lines)] = Append(lines[Len(lines)], p)
  BY OneWritten
<1>2. file \o <<p, b>> = one \o <<b>>
  BY ConcatTwo
<1>. HIDE DEF one
<1>3. one \o <<b>> \in Seq(Pieces) /\ new = LineStep(0, first, b)
  BY <1>1, LinesWithOneMore
<1>. HIDE DEF new, first
<1>4. LET step == LineStep(0, first, b)
      IN /\ GoesOn(step, lines, p.run) /\ Len(step) = Len(first) + 1 /\ step[Len(step)] = <<>>
         /\ step[Len(lines)] = first[Len(lines)]
  BY <1>1, BreakPiece
<1>. QED  BY <1>1, <1>2, <1>3, <1>4 DEF new

LEMMA ThreeWritten ==
  ASSUME NEW file \in Seq(Pieces), LinesOf(file) \in Seq(Seq(Pieces)), LinesOf(file) # <<>>,
         NEW p \in Pieces, NEW b \in Pieces, NEW q \in Pieces, p.part # "break",
         b.part = "break", q.part \notin {"break", "body"}, q.run = p.run
  PROVE  /\ file \o <<p, b, q>> \in Seq(Pieces)
         /\ GoesOn(LinesOf(file \o <<p, b, q>>), LinesOf(file), p.run)
<1>. DEFINE lines == LinesOf(file)
            two   == file \o <<p, b>>
            old   == LinesOf(two)
<1>1. /\ two \in Seq(Pieces) /\ GoesOn(old, lines, p.run)
      /\ Len(old) = Len(lines) + 1 /\ old[Len(old)] = <<>>
  BY TwoWritten
<1>2. file \o <<p, b, q>> = two \o <<q>>
  BY ConcatThree
<1>3. Len(lines) < Len(old)
  BY <1>1
<1>. HIDE DEF two
<1>4. two \o <<q>> \in Seq(Pieces) /\ LinesOf(two \o <<q>>) = LineStep(0, old, q)
  BY <1>1, LinesWithOneMore
<1>5. GoesOn(LineStep(0, old, q), lines, q.run)
  BY <1>1, <1>3, LaterPiece
<1>. QED  BY <1>2, <1>4, <1>5

LEMMA FourWritten ==
  ASSUME NEW file \in Seq(Pieces), LinesOf(file) \in Seq(Seq(Pieces)), LinesOf(file) # <<>>,
         NEW p \in Pieces, NEW b \in Pieces, NEW q \in Pieces, p.part # "break",
         b.part = "break", q.part \notin {"break", "body"}, q.run = p.run
  PROVE  LET new == LinesOf(file \o <<p, b, q, b>>)
         IN /\ file \o <<p, b, q, b>> \in Seq(Pieces)
            /\ GoesOn(new, LinesOf(file), p.run) /\ new[Len(new)] = <<>>
<1>. DEFINE lines == LinesOf(file)
            three == file \o <<p, b, q>>
            old   == LinesOf(three)
            new   == LinesOf(three \o <<b>>)
<1>1. three \in Seq(Pieces) /\ GoesOn(old, lines, p.run)
  BY ThreeWritten
<1>2. file \o <<p, b, q, b>> = three \o <<b>>
  BY ConcatFour
<1>. HIDE DEF three
<1>3. three \o <<b>> \in Seq(Pieces) /\ new = LineStep(0, old, b)
  BY <1>1, LinesWithOneMore
<1>. HIDE DEF new, old
<1>4. LET step == LineStep(0, old, b)
      IN GoesOn(step, lines, p.run) /\ step[Len(step)] = <<>>
  BY <1>1, BreakPiece
<1>. QED  BY <1>2, <1>3, <1>4 DEF new

LEMMA NothingWritten ==
  ASSUME NEW lines \in Seq(Seq(Pieces)), lines # <<>>, NEW r
  PROVE  GoesOn(lines, lines, r)
BY DEF GoesOn

\* The starts of the line of a run that a crash may leave.
LEMMA StartsOfLine ==
  ASSUME NEW r \in Runs, NEW n \in 0 .. Len(Line(r)) - 1,
         NEW cut \in {<<>>} \cup {<<Piece(r, t)>> : t \in {"torn", "bad"}},
         cut # <<>> => Line(r)[n + 1].part # "break"
  PROVE  LET left == SubSeq(Line(r), 1, n) \o cut
             br   == Piece(r, "break")
         IN \/ left = <<>>
            \/ \E p \in Pieces : p.run = r /\ p.part # "break" /\ left = <<p>>
            \/ \E p \in Pieces : p.run = r /\ p.part # "break" /\ left = <<p, br>>
            \/ \E p, q \in Pieces :
                 /\ p.run = r /\ p.part # "break" /\ q.run = r /\ q.part \notin {"break", "body"}
                 /\ left = <<p, br, q>>
<1>. DEFINE br == Piece(r, "break")
            left == SubSeq(Line(r), 1, n) \o cut
<1>1. \A t \in PieceParts : Piece(r, t) \in Pieces /\ Piece(r, t).run = r
                               /\ Piece(r, t).part = t
  BY DEF Piece, Pieces
<1>5. \A w \in Seq(Pieces) : w \o <<>> = w /\ <<>> \o w = w
  BY ConcatEmptySeq
<1>2. cut = <<>> \/ \E t \in {"torn", "bad"} : cut = <<Piece(r, t)>>
  OBVIOUS
<1>6. cut \in Seq(Pieces)
  <2>1. CASE cut = <<>>
    BY <2>1, EmptySeq
  <2>2. ASSUME NEW x \in Pieces, cut = <<x>> PROVE cut \in Seq(Pieces)
    BY <2>2
  <2>. QED  BY <1>1, <1>2, <2>1, <2>2 DEF PieceParts
<1>3. CASE r \notin Separated
  <2>1. Line(r) = <<Piece(r, "body"), br>>
    BY <1>3 DEF Line
  <2>2. CASE n = 0
    <3>0. cut \in Seq(Pieces)
      BY <1>6
    <3>1. SubSeq(Line(r), 1, n) = <<>>
      BY <2>2, SubSeqEmpty
    <3>2. left = cut
      BY <1>5, <3>0, <3>1
    <3>. QED  BY <1>1, <1>2, <3>2 DEF PieceParts
  <2>3. CASE n = 1
    <3>1. cut = <<>>
      BY <1>1, <2>1, <2>3 DEF PieceParts
    <3>3. SubSeq(Line(r), 1, n) = <<Piece(r, "body")>>
      BY <1>1, <2>1, <2>3, TwoStarts DEF PieceParts
    <3>4. <<Piece(r, "body")>> \in Seq(Pieces)
      BY <1>1 DEF PieceParts
    <3>2. left = <<Piece(r, "body")>>
      BY <1>5, <3>1, <3>3, <3>4
    <3>. QED  BY <1>1, <3>2 DEF PieceParts
  <2>4. n \in {0, 1}
    BY <2>1
  <2>. QED  BY <2>2, <2>3, <2>4
<1>4. CASE r \in Separated
  <2>1. Line(r) = <<Piece(r, "head"), br, Piece(r, "tail"), br>>
    BY <1>4 DEF Line
  <2>2. CASE n = 0
    <3>0. cut \in Seq(Pieces)
      BY <1>6
    <3>1. SubSeq(Line(r), 1, n) = <<>>
      BY <2>2, SubSeqEmpty
    <3>2. left = cut
      BY <1>5, <3>0, <3>1
    <3>. QED  BY <1>1, <1>2, <3>2 DEF PieceParts
  <2>3. CASE n = 1
    <3>1. cut = <<>>
      BY <1>1, <2>1, <2>3 DEF PieceParts
    <3>3. SubSeq(Line(r), 1, n) = <<Piece(r, "head")>>
      BY <1>1, <2>1, <2>3, FourStarts DEF PieceParts
    <3>4. <<Piece(r, "head")>> \in Seq(Pieces)
      BY <1>1 DEF PieceParts
    <3>2. left = <<Piece(r, "head")>>
      BY <1>5, <3>1, <3>3, <3>4
    <3>. QED  BY <1>1, <3>2 DEF PieceParts
  <2>4. CASE n = 2
    <3>1. SubSeq(Line(r), 1, n) = <<Piece(r, "head"), br>>
      BY <1>1, <2>1, <2>4, FourStarts DEF PieceParts
    <3>2. CASE cut = <<>>
      <4>2. <<Piece(r, "head"), br>> \in Seq(Pieces)
        BY <1>1 DEF PieceParts
      <4>1. left = <<Piece(r, "head"), br>>
        BY <1>5, <3>1, <3>2, <4>2
      <4>. QED  BY <1>1, <4>1 DEF PieceParts
    <3>3. ASSUME NEW t \in {"torn", "bad"}, cut = <<Piece(r, t)>>
          PROVE  \E p, q \in Pieces :
                   /\ p.run = r /\ p.part # "break" /\ q.run = r
                   /\ q.part \notin {"break", "body"} /\ left = <<p, br, q>>
      <4>2. Piece(r, "head") \in Pieces /\ br \in Pieces /\ Piece(r, t) \in Pieces
        BY <1>1 DEF PieceParts
      <4>3. <<Piece(r, "head"), br>> \o <<Piece(r, t)>> = <<Piece(r, "head"), br, Piece(r, t)>>
        BY <4>2, ThreeIs
      <4>1. left = <<Piece(r, "head"), br, Piece(r, t)>>
        BY <3>1, <3>3, <4>3
      <4>. QED  BY <1>1, <4>1 DEF PieceParts
    <3>. QED  BY <1>2, <3>2, <3>3
  <2>5. CASE n = 3
    <3>1. cut = <<>>
      BY <1>1, <2>1, <2>5 DEF PieceParts
    <3>3. SubSeq(Line(r), 1, n) = <<Piece(r, "head"), br, Piece(r, "tail")>>
      BY <1>1, <2>1, <2>5, FourStarts DEF PieceParts
    <3>4. <<Piece(r, "head"), br, Piece(r, "tail")>> \in Seq(Pieces)
      BY <1>1 DEF PieceParts
    <3>2. left = <<Piece(r, "head"), br, Piece(r, "tail")>>
      BY <1>5, <3>1, <3>3, <3>4
    <3>. QED  BY <1>1, <3>2 DEF PieceParts
  <2>6. n \in {0, 1, 2, 3}
    BY <2>1
  <2>. QED  BY <2>2, <2>3, <2>4, <2>5, <2>6
<1>. QED  BY <1>3, <1>4

\* The history as it stands after some runs, and what the file has of them.
LogTyped ==
  /\ log = [file |-> log.file, appended |-> log.appended, torn |-> log.torn]
  /\ log.file \in Seq(Pieces)

LogInv ==
  /\ LogTyped
  /\ \E n \in 0 .. Cardinality(Runs) :
       /\ log.appended \cup log.torn = 1 .. n
       /\ HistoryOK(LinesOf(log.file), n, log.appended, log.torn)

LEMMA LinesOfNothing == LinesOf(<<>>) = <<<<>>>>
<1>. DEFINE file == <<>>
            none == <<<<>>>>
            X    == {none}
            E    == {}
<1>1. /\ file \in Seq(E) /\ none \in X
      /\ \A acc \in X : \A e \in E : LineStep(0, acc, e) \in X
  BY EmptySeq
<1>. HIDE DEF file, none, X, E
<1>2. Reading!Fold(0, none, file) \in X
  BY <1>1, Reading!FoldKeeps
<1>. QED  BY <1>2, LinesAreFold DEF file, none, X

LEMMA LogInitOK == LogInit => LogInv
<1>. SUFFICES ASSUME LogInit PROVE LogInv
  OBVIOUS
<1>1. log = [file |-> <<>>, appended |-> {}, torn |-> {}]
  BY DEF LogInit
<1>2. log.file = <<>> /\ log.appended = {} /\ log.torn = {}
  BY <1>1
<1>3. LogTyped
  BY <1>1, <1>2, EmptySeq DEF LogTyped
<1>4. 0 \in 0 .. Cardinality(Runs) /\ log.appended \cup log.torn = 1 .. 0
  <2>1. Cardinality(Runs) \in Nat
    BY RunLogAssumption, FS_CardinalityType
  <2>. QED  BY <1>2, <2>1
<1>5. HistoryOK(<<<<>>>>, 0, {}, {})
  <2>. DEFINE lines == <<<<>>>>
  <2>1. <<>> \in Seq(Pieces)
    BY EmptySeq
  <2>2. lines \in Seq(Seq(Pieces)) /\ Len(lines) = 1 /\ lines[1] = <<>> /\ DOMAIN lines = 1 .. 1
    BY <2>1
  <2>. HIDE DEF lines
  <2>3. lines # <<>> /\ \A i \in DOMAIN lines : lines[i] = <<>>
    BY <2>2
  <2>4. \A i \in DOMAIN lines : ~Parses(lines[i]) /\ DOMAIN lines[i] = {}
    BY <2>3 DEF Parses
  <2>5. HistoryOK(lines, 0, {}, {})
    BY <2>2, <2>3, <2>4 DEF HistoryOK
  <2>. QED  BY <2>5 DEF lines
<1>. QED  BY <1>2, <1>3, <1>4, <1>5, LinesOfNothing DEF LogInv

\* A run is appended or torn after those before it.
LEMMA NextRun ==
  ASSUME NEW n \in 0 .. Cardinality(Runs), NEW r \in Runs, 1 .. n = {s \in Runs : s < r}
  PROVE  n + 1 = r /\ r \in 1 .. Cardinality(Runs) /\ 1 .. n \cup {r} = 1 .. r
<1>. DEFINE c == Cardinality(Runs)
<1>1. c \in Nat /\ Runs = 1 .. c
  BY RunLogAssumption, FS_CardinalityType
<1>. HIDE DEF c
<1>2. r \in 1 .. c /\ n \in 0 .. c
  BY <1>1 DEF c
<1>3. ~ n >= r
  <2>. SUFFICES ASSUME n >= r PROVE FALSE
    OBVIOUS
  <2>1. r \in 1 .. n
    BY <1>1, <1>2
  <2>. QED  BY <1>1, <1>2, <2>1
<1>4. ~ r - 1 > n
  <2>. SUFFICES ASSUME r - 1 > n PROVE FALSE
    OBVIOUS
  <2>1. r - 1 \in {s \in Runs : s < r}
    BY <1>1, <1>2
  <2>2. r - 1 \in 1 .. n
    BY <2>1
  <2>. QED  BY <1>1, <1>2, <2>2
<1>5. n + 1 = r
  BY <1>1, <1>2, <1>3, <1>4
<1>. QED  BY <1>1, <1>2, <1>5 DEF c

LEMMA HistoryLines ==
  ASSUME LogInv
  PROVE  /\ log.file \in Seq(Pieces)
         /\ LinesOf(log.file) \in Seq(Seq(Pieces)) /\ LinesOf(log.file) # <<>>
BY DEF LogInv, LogTyped, HistoryOK

LEMMA PieceIs ==
  ASSUME NEW r \in Runs, NEW t \in PieceParts
  PROVE  Piece(r, t) \in Pieces /\ Piece(r, t).run = r /\ Piece(r, t).part = t
BY DEF Piece, Pieces

\* What appending a run makes of the lines.
LEMMA AppendedLines ==
  ASSUME LogInv, NEW r \in Runs
  PROVE  LET old == LinesOf(log.file)
             new == LinesOf(log.file \o Line(r))
         IN /\ log.file \o Line(r) \in Seq(Pieces) /\ GoesOn(new, old, r)
            /\ new[Len(new)] = <<>>
            /\ \/ r \in Separated
               \/ /\ Len(old) < Len(new)
                  /\ new[Len(old)] = Append(old[Len(old)], Piece(r, "body"))
<1>. DEFINE file == log.file
            old  == LinesOf(file)
<1>1. file \in Seq(Pieces) /\ old \in Seq(Seq(Pieces)) /\ old # <<>> /\ Len(old) \in Nat
  BY HistoryLines
<1>. HIDE DEF file
<1>2. CASE r \in Separated
  <2>. DEFINE p == Piece(r, "head")
              b == Piece(r, "break")
              q == Piece(r, "tail")
              new == LinesOf(file \o <<p, b, q, b>>)
  <2>1. /\ p \in Pieces /\ p.run = r /\ p.part = "head"
        /\ b \in Pieces /\ b.part = "break"
        /\ q \in Pieces /\ q.run = r /\ q.part = "tail"
    BY PieceIs DEF PieceParts
  <2>2. Line(r) = <<p, b, q, b>>
    BY <1>2 DEF Line
  <2>. HIDE DEF p, b, q
  <2>4. p.part # "break" /\ q.part \notin {"break", "body"} /\ q.run = p.run
    BY <2>1
  <2>3. /\ file \o <<p, b, q, b>> \in Seq(Pieces)
        /\ GoesOn(new, old, r) /\ new[Len(new)] = <<>>
    BY <1>1, <2>1, <2>4, FourWritten
  <2>. QED  BY <1>2, <2>2, <2>3 DEF file
<1>3. CASE r \notin Separated
  <2>. DEFINE p == Piece(r, "body")
              b == Piece(r, "break")
              new == LinesOf(file \o <<p, b>>)
  <2>1. p \in Pieces /\ p.run = r /\ p.part = "body" /\ b \in Pieces /\ b.part = "break"
    BY PieceIs DEF PieceParts
  <2>2. Line(r) = <<p, b>>
    BY <1>3 DEF Line
  <2>. HIDE DEF p, b
  <2>3. /\ file \o <<p, b>> \in Seq(Pieces) /\ GoesOn(new, old, r)
        /\ Len(new) = Len(old) + 1 /\ new[Len(new)] = <<>>
        /\ new[Len(old)] = Append(old[Len(old)], p)
    BY <1>1, <2>1, TwoWritten
  <2>4. Len(old) < Len(new)
    BY <1>1, <2>3
  <2>. QED  BY <2>2, <2>3, <2>4 DEF file, p
<1>. QED  BY <1>2, <1>3

\* Starts of a line are pieces.
LEMMA StartIsPieces ==
  ASSUME NEW r \in Runs, NEW n \in 0 .. Len(Line(r)) - 1,
         NEW cut \in {<<>>} \cup {<<Piece(r, t)>> : t \in {"torn", "bad"}}
  PROVE  SubSeq(Line(r), 1, n) \in Seq(Pieces) /\ cut \in Seq(Pieces)
<1>1. \A t \in PieceParts : Piece(r, t) \in Pieces
  BY PieceIs
<1>2. Line(r) \in Seq(Pieces)
  BY <1>1 DEF Line, PieceParts
<1>3. SubSeq(Line(r), 1, n) \in Seq(Pieces)
  <2>1. /\ Len(Line(r)) \in Nat /\ 1 \in 1 .. Len(Line(r)) + 1
        /\ n \in 1 - 1 .. Len(Line(r))
    BY <1>2
  <2>. QED  BY <1>2, <2>1, SubSeqFacts
<1>4. cut = <<>> \/ \E t \in {"torn", "bad"} : cut = <<Piece(r, t)>>
  OBVIOUS
<1>5. ASSUME NEW x \in Pieces, cut = <<x>> PROVE cut \in Seq(Pieces)
  BY <1>5
<1>6. cut \in Seq(Pieces)
  BY <1>1, <1>4, <1>5, EmptySeq DEF PieceParts
<1>. QED  BY <1>3, <1>6

\* What a crash in the middle of an append makes of the lines.
LEMMA TornLines ==
  ASSUME LogInv, NEW r \in Runs, NEW n \in 0 .. Len(Line(r)) - 1,
         NEW cut \in {<<>>} \cup {<<Piece(r, t)>> : t \in {"torn", "bad"}},
         cut # <<>> => Line(r)[n + 1].part # "break"
  PROVE  LET left == SubSeq(Line(r), 1, n) \o cut
         IN /\ log.file \o left \in Seq(Pieces)
            /\ GoesOn(LinesOf(log.file \o left), LinesOf(log.file), r)
<1>. DEFINE file == log.file
            old  == LinesOf(file)
            left == SubSeq(Line(r), 1, n) \o cut
            b    == Piece(r, "break")
<1>1. file \in Seq(Pieces) /\ old \in Seq(Seq(Pieces)) /\ old # <<>>
  BY HistoryLines
<1>2. b \in Pieces /\ b.part = "break"
  BY PieceIs DEF PieceParts
<1>3. \/ left = <<>>
      \/ \E p \in Pieces : p.run = r /\ p.part # "break" /\ left = <<p>>
      \/ \E p \in Pieces : p.run = r /\ p.part # "break" /\ left = <<p, b>>
      \/ \E p, q \in Pieces :
           /\ p.run = r /\ p.part # "break" /\ q.run = r /\ q.part \notin {"break", "body"}
           /\ left = <<p, b, q>>
  BY StartsOfLine
<1>. HIDE DEF file, left, b
<1>4. CASE left = <<>>
  <2>1. file \o left = file
    BY <1>1, <1>4, ConcatEmptySeq
  <2>2. GoesOn(old, old, r)
    BY <1>1, NothingWritten
  <2>. QED  BY <1>1, <2>1, <2>2 DEF file, left
<1>5. ASSUME NEW p \in Pieces, p.run = r, p.part # "break", left = <<p>>
      PROVE  file \o left \in Seq(Pieces) /\ GoesOn(LinesOf(file \o left), old, r)
  BY <1>1, <1>5, OneWritten
<1>6. ASSUME NEW p \in Pieces, p.run = r, p.part # "break", left = <<p, b>>
      PROVE  file \o left \in Seq(Pieces) /\ GoesOn(LinesOf(file \o left), old, r)
  BY <1>1, <1>2, <1>6, TwoWritten
<1>7. ASSUME NEW p \in Pieces, NEW q \in Pieces, p.run = r, p.part # "break", q.run = r,
             q.part \notin {"break", "body"}, left = <<p, b, q>>
      PROVE  file \o left \in Seq(Pieces) /\ GoesOn(LinesOf(file \o left), old, r)
  BY <1>1, <1>2, <1>7, ThreeWritten
<1>. QED  BY <1>3, <1>4, <1>5, <1>6, <1>7 DEF file, left

LEMMA ConcatPieces ==
  ASSUME NEW s \in Seq(Pieces), NEW t \in Seq(Pieces), NEW u \in Seq(Pieces)
  PROVE  s \o t \o u = s \o (t \o u)
BY ConcatAssociative

LEMMA RunEndsOK == LogInv /\ RunEnds => LogInv'
<1>. SUFFICES ASSUME LogInv, NEW r \in Runs,
                     log.appended \cup log.torn = {s \in Runs : s < r},
                     AppendRun(r) \/ TearRun(r)
              PROVE  LogInv'
  BY DEF RunEnds
<1>. DEFINE old == LinesOf(log.file)
<1>1. PICK n \in 0 .. Cardinality(Runs) :
        /\ log.appended \cup log.torn = 1 .. n
        /\ HistoryOK(old, n, log.appended, log.torn)
  BY DEF LogInv
<1>2. n + 1 = r /\ r \in 1 .. Cardinality(Runs) /\ 1 .. n \cup {r} = 1 .. r /\ n \in Nat
  BY <1>1, NextRun
<1>3. log = [file |-> log.file, appended |-> log.appended, torn |-> log.torn]
  BY DEF LogInv, LogTyped
<1>4. r \in 0 .. Cardinality(Runs)
  BY <1>2
<1>5. CASE AppendRun(r)
  <2>. DEFINE file == log.file \o Line(r)
              new  == LinesOf(file)
              more == log.appended \cup {r}
  <2>1. /\ log' = [file |-> file, appended |-> more, torn |-> log.torn]
        /\ log'.file = file /\ log'.appended = more /\ log'.torn = log.torn
    BY <1>3, <1>5 DEF AppendRun
  <2>2. /\ file \in Seq(Pieces) /\ GoesOn(new, old, r) /\ new[Len(new)] = <<>>
        /\ \/ r \in Separated
           \/ Len(old) < Len(new) /\ new[Len(old)] = Append(old[Len(old)], Piece(r, "body"))
    BY AppendedLines
  <2>. HIDE DEF file, new, old
  <2>3. HistoryOK(new, n + 1, more, log.torn)
    BY <1>1, <1>2, <2>2, HistoryStep
  <2>4. LogTyped'
    BY <2>1, <2>2 DEF LogTyped
  <2>5. log'.appended \cup log'.torn = 1 .. r
    BY <1>1, <1>2, <2>1
  <2>. QED  BY <1>2, <1>4, <2>1, <2>3, <2>4, <2>5 DEF LogInv, new
<1>6. CASE TearRun(r)
  <2>1. PICK k \in 0 .. Len(Line(r)) - 1,
             cut \in {<<>>} \cup {<<Piece(r, t)>> : t \in {"torn", "bad"}} :
          /\ cut # <<>> => Line(r)[k + 1].part # "break"
          /\ log' = [log EXCEPT !.file = @ \o SubSeq(Line(r), 1, k) \o cut,
                                !.torn = @ \cup {r}]
    BY <1>6 DEF TearRun
  <2>. DEFINE left   == SubSeq(Line(r), 1, k) \o cut
              file   == log.file \o left
              new    == LinesOf(file)
              broken == log.torn \cup {r}
  <2>2. file \in Seq(Pieces) /\ GoesOn(new, old, r)
    BY <2>1, TornLines
  <2>3. log.file \o SubSeq(Line(r), 1, k) \o cut = file
    <3>1. SubSeq(Line(r), 1, k) \in Seq(Pieces) /\ cut \in Seq(Pieces) /\ log.file \in Seq(Pieces)
      BY <2>1, StartIsPieces, HistoryLines
    <3>. QED  BY <3>1, ConcatPieces
  <2>4. /\ log' = [file |-> file, appended |-> log.appended, torn |-> broken]
        /\ log'.file = file /\ log'.appended = log.appended /\ log'.torn = broken
    <3>1. log' = [log EXCEPT !.file = file, !.torn = broken]
      BY <2>1, <2>3
    <3>. HIDE DEF file, broken
    <3>2. log' = [file |-> file, appended |-> log.appended, torn |-> broken]
      BY <1>3, <3>1
    <3>. QED  BY <3>2
  <2>. HIDE DEF left, file, new, old
  <2>5. HistoryOK(new, n + 1, log.appended, broken)
    BY <1>1, <1>2, <2>2, HistoryStep
  <2>6. LogTyped'
    BY <2>2, <2>4 DEF LogTyped
  <2>7. log'.appended \cup log'.torn = 1 .. r
    BY <1>1, <1>2, <2>4
  <2>. QED  BY <1>2, <1>4, <2>4, <2>5, <2>6, <2>7 DEF LogInv, new
<1>. QED  BY <1>5, <1>6

-----------------------------------------------------------------------------
ValuesOf(f, n) == {f[k] : k \in 1 .. n}

AreDistinct(f, n) == \A j, k \in 1 .. n : f[j] = f[k] => j = k

\* As many values as places, when no two places have the same.
LEMMA CountOnce ==
  ASSUME NEW n \in Nat, NEW f, AreDistinct(f, n)
  PROVE  Cardinality(ValuesOf(f, n)) = n
<1>. DEFINE S == 1 .. n
            T == {f[k] : k \in S}
            g == [k \in S |-> f[k]]
<1>1. IsFiniteSet(S) /\ Cardinality(S) = n
  BY FS_Interval
<1>2. g \in [S -> T] /\ (\A j, k \in S : g[j] = g[k] => j = k) /\ \A t \in T : \E k \in S : g[k] = t
  BY DEF AreDistinct
<1>. HIDE DEF S, T, g
<1>3. g \in Bijection(S, T)
  BY <1>2 DEF Bijection, Injection, Surjection, IsInjective
<1>4. ExistsBijection(S, T)
  BY <1>3 DEF ExistsBijection
<1>5. Cardinality(T) = n
  BY <1>1, <1>4, FS_Bijection
<1>. QED  BY <1>5 DEF S, T, ValuesOf

\* The runs whose records are whole.
WholeRuns(lines) == {lines[i][1].run : i \in {i \in DOMAIN lines : Parses(lines[i])}}

\* Their records are read once each.
LEMMA RecordsAreWhole ==
  ASSUME NEW file, NEW n \in Nat, NEW appended, NEW torn,
         HistoryOK(LinesOf(file), n, appended, torn)
  PROVE  LET whole == WholeRuns(LinesOf(file))
         IN /\ whole \subseteq 1 .. n /\ ToSet(Records(file)) = whole
            /\ Len(Records(file)) = Cardinality(whole)
<1>. DEFINE lines  == LinesOf(file)
            found  == {i \in DOMAIN lines : Parses(lines[i])}
            before == {p \in found \X found : p[1] < p[2]}
            kept   == InOrder(found, before)
            c      == Cardinality(found)
            reads  == Records(file)
            whole  == WholeRuns(lines)
<1>1. /\ lines \in Seq(Seq(Pieces))
      /\ \A i \in DOMAIN lines : \A k \in DOMAIN lines[i] : lines[i][k].run \in 1 .. n
      /\ \A i, j \in DOMAIN lines :
           Parses(lines[i]) /\ Parses(lines[j]) /\ lines[i][1].run = lines[j][1].run => i = j
  BY DEF HistoryOK
<1>2. reads = [k \in DOMAIN kept |-> lines[kept[k]][1].run]
  BY DEF Records
<1>3. whole = {lines[i][1].run : i \in found}
  BY DEF WholeRuns
<1>4. found \subseteq 1 .. Len(lines) /\ Len(lines) \in Nat
  BY <1>1
<1>5. /\ \A i \in found : lines[i][1].run \in 1 .. n
      /\ \A i, j \in found : lines[i][1].run = lines[j][1].run => i = j
  <2>1. \A i \in found : i \in DOMAIN lines /\ Parses(lines[i])
    OBVIOUS
  <2>2. ASSUME NEW i \in found PROVE 1 \in DOMAIN lines[i]
    <3>1. lines[i] \in Seq(Pieces) /\ Len(lines[i]) = 1
      BY <1>1, <2>1 DEF Parses
    <3>. QED  BY <3>1
  <2>. QED  BY <1>1, <2>1, <2>2
<1>6. \A i, j \in found : <<i, j>> \in before <=> i < j
  OBVIOUS
<1>. HIDE DEF lines, found, before, kept, reads, whole, c
<1>7. IsFiniteSet(found)
  <2>1. IsFiniteSet(1 .. Len(lines))
    BY <1>4, FS_Interval
  <2>. QED  BY <1>4, <2>1, FS_Subset
<1>8. IsOrder(found, before)
  BY <1>4, <1>6, <1>7 DEF IsOrder
<1>9. IsInOrder(kept, found, before)
  BY <1>8, InOrderSorts DEF kept
<1>10. /\ c \in Nat /\ kept \in [1 .. c -> found] /\ DOMAIN kept = 1 .. c
       /\ \A i \in found : \E k \in 1 .. c : kept[k] = i
       /\ \A j, k \in 1 .. c : j < k => <<kept[j], kept[k]>> \in before
  BY <1>9 DEF IsInOrder, c
<1>11. /\ DOMAIN reads = 1 .. c /\ Len(reads) = c
       /\ \A k \in 1 .. c : kept[k] \in found /\ reads[k] = lines[kept[k]][1].run
  <2>1. reads = [k \in 1 .. c |-> lines[kept[k]][1].run]
    BY <1>2, <1>10
  <2>. QED  BY <1>10, <2>1
<1>12. \A j, k \in 1 .. c : reads[j] = reads[k] => j = k
  <2>. SUFFICES ASSUME NEW j \in 1 .. c, NEW k \in 1 .. c, reads[j] = reads[k] PROVE j = k
    OBVIOUS
  <2>1. kept[j] = kept[k] /\ kept[j] \in found
    BY <1>5, <1>11
  <2>2. PICK x \in found : kept[j] = x /\ kept[k] = x
    BY <2>1
  <2>5. <<x, x>> \notin before
    BY <1>4, <1>6
  <2>3. <<kept[j], kept[k]>> \notin before /\ <<kept[k], kept[j]>> \notin before
    BY <2>2, <2>5
  <2>4. ~ j < k /\ ~ k < j
    BY <1>10, <2>3
  <2>. QED  BY <1>10, <2>4
<1>13. {reads[k] : k \in 1 .. c} = whole
  BY <1>3, <1>10, <1>11
<1>14. ToSet(reads) = whole
  BY <1>11, <1>13 DEF ToSet
<1>15. Cardinality(whole) = c
  <2>1. c \in Nat /\ AreDistinct(reads, c) /\ ValuesOf(reads, c) = whole
    BY <1>10, <1>12, <1>13 DEF AreDistinct, ValuesOf
  <2>. QED  BY <2>1, CountOnce
<1>16. whole \subseteq 1 .. n
  BY <1>3, <1>5
<1>. QED  BY <1>11, <1>14, <1>15, <1>16 DEF lines, reads, whole

\* What a page shows: all runs when they fit, and otherwise the newest of them.
LEMMA PageIsNewest ==
  ASSUME NEW runs \in SUBSET Nat, IsFiniteSet(runs), NEW limit \in Nat
  PROVE  LET newest == NewestFirst(runs)
             page   == ToSet(SubSeq(newest, 1, IF limit < Len(newest) THEN limit ELSE Len(newest)))
         IN /\ page \subseteq runs
            /\ Cardinality(runs) <= limit => page = runs
            /\ \A r \in runs \ page : Cardinality({s \in page : s > r}) = limit
<1>. DEFINE before == {p \in runs \X runs : p[1] > p[2]}
            newest == NewestFirst(runs)
            c      == Cardinality(runs)
            m      == IF limit < Len(newest) THEN limit ELSE Len(newest)
            page   == ToSet(SubSeq(newest, 1, m))
<1>1. \A x, y \in runs : <<x, y>> \in before <=> x > y
  OBVIOUS
<1>2. newest = InOrder(runs, before)
  BY DEF NewestFirst
<1>. HIDE DEF before, newest
<1>3. IsOrder(runs, before)
  BY <1>1 DEF IsOrder
<1>4. IsInOrder(newest, runs, before)
  BY <1>2, <1>3, InOrderSorts
<1>5. /\ c \in Nat /\ newest \in [1 .. c -> runs] /\ DOMAIN newest = 1 .. c
      /\ \A x \in runs : \E k \in 1 .. c : newest[k] = x
      /\ \A j, k \in 1 .. c : j < k => <<newest[j], newest[k]>> \in before
  BY <1>4 DEF IsInOrder
<1>. HIDE DEF c
<1>6. \A j, k \in 1 .. c : j < k => newest[j] > newest[k]
  <2>. SUFFICES ASSUME NEW j \in 1 .. c, NEW k \in 1 .. c, j < k PROVE newest[j] > newest[k]
    OBVIOUS
  <2>1. newest[j] \in runs /\ newest[k] \in runs
    BY <1>5
  <2>. QED  BY <1>1, <1>5, <2>1
<1>7. newest \in Seq(runs) /\ Len(newest) = c
  BY <1>5
<1>8. m \in 0 .. c /\ (limit >= c => m = c) /\ (limit < c => m = limit)
  BY <1>5, <1>7
<1>. HIDE DEF m
<1>9. page = {newest[k] : k \in 1 .. m}
  <2>. DEFINE s == SubSeq(newest, 1, m)
  <2>1. 1 \in 1 .. Len(newest) + 1 /\ m \in 1 - 1 .. Len(newest) /\ m - 1 + 1 = m
    BY <1>5, <1>7, <1>8
  <2>2. DOMAIN s = 1 .. m - 1 + 1 /\ \A k \in 1 .. m - 1 + 1 : s[k] = newest[1 + k - 1]
    BY <1>7, <2>1, SubSeqFacts
  <2>3. \A k \in 1 .. m : 1 + k - 1 = k
    OBVIOUS
  <2>. HIDE DEF s
  <2>4. DOMAIN s = 1 .. m /\ \A k \in 1 .. m : s[k] = newest[k]
    BY <2>1, <2>2, <2>3
  <2>5. ToSet(s) = {newest[k] : k \in 1 .. m}
    BY <2>4 DEF ToSet
  <2>. QED  BY <2>5 DEF s
<1>. HIDE DEF page
<1>10. 1 .. m \subseteq 1 .. c /\ m \in Nat
  BY <1>5, <1>8
<1>11. page \subseteq runs
  BY <1>5, <1>9, <1>10
<1>12. c <= limit => page = runs
  <2>. SUFFICES ASSUME c <= limit PROVE runs \subseteq page
    BY <1>11
  <2>1. m = c
    BY <1>5, <1>8
  <2>. QED  BY <1>5, <1>9, <2>1
<1>13. ASSUME NEW r \in runs \ page PROVE Cardinality({s \in page : s > r}) = limit
  <2>1. PICK k \in 1 .. c : newest[k] = r
    BY <1>5
  <2>2. k > m
    BY <1>9, <1>8, <2>1
  <2>3. m = limit
    BY <1>5, <1>8, <2>2
  <2>4. \A j \in 1 .. m : newest[j] > r
    BY <1>6, <1>10, <2>1, <2>2
  <2>5. {s \in page : s > r} = page
    BY <1>9, <2>4
  <2>6. \A i, j \in 1 .. m : newest[i] = newest[j] => i = j
    <3>. SUFFICES ASSUME NEW i \in 1 .. m, NEW j \in 1 .. m, newest[i] = newest[j] PROVE i = j
      OBVIOUS
    <3>1. newest[i] \in Nat /\ i \in 1 .. c /\ j \in 1 .. c
      BY <1>5, <1>10
    <3>2. ~ i < j /\ ~ j < i
      BY <1>6, <3>1
    <3>. QED  BY <3>2
  <2>7. Cardinality({newest[j] : j \in 1 .. m}) = m
    <3>1. m \in Nat /\ AreDistinct(newest, m) /\ ValuesOf(newest, m) = {newest[j] : j \in 1 .. m}
      BY <1>10, <2>6 DEF AreDistinct, ValuesOf
    <3>. QED  BY <3>1, CountOnce
  <2>. QED  BY <1>9, <2>3, <2>5, <2>7
<1>. QED  BY <1>11, <1>12, <1>13 DEF page, c, m, newest

LEMMA HistoryIsKept == LogInv => OnlyDamagedRunsAreLost
<1>. SUFFICES ASSUME LogInv PROVE OnlyDamagedRunsAreLost
  OBVIOUS
<1>. DEFINE c     == Cardinality(Runs)
            lines == LinesOf(log.file)
            whole == WholeRuns(lines)
            all   == ToSet(ListRuns(log.file, c))
            page  == ToSet(ListRuns(log.file, LIMIT))
<1>1. PICK n \in 0 .. c :
        /\ log.appended \cup log.torn = 1 .. n /\ HistoryOK(lines, n, log.appended, log.torn)
  BY DEF LogInv
<1>2. c \in Nat /\ Runs = 1 .. c /\ IsFiniteSet(Runs) /\ LIMIT \in Nat
  BY RunLogAssumption, FS_CardinalityType
<1>. HIDE DEF c
<1>3. n \in Nat /\ 1 .. n \subseteq Runs
  BY <1>1, <1>2
<1>4. /\ whole \subseteq 1 .. n /\ ToSet(Records(log.file)) = whole
      /\ Len(Records(log.file)) = Cardinality(whole)
  BY <1>1, <1>3, RecordsAreWhole
<1>. HIDE DEF whole
<1>5. whole \in SUBSET Nat /\ IsFiniteSet(whole) /\ Cardinality(whole) <= c
  <2>1. whole \in SUBSET Runs
    BY <1>3, <1>4
  <2>2. IsFiniteSet(whole) /\ Cardinality(whole) <= Cardinality(Runs)
    BY <1>2, <2>1, FS_Subset
  <2>. QED  BY <1>2, <2>1, <2>2 DEF c
<1>6. all = whole
  BY <1>2, <1>4, <1>5, PageIsNewest DEF ListRuns
<1>7. \A r \in whole \ page : Cardinality({s \in page : s > r}) = LIMIT
  BY <1>2, <1>4, <1>5, PageIsNewest DEF ListRuns
<1>8. ASSUME NEW r \in log.appended \ whole PROVE r \in Separated \/ r - 1 \in log.torn
  <2>. SUFFICES ASSUME r \notin Separated, r - 1 \notin log.torn PROVE FALSE
    OBVIOUS
  <2>1. PICK i \in 1 .. Len(lines) - 1 : lines[i] = <<Piece(r, "body")>>
    BY <1>1, <1>8 DEF HistoryOK
  <2>2. lines \in Seq(Seq(Pieces))
    BY <1>1 DEF HistoryOK
  <2>3. i \in DOMAIN lines
    BY <2>2
  <2>4. Piece(r, "body").run = r /\ Piece(r, "body").part = "body"
    BY DEF Piece
  <2>5. Parses(lines[i]) /\ lines[i][1].run = r
    BY <2>1, <2>4 DEF Parses
  <2>. QED  BY <1>8, <2>3, <2>5 DEF whole, WholeRuns
<1>. HIDE DEF all, page, lines
<1>9. /\ all \subseteq log.appended \cup log.torn
      /\ \A r \in log.appended \ all : r \in Separated \/ r - 1 \in log.torn
      /\ Len(Records(log.file)) = Cardinality(all)
      /\ \A r \in all \ page : Cardinality({s \in page : s > r}) = LIMIT
  BY <1>1, <1>4, <1>6, <1>7, <1>8
<1>. QED  BY <1>9 DEF OnlyDamagedRunsAreLost, all, page, c

\* The history loses only what is damaged (RunStore.append, _records,
\* list_runs): whatever crashes tear an append, the runs whose records went
\* through are all read, save one with a line separator in a text and one after
\* a tear; none is read twice or made up, and a page of them has the newest:
\* for any number of runs and of crashes, and any size of a page.
THEOREM HistoryLosesOnlyDamage == ServiceSpec => []OnlyDamagedRunsAreLost
<1>1. ServiceInit => LogInv
  BY LogInitOK DEF ServiceInit
<1>2. LogInv /\ [ServiceNext]_service => LogInv'
  <2>. SUFFICES ASSUME LogInv, [ServiceNext]_service PROVE LogInv'
    OBVIOUS
  <2>1. RunEnds \/ UNCHANGED log
    BY DEF ServiceNext, service
  <2>2. CASE UNCHANGED log
    BY <2>2 DEF LogInv, LogTyped
  <2>. QED  BY <2>1, <2>2, RunEndsOK
<1>3. LogInv => OnlyDamagedRunsAreLost
  BY HistoryIsKept
<1>. QED  BY <1>1, <1>2, <1>3, PTL DEF ServiceSpec

-----------------------------------------------------------------------------
(* The units of an article, one for each of its paragraphs. *)

IsSeq(s) == s \in Seq(ToSet(s))

LEMMA SeqFacts ==
  ASSUME NEW s, IsSeq(s)
  PROVE  /\ Len(s) \in Nat /\ DOMAIN s = 1 .. Len(s) /\ s = [i \in 1 .. Len(s) |-> s[i]]
         /\ \A X : ToSet(s) \subseteq X => s \in Seq(X)
<1>1. s \in Seq(ToSet(s))
  BY DEF IsSeq
<1>2. Len(s) \in Nat /\ DOMAIN s = 1 .. Len(s) /\ s = [i \in 1 .. Len(s) |-> s[i]]
  BY <1>1
<1>3. \A i \in 1 .. Len(s) : s[i] \in ToSet(s)
  BY <1>2 DEF ToSet
<1>4. ASSUME NEW X, ToSet(s) \subseteq X PROVE s \in Seq(X)
  <2>1. \A i \in 1 .. Len(s) : s[i] \in X
    BY <1>3, <1>4
  <2>. QED  BY <1>2, <2>1, FunctionIsSeq
<1>. QED  BY <1>2, <1>4

LEMMA IsSeqOfFunction ==
  ASSUME NEW n \in Nat, NEW s, s = [i \in 1 .. n |-> s[i]]
  PROVE  IsSeq(s) /\ Len(s) = n /\ ToSet(s) = {s[i] : i \in 1 .. n}
<1>1. DOMAIN s = 1 .. n
  BY Zenon
<1>2. \A i \in 1 .. n : s[i] \in ToSet(s)
  BY <1>1 DEF ToSet
<1>3. s \in Seq(ToSet(s)) /\ Len(s) = n
  BY <1>2, FunctionIsSeq
<1>. QED  BY <1>1, <1>3 DEF IsSeq, ToSet

LEMMA SeqIsSeq == ASSUME NEW X, NEW s \in Seq(X) PROVE IsSeq(s) /\ ToSet(s) \subseteq X
<1>1. Len(s) \in Nat /\ s = [i \in 1 .. Len(s) |-> s[i]] /\ \A i \in 1 .. Len(s) : s[i] \in X
  OBVIOUS
<1>2. IsSeq(s) /\ ToSet(s) = {s[i] : i \in 1 .. Len(s)}
  BY <1>1, IsSeqOfFunction
<1>. QED  BY <1>1, <1>2

\* Sequences, one after another.
LEMMA FlattenOfSeqs ==
  ASSUME NEW n \in Nat, NEW parts, parts = [i \in 1 .. n |-> parts[i]],
         \A i \in 1 .. n : IsSeq(parts[i])
  PROVE  /\ IsSeq(FlattenSeq(parts))
         /\ ToSet(FlattenSeq(parts)) = UNION {ToSet(parts[i]) : i \in 1 .. n}
<1>. DEFINE X == UNION {ToSet(parts[i]) : i \in 1 .. n}
<1>1. \A i \in 1 .. n : ToSet(parts[i]) \subseteq X
  OBVIOUS
<1>. HIDE DEF X
<1>2. \A i \in 1 .. n : parts[i] \in Seq(X)
  BY <1>1, SeqFacts
<1>3. parts \in Seq(Seq(X))
  BY <1>2, FunctionIsSeq
<1>4. DOMAIN parts = 1 .. n
  BY Zenon
<1>5. /\ FlattenSeq(parts) \in Seq(X)
      /\ ToSet(FlattenSeq(parts)) = UNION {ToSet(parts[i]) : i \in DOMAIN parts}
  BY <1>3, FlattenHolds
<1>6. IsSeq(FlattenSeq(parts))
  BY <1>5, SeqIsSeq
<1>. QED  BY <1>4, <1>5, <1>6

Adding == INSTANCE FoldLemmas WITH Op <- AddUnit

\* A unit is of one paragraph, and has its status.
AreUnits(page, blocks, units) ==
  /\ IsSeq(units) /\ Len(units) = Len(blocks)
  /\ \A k \in DOMAIN units : units[k].at = blocks[k] /\ units[k].status = page[blocks[k]].status

LEMMA UnitsOfArticle ==
  ASSUME NEW page, NEW B, NEW blocks \in Seq(B)
  PROVE  AreUnits(page, blocks, BuildUnits(page, blocks))
<1>. DEFINE n     == Len(blocks)
            start == [units |-> <<>>, place |-> <<0, 0, 0>>]
            end   == Adding!Fold(page, start, blocks)
<1>1. BuildUnits(page, blocks) = end.units
  BY DEF BuildUnits, FoldLeft, MapThenFoldSet, Adding!Fold, Max, Adding!Max
<1>2. n \in Nat /\ DOMAIN blocks = 1 .. n
  OBVIOUS
<1>3. PICK F : Adding!IsFold(F, page, start, blocks)
  BY <1>2, Adding!FoldHasSteps
<1>4. /\ F[0] = start /\ end = F[n]
      /\ \A k \in 1 .. n : F[k] = AddUnit(page, F[k - 1], blocks[k])
  BY <1>3 DEF Adding!IsFold
<1>. DEFINE Unit(k) ==
              LET acc   == F[k - 1]
                  kind  == UnitKind(page[blocks[k]], acc.units = <<>>)
                  place == UnitPlace(acc, kind, page[blocks[k]])
              IN [id |-> UnitId(acc.units, kind, place), kind |-> kind, place |-> place,
                  status |-> page[blocks[k]].status, at |-> blocks[k]]
            X == {Unit(k) : k \in 1 .. n}
<1>5. \A k \in 1 .. n : /\ Unit(k) \in X /\ Unit(k).at = blocks[k]
                        /\ Unit(k).status = page[blocks[k]].status
                        /\ F[k].units = Append(F[k - 1].units, Unit(k))
  <2>. SUFFICES ASSUME NEW k \in 1 .. n
                PROVE  /\ Unit(k) \in X /\ Unit(k).at = blocks[k]
                       /\ Unit(k).status = page[blocks[k]].status
                       /\ F[k].units = Append(F[k - 1].units, Unit(k))
    OBVIOUS
  <2>1. Unit(k) \in X /\ Unit(k).at = blocks[k] /\ Unit(k).status = page[blocks[k]].status
    OBVIOUS
  <2>2. AddUnit(page, F[k - 1], blocks[k]).units = Append(F[k - 1].units, Unit(k))
    BY DEF AddUnit
  <2>. QED  BY <1>4, <2>1, <2>2
<1>. HIDE DEF Unit, X, n, end
<1>. DEFINE Done(k) == /\ F[k].units \in Seq(X) /\ Len(F[k].units) = k
                       /\ \A j \in 1 .. k : F[k].units[j] = Unit(j)
            T == {k \in 0 .. n : Done(k)}
<1>6. 0 \in T
  <2>1. F[0].units = <<>>
    BY <1>4
  <2>2. 0 \in 0 .. n /\ <<>> \in Seq(X) /\ Len(<<>>) = 0 /\ 1 .. 0 = {}
    BY <1>2
  <2>. QED  BY <2>1, <2>2
<1>7. ASSUME NEW k \in 1 .. n, k - 1 \in T PROVE k \in T
  <2>. DEFINE before == F[k - 1].units
  <2>1. before \in Seq(X) /\ Len(before) = k - 1 /\ \A j \in 1 .. k - 1 : before[j] = Unit(j)
    BY <1>7
  <2>2. F[k].units = Append(before, Unit(k)) /\ Unit(k) \in X
    BY <1>5
  <2>. HIDE DEF before
  <2>3. /\ F[k].units \in Seq(X) /\ Len(F[k].units) = k
        /\ F[k].units[k] = Unit(k)
        /\ \A j \in 1 .. k - 1 : F[k].units[j] = before[j]
    BY <2>1, <2>2
  <2>4. \A j \in 1 .. k : F[k].units[j] = Unit(j)
    BY <2>1, <2>3
  <2>. QED  BY <1>2, <2>3, <2>4
<1>8. n \in T
  <2>. HIDE DEF T
  <2>1. \A k \in 0 .. n : k \in T
    BY <1>2, <1>6, <1>7, Parsing!RangeInduction
  <2>. QED  BY <1>2, <2>1
<1>. DEFINE units == F[n].units
<1>9. units \in Seq(X) /\ Len(units) = n /\ \A j \in 1 .. n : units[j] = Unit(j)
  BY <1>8
<1>. HIDE DEF units
<1>10. IsSeq(units) /\ DOMAIN units = 1 .. n
  BY <1>9, SeqIsSeq
<1>11. AreUnits(page, blocks, units)
  BY <1>5, <1>9, <1>10 DEF AreUnits, n
<1>. QED  BY <1>1, <1>4, <1>11 DEF units

-----------------------------------------------------------------------------
(* The provisions of a corpus, and their chunks. *)

\* A provision has the units of an article, or is of the Constitution.
IsProvision(page, p) ==
  IF p.units = <<>> THEN p.key[2] \in DOMAIN CfTexts
  ELSE /\ IsSeq(p.units)
       /\ \A u \in ToSet(p.units) : u.at \in DOMAIN page

AreProvisions(page, provisions) ==
  IsSeq(provisions) /\ \A p \in ToSet(provisions) : IsProvision(page, p)

LEMMA ProvisionsOfPage ==
  ASSUME NEW page \in Seq(LawParagraphs)
  PROVE  AreProvisions(page, Provisions(page))
<1>. DEFINE D     == DOMAIN page
            specs == ArticleSpecs(page)
            m     == Len(specs)
            first == [i \in DOMAIN CfTexts |-> CfProvision(i)]
            rest  == ParsedArticles(page)
            X     == ToSet(first) \cup ToSet(rest)
<1>1. specs \in Seq(Specs(D))
  BY ArticlesInOrder
<1>. HIDE DEF specs
<1>2. m \in Nat /\ DOMAIN specs = 1 .. m /\ \A a \in 1 .. m : specs[a] \in Specs(D)
  BY <1>1
<1>3. /\ rest = [a \in 1 .. m |-> rest[a]]
      /\ \A a \in 1 .. m : rest[a] = BuildArticle(page, specs[a])
  BY <1>2 DEF ParsedArticles, specs
<1>4. Len(CfTexts) \in Nat /\ DOMAIN CfTexts = 1 .. Len(CfTexts)
  BY LegalCorpusAssumption
<1>5. /\ first = [i \in 1 .. Len(CfTexts) |-> first[i]]
      /\ \A i \in 1 .. Len(CfTexts) : first[i] = CfProvision(i)
  BY <1>4
<1>. HIDE DEF first, rest, m
<1>6. /\ IsSeq(first) /\ ToSet(first) = {first[i] : i \in 1 .. Len(CfTexts)}
      /\ IsSeq(rest) /\ ToSet(rest) = {rest[a] : a \in 1 .. m}
  BY <1>2, <1>3, <1>4, <1>5, IsSeqOfFunction
<1>7. first \in Seq(X) /\ rest \in Seq(X)
  <2>1. ToSet(first) \subseteq X /\ ToSet(rest) \subseteq X
    OBVIOUS
  <2>. HIDE DEF X
  <2>. QED  BY <1>6, <2>1, SeqFacts
<1>8. Provisions(page) = first \o rest
  BY DEF Provisions, first, rest
<1>9. IsSeq(Provisions(page)) /\ ToSet(Provisions(page)) = X
  <2>. HIDE DEF X
  <2>1. first \o rest \in Seq(X) /\ ToSet(first \o rest) = ToSet(first) \cup ToSet(rest)
    BY <1>7, SetOfConcat
  <2>2. IsSeq(first \o rest)
    BY <2>1, SeqIsSeq
  <2>. QED  BY <1>8, <2>1, <2>2 DEF X
<1>10. ASSUME NEW i \in 1 .. Len(CfTexts) PROVE IsProvision(page, first[i])
  <2>1. first[i].units = <<>> /\ first[i].key[2] = i
    BY <1>5 DEF CfProvision
  <2>. QED  BY <1>4, <2>1 DEF IsProvision
<1>11. ASSUME NEW a \in 1 .. m PROVE IsProvision(page, rest[a])
  <2>. DEFINE spec  == specs[a]
              units == BuildUnits(page, spec.blocks)
  <2>1. spec.blocks \in Seq(D) /\ spec.blocks # <<>>
    BY <1>2 DEF Specs
  <2>2. AreUnits(page, spec.blocks, units)
    BY <2>1, UnitsOfArticle
  <2>3. rest[a].units = units
    BY <1>3 DEF BuildArticle
  <2>. HIDE DEF spec, units
  <2>4. /\ IsSeq(units) /\ DOMAIN units = 1 .. Len(spec.blocks)
        /\ \A k \in DOMAIN units : units[k].at = spec.blocks[k]
    BY <2>2, SeqFacts DEF AreUnits
  <2>5. Len(spec.blocks) \in Nat \ {0} /\ \A k \in 1 .. Len(spec.blocks) : spec.blocks[k] \in D
    BY <2>1, EmptySeq
  <2>6. units # <<>>
    BY <2>2, <2>5 DEF AreUnits
  <2>7. \A u \in ToSet(units) : u.at \in D
    BY <2>4, <2>5 DEF ToSet
  <2>. QED  BY <2>3, <2>4, <2>6, <2>7 DEF IsProvision
<1>12. \A p \in X : IsProvision(page, p)
  BY <1>6, <1>10, <1>11
<1>. QED  BY <1>9, <1>12 DEF AreProvisions

\* One more piece of a text that is too long.
SplitStep(max, acc, n) ==
  LET b == Boundary(acc.remaining, max)
  IN IF Len(acc.remaining) <= max THEN acc
     ELSE [pieces |-> Append(acc.pieces, Strip(SubSeq(acc.remaining, 1, b))),
           remaining |-> Strip(SubSeq(acc.remaining, b + 1, Len(acc.remaining)))]

Splitting == INSTANCE FoldLemmas WITH Op <- SplitStep

SplitOf(text, max) ==
  Splitting!Fold(max, [pieces |-> <<>>, remaining |-> text], [n \in DOMAIN text |-> n])

LEMMA SplitIsFold ==
  ASSUME NEW text, NEW max
  PROVE  SplitText(text, max) =
           LET last == SplitOf(text, max)
           IN IF last.remaining = <<>> THEN last.pieces ELSE Append(last.pieces, last.remaining)
BY DEF SplitText, SplitOf, FoldLeft, MapThenFoldSet, Splitting!Fold, Max, Splitting!Max, SplitStep

LEMMA PiecesAreSeq ==
  ASSUME NEW C, NEW text \in Seq(C), NEW max
  PROVE  IsSeq(SplitText(text, max))
<1>. DEFINE n      == Len(text)
            places == [i \in DOMAIN text |-> i]
            start  == [pieces |-> <<>>, remaining |-> text]
            last   == SplitOf(text, max)
<1>1. n \in Nat /\ DOMAIN text = 1 .. n
  OBVIOUS
<1>2. Len(places) = n /\ DOMAIN places = 1 .. n
  BY <1>1
<1>3. PICK F : Splitting!IsFold(F, max, start, places)
  BY <1>1, <1>2, Splitting!FoldHasSteps
<1>4. /\ F[0] = start /\ last = F[n]
      /\ \A k \in 1 .. n : F[k] = SplitStep(max, F[k - 1], places[k])
  BY <1>2, <1>3 DEF Splitting!IsFold, SplitOf
<1>. DEFINE PieceAt(k) == Strip(SubSeq(F[k - 1].remaining, 1, Boundary(F[k - 1].remaining, max)))
            X == {PieceAt(k) : k \in 1 .. n} \cup {last.remaining}
<1>5. \A k \in 1 .. n : /\ PieceAt(k) \in X
                        /\ \/ F[k].pieces = F[k - 1].pieces
                           \/ F[k].pieces = Append(F[k - 1].pieces, PieceAt(k))
  <2>. SUFFICES ASSUME NEW k \in 1 .. n
                PROVE  \/ F[k].pieces = F[k - 1].pieces
                       \/ F[k].pieces = Append(F[k - 1].pieces, PieceAt(k))
    OBVIOUS
  <2>. DEFINE acc == F[k - 1]
  <2>1. \/ SplitStep(max, acc, places[k]) = acc
        \/ SplitStep(max, acc, places[k]).pieces = Append(acc.pieces, PieceAt(k))
    BY DEF SplitStep
  <2>. QED  BY <1>4, <2>1
<1>6. last.remaining \in X
  OBVIOUS
<1>. HIDE DEF PieceAt, X, n, last
<1>. DEFINE T == {k \in 0 .. n : F[k].pieces \in Seq(X)}
<1>7. 0 \in T
  <2>1. F[0].pieces = <<>> /\ <<>> \in Seq(X) /\ 0 \in 0 .. n
    BY <1>1, <1>4
  <2>. QED  BY <2>1
<1>8. ASSUME NEW k \in 1 .. n, k - 1 \in T PROVE k \in T
  <2>1. F[k - 1].pieces \in Seq(X) /\ k \in 0 .. n
    BY <1>1, <1>8
  <2>2. Append(F[k - 1].pieces, PieceAt(k)) \in Seq(X)
    BY <1>5, <2>1, AppendIsSome
  <2>3. F[k].pieces \in Seq(X)
    BY <1>5, <2>1, <2>2
  <2>. QED  BY <2>1, <2>3
<1>9. last.pieces \in Seq(X)
  <2>. HIDE DEF T
  <2>1. \A k \in 0 .. n : k \in T
    BY <1>1, <1>7, <1>8, Parsing!RangeInduction
  <2>2. n \in T
    BY <1>1, <2>1
  <2>. QED  BY <1>4, <2>2 DEF T
<1>10. SplitText(text, max) \in Seq(X)
  <2>1. SplitText(text, max) =
          IF last.remaining = <<>> THEN last.pieces ELSE Append(last.pieces, last.remaining)
    BY SplitIsFold, Zenon DEF last
  <2>2. Append(last.pieces, last.remaining) \in Seq(X)
    BY <1>6, <1>9, AppendIsSome
  <2>. QED  BY <1>9, <2>1, <2>2
<1>. QED  BY <1>10, SeqIsSeq

\* What is indexed of a provision: of its units those in force.
LEMMA BodiesOfProvision ==
  ASSUME NEW page \in Seq(LawParagraphs), NEW p, IsProvision(page, p)
  PROVE  /\ IsSeq(Bodies(page, p))
         /\ \A b \in ToSet(Bodies(page, p)) :
              /\ b.text \in Seq(STRING)
              /\ IF p.units = <<>> THEN b.unit = <<>>
                 ELSE \E u \in ToSet(p.units) : u.status = "active" /\ b.unit = u.id
<1>. DEFINE bodies == Bodies(page, p)
<1>1. CASE p.units = <<>>
  <2>. DEFINE body == [unit |-> <<>>, text |-> CfTexts[p.key[2]]]
  <2>1. bodies = <<body>> /\ body.unit = <<>>
    BY <1>1 DEF Bodies
  <2>2. body.text \in Seq(STRING)
    <3>1. p.key[2] \in DOMAIN CfTexts
      BY <1>1 DEF IsProvision
    <3>2. \A i \in DOMAIN CfTexts : CfTexts[i] \in Seq(STRING)
      BY LegalCorpusAssumption
    <3>. QED  BY <3>1, <3>2
  <2>. HIDE DEF body, bodies
  <2>3. bodies \in Seq({body})
    BY <2>1
  <2>4. IsSeq(bodies) /\ ToSet(bodies) \subseteq {body}
    BY <2>3, SeqIsSeq
  <2>. QED  BY <1>1, <2>1, <2>2, <2>4 DEF bodies
<1>2. CASE p.units # <<>>
  <2>. DEFINE m      == Len(p.units)
              parts  == [k \in DOMAIN p.units |-> IF p.units[k].status = "active"
                                                  THEN <<p.units[k]>> ELSE <<>>]
              active == FlattenSeq(parts)
  <2>1. /\ m \in Nat /\ DOMAIN p.units = 1 .. m
        /\ \A u \in ToSet(p.units) : u.at \in DOMAIN page
    BY <1>2, SeqFacts DEF IsProvision
  <2>2. \A k \in 1 .. m : p.units[k] \in ToSet(p.units)
    BY <2>1 DEF ToSet
  <2>. DEFINE X == {u \in ToSet(p.units) : u.status = "active"}
  <2>3. parts = [k \in 1 .. m |-> parts[k]]
    BY <2>1
  <2>4. \A k \in 1 .. m : parts[k] \in Seq(X)
    <3>. SUFFICES ASSUME NEW k \in 1 .. m PROVE parts[k] \in Seq(X)
      OBVIOUS
    <3>1. parts[k] = IF p.units[k].status = "active" THEN <<p.units[k]>> ELSE <<>>
      BY <2>1
    <3>2. p.units[k].status = "active" => p.units[k] \in X
      BY <2>2
    <3>. HIDE DEF X, parts
    <3>. QED  BY <3>1, <3>2
  <2>5. \A u \in X : u \in ToSet(p.units) /\ u.status = "active" /\ u.at \in DOMAIN page
    BY <2>1
  <2>6. bodies = [i \in DOMAIN active |-> [unit |-> active[i].id, text |-> page[active[i].at].text]]
    BY <1>2 DEF Bodies
  <2>. HIDE DEF m, parts, X, bodies
  <2>7. active \in Seq(X)
    <3>1. parts \in Seq(Seq(X))
      BY <2>1, <2>3, <2>4, FunctionIsSeq
    <3>. QED  BY <3>1, FlattenHolds
  <2>. HIDE DEF active
  <2>8. Len(active) \in Nat /\ DOMAIN active = 1 .. Len(active)
        /\ \A i \in 1 .. Len(active) : active[i] \in X
    BY <2>7
  <2>9. bodies = [i \in 1 .. Len(active) |-> bodies[i]]
    BY <2>6, <2>8
  <2>10. /\ IsSeq(bodies) /\ ToSet(bodies) = {bodies[i] : i \in 1 .. Len(active)}
    BY <2>8, <2>9, IsSeqOfFunction
  <2>11. ASSUME NEW i \in 1 .. Len(active)
         PROVE  /\ bodies[i].text \in Seq(STRING)
                /\ \E u \in ToSet(p.units) : u.status = "active" /\ bodies[i].unit = u.id
    <3>1. bodies[i].unit = active[i].id /\ bodies[i].text = page[active[i].at].text
      BY <2>6, <2>8
    <3>2. /\ active[i] \in ToSet(p.units) /\ active[i].status = "active"
          /\ active[i].at \in DOMAIN page
      BY <2>5, <2>8
    <3>3. page[active[i].at] \in LawParagraphs
      BY <3>2
    <3>4. page[active[i].at].text \in Seq(STRING)
      BY <3>3 DEF LawParagraphs
    <3>. QED  BY <3>1, <3>2, <3>4
  <2>. QED  BY <1>2, <2>10, <2>11 DEF bodies
<1>. QED  BY <1>1, <1>2

\* A chunk of a provision is of one of its units, and that one in force.
IsChunkOf(p, chunk) ==
  IF p.units = <<>> THEN chunk.unit = <<>>
  ELSE \E u \in ToSet(p.units) : u.status = "active" /\ chunk.unit = u.id

LEMMA ChunksOfProvision ==
  ASSUME NEW page \in Seq(LawParagraphs), NEW n, NEW p, IsProvision(page, p)
  PROVE  /\ IsSeq(ProvisionChunks(page, n, p))
         /\ \A c \in ToSet(ProvisionChunks(page, n, p)) : c.page = n /\ IsChunkOf(p, c)
<1>. DEFINE bodies == Bodies(page, p)
            m      == Len(bodies)
            parts  == [b \in DOMAIN bodies |-> UnitChunks(page, n, p, bodies[b])]
<1>1. /\ IsSeq(bodies)
      /\ \A b \in ToSet(bodies) :
           /\ b.text \in Seq(STRING)
           /\ IF p.units = <<>> THEN b.unit = <<>>
              ELSE \E u \in ToSet(p.units) : u.status = "active" /\ b.unit = u.id
  BY BodiesOfProvision
<1>2. ProvisionChunks(page, n, p) = FlattenSeq(parts)
  BY DEF ProvisionChunks
<1>. HIDE DEF bodies
<1>3. m \in Nat /\ DOMAIN bodies = 1 .. m /\ \A b \in 1 .. m : bodies[b] \in ToSet(bodies)
  BY <1>1, SeqFacts DEF ToSet
<1>4. parts = [b \in 1 .. m |-> parts[b]]
      /\ \A b \in 1 .. m : parts[b] = UnitChunks(page, n, p, bodies[b])
  BY <1>3
<1>. HIDE DEF m, parts
<1>5. ASSUME NEW b \in 1 .. m
      PROVE  /\ IsSeq(parts[b])
             /\ \A c \in ToSet(parts[b]) : c.page = n /\ c.unit = bodies[b].unit
  <2>. DEFINE pieces == SplitText(bodies[b].text, PieceChars(page, p))
  <2>1. IsSeq(pieces)
    BY <1>1, <1>3, PiecesAreSeq
  <2>2. parts[b] = [i \in DOMAIN pieces |->
                      [page |-> n, unit |-> bodies[b].unit, part |-> i, text |-> pieces[i]]]
    BY <1>4 DEF UnitChunks
  <2>. HIDE DEF pieces
  <2>3. Len(pieces) \in Nat /\ DOMAIN pieces = 1 .. Len(pieces)
    BY <2>1, SeqFacts
  <2>4. parts[b] = [i \in 1 .. Len(pieces) |-> parts[b][i]]
    BY <2>2, <2>3
  <2>5. IsSeq(parts[b]) /\ ToSet(parts[b]) = {parts[b][i] : i \in 1 .. Len(pieces)}
    BY <2>3, <2>4, IsSeqOfFunction
  <2>6. \A i \in 1 .. Len(pieces) : parts[b][i].page = n /\ parts[b][i].unit = bodies[b].unit
    BY <2>2, <2>3
  <2>. QED  BY <2>5, <2>6
<1>6. /\ IsSeq(FlattenSeq(parts))
      /\ ToSet(FlattenSeq(parts)) = UNION {ToSet(parts[b]) : b \in 1 .. m}
  BY <1>3, <1>4, <1>5, FlattenOfSeqs
<1>7. ASSUME NEW c \in ToSet(FlattenSeq(parts)) PROVE c.page = n /\ IsChunkOf(p, c)
  <2>1. PICK b \in 1 .. m : c \in ToSet(parts[b])
    BY <1>6
  <2>2. c.page = n /\ c.unit = bodies[b].unit
    BY <1>5, <2>1
  <2>3. IF p.units = <<>> THEN bodies[b].unit = <<>>
        ELSE \E u \in ToSet(p.units) : u.status = "active" /\ bodies[b].unit = u.id
    BY <1>1, <1>3
  <2>. QED  BY <2>2, <2>3 DEF IsChunkOf
<1>. QED  BY <1>2, <1>6, <1>7

\* The chunks of a corpus name their provision and unit.
AreChunksOfLaw(provisions, chunks) ==
  /\ IsSeq(chunks)
  /\ \A i \in DOMAIN chunks : /\ chunks[i].page \in DOMAIN provisions
                              /\ IsChunkOf(provisions[chunks[i].page], chunks[i])

LEMMA ChunksOfCorpus ==
  ASSUME NEW page \in Seq(LawParagraphs), NEW provisions, AreProvisions(page, provisions)
  PROVE  AreChunksOfLaw(provisions, AsChunks(page, provisions))
<1>. DEFINE m      == Len(provisions)
            parts  == [n \in DOMAIN provisions |-> ProvisionChunks(page, n, provisions[n])]
            chunks == FlattenSeq(parts)
<1>1. m \in Nat /\ DOMAIN provisions = 1 .. m
  BY SeqFacts DEF AreProvisions
<1>2. \A n \in 1 .. m : IsProvision(page, provisions[n])
  BY <1>1 DEF AreProvisions, ToSet
<1>3. parts = [n \in 1 .. m |-> parts[n]]
      /\ \A n \in 1 .. m : parts[n] = ProvisionChunks(page, n, provisions[n])
  BY <1>1
<1>4. AsChunks(page, provisions) = chunks
  BY DEF AsChunks
<1>. HIDE DEF m, parts
<1>5. \A n \in 1 .. m : /\ IsSeq(parts[n])
                        /\ \A c \in ToSet(parts[n]) : c.page = n /\ IsChunkOf(provisions[n], c)
  BY <1>2, <1>3, ChunksOfProvision
<1>6. IsSeq(chunks) /\ ToSet(chunks) = UNION {ToSet(parts[n]) : n \in 1 .. m}
  BY <1>1, <1>3, <1>5, FlattenOfSeqs
<1>. HIDE DEF chunks
<1>7. ASSUME NEW i \in DOMAIN chunks
      PROVE  /\ chunks[i].page \in DOMAIN provisions
             /\ IsChunkOf(provisions[chunks[i].page], chunks[i])
  <2>1. chunks[i] \in ToSet(chunks)
    BY DEF ToSet
  <2>2. PICK n \in 1 .. m : chunks[i] \in ToSet(parts[n])
    BY <1>6, <2>1
  <2>. QED  BY <1>1, <1>5, <2>2
<1>. QED  BY <1>4, <1>6, <1>7 DEF AreChunksOfLaw

\* The way back from a chunk to its unit.
LEMMA UnitOfChunk ==
  ASSUME NEW page, NEW provisions, AreProvisions(page, provisions), IsCorpus(provisions),
         NEW chunk, chunk.page \in DOMAIN provisions, IsChunkOf(provisions[chunk.page], chunk)
  PROVE  LET unit == UnitForChunk(provisions, chunk)
         IN IF unit = <<>> THEN chunk.unit = <<>>
            ELSE unit[1].id = chunk.unit /\ unit[1].status = "active"
<1>. DEFINE p     == provisions[chunk.page]
            units == p.units
            named == {k \in DOMAIN units : units[k].id = chunk.unit}
            unit  == UnitForChunk(provisions, chunk)
<1>1. p \in ToSet(provisions)
  BY DEF ToSet
<1>2. unit = IF named = {} THEN <<>> ELSE <<units[Min(named)]>>
  BY DEF UnitForChunk, ProvisionForChunk
<1>3. CASE units = <<>>
  BY <1>2, <1>3 DEF IsChunkOf
<1>4. CASE units # <<>>
  <2>1. IsProvision(page, p) /\ IsInjective([k \in DOMAIN units |-> units[k].id])
    BY <1>1 DEF AreProvisions, IsCorpus
  <2>2. IsSeq(units)
    BY <1>4, <2>1 DEF IsProvision
  <2>3. PICK u \in ToSet(units) : u.status = "active" /\ chunk.unit = u.id
    BY <1>4 DEF IsChunkOf
  <2>4. PICK k \in DOMAIN units : units[k] = u
    BY <2>3 DEF ToSet
  <2>5. \A j \in DOMAIN units : units[j].id = units[k].id => j = k
    BY <2>1 DEF IsInjective
  <2>6. named = {k}
    BY <2>3, <2>4, <2>5
  <2>7. k \in Nat
    BY <2>2, <2>4, SeqFacts
  <2>8. Min(named) = k
    BY <2>6, <2>7 DEF Min
  <2>9. unit = <<u>>
    BY <1>2, <2>4, <2>6, <2>8
  <2>. QED  BY <2>3, <2>9
<1>. QED  BY <1>3, <1>4

-----------------------------------------------------------------------------
(* The law, from the page to the chunks. *)

CorpusInv ==
  /\ corpus = [page |-> corpus.page, at |-> corpus.at, provisions |-> corpus.provisions,
               chunks |-> corpus.chunks]
  /\ corpus.page \in Seq(LawParagraphs)
  /\ corpus.at \in {"loaded", "indexed"} =>
       AreProvisions(corpus.page, corpus.provisions) /\ IsCorpus(corpus.provisions)
  /\ corpus.at = "indexed" => AreChunksOfLaw(corpus.provisions, corpus.chunks)

LEMMA CorpusInitOK == CorpusInit => CorpusInv
<1>. SUFFICES ASSUME CorpusInit PROVE CorpusInv
  OBVIOUS
<1>1. PICK page \in Pages :
        corpus = [page |-> page, at |-> "pinned", provisions |-> <<>>, chunks |-> <<>>]
  BY DEF CorpusInit
<1>2. page \in Seq(LawParagraphs)
  BY LegalCorpusAssumption
<1>. QED  BY <1>1, <1>2 DEF CorpusInv

LEMMA CorpusStepOK == CorpusInv /\ (LoadCorpus \/ IndexCorpus) => CorpusInv'
<1>. SUFFICES ASSUME CorpusInv, LoadCorpus \/ IndexCorpus PROVE CorpusInv'
  OBVIOUS
<1>1. CASE LoadCorpus
  <2>. DEFINE provisions == Provisions(corpus.page)
  <2>1. AreProvisions(corpus.page, provisions)
    BY ProvisionsOfPage DEF CorpusInv
  <2>2. \/ corpus' = [corpus EXCEPT !.at = "refused"]
        \/ /\ IsCorpus(provisions)
           /\ corpus' = [corpus EXCEPT !.at = "loaded", !.provisions = provisions]
    BY <1>1 DEF LoadCorpus
  <2>. HIDE DEF provisions
  <2>. QED  BY <2>1, <2>2 DEF CorpusInv
<1>2. CASE IndexCorpus
  <2>. DEFINE chunks == AsChunks(corpus.page, corpus.provisions)
  <2>1. corpus.at = "loaded"
    BY <1>2 DEF IndexCorpus
  <2>2. AreChunksOfLaw(corpus.provisions, chunks)
    BY <2>1, ChunksOfCorpus DEF CorpusInv
  <2>3. \/ corpus' = [corpus EXCEPT !.at = "unindexable"]
        \/ corpus' = [corpus EXCEPT !.at = "indexed", !.chunks = chunks]
    BY <1>2 DEF IndexCorpus
  <2>. HIDE DEF chunks
  <2>. QED  BY <2>1, <2>2, <2>3 DEF CorpusInv
<1>. QED  BY <1>1, <1>2

CorpusPart == IF part \in {"law", "notice"} THEN CorpusInv ELSE NoCorpus

LEMMA CorpusPartOK == ServiceSpec => []CorpusPart
<1>1. ServiceInit => CorpusPart
  BY CorpusInitOK DEF ServiceInit, CorpusPart
<1>2. CorpusPart /\ [ServiceNext]_service => CorpusPart'
  <2>. SUFFICES ASSUME CorpusPart, [ServiceNext]_service PROVE CorpusPart'
    OBVIOUS
  <2>1. part' = part
    BY DEF ServiceNext, service
  <2>2. (part \in {"law", "notice"} /\ (LoadCorpus \/ IndexCorpus)) \/ corpus' = corpus
    BY DEF ServiceNext, service, notice
  <2>3. CASE part \in {"law", "notice"} /\ (LoadCorpus \/ IndexCorpus)
    BY <2>1, <2>3, CorpusStepOK DEF CorpusPart
  <2>4. CASE corpus' = corpus
    BY <2>1, <2>4 DEF CorpusPart, NoCorpus, CorpusInv
  <2>. QED  BY <2>2, <2>3, <2>4
<1>. QED  BY <1>1, <1>2, PTL DEF ServiceSpec
=============================================================================
