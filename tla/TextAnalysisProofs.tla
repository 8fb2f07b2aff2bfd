------------------------- MODULE TextAnalysisProofs -------------------------
(***************************************************************************)
(* Proofs about the analysis of a document (DocumentAnalysis): rankings and *)
(* their fusion, masks and chunks, the prompt with its audit, and the      *)
(* report.                                                                 *)
(***************************************************************************)
EXTENDS TextGateProofs

-----------------------------------------------------------------------------
(* Rankings. *)

\* Items of different chunks, each with its score.
AreItems(items) ==
  /\ IsFiniteSet(items)
  /\ \A x \in items : x.id \in Nat /\ x.score \in Nat
  /\ \A x, y \in items : x.id = y.id => x = y

\* All of the items, the best first.
IsRanking(ranking, items) ==
  /\ Cardinality(items) \in Nat /\ ranking \in [1 .. Cardinality(items) -> items]
  /\ \A x \in items : \E r \in DOMAIN ranking : ranking[r] = x
  /\ \A r, q \in DOMAIN ranking : r < q => Better(ranking[r], ranking[q])

LEMMA BetterIsAnOrder ==
  ASSUME NEW items, AreItems(items)
  PROVE  /\ \A x \in items : ~Better(x, x)
         /\ \A x, y \in items : x = y \/ Better(x, y) \/ Better(y, x)
         /\ \A x, y, z \in items : Better(x, y) /\ Better(y, z) => Better(x, z)
BY DEF AreItems, Better

\* Different items are in the order of their scores, then of their ids.
LEMMA RankingRanks ==
  ASSUME NEW items, AreItems(items)
  PROVE  IsRanking(Ranking(items), items)
<1>. DEFINE before == {p \in items \X items : Better(p[1], p[2])}
<1>1. \A x, y \in items : <<x, y>> \in before <=> Better(x, y)
  OBVIOUS
<1>2. Ranking(items) = InOrder(items, before)
  BY DEF Ranking
<1>. HIDE DEF before
<1>3. IsOrder(items, before)
  BY <1>1, BetterIsAnOrder DEF IsOrder, AreItems
<1>4. IsInOrder(Ranking(items), items, before)
  BY <1>2, <1>3, InOrderSorts
<1>5. /\ Cardinality(items) \in Nat /\ Ranking(items) \in [1 .. Cardinality(items) -> items]
      /\ \A x \in items : \E r \in DOMAIN Ranking(items) : Ranking(items)[r] = x
  BY <1>4 DEF IsInOrder
<1>6. ASSUME NEW r \in DOMAIN Ranking(items), NEW q \in DOMAIN Ranking(items), r < q
      PROVE  Better(Ranking(items)[r], Ranking(items)[q])
  <2>1. <<Ranking(items)[r], Ranking(items)[q]>> \in before
    BY <1>4, <1>6 DEF IsInOrder
  <2>. QED  BY <1>1, <1>5, <2>1
<1>. QED  BY <1>5, <1>6 DEF IsRanking

LEMMA RankingIsSeq ==
  ASSUME NEW items, NEW ranking, IsRanking(ranking, items)
  PROVE  /\ ranking \in Seq(items) /\ Len(ranking) = Cardinality(items)
         /\ DOMAIN ranking = 1 .. Len(ranking) /\ Len(ranking) \in Nat
<1>1. ranking \in Seq(items)
  BY DEF IsRanking
<1>. QED  BY <1>1 DEF IsRanking

\* The first k of a ranking.
LEMMA TakeCuts ==
  ASSUME NEW S, NEW s \in Seq(S), NEW k \in Nat
  PROVE  /\ Take(s, k) \in Seq(S)
         /\ Len(Take(s, k)) = IF k <= Len(s) THEN k ELSE Len(s)
         /\ \A i \in 1 .. Len(Take(s, k)) : Take(s, k)[i] = s[i]
<1>. DEFINE m == IF k <= Len(s) THEN k ELSE Len(s)
<1>1. Min({k, Len(s)}) = m
  BY LesserOfTwo
<1>2. m \in Nat /\ m <= Len(s)
  OBVIOUS
<1>3. Take(s, k) = SubSeq(s, 1, m)
  BY <1>1 DEF Take
<1>4. /\ SubSeq(s, 1, m) \in Seq(S) /\ Len(SubSeq(s, 1, m)) = m
      /\ \A i \in 1 .. m : SubSeq(s, 1, m)[i] = s[i]
  BY <1>2
<1>. QED  BY <1>3, <1>4

\* Products of the denominators.
FactorStep(given, product, r) == product * (RRF_CONSTANT + r)

Dividing == INSTANCE FoldLemmas WITH Op <- FactorStep

LEMMA MultipleStays ==
  ASSUME NEW d \in Nat, NEW q \in Nat \ {0}, NEW e \in Nat \ {0}
  PROVE  (d * q) * e = d * (q * e) /\ q * e \in Nat \ {0}
<1>1. q * e \in Nat /\ q * e # 0
  OBVIOUS
<1>2. (d * q) * e = d * (q * e)
  OBVIOUS
<1>. QED  BY <1>1, <1>2

LEMMA DenominatorDivides ==
  ASSUME NEW n \in Nat
  PROVE  /\ Denominator(n) \in Nat \ {0}
         /\ \A r \in 1 .. n : \E q \in Nat \ {0} : Denominator(n) = (RRF_CONSTANT + r) * q
<1>. DEFINE s == [r \in 1 .. n |-> r]
<1>1. Len(s) = n /\ DOMAIN s = 1 .. n /\ \A r \in 1 .. n : s[r] = r
  OBVIOUS
<1>2. Denominator(n) = Dividing!Fold(0, 1, s)
  BY DEF Denominator, FoldLeft, MapThenFoldSet, Dividing!Fold, Max, Dividing!Max, FactorStep
<1>. HIDE DEF s
<1>3. PICK F : Dividing!IsFold(F, 0, 1, s)
  BY <1>1, Dividing!FoldHasSteps
<1>4. /\ F[0] = 1 /\ Denominator(n) = F[n]
      /\ \A k \in 1 .. n : F[k] = F[k - 1] * (RRF_CONSTANT + k)
  BY <1>1, <1>2, <1>3 DEF Dividing!IsFold, FactorStep
<1>. DEFINE IsMultiple(x, r) == \E q \in Nat \ {0} : x = (RRF_CONSTANT + r) * q
            T == {k \in 0 .. n : F[k] \in Nat \ {0} /\ \A r \in 1 .. k : IsMultiple(F[k], r)}
<1>5. 0 \in T
  BY <1>4
<1>6. ASSUME NEW k \in 1 .. n, k - 1 \in T PROVE k \in T
  <2>. DEFINE e == RRF_CONSTANT + k
  <2>1. e \in Nat \ {0} /\ F[k - 1] \in Nat \ {0} /\ F[k] = F[k - 1] * e
    BY <1>4, <1>6, RetrievalAssumption
  <2>2. F[k] \in Nat \ {0}
    BY <2>1, MultipleStays
  <2>3. IsMultiple(F[k], k)
    <3>1. F[k] = (RRF_CONSTANT + k) * F[k - 1]
      BY <2>1
    <3>. QED  BY <2>1, <3>1
  <2>4. ASSUME NEW r \in 1 .. k - 1 PROVE IsMultiple(F[k], r)
    <3>1. PICK q \in Nat \ {0} : F[k - 1] = (RRF_CONSTANT + r) * q
      BY <1>6
    <3>. HIDE DEF e
    <3>2. F[k] = (RRF_CONSTANT + r) * (q * e) /\ q * e \in Nat \ {0}
      <4>1. RRF_CONSTANT + r \in Nat
        BY RetrievalAssumption
      <4>. QED  BY <2>1, <3>1, <4>1, MultipleStays
    <3>. QED  BY <3>2
  <2>. HIDE DEF IsMultiple
  <2>5. \A r \in 1 .. k : IsMultiple(F[k], r)
    BY <2>3, <2>4
  <2>. QED  BY <2>2, <2>5
<1>7. n \in T
  <2>. HIDE DEF T
  <2>1. \A k \in 0 .. n : k \in T
    BY <1>5, <1>6, Dividing!RangeInduction
  <2>. QED  BY <2>1
<1>. QED  BY <1>4, <1>7

\* What a place in a ranking is worth.
Share(n, r) == Denominator(n) \div (RRF_CONSTANT + r)

LEMMA ExactShare ==
  ASSUME NEW d \in Nat \ {0}, NEW q \in Nat
  PROVE  (d * q) \div d = q
OBVIOUS

LEMMA SharesFall ==
  ASSUME NEW n \in Nat
  PROVE  /\ \A r \in 1 .. n : Share(n, r) \in Nat \ {0}
         /\ \A r, t \in 1 .. n : r < t => Share(n, r) > Share(n, t)
<1>1. ASSUME NEW r \in 1 .. n
      PROVE  /\ Share(n, r) \in Nat \ {0}
             /\ Denominator(n) = (RRF_CONSTANT + r) * Share(n, r)
  <2>. DEFINE d == RRF_CONSTANT + r
  <2>1. d \in Nat \ {0}
    BY RetrievalAssumption
  <2>2. PICK q \in Nat \ {0} : Denominator(n) = d * q
    BY DenominatorDivides
  <2>. HIDE DEF d
  <2>3. (d * q) \div d = q
    BY <2>1, ExactShare
  <2>. QED  BY <2>2, <2>3 DEF Share, d
<1>2. ASSUME NEW r \in 1 .. n, NEW t \in 1 .. n, r < t, Share(n, r) <= Share(n, t)
      PROVE  FALSE
  <2>. DEFINE d == RRF_CONSTANT + r
              e == RRF_CONSTANT + t
              p == Share(n, r)
              q == Share(n, t)
  <2>1. d \in Nat /\ e \in Nat /\ d < e
    BY <1>2, RetrievalAssumption
  <2>2. p \in Nat \ {0} /\ q \in Nat \ {0} /\ p <= q /\ d * p = e * q
    BY <1>1, <1>2
  <2>. HIDE DEF d, e, p, q
  <2>3. d * p <= d * q
    BY <2>1, <2>2
  <2>4. d * q < e * q
    BY <2>1, <2>2
  <2>. QED  BY <2>1, <2>2, <2>3, <2>4
<1>. QED  BY <1>1, <1>2

-----------------------------------------------------------------------------
(* Results of searches, and their fusion. *)

ItemType == [id : Nat, score : Nat]

\* The best first, each chunk once.
AreResults(results) ==
  /\ results \in Seq(ItemType)
  /\ \A r, q \in DOMAIN results : r < q => Better(results[r], results[q])
  /\ \A r, q \in DOMAIN results : results[r].id = results[q].id => r = q

LEMMA ItemsOfScores ==
  ASSUME NEW ids, ids \subseteq Nat, IsFiniteSet(ids), NEW f \in [ids -> Nat]
  PROVE  AreItems({Item(id, f[id]) : id \in ids})
<1>. DEFINE S == {Item(id, f[id]) : id \in ids}
            g == [id \in ids |-> Item(id, f[id])]
<1>1. g \in Surjection(ids, S)
  BY DEF Surjection
<1>2. IsFiniteSet(S)
  BY <1>1, FS_Surjection
<1>. QED  BY <1>2 DEF AreItems, Item

\* The first k of the items, the best first.
IsTop(top, items, k) ==
  /\ AreResults(top) /\ Len(top) <= k
  /\ \A r \in DOMAIN top : top[r] \in items
  /\ \A x, y \in items : Better(x, y) /\ (\E q \in DOMAIN top : top[q] = y) =>
       \E r, q \in DOMAIN top : r < q /\ top[r] = x /\ top[q] = y
  /\ Len(top) = k \/ \A x \in items : \E r \in DOMAIN top : top[r] = x

LEMMA TopOfItems ==
  ASSUME NEW items, AreItems(items), items \subseteq ItemType, NEW k \in Nat
  PROVE  IsTop(Take(Ranking(items), k), items, k)
<1>. DEFINE all == Ranking(items)
            top == Take(all, k)
<1>1. IsRanking(all, items)
  BY RankingRanks
<1>. HIDE DEF all
<1>2. /\ all \in Seq(items) /\ Len(all) \in Nat /\ DOMAIN all = 1 .. Len(all)
      /\ \A r \in 1 .. Len(all) : all[r] \in items
  BY <1>1, RankingIsSeq
<1>3. /\ top \in Seq(items) /\ Len(top) = IF k <= Len(all) THEN k ELSE Len(all)
      /\ \A r \in 1 .. Len(top) : top[r] = all[r]
  BY <1>2, TakeCuts
<1>. HIDE DEF top
<1>4. /\ DOMAIN top = 1 .. Len(top) /\ 1 .. Len(top) \subseteq 1 .. Len(all)
      /\ Len(top) <= k /\ \A r \in 1 .. Len(top) : top[r] \in items
  BY <1>2, <1>3
<1>5. top \in Seq(ItemType)
  BY <1>3
<1>6. ASSUME NEW r \in DOMAIN top, NEW q \in DOMAIN top, r < q PROVE Better(top[r], top[q])
  BY <1>1, <1>2, <1>3, <1>4, <1>6 DEF IsRanking
<1>7. ASSUME NEW r \in DOMAIN top, NEW q \in DOMAIN top, top[r].id = top[q].id PROVE r = q
  <2>1. top[r] \in items /\ top[q] \in items /\ r \in Nat /\ q \in Nat
    BY <1>4
  <2>2. top[r] = top[q]
    BY <1>7, <2>1 DEF AreItems
  <2>3. ~(r < q) /\ ~(q < r)
    BY <1>6, <2>1, <2>2, BetterIsAnOrder
  <2>. QED  BY <2>1, <2>3
<1>8. AreResults(top)
  BY <1>5, <1>6, <1>7 DEF AreResults
<1>9. ASSUME NEW x \in items, NEW y \in items, Better(x, y), NEW q \in DOMAIN top, top[q] = y
      PROVE  \E r \in DOMAIN top : r < q /\ top[r] = x
  <2>1. PICK r \in 1 .. Len(all) : all[r] = x
    BY <1>1, <1>2 DEF IsRanking
  <2>2. all[q] = y /\ q \in 1 .. Len(all)
    BY <1>3, <1>4, <1>9
  <2>3. ~(q < r)
    <3>1. ~Better(y, x)
      BY <1>9, BetterIsAnOrder
    <3>. QED  BY <1>1, <1>2, <2>1, <2>2, <3>1 DEF IsRanking
  <2>4. r # q
    BY <1>9, <2>1, <2>2, BetterIsAnOrder
  <2>5. r < q /\ r \in 1 .. Len(top)
    BY <1>2, <1>3, <1>4, <2>1, <2>2, <2>3, <2>4
  <2>. QED  BY <1>3, <1>4, <2>1, <2>5
<1>10. Len(top) = k \/ \A x \in items : \E r \in DOMAIN top : top[r] = x
  BY <1>1, <1>2, <1>3, <1>4 DEF IsRanking
<1>. QED  BY <1>4, <1>8, <1>9, <1>10 DEF top, all, IsTop

LEMMA RankOfFacts ==
  ASSUME NEW results, AreResults(results)
  PROVE  /\ Len(results) \in Nat /\ DOMAIN results = 1 .. Len(results)
         /\ \A r \in DOMAIN results :
              results[r].id \in Ids(results) /\ RankOf(results, results[r].id) = r
         /\ \A id \in Ids(results) :
              /\ RankOf(results, id) \in 1 .. Len(results)
              /\ results[RankOf(results, id)].id = id
         /\ \A id : id \notin Ids(results) => RankOf(results, id) = Len(results) + 1
         /\ \A id : RankOf(results, id) \in 1 .. Len(results) + 1
<1>1. Len(results) \in Nat /\ DOMAIN results = 1 .. Len(results)
  BY DEF AreResults
<1>2. \A id : id \notin Ids(results) => RankOf(results, id) = Len(results) + 1
  BY DEF RankOf
<1>3. ASSUME NEW id \in Ids(results)
      PROVE  RankOf(results, id) \in DOMAIN results /\ results[RankOf(results, id)].id = id
  <2>1. \E r \in DOMAIN results : results[r].id = id
    BY DEF Ids
  <2>2. RankOf(results, id) = CHOOSE r \in DOMAIN results : results[r].id = id
    BY DEF RankOf
  <2>. QED  BY <2>1, <2>2
<1>4. ASSUME NEW r \in DOMAIN results
      PROVE  results[r].id \in Ids(results) /\ RankOf(results, results[r].id) = r
  <2>1. results[r].id \in Ids(results)
    BY DEF Ids
  <2>. QED  BY <1>3, <2>1 DEF AreResults
<1>5. ASSUME NEW id PROVE RankOf(results, id) \in 1 .. Len(results) + 1
  BY <1>1, <1>2, <1>3
<1>. QED  BY <1>1, <1>2, <1>3, <1>4, <1>5

\* A cut does not change what comes first.
LEMMA TakeKeepsRanks ==
  ASSUME NEW results, AreResults(results), NEW k \in Nat
  PROVE  LET top == Take(results, k)
         IN /\ AreResults(top) /\ Len(top) <= k /\ Ids(top) \subseteq Ids(results)
            /\ \A a, b : RankOf(results, a) < RankOf(results, b) /\ b \in Ids(top) =>
                           RankOf(top, a) < RankOf(top, b)
<1>. DEFINE top == Take(results, k)
<1>1. results \in Seq(ItemType) /\ Len(results) \in Nat /\ DOMAIN results = 1 .. Len(results)
  BY RankOfFacts DEF AreResults
<1>2. /\ top \in Seq(ItemType) /\ Len(top) = IF k <= Len(results) THEN k ELSE Len(results)
      /\ \A i \in 1 .. Len(top) : top[i] = results[i]
  BY <1>1, TakeCuts
<1>. HIDE DEF top
<1>3. DOMAIN top = 1 .. Len(top) /\ Len(top) <= k /\ DOMAIN top \subseteq DOMAIN results
      /\ Len(top) \in Nat
  BY <1>1, <1>2
<1>4. AreResults(top)
  BY <1>1, <1>2, <1>3 DEF AreResults
<1>5. Ids(top) \subseteq Ids(results)
  BY <1>2, <1>3 DEF Ids
<1>6. ASSUME NEW a, NEW b, RankOf(results, a) < RankOf(results, b), b \in Ids(top)
      PROVE  RankOf(top, a) < RankOf(top, b)
  <2>. DEFINE r == RankOf(results, a)
              q == RankOf(top, b)
  <2>1. q \in 1 .. Len(top) /\ top[q].id = b
    BY <1>4, <1>6, RankOfFacts
  <2>2. RankOf(results, b) = q
    BY <1>2, <1>3, <2>1, RankOfFacts
  <2>3. r < q /\ r \in 1 .. Len(results) + 1
    BY <1>6, <2>2, RankOfFacts
  <2>4. r \in 1 .. Len(top) /\ r \in DOMAIN results
    BY <1>1, <1>3, <2>1, <2>3
  <2>5. a \in Ids(results)
    BY <1>1, <2>4, RankOfFacts
  <2>6. results[r].id = a
    BY <2>5, RankOfFacts
  <2>7. top[r].id = a
    BY <1>2, <2>4, <2>6
  <2>8. RankOf(top, a) = r
    BY <1>3, <1>4, <2>4, <2>7, RankOfFacts
  <2>. QED  BY <2>3, <2>8
<1>. QED  BY <1>3, <1>4, <1>5, <1>6 DEF top

LEMMA GreaterOfTwo ==
  ASSUME NEW a \in Int, NEW b \in Int
  PROVE  Max({a, b}) = IF a >= b THEN a ELSE b
<1>. DEFINE m == IF a >= b THEN a ELSE b
<1>1. m \in {a, b} /\ \A y \in {a, b} : m >= y
  OBVIOUS
<1>2. \A x \in {a, b} : (\A y \in {a, b} : x >= y) => x = m
  OBVIOUS
<1>. HIDE DEF m
<1>3. Max({a, b}) = m
  BY <1>1, <1>2 DEF Max
<1>. QED  BY <1>3 DEF m

\* What a ranking of at most n items adds to the score of a chunk.
Points(n, items, weight, id) ==
  IF id \in Ids(items) THEN weight * Share(n, RankOf(items, id)) ELSE 0

LEMMA ProductsGrow ==
  ASSUME NEW w \in Nat \ {0}, NEW x \in Nat, NEW y \in Nat, x < y
  PROVE  w * x \in Nat /\ w * y \in Nat /\ w * x < w * y
OBVIOUS

LEMMA PointsFall ==
  ASSUME NEW n \in Nat, NEW items, AreResults(items), Len(items) <= n, NEW weight \in Nat \ {0}
  PROVE  /\ \A id : Points(n, items, weight, id) \in Nat
         /\ \A a, b : RankOf(items, a) < RankOf(items, b) =>
              /\ a \in Ids(items)
              /\ Points(n, items, weight, a) > Points(n, items, weight, b)
<1>1. Len(items) \in Nat
  BY RankOfFacts
<1>2. ASSUME NEW id \in Ids(items)
      PROVE  /\ RankOf(items, id) \in 1 .. n /\ Share(n, RankOf(items, id)) \in Nat \ {0}
             /\ Points(n, items, weight, id) = weight * Share(n, RankOf(items, id))
             /\ Points(n, items, weight, id) \in Nat
  <2>1. RankOf(items, id) \in 1 .. n
    BY <1>1, RankOfFacts
  <2>2. Share(n, RankOf(items, id)) \in Nat \ {0}
    BY <2>1, SharesFall
  <2>3. Points(n, items, weight, id) = weight * Share(n, RankOf(items, id))
    BY DEF Points
  <2>. QED  BY <2>1, <2>2, <2>3
<1>3. ASSUME NEW id, id \notin Ids(items)
      PROVE  /\ RankOf(items, id) = Len(items) + 1
             /\ Points(n, items, weight, id) = 0
  BY <1>3, RankOfFacts DEF Points
<1>4. ASSUME NEW a, NEW b, RankOf(items, a) < RankOf(items, b)
      PROVE  /\ a \in Ids(items)
             /\ Points(n, items, weight, a) > Points(n, items, weight, b)
  <2>1. a \in Ids(items)
    <3>1. RankOf(items, a) \in Nat /\ RankOf(items, b) \in 1 .. Len(items) + 1
      BY <1>1, RankOfFacts
    <3>2. RankOf(items, a) # Len(items) + 1
      BY <1>1, <1>4, <3>1
    <3>. QED  BY <1>3, <3>2
  <2>2. CASE b \in Ids(items)
    <3>. DEFINE p == Share(n, RankOf(items, a))
                q == Share(n, RankOf(items, b))
    <3>1. p > q
      BY <1>2, <1>4, <2>1, <2>2, SharesFall
    <3>2. /\ p \in Nat /\ q \in Nat
          /\ Points(n, items, weight, a) = weight * p
          /\ Points(n, items, weight, b) = weight * q
      BY <1>2, <2>1, <2>2
    <3>. HIDE DEF p, q
    <3>. QED  BY <2>1, <3>1, <3>2, ProductsGrow
  <2>3. CASE b \notin Ids(items)
    <3>. DEFINE p == Share(n, RankOf(items, a))
    <3>1. p \in Nat \ {0} /\ Points(n, items, weight, a) = weight * p
      BY <1>2, <2>1
    <3>2. Points(n, items, weight, b) = 0
      BY <1>3, <2>3
    <3>. HIDE DEF p
    <3>3. weight * 0 < weight * p
      BY <3>1, ProductsGrow
    <3>. QED  BY <2>1, <3>1, <3>2, <3>3
  <2>. QED  BY <2>2, <2>3
<1>. QED  BY <1>2, <1>3, <1>4

\* The items of a fusion.
Fused(n, dense, lexical) ==
  {Item(id, Points(n, dense, DENSE_WEIGHT, id) + Points(n, lexical, LEXICAL_WEIGHT, id)) :
   id \in Ids(dense) \cup Ids(lexical)}

LEMMA FusionRanks ==
  ASSUME NEW dense, NEW lexical, AreResults(dense), AreResults(lexical), NEW k
  PROVE  \E n \in Nat :
           /\ Len(dense) <= n /\ Len(lexical) <= n
           /\ ReciprocalRankFusion(dense, lexical, k) = Take(Ranking(Fused(n, dense, lexical)), k)
<1>. DEFINE n == IF Len(dense) >= Len(lexical) THEN Len(dense) ELSE Len(lexical)
<1>1. Len(dense) \in Nat /\ Len(lexical) \in Nat
  BY RankOfFacts
<1>2. Max({Len(dense), Len(lexical)}) = n
  BY <1>1, GreaterOfTwo
<1>3. n \in Nat /\ Len(dense) <= n /\ Len(lexical) <= n
  BY <1>1
<1>. HIDE DEF n
<1>4. ReciprocalRankFusion(dense, lexical, k) = Take(Ranking(Fused(n, dense, lexical)), k)
  BY <1>2 DEF ReciprocalRankFusion, Fused, Points, Share
<1>. QED  BY <1>3, <1>4

LEMMA IdsAreFinite ==
  ASSUME NEW results, AreResults(results)
  PROVE  IsFiniteSet(Ids(results)) /\ Ids(results) \subseteq Nat
<1>. DEFINE f == [r \in DOMAIN results |-> results[r].id]
<1>1. DOMAIN results = 1 .. Len(results) /\ Len(results) \in Nat
  BY RankOfFacts
<1>2. f \in Surjection(DOMAIN results, Ids(results))
  BY DEF Surjection, Ids
<1>3. IsFiniteSet(DOMAIN results)
  BY <1>1, FS_Interval
<1>4. IsFiniteSet(Ids(results))
  BY <1>2, <1>3, FS_Surjection
<1>5. \A r \in DOMAIN results : results[r].id \in Nat
  <2>1. results \in Seq(ItemType)
    BY DEF AreResults
  <2>2. \A r \in DOMAIN results : results[r] \in ItemType
    BY <1>1, <2>1
  <2>. QED  BY <2>2 DEF ItemType
<1>6. Ids(results) \subseteq Nat
  BY <1>5 DEF Ids
<1>. QED  BY <1>4, <1>6

LEMMA FusedAreItems ==
  ASSUME NEW n \in Nat, NEW dense, NEW lexical, AreResults(dense), AreResults(lexical),
         Len(dense) <= n, Len(lexical) <= n
  PROVE  AreItems(Fused(n, dense, lexical)) /\ Fused(n, dense, lexical) \subseteq ItemType
<1>. DEFINE ids == Ids(dense) \cup Ids(lexical)
            score(id) == Points(n, dense, DENSE_WEIGHT, id) + Points(n, lexical, LEXICAL_WEIGHT, id)
            f == [id \in ids |-> score(id)]
<1>1. IsFiniteSet(ids) /\ ids \subseteq Nat
  BY IdsAreFinite, FS_Union
<1>2. \A id : score(id) \in Nat
  <2>1. DENSE_WEIGHT \in Nat \ {0} /\ LEXICAL_WEIGHT \in Nat \ {0}
    BY RetrievalAssumption
  <2>2. \A id : /\ Points(n, dense, DENSE_WEIGHT, id) \in Nat
                /\ Points(n, lexical, LEXICAL_WEIGHT, id) \in Nat
    BY <2>1, PointsFall
  <2>. QED  BY <2>2
<1>3. Fused(n, dense, lexical) = {Item(id, f[id]) : id \in ids}
  BY DEF Fused
<1>4. f \in [ids -> Nat]
  BY <1>2
<1>. HIDE DEF f, ids
<1>5. {Item(id, f[id]) : id \in ids} \subseteq ItemType
  BY <1>1, <1>4 DEF Item, ItemType
<1>. QED  BY <1>1, <1>3, <1>4, <1>5, ItemsOfScores

\* What both rankings put before another, the fusion does.
LEMMA FusionAgrees ==
  ASSUME NEW dense, NEW lexical, AreResults(dense), AreResults(lexical), NEW k \in Nat
  PROVE  LET result == ReciprocalRankFusion(dense, lexical, k)
         IN /\ AreResults(result) /\ Len(result) <= k
            /\ Ids(result) \subseteq Ids(dense) \cup Ids(lexical)
            /\ \A a, b :
                 /\ RankOf(dense, a) < RankOf(dense, b)
                 /\ RankOf(lexical, a) < RankOf(lexical, b)
                 /\ b \in Ids(result)
                 => RankOf(result, a) < RankOf(result, b)
<1>. DEFINE result == ReciprocalRankFusion(dense, lexical, k)
<1>1. PICK n \in Nat : /\ Len(dense) <= n /\ Len(lexical) <= n
                       /\ result = Take(Ranking(Fused(n, dense, lexical)), k)
  BY FusionRanks
<1>. HIDE DEF result
<1>. DEFINE items == Fused(n, dense, lexical)
            score(id) == Points(n, dense, DENSE_WEIGHT, id) + Points(n, lexical, LEXICAL_WEIGHT, id)
<1>2. AreItems(items) /\ items \subseteq ItemType
  BY <1>1, FusedAreItems
<1>3. /\ AreResults(result) /\ Len(result) <= k
      /\ \A r \in DOMAIN result : result[r] \in items
      /\ \A x, y \in items : Better(x, y) /\ (\E q \in DOMAIN result : result[q] = y) =>
           \E r, q \in DOMAIN result : r < q /\ result[r] = x /\ result[q] = y
  <2>. HIDE DEF items
  <2>1. IsTop(Take(Ranking(items), k), items, k)
    BY <1>2, TopOfItems
  <2>2. IsTop(result, items, k)
    BY <1>1, <2>1 DEF items
  <2>. QED  BY <2>2 DEF IsTop
<1>4. \A x \in items : x.id \in Ids(dense) \cup Ids(lexical) /\ x = Item(x.id, score(x.id))
  BY DEF Fused, Item
<1>5. \A id \in Ids(dense) \cup Ids(lexical) : Item(id, score(id)) \in items
  BY DEF Fused
<1>6. Ids(result) \subseteq Ids(dense) \cup Ids(lexical)
  BY <1>3, <1>4 DEF Ids
<1>7. ASSUME NEW a, NEW b, RankOf(dense, a) < RankOf(dense, b),
             RankOf(lexical, a) < RankOf(lexical, b), b \in Ids(result)
      PROVE  RankOf(result, a) < RankOf(result, b)
  <2>1. /\ a \in Ids(dense) /\ score(a) \in Nat /\ score(b) \in Nat /\ score(a) > score(b)
    <3>1. /\ DENSE_WEIGHT \in Nat \ {0} /\ LEXICAL_WEIGHT \in Nat \ {0}
      BY RetrievalAssumption
    <3>2. /\ a \in Ids(dense) /\ Points(n, dense, DENSE_WEIGHT, a) \in Nat
          /\ Points(n, dense, DENSE_WEIGHT, b) \in Nat
          /\ Points(n, dense, DENSE_WEIGHT, a) > Points(n, dense, DENSE_WEIGHT, b)
      BY <1>1, <1>7, <3>1, PointsFall
    <3>3. /\ Points(n, lexical, LEXICAL_WEIGHT, a) \in Nat
          /\ Points(n, lexical, LEXICAL_WEIGHT, b) \in Nat
          /\ Points(n, lexical, LEXICAL_WEIGHT, a) > Points(n, lexical, LEXICAL_WEIGHT, b)
      BY <1>1, <1>7, <3>1, PointsFall
    <3>. QED  BY <3>2, <3>3
  <2>. DEFINE x == Item(a, score(a))
              y == Item(b, score(b))
  <2>2. x.id = a /\ y.id = b /\ Better(x, y) /\ x \in items
    BY <1>5, <2>1 DEF Better, Item
  <2>3. PICK q \in DOMAIN result : result[q].id = b
    BY <1>7 DEF Ids
  <2>. HIDE DEF items, score
  <2>4. result[q] = y
    BY <1>3, <1>4, <2>3
  <2>. HIDE DEF x, y
  <2>5. y \in items
    BY <1>3, <2>4
  <2>6. PICK r \in DOMAIN result, t \in DOMAIN result : r < t /\ result[r] = x /\ result[t] = y
    BY <1>3, <2>2, <2>4, <2>5
  <2>7. RankOf(result, a) = r /\ RankOf(result, b) = t
    BY <1>3, <2>2, <2>6, RankOfFacts
  <2>. QED  BY <2>6, <2>7
<1>. QED  BY <1>3, <1>6, <1>7 DEF result

-----------------------------------------------------------------------------
(* Masks. *)

\* A part of a text is a stretch of it.
LEMMA PartsAreStretches ==
  ASSUME NEW C, NEW t \in Seq(C), NEW s
  PROVE  s \in SubSeqs(t) <=>
           \/ s = <<>>
           \/ \E i \in 1 .. Len(t), j \in 1 .. Len(t) : i <= j /\ s = SubSeq(t, i, j)
<1>. DEFINE n == Len(t)
<1>1. n \in Nat
  OBVIOUS
<1>2. ASSUME s \in SubSeqs(t)
      PROVE  s = <<>> \/ \E i \in 1 .. n, j \in 1 .. n : i <= j /\ s = SubSeq(t, i, j)
  <2>1. PICK i \in 0 .. n, j \in 0 .. n : s = SubSeq(t, i + 1, j)
    BY <1>2 DEF SubSeqs
  <2>2. CASE i + 1 <= j
    <3>1. i + 1 \in 1 .. n /\ j \in 1 .. n
      BY <1>1, <2>2
    <3>. QED  BY <2>1, <2>2, <3>1
  <2>3. CASE ~(i + 1 <= j)
    <3>1. i + 1 \in Int /\ j \in Int /\ i + 1 > j
      BY <1>1, <2>3
    <3>2. s = <<>>
      BY <2>1, <3>1, SubSeqEmpty
    <3>. QED  BY <3>2
  <2>. QED  BY <2>2, <2>3
<1>3. ASSUME NEW i \in 1 .. n, NEW j \in 1 .. n, s = SubSeq(t, i, j)
      PROVE  s \in SubSeqs(t)
  <2>. DEFINE a == i - 1
  <2>1. a \in 0 .. n /\ j \in 0 .. n /\ a + 1 = i
    BY <1>1
  <2>. HIDE DEF a
  <2>2. s = SubSeq(t, a + 1, j)
    BY <1>3, <2>1
  <2>. QED  BY <2>1, <2>2 DEF SubSeqs
<1>4. ASSUME s = <<>> PROVE s \in SubSeqs(t)
  <2>1. SubSeq(t, 0 + 1, 0) = <<>> /\ 0 \in 0 .. n
    BY <1>1, SubSeqEmpty
  <2>. QED  BY <1>4, <2>1 DEF SubSeqs
<1>. QED  BY <1>2, <1>3, <1>4

LEMMA PartOfPrefix ==
  ASSUME NEW C, NEW t \in Seq(C), NEW b \in 0 .. Len(t), NEW i \in 1 .. b, NEW j \in 1 .. b, i <= j
  PROVE  SubSeq(SubSeq(t, 1, b), i, j) = SubSeq(t, i, j)
<1>. DEFINE u == SubSeq(t, 1, b)
            v == SubSeq(u, i, j)
            w == SubSeq(t, i, j)
<1>1. Len(t) \in Nat /\ b \in Nat /\ i \in 1 .. Len(t) /\ j \in 1 .. Len(t) /\ j \in i - 1 .. Len(t)
  OBVIOUS
<1>2. /\ u \in Seq(C) /\ Len(u) = b /\ \A k \in 1 .. b : u[k] = t[k]
  <2>1. /\ 1 \in 1 .. Len(t) + 1 /\ b \in 1 - 1 .. Len(t)
    BY <1>1
  <2>2. /\ u \in Seq(C) /\ Len(u) = b - 1 + 1 /\ \A k \in 1 .. b - 1 + 1 : u[k] = t[1 + k - 1]
    BY <2>1, SubSeqFacts
  <2>3. b - 1 + 1 = b /\ \A k \in 1 .. b : 1 + k - 1 = k
    BY <1>1
  <2>. QED  BY <2>2, <2>3
<1>. HIDE DEF u
<1>3. /\ v \in Seq(C) /\ Len(v) = j - i + 1 /\ \A k \in 1 .. j - i + 1 : v[k] = u[i + k - 1]
  BY <1>1, <1>2, SubSeqFacts
<1>4. /\ w \in Seq(C) /\ Len(w) = j - i + 1 /\ \A k \in 1 .. j - i + 1 : w[k] = t[i + k - 1]
  BY <1>1, SubSeqFacts
<1>. HIDE DEF v, w
<1>5. \A k \in 1 .. j - i + 1 : i + k - 1 \in 1 .. b
  BY <1>1
<1>6. v = w
  BY <1>2, <1>3, <1>4, <1>5, SeqEqual
<1>. QED  BY <1>6 DEF v, w, u

\* Where the first occurrence of a part begins.
LEMMA FirstOccurrence ==
  ASSUME NEW C, NEW t \in Seq(C), NEW s \in SubSeqs(t), s # <<>>
  PROVE  LET i == IndexFirstSubSeq(s, t)
         IN /\ Len(s) \in Nat \ {0} /\ i \in 1 .. Len(t) /\ i + Len(s) - 1 \in i .. Len(t)
            /\ s = SubSeq(t, i, i + Len(s) - 1)
<1>. DEFINE n == Len(t)
            Ends(b) == /\ s \in SubSeqs(SubSeq(t, 1, b))
                       /\ \A j \in 0 .. b - 1 : s \notin SubSeqs(SubSeq(t, 1, j))
            last == CHOOSE b \in 0 .. n : Ends(b)
            S == {b \in 0 .. n : s \in SubSeqs(SubSeq(t, 1, b))}
<1>1. n \in Nat
  OBVIOUS
<1>2. ASSUME NEW b \in 0 .. n
      PROVE  /\ s \in SubSeqs(SubSeq(t, 1, b)) =>
                  \E i \in 1 .. b, j \in 1 .. b : i <= j /\ s = SubSeq(t, i, j)
             /\ \A i \in 1 .. b, j \in 1 .. b :
                  i <= j /\ s = SubSeq(t, i, j) => s \in SubSeqs(SubSeq(t, 1, b))
  <2>. DEFINE u == SubSeq(t, 1, b)
  <2>1. u \in Seq(C) /\ Len(u) = b
    <3>1. 1 \in 1 .. n + 1 /\ b \in 1 - 1 .. n /\ b - 1 + 1 = b
      BY <1>1
    <3>. QED  BY <3>1, SubSeqFacts
  <2>2. \A i \in 1 .. b, j \in 1 .. b : i <= j => SubSeq(u, i, j) = SubSeq(t, i, j)
    BY PartOfPrefix
  <2>. HIDE DEF u
  <2>3. s \in SubSeqs(u) <=> \E i \in 1 .. b, j \in 1 .. b : i <= j /\ s = SubSeq(u, i, j)
    BY <2>1, PartsAreStretches
  <2>. QED  BY <2>2, <2>3 DEF u
<1>3. PICK b \in S : \A i \in S : b <= i
  <2>1. PICK i \in 1 .. n, j \in 1 .. n : i <= j /\ s = SubSeq(t, i, j)
    BY PartsAreStretches
  <2>2. j \in 0 .. n /\ i \in 1 .. j /\ j \in 1 .. j
    BY <1>1, <2>1
  <2>3. j \in S
    BY <1>2, <2>1, <2>2
  <2>4. S \subseteq Nat /\ S # {}
    BY <1>1, <2>3
  <2>. HIDE DEF S
  <2>. QED  BY <2>4, Parsing!LeastNumber
<1>4. b \in 0 .. n /\ Ends(b)
  <2>1. \A j \in 0 .. b - 1 : j \in 0 .. n /\ ~(b <= j)
    BY <1>1
  <2>. QED  BY <1>3, <2>1
<1>5. last \in 0 .. n /\ Ends(last)
  <2>. HIDE DEF Ends
  <2>. QED  BY <1>4
<1>6. IndexFirstSubSeq(s, t) = last - (Len(s) - 1)
  BY DEF IndexFirstSubSeq
<1>. HIDE DEF last
<1>7. PICK i \in 1 .. last, j \in 1 .. last : i <= j /\ s = SubSeq(t, i, j)
  BY <1>2, <1>5
<1>8. j = last
  <2>1. j \in 0 .. n /\ i \in 1 .. j /\ j \in 1 .. j
    BY <1>1, <1>5, <1>7
  <2>2. s \in SubSeqs(SubSeq(t, 1, j))
    BY <1>2, <1>7, <2>1
  <2>3. ~(j \in 0 .. last - 1)
    BY <1>5, <2>2
  <2>. QED  BY <1>1, <1>5, <2>1, <2>3
<1>9. Len(s) = last - i + 1
  <2>1. i \in 1 .. n + 1 /\ last \in i - 1 .. n
    BY <1>1, <1>5
  <2>. QED  BY <1>7, <1>8, <2>1, SubSeqFacts
<1>10. i \in 1 .. n /\ last \in i .. n /\ last - (Len(s) - 1) = i /\ i + Len(s) - 1 = last
  BY <1>1, <1>5, <1>7, <1>8, <1>9
<1>. QED  BY <1>6, <1>7, <1>8, <1>9, <1>10

\* The l characters of a text from i on are replaced by one.
IsReplaced(new, text, i, l, mask) ==
  /\ l \in Nat \ {0} /\ i \in 1 .. Len(text) /\ i + l - 1 \in i .. Len(text)
  /\ Len(new) = Len(text) - l + 1
  /\ new[i] = mask
  /\ \A k \in 1 .. i - 1 : new[k] = text[k]
  /\ \A k \in i + 1 .. Len(new) : new[k] = text[k + l - 1]

LEMMA MaskReplaces ==
  ASSUME NEW C, NEW text \in Seq(C), NEW span, Characters(span) # <<>>, MaskedAs(span.page) \in C
  PROVE  /\ MaskQuote(text, span) \in Seq(C)
         /\ Characters(span) \notin SubSeqs(text) => MaskQuote(text, span) = text
         /\ Characters(span) \in SubSeqs(text) =>
              \E i \in 1 .. Len(text), l \in Nat :
                /\ IsReplaced(MaskQuote(text, span), text, i, l, MaskedAs(span.page))
                /\ l = Len(Characters(span))
                /\ \A k \in 1 .. l : text[i + k - 1] = Characters(span)[k]
<1>. DEFINE s    == Characters(span)
            mask == MaskedAs(span.page)
            new  == MaskQuote(text, span)
            i    == IndexFirstSubSeq(s, text)
            l    == Len(s)
            before == SubSeq(text, 1, i - 1)
            after  == SubSeq(text, i + l, Len(text))
<1>1. new = IF s \in SubSeqs(text) THEN before \o <<mask>> \o after ELSE text
  BY DEF MaskQuote, ReplaceFirstSubSeq, ReplaceSubSeqAt
<1>. HIDE DEF new, s, mask
<1>2. SUFFICES ASSUME s \in SubSeqs(text)
               PROVE  /\ new \in Seq(C) /\ IsReplaced(new, text, i, l, mask)
                      /\ i \in 1 .. Len(text) /\ l \in Nat
                      /\ \A k \in 1 .. l : text[i + k - 1] = s[k]
  BY <1>1 DEF new, s, mask
<1>3. s # <<>> /\ mask \in C
  BY DEF s, mask
<1>4. /\ l \in Nat \ {0} /\ i \in 1 .. Len(text) /\ i + l - 1 \in i .. Len(text)
      /\ s = SubSeq(text, i, i + l - 1)
  BY <1>2, <1>3, FirstOccurrence
<1>. HIDE DEF i
<1>5. Len(text) \in Nat
  OBVIOUS
<1>6. \A k \in 1 .. l : text[i + k - 1] = s[k]
  <2>1. i \in 1 .. Len(text) + 1 /\ i + l - 1 \in i - 1 .. Len(text) /\ (i + l - 1) - i + 1 = l
    BY <1>4, <1>5
  <2>. HIDE DEF l
  <2>2. \A k \in 1 .. (i + l - 1) - i + 1 : SubSeq(text, i, i + l - 1)[k] = text[i + k - 1]
    BY <2>1, SubSeqFacts
  <2>. QED  BY <1>4, <2>1, <2>2
<1>. HIDE DEF l
<1>7. /\ before \in Seq(C) /\ Len(before) = i - 1
      /\ \A k \in 1 .. i - 1 : before[k] = text[k]
  <2>1. 1 \in 1 .. Len(text) + 1 /\ i - 1 \in 1 - 1 .. Len(text) /\ (i - 1) - 1 + 1 = i - 1
        /\ \A k \in 1 .. i - 1 : 1 + k - 1 = k
    BY <1>4, <1>5
  <2>2. /\ before \in Seq(C) /\ Len(before) = (i - 1) - 1 + 1
        /\ \A k \in 1 .. (i - 1) - 1 + 1 : before[k] = text[1 + k - 1]
    BY <2>1, SubSeqFacts
  <2>. QED  BY <2>1, <2>2
<1>8. /\ after \in Seq(C) /\ Len(after) = Len(text) - i - l + 1
      /\ \A k \in 1 .. Len(text) - i - l + 1 : after[k] = text[i + l + k - 1]
  <2>1. i + l \in 1 .. Len(text) + 1 /\ Len(text) \in i + l - 1 .. Len(text)
        /\ Len(text) - (i + l) + 1 = Len(text) - i - l + 1
    BY <1>4, <1>5
  <2>. QED  BY <2>1, SubSeqFacts
<1>. HIDE DEF before, after
<1>. DEFINE front == before \o <<mask>>
<1>9. /\ front \in Seq(C) /\ Len(front) = i /\ front[i] = mask
      /\ \A k \in 1 .. i - 1 : front[k] = text[k]
  <2>1. <<mask>> \in Seq(C) /\ Len(<<mask>>) = 1 /\ <<mask>>[1] = mask
    BY <1>3
  <2>. DEFINE one == <<mask>>
              m   == i - 1
  <2>2. one \in Seq(C) /\ Len(one) = 1 /\ one[1] = mask /\ m \in Nat
    BY <1>4, <2>1
  <2>3. m + 1 = i /\ i \in 1 .. m + 1 /\ ~(i <= m) /\ i - m = 1 /\ Len(before) = m
        /\ \A k \in 1 .. m : k \in 1 .. m + 1 /\ k <= m
    BY <1>4, <1>7
  <2>4. front = before \o one
    OBVIOUS
  <2>. HIDE DEF one, front, m
  <2>5. /\ front \in Seq(C) /\ Len(front) = Len(before) + Len(one)
        /\ \A k \in 1 .. Len(before) + Len(one) :
             front[k] = IF k <= Len(before) THEN before[k] ELSE one[k - Len(before)]
    <3>1. /\ (before \o one) \in Seq(C) /\ Len(before \o one) = Len(before) + Len(one)
          /\ \A k \in 1 .. Len(before) + Len(one) :
               (before \o one)[k] = IF k <= Len(before) THEN before[k] ELSE one[k - Len(before)]
      BY <1>7, <2>2, ConcatProperties
    <3>. QED  BY <2>4, <3>1
  <2>7. Len(front) = m + 1 /\ \A k \in 1 .. m + 1 : front[k] = IF k <= m THEN before[k] ELSE one[k - m]
    BY <2>2, <2>3, <2>5
  <2>6. front[i] = mask /\ \A k \in 1 .. m : front[k] = before[k]
    BY <2>2, <2>3, <2>7
  <2>. QED  BY <1>7, <2>3, <2>5, <2>6, <2>7 DEF m
<1>. HIDE DEF front
<1>10. /\ new \in Seq(C) /\ Len(new) = Len(text) - l + 1
       /\ \A k \in 1 .. Len(text) - l + 1 :
            new[k] = IF k <= i THEN front[k] ELSE after[k - i]
  <2>1. new = front \o after
    BY <1>1, <1>2 DEF front
  <2>2. i + (Len(text) - i - l + 1) = Len(text) - l + 1
    BY <1>4, <1>5
  <2>3. /\ new \in Seq(C) /\ Len(new) = Len(front) + Len(after)
        /\ \A k \in 1 .. Len(front) + Len(after) :
             new[k] = IF k <= Len(front) THEN front[k] ELSE after[k - Len(front)]
    BY <1>8, <1>9, <2>1, ConcatProperties
  <2>. QED  BY <1>8, <1>9, <2>2, <2>3
<1>11. new[i] = mask /\ \A k \in 1 .. i - 1 : new[k] = text[k]
  <2>1. i \in 1 .. Len(text) - l + 1 /\ \A k \in 1 .. i - 1 : k \in 1 .. Len(text) - l + 1 /\ k <= i
    BY <1>4, <1>5
  <2>. QED  BY <1>9, <1>10, <2>1
<1>12. ASSUME NEW k \in i + 1 .. Len(new) PROVE new[k] = text[k + l - 1]
  <2>1. /\ k \in Nat /\ i \in Nat /\ l \in Nat /\ i < k /\ k <= Len(text) - l + 1
    BY <1>4, <1>5, <1>10, SMTT(20)
  <2>2. k \in 1 .. Len(text) - l + 1 /\ ~(k <= i)
    BY <1>5, <2>1
  <2>3. k - i \in 1 .. Len(text) - i - l + 1
    BY <1>5, <2>1
  <2>4. i + l + (k - i) - 1 = k + l - 1
    BY <2>1
  <2>. QED  BY <1>8, <1>10, <2>2, <2>3, <2>4
<1>. QED  BY <1>4, <1>6, <1>10, <1>11, <1>12 DEF IsReplaced

-----------------------------------------------------------------------------
(* The masks of a page, from the longest quote to the shortest. *)

\* Quotes on the pages of a document, which begin with text.
AreQuotes(d, quotes) ==
  /\ IsFiniteSet(quotes) /\ quotes \subseteq Spans
  /\ \A q \in quotes :
       /\ q.page \in DOMAIN d.pages
       /\ q.from \in 1 .. q.to /\ q.to \in 1 .. Len(Page(d, q.page))
       /\ Page(d, q.page)[q.from] # "/"

LEMMA CharactersOf ==
  ASSUME NEW q \in Spans, q.from \in 1 .. q.to
  PROVE  /\ Size(q) \in Nat \ {0} /\ Len(Characters(q)) = Size(q) /\ Characters(q) # <<>>
         /\ DOMAIN Characters(q) = 1 .. Size(q)
         /\ \A k \in 1 .. Size(q) :
              /\ Characters(q)[k] = <<q.page, q.from + k - 1>>
              /\ q.from + k - 1 \in q.from .. q.to
         /\ Characters(q) \in Seq({q.page} \X (1 .. q.to))
         /\ ToSet(Characters(q)) = {<<q.page, a>> : a \in q.from .. q.to}
<1>. DEFINE n == Size(q)
            s == [i \in 1 .. n |-> <<q.page, q.from + i - 1>>]
<1>1. q.from \in Nat \ {0} /\ q.to \in Nat /\ q.from <= q.to /\ n = q.to - q.from + 1
  BY DEF Spans, Size
<1>. HIDE DEF n
<1>2. n \in Nat \ {0} /\ \A k \in 1 .. n : q.from + k - 1 \in q.from .. q.to
  BY <1>1
<1>3. Characters(q) = s
  BY DEF Characters, n
<1>4. \A k \in 1 .. n : s[k] = <<q.page, q.from + k - 1>> /\ s[k] \in {q.page} \X (1 .. q.to)
  BY <1>1, <1>2
<1>5. DOMAIN s = 1 .. n /\ s = [i \in 1 .. n |-> s[i]]
  OBVIOUS
<1>. HIDE DEF s
<1>6. s \in Seq({q.page} \X (1 .. q.to)) /\ Len(s) = n
  BY <1>2, <1>4, <1>5, FunctionIsSeq
<1>7. ASSUME NEW a \in q.from .. q.to PROVE <<q.page, a>> \in ToSet(s)
  <2>. DEFINE k == a - q.from + 1
  <2>1. k \in 1 .. n /\ q.from + k - 1 = a
    BY <1>1
  <2>. HIDE DEF k
  <2>. QED  BY <1>4, <1>5, <2>1 DEF ToSet
<1>8. \A c \in ToSet(s) : c \in {<<q.page, a>> : a \in q.from .. q.to}
  BY <1>2, <1>4, <1>5 DEF ToSet
<1>9. s # <<>>
  BY <1>2, <1>6
<1>. QED  BY <1>2, <1>3, <1>4, <1>5, <1>6, <1>7, <1>8, <1>9 DEF n

\* The longest first.
LEMMA QuotesByLength ==
  ASSUME NEW quotes, IsFiniteSet(quotes), quotes \subseteq Spans
  PROVE  LET qs == ByLength(quotes)
         IN /\ qs \in Seq(quotes) /\ Len(qs) \in Nat /\ DOMAIN qs = 1 .. Len(qs)
            /\ \A q \in quotes : \E r \in 1 .. Len(qs) : qs[r] = q
            /\ \A r, t \in 1 .. Len(qs) : r < t => qs[r] # qs[t] /\ Size(qs[r]) >= Size(qs[t])
<1>. DEFINE before == {p \in quotes \X quotes : LongestFirst(p[1], p[2])}
            qs == ByLength(quotes)
<1>1. \A x, y \in quotes : <<x, y>> \in before <=> LongestFirst(x, y)
  OBVIOUS
<1>2. qs = InOrder(quotes, before)
  BY DEF ByLength
<1>. HIDE DEF before, qs
<1>3. \A x \in quotes : /\ x.page \in Nat /\ x.from \in Nat /\ x.to \in Int /\ Size(x) \in Int
                        /\ Size(x) = x.to - x.from + 1
                        /\ x = [page |-> x.page, from |-> x.from, to |-> x.to]
  BY DEF Spans, Size
<1>4. \A x \in quotes : ~LongestFirst(x, x)
  BY <1>3 DEF LongestFirst, Earlier
<1>5. ASSUME NEW x \in quotes, NEW y \in quotes, x # y
      PROVE  LongestFirst(x, y) \/ LongestFirst(y, x)
  <2>1. CASE Size(x) # Size(y)
    BY <1>3, <2>1 DEF LongestFirst
  <2>2. CASE Size(x) = Size(y)
    <3>1. x.page # y.page \/ x.from # y.from
      <4>. SUFFICES ASSUME x.page = y.page, x.from = y.from PROVE FALSE
        OBVIOUS
      <4>1. x.to = y.to
        BY <1>3, <2>2
      <4>. QED  BY <1>3, <1>5, <4>1
    <3>2. Earlier(x, y) \/ Earlier(y, x)
      BY <1>3, <3>1 DEF Earlier
    <3>. QED  BY <2>2, <3>2 DEF LongestFirst
  <2>. QED  BY <2>1, <2>2
<1>6. \A x, y, z \in quotes : LongestFirst(x, y) /\ LongestFirst(y, z) => LongestFirst(x, z)
  BY <1>3 DEF LongestFirst, Earlier
<1>7. IsOrder(quotes, before)
  BY <1>1, <1>4, <1>5, <1>6 DEF IsOrder
<1>8. IsInOrder(qs, quotes, before)
  BY <1>2, <1>7, InOrderSorts
<1>9. /\ qs \in Seq(quotes) /\ Len(qs) \in Nat /\ DOMAIN qs = 1 .. Len(qs)
      /\ \A q \in quotes : \E r \in 1 .. Len(qs) : qs[r] = q
  BY <1>8 DEF IsInOrder
<1>10. ASSUME NEW r \in 1 .. Len(qs), NEW t \in 1 .. Len(qs), r < t
       PROVE  qs[r] # qs[t] /\ Size(qs[r]) >= Size(qs[t])
  <2>1. qs[r] \in quotes /\ qs[t] \in quotes /\ <<qs[r], qs[t]>> \in before
    BY <1>8, <1>9, <1>10 DEF IsInOrder
  <2>2. LongestFirst(qs[r], qs[t])
    BY <1>1, <2>1
  <2>3. qs[r] # qs[t]
    BY <1>4, <2>1, <2>2
  <2>. QED  BY <1>3, <2>1, <2>2, <2>3 DEF LongestFirst
<1>. QED  BY <1>9, <1>10 DEF qs

\* What is left of the n characters of page p, and masks: each character at
\* most once, and neighbours side by side.
IsPageText(text, p, n) ==
  /\ text \in Seq({p} \X (0 .. n))
  /\ \A i, j \in DOMAIN text : text[i] = text[j] /\ text[i][2] # 0 => i = j
  /\ \A i, j \in DOMAIN text : text[i][2] # 0 /\ text[j][2] = text[i][2] + 1 => j = i + 1

IsGone(text, q) == \A a \in q.from .. q.to : <<q.page, a>> \notin ToSet(text)

LEMMA NeighboursArePart ==
  ASSUME NEW p, NEW n \in Nat, NEW text, IsPageText(text, p, n),
         NEW q \in Spans, q.page = p, q.from \in 1 .. q.to, q.to \in 1 .. n,
         \A a \in q.from .. q.to : <<p, a>> \in ToSet(text)
  PROVE  Characters(q) \in SubSeqs(text)
<1>. DEFINE l == Size(q)
            s == Characters(q)
            m == Len(text)
<1>1. /\ l \in Nat \ {0} /\ Len(s) = l /\ s \in Seq({p} \X (1 .. q.to))
      /\ \A k \in 1 .. l : s[k] = <<p, q.from + k - 1>> /\ q.from + k - 1 \in q.from .. q.to
  BY CharactersOf
<1>2. /\ m \in Nat /\ DOMAIN text = 1 .. m /\ text \in Seq({p} \X (0 .. n))
      /\ q.from \in Nat \ {0} /\ q.to \in Nat
  BY DEF IsPageText, Spans
<1>. HIDE DEF l, s, m
<1>3. PICK i \in 1 .. m : text[i] = <<p, q.from>>
  <2>1. q.from \in q.from .. q.to
    BY <1>2
  <2>. QED  BY <1>2, <2>1 DEF ToSet
<1>. DEFINE T == {k \in 0 .. l - 1 : i + k \in 1 .. m /\ text[i + k] = <<p, q.from + k>>}
<1>4. 0 \in T
  BY <1>1, <1>2, <1>3
<1>5. ASSUME NEW k \in 1 .. l - 1, k - 1 \in T PROVE k \in T
  <2>1. i + (k - 1) \in 1 .. m /\ text[i + (k - 1)] = <<p, q.from + (k - 1)>>
    BY <1>5
  <2>2. q.from + k \in q.from .. q.to
    <3>1. k + 1 \in 1 .. l /\ q.from + (k + 1) - 1 = q.from + k
      BY <1>1, <1>2
    <3>. QED  BY <1>1, <3>1
  <2>3. PICK j \in 1 .. m : text[j] = <<p, q.from + k>>
    BY <1>2, <2>2 DEF ToSet
  <2>4. text[i + (k - 1)][2] # 0 /\ text[j][2] = text[i + (k - 1)][2] + 1
    <3>1. text[i + (k - 1)][2] = q.from + (k - 1)
      BY <2>1
    <3>2. text[j][2] = q.from + k
      BY <2>3
    <3>3. q.from + (k - 1) # 0 /\ q.from + k = q.from + (k - 1) + 1
      BY <1>2
    <3>. QED  BY <3>1, <3>2, <3>3, Zenon
  <2>5. j = i + (k - 1) + 1
    BY <1>2, <2>1, <2>4 DEF IsPageText
  <2>6. i + k = j /\ k \in 0 .. l - 1
    BY <1>1, <2>5, SMTT(20)
  <2>. QED  BY <2>3, <2>6
<1>6. \A k \in 0 .. l - 1 : i + k \in 1 .. m /\ text[i + k] = <<p, q.from + k>>
  <2>1. l - 1 \in Nat
    BY <1>1
  <2>2. \A k \in 0 .. l - 1 : k \in T
    <3>. HIDE DEF T
    <3>. QED  BY <1>4, <1>5, <2>1, Parsing!RangeInduction
  <2>. QED  BY <2>2
<1>. DEFINE j == i + l - 1
            t == SubSeq(text, i, j)
<1>7. i \in 1 .. m /\ j \in 1 .. m /\ i <= j /\ i \in 1 .. m + 1 /\ j \in i - 1 .. m /\ j - i + 1 = l
  <2>1. l - 1 \in 0 .. l - 1 /\ i + (l - 1) = j
    BY <1>1
  <2>. QED  BY <1>1, <1>2, <1>6, <2>1
<1>. HIDE DEF j
<1>8. t \in Seq({p} \X (0 .. n)) /\ Len(t) = l /\ \A k \in 1 .. l : t[k] = text[i + k - 1]
  <2>1. /\ t \in Seq({p} \X (0 .. n)) /\ Len(t) = j - i + 1
        /\ \A k \in 1 .. j - i + 1 : t[k] = text[i + k - 1]
    BY <1>2, <1>7, SubSeqFacts DEF m
  <2>. QED  BY <1>7, <2>1
<1>. HIDE DEF t
<1>9. ASSUME NEW k \in 1 .. l PROVE t[k] = s[k]
  <2>1. k - 1 \in 0 .. l - 1 /\ i + (k - 1) = i + k - 1 /\ q.from + (k - 1) = q.from + k - 1
    BY <1>1, <1>2
  <2>. QED  BY <1>1, <1>6, <1>8, <2>1
<1>10. t = s
  BY <1>1, <1>8, <1>9, SeqEqual
<1>11. s = SubSeq(text, i, j)
  BY <1>10 DEF t
<1>. QED  BY <1>2, <1>7, <1>11, PartsAreStretches DEF s, m

\* Where a character was before l characters from i on became one mask.
Unmasked(i, l, j) == IF j < i THEN j ELSE j + l - 1

\* m characters before, w after.
PlacesAgree(i, l, m, w) ==
  /\ \A j \in 1 .. w : j # i =>
       /\ Unmasked(i, l, j) \in 1 .. m
       /\ Unmasked(i, l, j) < i \/ Unmasked(i, l, j) > i + l - 1
       /\ j < i \/ j \in i + 1 .. w
  /\ \A j, k \in 1 .. w : j # i /\ k # i =>
       /\ Unmasked(i, l, j) = Unmasked(i, l, k) => j = k
       /\ Unmasked(i, l, k) = Unmasked(i, l, j) + 1 => k = j + 1
  /\ \A k \in 1 .. l : i + k - 1 \in 1 .. m /\ i + k - 1 >= i /\ i + k - 1 <= i + l - 1
  /\ \A j \in 1 .. m :
       /\ j < i => j \in 1 .. i - 1 /\ j \in 1 .. w
       /\ j >= i /\ j <= i + l - 1 => j - i + 1 \in 1 .. l /\ i + (j - i + 1) - 1 = j
       /\ j > i + l - 1 => /\ j - l + 1 \in i + 1 .. w /\ j - l + 1 \in 1 .. w
                          /\ (j - l + 1) + l - 1 = j

LEMMA PlacesOfMask ==
  ASSUME NEW i \in Nat, NEW l \in Nat, NEW m \in Nat, NEW w \in Nat, 1 <= i, 1 <= l,
         i + l - 1 <= m, w = m - l + 1
  PROVE  PlacesAgree(i, l, m, w)
BY DEF PlacesAgree, Unmasked

QuoteIsTaken(new, text, p, n, q) ==
  /\ IsPageText(new, p, n) /\ IsGone(new, q)
  /\ ToSet(new) \subseteq ToSet(text) \cup {<<p, 0>>}
  /\ \A a \in 1 .. n : <<p, a>> \in ToSet(text) /\ a \notin q.from .. q.to =>
                         <<p, a>> \in ToSet(new)

\* A mask over a quote takes its characters, and no others.
LEMMA MaskTakesQuote ==
  ASSUME NEW p, NEW n \in Nat, NEW text, IsPageText(text, p, n), NEW new,
         NEW q \in Spans, q.page = p, q.from \in 1 .. q.to, q.to \in 1 .. n,
         NEW i, NEW l, new \in Seq({p} \X (0 .. n)), IsReplaced(new, text, i, l, <<p, 0>>),
         l = Size(q), \A k \in 1 .. l : text[i + k - 1] = Characters(q)[k]
  PROVE  QuoteIsTaken(new, text, p, n, q)
<1>. DEFINE m == Len(text)
            w == Len(new)
            old(j) == Unmasked(i, l, j)
<1>1. /\ m \in Nat /\ DOMAIN text = 1 .. m /\ text \in Seq({p} \X (0 .. n))
      /\ w \in Nat /\ DOMAIN new = 1 .. w /\ q.from \in Nat \ {0} /\ q.to \in Nat
  BY DEF IsPageText, Spans
<1>2. /\ l \in Nat \ {0} /\ i \in 1 .. m /\ i + l - 1 \in i .. m /\ w = m - l + 1
      /\ new[i] = <<p, 0>>
      /\ \A k \in 1 .. i - 1 : new[k] = text[k]
      /\ \A k \in i + 1 .. w : new[k] = text[k + l - 1]
  BY DEF IsReplaced
<1>3. \A k \in 1 .. l : text[i + k - 1] = <<p, q.from + k - 1>> /\ q.from + k - 1 \in q.from .. q.to
  BY CharactersOf
<1>20. /\ i \in Nat /\ l \in Nat /\ m \in Nat /\ w \in Nat /\ 1 <= i /\ 1 <= l
       /\ i + l - 1 <= m /\ w = m - l + 1
  BY <1>1, <1>2
<1>22. /\ \A j \in 1 .. w : j # i =>
              /\ old(j) \in 1 .. m
              /\ old(j) < i \/ old(j) > i + l - 1
              /\ j < i \/ j \in i + 1 .. w
       /\ \A j, k \in 1 .. w : j # i /\ k # i =>
              /\ old(j) = old(k) => j = k
              /\ old(k) = old(j) + 1 => k = j + 1
       /\ \A k \in 1 .. l : i + k - 1 \in 1 .. m /\ i + k - 1 >= i /\ i + k - 1 <= i + l - 1
       /\ \A j \in 1 .. m :
              /\ j < i => j \in 1 .. i - 1 /\ j \in 1 .. w
              /\ j >= i /\ j <= i + l - 1 => j - i + 1 \in 1 .. l /\ i + (j - i + 1) - 1 = j
              /\ j > i + l - 1 => /\ j - l + 1 \in i + 1 .. w /\ j - l + 1 \in 1 .. w
                                 /\ (j - l + 1) + l - 1 = j
  <2>. HIDE DEF m, w
  <2>1. PlacesAgree(i, l, m, w)
    BY <1>20, PlacesOfMask
  <2>. QED  BY <2>1, Zenon DEF PlacesAgree, old
<1>21. /\ q.from \in Nat /\ q.to \in Nat /\ 1 <= q.from /\ q.from <= q.to
       /\ l = q.to - q.from + 1
  BY <1>1 DEF Size
<1>. HIDE DEF m, w
<1>4. ASSUME NEW j \in 1 .. w, new[j][2] # 0
      PROVE  /\ j # i /\ old(j) \in 1 .. m /\ text[old(j)] = new[j]
             /\ old(j) < i \/ old(j) > i + l - 1
  <2>1. j # i
    <3>1. new[i][2] = 0
      BY <1>2
    <3>. QED  BY <1>4, <3>1
  <2>2. /\ old(j) \in 1 .. m
        /\ old(j) < i \/ old(j) > i + l - 1
        /\ j < i \/ j \in i + 1 .. w
    BY <1>22, <2>1
  <2>3. CASE j < i
    <3>1. old(j) = j /\ j \in 1 .. i - 1
      BY <1>20, <2>3 DEF Unmasked
    <3>. QED  BY <1>2, <2>1, <2>2, <3>1
  <2>4. CASE j \in i + 1 .. w
    <3>1. old(j) = j + l - 1
      BY <1>20, <2>4 DEF Unmasked
    <3>. QED  BY <1>2, <2>1, <2>2, <2>4, <3>1
  <2>. QED  BY <2>2, <2>3, <2>4
<1>5. ASSUME NEW j \in 1 .. w, NEW k \in 1 .. w, new[j] = new[k], new[j][2] # 0 PROVE j = k
  <2>1. /\ old(j) \in 1 .. m /\ text[old(j)] = new[j] /\ j # i
        /\ old(k) \in 1 .. m /\ text[old(k)] = new[k] /\ k # i
    BY <1>4, <1>5
  <2>. HIDE DEF old
  <2>2. old(j) = old(k)
    BY <1>1, <1>5, <2>1 DEF IsPageText
  <2>. QED  BY <1>22, <2>1, <2>2, Zenon DEF old
<1>6. ASSUME NEW j \in 1 .. w, NEW k \in 1 .. w, new[j][2] # 0, new[k][2] = new[j][2] + 1
      PROVE  k = j + 1
  <2>0. new[j][2] \in Nat
    BY <1>1
  <2>1. /\ old(j) \in 1 .. m /\ text[old(j)] = new[j] /\ j # i
        /\ old(k) \in 1 .. m /\ text[old(k)] = new[k] /\ k # i
    <3>1. new[k][2] # 0
      BY <1>6, <2>0
    <3>. HIDE DEF old
    <3>. QED  BY <1>4, <1>6, <3>1
  <2>. HIDE DEF old
  <2>2. old(k) = old(j) + 1
    BY <1>1, <1>6, <2>1 DEF IsPageText
  <2>. QED  BY <1>22, <2>1, <2>2, Zenon DEF old
<1>7. IsPageText(new, p, n)
  BY <1>1, <1>5, <1>6 DEF IsPageText
<1>8. ASSUME NEW c \in ToSet(new), c # <<p, 0>> PROVE c \in ToSet(text)
  <2>1. PICK j \in 1 .. w : new[j] = c
    BY <1>1 DEF ToSet
  <2>2. c[2] # 0
    <3>1. c \in {p} \X (0 .. n)
      BY <1>1, <2>1
    <3>. QED  BY <1>8, <3>1
  <2>3. old(j) \in 1 .. m /\ text[old(j)] = c
    BY <1>4, <2>1, <2>2
  <2>. QED  BY <1>1, <2>3 DEF ToSet
<1>9. ASSUME NEW a \in q.from .. q.to, <<p, a>> \in ToSet(new) PROVE FALSE
  <2>1. PICK j \in 1 .. w : new[j] = <<p, a>>
    BY <1>1, <1>9 DEF ToSet
  <2>2. a # 0 /\ new[j][2] # 0
    BY <1>1, <2>1
  <2>3. /\ old(j) \in 1 .. m /\ text[old(j)] = <<p, a>>
        /\ old(j) < i \/ old(j) > i + l - 1
    BY <1>4, <2>1, <2>2
  <2>. DEFINE k == a - q.from + 1
  <2>4. k \in 1 .. l /\ q.from + k - 1 = a
    BY <1>21, SMTT(20)
  <2>. HIDE DEF k, old
  <2>5. text[i + k - 1] = <<p, a>> /\ i + k - 1 \in 1 .. m /\ i + k - 1 >= i /\ i + k - 1 <= i + l - 1
    <3>1. text[i + k - 1] = <<p, a>>
      BY <1>3, <2>4
    <3>. QED  BY <1>22, <2>4, <3>1
  <2>6. text[old(j)][2] # 0
    BY <2>2, <2>3
  <2>7. old(j) = i + k - 1
    <3>1. text[old(j)] = text[i + k - 1]
      BY <2>3, <2>5
    <3>. QED  BY <1>1, <2>3, <2>5, <2>6, <3>1, Zenon DEF IsPageText
  <2>8. i + k - 1 < i \/ i + k - 1 > i + l - 1
    BY <2>3, <2>7, Zenon
  <2>9. k \in Nat
    BY <1>20, <2>4
  <2>. QED  BY <1>20, <2>5, <2>8, <2>9, SMTT(20)
<1>10. ASSUME NEW a \in 1 .. n, <<p, a>> \in ToSet(text), a \notin q.from .. q.to
       PROVE  <<p, a>> \in ToSet(new)
  <2>1. PICK j \in 1 .. m : text[j] = <<p, a>>
    BY <1>1, <1>10 DEF ToSet
  <2>2. ~(j >= i /\ j <= i + l - 1)
    <3>. SUFFICES ASSUME j >= i, j <= i + l - 1 PROVE FALSE
      OBVIOUS
    <3>. DEFINE k == j - i + 1
    <3>1. k \in 1 .. l /\ i + k - 1 = j
      BY <1>22
    <3>. HIDE DEF k
    <3>2. <<p, a>> = <<p, q.from + k - 1>> /\ q.from + k - 1 \in q.from .. q.to
      BY <1>3, <2>1, <3>1
    <3>3. a = q.from + k - 1
      BY <3>2
    <3>. QED  BY <1>10, <3>2, <3>3
  <2>3. CASE j < i
    <3>1. j \in 1 .. i - 1 /\ j \in 1 .. w
      BY <1>22, <2>3
    <3>2. new[j] = <<p, a>>
      BY <1>2, <2>1, <3>1
    <3>. QED  BY <1>1, <3>1, <3>2 DEF ToSet
  <2>4. CASE j > i + l - 1
    <3>. DEFINE k == j - l + 1
    <3>1. k \in i + 1 .. w /\ k \in 1 .. w /\ k + l - 1 = j
      BY <1>22, <2>4
    <3>. HIDE DEF k
    <3>2. new[k] = <<p, a>>
      BY <1>2, <2>1, <3>1
    <3>. QED  BY <1>1, <3>1, <3>2 DEF ToSet
  <2>. QED  BY <1>20, <2>2, <2>3, <2>4, SMTT(20)
<1>11. IsGone(new, q)
  BY <1>9 DEF IsGone
<1>. QED  BY <1>7, <1>8, <1>10, <1>11 DEF QuoteIsTaken

\* A quote has been dealt with: its characters are gone, or one of them is that
\* an earlier quote has.
IsHandled(text, qs, j) ==
  \/ IsGone(text, qs[j])
  \/ \E i \in 1 .. j - 1 : /\ qs[i].page = qs[j].page
                           /\ \E a \in (qs[j].from .. qs[j].to) \cap (qs[i].from .. qs[i].to) :
                                <<qs[j].page, a>> \notin ToSet(text)

\* A page after the first k of the quotes: what it lacks, a mask stands for.
IsMasked(text, p, n, qs, k) ==
  /\ IsPageText(text, p, n)
  /\ \A a \in 1 .. n : <<p, a>> \notin ToSet(text) =>
       \E j \in 1 .. k : /\ qs[j].page = p /\ a \in qs[j].from .. qs[j].to
                         /\ IsGone(text, qs[j])
  /\ \A j \in 1 .. k : qs[j].page = p => IsHandled(text, qs, j)

LEMMA PageIsMasked ==
  ASSUME NEW p, NEW n \in Nat, NEW qs
  PROVE  LET text == [i \in 1 .. n |-> <<p, i>>] IN IsMasked(text, p, n, qs, 0)
<1>. DEFINE text == [i \in 1 .. n |-> <<p, i>>]
<1>1. DOMAIN text = 1 .. n /\ text = [i \in 1 .. n |-> text[i]]
      /\ \A i \in 1 .. n : text[i] = <<p, i>> /\ text[i] \in {p} \X (0 .. n)
  OBVIOUS
<1>. HIDE DEF text
<1>2. text \in Seq({p} \X (0 .. n))
  BY <1>1, FunctionIsSeq
<1>3. IsPageText(text, p, n)
  <2>1. \A i \in 1 .. n : text[i][2] = i /\ i \in Nat
    BY <1>1
  <2>. QED  BY <1>1, <1>2, <2>1 DEF IsPageText
<1>4. \A a \in 1 .. n : <<p, a>> \in ToSet(text)
  BY <1>1 DEF ToSet
<1>. QED  BY <1>3, <1>4 DEF IsMasked, text

LEMMA LessIsGone ==
  ASSUME NEW p, NEW text, NEW new, ToSet(new) \subseteq ToSet(text) \cup {<<p, 0>>},
         NEW q \in Spans, q.from \in 1 .. q.to, IsGone(text, q)
  PROVE  IsGone(new, q)
<1>. SUFFICES ASSUME NEW a \in q.from .. q.to, <<q.page, a>> \in ToSet(new) PROVE FALSE
  BY DEF IsGone
<1>1. a # 0 /\ <<q.page, a>> \notin ToSet(text)
  BY DEF Spans, IsGone
<1>2. <<q.page, a>> # <<p, 0>>
  BY <1>1
<1>. QED  BY <1>1, <1>2

LEMMA MaskStepOK ==
  ASSUME NEW p, NEW n \in Nat, NEW qs \in Seq(Spans), NEW k \in 1 .. Len(qs), NEW text,
         \A j \in 1 .. Len(qs) : /\ qs[j].from \in 1 .. qs[j].to
                                 /\ qs[j].page = p => qs[j].to \in 1 .. n,
         IsMasked(text, p, n, qs, k - 1)
  PROVE  IsMasked(MaskQuote(text, qs[k]), p, n, qs, k)
<1>. DEFINE q   == qs[k]
            new == MaskQuote(text, qs[k])
            C   == {p} \X (0 .. n)
<1>1. /\ Len(qs) \in Nat /\ q \in Spans /\ q.from \in 1 .. q.to
      /\ \A j \in 1 .. k : j \in 1 .. Len(qs) /\ qs[j] \in Spans
      /\ \A j \in 1 .. k : j = k \/ j \in 1 .. k - 1
      /\ \A j \in 1 .. k - 1 : j \in 1 .. k
  OBVIOUS
<1>2. text \in Seq(C) /\ IsPageText(text, p, n)
  BY DEF IsMasked, IsPageText
<1>3. Characters(q) # <<>> /\ Size(q) \in Nat \ {0}
      /\ Len(Characters(q)) = Size(q)
  BY <1>1, CharactersOf
<1>4. CASE Characters(q) \notin SubSeqs(text)
  <2>1. new = text
    BY <1>4 DEF MaskQuote, ReplaceFirstSubSeq
  <2>2. ASSUME q.page = p PROVE IsHandled(text, qs, k)
    <3>1. PICK a \in q.from .. q.to : <<p, a>> \notin ToSet(text)
      <4>1. q.to \in 1 .. n
        BY <2>2
      <4>. HIDE DEF q
      <4>. QED  BY <1>1, <1>2, <1>4, <2>2, <4>1, NeighboursArePart
    <3>2. a \in 1 .. n
      <4>1. q.from \in 1 .. q.to /\ q.to \in 1 .. n
        BY <2>2
      <4>. HIDE DEF q
      <4>. QED  BY <4>1
    <3>3. PICK i \in 1 .. k - 1 : qs[i].page = p /\ a \in qs[i].from .. qs[i].to
      BY <3>1, <3>2 DEF IsMasked
    <3>. QED  BY <2>2, <3>1, <3>3 DEF IsHandled
  <2>. HIDE DEF q, new
  <2>3. \A j \in 1 .. k : qs[j].page = p => IsHandled(text, qs, j)
    BY <1>1, <2>2 DEF IsMasked, q
  <2>4. \A a \in 1 .. n : <<p, a>> \notin ToSet(text) =>
          \E j \in 1 .. k : /\ qs[j].page = p /\ a \in qs[j].from .. qs[j].to
                            /\ IsGone(text, qs[j])
    BY <1>1 DEF IsMasked
  <2>. QED  BY <1>2, <2>1, <2>3, <2>4 DEF IsMasked, new
<1>5. CASE Characters(q) \in SubSeqs(text)
  <2>1. q.page = p
    <3>1. PICK i \in 1 .. Len(text), j \in 1 .. Len(text) :
            i <= j /\ Characters(q) = SubSeq(text, i, j)
      BY <1>2, <1>3, <1>5, PartsAreStretches
    <3>. DEFINE m == Len(text)
    <3>6. m \in Nat /\ i \in 1 .. m /\ j \in 1 .. m
      BY <1>2
    <3>. HIDE DEF m
    <3>7. i \in 1 .. m + 1 /\ j \in i - 1 .. m /\ 1 \in 1 .. j - i + 1 /\ i + 1 - 1 = i
      BY <3>1, <3>6
    <3>2. i \in 1 .. Len(text) + 1 /\ j \in i - 1 .. Len(text) /\ 1 \in 1 .. j - i + 1
          /\ i + 1 - 1 = i
      BY <3>7 DEF m
    <3>3. Characters(q)[1] = text[i]
      <4>1. SubSeq(text, i, j)[1] = text[i + 1 - 1]
        BY <1>2, <3>2, SubSeqFacts
      <4>. QED  BY <3>1, <3>2, <4>1
    <3>4. text[i] \in C
      BY <1>2
    <3>5. Characters(q)[1] = <<q.page, q.from + 1 - 1>>
      <4>1. 1 \in 1 .. Size(q)
        BY <1>3
      <4>. QED  BY <1>1, <4>1, CharactersOf
    <3>. HIDE DEF q
    <3>. QED  BY <3>3, <3>4, <3>5
  <2>2. q.to \in 1 .. n
    BY <2>1
  <2>3. MaskedAs(q.page) = <<p, 0>> /\ <<p, 0>> \in C
    BY <2>1 DEF MaskedAs
  <2>. HIDE DEF q, C
  <2>4. /\ new \in Seq(C)
        /\ \E i \in 1 .. Len(text), l \in Nat :
             /\ IsReplaced(new, text, i, l, <<p, 0>>) /\ l = Size(q)
             /\ \A j \in 1 .. l : text[i + j - 1] = Characters(q)[j]
    <3>1. MaskedAs(q.page) \in C
      BY <2>3
    <3>2. /\ MaskQuote(text, q) \in Seq(C)
          /\ \E i \in 1 .. Len(text), l \in Nat :
               /\ IsReplaced(MaskQuote(text, q), text, i, l, MaskedAs(q.page))
               /\ l = Len(Characters(q))
               /\ \A j \in 1 .. l : text[i + j - 1] = Characters(q)[j]
      BY <1>2, <1>3, <1>5, <3>1, MaskReplaces
    <3>3. new = MaskQuote(text, q)
      BY DEF q
    <3>. HIDE DEF new
    <3>. QED  BY <1>3, <2>3, <3>2, <3>3
  <2>. HIDE DEF new
  <2>5. /\ IsPageText(new, p, n) /\ IsGone(new, q)
        /\ ToSet(new) \subseteq ToSet(text) \cup {<<p, 0>>}
        /\ \A a \in 1 .. n : <<p, a>> \in ToSet(text) /\ a \notin q.from .. q.to =>
                               <<p, a>> \in ToSet(new)
    <3>1. PICK i \in 1 .. Len(text), l \in Nat :
            /\ IsReplaced(new, text, i, l, <<p, 0>>) /\ l = Size(q)
            /\ \A j \in 1 .. l : text[i + j - 1] = Characters(q)[j]
      BY <2>4
    <3>2. QuoteIsTaken(new, text, p, n, q)
      <4>1. new \in Seq({p} \X (0 .. n)) /\ q \in Spans /\ q.from \in 1 .. q.to
        BY <1>1, <2>4 DEF C
      <4>2. l = Size(q) /\ \A j \in 1 .. l : text[i + j - 1] = Characters(q)[j]
        BY <3>1
      <4>. QED  BY <1>2, <2>1, <2>2, <3>1, <4>1, <4>2, MaskTakesQuote
    <3>. QED  BY <3>2 DEF QuoteIsTaken
  <2>6. ASSUME NEW a \in 1 .. n, <<p, a>> \notin ToSet(new)
        PROVE  \E j \in 1 .. k : /\ qs[j].page = p /\ a \in qs[j].from .. qs[j].to
                                 /\ IsGone(new, qs[j])
    <3>1. CASE a \in q.from .. q.to
      <4>1. k \in 1 .. k
        BY <1>1
      <4>. QED  BY <2>1, <2>5, <3>1, <4>1 DEF q
    <3>2. CASE a \notin q.from .. q.to
      <4>1. PICK j \in 1 .. k - 1 : /\ qs[j].page = p /\ a \in qs[j].from .. qs[j].to
                                    /\ IsGone(text, qs[j])
        BY <2>5, <2>6, <3>2 DEF IsMasked
      <4>2. j \in 1 .. k /\ qs[j] \in Spans /\ qs[j].from \in 1 .. qs[j].to
        BY <1>1
      <4>3. IsGone(new, qs[j])
        BY <2>5, <4>1, <4>2, LessIsGone
      <4>. QED  BY <4>1, <4>2, <4>3
    <3>. QED  BY <3>1, <3>2
  <2>7. ASSUME NEW j \in 1 .. k, qs[j].page = p PROVE IsHandled(new, qs, j)
    <3>1. CASE j = k
      BY <2>5, <3>1 DEF IsHandled, q
    <3>2. CASE j # k
      <4>1. j \in 1 .. k - 1 /\ qs[j] \in Spans /\ qs[j].from \in 1 .. qs[j].to
        BY <1>1, <3>2
      <4>2. IsHandled(text, qs, j)
        BY <2>7, <4>1 DEF IsMasked
      <4>3. CASE IsGone(text, qs[j])
        <5>1. IsGone(new, qs[j])
          BY <2>5, <4>1, <4>3, LessIsGone
        <5>. QED  BY <5>1 DEF IsHandled
      <4>4. CASE ~IsGone(text, qs[j])
        <5>0. PICK i \in 1 .. j - 1 :
                /\ qs[i].page = qs[j].page
                /\ \E a \in (qs[j].from .. qs[j].to) \cap (qs[i].from .. qs[i].to) :
                     <<qs[j].page, a>> \notin ToSet(text)
          BY <4>2, <4>4 DEF IsHandled
        <5>1. PICK a \in (qs[j].from .. qs[j].to) \cap (qs[i].from .. qs[i].to) :
                <<qs[j].page, a>> \notin ToSet(text)
          BY <5>0
        <5>2. a # 0
          <6>1. qs[j].from \in Nat /\ qs[j].to \in Int /\ 1 <= qs[j].from
            BY <4>1, SMTT(20) DEF Spans
          <6>2. a \in qs[j].from .. qs[j].to
            OBVIOUS
          <6>. QED  BY <6>1, <6>2
        <5>3. <<qs[j].page, a>> # <<p, 0>>
          BY <5>2
        <5>4. <<qs[j].page, a>> \notin ToSet(new)
          BY <2>5, <5>1, <5>3
        <5>. QED  BY <5>0, <5>1, <5>4 DEF IsHandled
      <4>. QED  BY <4>3, <4>4
    <3>. QED  BY <3>1, <3>2
  <2>8. IsMasked(new, p, n, qs, k)
    BY <2>5, <2>6, <2>7 DEF IsMasked
  <2>. QED  BY <2>8 DEF new
<1>. QED  BY <1>4, <1>5

MaskStep(given, text, span) == MaskQuote(text, span)

Masking == INSTANCE FoldLemmas WITH Op <- MaskStep

LEMMA MaskingIsFold ==
  ASSUME NEW text, NEW findings
  PROVE  MaskFlaggedText(text, findings) = Masking!Fold(0, text, ByLength(Quotes(findings)))
BY DEF MaskFlaggedText, FoldLeft, MapThenFoldSet, Masking!Fold, Max, Masking!Max, MaskStep

LEMMA PageOfDocument ==
  ASSUME NEW d \in Documents, NEW p \in DOMAIN d.pages
  PROVE  /\ Len(Page(d, p)) \in Nat /\ p \in Nat
         /\ PageText(d, p) = [i \in 1 .. Len(Page(d, p)) |-> <<p, i>>]
<1>. DEFINE n == Len(Page(d, p))
<1>1. n \in Nat /\ p \in Nat
  <2>1. d.pages \in Seq(Seq({"a", "A", ".", "/"}))
    BY DocumentsAssumption
  <2>. QED  BY <2>1 DEF Page
<1>. HIDE DEF n
<1>2. Size(SpanOf(p, 1, n)) = n /\ SpanOf(p, 1, n).page = p /\ SpanOf(p, 1, n).from = 1
  BY <1>1 DEF Size, SpanOf
<1>3. \A i \in 1 .. n : 1 + i - 1 = i
  BY <1>1
<1>4. PageText(d, p) = [i \in 1 .. n |-> <<p, 1 + i - 1>>]
  BY <1>2 DEF PageText, Characters, n
<1>. QED  BY <1>1, <1>3, <1>4 DEF n

\* All quotes, on one page.
LEMMA PageAfterMasks ==
  ASSUME NEW d \in Documents, NEW findings, AreQuotes(d, Quotes(findings)),
         NEW p \in DOMAIN d.pages
  PROVE  LET qs == ByLength(Quotes(findings))
         IN IsMasked(MaskFlaggedText(PageText(d, p), findings), p, Len(Page(d, p)), qs, Len(qs))
<1>. DEFINE qs   == ByLength(Quotes(findings))
            text == PageText(d, p)
            n    == Len(Page(d, p))
            m    == Len(qs)
<1>1. n \in Nat /\ IsMasked(text, p, n, qs, 0)
  BY PageOfDocument, PageIsMasked
<1>2. /\ qs \in Seq(Quotes(findings)) /\ m \in Nat /\ DOMAIN qs = 1 .. m
  BY QuotesByLength DEF AreQuotes
<1>3. /\ qs \in Seq(Spans)
      /\ \A j \in 1 .. m : /\ qs[j].from \in 1 .. qs[j].to
                           /\ qs[j].page = p => qs[j].to \in 1 .. n
  BY <1>2 DEF AreQuotes
<1>4. MaskFlaggedText(text, findings) = Masking!Fold(0, text, qs)
  BY MaskingIsFold
<1>. HIDE DEF qs, text, n
<1>5. PICK F : Masking!IsFold(F, 0, text, qs)
  BY <1>2, Masking!FoldHasSteps
<1>6. /\ F[0] = text /\ \A k \in 1 .. m : F[k] = MaskQuote(F[k - 1], qs[k])
      /\ MaskFlaggedText(text, findings) = F[m]
  BY <1>4, <1>5 DEF Masking!IsFold, MaskStep
<1>. DEFINE T == {k \in 0 .. m : IsMasked(F[k], p, n, qs, k)}
<1>7. 0 \in T
  BY <1>1, <1>2, <1>6
<1>8. ASSUME NEW k \in 1 .. m, k - 1 \in T PROVE k \in T
  <2>1. IsMasked(F[k - 1], p, n, qs, k - 1)
    BY <1>8
  <2>2. IsMasked(MaskQuote(F[k - 1], qs[k]), p, n, qs, k)
    BY <1>1, <1>3, <2>1, MaskStepOK
  <2>3. k \in 0 .. m
    BY <1>2
  <2>. QED  BY <1>6, <2>2, <2>3
<1>9. m \in T
  <2>. HIDE DEF T, m
  <2>1. \A k \in 0 .. m : k \in T
    BY <1>2, <1>7, <1>8, Parsing!RangeInduction
  <2>. QED  BY <1>2, <2>1
<1>. QED  BY <1>6, <1>9 DEF qs, text, n

\* The characters that are left on the pages of a document.
LeftOn(d, findings, p) == ToSet(MaskFlaggedText(PageText(d, p), findings))

Left(d, findings) == UNION {LeftOn(d, findings, p) : p \in DOMAIN d.pages}

LEMMA LeftIsOnPage ==
  ASSUME NEW d \in Documents, NEW findings, AreQuotes(d, Quotes(findings)),
         NEW p \in DOMAIN d.pages
  PROVE  /\ MaskFlaggedText(PageText(d, p), findings) \in Seq(LeftOn(d, findings, p))
         /\ \A c \in LeftOn(d, findings, p) : c \in {p} \X (0 .. Len(Page(d, p)))
<1>. DEFINE text == MaskFlaggedText(PageText(d, p), findings)
            C    == {p} \X (0 .. Len(Page(d, p)))
<1>1. text \in Seq(C)
  BY PageAfterMasks DEF IsMasked, IsPageText
<1>. HIDE DEF text, C
<1>2. Len(text) \in Nat /\ DOMAIN text = 1 .. Len(text) /\ \A i \in 1 .. Len(text) : text[i] \in C
  BY <1>1
<1>3. \A i \in 1 .. Len(text) : text[i] \in ToSet(text)
  BY <1>2 DEF ToSet
<1>4. text = [i \in 1 .. Len(text) |-> text[i]]
  BY <1>1
<1>5. text \in Seq(ToSet(text))
  BY <1>2, <1>3, <1>4, FunctionIsSeq
<1>6. \A c \in ToSet(text) : c \in C
  BY <1>2 DEF ToSet
<1>. QED  BY <1>5, <1>6 DEF LeftOn, text, C

\* A text of characters that are left shows no quote, and a part of one only
\* where another quote has cut it.
LEMMA LeftHides ==
  ASSUME NEW d \in Documents, NEW findings, AreQuotes(d, Quotes(findings)),
         NEW X, NEW text \in Seq(X), ToSet(text) \subseteq Left(d, findings)
  PROVE  Hides(text, Quotes(findings))
<1>. DEFINE quotes == Quotes(findings)
            qs     == ByLength(quotes)
<1>. SUFFICES ASSUME NEW q \in quotes
              PROVE  /\ Characters(q) \notin SubSeqs(text)
                     /\ ToSet(Characters(q)) \cap ToSet(text) # {} =>
                          \E other \in quotes \ {q} : Overlap(q, other) /\ Size(other) >= Size(q)
  BY DEF Hides
<1>1. /\ q \in Spans /\ q.page \in DOMAIN d.pages /\ q.from \in 1 .. q.to
      /\ q.to \in 1 .. Len(Page(d, q.page))
  BY DEF AreQuotes
<1>. DEFINE p == q.page
            n == Len(Page(d, p))
            m == Len(qs)
<1>2. /\ qs \in Seq(quotes) /\ m \in Nat /\ DOMAIN qs = 1 .. m
      /\ \A x \in quotes : \E r \in 1 .. m : qs[r] = x
      /\ \A r, t \in 1 .. m : r < t => qs[r] # qs[t] /\ Size(qs[r]) >= Size(qs[t])
  BY QuotesByLength DEF AreQuotes
<1>3. IsMasked(MaskFlaggedText(PageText(d, p), findings), p, n, qs, m)
  BY <1>1, PageAfterMasks
<1>. DEFINE page == MaskFlaggedText(PageText(d, p), findings)
            C    == LeftOn(d, findings, p)
<1>4. ASSUME NEW a \in q.from .. q.to, <<p, a>> \in ToSet(text) PROVE <<p, a>> \in C
  <2>1. PICK r \in DOMAIN d.pages : <<p, a>> \in LeftOn(d, findings, r)
    BY <1>4 DEF Left
  <2>2. \A c \in LeftOn(d, findings, r) : c \in {r} \X (0 .. Len(Page(d, r)))
    BY LeftIsOnPage
  <2>. HIDE DEF p
  <2>3. r = p
    BY <2>1, <2>2
  <2>. QED  BY <2>1, <2>3
<1>5. C = ToSet(page)
  BY DEF LeftOn
<1>. HIDE DEF quotes, qs, n, m, C, page
<1>6. PICK j \in 1 .. m : qs[j] = q
  BY <1>2
<1>7. IsHandled(page, qs, j)
  BY <1>3, <1>6 DEF IsMasked, page
<1>8. /\ Size(q) \in Nat \ {0} /\ Len(Characters(q)) = Size(q) /\ Characters(q) # <<>>
      /\ \A k \in 1 .. Size(q) : Characters(q)[k] = <<p, q.from + k - 1>> /\ q.from + k - 1 \in q.from .. q.to
      /\ Characters(q) \in Seq({p} \X (1 .. q.to))
      /\ ToSet(Characters(q)) = {<<p, a>> : a \in q.from .. q.to}
  BY <1>1, CharactersOf
<1>9. \E a \in q.from .. q.to : <<p, a>> \notin C
  <2>1. CASE IsGone(page, q)
    <3>1. q.from \in q.from .. q.to
      BY <1>1 DEF Spans
    <3>. QED  BY <1>5, <2>1, <3>1 DEF IsGone
  <2>2. CASE ~IsGone(page, q)
    BY <1>5, <1>6, <1>7, <2>2 DEF IsHandled
  <2>. QED  BY <2>1, <2>2
<1>10. Characters(q) \notin SubSeqs(text)
  <2>. SUFFICES ASSUME Characters(q) \in SubSeqs(text) PROVE FALSE
    OBVIOUS
  <2>1. PICK a \in q.from .. q.to : <<p, a>> \notin C
    BY <1>9
  <2>2. PICK f \in 1 .. Len(text), t \in 1 .. Len(text) : f <= t /\ Characters(q) = SubSeq(text, f, t)
    BY <1>8, PartsAreStretches
  <2>3. \A c \in ToSet(SubSeq(text, f, t)) : c \in ToSet(text)
    <3>. DEFINE w == Len(text)
                s == SubSeq(text, f, t)
    <3>1. w \in Nat /\ DOMAIN text = 1 .. w /\ f \in 1 .. w /\ t \in 1 .. w
      OBVIOUS
    <3>2. f \in 1 .. w + 1 /\ t \in f - 1 .. w
      BY <2>2, <3>1
    <3>3. DOMAIN s = 1 .. t - f + 1 /\ \A k \in 1 .. t - f + 1 : s[k] = text[f + k - 1]
      BY <3>2, SubSeqFacts
    <3>. HIDE DEF w, s
    <3>4. \A k \in 1 .. t - f + 1 : f + k - 1 \in 1 .. w
      BY <3>1
    <3>5. \A c \in ToSet(s) : c \in ToSet(text)
      BY <3>1, <3>3, <3>4 DEF ToSet
    <3>. QED  BY <3>5 DEF s
  <2>4. <<p, a>> \in ToSet(Characters(q))
    BY <1>8
  <2>. QED  BY <1>4, <2>1, <2>2, <2>3, <2>4
<1>11. ASSUME ToSet(Characters(q)) \cap ToSet(text) # {}
       PROVE  \E other \in quotes \ {q} : Overlap(q, other) /\ Size(other) >= Size(q)
  <2>1. PICK b \in q.from .. q.to : <<p, b>> \in C
    BY <1>4, <1>8, <1>11
  <2>2. ~IsGone(page, q)
    BY <1>5, <2>1 DEF IsGone
  <2>3. PICK i \in 1 .. j - 1 :
          /\ qs[i].page = p
          /\ \E a \in (q.from .. q.to) \cap (qs[i].from .. qs[i].to) : <<p, a>> \notin ToSet(page)
    BY <1>6, <1>7, <2>2 DEF IsHandled
  <2>4. PICK a \in q.from .. q.to : a \in qs[i].from .. qs[i].to
    BY <2>3
  <2>5. i \in 1 .. m /\ i < j /\ j \in 1 .. m
    BY <1>2
  <2>. DEFINE other == qs[i]
  <2>6. other \in quotes /\ other # q /\ Size(other) >= Size(q)
    BY <1>2, <1>6, <2>5
  <2>7. other \in Spans
    BY <2>6 DEF AreQuotes, quotes
  <2>8. Overlap(q, other)
    <3>1. q.from <= a /\ a <= q.to /\ other.from <= a /\ a <= other.to
      BY <2>4
    <3>2. a \in Int /\ q.from \in Int /\ q.to \in Int /\ other.from \in Int /\ other.to \in Int
      BY <1>1, <2>4, <2>7 DEF Spans
    <3>. HIDE DEF other
    <3>3. q.from <= other.to /\ other.from <= q.to
      BY <3>1, <3>2
    <3>. QED  BY <2>3, <3>3 DEF Overlap, other
  <2>. QED  BY <2>6, <2>8
<1>. QED  BY <1>10, <1>11

-----------------------------------------------------------------------------
(* Sections and chunks, of whatever characters C the pages have. *)


\* A sequence of which some elements are left out, by a flattening.
LEMMA FilterIsSeq ==
  ASSUME NEW X, NEW s \in Seq(X), NEW f, f = [i \in DOMAIN s |-> f[i]],
         \A i \in DOMAIN s : f[i] \in {<<>>, <<s[i]>>}
  PROVE  FlattenSeq(f) \in Seq(X)
<1>1. Len(s) \in Nat /\ DOMAIN s = 1 .. Len(s) /\ \A i \in 1 .. Len(s) : s[i] \in X
  OBVIOUS
<1>2. \A i \in 1 .. Len(s) : f[i] \in Seq(X)
  <2>1. \A x \in X : <<x>> \in Seq(X)
    OBVIOUS
  <2>2. <<>> \in Seq(X)
    OBVIOUS
  <2>. QED  BY <1>1, <2>1, <2>2
<1>3. f \in Seq(Seq(X))
  BY <1>1, <1>2, FunctionIsSeq
<1>. QED  BY <1>3, FlattenHolds

ParagraphStep(d, pars, char) ==
  IF Kind(d, char) = "/" THEN Append(pars, <<>>)
  ELSE Append(Front(pars), Append(Last(pars), char))

Breaking == INSTANCE FoldLemmas WITH Op <- ParagraphStep

LEMMA ParagraphsKeep ==
  ASSUME NEW C, NEW d, NEW text \in Seq(C)
  PROVE  Paragraphs(d, text) \in Seq(Seq(C))
<1>. DEFINE X     == {s \in Seq(Seq(C)) : s # <<>>}
            start == <<<<>>>>
            all   == Breaking!Fold(d, start, text)
            f     == [i \in DOMAIN all |-> IF all[i] = <<>> THEN <<>> ELSE <<all[i]>>]
<1>1. Paragraphs(d, text) = FlattenSeq(f)
  BY DEF Paragraphs, FoldLeft, MapThenFoldSet, Breaking!Fold, Max, Breaking!Max, ParagraphStep
<1>2. start \in X
  <2>1. start = Append(<<>>, <<>>) /\ <<>> \in Seq(C) /\ <<>> \in Seq(Seq(C))
    OBVIOUS
  <2>2. Append(<<>>, <<>>) \in Seq(Seq(C)) /\ Append(<<>>, <<>>) # <<>>
    BY <2>1, AppendIsSome
  <2>. QED  BY <2>1, <2>2
<1>3. ASSUME NEW pars \in X, NEW char \in C PROVE ParagraphStep(d, pars, char) \in X
  <2>1. CASE Kind(d, char) = "/"
    <3>1. <<>> \in Seq(C)
      OBVIOUS
    <3>2. Append(pars, <<>>) \in Seq(Seq(C)) /\ Append(pars, <<>>) # <<>>
      BY <3>1, AppendIsSome
    <3>. QED  BY <2>1, <3>2 DEF ParagraphStep
  <2>2. CASE Kind(d, char) # "/"
    <3>1. Front(pars) \in Seq(Seq(C)) /\ Last(pars) \in Seq(C)
      BY FrontAndLast
    <3>2. Append(Last(pars), char) \in Seq(C)
      BY <3>1, AppendIsSome
    <3>3. /\ Append(Front(pars), Append(Last(pars), char)) \in Seq(Seq(C))
          /\ Append(Front(pars), Append(Last(pars), char)) # <<>>
      BY <3>1, <3>2, AppendIsSome
    <3>. QED  BY <2>2, <3>3 DEF ParagraphStep
  <2>. QED  BY <2>1, <2>2
<1>. HIDE DEF X, start
<1>4. all \in X
  BY <1>2, <1>3, Breaking!FoldKeeps
<1>. HIDE DEF all
<1>5. all \in Seq(Seq(C))
  BY <1>4 DEF X
<1>6. f = [i \in DOMAIN all |-> f[i]] /\ \A i \in DOMAIN all : f[i] \in {<<>>, <<all[i]>>}
  OBVIOUS
<1>. HIDE DEF f
<1>. QED  BY <1>1, <1>5, <1>6, FilterIsSeq

SectionType(C) == [title : Seq(C), paragraphs : Seq(Seq(C))]

SectionStep(d, sections, par) ==
  IF IsHeading(d, par) THEN Append(sections, [title |-> par, paragraphs |-> <<>>])
  ELSE Append(Front(sections), [Last(sections) EXCEPT !.paragraphs = Append(@, par)])

Sectioning == INSTANCE FoldLemmas WITH Op <- SectionStep

LEMMA SectionsKeep ==
  ASSUME NEW C, NEW d, NEW pages, NEW n \in Nat, pages = [p \in 1 .. n |-> pages[p]],
         \A p \in 1 .. n : pages[p] \in Seq(C)
  PROVE  SplitSections(d, pages) \in Seq(SectionType(C))
<1>. DEFINE X     == {s \in Seq(SectionType(C)) : s # <<>>}
            start == <<[title |-> <<>>, paragraphs |-> <<>>]>>
            parts == [p \in DOMAIN pages |-> Paragraphs(d, pages[p])]
            pars  == FlattenSeq(parts)
            all   == Sectioning!Fold(d, start, pars)
            f     == [i \in DOMAIN all |-> IF all[i].paragraphs = <<>> THEN <<>> ELSE <<all[i]>>]
<1>1. SplitSections(d, pages) = FlattenSeq(f)
  BY DEF SplitSections, FoldLeft, MapThenFoldSet, Sectioning!Fold, Max, Sectioning!Max, SectionStep
<1>2. pars \in Seq(Seq(C))
  <2>1. /\ parts = [p \in 1 .. n |-> parts[p]]
        /\ \A p \in 1 .. n : parts[p] = Paragraphs(d, pages[p])
    OBVIOUS
  <2>2. \A p \in 1 .. n : parts[p] \in Seq(Seq(C))
    BY <2>1, ParagraphsKeep
  <2>. HIDE DEF parts
  <2>3. parts \in Seq(Seq(Seq(C)))
    BY <2>1, <2>2, FunctionIsSeq
  <2>. QED  BY <2>3, FlattenHolds
<1>. HIDE DEF pars
<1>3. \A par \in Seq(C) : [title |-> par, paragraphs |-> <<>>] \in SectionType(C)
  BY DEF SectionType
<1>4. start \in X
  <2>. DEFINE none == [title |-> <<>>, paragraphs |-> <<>>]
  <2>1. none \in SectionType(C)
    <3>1. <<>> \in Seq(C)
      OBVIOUS
    <3>. QED  BY <1>3, <3>1
  <2>. HIDE DEF none
  <2>2. <<none>> = Append(<<>>, none) /\ <<>> \in Seq(SectionType(C))
    OBVIOUS
  <2>3. Append(<<>>, none) \in Seq(SectionType(C)) /\ Append(<<>>, none) # <<>>
    BY <2>1, <2>2, AppendIsSome
  <2>. QED  BY <2>2, <2>3 DEF none
<1>5. ASSUME NEW sections \in X, NEW par \in Seq(C) PROVE SectionStep(d, sections, par) \in X
  <2>1. CASE IsHeading(d, par)
    <3>. DEFINE new == [title |-> par, paragraphs |-> <<>>]
    <3>1. new \in SectionType(C)
      BY <1>3
    <3>. HIDE DEF new
    <3>2. Append(sections, new) \in Seq(SectionType(C)) /\ Append(sections, new) # <<>>
      BY <3>1, AppendIsSome
    <3>. QED  BY <2>1, <3>2 DEF SectionStep, new
  <2>2. CASE ~IsHeading(d, par)
    <3>. DEFINE last == Last(sections)
                new  == [last EXCEPT !.paragraphs = Append(@, par)]
    <3>1. Front(sections) \in Seq(SectionType(C)) /\ last \in SectionType(C)
      BY FrontAndLast
    <3>. HIDE DEF last
    <3>2. Append(last.paragraphs, par) \in Seq(Seq(C))
      BY <3>1, AppendIsSome DEF SectionType
    <3>3. new \in SectionType(C)
      BY <3>1, <3>2 DEF SectionType
    <3>. HIDE DEF new
    <3>4. /\ Append(Front(sections), new) \in Seq(SectionType(C))
          /\ Append(Front(sections), new) # <<>>
      BY <3>1, <3>3, AppendIsSome
    <3>. QED  BY <2>2, <3>4 DEF SectionStep, new, last
  <2>. QED  BY <2>1, <2>2
<1>. HIDE DEF X, start
<1>6. all \in X
  BY <1>2, <1>4, <1>5, Sectioning!FoldKeeps
<1>. HIDE DEF all
<1>7. all \in Seq(SectionType(C))
  BY <1>6 DEF X
<1>8. f = [i \in DOMAIN all |-> f[i]] /\ \A i \in DOMAIN all : f[i] \in {<<>>, <<all[i]>>}
  OBVIOUS
<1>. HIDE DEF f
<1>. QED  BY <1>1, <1>7, <1>8, FilterIsSeq

LEMMA PartIsText ==
  ASSUME NEW C, NEW s \in Seq(C), NEW a \in Nat, 1 <= a, NEW b \in Int, b <= Len(s)
  PROVE  SubSeq(s, a, b) \in Seq(C)
<1>. DEFINE n == Len(s)
<1>1. n \in Nat /\ \A i \in 1 .. n : s[i] \in C
  OBVIOUS
<1>2. b <= n
  OBVIOUS
<1>. HIDE DEF n
<1>3. \A i \in a .. b : s[i] \in C
  BY <1>1, <1>2
<1>. QED  BY <1>3, SubSeqProperties

LEMMA HardSplitKeeps ==
  ASSUME NEW C, NEW par \in Seq(C)
  PROVE  HardSplit(par) \in Seq(Seq(C))
<1>. DEFINE length  == Len(par)
            step    == TARGET_CHARS
            n       == (length + step - 1) \div step
            from(i) == (i - 1) * step + 1
            to(i)   == Min({length, i * step})
            pieces  == [i \in 1 .. n |-> SubSeq(par, from(i), to(i))]
<1>1. length \in Nat /\ step \in Nat \ {0}
  BY ChunkerAssumption
<1>2. HardSplit(par) = pieces
  BY DEF HardSplit
<1>3. n \in Nat
  <2>. HIDE DEF length, step
  <2>. QED  BY <1>1
<1>. HIDE DEF n, step
<1>4. ASSUME NEW i \in 1 .. n PROVE SubSeq(par, from(i), to(i)) \in Seq(C)
  <2>. DEFINE at   == (i - 1) * step
              till == i * step
  <2>1. at \in Nat /\ till \in Nat
    BY <1>1, <1>3
  <2>. HIDE DEF at, till, length
  <2>2. from(i) = at + 1 /\ to(i) = IF length <= till THEN length ELSE till
    BY <1>1, <2>1, LesserOfTwo DEF at, till
  <2>3. from(i) \in Nat /\ 1 <= from(i) /\ to(i) \in Int /\ to(i) <= length
    BY <1>1, <2>1, <2>2
  <2>. HIDE DEF from, to
  <2>. QED  BY <2>3, PartIsText DEF length
<1>5. pieces = [i \in 1 .. n |-> pieces[i]] /\ \A i \in 1 .. n : pieces[i] = SubSeq(par, from(i), to(i))
  BY Zenon
<1>. HIDE DEF pieces, from, to
<1>6. pieces \in Seq(Seq(C))
  BY <1>3, <1>4, <1>5, FunctionIsSeq
<1>. QED  BY <1>2, <1>6

LEMMA OverlapKeeps ==
  ASSUME NEW C, NEW piece \in Seq(C)
  PROVE  OverlapOf(piece) \in Seq(Seq(C))
<1>1. <<piece>> \in Seq(Seq(C)) /\ <<>> \in Seq(Seq(C)) /\ Len(piece) \in Nat
  OBVIOUS
<1>2. CASE Len(piece) <= OVERLAP_CHARS \/ OVERLAP_CHARS = 0
  BY <1>1, <1>2 DEF OverlapOf
<1>3. CASE ~(Len(piece) <= OVERLAP_CHARS) /\ OVERLAP_CHARS # 0
  <2>. DEFINE n   == Len(piece)
              cut == n - OVERLAP_CHARS + 1
  <2>1. n \in Nat /\ cut \in Nat /\ 1 <= cut /\ n \in Int /\ n <= n
    BY <1>1, <1>3, ChunkerAssumption
  <2>2. SubSeq(piece, cut, n) \in Seq(C)
    <3>. HIDE DEF cut
    <3>. QED  BY <2>1, PartIsText
  <2>. DEFINE end == SubSeq(piece, cut, n)
  <2>. HIDE DEF end
  <2>3. <<end>> \in Seq(Seq(C))
    BY <2>2 DEF end
  <2>. QED  BY <1>3, <2>3 DEF OverlapOf, end
<1>. QED  BY <1>2, <1>3

\* The chunks that can be made of characters of C.
ChunkType(C) ==
  {ChunkOf(section, buffer) : section \in SectionType(C), buffer \in Seq(Seq(C)) \ {<<>>}}

LEMMA ChunkIsText ==
  ASSUME NEW C, NEW chunk \in ChunkType(C)
  PROVE  chunk.section \in Seq(C) /\ chunk.text \in Seq(C) /\ chunk.breaks \in Nat
<1>1. PICK section \in SectionType(C), buffer \in Seq(Seq(C)) \ {<<>>} :
        chunk = ChunkOf(section, buffer)
  BY DEF ChunkType
<1>2. chunk.section = section.title /\ chunk.text = FlattenSeq(buffer)
  BY <1>1 DEF ChunkOf
<1>3. FlattenSeq(buffer) \in Seq(C)
  BY FlattenHolds
<1>4. Len(buffer) \in Nat \ {0}
  BY EmptySeq
<1>5. chunk.breaks = Len(buffer) - 1 + (IF section.title = <<>> THEN 0 ELSE 3)
  BY <1>1 DEF ChunkOf
<1>6. chunk.breaks \in Nat
  BY <1>4, <1>5
<1>. QED  BY <1>2, <1>3, <1>6 DEF SectionType

PieceStep(section, acc, piece) == AddPiece(section, acc, piece)

Packing == INSTANCE FoldLemmas WITH Op <- PieceStep

LEMMA ChunkSectionKeeps ==
  ASSUME NEW C, NEW section \in SectionType(C)
  PROVE  ChunkSection(section) \in Seq(ChunkType(C))
<1>. DEFINE X      == [chunks : Seq(ChunkType(C)), buffer : Seq(Seq(C))]
            start  == [chunks |-> <<>>, buffer |-> <<>>]
            parts  == [i \in DOMAIN section.paragraphs |-> HardSplit(section.paragraphs[i])]
            pieces == FlattenSeq(parts)
            acc    == Packing!Fold(section, start, pieces)
<1>1. ChunkSection(section) = IF acc.buffer = <<>> THEN acc.chunks
                              ELSE Append(acc.chunks, ChunkOf(section, acc.buffer))
  BY DEF ChunkSection, FoldLeft, MapThenFoldSet, Packing!Fold, Max, Packing!Max, PieceStep
<1>2. pieces \in Seq(Seq(C))
  <2>. DEFINE pars == section.paragraphs
              n    == Len(pars)
  <2>1. pars \in Seq(Seq(C))
    BY DEF SectionType
  <2>. HIDE DEF pars
  <2>2. n \in Nat /\ DOMAIN pars = 1 .. n /\ \A i \in 1 .. n : pars[i] \in Seq(C)
    BY <2>1
  <2>. HIDE DEF n
  <2>3. parts = [i \in 1 .. n |-> parts[i]] /\ \A i \in 1 .. n : parts[i] = HardSplit(pars[i])
    BY <2>2 DEF pars
  <2>4. \A i \in 1 .. n : parts[i] \in Seq(Seq(C))
    BY <2>2, <2>3, HardSplitKeeps
  <2>. HIDE DEF parts
  <2>5. parts \in Seq(Seq(Seq(C)))
    BY <2>2, <2>3, <2>4, FunctionIsSeq
  <2>. QED  BY <2>5, FlattenHolds
<1>. HIDE DEF pieces
<1>3. start \in X
  <2>. DEFINE none == <<>>
  <2>1. none \in Seq(ChunkType(C)) /\ none \in Seq(Seq(C))
    OBVIOUS
  <2>. HIDE DEF none
  <2>2. [chunks |-> none, buffer |-> none] \in X
    BY <2>1
  <2>. QED  BY <2>2 DEF none
<1>4. ASSUME NEW buffer \in Seq(Seq(C)), buffer # <<>>
      PROVE  ChunkOf(section, buffer) \in ChunkType(C)
  BY <1>4 DEF ChunkType
<1>5. ASSUME NEW a \in X, NEW piece \in Seq(C) PROVE PieceStep(section, a, piece) \in X
  <2>1. a.chunks \in Seq(ChunkType(C)) /\ a.buffer \in Seq(Seq(C))
        /\ a = [chunks |-> a.chunks, buffer |-> a.buffer]
    OBVIOUS
  <2>2. CASE Len(FlattenSeq(a.buffer)) + Len(piece) > TARGET_CHARS /\ a.buffer # <<>>
    <3>. DEFINE chunks == Append(a.chunks, ChunkOf(section, a.buffer))
                buffer == Append(OverlapOf(Last(a.buffer)), piece)
    <3>1. chunks \in Seq(ChunkType(C))
      BY <1>4, <2>1, <2>2, AppendIsSome
    <3>2. Last(a.buffer) \in Seq(C)
      BY <2>1, <2>2, FrontAndLast
    <3>3. OverlapOf(Last(a.buffer)) \in Seq(Seq(C))
      BY <3>2, OverlapKeeps
    <3>4. buffer \in Seq(Seq(C))
      BY <3>3, AppendIsSome
    <3>5. PieceStep(section, a, piece) = [chunks |-> chunks, buffer |-> buffer]
      BY <2>2 DEF PieceStep, AddPiece
    <3>. HIDE DEF chunks, buffer
    <3>. QED  BY <3>1, <3>4, <3>5
  <2>3. CASE ~(Len(FlattenSeq(a.buffer)) + Len(piece) > TARGET_CHARS /\ a.buffer # <<>>)
    <3>. DEFINE buffer == Append(a.buffer, piece)
    <3>1. buffer \in Seq(Seq(C))
      BY <2>1, AppendIsSome
    <3>2. PieceStep(section, a, piece) = [a EXCEPT !.buffer = buffer]
      BY <2>3 DEF PieceStep, AddPiece
    <3>. HIDE DEF buffer
    <3>3. [a EXCEPT !.buffer = buffer] = [chunks |-> a.chunks, buffer |-> buffer]
      BY <2>1
    <3>. QED  BY <2>1, <3>1, <3>2, <3>3
  <2>. QED  BY <2>2, <2>3
<1>. HIDE DEF X, start
<1>6. acc \in X
  BY <1>2, <1>3, <1>5, Packing!FoldKeeps
<1>. HIDE DEF acc
<1>7. acc.chunks \in Seq(ChunkType(C)) /\ acc.buffer \in Seq(Seq(C))
  BY <1>6 DEF X
<1>8. acc.buffer # <<>> => Append(acc.chunks, ChunkOf(section, acc.buffer)) \in Seq(ChunkType(C))
  BY <1>4, <1>7, AppendIsSome
<1>. QED  BY <1>1, <1>7, <1>8

LEMMA ChunkKeeps ==
  ASSUME NEW C, NEW d, NEW pages, NEW n \in Nat, pages = [p \in 1 .. n |-> pages[p]],
         \A p \in 1 .. n : pages[p] \in Seq(C)
  PROVE  Chunk(d, pages) \in Seq(ChunkType(C))
<1>. DEFINE sections == SplitSections(d, pages)
            m        == Len(sections)
            parts    == [i \in DOMAIN sections |-> ChunkSection(sections[i])]
<1>1. sections \in Seq(SectionType(C))
  BY SectionsKeep
<1>. HIDE DEF sections
<1>2. m \in Nat /\ DOMAIN sections = 1 .. m /\ \A i \in 1 .. m : sections[i] \in SectionType(C)
  BY <1>1
<1>. HIDE DEF m
<1>3. parts = [i \in 1 .. m |-> parts[i]] /\ \A i \in 1 .. m : parts[i] = ChunkSection(sections[i])
  BY <1>2
<1>4. \A i \in 1 .. m : parts[i] \in Seq(ChunkType(C))
  BY <1>2, <1>3, ChunkSectionKeeps
<1>5. Chunk(d, pages) = FlattenSeq(parts)
  BY DEF Chunk, sections
<1>. HIDE DEF parts
<1>6. parts \in Seq(Seq(ChunkType(C)))
  BY <1>2, <1>3, <1>4, FunctionIsSeq
<1>7. FlattenSeq(parts) \in Seq(ChunkType(C))
  BY <1>6, FlattenHolds
<1>. QED  BY <1>5, <1>7

\* The chunks of a document are of what its masks have left.
LEMMA ChunksAreLeft ==
  ASSUME NEW d \in Documents, NEW findings, AreQuotes(d, Quotes(findings))
  PROVE  Chunks(d, findings) \in Seq(ChunkType(Left(d, findings)))
<1>. DEFINE C     == Left(d, findings)
            pages == SanitizedPages(d, findings)
            n     == Len(d.pages)
<1>1. n \in Nat /\ DOMAIN d.pages = 1 .. n
  <2>1. d.pages \in Seq(Seq({"a", "A", ".", "/"}))
    BY DocumentsAssumption
  <2>. QED  BY <2>1
<1>2. /\ pages = [p \in 1 .. n |-> pages[p]]
      /\ \A p \in 1 .. n : pages[p] = MaskFlaggedText(PageText(d, p), findings)
  BY <1>1 DEF SanitizedPages
<1>3. ASSUME NEW p \in 1 .. n PROVE pages[p] \in Seq(C)
  <2>1. MaskFlaggedText(PageText(d, p), findings) \in Seq(LeftOn(d, findings, p))
    BY <1>1, LeftIsOnPage
  <2>2. LeftOn(d, findings, p) \subseteq C
    BY <1>1 DEF Left
  <2>. HIDE DEF C
  <2>3. Seq(LeftOn(d, findings, p)) \subseteq Seq(C)
    BY <2>2
  <2>. QED  BY <1>2, <2>1, <2>3
<1>. HIDE DEF pages, C, n
<1>4. Chunk(d, pages) \in Seq(ChunkType(C))
  BY <1>1, <1>2, <1>3, ChunkKeeps
<1>. QED  BY <1>4 DEF Chunks, pages, C

-----------------------------------------------------------------------------
(* What the queries of an agent bring. *)

LEMMA RankedIsResults ==
  ASSUME NEW n \in Nat, NEW scores \in [1 .. n -> Nat], NEW ids, ids \subseteq 1 .. n, NEW k \in Nat
  PROVE  LET top == Ranked(scores, ids, k)
         IN AreResults(top) /\ Len(top) <= k /\ Ids(top) \subseteq ids
<1>. DEFINE found == {i \in ids : scores[i] > 0}
            f     == [i \in found |-> scores[i]]
            items == {Item(id, f[id]) : id \in found}
            top   == Ranked(scores, ids, k)
<1>1. found \subseteq 1 .. n /\ found \subseteq ids /\ found \subseteq Nat
  <2>1. found \subseteq ids
    BY Zenon
  <2>2. ids \subseteq Nat
    OBVIOUS
  <2>. HIDE DEF found
  <2>. QED  BY <2>1, <2>2
<1>2. IsFiniteSet(found)
  <2>1. IsFiniteSet(1 .. n)
    BY FS_Interval
  <2>. QED  BY <1>1, <2>1, FS_Subset
<1>3. f \in [found -> Nat] /\ \A i \in found : f[i] = scores[i]
  <2>1. \A i \in found : scores[i] \in Nat
    BY <1>1
  <2>. HIDE DEF found
  <2>. QED  BY <2>1
<1>4. items = {Item(id, scores[id]) : id \in found}
  BY <1>3
<1>5. top = Take(Ranking(items), k)
  BY <1>4, Zenon DEF Ranked
<1>. HIDE DEF found, f
<1>6. AreItems(items) /\ items \subseteq ItemType /\ \A x \in items : x.id \in found
  <2>1. AreItems(items)
    BY <1>1, <1>2, <1>3, ItemsOfScores
  <2>2. \A id \in found : Item(id, f[id]) \in ItemType /\ Item(id, f[id]).id = id
    BY <1>1, <1>3 DEF Item, ItemType
  <2>. QED  BY <2>1, <2>2
<1>. HIDE DEF items, top
<1>7. IsTop(top, items, k)
  BY <1>5, <1>6, TopOfItems
<1>8. Ids(top) \subseteq ids
  BY <1>1, <1>6, <1>7 DEF IsTop, Ids
<1>. QED  BY <1>7, <1>8 DEF IsTop, top

\* The scores of n chunks for a query.
IsQuery(query, n) ==
  /\ query.dense \in [1 .. n -> Nat] /\ query.lexical \in [1 .. n -> Nat]
  /\ query.rerank \in [1 .. n -> Nat]

\* What two rankings agree about is so in the result, as far as it goes.
AgreesWith(result, dense, lexical) ==
  \A a, b : RankOf(dense, a) < RankOf(dense, b) /\ RankOf(lexical, a) < RankOf(lexical, b) =>
              RankOf(result, a) < RankOf(result, b) \/ b \notin Ids(result)

LEMMA QueryResults ==
  ASSUME NEW n \in Nat, NEW setup, NEW query, IsQuery(query, n)
  PROVE  LET result  == QueryStore(setup, query)
             dense   == Ranked(query.dense, 1 .. n, CandidateK(setup))
             lexical == Ranked(query.lexical, 1 .. n, CandidateK(setup))
         IN /\ AreResults(result) /\ Len(result) <= K /\ Ids(result) \subseteq 1 .. n
            /\ setup.hybrid /\ ~setup.reranked => AgreesWith(result, dense, lexical)
<1>. DEFINE ck      == CandidateK(setup)
            dense   == Ranked(query.dense, 1 .. n, ck)
            lexical == Ranked(query.lexical, 1 .. n, ck)
            fused   == ReciprocalRankFusion(dense, lexical, ck)
            items   == IF setup.hybrid THEN fused ELSE dense
            result  == QueryStore(setup, query)
<1>1. K \in Nat /\ ck \in Nat
  BY RetrievalAssumption DEF CandidateK
<1>2. /\ query.dense \in [1 .. n -> Nat] /\ query.lexical \in [1 .. n -> Nat]
      /\ query.rerank \in [1 .. n -> Nat] /\ DOMAIN query.dense = 1 .. n
  BY DEF IsQuery
<1>3. result = IF setup.reranked THEN Ranked(query.rerank, Ids(items), K) ELSE Take(items, K)
  BY <1>2 DEF QueryStore
<1>. HIDE DEF ck, result
<1>4. AreResults(dense) /\ Ids(dense) \subseteq 1 .. n
  BY <1>1, <1>2, RankedIsResults
<1>5. AreResults(lexical) /\ Ids(lexical) \subseteq 1 .. n
  BY <1>1, <1>2, RankedIsResults
<1>. HIDE DEF dense, lexical
<1>6. /\ AreResults(fused) /\ Ids(fused) \subseteq 1 .. n
      /\ \A a, b : /\ RankOf(dense, a) < RankOf(dense, b)
                   /\ RankOf(lexical, a) < RankOf(lexical, b)
                   /\ b \in Ids(fused)
                   => RankOf(fused, a) < RankOf(fused, b)
  BY <1>1, <1>4, <1>5, FusionAgrees
<1>. HIDE DEF fused
<1>7. AreResults(items) /\ Ids(items) \subseteq 1 .. n
  BY <1>4, <1>6
<1>8. CASE setup.reranked
  <2>. HIDE DEF items
  <2>1. /\ AreResults(Ranked(query.rerank, Ids(items), K))
        /\ Len(Ranked(query.rerank, Ids(items), K)) <= K
        /\ Ids(Ranked(query.rerank, Ids(items), K)) \subseteq Ids(items)
    BY <1>1, <1>2, <1>7, RankedIsResults
  <2>. QED  BY <1>3, <1>7, <1>8, <2>1 DEF result
<1>9. CASE ~setup.reranked
  <2>1. /\ AreResults(result) /\ Len(result) <= K /\ Ids(result) \subseteq Ids(items)
        /\ \A a, b : RankOf(items, a) < RankOf(items, b) /\ b \in Ids(result) =>
                       RankOf(result, a) < RankOf(result, b)
    <3>. HIDE DEF items
    <3>. QED  BY <1>1, <1>3, <1>7, <1>9, TakeKeepsRanks
  <2>2. ASSUME setup.hybrid PROVE AgreesWith(result, dense, lexical)
    <3>1. items = fused
      BY <2>2
    <3>2. SUFFICES ASSUME NEW a, NEW b, RankOf(dense, a) < RankOf(dense, b),
                          RankOf(lexical, a) < RankOf(lexical, b), b \in Ids(result)
                   PROVE  RankOf(result, a) < RankOf(result, b)
      BY DEF AgreesWith
    <3>3. b \in Ids(fused)
      BY <2>1, <3>1, <3>2
    <3>4. RankOf(fused, a) < RankOf(fused, b)
      BY <1>6, <3>2, <3>3
    <3>. QED  BY <2>1, <3>1, <3>2, <3>4
  <2>. QED  BY <1>7, <2>1, <2>2 DEF result, dense, lexical, ck
<1>. QED  BY <1>8, <1>9

\* Scores of all chunks, for one query or two.
LEMMA QueriesAreTyped ==
  ASSUME NEW n \in Nat, NEW setup, NEW queries \in Queries(n, setup)
  PROVE  /\ \E m \in 1 .. 2 : DOMAIN queries = 1 .. m
         /\ \A q \in DOMAIN queries : IsQuery(queries[q], n)
<1>1. ASSUME NEW scores, scores \in {DenseScores, LexicalScores}, NEW s \in Scored(n, scores)
      PROVE  s \in [1 .. n -> Nat]
  <2>1. PICK score \in scores : s = [i \in 1 .. n |-> IF i \in DOMAIN score THEN score[i] ELSE 0]
    BY DEF Scored
  <2>2. \A i \in DOMAIN score : score[i] \in Nat
    BY <1>1, ScoresAssumption
  <2>. QED  BY <2>1, <2>2
<1>2. \A s \in Unscored(n) : s \in [1 .. n -> Nat]
  BY DEF Unscored
<1>3. \A q : \A query \in Searches(n, setup, q) : IsQuery(query, n)
  <2>. SUFFICES ASSUME NEW q, NEW query \in Searches(n, setup, q) PROVE IsQuery(query, n)
    OBVIOUS
  <2>1. /\ query.dense \in Scored(n, DenseScores)
        /\ query.lexical \in Scored(n, LexicalScores) \cup Unscored(n)
        /\ query.rerank \in Scored(n, DenseScores) \cup Unscored(n)
    BY DEF Searches
  <2>. QED  BY <1>1, <1>2, <2>1 DEF IsQuery
<1>4. CASE Len(setup.words) = 1
  <2>1. PICK a \in Searches(n, setup, 1) : queries = <<a>>
    BY <1>4 DEF Queries
  <2>2. DOMAIN queries = 1 .. 1 /\ queries[1] = a /\ 1 \in 1 .. 2
    BY <2>1
  <2>3. \A q \in 1 .. 1 : q = 1
    OBVIOUS
  <2>. QED  BY <1>3, <2>2, <2>3
<1>5. CASE Len(setup.words) # 1
  <2>1. PICK a \in Searches(n, setup, 1), b \in Searches(n, setup, 2) : queries = <<a, b>>
    BY <1>5 DEF Queries
  <2>2. DOMAIN queries = 1 .. 2 /\ queries[1] = a /\ queries[2] = b /\ 2 \in 1 .. 2
    BY <2>1
  <2>3. \A q \in 1 .. 2 : q = 1 \/ q = 2
    OBVIOUS
  <2>. QED  BY <1>3, <2>2, <2>3
<1>. QED  BY <1>4, <1>5

-----------------------------------------------------------------------------
(* The analysis of a document that the gate lets through. *)

RunPlaces == {"waiting", "indexed", "prompted", "answered", "reported"}

\* The prompt was built from what the searches brought, and only from that.
PromptIsBuilt ==
  LET merged == MergeRetrievals(run.traces)
  IN /\ run.queries \in Queries(Len(run.chunks), run.setup)
     /\ run.traces = RetrievalTraces(run.setup, run.queries, {})
     /\ run.context = FormatContext(doc, gate.findings, run.chunks, merged)
     /\ run.marks = AnnotateSelection(run.traces, merged, run.context)

\* A document goes on when the gate lets it through, and its chunks are made
\* with the masks of what the gate has found.
RunInv ==
  /\ run = [at |-> run.at, chunks |-> run.chunks, setup |-> run.setup,
            queries |-> run.queries, traces |-> run.traces, marks |-> run.marks,
            context |-> run.context, conclusions |-> run.conclusions, report |-> run.report]
  /\ run.at \in RunPlaces
  /\ run.at \in {"indexed", "prompted"} =>
       AllowsAnalysis(gate) /\ run.chunks = Chunks(doc, gate.findings)
  /\ run.at = "prompted" => PromptIsBuilt

AnalysisInv == GateAndReading /\ RunInv

AnalysisPart == IF part = "analysis" THEN AnalysisInv ELSE NoAnalysis

LEMMA RunInitOK == run = NotStarted => RunInv
BY DEF NotStarted, RunInv, RunPlaces

LEMMA IndexOK == RunInv /\ IndexDocument => RunInv'
<1>. SUFFICES ASSUME RunInv, IndexDocument PROVE RunInv'
  OBVIOUS
<1>1. PICK chunks : chunks = Chunks(doc, gate.findings)
  OBVIOUS
<1>2. /\ run' = [run EXCEPT !.at = "indexed", !.chunks = chunks]
      /\ AllowsAnalysis(gate) /\ doc' = doc /\ gate' = gate
  BY <1>1 DEF IndexDocument
<1>3. run' = [at |-> "indexed", chunks |-> chunks, setup |-> run.setup,
              queries |-> run.queries, traces |-> run.traces, marks |-> run.marks,
              context |-> run.context, conclusions |-> run.conclusions, report |-> run.report]
  BY <1>2 DEF RunInv
<1>4. run'.at = "indexed" /\ run'.chunks = chunks
  BY <1>3
<1>5. /\ AllowsAnalysis(gate') /\ run'.chunks = Chunks(doc', gate'.findings)
  BY <1>1, <1>2, <1>4
<1>. QED  BY <1>3, <1>4, <1>5 DEF RunInv, RunPlaces

LEMMA BuildOK == ASSUME RunInv, NEW setup, BuildPrompt(setup) PROVE RunInv'
<1>1. PICK queries \in Queries(Len(run.chunks), setup) :
        run' = [run EXCEPT !.at = "prompted", !.setup = setup, !.queries = queries,
                  !.traces = RetrievalTraces(setup, queries, {}),
                  !.context = FormatContext(doc, gate.findings, run.chunks,
                                MergeRetrievals(RetrievalTraces(setup, queries, {}))),
                  !.marks = AnnotateSelection(RetrievalTraces(setup, queries, {}),
                              MergeRetrievals(RetrievalTraces(setup, queries, {})),
                              FormatContext(doc, gate.findings, run.chunks,
                                MergeRetrievals(RetrievalTraces(setup, queries, {}))))]
  BY DEF BuildPrompt
<1>2. /\ AllowsAnalysis(gate) /\ run.chunks = Chunks(doc, gate.findings)
      /\ doc' = doc /\ gate' = gate
  BY DEF BuildPrompt, IsPrompted, RunInv
<1>3. PICK traces : traces = RetrievalTraces(setup, queries, {})
  OBVIOUS
<1>4. PICK context : context = FormatContext(doc, gate.findings, run.chunks, MergeRetrievals(traces))
  OBVIOUS
<1>5. PICK marks : marks = AnnotateSelection(traces, MergeRetrievals(traces), context)
  OBVIOUS
<1>6. run' = [run EXCEPT !.at = "prompted", !.setup = setup, !.queries = queries,
                !.traces = traces, !.context = context, !.marks = marks]
  BY <1>1, <1>3, <1>4, <1>5, Zenon
<1>7. run' = [at |-> "prompted", chunks |-> run.chunks, setup |-> setup,
              queries |-> queries, traces |-> traces, marks |-> marks,
              context |-> context, conclusions |-> run.conclusions, report |-> run.report]
  BY <1>6 DEF RunInv
<1>8. /\ run'.at = "prompted" /\ run'.chunks = run.chunks /\ run'.setup = setup
      /\ run'.queries = queries /\ run'.traces = traces /\ run'.context = context
      /\ run'.marks = marks
  BY <1>7
<1>9. PromptIsBuilt'
  BY <1>2, <1>3, <1>4, <1>5, <1>8 DEF PromptIsBuilt
<1>10. AllowsAnalysis(gate') /\ run'.chunks = Chunks(doc', gate'.findings)
  BY <1>2, <1>8
<1>. QED  BY <1>7, <1>8, <1>9, <1>10 DEF RunInv, RunPlaces

\* Nothing is promised of a run that ends.
LEMMA EndingOK ==
  ASSUME RunInv, NEW setup, NEW answer,
         RetrievalFails(setup) \/ RunAgent(answer) \/ ComposeReport
  PROVE  RunInv'
<1>1. CASE RetrievalFails(setup)
  <2>1. PICK traces, marks :
          run' = [run EXCEPT !.at = "answered", !.traces = traces, !.marks = marks]
    BY <1>1 DEF RetrievalFails
  <2>2. run' = [at |-> "answered", chunks |-> run.chunks, setup |-> run.setup,
                queries |-> run.queries, traces |-> traces, marks |-> marks,
                context |-> run.context, conclusions |-> run.conclusions, report |-> run.report]
    BY <2>1 DEF RunInv
  <2>. QED  BY <2>2, SMTT(20) DEF RunInv, RunPlaces
<1>2. CASE RunAgent(answer)
  <2>1. run' = [at |-> "answered", chunks |-> run.chunks, setup |-> run.setup,
                queries |-> <<>>, traces |-> run.traces, marks |-> run.marks,
                context |-> run.context, conclusions |-> answer, report |-> run.report]
    BY <1>2 DEF RunInv, RunAgent
  <2>. QED  BY <2>1 DEF RunInv, RunPlaces
<1>3. CASE ComposeReport
  <2>1. PICK report : run' = [run EXCEPT !.at = "reported", !.report = report]
    BY <1>3 DEF ComposeReport
  <2>2. run' = [at |-> "reported", chunks |-> run.chunks, setup |-> run.setup,
                queries |-> run.queries, traces |-> run.traces, marks |-> run.marks,
                context |-> run.context, conclusions |-> run.conclusions, report |-> report]
    BY <2>1 DEF RunInv
  <2>. QED  BY <2>2 DEF RunInv, RunPlaces
<1>. QED  BY <1>1, <1>2, <1>3

LEMMA RunRests == RunInv /\ UNCHANGED vars => RunInv'
BY DEF RunInv, PromptIsBuilt, vars

LEMMA AnalysisNextOK == AnalysisInv /\ Next => AnalysisInv'
<1>. SUFFICES ASSUME AnalysisInv, Next PROVE AnalysisInv'
  OBVIOUS
<1>0. GateAndReading /\ RunInv
  BY DEF AnalysisInv
<1>1. CASE Scan /\ UNCHANGED run
  <2>1. ~AllowsAnalysis(gate)
    BY <1>1 DEF Scan, ScanRules, RuleScanFails, ChooseCandidates, SemanticReview,
                SemanticReviewFails, AllowsAnalysis
  <2>2. run' = run /\ run.at \notin {"indexed", "prompted"}
    BY <1>0, <1>1, <2>1 DEF RunInv
  <2>3. RunInv'
    BY <1>0, <2>2 DEF RunInv
  <2>. QED  BY <1>0, <1>1, <2>3, ScanOK DEF AnalysisInv
<1>2. CASE IndexDocument
  <2>1. UNCHANGED <<doc, mode, gate>>
    BY <1>2 DEF IndexDocument
  <2>. QED  BY <1>0, <1>2, <2>1, IndexOK, GateRests DEF AnalysisInv
<1>3. ASSUME NEW setup \in Setups, BuildPrompt(setup) PROVE AnalysisInv'
  <2>1. UNCHANGED <<doc, mode, gate>>
    BY <1>3 DEF BuildPrompt
  <2>. QED  BY <1>0, <1>3, <2>1, BuildOK, GateRests DEF AnalysisInv
<1>4. ASSUME NEW setup, NEW answer, RetrievalFails(setup) \/ RunAgent(answer) \/ ComposeReport
      PROVE  AnalysisInv'
  <2>1. UNCHANGED <<doc, mode, gate>>
    BY <1>4 DEF RetrievalFails, RunAgent, ComposeReport
  <2>2. RunInv'
    BY <1>0, <1>4, EndingOK
  <2>. QED  BY <1>0, <2>1, <2>2, GateRests DEF AnalysisInv
<1>. QED  BY <1>1, <1>2, <1>3, <1>4 DEF Next

LEMMA AnalysisPartOK == ServiceSpec => []AnalysisPart
<1>1. ServiceInit => AnalysisPart
  <2>1. GateInit => AllIsRead
    BY DEF GateInit, Unscanned, AllIsRead
  <2>. QED  BY <2>1, GateInitOK, RunInitOK
            DEF ServiceInit, AnalysisPart, AnalysisInv, GateAndReading, Init
<1>2. AnalysisPart /\ [ServiceNext]_service => AnalysisPart'
  <2>. SUFFICES ASSUME AnalysisPart, [ServiceNext]_service PROVE AnalysisPart'
    OBVIOUS
  <2>1. part' = part
    BY DEF ServiceNext, service
  <2>2. (part = "analysis" /\ Next) \/ UNCHANGED vars
    BY DEF ServiceNext, service, analysis
  <2>3. CASE part = "analysis"
    <3>1. AnalysisInv
      BY <2>3 DEF AnalysisPart
    <3>2. CASE Next
      BY <2>1, <2>3, <3>1, <3>2, AnalysisNextOK DEF AnalysisPart
    <3>3. CASE UNCHANGED vars
      <4>1. UNCHANGED <<doc, mode, gate>>
        BY <3>3 DEF vars
      <4>. QED  BY <2>1, <2>3, <3>1, <3>3, <4>1, GateRests, RunRests DEF AnalysisPart, AnalysisInv
    <3>. QED  BY <2>2, <3>2, <3>3
  <2>4. CASE part # "analysis"
    BY <2>1, <2>2, <2>4 DEF AnalysisPart, NoAnalysis, vars
  <2>. QED  BY <2>3, <2>4
<1>. QED  BY <1>1, <1>2, PTL DEF ServiceSpec

\* The quotes of a gate that lets a document through are on its pages.
LEMMA CalmFindings ==
  ASSUME GateInv, AllowsAnalysis(gate)
  PROVE  AreQuotes(doc, Quotes(gate.findings))
<1>1. doc \in Documents /\ RiskLevel(gate) <= MEDIUM
  BY DEF GateInv, GateTypeOK, AllowsAnalysis
<1>2. gate.complete
  BY <1>1 DEF RiskLevel, MEDIUM, CRITICAL
<1>. DEFINE severities == {NONE} \cup {h.severity : h \in gate.findings}
<1>3. severities \subseteq NONE .. CRITICAL
  BY DEF GateInv, GateTypeOK, IsFinding, NONE, CRITICAL
<1>4. RiskLevel(gate) = Max(severities)
  BY <1>2 DEF RiskLevel
<1>5. \A f \in gate.findings : f.severity \in severities
  OBVIOUS
<1>. HIDE DEF severities
<1>6. ASSUME NEW f \in gate.findings PROVE f.severity < HIGH /\ IsQuoteOf(doc, f)
  <2>1. f.severity <= Max(severities) /\ Max(severities) \in NONE .. CRITICAL
    BY <1>3, <1>5, MaxOfSeverities
  <2>2. IsFinding(f) /\ IsQuoteOf(doc, f)
    BY DEF GateInv, GateTypeOK
  <2>. QED  BY <1>1, <1>4, <2>1, <2>2 DEF IsFinding, NONE, MEDIUM, HIGH, CRITICAL
<1>7. ASSUME NEW f \in gate.findings
      PROVE  LET q == SpanOf(f.page, f.from, f.to)
             IN /\ q \in Spans /\ q.page \in DOMAIN doc.pages /\ q.from \in 1 .. q.to
                /\ q.to \in 1 .. Len(Page(doc, q.page)) /\ Page(doc, q.page)[q.from] # "/"
  <2>1. /\ f.page \in DOMAIN doc.pages /\ f.from \in Nat \ {0} /\ f.to \in Nat /\ f.from <= f.to
        /\ f.to <= Len(Page(doc, f.page)) /\ Page(doc, f.page)[f.from] # "/"
    <3>1. f.severity < HIGH /\ f.severity \in NONE .. CRITICAL
      BY <1>6 DEF GateInv, GateTypeOK, IsFinding
    <3>. QED  BY <1>6, <3>1 DEF IsQuoteOf, NONE, CRITICAL, HIGH
  <2>2. f.page \in Nat /\ Len(Page(doc, f.page)) \in Nat
    BY <1>1, <2>1, PageOfDocument
  <2>. QED  BY <2>1, <2>2 DEF SpanOf, Spans
<1>8. IsFiniteSet(Quotes(gate.findings))
  <2>. DEFINE g == [f \in gate.findings |-> SpanOf(f.page, f.from, f.to)]
  <2>1. g \in Surjection(gate.findings, Quotes(gate.findings))
    BY DEF Surjection, Quotes
  <2>2. IsFiniteSet(gate.findings)
    BY DEF GateInv, GateTypeOK
  <2>. QED  BY <2>1, <2>2, FS_Surjection
<1>. QED  BY <1>7, <1>8 DEF AreQuotes, Quotes

\* Nothing flagged is in the head of the prompt either.
LEMMA HeadHides ==
  ASSUME NEW d \in Documents, NEW findings, AreQuotes(d, Quotes(findings))
  PROVE  LET first == IF d.pages = <<>> THEN <<>> ELSE PageText(d, 1)
         IN Hides(Take(MaskFlaggedText(first, findings), DOC_HEAD_CHARS), Quotes(findings))
<1>. DEFINE first  == IF d.pages = <<>> THEN <<>> ELSE PageText(d, 1)
            masked == MaskFlaggedText(first, findings)
<1>0. DOC_HEAD_CHARS \in Nat
  BY RetrievalAssumption
<1>1. CASE d.pages = <<>>
  <2>1. Quotes(findings) = {}
    BY <1>1 DEF AreQuotes
  <2>. QED  BY <2>1 DEF Hides
<1>2. CASE d.pages # <<>>
  <2>1. first = PageText(d, 1) /\ 1 \in DOMAIN d.pages
    <3>1. d.pages \in Seq(Seq({"a", "A", ".", "/"}))
      BY DocumentsAssumption
    <3>. QED  BY <1>2, <3>1
  <2>2. masked \in Seq(LeftOn(d, findings, 1)) /\ LeftOn(d, findings, 1) \subseteq Left(d, findings)
    <3>1. MaskFlaggedText(PageText(d, 1), findings) \in Seq(LeftOn(d, findings, 1))
      BY <2>1, LeftIsOnPage
    <3>2. LeftOn(d, findings, 1) \subseteq Left(d, findings)
      BY <2>1 DEF Left
    <3>. QED  BY <2>1, <3>1, <3>2
  <2>. HIDE DEF masked, first
  <2>. DEFINE head == Take(masked, DOC_HEAD_CHARS)
  <2>3. head \in Seq(LeftOn(d, findings, 1))
    BY <1>0, <2>2, TakeCuts
  <2>. HIDE DEF head
  <2>4. \A i \in DOMAIN head : head[i] \in LeftOn(d, findings, 1)
    BY <2>3
  <2>5. ToSet(head) \subseteq Left(d, findings)
    BY <2>2, <2>4 DEF ToSet
  <2>6. Hides(head, Quotes(findings))
    BY <2>3, <2>5, LeftHides
  <2>. QED  BY <2>6 DEF head, masked, first
<1>. QED  BY <1>1, <1>2

ContextStep(chunks, acc, item) == AddExcerpt(chunks, acc, item)

Filling == INSTANCE FoldLemmas WITH Op <- ContextStep

\* The chunks as they are shown.
MaskedChunks(findings, chunks) ==
  [i \in DOMAIN chunks |->
     [chunks[i] EXCEPT !.text = MaskFlaggedText(@, findings),
                       !.section = MaskFlaggedText(@, findings)]]

HeadOf(d, findings) ==
  LET first == IF d.pages = <<>> THEN <<>> ELSE PageText(d, 1)
  IN Take(MaskFlaggedText(first, findings), DOC_HEAD_CHARS)

EmptyContext(head) ==
  [head |-> head, used |-> ExcerptFrame + Len(head), included |-> <<>>, truncated |-> FALSE]

LEMMA ContextIsFold ==
  ASSUME NEW d, NEW findings, NEW chunks, NEW merged
  PROVE  FormatContext(d, findings, chunks, merged)
           = Filling!Fold(MaskedChunks(findings, chunks), EmptyContext(HeadOf(d, findings)), merged)
BY DEF FormatContext, FoldLeft, MapThenFoldSet, Filling!Fold, Max, Filling!Max, ContextStep,
       MaskedChunks, EmptyContext, HeadOf


\* A text stays one under the masks.
LEMMA MaskedIsText ==
  ASSUME NEW d, NEW findings, AreQuotes(d, Quotes(findings)), NEW C, NEW text \in Seq(C)
  PROVE  \E D : MaskFlaggedText(text, findings) \in Seq(D)
<1>. DEFINE quotes == Quotes(findings)
            qs     == ByLength(quotes)
            D      == C \cup {MaskedAs(q.page) : q \in quotes}
<1>1. qs \in Seq(quotes) /\ quotes \subseteq Spans /\ \A q \in quotes : q.from \in 1 .. q.to
  BY QuotesByLength DEF AreQuotes
<1>2. MaskFlaggedText(text, findings) = Masking!Fold(0, text, qs)
  BY MaskingIsFold
<1>3. C \subseteq D /\ \A q \in quotes : MaskedAs(q.page) \in D
  OBVIOUS
<1>. HIDE DEF D, qs, quotes
<1>4. text \in Seq(D)
  BY <1>3
<1>5. ASSUME NEW t \in Seq(D), NEW q \in quotes PROVE MaskStep(0, t, q) \in Seq(D)
  <2>1. Characters(q) # <<>>
    BY <1>1, CharactersOf
  <2>2. MaskQuote(t, q) \in Seq(D)
    BY <1>3, <2>1, MaskReplaces
  <2>. QED  BY <2>2 DEF MaskStep
<1>6. Masking!Fold(0, text, qs) \in Seq(D)
  BY <1>1, <1>4, <1>5, Masking!FoldKeeps
<1>. QED  BY <1>2, <1>6

LEMMA ExcerptsHaveSize ==
  ASSUME NEW d, NEW findings, AreQuotes(d, Quotes(findings)), NEW C,
         NEW chunks \in Seq(ChunkType(C)), NEW i \in DOMAIN chunks
  PROVE  ExcerptSize(MaskedChunks(findings, chunks)[i]) \in Nat
<1>1. ExcerptFrame \in Nat
  BY RetrievalAssumption
<1>2. PICK chunk \in ChunkType(C) : chunk = chunks[i]
  OBVIOUS
<1>3. chunk.section \in Seq(C) /\ chunk.text \in Seq(C) /\ chunk.breaks \in Nat
  BY ChunkIsText
<1>4. PICK title, text : /\ title = MaskFlaggedText(chunk.section, findings)
                         /\ text = MaskFlaggedText(chunk.text, findings)
  OBVIOUS
<1>5. Len(title) \in Nat /\ Len(text) \in Nat
  <2>1. \E D : title \in Seq(D)
    BY <1>3, <1>4, MaskedIsText
  <2>2. \E D : text \in Seq(D)
    BY <1>3, <1>4, MaskedIsText
  <2>. QED  BY <2>1, <2>2
<1>6. MaskedChunks(findings, chunks)[i] = [chunk EXCEPT !.text = text, !.section = title]
  BY <1>2, <1>4 DEF MaskedChunks
<1>7. chunk = [section |-> chunk.section, text |-> chunk.text, breaks |-> chunk.breaks,
               page_start |-> chunk.page_start, page_end |-> chunk.page_end]
  <2>1. PICK section \in SectionType(C), buffer \in Seq(Seq(C)) \ {<<>>} :
          chunk = ChunkOf(section, buffer)
    BY DEF ChunkType
  <2>. QED  BY <2>1 DEF ChunkOf
<1>8. /\ MaskedChunks(findings, chunks)[i].text = text
      /\ MaskedChunks(findings, chunks)[i].section = title
      /\ MaskedChunks(findings, chunks)[i].breaks = chunk.breaks
  BY <1>6, <1>7
<1>. QED  BY <1>1, <1>3, <1>5, <1>8 DEF ExcerptSize, LengthOf

\* A context after k of the items: the first of them, up to the one that was
\* too long.
IsContext(acc, head, merged, k) ==
  /\ acc = [head |-> head, used |-> acc.used, included |-> acc.included,
            truncated |-> acc.truncated]
  /\ acc.used \in Nat /\ acc.truncated \in BOOLEAN /\ acc.included \in Seq(Nat)
  /\ Len(acc.included) <= k /\ (acc.truncated \/ Len(acc.included) = k)
  /\ \A i \in 1 .. Len(acc.included) : acc.included[i] = merged[i].id
  /\ acc.included # <<>> => acc.used <= MAX_CONTEXT_CHARS

LEMMA ExcerptStep ==
  ASSUME NEW head, NEW merged \in Seq(ItemType), NEW k \in 1 .. Len(merged), NEW acc,
         IsContext(acc, head, merged, k - 1), NEW chunks,
         ExcerptSize(chunks[merged[k].id]) \in Nat
  PROVE  IsContext(AddExcerpt(chunks, acc, merged[k]), head, merged, k)
<1>. DEFINE size == ExcerptSize(chunks[merged[k].id])
            full == acc.truncated \/ acc.used + size > MAX_CONTEXT_CHARS
            new  == AddExcerpt(chunks, acc, merged[k])
<1>1. PICK included \in Seq(Nat) : included = acc.included
  BY DEF IsContext
<1>2. PICK used \in Nat : used = acc.used
  BY DEF IsContext
<1>3. PICK truncated \in BOOLEAN : truncated = acc.truncated
  BY DEF IsContext
<1>4. acc = [head |-> head, used |-> used, included |-> included, truncated |-> truncated]
  BY <1>1, <1>2, <1>3, Zenon DEF IsContext
<1>5. /\ Len(included) <= k - 1 /\ (truncated \/ Len(included) = k - 1)
      /\ \A i \in 1 .. Len(included) : included[i] = merged[i].id
      /\ included # <<>> => used <= MAX_CONTEXT_CHARS
  BY <1>1, <1>2, <1>3 DEF IsContext
<1>6. k \in Nat /\ Len(included) \in Nat /\ merged[k] \in ItemType /\ size \in Nat
  OBVIOUS
<1>7. new = IF full THEN [acc EXCEPT !.truncated = TRUE]
            ELSE [acc EXCEPT !.used = acc.used + size,
                             !.included = Append(acc.included, merged[k].id)]
  BY DEF AddExcerpt
<1>. HIDE DEF new, size
<1>8. CASE full
  <2>1. new = [head |-> head, used |-> used, included |-> included, truncated |-> TRUE]
    BY <1>4, <1>7, <1>8
  <2>2. /\ new.head = head /\ new.used = used /\ new.included = included
        /\ new.truncated = TRUE
    BY <2>1
  <2>3. Len(included) <= k
    BY <1>5, <1>6
  <2>. QED  BY <1>5, <2>1, <2>2, <2>3, Zenon DEF IsContext, new
<1>9. CASE ~full
  <2>1. PICK more : more = Append(included, merged[k].id)
    OBVIOUS
  <2>2. PICK total : total = used + size
    OBVIOUS
  <2>3. new = [head |-> head, used |-> total, included |-> more, truncated |-> truncated]
    <3>1. new = [acc EXCEPT !.used = total, !.included = more]
      BY <1>1, <1>2, <1>7, <1>9, <2>1, <2>2, Zenon
    <3>. QED  BY <1>4, <3>1
  <2>4. Len(included) = k - 1
    BY <1>3, <1>5, <1>9
  <2>5. /\ more \in Seq(Nat) /\ Len(more) = k /\ more[k] = merged[k].id
        /\ \A i \in 1 .. k - 1 : more[i] = included[i]
    BY <1>6, <2>1, <2>4, SMTT(20) DEF ItemType
  <2>6. \A i \in 1 .. k : more[i] = merged[i].id
    BY <1>5, <1>6, <2>4, <2>5, SMTT(20)
  <2>7. total \in Nat /\ total <= MAX_CONTEXT_CHARS
    BY <1>2, <1>6, <1>9, <2>2, RetrievalAssumption, SMTT(20)
  <2>8. /\ new.head = head /\ new.used = total /\ new.included = more
        /\ new.truncated = truncated
    BY <2>3
  <2>9. Len(more) <= k /\ Len(more) = k
    BY <1>6, <2>5
  <2>. QED  BY <2>3, <2>5, <2>6, <2>7, <2>8, <2>9, Zenon DEF IsContext, new
<1>. QED  BY <1>8, <1>9

LEMMA ContextIsFilled ==
  ASSUME NEW d \in Documents, NEW findings, AreQuotes(d, Quotes(findings)), NEW C,
         NEW chunks \in Seq(ChunkType(C)), NEW merged \in Seq(ItemType),
         \A k \in 1 .. Len(merged) : merged[k].id \in DOMAIN chunks
  PROVE  IsContext(FormatContext(d, findings, chunks, merged), HeadOf(d, findings), merged,
                   Len(merged))
<1>. DEFINE shown == MaskedChunks(findings, chunks)
            head  == HeadOf(d, findings)
            start == EmptyContext(head)
            m     == Len(merged)
<1>1. FormatContext(d, findings, chunks, merged) = Filling!Fold(shown, start, merged)
  BY ContextIsFold
<1>2. m \in Nat /\ DOMAIN merged = 1 .. m
  OBVIOUS
<1>3. \A k \in 1 .. m : ExcerptSize(shown[merged[k].id]) \in Nat
  BY ExcerptsHaveSize
<1>4. Len(head) \in Nat
  <2>1. \E S : \E text \in Seq(S) : head = Take(text, DOC_HEAD_CHARS)
    <3>1. CASE d.pages = <<>>
      <4>1. <<>> \in Seq({})
        OBVIOUS
      <4>2. \E D : MaskFlaggedText(<<>>, findings) \in Seq(D)
        BY <4>1, MaskedIsText
      <4>. QED  BY <3>1, <4>2 DEF HeadOf
    <3>2. CASE d.pages # <<>>
      <4>1. 1 \in DOMAIN d.pages
        <5>1. d.pages \in Seq(Seq({"a", "A", ".", "/"}))
          BY DocumentsAssumption
        <5>. QED  BY <3>2, <5>1
      <4>2. MaskFlaggedText(PageText(d, 1), findings) \in Seq(LeftOn(d, findings, 1))
        BY <4>1, LeftIsOnPage
      <4>. QED  BY <3>2, <4>2 DEF HeadOf
    <3>. QED  BY <3>1, <3>2
  <2>2. DOC_HEAD_CHARS \in Nat
    BY RetrievalAssumption
  <2>. HIDE DEF head
  <2>3. \E S : head \in Seq(S)
    BY <2>1, <2>2, TakeCuts
  <2>. QED  BY <2>3
<1>. HIDE DEF shown, head, m
<1>5. IsContext(start, head, merged, 0)
  <2>1. PICK used \in Nat : used = ExcerptFrame + Len(head)
    BY <1>4, RetrievalAssumption
  <2>2. start = [head |-> head, used |-> used, included |-> <<>>, truncated |-> FALSE]
    BY <2>1 DEF EmptyContext
  <2>. QED  BY <2>2 DEF IsContext
<1>. HIDE DEF start
<1>6. PICK F : Filling!IsFold(F, shown, start, merged)
  BY <1>2, Filling!FoldHasSteps DEF m
<1>7. /\ F[0] = start /\ \A k \in 1 .. m : F[k] = AddExcerpt(shown, F[k - 1], merged[k])
      /\ Filling!Fold(shown, start, merged) = F[m]
  BY <1>6 DEF Filling!IsFold, ContextStep, m
<1>. DEFINE T == {k \in 0 .. m : IsContext(F[k], head, merged, k)}
<1>8. 0 \in T
  BY <1>2, <1>5, <1>7
<1>9. ASSUME NEW k \in 1 .. m, k - 1 \in T PROVE k \in T
  <2>1. IsContext(F[k - 1], head, merged, k - 1)
    BY <1>9
  <2>2. IsContext(AddExcerpt(shown, F[k - 1], merged[k]), head, merged, k)
    BY <1>3, <2>1, ExcerptStep DEF m
  <2>3. k \in 0 .. m
    BY <1>2
  <2>. QED  BY <1>7, <2>2, <2>3
<1>10. m \in T
  <2>. HIDE DEF T
  <2>1. \A k \in 0 .. m : k \in T
    BY <1>2, <1>8, <1>9, Parsing!RangeInduction
  <2>. QED  BY <1>2, <2>1
<1>. QED  BY <1>1, <1>7, <1>10 DEF m, head, shown, start

-----------------------------------------------------------------------------
(* From the results of the queries to the prompt. *)

\* The results of queries on n chunks.
AreTraces(traces, n) ==
  /\ n \in Nat /\ \E m \in 1 .. 2 : DOMAIN traces = 1 .. m
  /\ \A q \in DOMAIN traces :
       /\ AreResults(traces[q].results) /\ Len(traces[q].results) <= K
       /\ Ids(traces[q].results) \subseteq 1 .. n

LEMMA TracesAreResults ==
  ASSUME NEW n \in Nat, NEW setup, NEW queries \in Queries(n, setup)
  PROVE  /\ AreTraces(RetrievalTraces(setup, queries, {}), n)
         /\ \A q \in DOMAIN queries :
              /\ RetrievalTraces(setup, queries, {})[q].results = QueryStore(setup, queries[q])
              /\ IsQuery(queries[q], n)
<1>. DEFINE traces == RetrievalTraces(setup, queries, {})
<1>1. \E m \in 1 .. 2 : DOMAIN queries = 1 .. m
  BY QueriesAreTyped
<1>2. \A q \in DOMAIN queries : IsQuery(queries[q], n)
  BY QueriesAreTyped
<1>3. /\ DOMAIN traces = DOMAIN queries
      /\ \A q \in DOMAIN queries : traces[q].results = QueryStore(setup, queries[q])
  BY DEF RetrievalTraces
<1>4. \A q \in DOMAIN queries :
        LET result == QueryStore(setup, queries[q])
        IN AreResults(result) /\ Len(result) <= K /\ Ids(result) \subseteq 1 .. n
  BY <1>2, QueryResults
<1>. HIDE DEF traces
<1>5. AreTraces(traces, n)
  BY <1>1, <1>3, <1>4 DEF AreTraces
<1>. QED  BY <1>2, <1>3, <1>5 DEF traces

IdsOf(traces) == UNION {Ids(traces[q].results) : q \in DOMAIN traces}

\* A finite set of numbers has a greatest.
LEMMA GreatestOfFinite ==
  ASSUME NEW S, S \subseteq Nat, S # {}, IsFiniteSet(S)
  PROVE  Max(S) \in S /\ \A i \in S : i <= Max(S)
<1>1. PICK n \in Nat : ExistsBijection(1 .. n, S)
  BY FS_NatBijection
<1>2. PICK f \in Bijection(1 .. n, S) : TRUE
  BY <1>1 DEF ExistsBijection
<1>3. /\ \A i \in 1 .. n : f[i] \in S /\ f[i] \in Nat
      /\ \A s \in S : \E i \in 1 .. n : f[i] = s
  BY <1>2 DEF Bijection, Surjection, Injection
<1>. DEFINE T == {k \in 0 .. n : \E b \in Nat : \A i \in 1 .. k : f[i] <= b}
<1>4. 0 \in T
  <2>1. 0 \in Nat /\ \A i \in 1 .. 0 : f[i] <= 0
    OBVIOUS
  <2>. QED  BY <2>1
<1>5. ASSUME NEW k \in 1 .. n, k - 1 \in T PROVE k \in T
  <2>1. PICK b \in Nat : \A i \in 1 .. k - 1 : f[i] <= b
    BY <1>5
  <2>2. PICK c \in Nat : c >= b /\ c >= f[k]
    <3>1. f[k] \in Nat
      BY <1>3
    <3>. QED  BY <3>1
  <2>3. \A i \in 1 .. k : f[i] <= c
    <3>. SUFFICES ASSUME NEW i \in 1 .. k PROVE f[i] <= c
      OBVIOUS
    <3>1. CASE i = k
      BY <2>2, <3>1
    <3>2. CASE i # k
      <4>1. i \in 1 .. k - 1 /\ i \in 1 .. n
        BY <3>2
      <4>2. f[i] <= b /\ f[i] \in Nat
        BY <1>3, <2>1, <4>1
      <4>. QED  BY <2>2, <4>2
    <3>. QED  BY <3>1, <3>2
  <2>. QED  BY <2>3, SMTT(20)
<1>6. n \in T
  <2>. HIDE DEF T
  <2>1. \A k \in 0 .. n : k \in T
    BY <1>4, <1>5, Parsing!RangeInduction
  <2>. QED  BY <2>1
<1>7. PICK b \in Nat : \A i \in 1 .. n : f[i] <= b
  BY <1>6
<1>8. S \subseteq 0 .. b
  <2>. SUFFICES ASSUME NEW s \in S PROVE s \in 0 .. b
    OBVIOUS
  <2>1. PICK i \in 1 .. n : f[i] = s
    BY <1>3
  <2>. QED  BY <1>7, <2>1
<1>. QED  BY <1>8, Parsing!MaxOfNumbers DEF Max, Parsing!Max

\* A chunk that was found is at one place of each result that has it, with a
\* score, and one of its scores is the best.
LEMMA PlacesOfChunk ==
  ASSUME NEW traces, NEW n, AreTraces(traces, n), NEW id \in IdsOf(traces)
  PROVE  LET scores == {ScoreAt(traces, pl) : pl \in Places(traces, id)}
         IN /\ id \in 1 .. n
            /\ \A pl \in Places(traces, id) :
                 /\ pl = <<pl[1], pl[2]>> /\ pl[1] \in Nat /\ pl[2] \in Nat
                 /\ ScoreAt(traces, pl) \in Nat
            /\ \A pl, o \in Places(traces, id) : pl[1] = o[1] => pl = o
            /\ Max(scores) \in Nat
            /\ \A pl \in Places(traces, id) : ScoreAt(traces, pl) <= Max(scores)
            /\ \E pl \in Places(traces, id) : ScoreAt(traces, pl) = Max(scores)
<1>. DEFINE places == Places(traces, id)
            scores == {ScoreAt(traces, pl) : pl \in places}
<1>1. PICK q \in DOMAIN traces : id \in Ids(traces[q].results)
  BY DEF IdsOf
<1>2. PICK m \in 1 .. 2 : DOMAIN traces = 1 .. m
  BY DEF AreTraces
<1>3. K \in Nat
  BY RetrievalAssumption
<1>4. \A p \in DOMAIN traces :
        /\ traces[p].results \in Seq(ItemType) /\ DOMAIN traces[p].results = 1 .. Len(traces[p].results)
        /\ Len(traces[p].results) \in Nat /\ Len(traces[p].results) <= K
        /\ \A r, t \in DOMAIN traces[p].results :
             traces[p].results[r].id = traces[p].results[t].id => r = t
  BY RankOfFacts DEF AreTraces, AreResults
<1>5. \A pl : pl \in places <=>
        /\ pl \in (1 .. m) \X (1 .. K) /\ pl[2] \in DOMAIN traces[pl[1]].results
        /\ traces[pl[1]].results[pl[2]].id = id
  BY <1>2 DEF Places
<1>6. places \subseteq (1 .. m) \X (1 .. K)
  BY <1>5
<1>. HIDE DEF places
<1>7. \A pl \in places :
        /\ pl = <<pl[1], pl[2]>> /\ pl[1] \in 1 .. m /\ pl[2] \in 1 .. K
        /\ pl[2] \in DOMAIN traces[pl[1]].results
        /\ traces[pl[1]].results[pl[2]].id = id
  BY <1>5
<1>8. ASSUME NEW pl \in places PROVE ScoreAt(traces, pl) \in Nat
  <2>1. traces[pl[1]].results[pl[2]] \in ItemType
    BY <1>2, <1>4, <1>7
  <2>. QED  BY <2>1 DEF ScoreAt, ItemType
<1>9. \A pl, o \in places : pl[1] = o[1] => pl = o
  <2>. SUFFICES ASSUME NEW pl \in places, NEW o \in places, pl[1] = o[1] PROVE pl = o
    OBVIOUS
  <2>1. pl[1] \in DOMAIN traces
    BY <1>2, <1>7
  <2>2. pl[2] = o[2]
    BY <1>4, <1>7, <2>1
  <2>. QED  BY <1>7, <2>2
<1>10. PICK r \in DOMAIN traces[q].results : traces[q].results[r].id = id
  BY <1>1 DEF Ids
<1>11. <<q, r>> \in places
  <2>1. q \in 1 .. m /\ r \in 1 .. K
    BY <1>2, <1>3, <1>4, <1>10
  <2>2. <<q, r>> \in (1 .. m) \X (1 .. K) /\ <<q, r>>[1] = q /\ <<q, r>>[2] = r
    BY <2>1
  <2>. QED  BY <1>5, <1>10, <2>2
<1>12. IsFiniteSet(scores)
  <2>1. IsFiniteSet(places)
    <3>1. IsFiniteSet(1 .. m) /\ IsFiniteSet(1 .. K)
      BY <1>3, FS_Interval
    <3>2. IsFiniteSet((1 .. m) \X (1 .. K))
      BY <3>1, FS_Product
    <3>. QED  BY <1>6, <3>2, FS_Subset
  <2>. DEFINE g == [pl \in places |-> ScoreAt(traces, pl)]
  <2>2. g \in Surjection(places, scores)
    BY DEF Surjection
  <2>. QED  BY <2>1, <2>2, FS_Surjection
<1>13. scores \subseteq Nat /\ scores # {}
  BY <1>8, <1>11
<1>14. \A pl \in places : ScoreAt(traces, pl) \in scores
  OBVIOUS
<1>15. \A s \in scores : \E pl \in places : ScoreAt(traces, pl) = s
  OBVIOUS
<1>. HIDE DEF scores
<1>16. Max(scores) \in scores /\ \A i \in scores : i <= Max(scores)
  BY <1>12, <1>13, GreatestOfFinite
<1>17. id \in 1 .. n
  BY <1>1 DEF AreTraces
<1>18. \A pl \in places : pl[1] \in Nat /\ pl[2] \in Nat
  BY <1>3, <1>7
<1>. QED  BY <1>7, <1>8, <1>9, <1>13, <1>14, <1>15, <1>16, <1>17, <1>18 DEF places, scores

BestOf(traces, id) == Max({ScoreAt(traces, pl) : pl \in Places(traces, id)})

MergedItems(traces) == {Item(id, BestOf(traces, id)) : id \in IdsOf(traces)}

LEMMA MergeIsRanking ==
  ASSUME NEW traces, NEW n, AreTraces(traces, n)
  PROVE  /\ IsRanking(MergeRetrievals(traces), MergedItems(traces))
         /\ AreItems(MergedItems(traces)) /\ MergedItems(traces) \subseteq ItemType
         /\ IdsOf(traces) \subseteq 1 .. n
<1>. DEFINE ids == IdsOf(traces)
            f   == [id \in ids |-> BestOf(traces, id)]
<1>1. ids \subseteq 1 .. n /\ n \in Nat
  BY PlacesOfChunk DEF AreTraces
<1>2. \A id \in ids : BestOf(traces, id) \in Nat
  BY PlacesOfChunk DEF BestOf
<1>3. IsFiniteSet(ids) /\ ids \subseteq Nat
  <2>1. IsFiniteSet(1 .. n)
    BY <1>1, FS_Interval
  <2>. QED  BY <1>1, <2>1, FS_Subset
<1>. HIDE DEF ids
<1>4. f \in [ids -> Nat] /\ \A id \in ids : f[id] = BestOf(traces, id)
  BY <1>2
<1>5. MergedItems(traces) = {Item(id, f[id]) : id \in ids}
  BY <1>4 DEF MergedItems, ids
<1>. HIDE DEF f
<1>6. AreItems(MergedItems(traces))
  BY <1>3, <1>4, <1>5, ItemsOfScores
<1>7. MergedItems(traces) \subseteq ItemType
  BY <1>3, <1>4, <1>5 DEF Item, ItemType
<1>8. MergeRetrievals(traces) = Ranking(MergedItems(traces))
  BY DEF MergeRetrievals, MergedItems, IdsOf, BestOf
<1>. QED  BY <1>1, <1>6, <1>7, <1>8, RankingRanks DEF ids

LEMMA PromptOfAnalysis ==
  ASSUME AnalysisInv, run.at \in {"indexed", "prompted"}
  PROVE  /\ doc \in Documents /\ AreQuotes(doc, Quotes(gate.findings))
         /\ run.chunks = Chunks(doc, gate.findings)
         /\ run.chunks \in Seq(ChunkType(Left(doc, gate.findings)))
<1>1. GateInv /\ AllowsAnalysis(gate) /\ run.chunks = Chunks(doc, gate.findings)
  BY DEF AnalysisInv, RunInv, GateAndReading
<1>2. doc \in Documents
  BY <1>1 DEF GateInv, GateTypeOK
<1>3. AreQuotes(doc, Quotes(gate.findings))
  BY <1>1, CalmFindings
<1>. QED  BY <1>1, <1>2, <1>3, ChunksAreLeft

LEMMA RestingRun ==
  NoAnalysis => FlaggedQuotesAreMasked /\ FusionKeepsAgreement /\ AuditIsThePrompt
BY DEF NoAnalysis, NotStarted, FlaggedQuotesAreMasked, FusionKeepsAgreement, AuditIsThePrompt

LEMMA ContextHasHead ==
  ASSUME AnalysisInv, run.at = "prompted"
  PROVE  /\ AreTraces(run.traces, Len(run.chunks))
         /\ IsRanking(MergeRetrievals(run.traces), MergedItems(run.traces))
         /\ IsContext(run.context, HeadOf(doc, gate.findings), MergeRetrievals(run.traces),
                      Len(MergeRetrievals(run.traces)))
<1>. DEFINE merged == MergeRetrievals(run.traces)
            items  == MergedItems(run.traces)
            n      == Len(run.chunks)
<1>1. PromptIsBuilt
  BY DEF AnalysisInv, RunInv
<1>2. /\ doc \in Documents /\ AreQuotes(doc, Quotes(gate.findings))
      /\ run.chunks \in Seq(ChunkType(Left(doc, gate.findings)))
  BY PromptOfAnalysis
<1>3. n \in Nat /\ DOMAIN run.chunks = 1 .. n
  BY <1>2
<1>4. AreTraces(run.traces, n)
  BY <1>1, <1>3, TracesAreResults DEF PromptIsBuilt
<1>5. /\ IsRanking(merged, items) /\ items \subseteq ItemType /\ IdsOf(run.traces) \subseteq 1 .. n
  BY <1>4, MergeIsRanking
<1>6. \A x \in items : x.id \in 1 .. n
  BY <1>5 DEF MergedItems, Item
<1>. HIDE DEF merged, items, n
<1>7. merged \in Seq(items) /\ DOMAIN merged = 1 .. Len(merged)
  BY <1>5, RankingIsSeq
<1>8. merged \in Seq(ItemType) /\ \A k \in 1 .. Len(merged) : merged[k].id \in DOMAIN run.chunks
  BY <1>3, <1>5, <1>6, <1>7
<1>9. run.context = FormatContext(doc, gate.findings, run.chunks, merged)
  BY <1>1 DEF PromptIsBuilt, merged
<1>10. IsContext(run.context, HeadOf(doc, gate.findings), merged, Len(merged))
  BY <1>2, <1>8, <1>9, ContextIsFilled
<1>. QED  BY <1>4, <1>5, <1>10 DEF merged, items, n

LEMMA NothingFlaggedIsShown == AnalysisInv => FlaggedQuotesAreMasked
<1>. SUFFICES ASSUME AnalysisInv PROVE FlaggedQuotesAreMasked
  OBVIOUS
<1>. DEFINE C == Left(doc, gate.findings)
<1>1. ASSUME run.at = "indexed", NEW i \in DOMAIN run.chunks
      PROVE  /\ Hides(run.chunks[i].text, Quotes(gate.findings))
             /\ Hides(run.chunks[i].section, Quotes(gate.findings))
  <2>1. /\ doc \in Documents /\ AreQuotes(doc, Quotes(gate.findings))
        /\ run.chunks \in Seq(ChunkType(C))
    BY <1>1, PromptOfAnalysis
  <2>2. run.chunks[i] \in ChunkType(C)
    BY <2>1
  <2>3. run.chunks[i].section \in Seq(C) /\ run.chunks[i].text \in Seq(C)
    BY <2>2, ChunkIsText
  <2>4. \A text \in Seq(C) : ToSet(text) \subseteq C
    BY DEF ToSet
  <2>5. \A text \in Seq(C) : Hides(text, Quotes(gate.findings))
    BY <2>1, <2>4, LeftHides
  <2>. QED  BY <2>3, <2>5
<1>2. ASSUME run.at = "prompted" PROVE Hides(run.context.head, Quotes(gate.findings))
  <2>1. doc \in Documents /\ AreQuotes(doc, Quotes(gate.findings))
    BY <1>2, PromptOfAnalysis
  <2>2. run.context.head = HeadOf(doc, gate.findings)
    <3>1. IsContext(run.context, HeadOf(doc, gate.findings), MergeRetrievals(run.traces),
                    Len(MergeRetrievals(run.traces)))
      BY <1>2, ContextHasHead
    <3>. QED  BY <3>1 DEF IsContext
  <2>3. Hides(HeadOf(doc, gate.findings), Quotes(gate.findings))
    BY <2>1, HeadHides DEF HeadOf
  <2>. QED  BY <2>2, <2>3
<1>. QED  BY <1>1, <1>2 DEF FlaggedQuotesAreMasked

\* No quote that the gate has flagged is in the index, in the title of a chunk
\* or in the head of the page that every agent reads, also when quotes overlap
\* (mask_flagged_text, sanitized_document, format_context_with_audit): for any
\* documents, findings and sizes of chunks.
THEOREM NothingFlaggedGetsThrough == ServiceSpec => []FlaggedQuotesAreMasked
<1>1. AnalysisPart => FlaggedQuotesAreMasked
  BY NothingFlaggedIsShown, RestingRun DEF AnalysisPart
<1>. QED  BY <1>1, AnalysisPartOK, PTL

LEMMA FusionKeeps == AnalysisInv => FusionKeepsAgreement
<1>. SUFFICES ASSUME AnalysisInv, run.at = "prompted", run.setup.hybrid, ~run.setup.reranked,
                     NEW q \in DOMAIN run.queries,
                     NEW a \in DOMAIN run.chunks, NEW b \in DOMAIN run.chunks
              PROVE  LET ck      == CandidateK(run.setup)
                         dense   == Ranked(run.queries[q].dense, DOMAIN run.chunks, ck)
                         lexical == Ranked(run.queries[q].lexical, DOMAIN run.chunks, ck)
                         result  == run.traces[q].results
                     IN /\ RankOf(dense, a) < RankOf(dense, b)
                        /\ RankOf(lexical, a) < RankOf(lexical, b)
                        => RankOf(result, a) < RankOf(result, b) \/ b \notin Ids(result)
  BY DEF FusionKeepsAgreement
<1>. DEFINE n == Len(run.chunks)
<1>1. PromptIsBuilt
  BY DEF AnalysisInv, RunInv
<1>2. n \in Nat /\ DOMAIN run.chunks = 1 .. n
  BY PromptOfAnalysis
<1>3. /\ run.traces[q].results = QueryStore(run.setup, run.queries[q])
      /\ IsQuery(run.queries[q], n)
  BY <1>1, <1>2, TracesAreResults DEF PromptIsBuilt
<1>4. AgreesWith(QueryStore(run.setup, run.queries[q]),
                 Ranked(run.queries[q].dense, 1 .. n, CandidateK(run.setup)),
                 Ranked(run.queries[q].lexical, 1 .. n, CandidateK(run.setup)))
  BY <1>2, <1>3, QueryResults
<1>. QED  BY <1>2, <1>3, <1>4 DEF AgreesWith

\* Fusion turns nothing upside down: a chunk that the search by vector and the
\* search by words both put before another is before it in the fused result,
\* or the other is cut off (reciprocal_rank_fusion, query_store): for any
\* scores, weights and numbers of chunks.
THEOREM FusionAgreesWithBoth == ServiceSpec => []FusionKeepsAgreement
<1>1. AnalysisPart => FusionKeepsAgreement
  BY FusionKeeps, RestingRun DEF AnalysisPart
<1>. QED  BY <1>1, AnalysisPartOK, PTL

\* Of the places of a chunk one has won: the first with the best score.
LEMMA OneWins ==
  ASSUME NEW traces, NEW n, AreTraces(traces, n), NEW id \in IdsOf(traces), NEW merged,
         NEW context, id \in ToSet(context.included)
  PROVE  LET marks == AnnotateSelection(traces, merged, context)
         IN \E pl \in Places(traces, id) :
              /\ ScoreAt(traces, pl) = BestOf(traces, id)
              /\ {o \in Places(traces, id) : marks[o[1]][o[2]]} = {pl}
<1>. DEFINE places == Places(traces, id)
            best   == BestOf(traces, id)
            top    == {pl \in places : ScoreAt(traces, pl) = best}
            marks  == AnnotateSelection(traces, merged, context)
            S      == {pl[1] : pl \in top}
            Wins(pl) == \A o \in places \ {pl} :
                          \/ ScoreAt(traces, pl) > ScoreAt(traces, o)
                          \/ ScoreAt(traces, pl) = ScoreAt(traces, o) /\ Before(pl, o)
<1>1. /\ \A pl \in places : /\ pl = <<pl[1], pl[2]>> /\ pl[1] \in Nat /\ pl[2] \in Nat
                            /\ ScoreAt(traces, pl) \in Nat
      /\ \A pl, o \in places : pl[1] = o[1] => pl = o
      /\ best \in Nat
      /\ \A pl \in places : ScoreAt(traces, pl) <= best
      /\ \E pl \in places : ScoreAt(traces, pl) = best
  BY PlacesOfChunk DEF BestOf
<1>2. ASSUME NEW pl \in places PROVE marks[pl[1]][pl[2]] <=> Wins(pl)
  <2>1. /\ pl[1] \in DOMAIN traces /\ pl[2] \in DOMAIN traces[pl[1]].results
        /\ traces[pl[1]].results[pl[2]].id = id
    BY DEF Places
  <2>2. pl = <<pl[1], pl[2]>>
    BY <1>1
  <2>. QED  BY <2>1, <2>2 DEF AnnotateSelection
<1>. HIDE DEF places, best, marks
<1>3. PICK pl \in top : \A o \in top : pl[1] <= o[1]
  <2>1. S \subseteq Nat /\ S # {}
    BY <1>1
  <2>2. PICK q \in S : \A p \in S : q <= p
    BY <2>1, Parsing!LeastNumber
  <2>. QED  BY <2>2
<1>4. Wins(pl)
  <2>. SUFFICES ASSUME NEW o \in places, o # pl
                PROVE  \/ ScoreAt(traces, pl) > ScoreAt(traces, o)
                       \/ ScoreAt(traces, pl) = ScoreAt(traces, o) /\ Before(pl, o)
    OBVIOUS
  <2>1. CASE ScoreAt(traces, o) = best
    <3>1. o \in top /\ o[1] # pl[1]
      BY <1>1, <2>1
    <3>2. pl[1] < o[1]
      BY <1>1, <1>3, <3>1
    <3>. QED  BY <2>1, <3>2 DEF Before
  <2>2. CASE ScoreAt(traces, o) # best
    BY <1>1, <2>2
  <2>. QED  BY <2>1, <2>2
<1>5. ASSUME NEW o \in places, Wins(o) PROVE o = pl
  <2>. SUFFICES ASSUME o # pl PROVE FALSE
    OBVIOUS
  <2>1. \/ ScoreAt(traces, pl) > ScoreAt(traces, o)
        \/ ScoreAt(traces, pl) = ScoreAt(traces, o) /\ Before(pl, o)
    BY <1>4
  <2>2. \/ ScoreAt(traces, o) > ScoreAt(traces, pl)
        \/ ScoreAt(traces, o) = ScoreAt(traces, pl) /\ Before(o, pl)
    BY <1>3, <1>5
  <2>3. /\ pl[1] \in Nat /\ pl[2] \in Nat /\ o[1] \in Nat /\ o[2] \in Nat
        /\ ScoreAt(traces, pl) \in Nat /\ ScoreAt(traces, o) \in Nat
    BY <1>1, <1>3
  <2>. QED  BY <2>1, <2>2, <2>3 DEF Before
<1>6. {o \in places : marks[o[1]][o[2]]} = {pl}
  <2>1. \A o \in places : marks[o[1]][o[2]] <=> o = pl
    BY <1>2, <1>3, <1>4, <1>5
  <2>. QED  BY <1>3, <2>1
<1>. QED  BY <1>3, <1>6 DEF places, best, marks

\* A chunk that is not shown has no mark.
LEMMA NoneWins ==
  ASSUME NEW traces, NEW id, NEW merged, NEW context, id \notin ToSet(context.included)
  PROVE  LET marks == AnnotateSelection(traces, merged, context)
         IN {o \in Places(traces, id) : marks[o[1]][o[2]]} = {}
<1>. DEFINE marks == AnnotateSelection(traces, merged, context)
<1>1. ASSUME NEW o \in Places(traces, id) PROVE ~marks[o[1]][o[2]]
  <2>1. /\ o[1] \in DOMAIN traces /\ o[2] \in DOMAIN traces[o[1]].results
        /\ traces[o[1]].results[o[2]].id = id
    BY DEF Places
  <2>. QED  BY <2>1 DEF AnnotateSelection
<1>. QED  BY <1>1

\* The chunks of a context are the best of what was found, unless it has all.
LEMMA BestAreShown ==
  ASSUME NEW traces, NEW n, AreTraces(traces, n), NEW head, NEW context,
         IsContext(context, head, MergeRetrievals(traces), Len(MergeRetrievals(traces)))
  PROVE  /\ ToSet(context.included) \subseteq IdsOf(traces)
         /\ \A a \in ToSet(context.included), b \in IdsOf(traces) \ ToSet(context.included) :
              BestOf(traces, a) >= BestOf(traces, b)
         /\ context.truncated \/ ToSet(context.included) = IdsOf(traces)
         /\ ToSet(context.included) # {} => context.used <= MAX_CONTEXT_CHARS
<1>. DEFINE merged == MergeRetrievals(traces)
            items  == MergedItems(traces)
            ids    == IdsOf(traces)
            shown  == ToSet(context.included)
<1>1. IsRanking(merged, items) /\ AreItems(items)
  BY MergeIsRanking
<1>2. \A id \in ids : Item(id, BestOf(traces, id)) \in items
  BY DEF MergedItems
<1>3. \A x \in items : x.id \in ids /\ x.score = BestOf(traces, x.id)
  BY DEF MergedItems, Item
<1>. HIDE DEF merged, items, ids
<1>4. merged \in Seq(items) /\ DOMAIN merged = 1 .. Len(merged) /\ Len(merged) \in Nat
  BY <1>1, RankingIsSeq
<1>. DEFINE m == Len(merged)
            j == Len(context.included)
<1>5. /\ context.included \in Seq(Nat) /\ j <= m /\ (context.truncated \/ j = m)
      /\ \A i \in 1 .. j : context.included[i] = merged[i].id
      /\ context.included # <<>> => context.used <= MAX_CONTEXT_CHARS
  BY DEF IsContext, merged
<1>6. j \in Nat /\ DOMAIN context.included = 1 .. j /\ 1 .. j \subseteq 1 .. m
  BY <1>4, <1>5
<1>7. shown = {merged[i].id : i \in 1 .. j}
  BY <1>5, <1>6 DEF ToSet
<1>8. \A id \in ids : \E i \in 1 .. m : merged[i] = Item(id, BestOf(traces, id))
  BY <1>1, <1>2, <1>4 DEF IsRanking
<1>. HIDE DEF shown, m, j
<1>9. shown \subseteq ids
  BY <1>3, <1>4, <1>6, <1>7 DEF m
<1>10. ASSUME NEW a \in shown, NEW b \in ids \ shown PROVE BestOf(traces, a) >= BestOf(traces, b)
  <2>1. PICK i \in 1 .. j : merged[i].id = a
    BY <1>7
  <2>2. PICK k \in 1 .. m : merged[k] = Item(b, BestOf(traces, b))
    BY <1>8
  <2>3. merged[k].id = b /\ merged[k].score = BestOf(traces, b)
    BY <2>2 DEF Item
  <2>4. k \notin 1 .. j
    BY <1>7, <1>10, <2>3
  <2>5. i < k /\ i \in 1 .. m
    BY <1>6, <2>4 DEF m, j
  <2>6. Better(merged[i], merged[k])
    BY <1>1, <1>4, <2>5 DEF IsRanking, m
  <2>7. merged[i] \in items /\ merged[k] \in items
    BY <1>4, <2>5 DEF m
  <2>8. merged[i].score = BestOf(traces, a)
    BY <1>3, <2>1, <2>7
  <2>9. merged[i].score \in Nat /\ merged[k].score \in Nat
    BY <1>1, <2>7 DEF AreItems
  <2>. QED  BY <2>3, <2>6, <2>8, <2>9 DEF Better
<1>11. context.truncated \/ shown = ids
  <2>. SUFFICES ASSUME j = m, NEW id \in ids PROVE id \in shown
    BY <1>5, <1>9
  <2>1. PICK i \in 1 .. m : merged[i] = Item(id, BestOf(traces, id))
    BY <1>8
  <2>2. merged[i].id = id
    BY <2>1 DEF Item
  <2>. QED  BY <1>7, <2>1, <2>2
<1>12. shown # {} => context.used <= MAX_CONTEXT_CHARS
  <2>. SUFFICES ASSUME context.included = <<>> PROVE shown = {}
    BY <1>5
  <2>. QED  BY DEF shown, ToSet
<1>. QED  BY <1>9, <1>10, <1>11, <1>12 DEF shown, ids

LEMMA AuditHolds == AnalysisInv => AuditIsThePrompt
<1>. SUFFICES ASSUME AnalysisInv, run.at = "prompted" PROVE AuditIsThePrompt
  BY DEF AuditIsThePrompt
<1>. DEFINE traces  == run.traces
            context == run.context
            merged  == MergeRetrievals(traces)
            shown   == ToSet(context.included)
            marked(id) == {pl \in Places(traces, id) : run.marks[pl[1]][pl[2]]}
<1>1. /\ AreTraces(traces, Len(run.chunks))
      /\ IsContext(context, HeadOf(doc, gate.findings), merged, Len(merged))
  BY ContextHasHead
<1>2. run.marks = AnnotateSelection(traces, merged, context)
  BY DEF AnalysisInv, RunInv, PromptIsBuilt
<1>3. ASSUME NEW id \in IdsOf(traces)
      PROVE  /\ Cardinality(marked(id)) = IF id \in shown THEN 1 ELSE 0
             /\ \A pl \in marked(id) : ScoreAt(traces, pl) = BestOf(traces, id)
  <2>1. CASE id \in shown
    <3>1. PICK pl \in Places(traces, id) :
            ScoreAt(traces, pl) = BestOf(traces, id) /\ marked(id) = {pl}
      BY <1>1, <1>2, <2>1, OneWins
    <3>2. Cardinality({pl}) = 1
      BY FS_Singleton
    <3>. QED  BY <2>1, <3>1, <3>2
  <2>2. CASE id \notin shown
    <3>1. marked(id) = {}
      BY <1>2, <2>2, NoneWins
    <3>2. Cardinality({}) = 0
      BY FS_EmptySet
    <3>. QED  BY <2>2, <3>1, <3>2
  <2>. QED  BY <2>1, <2>2
<1>4. /\ \A a \in shown, b \in IdsOf(traces) \ shown : BestOf(traces, a) >= BestOf(traces, b)
      /\ context.truncated \/ shown = IdsOf(traces)
      /\ shown # {} => context.used <= MAX_CONTEXT_CHARS
  BY <1>1, BestAreShown
<1>. QED  BY <1>3, <1>4 DEF AuditIsThePrompt, IdsOf, BestOf

\* The audit is the prompt: the excerpts in front of an agent are the best of
\* what its queries brought, within the limit and cut only at the end, and each
\* is marked on one result, with its best score (merge_retrievals,
\* format_context_with_audit, annotate_retrieval_selection): for any documents,
\* scores and limits.
THEOREM AuditIsOfThePrompt == ServiceSpec => []AuditIsThePrompt
<1>1. AnalysisPart => AuditIsThePrompt
  BY AuditHolds, RestingRun DEF AnalysisPart
<1>. QED  BY <1>1, AnalysisPartOK, PTL

-----------------------------------------------------------------------------
(* What a citation of a report shows. *)

\* A text without its blank lines.
LEMMA PlainHolds ==
  ASSUME NEW C, NEW d, NEW text \in Seq(C)
  PROVE  /\ Plain(d, text) \in Seq(C)
         /\ \A c : c \in ToSet(Plain(d, text)) <=> c \in ToSet(text) /\ Kind(d, c) # "/"
<1>. DEFINE f == [i \in DOMAIN text |-> IF Kind(d, text[i]) = "/" THEN <<>> ELSE <<text[i]>>]
<1>1. Len(text) \in Nat /\ DOMAIN text = 1 .. Len(text) /\ \A i \in 1 .. Len(text) : text[i] \in C
  OBVIOUS
<1>2. /\ DOMAIN f = 1 .. Len(text) /\ f = [i \in 1 .. Len(text) |-> f[i]]
      /\ \A i \in 1 .. Len(text) : f[i] = IF Kind(d, text[i]) = "/" THEN <<>> ELSE <<text[i]>>
  BY <1>1
<1>3. Plain(d, text) = FlattenSeq(f)
  BY DEF Plain
<1>. HIDE DEF f
<1>4. f \in Seq(Seq(C))
  <2>1. \A x \in C : <<x>> \in Seq(C)
    OBVIOUS
  <2>2. <<>> \in Seq(C)
    OBVIOUS
  <2>3. ASSUME NEW i \in 1 .. Len(text) PROVE f[i] \in Seq(C)
    <3>1. f[i] = <<>> \/ f[i] = <<text[i]>>
      BY <1>2
    <3>. QED  BY <1>1, <2>1, <2>2, <3>1
  <2>. QED  BY <1>1, <1>2, <2>3, FunctionIsSeq
<1>5. /\ FlattenSeq(f) \in Seq(C)
      /\ ToSet(FlattenSeq(f)) = UNION {ToSet(f[p]) : p \in DOMAIN f}
  BY <1>4, FlattenHolds
<1>6. ASSUME NEW i \in 1 .. Len(text), NEW c
      PROVE  c \in ToSet(f[i]) <=> c = text[i] /\ Kind(d, text[i]) # "/"
  <2>1. CASE Kind(d, text[i]) = "/"
    <3>1. f[i] = <<>>
      BY <1>2, <2>1
    <3>. QED  BY <2>1, <3>1 DEF ToSet
  <2>2. CASE Kind(d, text[i]) # "/"
    <3>1. f[i] = <<text[i]>>
      BY <1>2, <2>2
    <3>2. DOMAIN f[i] = {1} /\ f[i][1] = text[i]
      BY <3>1
    <3>. QED  BY <2>2, <3>2 DEF ToSet
  <2>. QED  BY <2>1, <2>2
<1>7. ASSUME NEW c
      PROVE  c \in ToSet(Plain(d, text)) <=> c \in ToSet(text) /\ Kind(d, c) # "/"
  <2>1. c \in ToSet(Plain(d, text)) <=> \E i \in 1 .. Len(text) : c \in ToSet(f[i])
    BY <1>2, <1>3, <1>5
  <2>2. c \in ToSet(text) <=> \E i \in 1 .. Len(text) : c = text[i]
    BY <1>1 DEF ToSet
  <2>. QED  BY <1>6, <2>1, <2>2
<1>. QED  BY <1>3, <1>5, <1>7

\* A part of a text has no characters but those of the text.
LEMMA PartIsOfText ==
  ASSUME NEW C, NEW text \in Seq(C), NEW s \in SubSeqs(text)
  PROVE  ToSet(s) \subseteq ToSet(text)
<1>1. CASE s = <<>>
  BY <1>1 DEF ToSet
<1>2. ASSUME NEW f \in 1 .. Len(text), NEW t \in 1 .. Len(text), f <= t, s = SubSeq(text, f, t)
      PROVE  ToSet(s) \subseteq ToSet(text)
  <2>. DEFINE w == Len(text)
  <2>1. w \in Nat /\ DOMAIN text = 1 .. w /\ f \in 1 .. w /\ t \in 1 .. w
    OBVIOUS
  <2>2. f \in 1 .. w + 1 /\ t \in f - 1 .. w
    BY <1>2, <2>1
  <2>3. DOMAIN s = 1 .. t - f + 1 /\ \A k \in 1 .. t - f + 1 : s[k] = text[f + k - 1]
    BY <1>2, <2>2, SubSeqFacts
  <2>. HIDE DEF w
  <2>4. \A k \in 1 .. t - f + 1 : f + k - 1 \in 1 .. w
    BY <2>1
  <2>. QED  BY <2>1, <2>3, <2>4 DEF ToSet
<1>. QED  BY <1>1, <1>2, PartsAreStretches

\* Of each quote something is masked on its page, by a quote that is gone.
LEMMA QuoteIsCut ==
  ASSUME NEW d \in Documents, NEW findings, AreQuotes(d, Quotes(findings)),
         NEW q \in Quotes(findings)
  PROVE  \E other \in Quotes(findings) :
           /\ other.page = q.page
           /\ \E a \in q.from .. q.to : a \in other.from .. other.to
           /\ \A a \in other.from .. other.to : <<q.page, a>> \notin LeftOn(d, findings, q.page)
<1>. DEFINE quotes == Quotes(findings)
            qs     == ByLength(quotes)
            p      == q.page
            n      == Len(Page(d, p))
            m      == Len(qs)
            page   == MaskFlaggedText(PageText(d, p), findings)
<1>1. /\ q \in Spans /\ p \in DOMAIN d.pages /\ q.from \in 1 .. q.to /\ q.to \in 1 .. n
  BY DEF AreQuotes
<1>2. qs \in Seq(quotes) /\ m \in Nat /\ DOMAIN qs = 1 .. m
  BY QuotesByLength DEF AreQuotes
<1>3. IsMasked(page, p, n, qs, m)
  BY <1>1, PageAfterMasks
<1>4. page \in Seq(LeftOn(d, findings, p)) /\ LeftOn(d, findings, p) = ToSet(page)
  BY <1>1, LeftIsOnPage DEF LeftOn
<1>5. ToSet(page) \subseteq Left(d, findings)
  BY <1>1, <1>4 DEF Left
<1>6. Characters(q) \notin SubSeqs(page)
  BY <1>4, <1>5, LeftHides DEF Hides
<1>7. n \in Nat
  BY <1>1, PageOfDocument
<1>. HIDE DEF quotes, qs, n, m, page
<1>8. PICK a \in q.from .. q.to : <<p, a>> \notin ToSet(page)
  <2>1. IsPageText(page, p, n)
    BY <1>3 DEF IsMasked
  <2>. QED  BY <1>1, <1>6, <1>7, <2>1, NeighboursArePart
<1>9. a \in 1 .. n
  BY <1>1, <1>7
<1>10. PICK j \in 1 .. m : /\ qs[j].page = p /\ a \in qs[j].from .. qs[j].to
                           /\ IsGone(page, qs[j])
  BY <1>3, <1>8, <1>9 DEF IsMasked
<1>11. qs[j] \in quotes
  BY <1>2
<1>. QED  BY <1>4, <1>10, <1>11 DEF IsGone, quotes

\* A text in which no quote is found stays as it is.
LEMMA NothingToMask ==
  ASSUME NEW d, NEW findings, AreQuotes(d, Quotes(findings)), NEW text,
         \A q \in Quotes(findings) : Characters(q) \notin SubSeqs(text)
  PROVE  MaskFlaggedText(text, findings) = text
<1>. DEFINE qs == ByLength(Quotes(findings))
<1>1. qs \in Seq(Quotes(findings))
  BY QuotesByLength DEF AreQuotes
<1>2. MaskFlaggedText(text, findings) = Masking!Fold(0, text, qs)
  BY MaskingIsFold
<1>. DEFINE T == {text}
<1>3. \A t \in T : \A q \in Quotes(findings) : MaskStep(0, t, q) \in T
  BY DEF MaskStep, MaskQuote, ReplaceFirstSubSeq
<1>4. text \in T
  OBVIOUS
<1>5. Masking!Fold(0, text, qs) \in T
  <2>. HIDE DEF T, qs
  <2>. QED  BY <1>1, <1>3, <1>4, Masking!FoldKeeps
<1>. QED  BY <1>2, <1>5

\* A quote of what is left of a document shows nothing that is masked: not even
\* where only blank lines of it are.
LEMMA CitedIsUnmasked ==
  ASSUME NEW d \in Documents, NEW findings, AreQuotes(d, Quotes(findings)), NEW X,
         NEW text \in Seq(X), ToSet(text) \subseteq Left(d, findings),
         NEW c, c.page \in DOMAIN d.pages, c.from \in Nat \ {0}, c.to \in Nat,
         QuoteMatches(d, c, text)
  PROVE  MaskFlaggedText(Characters(c), findings) = Characters(c)
<1>. DEFINE p == c.page
            s == Characters(c)
            C == LeftOn(d, findings, p)
<1>1. Plain(d, s) \in SubSeqs(Plain(d, text)) /\ Plain(d, s) # <<>>
  BY DEF QuoteMatches
<1>2. CASE c.to < c.from
  <2>1. s = <<>>
    <3>1. Size(c) \in Int /\ Size(c) <= 0
      BY <1>2 DEF Size
    <3>2. 1 .. Size(c) = {}
      BY <3>1
    <3>. QED  BY <3>2 DEF Characters
  <2>. HIDE DEF s
  <2>2. Plain(d, s) = <<>>
    <3>1. s \in Seq({}) /\ \A z \in Seq({}) : z = <<>>
      BY <2>1
    <3>2. Plain(d, s) \in Seq({})
      BY <3>1, PlainHolds
    <3>. QED  BY <3>1, <3>2
  <2>. QED  BY <1>1, <2>2
<1>3. CASE c.from <= c.to
  <2>. DEFINE e == SpanOf(p, c.from, c.to)
  <2>1. p \in Nat
    BY PageOfDocument
  <2>2. e \in Spans /\ e.from \in 1 .. e.to /\ e.page = p /\ e.from = c.from /\ e.to = c.to
    BY <1>3, <2>1 DEF Spans, SpanOf
  <2>3. s = Characters(e)
    BY <2>2 DEF Characters, Size
  <2>. HIDE DEF e, s
  <2>4. /\ s \in Seq({p} \X (1 .. c.to)) /\ ToSet(s) = {<<p, a>> : a \in c.from .. c.to}
        /\ DOMAIN s = 1 .. Len(s) /\ Len(s) \in Nat
        /\ \A k \in 1 .. Len(s) : s[k] = <<p, c.from + k - 1>>
    BY <2>2, <2>3, CharactersOf
  <2>5. ASSUME NEW a \in c.from .. c.to, Page(d, p)[a] # "/" PROVE <<p, a>> \in C
    <3>1. a # 0 /\ Kind(d, <<p, a>>) # "/"
      BY <2>5 DEF Kind
    <3>2. <<p, a>> \in ToSet(Plain(d, s))
      BY <2>4, <3>1, PlainHolds
    <3>3. <<p, a>> \in ToSet(text)
      <4>1. Plain(d, text) \in Seq(X)
        BY PlainHolds
      <4>2. <<p, a>> \in ToSet(Plain(d, text))
        BY <1>1, <3>2, <4>1, PartIsOfText
      <4>. QED  BY <4>2, PlainHolds
    <3>4. PICK r \in DOMAIN d.pages : <<p, a>> \in LeftOn(d, findings, r)
      BY <3>3 DEF Left
    <3>5. \A x \in LeftOn(d, findings, r) : x \in {r} \X (0 .. Len(Page(d, r)))
      BY LeftIsOnPage
    <3>. HIDE DEF p
    <3>6. r = p
      BY <3>4, <3>5
    <3>. QED  BY <3>4, <3>6
  <2>6. ASSUME NEW q \in Quotes(findings), Characters(q) \in SubSeqs(s) PROVE FALSE
    <3>1. /\ q \in Spans /\ q.from \in 1 .. q.to /\ Page(d, q.page)[q.from] # "/"
          /\ q.from \in Nat /\ q.to \in Nat
      BY DEF AreQuotes, Spans
    <3>2. ToSet(Characters(q)) = {<<q.page, a>> : a \in q.from .. q.to}
      BY <3>1, CharactersOf
    <3>3. ToSet(Characters(q)) \subseteq ToSet(s)
      BY <2>4, <2>6, PartIsOfText
    <3>4. q.page = p /\ \A a \in q.from .. q.to : a \in c.from .. c.to
      <4>1. q.from \in q.from .. q.to
        BY <3>1
      <4>2. \A a \in q.from .. q.to : \E b \in c.from .. c.to : <<q.page, a>> = <<p, b>>
        BY <2>4, <3>2, <3>3
      <4>. QED  BY <4>1, <4>2
    <3>5. PICK o \in Quotes(findings) :
            /\ o.page = p
            /\ \E a \in q.from .. q.to : a \in o.from .. o.to
            /\ \A a \in o.from .. o.to : <<p, a>> \notin C
      BY <3>4, QuoteIsCut
    <3>6. /\ o.from \in 1 .. o.to /\ Page(d, p)[o.from] # "/" /\ o.from \in Nat /\ o.to \in Nat
      BY <3>5 DEF AreQuotes, Spans
    <3>7. PICK a \in q.from .. q.to : a \in o.from .. o.to
      BY <3>5
    <3>. HIDE DEF C, p
    <3>8. CASE q.from <= o.from
      <4>0. a \in Int /\ a <= q.to /\ o.from <= a /\ o.from <= o.to /\ q.to \in Int /\ q.from \in Int
        BY <3>1, <3>6, <3>7
      <4>1. o.from \in q.from .. q.to /\ o.from \in o.from .. o.to
        BY <3>6, <3>8, <4>0
      <4>. QED  BY <2>5, <3>4, <3>5, <3>6, <4>1
    <3>9. CASE ~(q.from <= o.from)
      <4>0. a \in Int /\ q.from <= a /\ a <= o.to /\ q.from <= q.to /\ o.to \in Int /\ o.from \in Int
        BY <3>1, <3>6, <3>7
      <4>1. q.from \in o.from .. o.to /\ q.from \in q.from .. q.to
        BY <3>1, <3>9, <4>0
      <4>. QED  BY <2>5, <3>1, <3>4, <3>5, <4>1
    <3>. QED  BY <3>8, <3>9
  <2>7. MaskFlaggedText(s, findings) = s
    BY <2>6, NothingToMask
  <2>. QED  BY <2>7 DEF s
<1>4. c.to \in Int /\ c.from \in Int
  OBVIOUS
<1>. QED  BY <1>2, <1>3, <1>4

-----------------------------------------------------------------------------
(* The report. *)

\* An answer was given to the prompt, about the chunks of the document.
AnswerIsBased ==
  /\ AllowsAnalysis(gate) /\ run.chunks = Chunks(doc, gate.findings)
  /\ IncludedByTraces(run) \subseteq ToSet(run.context.included)
  /\ run.conclusions \in Answers

AnswerInv ==
  /\ run.at # "waiting" => gate.at = "assessed"
  /\ run.at \in {"waiting", "indexed", "prompted"} => run.conclusions = <<>>
  /\ run.at = "answered" => run.conclusions = <<>> \/ AnswerIsBased
  /\ ReportCanBeTraced

AnswerPart == IF part = "analysis" THEN AnalysisInv /\ AnswerInv ELSE NoAnalysis

\* Only a result whose chunk the context shows is marked.
LEMMA MarkedIsShown ==
  ASSUME NEW traces, NEW merged, NEW context, NEW r,
         r.traces = traces, r.marks = AnnotateSelection(traces, merged, context)
  PROVE  IncludedByTraces(r) \subseteq ToSet(context.included)
<1>. DEFINE marks == AnnotateSelection(traces, merged, context)
<1>. SUFFICES ASSUME NEW q \in DOMAIN marks, NEW i \in DOMAIN marks[q], marks[q][i]
              PROVE  traces[q].results[i].id \in ToSet(context.included)
  BY DEF IncludedByTraces
<1>1. q \in DOMAIN traces /\ i \in DOMAIN traces[q].results
  BY DEF AnnotateSelection
<1>. QED  BY <1>1 DEF AnnotateSelection

\* What a verified citation shows.
LEMMA VerifiedIsTraced ==
  ASSUME GateInv, AnswerIsBased, NEW i \in DOMAIN run.conclusions,
         NEW c \in Verified(run.conclusions[i])
  PROVE  /\ c.to <= Len(Page(doc, c.page))
         /\ c.chunk # None =>
              \E p \in DOMAIN doc.pages :
                p = c.page /\ MaskFlaggedText(Characters(c), gate.findings) = Characters(c)
<1>1. /\ doc \in Documents /\ AreQuotes(doc, Quotes(gate.findings))
      /\ run.chunks = Chunks(doc, gate.findings) /\ run.conclusions \in Answers
  BY CalmFindings DEF AnswerIsBased, GateInv, GateTypeOK
<1>2. c \in run.conclusions[i] /\ CitationIsValid(doc, run.chunks, c)
  BY DEF Verified
<1>3. c \in [page : Nat, from : Nat \ {0}, to : Nat, chunk : Nat \cup {None}]
  <2>1. run.conclusions \in Seq(SUBSET [page : Nat, from : Nat \ {0}, to : Nat,
                                        chunk : Nat \cup {None}])
    BY <1>1, AnswersAssumption
  <2>. QED  BY <1>2, <2>1
<1>4. c.page \in DOMAIN doc.pages /\ c.to <= Len(Page(doc, c.page))
  BY <1>2 DEF CitationIsValid, QuoteMatches
<1>5. ASSUME c.chunk # None
      PROVE  MaskFlaggedText(Characters(c), gate.findings) = Characters(c)
  <2>. DEFINE C == Left(doc, gate.findings)
  <2>1. run.chunks \in Seq(ChunkType(C)) /\ c.chunk \in DOMAIN run.chunks
        /\ QuoteMatches(doc, c, run.chunks[c.chunk].text)
    BY <1>1, <1>2, <1>5, ChunksAreLeft DEF CitationIsValid
  <2>. HIDE DEF C
  <2>2. run.chunks[c.chunk] \in ChunkType(C)
    BY <2>1
  <2>3. run.chunks[c.chunk].text \in Seq(C)
    BY <2>2, ChunkIsText
  <2>4. ToSet(run.chunks[c.chunk].text) \subseteq C
    BY <2>3 DEF ToSet
  <2>. QED  BY <1>1, <1>3, <1>4, <2>1, <2>3, <2>4, CitedIsUnmasked DEF C
<1>. QED  BY <1>4, <1>5

LEMMA ComposeOK ==
  ASSUME GateInv, RunInv, AnswerInv, ComposeReport PROVE AnswerInv'
<1>. DEFINE kept == [i \in DOMAIN run.conclusions |-> Verified(run.conclusions[i])]
<1>. DEFINE short == \E i \in DOMAIN kept : kept[i] = {}
            written == [conclusions |-> kept, rejected |-> kept # run.conclusions,
                        untraced |-> Untraced(kept) # {}, unproved |-> short,
                        stopped |-> ~AllowsAnalysis(gate)]
<1>a. run' = [run EXCEPT !.at = "reported", !.report = written]
  BY Zenon DEF ComposeReport
<1>b. /\ written.conclusions = kept /\ written.rejected = (kept # run.conclusions)
      /\ written.untraced = (Untraced(kept) # {}) /\ written.stopped = ~AllowsAnalysis(gate)
  <2>. HIDE DEF kept, short
  <2>. QED  BY Zenon
<1>1. PICK report :
        /\ run' = [run EXCEPT !.at = "reported", !.report = report]
        /\ report.conclusions = kept /\ report.rejected = (kept # run.conclusions)
        /\ report.untraced = (Untraced(kept) # {}) /\ report.stopped = ~AllowsAnalysis(gate)
  <2>. HIDE DEF written, kept, short
  <2>. QED  BY <1>a, <1>b, Zenon
<1>. HIDE DEF written, short
<1>2. run' = [at |-> "reported", chunks |-> run.chunks, setup |-> run.setup,
              queries |-> run.queries, traces |-> run.traces, marks |-> run.marks,
              context |-> run.context, conclusions |-> run.conclusions, report |-> report]
  <2>. HIDE DEF kept
  <2>1. run' = [run EXCEPT !.at = "reported", !.report = report]
    BY <1>1
  <2>. QED  BY <2>1 DEF RunInv
<1>3. /\ run'.at = "reported" /\ run'.report = report /\ run'.conclusions = run.conclusions
      /\ run'.context = run.context
  BY <1>2
<1>4. /\ doc' = doc /\ gate' = gate /\ gate.at = "assessed"
      /\ run.conclusions = <<>> \/ AnswerIsBased
  BY DEF ComposeReport, AnswerInv
<1>5. CASE run.conclusions = <<>>
  <2>1. kept = <<>>
    BY <1>5
  <2>. HIDE DEF kept
  <2>2. report.conclusions = <<>> /\ DOMAIN report.conclusions = {}
        /\ report.conclusions = run.conclusions
    BY <1>1, <1>5, <2>1
  <2>3. ReportCanBeTraced'
    BY <1>3, <2>2 DEF ReportCanBeTraced
  <2>. QED  BY <1>3, <1>4, <2>3 DEF AnswerInv
<1>6. CASE AnswerIsBased
  <2>1. ~report.stopped /\ (report.rejected \/ report.conclusions = run.conclusions)
    BY <1>1, <1>6 DEF AnswerIsBased
  <2>2. ASSUME NEW i \in DOMAIN report.conclusions, NEW c \in report.conclusions[i]
        PROVE  /\ c.to <= Len(Page(doc, c.page))
               /\ c.chunk # None =>
                    /\ \E p \in DOMAIN doc.pages :
                         p = c.page /\ MaskFlaggedText(Characters(c), gate.findings) = Characters(c)
                    /\ report.untraced \/ c.chunk \in ToSet(run.context.included)
    <3>1. i \in DOMAIN run.conclusions /\ c \in Verified(run.conclusions[i])
      BY <1>1, <2>2
    <3>2. ASSUME c.chunk # None, ~report.untraced
          PROVE  c.chunk \in ToSet(run.context.included)
      <4>1. c \in UNION ToSet(kept)
        BY <1>1, <2>2 DEF ToSet
      <4>2. Untraced(kept) = {}
        BY <1>1, <3>2
      <4>. HIDE DEF kept
      <4>3. c.chunk \in IncludedByTraces(run)
        BY <3>2, <4>1, <4>2 DEF Untraced
      <4>. QED  BY <1>6, <4>3 DEF AnswerIsBased
    <3>. QED  BY <1>6, <3>1, <3>2, VerifiedIsTraced
  <2>. HIDE DEF kept
  <2>3. ReportCanBeTraced'
    BY <1>3, <1>4, <2>1, <2>2 DEF ReportCanBeTraced
  <2>. QED  BY <1>3, <1>4, <2>3 DEF AnswerInv
<1>. QED  BY <1>4, <1>5, <1>6

LEMMA AnswerOK ==
  ASSUME GateInv, RunInv, AnswerInv, NEW answer \in Answers \cup {<<>>}, RunAgent(answer)
  PROVE  AnswerInv'
<1>1. run' = [at |-> "answered", chunks |-> run.chunks, setup |-> run.setup,
              queries |-> <<>>, traces |-> run.traces, marks |-> run.marks,
              context |-> run.context, conclusions |-> answer, report |-> run.report]
  BY DEF RunInv, RunAgent
<1>2. /\ run'.at = "answered" /\ run'.chunks = run.chunks /\ run'.traces = run.traces
      /\ run'.marks = run.marks /\ run'.context = run.context /\ run'.conclusions = answer
  BY <1>1
<1>3. /\ run.at = "prompted" /\ AllowsAnalysis(gate) /\ run.chunks = Chunks(doc, gate.findings)
      /\ doc' = doc /\ gate' = gate /\ gate.at = "assessed"
  BY DEF RunAgent, RunInv, AnswerInv
<1>4. IncludedByTraces(run) \subseteq ToSet(run.context.included)
  <2>1. run.marks = AnnotateSelection(run.traces, MergeRetrievals(run.traces), run.context)
    BY <1>3 DEF RunInv, PromptIsBuilt
  <2>. QED  BY <2>1, MarkedIsShown
<1>5. IncludedByTraces(run)' = IncludedByTraces(run)
  BY <1>2 DEF IncludedByTraces
<1>6. answer = <<>> \/ AnswerIsBased'
  <2>1. AllowsAnalysis(gate)' /\ run'.chunks = Chunks(doc', gate'.findings)
    BY <1>2, <1>3
  <2>2. (IncludedByTraces(run) \subseteq ToSet(run.context.included))'
    BY <1>2, <1>4, <1>5
  <2>. QED  BY <1>2, <2>1, <2>2 DEF AnswerIsBased
<1>7. ReportCanBeTraced'
  BY <1>2 DEF ReportCanBeTraced
<1>. QED  BY <1>2, <1>3, <1>6, <1>7 DEF AnswerInv

LEMMA AnswerNextOK ==
  ASSUME GateAndReading, RunInv, AnswerInv, Next PROVE AnswerInv'
<1>0. GateInv
  BY DEF GateAndReading
<1>1. CASE Scan /\ UNCHANGED run
  <2>1. gate.at # "assessed"
    BY <1>1 DEF Scan, ScanRules, RuleScanFails, ChooseCandidates, SemanticReview,
                SemanticReviewFails
  <2>2. run.at = "waiting" /\ run.conclusions = <<>>
    BY <2>1 DEF AnswerInv
  <2>. QED  BY <1>1, <2>2 DEF AnswerInv, ReportCanBeTraced
<1>2. CASE IndexDocument
  <2>1. PICK chunks : run' = [run EXCEPT !.at = "indexed", !.chunks = chunks]
    BY <1>2 DEF IndexDocument
  <2>2. run' = [at |-> "indexed", chunks |-> chunks, setup |-> run.setup,
                queries |-> run.queries, traces |-> run.traces, marks |-> run.marks,
                context |-> run.context, conclusions |-> run.conclusions, report |-> run.report]
    BY <2>1 DEF RunInv
  <2>3. run'.at = "indexed" /\ run'.conclusions = run.conclusions
    BY <2>2
  <2>4. gate' = gate /\ gate.at = "assessed" /\ run.conclusions = <<>>
    BY <1>2 DEF IndexDocument, AnswerInv, AllowsAnalysis
  <2>. QED  BY <2>3, <2>4 DEF AnswerInv, ReportCanBeTraced
<1>3. ASSUME NEW setup \in Setups, BuildPrompt(setup) PROVE AnswerInv'
  <2>a. PICK queries \in Queries(Len(run.chunks), setup) :
          run' = [run EXCEPT !.at = "prompted", !.setup = setup, !.queries = queries,
                    !.traces = RetrievalTraces(setup, queries, {}),
                    !.context = FormatContext(doc, gate.findings, run.chunks,
                                  MergeRetrievals(RetrievalTraces(setup, queries, {}))),
                    !.marks = AnnotateSelection(RetrievalTraces(setup, queries, {}),
                                MergeRetrievals(RetrievalTraces(setup, queries, {})),
                                FormatContext(doc, gate.findings, run.chunks,
                                  MergeRetrievals(RetrievalTraces(setup, queries, {}))))]
    BY <1>3 DEF BuildPrompt
  <2>b. PICK traces : traces = RetrievalTraces(setup, queries, {})
    OBVIOUS
  <2>c. PICK context :
          context = FormatContext(doc, gate.findings, run.chunks, MergeRetrievals(traces))
    OBVIOUS
  <2>d. PICK marks : marks = AnnotateSelection(traces, MergeRetrievals(traces), context)
    OBVIOUS
  <2>1. run' = [run EXCEPT !.at = "prompted", !.setup = setup, !.queries = queries,
                  !.traces = traces, !.context = context, !.marks = marks]
    BY <2>a, <2>b, <2>c, <2>d, Zenon
  <2>2. run' = [at |-> "prompted", chunks |-> run.chunks, setup |-> setup,
                queries |-> queries, traces |-> traces, marks |-> marks,
                context |-> context, conclusions |-> run.conclusions, report |-> run.report]
    BY <2>1 DEF RunInv
  <2>3. run'.at = "prompted" /\ run'.conclusions = run.conclusions
    BY <2>2
  <2>4. gate' = gate /\ gate.at = "assessed" /\ run.conclusions = <<>>
    BY <1>3 DEF BuildPrompt, IsPrompted, AnswerInv
  <2>. QED  BY <2>3, <2>4 DEF AnswerInv, ReportCanBeTraced
<1>4. ASSUME NEW setup \in Setups, RetrievalFails(setup) PROVE AnswerInv'
  <2>1. PICK traces, marks :
          run' = [run EXCEPT !.at = "answered", !.traces = traces, !.marks = marks]
    BY <1>4 DEF RetrievalFails
  <2>2. run' = [at |-> "answered", chunks |-> run.chunks, setup |-> run.setup,
                queries |-> run.queries, traces |-> traces, marks |-> marks,
                context |-> run.context, conclusions |-> run.conclusions, report |-> run.report]
    BY <2>1 DEF RunInv
  <2>3. run'.at = "answered" /\ run'.conclusions = run.conclusions
    BY <2>2
  <2>4. gate' = gate /\ gate.at = "assessed" /\ run.conclusions = <<>>
    BY <1>4 DEF RetrievalFails, IsPrompted, AnswerInv
  <2>. QED  BY <2>3, <2>4 DEF AnswerInv, ReportCanBeTraced
<1>. QED  BY <1>0, <1>1, <1>2, <1>3, <1>4, AnswerOK, ComposeOK DEF Next

LEMMA AnswerRests == AnswerInv /\ UNCHANGED vars => AnswerInv'
BY DEF AnswerInv, AnswerIsBased, ReportCanBeTraced, IncludedByTraces, vars

LEMMA RestingAnswer == NoAnalysis => ReportCanBeTraced
BY DEF NoAnalysis, NotStarted, ReportCanBeTraced

\* A report shows only what can be followed back (validate_report_citations,
\* compose_report): a citation it keeps is on its page and in its chunk, nothing
\* of it was masked, and without a warning every excerpt it names was in front of
\* the agent: for any documents, findings, scores and answers.
THEOREM ReportIsTraced == ServiceSpec => []ReportCanBeTraced
<1>1. ServiceInit => AnswerPart
  <2>1. ServiceInit => AnalysisPart
    <3>1. GateInit => AllIsRead
      BY DEF GateInit, Unscanned, AllIsRead
    <3>. QED  BY <3>1, GateInitOK, RunInitOK
              DEF ServiceInit, AnalysisPart, AnalysisInv, GateAndReading, Init
  <2>2. run = NotStarted => AnswerInv
    BY DEF NotStarted, AnswerInv, ReportCanBeTraced
  <2>. QED  BY <2>1, <2>2 DEF ServiceInit, AnswerPart, AnalysisPart, Init
<1>2. AnalysisPart /\ AnswerPart /\ [ServiceNext]_service => AnswerPart'
  <2>. SUFFICES ASSUME AnalysisPart, AnswerPart, [ServiceNext]_service PROVE AnswerPart'
    OBVIOUS
  <2>1. part' = part
    BY DEF ServiceNext, service
  <2>2. (part = "analysis" /\ Next) \/ UNCHANGED vars
    BY DEF ServiceNext, service, analysis
  <2>3. CASE part = "analysis"
    <3>1. GateAndReading /\ RunInv /\ AnswerInv /\ AnalysisInv
      BY <2>3 DEF AnswerPart, AnalysisInv
    <3>2. CASE Next
      BY <2>1, <2>3, <3>1, <3>2, AnalysisNextOK, AnswerNextOK DEF AnswerPart
    <3>3. CASE UNCHANGED vars
      <4>1. UNCHANGED <<doc, mode, gate>>
        BY <3>3 DEF vars
      <4>. QED  BY <2>1, <2>3, <3>1, <3>3, <4>1, GateRests, RunRests, AnswerRests
                DEF AnswerPart, AnalysisInv
    <3>. QED  BY <2>2, <3>2, <3>3
  <2>4. CASE part # "analysis"
    BY <2>1, <2>2, <2>4 DEF AnswerPart, NoAnalysis, vars
  <2>. QED  BY <2>3, <2>4
<1>3. AnswerPart => ReportCanBeTraced
  BY RestingAnswer DEF AnswerPart, AnswerInv
<1>. QED  BY <1>1, <1>2, <1>3, AnalysisPartOK, PTL DEF ServiceSpec
=============================================================================
