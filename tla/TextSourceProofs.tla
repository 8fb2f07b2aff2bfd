-------------------------- MODULE TextSourceProofs --------------------------
(***************************************************************************)
(* Proofs about what can be followed back to its source: the chunks of a   *)
(* document to its pages and headings (SectionChunker, DocumentAnalysis),  *)
(* the grounds, citations and settlement of a notice to the law, the files *)
(* and the facts that they are of (ConsumerNotice).                        *)
(***************************************************************************)
EXTENDS TextAnalysisProofs

-----------------------------------------------------------------------------
(* Sequences in an order: R holds from each element to every later one. *)

Sorted(R, s) == \A i, j \in DOMAIN s : i < j => <<s[i], s[j]>> \in R

\* A sequence after another one.
LEMMA SortedConcat ==
  ASSUME NEW X, NEW R, NEW s \in Seq(X), NEW t \in Seq(X), Sorted(R, s), Sorted(R, t),
         ToSet(s) \X ToSet(t) \subseteq R
  PROVE  Sorted(R, s \o t)
<1>1. /\ DOMAIN s = 1 .. Len(s) /\ DOMAIN t = 1 .. Len(t) /\ Len(s) \in Nat /\ Len(t) \in Nat
      /\ DOMAIN (s \o t) = 1 .. Len(s) + Len(t)
  OBVIOUS
<1>2. \A i \in 1 .. Len(s) + Len(t) : (s \o t)[i] = IF i <= Len(s) THEN s[i] ELSE t[i - Len(s)]
  OBVIOUS
<1>. DEFINE u == s \o t
<1>3. \A i \in 1 .. Len(s) : u[i] = s[i] /\ s[i] \in ToSet(s)
  BY <1>1, <1>2 DEF ToSet
<1>4. \A i \in Len(s) + 1 .. Len(s) + Len(t) :
        i - Len(s) \in DOMAIN t /\ u[i] = t[i - Len(s)] /\ t[i - Len(s)] \in ToSet(t)
  BY <1>1, <1>2 DEF ToSet
<1>. HIDE DEF u
<1>5. ASSUME NEW i \in 1 .. Len(s) + Len(t), NEW j \in 1 .. Len(s) + Len(t), i < j
      PROVE  <<u[i], u[j]>> \in R
  <2>1. CASE j <= Len(s)
    BY <1>1, <1>3, <1>5, <2>1 DEF Sorted
  <2>2. CASE i > Len(s)
    <3>1. i \in Len(s) + 1 .. Len(s) + Len(t) /\ j \in Len(s) + 1 .. Len(s) + Len(t)
      BY <1>1, <1>5, <2>2
    <3>2. i - Len(s) < j - Len(s)
      BY <1>1, <1>5
    <3>. QED  BY <1>4, <3>1, <3>2 DEF Sorted
  <2>3. CASE i <= Len(s) /\ j > Len(s)
    <3>1. u[i] \in ToSet(s) /\ u[j] \in ToSet(t)
      BY <1>1, <1>3, <1>4, <1>5, <2>3
    <3>. QED  BY <3>1
  <2>. QED  BY <1>1, <2>1, <2>2, <2>3
<1>. QED  BY <1>1, <1>5 DEF Sorted, u

LEMMA SortedFlatten ==
  ASSUME NEW X, NEW R, NEW s \in Seq(Seq(X)), \A p \in DOMAIN s : Sorted(R, s[p]),
         \A p, q \in DOMAIN s : p < q => ToSet(s[p]) \X ToSet(s[q]) \subseteq R
  PROVE  Sorted(R, FlattenSeq(s))
<1>. DEFINE n == Len(s)
            Held(k) == UNION {ToSet(s[p]) : p \in 1 .. k}
<1>1. n \in Nat /\ DOMAIN s = 1 .. n /\ \A p \in 1 .. n : s[p] \in Seq(X)
  OBVIOUS
<1>2. CASE n = 0
  <2>1. FlattenSeq(s) = s /\ s = <<>>
    BY <1>2 DEF FlattenSeq
  <2>. QED  BY <2>1 DEF Sorted
<1>3. CASE n # 0
  <2>1. Len(s) \in Nat \ {0}
    BY <1>1, <1>3
  <2>2. PICK F : /\ F[1] = s[1]
                 /\ \A k \in 2 .. n : F[k] = F[k - 1] \o s[k]
                 /\ FlattenSeq(s) = F[n]
    BY <2>1, FlattenHasSteps
  <2>. HIDE DEF n
  <2>. DEFINE Holds(k) == F[k] \in Seq(X) /\ ToSet(F[k]) = Held(k) /\ Sorted(R, F[k])
              T == {k \in 0 .. n : k = 0 \/ Holds(k)}
  <2>3. 0 \in T
    BY <1>1
  <2>4. ASSUME NEW k \in 1 .. n, k - 1 \in T PROVE k \in T
    <3>1. CASE k = 1
      <4>1. 1 .. 1 = {1} /\ 1 \in 1 .. n
        BY <1>1, <1>3
      <4>2. Held(1) = ToSet(s[1])
        BY <4>1
      <4>. HIDE DEF Held
      <4>. QED  BY <1>1, <2>2, <3>1, <4>1, <4>2
    <3>2. CASE k # 1
      <4>1. Holds(k - 1) /\ k \in 2 .. n /\ 1 .. k = (1 .. k - 1) \cup {k}
        <5>1. k - 1 # 0 /\ k \in 2 .. n
          BY <1>1, <3>2
        <5>2. 1 .. k = (1 .. k - 1) \cup {k}
          BY <1>1
        <5>. HIDE DEF Holds
        <5>. QED  BY <2>4, <5>1, <5>2
      <4>2. F[k] = F[k - 1] \o s[k] /\ s[k] \in Seq(X) /\ Sorted(R, s[k])
        BY <1>1, <2>2, <4>1
      <4>3. F[k] \in Seq(X) /\ ToSet(F[k]) = ToSet(F[k - 1]) \cup ToSet(s[k])
        <5>. DEFINE f == F[k - 1]
                    e == s[k]
        <5>1. f \in Seq(X) /\ e \in Seq(X) /\ F[k] = f \o e
          BY <4>1, <4>2
        <5>. HIDE DEF f, e, Held
        <5>2. f \o e \in Seq(X) /\ ToSet(f \o e) = ToSet(f) \cup ToSet(e)
          BY <5>1, SetOfConcat
        <5>. QED  BY <5>1, <5>2 DEF f, e
      <4>4. Held(k) = Held(k - 1) \cup ToSet(s[k])
        BY <4>1
      <4>5. ToSet(F[k - 1]) \X ToSet(s[k]) \subseteq R
        <5>1. ASSUME NEW p \in 1 .. k - 1 PROVE ToSet(s[p]) \X ToSet(s[k]) \subseteq R
          <6>1. p \in DOMAIN s /\ k \in DOMAIN s /\ p < k
            BY <1>1
          <6>. QED  BY <6>1
        <5>. QED  BY <4>1, <5>1
      <4>6. Sorted(R, F[k])
        BY <4>1, <4>2, <4>5, SortedConcat
      <4>7. Holds(k) /\ k \in 0 .. n
        <5>. HIDE DEF Held
        <5>. QED  BY <1>1, <4>1, <4>3, <4>4, <4>6
      <4>. HIDE DEF Holds
      <4>. QED  BY <4>7
    <3>. QED  BY <3>1, <3>2
  <2>5. n \in T
    <3>. HIDE DEF T
    <3>1. \A k \in 0 .. n : k \in T
      BY <1>1, <2>3, <2>4, Parsing!RangeInduction
    <3>. QED  BY <1>1, <3>1
  <2>. QED  BY <1>1, <1>3, <2>2, <2>5
<1>. QED  BY <1>2, <1>3

\* What is left out by a flattening does not disturb the order.
LEMMA FilterSorted ==
  ASSUME NEW X, NEW R, NEW s \in Seq(X), Sorted(R, s), NEW f, f = [i \in DOMAIN s |-> f[i]],
         \A i \in DOMAIN s : f[i] \in {<<>>, <<s[i]>>}
  PROVE  Sorted(R, FlattenSeq(f))
<1>1. Len(s) \in Nat /\ DOMAIN s = 1 .. Len(s) /\ \A i \in 1 .. Len(s) : s[i] \in X
  OBVIOUS
<1>2. \A i \in 1 .. Len(s) : f[i] \in Seq(X)
  <2>1. \A x \in X : <<x>> \in Seq(X)
    OBVIOUS
  <2>2. <<>> \in Seq(X)
    OBVIOUS
  <2>. QED  BY <1>1, <2>1, <2>2
<1>3. f \in Seq(Seq(X)) /\ DOMAIN f = 1 .. Len(s)
  BY <1>1, <1>2, FunctionIsSeq
<1>4. \A i \in 1 .. Len(s) : Sorted(R, f[i]) /\ ToSet(f[i]) \subseteq {s[i]}
  <2>. SUFFICES ASSUME NEW i \in 1 .. Len(s) PROVE Sorted(R, f[i]) /\ ToSet(f[i]) \subseteq {s[i]}
    OBVIOUS
  <2>1. CASE f[i] = <<>>
    BY <2>1 DEF Sorted, ToSet
  <2>2. CASE f[i] = <<s[i]>>
    <3>1. \A x : DOMAIN <<x>> = {1} /\ <<x>>[1] = x
      OBVIOUS
    <3>2. DOMAIN f[i] = {1} /\ f[i][1] = s[i]
      BY <2>2, <3>1, Zenon
    <3>. QED  BY <3>2 DEF Sorted, ToSet
  <2>. QED  BY <1>1, <2>1, <2>2
<1>5. \A p, q \in DOMAIN f : p < q => ToSet(f[p]) \X ToSet(f[q]) \subseteq R
  <2>1. \A p, q \in 1 .. Len(s) : p < q => <<s[p], s[q]>> \in R
    BY <1>1 DEF Sorted
  <2>. QED  BY <1>3, <1>4, <2>1
<1>. QED  BY <1>3, <1>4, <1>5, SortedFlatten

\* A part of a text.
IsPart(X, R, s, a, b, u) ==
  /\ u \in Seq(X) /\ Sorted(R, u) /\ Len(u) = b - a + 1
  /\ \A x \in ToSet(u) : \E i \in a .. b : x = s[i]
  /\ \A i \in a .. b : s[i] \in ToSet(u)

LEMMA PartSorted ==
  ASSUME NEW X, NEW R, NEW s \in Seq(X), Sorted(R, s),
         NEW a \in 1 .. Len(s), NEW b \in a .. Len(s)
  PROVE  IsPart(X, R, s, a, b, SubSeq(s, a, b))
<1>. DEFINE u == SubSeq(s, a, b)
            n == b - a + 1
<1>1. Len(s) \in Nat /\ DOMAIN s = 1 .. Len(s) /\ n \in Nat /\ a \in Nat /\ b \in Nat /\ b <= Len(s)
  OBVIOUS
<1>2. /\ u \in Seq(X) /\ Len(u) = n /\ DOMAIN u = 1 .. n
      /\ \A i \in 1 .. n : u[i] = s[a + i - 1]
  <2>1. a \in 1 .. Len(s) + 1 /\ b \in a - 1 .. Len(s)
    BY <1>1
  <2>. QED  BY <2>1, SubSeqFacts
<1>. HIDE DEF u
<1>3. DOMAIN u = 1 .. n /\ \A i \in 1 .. n : u[i] = s[a + i - 1] /\ a + i - 1 \in a .. b
  BY <1>1, <1>2
<1>4. Sorted(R, u)
  <2>. SUFFICES ASSUME NEW i \in 1 .. n, NEW j \in 1 .. n, i < j PROVE <<u[i], u[j]>> \in R
    BY <1>3 DEF Sorted
  <2>1. a + i - 1 \in DOMAIN s /\ a + j - 1 \in DOMAIN s /\ a + i - 1 < a + j - 1
    BY <1>1, <1>3
  <2>2. <<s[a + i - 1], s[a + j - 1]>> \in R
    BY <2>1 DEF Sorted
  <2>. QED  BY <1>3, <2>2
<1>5. \A x \in ToSet(u) : \E i \in a .. b : x = s[i]
  BY <1>3 DEF ToSet
<1>6. ASSUME NEW i \in a .. b PROVE s[i] \in ToSet(u)
  <2>1. i - a + 1 \in 1 .. n /\ a + (i - a + 1) - 1 = i
    BY <1>1
  <2>2. u[i - a + 1] = s[i]
    BY <1>3, <2>1
  <2>. QED  BY <1>3, <2>1, <2>2 DEF ToSet
<1>. QED  BY <1>2, <1>4, <1>5, <1>6 DEF u, IsPart

-----------------------------------------------------------------------------
(* A sequence with one more element, or another last one. *)

LEMMA SortedAppend ==
  ASSUME NEW X, NEW R, NEW s \in Seq(X), NEW x \in X, Sorted(R, s),
         \A a \in ToSet(s) : <<a, x>> \in R
  PROVE  Sorted(R, Append(s, x))
<1>1. /\ Len(s) \in Nat /\ DOMAIN s = 1 .. Len(s) /\ DOMAIN Append(s, x) = 1 .. Len(s) + 1
      /\ \A i \in 1 .. Len(s) : Append(s, x)[i] = s[i]
      /\ Append(s, x)[Len(s) + 1] = x
  OBVIOUS
<1>. DEFINE t == Append(s, x)
<1>2. \A i \in 1 .. Len(s) : t[i] = s[i] /\ s[i] \in ToSet(s)
  BY <1>1 DEF ToSet
<1>. HIDE DEF t
<1>3. ASSUME NEW i \in 1 .. Len(s) + 1, NEW j \in 1 .. Len(s) + 1, i < j
      PROVE  <<t[i], t[j]>> \in R
  <2>1. CASE j <= Len(s)
    BY <1>1, <1>2, <1>3, <2>1 DEF Sorted
  <2>2. CASE j > Len(s)
    <3>1. j = Len(s) + 1 /\ i \in 1 .. Len(s) /\ t[j] = x
      BY <1>1, <1>3, <2>2 DEF t
    <3>. QED  BY <1>2, <3>1
  <2>. QED  BY <1>1, <2>1, <2>2
<1>. QED  BY <1>1, <1>3 DEF Sorted, t

\* Another element in place of the last one.
EndReplaced(t, s, x) ==
  /\ t # <<>> /\ Len(t) = Len(s) /\ t[Len(s)] = x
  /\ \A i \in 1 .. Len(s) - 1 : t[i] = s[i]

LEMMA LastReplaced ==
  ASSUME NEW X, NEW s \in Seq(X), s # <<>>, NEW x \in X
  PROVE  Append(Front(s), x) \in Seq(X) /\ EndReplaced(Append(Front(s), x), s, x)
<1>. DEFINE n == Len(s)
<1>1. n \in Nat \ {0} /\ DOMAIN s = 1 .. n
  BY EmptySeq
<1>2. Front(s) = SubSeq(s, 1, n - 1)
  BY DEF Front
<1>. DEFINE m == n - 1
            f == SubSeq(s, 1, m)
<1>3. 1 \in 1 .. Len(s) + 1 /\ m \in 1 - 1 .. Len(s) /\ m \in Nat
  BY <1>1
<1>. HIDE DEF n, m
<1>4. /\ f \in Seq(X) /\ Len(f) = m - 1 + 1
      /\ \A k \in 1 .. m - 1 + 1 : f[k] = s[1 + k - 1]
  BY <1>3, SubSeqFacts
<1>. HIDE DEF f
<1>5. Len(f) = n - 1 /\ \A k \in 1 .. n - 1 : f[k] = s[k]
  BY <1>1, <1>3, <1>4 DEF m
<1>6. Append(f, x) \in Seq(X) /\ Append(f, x) # <<>>
  BY <1>4, AppendIsSome
<1>7. Len(Append(f, x)) = n /\ Append(f, x)[n] = x /\ \A i \in 1 .. n - 1 : Append(f, x)[i] = f[i]
  BY <1>1, <1>4, <1>5
<1>. QED  BY <1>2, <1>5, <1>6, <1>7 DEF n, m, f, EndReplaced

\* Texts one after the other.
Apart(R, C) == {p \in Seq(C) \X Seq(C) : ToSet(p[1]) \X ToSet(p[2]) \subseteq R}

SortedTexts(R, C, ps) ==
  /\ ps \in Seq(Seq(C)) /\ Sorted(Apart(R, C), ps)
  /\ \A i \in DOMAIN ps : Sorted(R, ps[i])

\* The paragraphs after k characters of a page, with the one that is not over.
IsBroken(d, C, R, text, k, all) ==
  /\ all # <<>> /\ SortedTexts(R, C, all)
  /\ \A i \in DOMAIN all : ToSet(all[i]) \subseteq {text[m] : m \in 1 .. k}
  /\ \A m \in 1 .. k : Kind(d, text[m]) # "/" => \E i \in DOMAIN all : text[m] \in ToSet(all[i])

LEMMA BreakOK ==
  ASSUME NEW C, NEW R, NEW d, NEW text \in Seq(C), Sorted(R, text), NEW k \in 1 .. Len(text),
         NEW all, IsBroken(d, C, R, text, k - 1, all)
  PROVE  IsBroken(d, C, R, text, k, ParagraphStep(d, all, text[k]))
<1>. DEFINE char == text[k]
            n    == Len(all)
<1>1. char \in C /\ Len(text) \in Nat /\ DOMAIN text = 1 .. Len(text)
  OBVIOUS
<1>2. /\ all \in Seq(Seq(C)) /\ all # <<>> /\ Sorted(Apart(R, C), all)
      /\ \A i \in DOMAIN all : Sorted(R, all[i])
  BY DEF IsBroken, SortedTexts
<1>3. /\ n \in Nat \ {0} /\ DOMAIN all = 1 .. n
      /\ \A i \in 1 .. n : all[i] \in Seq(C)
  BY <1>2, EmptySeq
<1>4. 1 .. k = (1 .. k - 1) \cup {k}
  BY <1>1
<1>5. \A i \in 1 .. n : \A a \in ToSet(all[i]) : <<a, char>> \in R
  <2>. SUFFICES ASSUME NEW i \in 1 .. n, NEW a \in ToSet(all[i]) PROVE <<a, char>> \in R
    OBVIOUS
  <2>1. PICK m \in 1 .. k - 1 : a = text[m]
    BY <1>3 DEF IsBroken
  <2>2. m \in DOMAIN text /\ k \in DOMAIN text /\ m < k
    BY <1>1
  <2>. QED  BY <2>1, <2>2 DEF Sorted
<1>. HIDE DEF n
<1>6. CASE Kind(d, char) = "/"
  <2>. DEFINE new  == Append(all, <<>>)
              none == <<>>
  <2>1. ParagraphStep(d, all, char) = new
    BY <1>6 DEF ParagraphStep
  <2>2. none \in Seq(C) /\ ToSet(none) = {} /\ Sorted(R, none)
    BY DEF ToSet, Sorted
  <2>. HIDE DEF none
  <2>3. /\ DOMAIN Append(all, none) = 1 .. n + 1 /\ Append(all, none)[n + 1] = none
        /\ \A i \in 1 .. n : Append(all, none)[i] = all[i]
    BY <1>2, <1>3, <2>2 DEF n
  <2>4. Append(all, none) \in Seq(Seq(C)) /\ Append(all, none) # <<>>
    BY <1>2, <2>2, AppendIsSome
  <2>5. \A a \in ToSet(all) : <<a, none>> \in Apart(R, C)
    <3>1. ASSUME NEW a \in ToSet(all) PROVE <<a, none>> \in Apart(R, C)
      <4>1. a \in Seq(C)
        BY <1>3 DEF ToSet
      <4>. QED  BY <2>2, <4>1 DEF Apart
    <3>. QED  BY <3>1
  <2>6. Sorted(Apart(R, C), Append(all, none))
    BY <1>2, <2>2, <2>5, SortedAppend
  <2>. DEFINE u == Append(all, none)
  <2>7. /\ u \in Seq(Seq(C)) /\ u # <<>> /\ DOMAIN u = 1 .. n + 1 /\ u[n + 1] = none
        /\ \A i \in 1 .. n : u[i] = all[i]
        /\ Sorted(Apart(R, C), u)
    BY <2>3, <2>4, <2>6
  <2>. HIDE DEF u
  <2>8. \A i \in 1 .. n + 1 : Sorted(R, u[i]) /\ ToSet(u[i]) \subseteq {text[m] : m \in 1 .. k}
    <3>. SUFFICES ASSUME NEW i \in 1 .. n + 1
                  PROVE  Sorted(R, u[i]) /\ ToSet(u[i]) \subseteq {text[m] : m \in 1 .. k}
      OBVIOUS
    <3>1. CASE i = n + 1
      BY <2>2, <2>7, <3>1
    <3>2. CASE i # n + 1
      <4>1. i \in DOMAIN all /\ u[i] = all[i]
        BY <1>3, <2>7, <3>2
      <4>. QED  BY <1>2, <1>4, <4>1 DEF IsBroken
    <3>. QED  BY <3>1, <3>2
  <2>9. ASSUME NEW m \in 1 .. k, Kind(d, text[m]) # "/"
        PROVE  \E i \in DOMAIN u : text[m] \in ToSet(u[i])
    <3>1. m \in 1 .. k - 1
      BY <1>4, <1>6, <2>9
    <3>2. PICK i \in 1 .. n : text[m] \in ToSet(all[i])
      BY <1>3, <2>9, <3>1 DEF IsBroken
    <3>3. i \in DOMAIN u /\ u[i] = all[i]
      BY <1>3, <2>7
    <3>. QED  BY <3>2, <3>3
  <2>10. new = u
    BY DEF u, none
  <2>. HIDE DEF new
  <2>11. IsBroken(d, C, R, text, k, u)
    BY <2>7, <2>8, <2>9 DEF IsBroken, SortedTexts
  <2>. QED  BY <2>1, <2>10, <2>11
<1>7. CASE Kind(d, char) # "/"
  <2>. DEFINE last == Last(all)
              end  == Append(last, char)
              u    == Append(Front(all), end)
  <2>1. ParagraphStep(d, all, char) = u
    BY <1>7 DEF ParagraphStep
  <2>2. last = all[n] /\ n \in DOMAIN all
    BY <1>3 DEF Last, n
  <2>3. last \in Seq(C) /\ Sorted(R, last) /\ \A a \in ToSet(last) : <<a, char>> \in R
    BY <1>2, <1>3, <1>5, <2>2
  <2>. HIDE DEF last
  <2>4. end \in Seq(C) /\ Sorted(R, end) /\ ToSet(end) = ToSet(last) \cup {char}
    BY <1>1, <2>3, SortedAppend, SetOfAppend, AppendIsSome
  <2>. HIDE DEF end
  <2>5. /\ u \in Seq(Seq(C)) /\ u # <<>> /\ DOMAIN u = 1 .. n /\ u[n] = end
        /\ \A i \in 1 .. n - 1 : u[i] = all[i]
    <3>. DEFINE X == Seq(C)
    <3>a. all \in Seq(X) /\ end \in X
      BY <1>2, <2>4
    <3>. HIDE DEF X
    <3>1. u \in Seq(X) /\ EndReplaced(u, all, end)
      BY <1>2, <3>a, LastReplaced
    <3>. HIDE DEF u
    <3>2. DOMAIN u = 1 .. Len(u)
      BY <3>1
    <3>. QED  BY <3>1, <3>2 DEF n, X, EndReplaced
  <2>. HIDE DEF u
  <2>6. Sorted(Apart(R, C), u)
    <3>. SUFFICES ASSUME NEW i \in 1 .. n, NEW j \in 1 .. n, i < j
                  PROVE  <<u[i], u[j]>> \in Apart(R, C)
      BY <2>5 DEF Sorted
    <3>1. i \in 1 .. n - 1 /\ u[i] = all[i] /\ i \in DOMAIN all /\ j \in DOMAIN all
      BY <1>3, <2>5
    <3>2. <<all[i], all[j]>> \in Apart(R, C)
      BY <1>2, <3>1 DEF Sorted
    <3>3. CASE j # n
      <4>1. u[j] = all[j]
        BY <1>3, <2>5, <3>3
      <4>. QED  BY <3>1, <3>2, <4>1
    <3>4. CASE j = n
      <4>1. u[j] = end /\ ToSet(all[i]) \X ToSet(last) \subseteq R /\ all[i] \in Seq(C)
        BY <1>3, <2>2, <2>5, <3>1, <3>2, <3>4 DEF Apart
      <4>2. ToSet(all[i]) \X ToSet(end) \subseteq R
        BY <1>5, <2>4, <3>1, <4>1
      <4>. QED  BY <2>4, <3>1, <4>1, <4>2 DEF Apart
    <3>. QED  BY <3>3, <3>4
  <2>7. \A i \in 1 .. n : Sorted(R, u[i]) /\ ToSet(u[i]) \subseteq {text[m] : m \in 1 .. k}
    <3>. SUFFICES ASSUME NEW i \in 1 .. n
                  PROVE  Sorted(R, u[i]) /\ ToSet(u[i]) \subseteq {text[m] : m \in 1 .. k}
      OBVIOUS
    <3>1. i \in DOMAIN all /\ ToSet(all[i]) \subseteq {text[m] : m \in 1 .. k - 1}
      BY <1>3 DEF IsBroken
    <3>2. ToSet(all[i]) \cup {char} \subseteq {text[m] : m \in 1 .. k}
      BY <1>4, <3>1
    <3>3. CASE i = n
      BY <2>2, <2>4, <2>5, <3>2, <3>3
    <3>4. CASE i # n
      <4>1. u[i] = all[i]
        BY <1>3, <2>5, <3>4
      <4>. QED  BY <1>2, <3>1, <3>2, <4>1
    <3>. QED  BY <3>3, <3>4
  <2>8. ASSUME NEW m \in 1 .. k, Kind(d, text[m]) # "/"
        PROVE  \E i \in DOMAIN u : text[m] \in ToSet(u[i])
    <3>1. CASE m = k
      <4>1. n \in DOMAIN u /\ text[m] \in ToSet(u[n])
        BY <1>3, <2>4, <2>5, <3>1
      <4>. QED  BY <4>1
    <3>2. CASE m # k
      <4>1. PICK i \in 1 .. n : text[m] \in ToSet(all[i])
        BY <1>3, <1>4, <2>8, <3>2 DEF IsBroken
      <4>2. i \in DOMAIN u /\ text[m] \in ToSet(u[i])
        BY <1>3, <2>2, <2>4, <2>5, <4>1
      <4>. QED  BY <4>2
    <3>. QED  BY <3>1, <3>2
  <2>9. IsBroken(d, C, R, text, k, u)
    BY <2>5, <2>6, <2>7, <2>8 DEF IsBroken, SortedTexts
  <2>. QED  BY <2>1, <2>9
<1>. QED  BY <1>6, <1>7

-----------------------------------------------------------------------------
(* The paragraphs of a page, and of a document, are in the order of its text. *)

\* A flattening that leaves out the empty texts has all the others, in order.
LEMMA FilterHolds ==
  ASSUME NEW X, NEW s \in Seq(X), NEW f, f = [i \in DOMAIN s |-> f[i]],
         \A i \in DOMAIN s : f[i] \in {<<>>, <<s[i]>>}
  PROVE  /\ FlattenSeq(f) \in Seq(X)
         /\ \A x \in ToSet(FlattenSeq(f)) : \E i \in DOMAIN s : x = s[i] /\ f[i] # <<>>
         /\ \A i \in DOMAIN s : f[i] # <<>> => s[i] \in ToSet(FlattenSeq(f))
<1>1. Len(s) \in Nat /\ DOMAIN s = 1 .. Len(s) /\ \A i \in 1 .. Len(s) : s[i] \in X
  OBVIOUS
<1>2. \A i \in 1 .. Len(s) : f[i] \in Seq(X)
  <2>1. \A x \in X : <<x>> \in Seq(X)
    OBVIOUS
  <2>2. <<>> \in Seq(X)
    OBVIOUS
  <2>. QED  BY <1>1, <2>1, <2>2
<1>3. f \in Seq(Seq(X)) /\ DOMAIN f = 1 .. Len(s)
  BY <1>1, <1>2, FunctionIsSeq
<1>4. \A x : ToSet(<<x>>) = {x} /\ <<x>> # <<>>
  <2>1. \A x : DOMAIN <<x>> = {1} /\ <<x>>[1] = x /\ Len(<<x>>) = 1 /\ Len(<<>>) = 0
    OBVIOUS
  <2>. QED  BY <2>1 DEF ToSet
<1>5. ToSet(<<>>) = {}
  BY DEF ToSet
<1>6. \A i \in DOMAIN s : ToSet(f[i]) = IF f[i] = <<>> THEN {} ELSE {s[i]}
  BY <1>4, <1>5, Zenon
<1>7. FlattenSeq(f) \in Seq(X) /\ ToSet(FlattenSeq(f)) = UNION {ToSet(f[p]) : p \in DOMAIN f}
  BY <1>3, FlattenHolds
<1>. DEFINE g == FlattenSeq(f)
<1>. HIDE DEF g
<1>8. DOMAIN f = DOMAIN s /\ \A x : x \in ToSet(g) <=> \E i \in DOMAIN s : x \in ToSet(f[i])
  BY <1>1, <1>3, <1>7 DEF g
<1>9. \A x \in ToSet(g) : \E i \in DOMAIN s : x = s[i] /\ f[i] # <<>>
  BY <1>6, <1>8
<1>10. \A i \in DOMAIN s : f[i] # <<>> => s[i] \in ToSet(g)
  BY <1>6, <1>8
<1>. QED  BY <1>7, <1>9, <1>10 DEF g

\* The paragraphs of a text: in its order, and all of it but the blank lines.
AreParagraphs(d, C, R, text, pars) ==
  /\ SortedTexts(R, C, pars)
  /\ \A i \in DOMAIN pars : pars[i] # <<>> /\ ToSet(pars[i]) \subseteq ToSet(text)
  /\ \A c \in ToSet(text) : Kind(d, c) # "/" => \E i \in DOMAIN pars : c \in ToSet(pars[i])

LEMMA ParagraphsInOrder ==
  ASSUME NEW C, NEW R, NEW d, NEW text \in Seq(C), Sorted(R, text)
  PROVE  AreParagraphs(d, C, R, text, Paragraphs(d, text))
<1>. DEFINE start == <<<<>>>>
            all   == Breaking!Fold(d, start, text)
            f     == [i \in DOMAIN all |-> IF all[i] = <<>> THEN <<>> ELSE <<all[i]>>]
            pars  == FlattenSeq(f)
            n     == Len(text)
<1>1. Paragraphs(d, text) = pars
  BY DEF Paragraphs, FoldLeft, MapThenFoldSet, Breaking!Fold, Max, Breaking!Max, ParagraphStep
<1>2. n \in Nat /\ DOMAIN text = 1 .. n
  OBVIOUS
<1>3. IsBroken(d, C, R, text, n, all)
  <2>1. PICK F : Breaking!IsFold(F, d, start, text)
    BY <1>2, Breaking!FoldHasSteps
  <2>2. /\ F[0] = start /\ all = F[n]
        /\ \A k \in 1 .. n : F[k] = ParagraphStep(d, F[k - 1], text[k])
    BY <2>1 DEF Breaking!IsFold
  <2>3. IsBroken(d, C, R, text, 0, start)
    <3>. DEFINE none == <<>>
    <3>1. none \in Seq(C) /\ ToSet(none) = {} /\ Sorted(R, none)
      BY DEF ToSet, Sorted
    <3>2. start = <<none>> /\ 1 .. 0 = {}
      OBVIOUS
    <3>. HIDE DEF none, start
    <3>3. start \in Seq(Seq(C)) /\ start # <<>> /\ DOMAIN start = {1} /\ start[1] = none
      BY <3>1, <3>2
    <3>4. Sorted(Apart(R, C), start)
      BY <3>3 DEF Sorted
    <3>. QED  BY <3>1, <3>2, <3>3, <3>4 DEF IsBroken, SortedTexts
  <2>. HIDE DEF start, all, n, f
  <2>. DEFINE T == {k \in 0 .. n : IsBroken(d, C, R, text, k, F[k])}
  <2>4. 0 \in T
    BY <1>2, <2>2, <2>3
  <2>5. ASSUME NEW k \in 1 .. n, k - 1 \in T PROVE k \in T
    <3>1. IsBroken(d, C, R, text, k - 1, F[k - 1]) /\ k \in 1 .. Len(text)
      BY <2>5 DEF n
    <3>2. IsBroken(d, C, R, text, k, ParagraphStep(d, F[k - 1], text[k]))
      BY <3>1, BreakOK
    <3>. QED  BY <1>2, <2>2, <3>2
  <2>6. n \in T
    <3>. HIDE DEF T
    <3>1. \A k \in 0 .. n : k \in T
      BY <1>2, <2>4, <2>5, Parsing!RangeInduction
    <3>. QED  BY <1>2, <3>1
  <2>. QED  BY <2>2, <2>6
<1>. HIDE DEF all
<1>4. all \in Seq(Seq(C)) /\ Sorted(Apart(R, C), all) /\ \A i \in DOMAIN all : Sorted(R, all[i])
  BY <1>3 DEF IsBroken, SortedTexts
<1>5. /\ f = [i \in DOMAIN all |-> f[i]]
      /\ \A i \in DOMAIN all : f[i] = IF all[i] = <<>> THEN <<>> ELSE <<all[i]>>
  OBVIOUS
<1>. HIDE DEF f, n
<1>6. \A i \in DOMAIN all : f[i] \in {<<>>, <<all[i]>>}
  BY <1>5
<1>7. Sorted(Apart(R, C), pars)
  BY <1>4, <1>5, <1>6, FilterSorted
<1>8. /\ pars \in Seq(Seq(C))
      /\ \A x \in ToSet(pars) : \E i \in DOMAIN all : x = all[i] /\ f[i] # <<>>
      /\ \A i \in DOMAIN all : f[i] # <<>> => all[i] \in ToSet(pars)
  BY <1>4, <1>5, <1>6, FilterHolds
<1>9. \A i \in DOMAIN all : f[i] # <<>> <=> all[i] # <<>>
  <2>1. \A x : <<x>> # <<>>
    <3>1. \A x : Len(<<x>>) = 1 /\ Len(<<>>) = 0
      OBVIOUS
    <3>. QED  BY <3>1
  <2>. QED  BY <1>5, <2>1, Zenon
<1>. HIDE DEF pars
<1>10. ASSUME NEW i \in DOMAIN pars
       PROVE  Sorted(R, pars[i]) /\ pars[i] # <<>> /\ ToSet(pars[i]) \subseteq ToSet(text)
  <2>1. PICK j \in DOMAIN all : pars[i] = all[j] /\ f[j] # <<>>
    BY <1>8 DEF ToSet
  <2>2. ToSet(all[j]) \subseteq {text[m] : m \in 1 .. n}
    BY <1>3 DEF IsBroken
  <2>3. {text[m] : m \in 1 .. n} = ToSet(text)
    BY <1>2 DEF ToSet
  <2>. QED  BY <1>4, <1>9, <2>1, <2>2, <2>3
<1>11. ASSUME NEW c \in ToSet(text), Kind(d, c) # "/"
       PROVE  \E i \in DOMAIN pars : c \in ToSet(pars[i])
  <2>1. PICK m \in 1 .. n : c = text[m]
    BY <1>2 DEF ToSet
  <2>2. PICK j \in DOMAIN all : c \in ToSet(all[j])
    BY <1>3, <1>11, <2>1 DEF IsBroken
  <2>3. all[j] # <<>>
    BY <2>2 DEF ToSet
  <2>4. PICK i \in DOMAIN pars : pars[i] = all[j]
    BY <1>8, <1>9, <2>3 DEF ToSet
  <2>. QED  BY <2>2, <2>4
<1>12. AreParagraphs(d, C, R, text, pars)
  BY <1>7, <1>8, <1>10, <1>11 DEF AreParagraphs, SortedTexts
<1>. QED  BY <1>1, <1>12

\* The paragraphs of a document.
ArePars(d, C, R, pages, pars) ==
  /\ SortedTexts(R, C, pars)
  /\ \A i \in DOMAIN pars :
       /\ pars[i] # <<>>
       /\ \E p \in DOMAIN pages : ToSet(pars[i]) \subseteq ToSet(pages[p])
  /\ \A p \in DOMAIN pages :
       /\ ToSet(Paragraphs(d, pages[p])) \subseteq ToSet(pars)
       /\ \A c \in ToSet(pages[p]) :
            Kind(d, c) # "/" => \E par \in ToSet(Paragraphs(d, pages[p])) : c \in ToSet(par)
  /\ \A par \in ToSet(pars) : \E p \in DOMAIN pages : par \in ToSet(Paragraphs(d, pages[p]))

\* The pages of a document, in order.
ArePages(C, R, pages) ==
  /\ pages \in Seq(Seq(C))
  /\ \A p \in DOMAIN pages : Sorted(R, pages[p])
  /\ \A p, q \in DOMAIN pages : p < q => ToSet(pages[p]) \X ToSet(pages[q]) \subseteq R

ParsOf(d, pages) == FlattenSeq([p \in DOMAIN pages |-> Paragraphs(d, pages[p])])

\* The paragraphs are in the order of the pages.
LEMMA ParsInOrder ==
  ASSUME NEW C, NEW R, NEW d, NEW pages, ArePages(C, R, pages)
  PROVE  ArePars(d, C, R, pages, ParsOf(d, pages))
<1>. DEFINE n     == Len(pages)
            parts == [p \in DOMAIN pages |-> Paragraphs(d, pages[p])]
            pars  == FlattenSeq(parts)
<1>1. /\ n \in Nat /\ DOMAIN pages = 1 .. n
      /\ \A p \in 1 .. n : pages[p] \in Seq(C) /\ Sorted(R, pages[p])
  BY DEF ArePages
<1>2. /\ parts = [p \in 1 .. n |-> parts[p]] /\ DOMAIN parts = 1 .. n
      /\ \A p \in 1 .. n : parts[p] = Paragraphs(d, pages[p])
  BY <1>1
<1>. HIDE DEF parts, n
<1>3. \A p \in 1 .. n : AreParagraphs(d, C, R, pages[p], parts[p])
  BY <1>1, <1>2, ParagraphsInOrder
<1>. DEFINE X == Seq(C)
<1>4. /\ \A p \in 1 .. n : /\ parts[p] \in Seq(X) /\ Sorted(Apart(R, C), parts[p])
                          /\ \A i \in DOMAIN parts[p] : Sorted(R, parts[p][i])
  BY <1>3 DEF AreParagraphs, SortedTexts
<1>5. \A p \in 1 .. n : \A e \in ToSet(parts[p]) :
        /\ e \in Seq(C) /\ e # <<>> /\ ToSet(e) \subseteq ToSet(pages[p]) /\ Sorted(R, e)
  <2>. SUFFICES ASSUME NEW p \in 1 .. n, NEW e \in ToSet(parts[p])
                PROVE  /\ e \in Seq(C) /\ e # <<>> /\ ToSet(e) \subseteq ToSet(pages[p])
                       /\ Sorted(R, e)
    OBVIOUS
  <2>1. PICK i \in DOMAIN parts[p] : e = parts[p][i]
    BY DEF ToSet
  <2>2. parts[p][i] # <<>> /\ ToSet(parts[p][i]) \subseteq ToSet(pages[p])
    BY <1>3 DEF AreParagraphs
  <2>3. parts[p][i] \in Seq(C) /\ Sorted(R, parts[p][i])
    BY <1>4
  <2>. QED  BY <2>1, <2>2, <2>3
<1>6. \A p, q \in 1 .. n : p < q => ToSet(parts[p]) \X ToSet(parts[q]) \subseteq Apart(R, C)
  <2>. SUFFICES ASSUME NEW p \in 1 .. n, NEW q \in 1 .. n, p < q,
                       NEW a \in ToSet(parts[p]), NEW b \in ToSet(parts[q])
                PROVE  <<a, b>> \in Apart(R, C)
    OBVIOUS
  <2>1. ToSet(pages[p]) \X ToSet(pages[q]) \subseteq R
    BY <1>1 DEF ArePages
  <2>2. /\ a \in Seq(C) /\ ToSet(a) \subseteq ToSet(pages[p])
        /\ b \in Seq(C) /\ ToSet(b) \subseteq ToSet(pages[q])
    BY <1>5
  <2>3. ToSet(a) \X ToSet(b) \subseteq R
    BY <2>1, <2>2
  <2>. QED  BY <2>2, <2>3 DEF Apart
<1>. HIDE DEF X
<1>7. parts \in Seq(Seq(X))
  <2>1. \A p \in 1 .. n : parts[p] \in Seq(X)
    BY <1>4
  <2>. QED  BY <1>1, <1>2, <2>1, FunctionIsSeq
<1>8. Sorted(Apart(R, C), pars)
  <2>1. \A p \in DOMAIN parts : Sorted(Apart(R, C), parts[p])
    BY <1>2, <1>4
  <2>2. \A p, q \in DOMAIN parts : p < q => ToSet(parts[p]) \X ToSet(parts[q]) \subseteq Apart(R, C)
    BY <1>2, <1>6
  <2>. QED  BY <1>7, <2>1, <2>2, SortedFlatten
<1>9. pars \in Seq(X) /\ ToSet(pars) = UNION {ToSet(parts[p]) : p \in 1 .. n}
  BY <1>2, <1>7, FlattenHolds
<1>. HIDE DEF pars
<1>10. ASSUME NEW i \in DOMAIN pars
       PROVE  /\ Sorted(R, pars[i]) /\ pars[i] # <<>>
              /\ \E p \in DOMAIN pages : ToSet(pars[i]) \subseteq ToSet(pages[p])
  <2>1. pars[i] \in ToSet(pars)
    BY DEF ToSet
  <2>2. PICK p \in 1 .. n : pars[i] \in ToSet(parts[p])
    BY <1>9, <2>1
  <2>. QED  BY <1>1, <1>5, <2>2
<1>11. SortedTexts(R, C, pars)
  BY <1>8, <1>9, <1>10 DEF SortedTexts, X
<1>12. ASSUME NEW p \in DOMAIN pages, NEW c \in ToSet(pages[p]), Kind(d, c) # "/"
       PROVE  \E par \in ToSet(Paragraphs(d, pages[p])) : c \in ToSet(par)
  <2>1. PICK i \in DOMAIN parts[p] : c \in ToSet(parts[p][i])
    BY <1>1, <1>3, <1>12 DEF AreParagraphs
  <2>2. parts[p][i] \in ToSet(parts[p])
    BY DEF ToSet
  <2>. QED  BY <1>1, <1>2, <2>1, <2>2
<1>13. \A p \in DOMAIN pages : ToSet(Paragraphs(d, pages[p])) \subseteq ToSet(pars)
  BY <1>1, <1>2, <1>9
<1>14. \A par \in ToSet(pars) : \E p \in DOMAIN pages : par \in ToSet(Paragraphs(d, pages[p]))
  BY <1>1, <1>2, <1>9
<1>15. ArePars(d, C, R, pages, pars)
  BY <1>10, <1>11, <1>12, <1>13, <1>14 DEF ArePars
<1>16. ParsOf(d, pages) = pars
  BY DEF ParsOf, pars, parts
<1>. QED  BY <1>15, <1>16

-----------------------------------------------------------------------------
(* The sections of a document: each under the last heading above it. *)

LEMMA TextsAppend ==
  ASSUME NEW C, NEW R, NEW ps, SortedTexts(R, C, ps), NEW text \in Seq(C), Sorted(R, text),
         \A a \in ToSet(ps) : ToSet(a) \X ToSet(text) \subseteq R
  PROVE  SortedTexts(R, C, Append(ps, text))
<1>. DEFINE u == Append(ps, text)
            n == Len(ps)
<1>1. ps \in Seq(Seq(C)) /\ Sorted(Apart(R, C), ps) /\ \A i \in DOMAIN ps : Sorted(R, ps[i])
  BY DEF SortedTexts
<1>2. n \in Nat /\ DOMAIN ps = 1 .. n /\ \A i \in 1 .. n : ps[i] \in Seq(C) /\ ps[i] \in ToSet(ps)
  BY <1>1 DEF ToSet
<1>3. DOMAIN u = 1 .. n + 1 /\ u[n + 1] = text /\ \A i \in 1 .. n : u[i] = ps[i]
  BY <1>1, <1>2
<1>4. \A a \in ToSet(ps) : <<a, text>> \in Apart(R, C)
  <2>1. \A a \in ToSet(ps) : a \in Seq(C)
    BY <1>2 DEF ToSet
  <2>. QED  BY <2>1 DEF Apart
<1>. DEFINE X == Seq(C)
<1>5. ps \in Seq(X) /\ text \in X
  BY <1>1
<1>. HIDE DEF X
<1>6. u \in Seq(X) /\ Sorted(Apart(R, C), u)
  BY <1>1, <1>4, <1>5, SortedAppend, AppendIsSome
<1>. HIDE DEF u, n
<1>7. ASSUME NEW i \in DOMAIN u PROVE Sorted(R, u[i])
  <2>1. CASE i = n + 1
    BY <1>3, <2>1
  <2>2. CASE i # n + 1
    <3>1. i \in DOMAIN ps /\ u[i] = ps[i]
      BY <1>2, <1>3, <2>2
    <3>. QED  BY <1>1, <3>1
  <2>. QED  BY <2>1, <2>2
<1>. QED  BY <1>6, <1>7 DEF SortedTexts, X, u

\* The characters of a section, without its title.
Inside(section) == UNION {ToSet(section.paragraphs[q]) : q \in DOMAIN section.paragraphs}

InsideApart(R, C) ==
  {p \in SectionType(C) \X SectionType(C) : Inside(p[1]) \X Inside(p[2]) \subseteq R}

\* A section with one more paragraph.
Longer(section, par) == [section EXCEPT !.paragraphs = Append(@, par)]

IsLonger(C, new, section, par) ==
  /\ new \in SectionType(C) /\ new.title = section.title
  /\ new.paragraphs = Append(section.paragraphs, par)
  /\ Inside(new) = Inside(section) \cup ToSet(par)

LEMMA SectionGrows ==
  ASSUME NEW C, NEW section \in SectionType(C), NEW par \in Seq(C)
  PROVE  IsLonger(C, Longer(section, par), section, par)
<1>. DEFINE new == Longer(section, par)
            ps  == section.paragraphs
            t   == section.title
            n   == Len(ps)
            u   == Append(ps, par)
<1>1. ps \in Seq(Seq(C)) /\ t \in Seq(C) /\ section = [title |-> t, paragraphs |-> ps]
  BY DEF SectionType
<1>2. new = [section EXCEPT !.paragraphs = u]
  BY DEF Longer
<1>. HIDE DEF new, ps, t
<1>3. n \in Nat /\ DOMAIN ps = 1 .. n /\ u \in Seq(Seq(C))
  BY <1>1
<1>4. DOMAIN u = 1 .. n + 1 /\ u[n + 1] = par /\ \A i \in 1 .. n : u[i] = ps[i]
  BY <1>1, <1>3
<1>. HIDE DEF u, n
<1>5. new = [title |-> t, paragraphs |-> u]
  BY <1>1, <1>2
<1>6. new.paragraphs = u /\ new.title = t /\ new \in SectionType(C)
  BY <1>1, <1>3, <1>5 DEF SectionType
<1>7. 1 .. n + 1 = (1 .. n) \cup {n + 1}
  BY <1>3
<1>8. Inside(new) = UNION {ToSet(u[q]) : q \in (1 .. n) \cup {n + 1}}
  BY <1>4, <1>6, <1>7 DEF Inside
<1>9. Inside(section) = UNION {ToSet(ps[q]) : q \in 1 .. n}
  BY <1>3 DEF Inside, ps
<1>10. Inside(new) = Inside(section) \cup ToSet(par)
  BY <1>4, <1>8, <1>9
<1>. QED  BY <1>6, <1>10 DEF IsLonger, new, u, ps, t

\* The last heading among the first k paragraphs, or nothing.
TitleAt(d, pars, title, k) ==
  \/ title = <<>> /\ \A j \in 1 .. k : ~IsHeading(d, pars[j])
  \/ \E t \in 1 .. k : /\ pars[t] = title /\ IsHeading(d, pars[t])
                       /\ \A j \in t + 1 .. k : ~IsHeading(d, pars[j])

\* Each paragraph of a section is one of the first k of the document, with
\* the title of the section as the last heading above it.
IsUnder(d, pars, k, section) ==
  \A q \in DOMAIN section.paragraphs : \E j \in 1 .. k :
    /\ section.paragraphs[q] = pars[j] /\ ~IsHeading(d, pars[j])
    /\ TitleAt(d, pars, section.title, j - 1)

\* The sections after k paragraphs.
IsSectioned(d, C, R, pars, k, all) ==
  /\ all \in Seq(SectionType(C)) /\ all # <<>> /\ Sorted(InsideApart(R, C), all)
  /\ \A i \in DOMAIN all :
       SortedTexts(R, C, all[i].paragraphs) /\ IsUnder(d, pars, k, all[i])
  /\ \A j \in 1 .. k :
       ~IsHeading(d, pars[j]) => \E i \in DOMAIN all : pars[j] \in ToSet(all[i].paragraphs)
  /\ TitleAt(d, pars, all[Len(all)].title, k)

\* A paragraph that is no heading leaves the title as it is.
LEMMA TitleStays ==
  ASSUME NEW d, NEW pars, NEW title, NEW k \in Nat \ {0}, TitleAt(d, pars, title, k - 1),
         ~IsHeading(d, pars[k])
  PROVE  TitleAt(d, pars, title, k)
<1>1. 1 .. k = (1 .. k - 1) \cup {k}
  OBVIOUS
<1>2. CASE title = <<>> /\ \A j \in 1 .. k - 1 : ~IsHeading(d, pars[j])
  BY <1>1, <1>2 DEF TitleAt
<1>3. CASE \E t \in 1 .. k - 1 : /\ pars[t] = title /\ IsHeading(d, pars[t])
                                 /\ \A j \in t + 1 .. k - 1 : ~IsHeading(d, pars[j])
  <2>1. PICK t \in 1 .. k - 1 : /\ pars[t] = title /\ IsHeading(d, pars[t])
                                /\ \A j \in t + 1 .. k - 1 : ~IsHeading(d, pars[j])
    BY <1>3
  <2>2. \A j \in t + 1 .. k : j = k \/ j \in t + 1 .. k - 1
    OBVIOUS
  <2>3. \A j \in t + 1 .. k : ~IsHeading(d, pars[j])
    BY <2>1, <2>2
  <2>. QED  BY <1>1, <2>1, <2>3 DEF TitleAt
<1>. QED  BY <1>2, <1>3 DEF TitleAt

\* What was in a section is before the next paragraph.
LEMMA InsideBefore ==
  ASSUME NEW C, NEW R, NEW d, NEW pars, SortedTexts(R, C, pars), NEW k \in 1 .. Len(pars),
         NEW section, IsUnder(d, pars, k - 1, section)
  PROVE  Inside(section) \X ToSet(pars[k]) \subseteq R
<1>1. pars \in Seq(Seq(C)) /\ Sorted(Apart(R, C), pars)
  BY DEF SortedTexts
<1>2. Len(pars) \in Nat /\ DOMAIN pars = 1 .. Len(pars)
  BY <1>1
<1>. SUFFICES ASSUME NEW a \in Inside(section), NEW b \in ToSet(pars[k]) PROVE <<a, b>> \in R
  OBVIOUS
<1>3. PICK q \in DOMAIN section.paragraphs : a \in ToSet(section.paragraphs[q])
  BY DEF Inside
<1>4. PICK j \in 1 .. k - 1 : section.paragraphs[q] = pars[j]
  BY DEF IsUnder
<1>5. j \in DOMAIN pars /\ k \in DOMAIN pars /\ j < k
  BY <1>2
<1>6. ToSet(pars[j]) \X ToSet(pars[k]) \subseteq R
  BY <1>1, <1>5 DEF Sorted, Apart
<1>. QED  BY <1>3, <1>4, <1>6

\* One paragraph more keeps the sections as they should be.
LEMMA SectionOK ==
  ASSUME NEW C, NEW R, NEW d, NEW pars, SortedTexts(R, C, pars), NEW k \in 1 .. Len(pars),
         NEW all, IsSectioned(d, C, R, pars, k - 1, all)
  PROVE  IsSectioned(d, C, R, pars, k, SectionStep(d, all, pars[k]))
<1>. DEFINE par == pars[k]
            n   == Len(all)
            S   == SectionType(C)
            Fine(s) == SortedTexts(R, C, s.paragraphs) /\ IsUnder(d, pars, k, s)
<1>1. /\ pars \in Seq(Seq(C)) /\ Len(pars) \in Nat /\ DOMAIN pars = 1 .. Len(pars)
      /\ par \in Seq(C) /\ Sorted(R, par) /\ Sorted(Apart(R, C), pars)
  BY DEF SortedTexts
<1>2. /\ all \in Seq(S) /\ all # <<>> /\ Sorted(InsideApart(R, C), all)
      /\ \A i \in DOMAIN all :
           SortedTexts(R, C, all[i].paragraphs) /\ IsUnder(d, pars, k - 1, all[i])
      /\ TitleAt(d, pars, all[n].title, k - 1)
  BY DEF IsSectioned
<1>. HIDE DEF S
<1>3. n \in Nat \ {0} /\ DOMAIN all = 1 .. n /\ \A i \in 1 .. n : all[i] \in S
  BY <1>2, EmptySeq
<1>4. 1 .. k = (1 .. k - 1) \cup {k} /\ k \in Nat \ {0} /\ k - 1 \in Nat
  BY <1>1
<1>5. \A i \in 1 .. n : Fine(all[i])
  BY <1>2, <1>3, <1>4 DEF IsUnder
<1>6. \A i \in 1 .. n : Inside(all[i]) \X ToSet(par) \subseteq R
  BY <1>2, <1>3, InsideBefore
<1>. HIDE DEF n, Fine
<1>7. CASE IsHeading(d, par)
  <2>. DEFINE new == [title |-> par, paragraphs |-> <<>>]
              u   == Append(all, new)
  <2>1. SectionStep(d, all, par) = u
    BY <1>7 DEF SectionStep
  <2>2. /\ new \in S /\ new.title = par /\ new.paragraphs = <<>>
        /\ Inside(new) = {} /\ Fine(new)
    <3>1. <<>> \in Seq(Seq(C)) /\ new \in S
      BY <1>1 DEF SectionType, S
    <3>2. SortedTexts(R, C, <<>>)
      BY <3>1 DEF SortedTexts, Sorted
    <3>. QED  BY <3>1, <3>2 DEF Inside, IsUnder, Fine
  <2>. HIDE DEF new
  <2>3. \A a \in ToSet(all) : <<a, new>> \in InsideApart(R, C)
    <3>1. \A a \in ToSet(all) : a \in S
      BY <1>3 DEF ToSet
    <3>. QED  BY <2>2, <3>1 DEF InsideApart, S
  <2>4. u \in Seq(S) /\ u # <<>> /\ Sorted(InsideApart(R, C), u)
    BY <1>2, <2>2, <2>3, SortedAppend, AppendIsSome
  <2>5. /\ Len(u) = n + 1 /\ DOMAIN u = 1 .. n + 1 /\ u[n + 1] = new
        /\ \A i \in 1 .. n : u[i] = all[i]
    BY <1>2, <1>3, <2>2 DEF n
  <2>. HIDE DEF u
  <2>6. \A i \in DOMAIN u : Fine(u[i])
    <3>. SUFFICES ASSUME NEW i \in 1 .. n + 1 PROVE Fine(u[i])
      BY <2>5
    <3>1. CASE i = n + 1
      BY <2>2, <2>5, <3>1
    <3>2. CASE i # n + 1
      <4>1. i \in 1 .. n /\ u[i] = all[i]
        BY <1>3, <2>5, <3>2
      <4>. QED  BY <1>5, <4>1
    <3>. QED  BY <3>1, <3>2
  <2>7. ASSUME NEW j \in 1 .. k, ~IsHeading(d, pars[j])
        PROVE  \E i \in DOMAIN u : pars[j] \in ToSet(u[i].paragraphs)
    <3>1. j \in 1 .. k - 1
      BY <1>4, <1>7, <2>7
    <3>2. PICK i \in 1 .. n : pars[j] \in ToSet(all[i].paragraphs)
      BY <1>3, <2>7, <3>1 DEF IsSectioned
    <3>3. i \in DOMAIN u /\ u[i] = all[i]
      BY <1>3, <2>5
    <3>. QED  BY <3>2, <3>3
  <2>8. TitleAt(d, pars, u[Len(u)].title, k)
    <3>1. \A j \in k + 1 .. k : FALSE
      BY <1>4
    <3>2. k \in 1 .. k /\ u[Len(u)].title = pars[k]
      BY <1>4, <2>2, <2>5
    <3>. QED  BY <1>7, <3>1, <3>2 DEF TitleAt
  <2>9. IsSectioned(d, C, R, pars, k, u)
    BY <2>4, <2>6, <2>7, <2>8 DEF IsSectioned, S, Fine
  <2>. QED  BY <2>1, <2>9
<1>8. CASE ~IsHeading(d, par)
  <2>. DEFINE last == Last(all)
              new  == Longer(last, par)
              u    == Append(Front(all), new)
  <2>1. SectionStep(d, all, par) = u
    BY <1>8 DEF SectionStep, Longer
  <2>2. last = all[n] /\ n \in 1 .. n
    BY <1>3 DEF Last, n
  <2>3. last \in S /\ Fine(last) /\ Inside(last) \X ToSet(par) \subseteq R
        /\ IsUnder(d, pars, k - 1, last) /\ TitleAt(d, pars, last.title, k - 1)
    BY <1>2, <1>3, <1>5, <1>6, <2>2
  <2>. HIDE DEF last
  <2>4. /\ new \in S /\ new.title = last.title /\ new.paragraphs = Append(last.paragraphs, par)
        /\ Inside(new) = Inside(last) \cup ToSet(par)
    <3>1. last \in SectionType(C) /\ par \in Seq(C)
      BY <1>1, <2>3 DEF S
    <3>2. IsLonger(C, Longer(last, par), last, par)
      BY <3>1, SectionGrows
    <3>. QED  BY <3>2 DEF S, IsLonger
  <2>. HIDE DEF new
  <2>5. Fine(new)
    <3>. DEFINE ps == last.paragraphs
    <3>1. SortedTexts(R, C, ps)
      BY <2>3 DEF Fine
    <3>2. \A a \in ToSet(ps) : ToSet(a) \X ToSet(par) \subseteq R
      <4>1. \A a \in ToSet(ps) : ToSet(a) \subseteq Inside(last)
        BY DEF Inside, ToSet
      <4>. QED  BY <2>3, <4>1
    <3>3. SortedTexts(R, C, Append(ps, par))
      BY <1>1, <3>1, <3>2, TextsAppend
    <3>4. IsUnder(d, pars, k, new)
      <4>1. ps \in Seq(Seq(C))
        BY <3>1 DEF SortedTexts
      <4>. HIDE DEF ps
      <4>2. \A q \in DOMAIN Append(ps, par) :
              \/ q \in DOMAIN ps /\ Append(ps, par)[q] = ps[q]
              \/ Append(ps, par)[q] = par
        BY <4>1
      <4>3. k \in 1 .. k /\ 1 .. k - 1 \subseteq 1 .. k
        BY <1>4
      <4>. SUFFICES ASSUME NEW q \in DOMAIN new.paragraphs
                    PROVE  \E j \in 1 .. k : /\ new.paragraphs[q] = pars[j]
                                             /\ ~IsHeading(d, pars[j])
                                             /\ TitleAt(d, pars, new.title, j - 1)
        BY DEF IsUnder
      <4>4. CASE new.paragraphs[q] = par
        BY <1>8, <2>3, <2>4, <4>3, <4>4
      <4>5. CASE q \in DOMAIN ps /\ new.paragraphs[q] = ps[q]
        BY <2>3, <2>4, <4>3, <4>5 DEF IsUnder, ps
      <4>. QED  BY <2>4, <4>2, <4>4, <4>5 DEF ps
    <3>. QED  BY <2>4, <3>3, <3>4 DEF Fine
  <2>6. /\ u \in Seq(S) /\ u # <<>> /\ Len(u) = n /\ DOMAIN u = 1 .. n /\ u[n] = new
        /\ \A i \in 1 .. n - 1 : u[i] = all[i]
    <3>1. u \in Seq(S) /\ EndReplaced(u, all, new)
      BY <1>2, <2>4, LastReplaced
    <3>. HIDE DEF u
    <3>. QED  BY <3>1 DEF EndReplaced, n
  <2>. HIDE DEF u
  <2>7. Sorted(InsideApart(R, C), u)
    <3>. SUFFICES ASSUME NEW i \in 1 .. n, NEW j \in 1 .. n, i < j
                  PROVE  <<u[i], u[j]>> \in InsideApart(R, C)
      BY <2>6 DEF Sorted
    <3>1. i \in 1 .. n - 1 /\ u[i] = all[i] /\ i \in DOMAIN all /\ j \in DOMAIN all
      BY <1>3, <2>6
    <3>2. <<all[i], all[j]>> \in InsideApart(R, C)
      BY <1>2, <3>1 DEF Sorted
    <3>3. CASE j # n
      <4>1. u[j] = all[j]
        BY <1>3, <2>6, <3>3
      <4>. QED  BY <3>1, <3>2, <4>1
    <3>4. CASE j = n
      <4>1. u[j] = new /\ Inside(all[i]) \X Inside(last) \subseteq R /\ all[i] \in S
        BY <1>3, <2>2, <2>6, <3>1, <3>2, <3>4 DEF InsideApart
      <4>2. Inside(all[i]) \X ToSet(par) \subseteq R
        BY <1>3, <1>6, <3>1
      <4>3. Inside(all[i]) \X Inside(new) \subseteq R
        BY <2>4, <4>1, <4>2
      <4>. QED  BY <2>4, <3>1, <4>1, <4>3 DEF InsideApart, S
    <3>. QED  BY <3>3, <3>4
  <2>8. \A i \in DOMAIN u : Fine(u[i])
    <3>. SUFFICES ASSUME NEW i \in 1 .. n PROVE Fine(u[i])
      BY <2>6
    <3>1. CASE i = n
      BY <2>5, <2>6, <3>1
    <3>2. CASE i # n
      <4>1. u[i] = all[i]
        BY <1>3, <2>6, <3>2
      <4>. QED  BY <1>5, <4>1
    <3>. QED  BY <3>1, <3>2
  <2>9. ASSUME NEW j \in 1 .. k, ~IsHeading(d, pars[j])
        PROVE  \E i \in DOMAIN u : pars[j] \in ToSet(u[i].paragraphs)
    <3>0. last.paragraphs \in Seq(Seq(C))
      BY <2>3 DEF SectionType, S
    <3>1. ToSet(new.paragraphs) = ToSet(last.paragraphs) \cup {par}
      BY <1>1, <2>4, <3>0, SetOfAppend
    <3>2. CASE j = k
      BY <1>3, <2>2, <2>6, <3>1, <3>2
    <3>3. CASE j # k
      <4>1. PICK i \in 1 .. n : pars[j] \in ToSet(all[i].paragraphs)
        BY <1>3, <1>4, <2>9, <3>3 DEF IsSectioned
      <4>2. i \in DOMAIN u /\ pars[j] \in ToSet(u[i].paragraphs)
        <5>1. CASE i = n
          BY <2>2, <2>6, <3>1, <4>1, <5>1
        <5>2. CASE i # n
          BY <1>3, <2>6, <4>1, <5>2
        <5>. QED  BY <5>1, <5>2
      <4>. QED  BY <4>2
    <3>. QED  BY <3>2, <3>3
  <2>10. TitleAt(d, pars, u[Len(u)].title, k)
    BY <1>4, <1>8, <2>3, <2>4, <2>6, TitleStays
  <2>11. IsSectioned(d, C, R, pars, k, u)
    BY <2>6, <2>7, <2>8, <2>9, <2>10 DEF IsSectioned, S, Fine
  <2>. QED  BY <2>1, <2>11
<1>. QED  BY <1>7, <1>8

\* The sections of a document: its paragraphs but the headings, in order.
AreSections(d, C, R, pars, sections) ==
  /\ sections \in Seq(SectionType(C)) /\ Sorted(InsideApart(R, C), sections)
  /\ \A i \in DOMAIN sections :
       /\ SortedTexts(R, C, sections[i].paragraphs) /\ sections[i].paragraphs # <<>>
       /\ IsUnder(d, pars, Len(pars), sections[i])
  /\ \A j \in DOMAIN pars :
       ~IsHeading(d, pars[j]) =>
         \E i \in DOMAIN sections : pars[j] \in ToSet(sections[i].paragraphs)

\* _split_sections: no paragraph is lost, and each one is under its heading.
LEMMA SectionsInOrder ==
  ASSUME NEW C, NEW R, NEW d, NEW pages, ArePages(C, R, pages)
  PROVE  AreSections(d, C, R, ParsOf(d, pages), SplitSections(d, pages))
<1>. DEFINE none  == [title |-> <<>>, paragraphs |-> <<>>]
            start == <<none>>
            pars  == ParsOf(d, pages)
            all   == Sectioning!Fold(d, start, pars)
            f     == [i \in DOMAIN all |-> IF all[i].paragraphs = <<>> THEN <<>> ELSE <<all[i]>>]
            secs  == FlattenSeq(f)
            n     == Len(pars)
            S     == SectionType(C)
<1>1. SplitSections(d, pages) = secs
  BY DEF SplitSections, FoldLeft, MapThenFoldSet, Sectioning!Fold, Max, Sectioning!Max, SectionStep,
     ParsOf
<1>2. SortedTexts(R, C, pars)
  BY ParsInOrder DEF ArePars
<1>. HIDE DEF pars
<1>3. pars \in Seq(Seq(C)) /\ n \in Nat /\ DOMAIN pars = 1 .. n
  <2>1. pars \in Seq(Seq(C))
    BY <1>2 DEF SortedTexts
  <2>. QED  BY <2>1
<1>4. IsSectioned(d, C, R, pars, n, all)
  <2>1. PICK F : Sectioning!IsFold(F, d, start, pars)
    BY <1>3, Sectioning!FoldHasSteps
  <2>2. /\ F[0] = start /\ all = F[n]
        /\ \A k \in 1 .. n : F[k] = SectionStep(d, F[k - 1], pars[k])
    BY <2>1 DEF Sectioning!IsFold
  <2>3. IsSectioned(d, C, R, pars, 0, start)
    <3>1. none \in S /\ none.title = <<>> /\ none.paragraphs = <<>> /\ DOMAIN none.paragraphs = {}
      <4>1. <<>> \in Seq(C) /\ <<>> \in Seq(Seq(C)) /\ DOMAIN <<>> = {}
        OBVIOUS
      <4>. QED  BY <4>1 DEF SectionType
    <3>2. SortedTexts(R, C, none.paragraphs) /\ IsUnder(d, pars, 0, none)
      <4>1. <<>> \in Seq(Seq(C)) /\ DOMAIN <<>> = {}
        OBVIOUS
      <4>2. SortedTexts(R, C, <<>>)
        BY <4>1 DEF SortedTexts, Sorted
      <4>. QED  BY <3>1, <4>2 DEF IsUnder
    <3>3. TitleAt(d, pars, none.title, 0)
      <4>1. \A j \in 1 .. 0 : FALSE
        OBVIOUS
      <4>. QED  BY <3>1, <4>1 DEF TitleAt
    <3>. HIDE DEF none, S
    <3>4. /\ start \in Seq(S) /\ start # <<>> /\ Len(start) = 1
          /\ DOMAIN start = {1} /\ start[1] = none
      BY <3>1
    <3>. HIDE DEF start
    <3>5. Sorted(InsideApart(R, C), start)
      BY <3>4 DEF Sorted
    <3>6. \A j \in 1 .. 0 : FALSE
      OBVIOUS
    <3>. QED  BY <3>2, <3>3, <3>4, <3>5, <3>6 DEF IsSectioned, S
  <2>. HIDE DEF start, all, n, f
  <2>. DEFINE T == {k \in 0 .. n : IsSectioned(d, C, R, pars, k, F[k])}
  <2>4. 0 \in T
    BY <1>3, <2>2, <2>3
  <2>5. ASSUME NEW k \in 1 .. n, k - 1 \in T PROVE k \in T
    <3>1. IsSectioned(d, C, R, pars, k - 1, F[k - 1]) /\ k \in 1 .. Len(pars)
      BY <2>5 DEF n
    <3>2. IsSectioned(d, C, R, pars, k, SectionStep(d, F[k - 1], pars[k]))
      BY <1>2, <3>1, SectionOK
    <3>. QED  BY <1>3, <2>2, <3>2
  <2>6. n \in T
    <3>. HIDE DEF T
    <3>1. \A k \in 0 .. n : k \in T
      BY <1>3, <2>4, <2>5, Parsing!RangeInduction
    <3>. QED  BY <1>3, <3>1
  <2>. QED  BY <2>2, <2>6
<1>. HIDE DEF all, n, S
<1>5. /\ all \in Seq(S) /\ Sorted(InsideApart(R, C), all)
      /\ \A i \in DOMAIN all : SortedTexts(R, C, all[i].paragraphs) /\ IsUnder(d, pars, n, all[i])
      /\ \A j \in 1 .. n :
           ~IsHeading(d, pars[j]) => \E i \in DOMAIN all : pars[j] \in ToSet(all[i].paragraphs)
  BY <1>4 DEF IsSectioned, S
<1>6. /\ f = [i \in DOMAIN all |-> f[i]]
      /\ \A i \in DOMAIN all : f[i] = IF all[i].paragraphs = <<>> THEN <<>> ELSE <<all[i]>>
  OBVIOUS
<1>. HIDE DEF f
<1>7. \A i \in DOMAIN all : f[i] \in {<<>>, <<all[i]>>}
  BY <1>6
<1>8. Sorted(InsideApart(R, C), secs)
  BY <1>5, <1>6, <1>7, FilterSorted
<1>9. /\ secs \in Seq(S)
      /\ \A x \in ToSet(secs) : \E i \in DOMAIN all : x = all[i] /\ f[i] # <<>>
      /\ \A i \in DOMAIN all : f[i] # <<>> => all[i] \in ToSet(secs)
  BY <1>5, <1>6, <1>7, FilterHolds
<1>10. \A i \in DOMAIN all : f[i] # <<>> <=> all[i].paragraphs # <<>>
  <2>1. \A x : <<x>> # <<>>
    <3>1. \A x : Len(<<x>>) = 1 /\ Len(<<>>) = 0
      OBVIOUS
    <3>. QED  BY <3>1
  <2>. QED  BY <1>6, <2>1, Zenon
<1>. HIDE DEF secs
<1>11. ASSUME NEW i \in DOMAIN secs
       PROVE  /\ SortedTexts(R, C, secs[i].paragraphs) /\ secs[i].paragraphs # <<>>
              /\ IsUnder(d, pars, n, secs[i])
  <2>1. PICK j \in DOMAIN all : secs[i] = all[j] /\ f[j] # <<>>
    BY <1>9 DEF ToSet
  <2>. QED  BY <1>5, <1>10, <2>1
<1>12. ASSUME NEW j \in DOMAIN pars, ~IsHeading(d, pars[j])
       PROVE  \E i \in DOMAIN secs : pars[j] \in ToSet(secs[i].paragraphs)
  <2>1. PICK i \in DOMAIN all : pars[j] \in ToSet(all[i].paragraphs)
    BY <1>3, <1>5, <1>12
  <2>2. all[i].paragraphs # <<>>
    BY <2>1 DEF ToSet
  <2>3. PICK m \in DOMAIN secs : secs[m] = all[i]
    BY <1>9, <1>10, <2>2 DEF ToSet
  <2>. QED  BY <2>1, <2>3
<1>13. AreSections(d, C, R, pars, secs)
  BY <1>8, <1>9, <1>11, <1>12 DEF AreSections, S, n
<1>. QED  BY <1>1, <1>13 DEF pars

-----------------------------------------------------------------------------
(* The pieces of a paragraph, in its order and none too long. *)

LEMMA DivIsWhole ==
  ASSUME NEW x \in Nat, NEW t \in Nat \ {0}
  PROVE  x \div t \in Nat /\ (x \div t) * t <= x /\ x < (x \div t) * t + t
OBVIOUS

LEMMA TimesGrows ==
  ASSUME NEW i \in Nat, NEW j \in Nat, NEW t \in Nat, i <= j
  PROVE  i * t \in Nat /\ j * t \in Nat /\ i * t <= j * t
OBVIOUS

LEMMA OneTimesMore ==
  ASSUME NEW i \in Nat \ {0}, NEW t \in Nat
  PROVE  i * t = (i - 1) * t + t /\ (i - 1) * t \in Nat
OBVIOUS

\* Parts of length t of a text of length n, one after the other.
LEMMA PartsCover ==
  ASSUME NEW n \in Nat, NEW t \in Nat \ {0}, NEW k, k = (n + t - 1) \div t
  PROVE  /\ k \in Nat
         /\ \A i \in 1 .. k : (i - 1) * t \in Nat /\ (i - 1) * t + 1 <= n
         /\ \A m \in 1 .. n : \E i \in 1 .. k : (i - 1) * t + 1 <= m /\ m <= i * t
<1>1. k \in Nat /\ k * t <= n + t - 1 /\ n + t - 1 < k * t + t
  <2>1. n + t - 1 \in Nat
    OBVIOUS
  <2>. QED  BY <2>1, DivIsWhole
<1>2. ASSUME NEW i \in 1 .. k PROVE (i - 1) * t \in Nat /\ (i - 1) * t + 1 <= n
  <2>1. i * t <= k * t /\ i * t \in Nat /\ k * t \in Nat
    BY <1>1, TimesGrows
  <2>2. i * t = (i - 1) * t + t /\ (i - 1) * t \in Nat
    BY <1>1, OneTimesMore
  <2>. QED  BY <1>1, <2>1, <2>2
<1>3. ASSUME NEW m \in 1 .. n PROVE \E i \in 1 .. k : (i - 1) * t + 1 <= m /\ m <= i * t
  <2>. DEFINE q == (m - 1) \div t
              i == q + 1
  <2>1. q \in Nat /\ q * t <= m - 1 /\ m - 1 < q * t + t
    <3>1. m - 1 \in Nat
      OBVIOUS
    <3>. QED  BY <3>1, DivIsWhole
  <2>. HIDE DEF q
  <2>2. i \in Nat \ {0} /\ i - 1 = q /\ i * t = q * t + t /\ q * t \in Nat
    BY <2>1, OneTimesMore
  <2>3. i <= k
    <3>1. CASE k + 1 <= i
      <4>1. (k + 1) * t <= i * t /\ (k + 1) * t = k * t + t /\ k * t \in Nat
        BY <1>1, <2>2, <3>1, TimesGrows, OneTimesMore
      <4>. QED  BY <1>1, <2>1, <2>2, <4>1
    <3>. QED  BY <1>1, <2>2, <3>1
  <2>. QED  BY <2>1, <2>2, <2>3
<1>. QED  BY <1>1, <1>2, <1>3

\* The pieces of a text: in its order, all of it, and none longer than the
\* target.
IsSplit(C, R, text, pieces) ==
  /\ SortedTexts(R, C, pieces)
  /\ \A i \in DOMAIN pieces :
       /\ pieces[i] # <<>> /\ Len(pieces[i]) <= TARGET_CHARS
       /\ ToSet(pieces[i]) \subseteq text
  /\ \A c \in text : \E i \in DOMAIN pieces : c \in ToSet(pieces[i])

\* _hard_split: the parts of a paragraph are in order and hold all of it.
LEMMA HardSplitParts ==
  ASSUME NEW C, NEW R, NEW par \in Seq(C), Sorted(R, par)
  PROVE  IsSplit(C, R, ToSet(par), HardSplit(par))
<1>. DEFINE length  == Len(par)
            step    == TARGET_CHARS
            n       == (length + step - 1) \div step
            from(i) == (i - 1) * step + 1
            to(i)   == Min({length, i * step})
            pieces  == [i \in 1 .. n |-> SubSeq(par, from(i), to(i))]
<1>1. length \in Nat /\ step \in Nat \ {0} /\ DOMAIN par = 1 .. length
  BY ChunkerAssumption
<1>2. HardSplit(par) = pieces
  BY DEF HardSplit
<1>3. /\ n \in Nat
      /\ \A i \in 1 .. n : (i - 1) * step \in Nat /\ (i - 1) * step + 1 <= length
      /\ \A m \in 1 .. length : \E i \in 1 .. n : (i - 1) * step + 1 <= m /\ m <= i * step
  <2>. HIDE DEF length, step
  <2>1. n = (length + step - 1) \div step
    OBVIOUS
  <2>. HIDE DEF n
  <2>. QED  BY <1>1, <2>1, PartsCover
<1>. HIDE DEF n, step, length
<1>4. ASSUME NEW i \in 1 .. n
      PROVE  /\ from(i) \in 1 .. length /\ to(i) \in from(i) .. length
             /\ to(i) - from(i) + 1 <= step
             /\ to(i) = IF length <= i * step THEN length ELSE i * step
             /\ i * step \in Nat
  <2>. DEFINE at   == (i - 1) * step
              till == i * step
  <2>1. at \in Nat /\ at + 1 <= length /\ till = at + step
    BY <1>1, <1>3, OneTimesMore
  <2>. HIDE DEF at, till
  <2>2. from(i) = at + 1 /\ to(i) = IF length <= till THEN length ELSE till
    BY <1>1, <2>1, LesserOfTwo DEF at, till
  <2>. HIDE DEF from, to
  <2>3. till \in Nat
    BY <1>1, <2>1
  <2>. QED  BY <1>1, <2>1, <2>2, <2>3 DEF till
<1>5. /\ pieces = [i \in 1 .. n |-> pieces[i]] /\ DOMAIN pieces = 1 .. n
      /\ \A i \in 1 .. n : pieces[i] = SubSeq(par, from(i), to(i))
  BY Zenon
<1>6. \A i, j \in 1 .. n : i < j => to(i) < from(j)
  <2>. SUFFICES ASSUME NEW i \in 1 .. n, NEW j \in 1 .. n, i < j PROVE to(i) < from(j)
    OBVIOUS
  <2>1. i * step <= (j - 1) * step /\ (j - 1) * step \in Nat
    <3>1. i \in Nat /\ j - 1 \in Nat /\ i <= j - 1
      BY <1>3
    <3>. QED  BY <1>1, <3>1, TimesGrows
  <2>2. to(i) <= i * step /\ from(j) = (j - 1) * step + 1 /\ to(i) \in Int /\ i * step \in Nat
    <3>1. /\ to(i) = IF length <= i * step THEN length ELSE i * step
          /\ i * step \in Nat
      BY <1>4
    <3>. HIDE DEF to
    <3>. QED  BY <1>1, <3>1
  <2>. HIDE DEF to, from
  <2>. QED  BY <2>1, <2>2
<1>7. \A m \in 1 .. length : \E i \in 1 .. n : m \in from(i) .. to(i)
  <2>. SUFFICES ASSUME NEW m \in 1 .. length PROVE \E i \in 1 .. n : m \in from(i) .. to(i)
    OBVIOUS
  <2>1. PICK i \in 1 .. n : (i - 1) * step + 1 <= m /\ m <= i * step
    BY <1>3
  <2>2. /\ from(i) \in 1 .. length /\ to(i) \in from(i) .. length
        /\ to(i) = IF length <= i * step THEN length ELSE i * step
        /\ i * step \in Nat
    BY <1>4
  <2>3. from(i) <= m
    BY <2>1
  <2>. HIDE DEF to, from
  <2>4. m \in from(i) .. to(i)
    BY <1>1, <2>1, <2>2, <2>3
  <2>. QED  BY <2>4
<1>. HIDE DEF pieces, from, to
<1>8. \A i \in 1 .. n :
        /\ pieces[i] \in Seq(C) /\ Sorted(R, pieces[i])
        /\ \A x \in ToSet(pieces[i]) : \E m \in from(i) .. to(i) : x = par[m]
        /\ \A m \in from(i) .. to(i) : par[m] \in ToSet(pieces[i])
        /\ Len(pieces[i]) = to(i) - from(i) + 1
  <2>. SUFFICES ASSUME NEW i \in 1 .. n
                PROVE  /\ pieces[i] \in Seq(C) /\ Sorted(R, pieces[i])
                       /\ \A x \in ToSet(pieces[i]) : \E m \in from(i) .. to(i) : x = par[m]
                       /\ \A m \in from(i) .. to(i) : par[m] \in ToSet(pieces[i])
                       /\ Len(pieces[i]) = to(i) - from(i) + 1
    OBVIOUS
  <2>. DEFINE a == from(i)
              b == to(i)
  <2>1. a \in 1 .. Len(par) /\ b \in a .. Len(par)
    BY <1>4 DEF length
  <2>. HIDE DEF a, b
  <2>2. IsPart(C, R, par, a, b, SubSeq(par, a, b))
    BY <2>1, PartSorted
  <2>. QED  BY <1>5, <2>2 DEF a, b, IsPart
<1>9. pieces \in Seq(Seq(C))
  <2>1. \A i \in 1 .. n : pieces[i] \in Seq(C)
    BY <1>8
  <2>. QED  BY <1>3, <1>5, <2>1, FunctionIsSeq
<1>10. \A i \in 1 .. n : /\ pieces[i] # <<>> /\ Len(pieces[i]) <= TARGET_CHARS
                         /\ ToSet(pieces[i]) \subseteq ToSet(par)
  <2>. SUFFICES ASSUME NEW i \in 1 .. n
                PROVE  /\ pieces[i] # <<>> /\ Len(pieces[i]) <= TARGET_CHARS
                       /\ ToSet(pieces[i]) \subseteq ToSet(par)
    OBVIOUS
  <2>0. Len(pieces[i]) <= TARGET_CHARS
    BY <1>4, <1>8 DEF step
  <2>1. from(i) \in from(i) .. to(i)
    BY <1>1, <1>4
  <2>2. pieces[i] # <<>>
    <3>1. ToSet(<<>>) = {}
      BY DEF ToSet
    <3>2. par[from(i)] \in ToSet(pieces[i])
      BY <1>8, <2>1
    <3>. QED  BY <3>1, <3>2
  <2>3. \A m \in from(i) .. to(i) : m \in DOMAIN par
    BY <1>1, <1>4
  <2>4. \A m \in DOMAIN par : par[m] \in ToSet(par)
    BY DEF ToSet
  <2>. QED  BY <1>8, <2>0, <2>2, <2>3, <2>4
<1>11. Sorted(Apart(R, C), pieces)
  <2>. SUFFICES ASSUME NEW i \in 1 .. n, NEW j \in 1 .. n, i < j
                PROVE  <<pieces[i], pieces[j]>> \in Apart(R, C)
    BY <1>5 DEF Sorted
  <2>1. ASSUME NEW a \in ToSet(pieces[i]), NEW b \in ToSet(pieces[j]) PROVE <<a, b>> \in R
    <3>1. PICK m \in from(i) .. to(i) : a = par[m]
      BY <1>8
    <3>2. PICK k \in from(j) .. to(j) : b = par[k]
      BY <1>8
    <3>3. m \in DOMAIN par /\ k \in DOMAIN par /\ m < k
      BY <1>1, <1>4, <1>6
    <3>. QED  BY <3>1, <3>2, <3>3 DEF Sorted
  <2>. QED  BY <1>8, <2>1 DEF Apart
<1>12. ASSUME NEW c \in ToSet(par) PROVE \E i \in DOMAIN pieces : c \in ToSet(pieces[i])
  <2>1. PICK m \in 1 .. length : c = par[m]
    BY <1>1 DEF ToSet
  <2>2. PICK i \in 1 .. n : m \in from(i) .. to(i)
    BY <1>7
  <2>. QED  BY <1>5, <1>8, <2>1, <2>2
<1>13. IsSplit(C, R, ToSet(par), pieces)
  BY <1>5, <1>8, <1>9, <1>10, <1>11, <1>12 DEF IsSplit, SortedTexts
<1>. QED  BY <1>2, <1>13

PiecesOf(section) ==
  FlattenSeq([i \in DOMAIN section.paragraphs |-> HardSplit(section.paragraphs[i])])

LEMMA PiecesInOrder ==
  ASSUME NEW C, NEW R, NEW section, SortedTexts(R, C, section.paragraphs)
  PROVE  IsSplit(C, R, Inside(section), PiecesOf(section))
<1>. DEFINE ps     == section.paragraphs
            n      == Len(ps)
            splits == [i \in DOMAIN ps |-> HardSplit(ps[i])]
            pieces == FlattenSeq(splits)
            X      == Seq(C)
            Is(u)  == u # <<>> /\ Len(u) <= TARGET_CHARS
<1>1. ps \in Seq(Seq(C)) /\ Sorted(Apart(R, C), ps) /\ \A i \in DOMAIN ps : Sorted(R, ps[i])
  BY DEF SortedTexts
<1>2. PiecesOf(section) = pieces
  BY DEF PiecesOf
<1>3. Inside(section) = UNION {ToSet(ps[q]) : q \in DOMAIN ps}
  BY DEF Inside
<1>. HIDE DEF ps
<1>4. /\ n \in Nat /\ DOMAIN ps = 1 .. n
      /\ \A i \in 1 .. n : ps[i] \in Seq(C) /\ Sorted(R, ps[i])
  BY <1>1
<1>5. /\ splits = [i \in 1 .. n |-> splits[i]] /\ DOMAIN splits = 1 .. n
      /\ \A i \in 1 .. n : splits[i] = HardSplit(ps[i])
  BY <1>4
<1>. HIDE DEF splits, n
<1>6. \A i \in 1 .. n : IsSplit(C, R, ToSet(ps[i]), splits[i])
  BY <1>4, <1>5, HardSplitParts
<1>7. \A i \in 1 .. n :
        /\ splits[i] \in Seq(X) /\ Sorted(Apart(R, C), splits[i])
        /\ \A m \in DOMAIN splits[i] : Sorted(R, splits[i][m])
  BY <1>6 DEF IsSplit, SortedTexts
<1>8. \A i \in 1 .. n : \A e \in ToSet(splits[i]) :
        e \in Seq(C) /\ Is(e) /\ ToSet(e) \subseteq ToSet(ps[i]) /\ Sorted(R, e)
  <2>. SUFFICES ASSUME NEW i \in 1 .. n, NEW e \in ToSet(splits[i])
                PROVE  e \in Seq(C) /\ Is(e) /\ ToSet(e) \subseteq ToSet(ps[i]) /\ Sorted(R, e)
    OBVIOUS
  <2>1. PICK m \in DOMAIN splits[i] : e = splits[i][m]
    BY DEF ToSet
  <2>2. Is(splits[i][m]) /\ ToSet(splits[i][m]) \subseteq ToSet(ps[i])
    BY <1>6 DEF IsSplit
  <2>3. splits[i][m] \in Seq(C) /\ Sorted(R, splits[i][m])
    BY <1>7
  <2>. QED  BY <2>1, <2>2, <2>3
<1>9. \A p, q \in 1 .. n : p < q => ToSet(splits[p]) \X ToSet(splits[q]) \subseteq Apart(R, C)
  <2>. SUFFICES ASSUME NEW p \in 1 .. n, NEW q \in 1 .. n, p < q,
                       NEW a \in ToSet(splits[p]), NEW b \in ToSet(splits[q])
                PROVE  <<a, b>> \in Apart(R, C)
    OBVIOUS
  <2>1. ToSet(ps[p]) \X ToSet(ps[q]) \subseteq R
    BY <1>1, <1>4 DEF Sorted, Apart
  <2>2. /\ a \in Seq(C) /\ ToSet(a) \subseteq ToSet(ps[p])
        /\ b \in Seq(C) /\ ToSet(b) \subseteq ToSet(ps[q])
    BY <1>8
  <2>3. ToSet(a) \X ToSet(b) \subseteq R
    BY <2>1, <2>2
  <2>. QED  BY <2>2, <2>3 DEF Apart
<1>. HIDE DEF X, Is
<1>10. splits \in Seq(Seq(X))
  <2>1. \A i \in 1 .. n : splits[i] \in Seq(X)
    BY <1>7
  <2>. QED  BY <1>4, <1>5, <2>1, FunctionIsSeq
<1>11. Sorted(Apart(R, C), pieces)
  <2>1. \A p \in DOMAIN splits : Sorted(Apart(R, C), splits[p])
    BY <1>5, <1>7
  <2>2. \A p, q \in DOMAIN splits :
          p < q => ToSet(splits[p]) \X ToSet(splits[q]) \subseteq Apart(R, C)
    BY <1>5, <1>9
  <2>. QED  BY <1>10, <2>1, <2>2, SortedFlatten
<1>12. pieces \in Seq(X) /\ ToSet(pieces) = UNION {ToSet(splits[p]) : p \in 1 .. n}
  BY <1>5, <1>10, FlattenHolds
<1>. HIDE DEF pieces
<1>13. ASSUME NEW i \in DOMAIN pieces
       PROVE  /\ Sorted(R, pieces[i]) /\ Is(pieces[i])
              /\ ToSet(pieces[i]) \subseteq Inside(section)
  <2>1. pieces[i] \in ToSet(pieces)
    BY DEF ToSet
  <2>2. PICK p \in 1 .. n : pieces[i] \in ToSet(splits[p])
    BY <1>12, <2>1
  <2>3. Sorted(R, pieces[i]) /\ Is(pieces[i]) /\ ToSet(pieces[i]) \subseteq ToSet(ps[p])
    BY <1>8, <2>2
  <2>. QED  BY <1>3, <1>4, <2>3
<1>14. ASSUME NEW c \in Inside(section) PROVE \E i \in DOMAIN pieces : c \in ToSet(pieces[i])
  <2>1. PICK p \in 1 .. n : c \in ToSet(ps[p])
    BY <1>3, <1>4
  <2>2. PICK m \in DOMAIN splits[p] : c \in ToSet(splits[p][m])
    BY <1>6, <2>1 DEF IsSplit
  <2>3. splits[p][m] \in ToSet(splits[p])
    BY DEF ToSet
  <2>4. splits[p][m] \in ToSet(pieces)
    BY <1>12, <2>3
  <2>5. PICK i \in DOMAIN pieces : pieces[i] = splits[p][m]
    BY <2>4 DEF ToSet
  <2>. QED  BY <2>2, <2>5
<1>15. IsSplit(C, R, Inside(section), pieces)
  BY <1>11, <1>12, <1>13, <1>14 DEF IsSplit, SortedTexts, X, Is
<1>. QED  BY <1>2, <1>15

\* One part more of a flattening.
LEMMA FlattenAppend ==
  ASSUME NEW X, NEW s \in Seq(Seq(X)), NEW x \in Seq(X)
  PROVE  FlattenSeq(Append(s, x)) = FlattenSeq(s) \o x
<1>. DEFINE t == Append(s, x)
            n == Len(s)
<1>1. /\ n \in Nat /\ DOMAIN s = 1 .. n /\ Len(t) = n + 1 /\ t[n + 1] = x
      /\ \A i \in 1 .. n : t[i] = s[i]
  OBVIOUS
<1>. HIDE DEF t
<1>2. PICK G : /\ G[1] = t[1]
               /\ \A k \in 2 .. n + 1 : G[k] = G[k - 1] \o t[k]
               /\ FlattenSeq(t) = G[n + 1]
  <2>1. Len(t) \in Nat \ {0}
    BY <1>1
  <2>. QED  BY <1>1, <2>1, FlattenHasSteps
<1>3. CASE n = 0
  <2>1. s = <<>> /\ FlattenSeq(s) = s
    <3>1. s = <<>>
      BY <1>3
    <3>. QED  BY <1>3, <3>1 DEF FlattenSeq
  <2>2. FlattenSeq(t) = x
    BY <1>1, <1>2, <1>3
  <2>3. <<>> \o x = x
    OBVIOUS
  <2>. QED  BY <2>1, <2>2, <2>3 DEF t
<1>4. CASE n # 0
  <2>1. PICK F : /\ F[1] = s[1]
                 /\ \A k \in 2 .. n : F[k] = F[k - 1] \o s[k]
                 /\ FlattenSeq(s) = F[n]
    <3>1. Len(s) \in Nat \ {0}
      BY <1>1, <1>4
    <3>. QED  BY <3>1, FlattenHasSteps
  <2>. HIDE DEF n
  <2>. DEFINE T == {k \in 0 .. n : k = 0 \/ F[k] = G[k]}
  <2>2. 0 \in T
    BY <1>1
  <2>3. ASSUME NEW k \in 1 .. n, k - 1 \in T PROVE k \in T
    <3>1. CASE k = 1
      BY <1>1, <1>2, <2>1, <3>1
    <3>2. CASE k # 1
      <4>1. k \in 2 .. n /\ k \in 2 .. n + 1 /\ F[k - 1] = G[k - 1] /\ k \in 0 .. n
        BY <1>1, <2>3, <3>2
      <4>2. F[k] = F[k - 1] \o s[k]
        BY <2>1, <4>1
      <4>3. G[k] = G[k - 1] \o t[k]
        BY <1>2, <4>1
      <4>4. t[k] = s[k]
        BY <1>1
      <4>5. F[k] = G[k]
        BY <4>1, <4>2, <4>3, <4>4, Zenon
      <4>. QED  BY <4>1, <4>5
    <3>. QED  BY <3>1, <3>2
  <2>4. F[n] = G[n]
    <3>. HIDE DEF T
    <3>1. \A k \in 0 .. n : k \in T
      BY <1>1, <2>2, <2>3, Parsing!RangeInduction
    <3>2. n \in T
      BY <1>1, <3>1
    <3>. QED  BY <1>4, <3>2 DEF T
  <2>5. G[n + 1] = G[n] \o x
    <3>1. n + 1 \in 2 .. n + 1 /\ (n + 1) - 1 = n
      BY <1>1, <1>4
    <3>2. G[n + 1] = G[(n + 1) - 1] \o t[n + 1]
      BY <1>2, <3>1, Zenon
    <3>3. t[n + 1] = x
      BY <1>1
    <3>. QED  BY <3>1, <3>2, <3>3, Zenon
  <2>6. FlattenSeq(t) = FlattenSeq(s) \o x
    BY <1>2, <2>1, <2>4, <2>5, Zenon
  <2>. QED  BY <2>6 DEF t
<1>. QED  BY <1>3, <1>4

-----------------------------------------------------------------------------
(* The buffer of pieces that a chunk is made of, and what the next one repeats. *)

LEMMA FlattenNone == FlattenSeq(<<>>) = <<>>
BY DEF FlattenSeq

LEMMA FlattenOne ==
  ASSUME NEW X, NEW x \in Seq(X)
  PROVE  FlattenSeq(<<x>>) = x
<1>. DEFINE none == <<>>
<1>1. none \in Seq(Seq(X)) /\ Append(none, x) = <<x>> /\ none \o x = x
  OBVIOUS
<1>2. FlattenSeq(none) = none
  BY FlattenNone
<1>. HIDE DEF none
<1>3. FlattenSeq(Append(none, x)) = FlattenSeq(none) \o x
  BY <1>1, FlattenAppend
<1>. QED  BY <1>1, <1>2, <1>3, Zenon

\* A chunk has not more of the document than the target and what it repeats.
Repeated == IF OVERLAP_CHARS = 0 THEN TARGET_CHARS ELSE OVERLAP_CHARS

LEMMA LimitsAreNumbers == Repeated \in Nat /\ TARGET_CHARS \in Nat
BY ChunkerAssumption DEF Repeated

\* Newlines do not count towards the target, and twice the target is enough
\* for them: the pieces have a character each, or are two.
Longest == 2 * TARGET_CHARS + (IF OVERLAP_CHARS = 0 THEN 1 ELSE 0)

Fits(n, size) ==
  /\ n \in Nat /\ size \in Nat /\ n <= size
  /\ size <= TARGET_CHARS \/ (n <= 2 /\ size <= TARGET_CHARS + Repeated)

LEMMA FittingIsShort ==
  ASSUME NEW n, NEW size, Fits(n, size)
  PROVE  size <= TARGET_CHARS + Repeated /\ (n # 0 => size + (n - 1) <= Longest)
BY ChunkerAssumption DEF Fits, Repeated, Longest

LEMMA RepeatedFits ==
  ASSUME NEW n \in {0, 1}, NEW size \in Nat, n <= size, size <= Repeated,
         NEW more \in Nat \ {0}, more <= TARGET_CHARS
  PROVE  Fits(n + 1, size + more)
BY LimitsAreNumbers DEF Fits

\* The pieces that wait fit in a chunk.
BufferFits(buffer) == Fits(Len(buffer), Len(FlattenSeq(buffer)))

\* A buffer of pieces, by its text.
IsBuffer(C, R, buffer) ==
  /\ buffer \in Seq(Seq(C)) /\ FlattenSeq(buffer) \in Seq(C) /\ Sorted(R, FlattenSeq(buffer))

IsOverlap(C, R, piece, buffer) ==
  /\ IsBuffer(C, R, buffer) /\ ToSet(FlattenSeq(buffer)) \subseteq ToSet(piece)
  /\ Len(FlattenSeq(buffer)) <= Repeated
  /\ Len(buffer) \in {0, 1} /\ Len(buffer) <= Len(FlattenSeq(buffer))

\* The overlap is the end of the piece before.
LEMMA OverlapIsEnd ==
  ASSUME NEW C, NEW R, NEW piece \in Seq(C), Sorted(R, piece), Len(piece) <= TARGET_CHARS
  PROVE  IsOverlap(C, R, piece, OverlapOf(piece))
<1>. DEFINE n == Len(piece)
<1>1. n \in Nat /\ DOMAIN piece = 1 .. n
  OBVIOUS
<1>2. ASSUME NEW u \in Seq(C), Sorted(R, u), ToSet(u) \subseteq ToSet(piece), Len(u) <= Repeated,
             Len(u) >= 1
      PROVE  IsOverlap(C, R, piece, <<u>>)
  <2>1. FlattenSeq(<<u>>) = u
    BY <1>2, FlattenOne
  <2>2. <<u>> \in Seq(Seq(C)) /\ Len(<<u>>) = 1
    BY <1>2
  <2>. QED  BY <1>2, <2>1, <2>2 DEF IsOverlap, IsBuffer
<1>3. CASE n <= OVERLAP_CHARS
  <2>. DEFINE none == <<>>
  <2>1. /\ none \in Seq(C) /\ none \in Seq(Seq(C)) /\ FlattenSeq(none) = none /\ ToSet(none) = {}
        /\ Sorted(R, none) /\ Len(none) = 0
    BY FlattenNone DEF ToSet, Sorted
  <2>2. OverlapOf(piece) = none
    BY <1>3 DEF OverlapOf
  <2>. HIDE DEF none
  <2>. QED  BY <2>1, <2>2, LimitsAreNumbers DEF IsOverlap, IsBuffer
<1>4. CASE ~(n <= OVERLAP_CHARS) /\ OVERLAP_CHARS = 0
  <2>1. OverlapOf(piece) = <<piece>>
    BY <1>4 DEF OverlapOf
  <2>2. Len(piece) <= Repeated /\ Len(piece) >= 1
    BY <1>1, <1>4 DEF Repeated
  <2>. QED  BY <1>2, <2>1, <2>2
<1>5. CASE ~(n <= OVERLAP_CHARS) /\ OVERLAP_CHARS # 0
  <2>. DEFINE cut == n - OVERLAP_CHARS + 1
              end == SubSeq(piece, cut, n)
  <2>1. cut \in 1 .. Len(piece) /\ n \in cut .. Len(piece) /\ n - cut + 1 = OVERLAP_CHARS
    BY <1>1, <1>5, ChunkerAssumption
  <2>2. OverlapOf(piece) = <<end>>
    BY <1>5 DEF OverlapOf
  <2>. HIDE DEF cut, n
  <2>3. IsPart(C, R, piece, cut, n, end)
    BY <2>1, PartSorted
  <2>. HIDE DEF end
  <2>4. end \in Seq(C) /\ Sorted(R, end) /\ Len(end) <= Repeated /\ Len(end) >= 1
    BY <1>5, <2>1, <2>3, ChunkerAssumption DEF IsPart, Repeated
  <2>5. ToSet(end) \subseteq ToSet(piece)
    <3>1. \A x \in ToSet(end) : \E i \in cut .. n : x = piece[i]
      BY <2>3 DEF IsPart
    <3>2. cut .. n \subseteq DOMAIN piece
      BY <1>1, <2>1
    <3>. QED  BY <3>1, <3>2 DEF ToSet
  <2>. QED  BY <1>2, <2>2, <2>4, <2>5
<1>. QED  BY <1>3, <1>4, <1>5

IsGrown(C, R, new, buffer, piece) ==
  /\ IsBuffer(C, R, new) /\ new # <<>> /\ Last(new) = piece
  /\ ToSet(FlattenSeq(new)) = ToSet(FlattenSeq(buffer)) \cup ToSet(piece)
  /\ Len(FlattenSeq(new)) = Len(FlattenSeq(buffer)) + Len(piece)
  /\ Len(new) = Len(buffer) + 1

LEMMA BufferGrows ==
  ASSUME NEW C, NEW R, NEW buffer, IsBuffer(C, R, buffer), NEW piece \in Seq(C), Sorted(R, piece),
         ToSet(FlattenSeq(buffer)) \X ToSet(piece) \subseteq R
  PROVE  IsGrown(C, R, Append(buffer, piece), buffer, piece)
<1>. DEFINE new  == Append(buffer, piece)
            text == FlattenSeq(buffer)
            u    == text \o piece
<1>1. buffer \in Seq(Seq(C)) /\ text \in Seq(C) /\ Sorted(R, text)
  BY DEF IsBuffer
<1>2. FlattenSeq(new) = u
  BY <1>1, FlattenAppend
<1>. HIDE DEF text
<1>3. Sorted(R, u)
  BY <1>1, SortedConcat DEF text
<1>4. u \in Seq(C) /\ ToSet(u) = ToSet(text) \cup ToSet(piece)
  BY <1>1, SetOfConcat
<1>5. Len(u) = Len(text) + Len(piece)
  BY <1>1
<1>6. new \in Seq(Seq(C)) /\ new # <<>> /\ Len(new) = Len(buffer) + 1
  BY <1>1, AppendIsSome
<1>7. Last(new) = piece
  <2>1. Len(new) = Len(buffer) + 1 /\ new[Len(buffer) + 1] = piece
    BY <1>1
  <2>. QED  BY <2>1 DEF Last
<1>. HIDE DEF new, u
<1>. QED  BY <1>2, <1>3, <1>4, <1>5, <1>6, <1>7 DEF IsGrown, IsBuffer, new, text

HeldBy(pieces, k) == UNION {ToSet(pieces[m]) : m \in 1 .. k}

LEMMA HeldBefore ==
  ASSUME NEW C, NEW R, NEW pieces, SortedTexts(R, C, pieces), NEW k \in 1 .. Len(pieces)
  PROVE  /\ HeldBy(pieces, k - 1) \X ToSet(pieces[k]) \subseteq R
         /\ HeldBy(pieces, k) = HeldBy(pieces, k - 1) \cup ToSet(pieces[k])
<1>1. pieces \in Seq(Seq(C)) /\ Sorted(Apart(R, C), pieces)
  BY DEF SortedTexts
<1>2. Len(pieces) \in Nat /\ DOMAIN pieces = 1 .. Len(pieces)
  BY <1>1
<1>3. 1 .. k = (1 .. k - 1) \cup {k}
  BY <1>2
<1>4. HeldBy(pieces, k) = HeldBy(pieces, k - 1) \cup ToSet(pieces[k])
  BY <1>3 DEF HeldBy
<1>5. ASSUME NEW m \in 1 .. k - 1 PROVE ToSet(pieces[m]) \X ToSet(pieces[k]) \subseteq R
  <2>1. m \in DOMAIN pieces /\ k \in DOMAIN pieces /\ m < k
    BY <1>2
  <2>. QED  BY <1>1, <2>1 DEF Sorted, Apart
<1>. QED  BY <1>4, <1>5 DEF HeldBy

-----------------------------------------------------------------------------
(* The chunks of a section, after each piece. *)

PagesOf(text) == {c[1] : c \in ToSet(text)}

\* The length of a chunk, but for its title.
IsShort(chunk) ==
  /\ Len(chunk.text) <= TARGET_CHARS + Repeated
  /\ chunk.breaks \in Nat
  /\ Len(chunk.text) + chunk.breaks <= Longest + (IF chunk.section = <<>> THEN 0 ELSE 3)

\* A chunk of a section: characters of held in order, with their pages.
IsChunk(C, R, title, held, chunk) ==
  /\ chunk \in ChunkType(C) /\ chunk.section = title
  /\ chunk.page_start = Min(PagesOf(chunk.text)) /\ chunk.page_end = Max(PagesOf(chunk.text))
  /\ chunk.text \in Seq(C) /\ chunk.text # <<>> /\ Sorted(R, chunk.text)
  /\ ToSet(chunk.text) \subseteq held /\ IsShort(chunk)

LEMMA BufferIsChunk ==
  ASSUME NEW C, NEW R, NEW section \in SectionType(C), NEW buffer, IsBuffer(C, R, buffer),
         FlattenSeq(buffer) # <<>>, BufferFits(buffer)
  PROVE  /\ IsChunk(C, R, section.title, ToSet(FlattenSeq(buffer)), ChunkOf(section, buffer))
         /\ ChunkOf(section, buffer).text = FlattenSeq(buffer)
<1>. DEFINE chunk == ChunkOf(section, buffer)
<1>1. /\ chunk.section = section.title /\ chunk.text = FlattenSeq(buffer)
      /\ chunk.page_start = Min(PagesOf(chunk.text)) /\ chunk.page_end = Max(PagesOf(chunk.text))
  BY DEF ChunkOf, PagesOf
<1>2. buffer \in Seq(Seq(C)) /\ FlattenSeq(buffer) \in Seq(C) /\ Sorted(R, FlattenSeq(buffer))
  BY DEF IsBuffer
<1>3. buffer # <<>>
  BY FlattenNone
<1>4. chunk \in ChunkType(C)
  BY <1>2, <1>3 DEF ChunkType
<1>5. chunk.breaks = Len(buffer) - 1 + (IF section.title = <<>> THEN 0 ELSE 3)
  BY DEF ChunkOf
<1>. HIDE DEF chunk
<1>6. IsShort(chunk)
  <2>. DEFINE n    == Len(buffer)
              size == Len(FlattenSeq(buffer))
  <2>1. n \in Nat \ {0} /\ size \in Nat
    BY <1>2, <1>3, EmptySeq
  <2>2. size <= TARGET_CHARS + Repeated /\ size + (n - 1) <= Longest
    BY <2>1, FittingIsShort DEF BufferFits
  <2>3. Len(chunk.text) = size /\ chunk.breaks = n - 1 + (IF chunk.section = <<>> THEN 0 ELSE 3)
    BY <1>1, <1>5
  <2>4. Longest \in Int
    BY ChunkerAssumption DEF Longest
  <2>. HIDE DEF n, size
  <2>. QED  BY <2>1, <2>2, <2>3, <2>4 DEF IsShort
<1>. QED  BY <1>1, <1>2, <1>4, <1>6 DEF IsChunk, chunk

\* The second chunk has something that comes after all of the first.
FreshAfter(R, C) ==
  {p \in ChunkType(C) \X ChunkType(C) :
     \E b \in ToSet(p[2].text) : \A a \in ToSet(p[1].text) : <<a, b>> \in R}

\* The chunks after k pieces, and the pieces that wait.
IsPacked(C, R, section, pieces, k, acc) ==
  /\ acc = [chunks |-> acc.chunks, buffer |-> acc.buffer]
  /\ acc.chunks \in Seq(ChunkType(C)) /\ Sorted(FreshAfter(R, C), acc.chunks)
  /\ \A i \in DOMAIN acc.chunks :
       IsChunk(C, R, section.title, HeldBy(pieces, k - 1), acc.chunks[i])
  /\ IsBuffer(C, R, acc.buffer)
  /\ ToSet(FlattenSeq(acc.buffer)) \subseteq HeldBy(pieces, k)
  /\ BufferFits(acc.buffer)
  /\ acc.buffer = <<>> <=> k = 0
  /\ acc.buffer # <<>> => /\ Last(acc.buffer) = pieces[k]
                          /\ ToSet(pieces[k]) \subseteq ToSet(FlattenSeq(acc.buffer))
  /\ \A c \in HeldBy(pieces, k) :
       \/ c \in ToSet(FlattenSeq(acc.buffer))
       \/ \E i \in DOMAIN acc.chunks : c \in ToSet(acc.chunks[i].text)

LEMMA WiderChunk ==
  ASSUME NEW C, NEW R, NEW title, NEW held, NEW wider, held \subseteq wider,
         NEW chunk, IsChunk(C, R, title, held, chunk)
  PROVE  IsChunk(C, R, title, wider, chunk)
BY DEF IsChunk

AreChunksOf(C, R, title, held, chunks) ==
  /\ chunks \in Seq(ChunkType(C)) /\ Sorted(FreshAfter(R, C), chunks)
  /\ \A i \in DOMAIN chunks : IsChunk(C, R, title, held, chunks[i])
  /\ \A c \in held : \E i \in DOMAIN chunks : c \in ToSet(chunks[i].text)

\* The chunk that is flushed has a piece that no earlier one has.
LEMMA FlushOK ==
  ASSUME NEW C, NEW R, NEW section \in SectionType(C), NEW pieces,
         IsSplit(C, R, Inside(section), pieces), NEW k \in 1 .. Len(pieces), NEW acc,
         IsPacked(C, R, section, pieces, k, acc)
  PROVE  AreChunksOf(C, R, section.title, HeldBy(pieces, k),
                     Append(acc.chunks, ChunkOf(section, acc.buffer)))
<1>. DEFINE cs   == acc.chunks
            chunk == ChunkOf(section, acc.buffer)
            new  == Append(cs, chunk)
            n    == Len(cs)
            text == FlattenSeq(acc.buffer)
<1>1. SortedTexts(R, C, pieces)
  BY DEF IsSplit
<1>2. Len(pieces) \in Nat /\ DOMAIN pieces = 1 .. Len(pieces)
  <2>1. pieces \in Seq(Seq(C))
    BY <1>1 DEF SortedTexts
  <2>. QED  BY <2>1
<1>3. /\ cs \in Seq(ChunkType(C)) /\ Sorted(FreshAfter(R, C), cs)
      /\ \A i \in DOMAIN cs : IsChunk(C, R, section.title, HeldBy(pieces, k - 1), cs[i])
      /\ IsBuffer(C, R, acc.buffer) /\ ToSet(text) \subseteq HeldBy(pieces, k)
      /\ BufferFits(acc.buffer)
      /\ ToSet(pieces[k]) \subseteq ToSet(text)
      /\ \A c \in HeldBy(pieces, k) :
           c \in ToSet(text) \/ \E i \in DOMAIN cs : c \in ToSet(cs[i].text)
  BY <1>2 DEF IsPacked
<1>4. pieces[k] # <<>> /\ pieces[k] \in Seq(C)
  BY <1>1, <1>2 DEF IsSplit, SortedTexts
<1>. HIDE DEF text
<1>5. PICK b : b \in ToSet(pieces[k])
  <2>1. Len(pieces[k]) \in Nat \ {0} /\ DOMAIN pieces[k] = 1 .. Len(pieces[k])
    BY <1>4, EmptySeq
  <2>2. 1 \in DOMAIN pieces[k]
    BY <2>1
  <2>. QED  BY <2>2 DEF ToSet
<1>6. text # <<>>
  <2>1. ToSet(<<>>) = {}
    BY DEF ToSet
  <2>. QED  BY <1>3, <1>5, <2>1
<1>7. IsChunk(C, R, section.title, ToSet(text), chunk) /\ chunk.text = text
  BY <1>3, <1>6, BufferIsChunk DEF text
<1>. HIDE DEF chunk
<1>8. IsChunk(C, R, section.title, HeldBy(pieces, k), chunk)
  BY <1>3, <1>7, WiderChunk
<1>9. /\ HeldBy(pieces, k - 1) \X ToSet(pieces[k]) \subseteq R
      /\ HeldBy(pieces, k) = HeldBy(pieces, k - 1) \cup ToSet(pieces[k])
  BY <1>1, HeldBefore
<1>10. \A a \in ToSet(cs) : <<a, chunk>> \in FreshAfter(R, C)
  <2>. SUFFICES ASSUME NEW a \in ToSet(cs) PROVE <<a, chunk>> \in FreshAfter(R, C)
    OBVIOUS
  <2>1. PICK i \in DOMAIN cs : a = cs[i]
    BY DEF ToSet
  <2>2. a \in ChunkType(C) /\ ToSet(a.text) \subseteq HeldBy(pieces, k - 1)
    BY <1>3, <2>1 DEF IsChunk
  <2>3. chunk \in ChunkType(C) /\ b \in ToSet(chunk.text)
    BY <1>3, <1>5, <1>7 DEF IsChunk
  <2>4. \A x \in ToSet(a.text) : <<x, b>> \in R
    BY <1>5, <1>9, <2>2
  <2>. QED  BY <2>2, <2>3, <2>4 DEF FreshAfter
<1>11. chunk \in ChunkType(C)
  BY <1>7 DEF IsChunk
<1>. HIDE DEF cs
<1>12. new \in Seq(ChunkType(C)) /\ Sorted(FreshAfter(R, C), new)
  <2>. DEFINE X == ChunkType(C)
  <2>1. cs \in Seq(X) /\ chunk \in X
    BY <1>3, <1>11
  <2>. HIDE DEF X
  <2>2. new \in Seq(X) /\ Sorted(FreshAfter(R, C), new)
    BY <1>3, <1>10, <2>1, SortedAppend, AppendIsSome
  <2>. QED  BY <2>2 DEF X
<1>13. /\ n \in Nat /\ DOMAIN cs = 1 .. n /\ DOMAIN new = 1 .. n + 1 /\ new[n + 1] = chunk
       /\ \A i \in 1 .. n : new[i] = cs[i]
  BY <1>3
<1>. HIDE DEF new, n
<1>14. ASSUME NEW i \in DOMAIN new PROVE IsChunk(C, R, section.title, HeldBy(pieces, k), new[i])
  <2>1. CASE i = n + 1
    BY <1>8, <1>13, <2>1
  <2>2. CASE i # n + 1
    <3>1. i \in DOMAIN cs /\ new[i] = cs[i]
      BY <1>13, <2>2
    <3>. QED  BY <1>3, <1>9, <3>1, WiderChunk
  <2>. QED  BY <2>1, <2>2
<1>15. ASSUME NEW c \in HeldBy(pieces, k)
       PROVE  \E i \in DOMAIN new : c \in ToSet(new[i].text)
  <2>1. CASE c \in ToSet(text)
    <3>1. n + 1 \in DOMAIN new /\ c \in ToSet(new[n + 1].text)
      BY <1>7, <1>13, <2>1
    <3>. QED  BY <3>1
  <2>2. CASE c \notin ToSet(text)
    <3>1. PICK i \in DOMAIN cs : c \in ToSet(cs[i].text)
      BY <1>3, <2>2
    <3>2. i \in DOMAIN new /\ new[i] = cs[i]
      BY <1>13
    <3>. QED  BY <3>1, <3>2
  <2>. QED  BY <2>1, <2>2
<1>. QED  BY <1>12, <1>14, <1>15 DEF new, cs, chunk, AreChunksOf

\* One piece more keeps the chunks in order and loses no character.
LEMMA PieceOK ==
  ASSUME NEW C, NEW R, NEW section \in SectionType(C), NEW pieces,
         IsSplit(C, R, Inside(section), pieces), NEW k \in 1 .. Len(pieces), NEW acc,
         IsPacked(C, R, section, pieces, k - 1, acc)
  PROVE  IsPacked(C, R, section, pieces, k, PieceStep(section, acc, pieces[k]))
<1>. DEFINE piece  == pieces[k]
            buffer == acc.buffer
            held   == HeldBy(pieces, k - 1)
            size   == Len(FlattenSeq(buffer))
<1>1. SortedTexts(R, C, pieces)
  BY DEF IsSplit
<1>2. pieces \in Seq(Seq(C)) /\ Len(pieces) \in Nat /\ DOMAIN pieces = 1 .. Len(pieces)
  <2>1. pieces \in Seq(Seq(C))
    BY <1>1 DEF SortedTexts
  <2>. QED  BY <2>1
<1>3. /\ piece \in Seq(C) /\ Sorted(R, piece)
      /\ Len(piece) <= TARGET_CHARS /\ Len(piece) \in Nat \ {0}
  <2>1. piece \in Seq(C)
    BY <1>2
  <2>2. Sorted(R, piece)
    BY <1>1, <1>2 DEF SortedTexts
  <2>3. Len(piece) <= TARGET_CHARS
    BY <1>2 DEF IsSplit
  <2>4. Len(piece) \in Nat \ {0}
    <3>1. piece # <<>>
      BY <1>2 DEF IsSplit
    <3>. HIDE DEF piece
    <3>. QED  BY <2>1, <3>1, EmptySeq
  <2>. QED  BY <2>1, <2>2, <2>3, <2>4
<1>4. held \X ToSet(piece) \subseteq R /\ HeldBy(pieces, k) = held \cup ToSet(piece)
  BY <1>1, HeldBefore
<1>5. /\ acc = [chunks |-> acc.chunks, buffer |-> buffer]
      /\ acc.chunks \in Seq(ChunkType(C)) /\ Sorted(FreshAfter(R, C), acc.chunks)
      /\ \A i \in DOMAIN acc.chunks :
           IsChunk(C, R, section.title, HeldBy(pieces, (k - 1) - 1), acc.chunks[i])
      /\ IsBuffer(C, R, buffer) /\ ToSet(FlattenSeq(buffer)) \subseteq held
      /\ buffer = <<>> <=> k - 1 = 0
      /\ BufferFits(buffer)
      /\ buffer # <<>> => Last(buffer) = pieces[k - 1]
      /\ \A c \in held : \/ c \in ToSet(FlattenSeq(buffer))
                         \/ \E i \in DOMAIN acc.chunks : c \in ToSet(acc.chunks[i].text)
  BY DEF IsPacked
<1>6. size \in Nat
  BY <1>5 DEF IsBuffer
<1>7. CASE size + Len(piece) > TARGET_CHARS /\ buffer # <<>>
  <2>. DEFINE last  == pieces[k - 1]
              old   == OverlapOf(last)
              chunk == ChunkOf(section, buffer)
              new   == Append(acc.chunks, chunk)
              grown == Append(old, piece)
  <2>1. k - 1 \in 1 .. Len(pieces) /\ Last(buffer) = last
    BY <1>2, <1>5, <1>7
  <2>2. PieceStep(section, acc, piece) = [chunks |-> new, buffer |-> grown]
    BY <1>7, <2>1 DEF PieceStep, AddPiece
  <2>3. last \in Seq(C) /\ Sorted(R, last) /\ Len(last) <= TARGET_CHARS
    BY <1>1, <1>2, <2>1 DEF IsSplit, SortedTexts
  <2>4. ToSet(last) \subseteq held
    <3>1. k - 1 \in 1 .. k - 1
      BY <1>2, <2>1
    <3>. QED  BY <3>1 DEF HeldBy
  <2>. HIDE DEF last
  <2>5. IsOverlap(C, R, last, old)
    BY <2>3, OverlapIsEnd
  <2>. HIDE DEF old
  <2>6. /\ IsBuffer(C, R, old) /\ ToSet(FlattenSeq(old)) \subseteq held
        /\ Len(FlattenSeq(old)) <= Repeated
        /\ Len(old) \in {0, 1} /\ Len(old) <= Len(FlattenSeq(old))
    BY <2>4, <2>5 DEF IsOverlap
  <2>7. ToSet(FlattenSeq(old)) \X ToSet(piece) \subseteq R
    BY <1>4, <2>6
  <2>. HIDE DEF held, piece, size
  <2>8. IsGrown(C, R, grown, old, piece)
    BY <1>3, <2>6, <2>7, BufferGrows
  <2>9. /\ new \in Seq(ChunkType(C)) /\ Sorted(FreshAfter(R, C), new)
        /\ \A i \in DOMAIN new : IsChunk(C, R, section.title, held, new[i])
        /\ \A c \in held : \E i \in DOMAIN new : c \in ToSet(new[i].text)
    <3>. DEFINE m == k - 1
    <3>1. m \in 1 .. Len(pieces) /\ IsPacked(C, R, section, pieces, m, acc)
      BY <2>1
    <3>. HIDE DEF m
    <3>2. AreChunksOf(C, R, section.title, HeldBy(pieces, m), new)
      BY <3>1, FlushOK
    <3>. QED  BY <3>2 DEF m, held, AreChunksOf
  <2>. HIDE DEF new, grown
  <2>10. BufferFits(grown)
    <3>1. Len(FlattenSeq(old)) \in Nat
      BY <2>6 DEF IsBuffer
    <3>2. /\ Len(FlattenSeq(grown)) = Len(FlattenSeq(old)) + Len(piece)
          /\ Len(grown) = Len(old) + 1
      BY <2>8 DEF IsGrown
    <3>3. Fits(Len(old) + 1, Len(FlattenSeq(old)) + Len(piece))
      BY <1>3, <2>6, <3>1, RepeatedFits
    <3>. QED  BY <3>2, <3>3 DEF BufferFits
  <2>11. /\ ToSet(FlattenSeq(grown)) \subseteq HeldBy(pieces, k)
         /\ ToSet(piece) \subseteq ToSet(FlattenSeq(grown))
    BY <1>4, <2>6, <2>8 DEF IsGrown
  <2>12. IsBuffer(C, R, grown) /\ grown # <<>> /\ Last(grown) = piece
    BY <2>8 DEF IsGrown
  <2>. DEFINE after == [chunks |-> new, buffer |-> grown]
  <2>13. /\ after.chunks = new /\ after.buffer = grown
         /\ after = [chunks |-> after.chunks, buffer |-> after.buffer]
    OBVIOUS
  <2>14. k # 0
    BY <1>2
  <2>15. \A c \in HeldBy(pieces, k) :
           c \in ToSet(FlattenSeq(grown)) \/ \E i \in DOMAIN new : c \in ToSet(new[i].text)
    BY <1>4, <2>9, <2>11
  <2>. HIDE DEF after
  <2>16. IsPacked(C, R, section, pieces, k, after)
    BY <2>9, <2>10, <2>11, <2>12, <2>13, <2>14, <2>15 DEF IsPacked, held, piece
  <2>. QED  BY <2>2, <2>16 DEF after, piece
<1>8. CASE ~(size + Len(piece) > TARGET_CHARS /\ buffer # <<>>)
  <2>. DEFINE grown == Append(buffer, piece)
              after == [acc EXCEPT !.buffer = grown]
  <2>1. PieceStep(section, acc, piece) = after
    BY <1>8 DEF PieceStep, AddPiece
  <2>2. ToSet(FlattenSeq(buffer)) \X ToSet(piece) \subseteq R
    BY <1>4, <1>5
  <2>3. Fits(Len(buffer) + 1, Len(FlattenSeq(buffer)) + Len(piece))
    <3>1. CASE buffer = <<>>
      <4>1. Len(FlattenSeq(buffer)) = 0 /\ Len(buffer) = 0
        <5>1. Len(<<>>) = 0
          OBVIOUS
        <5>. QED  BY <3>1, <5>1, FlattenNone
      <4>. QED  BY <1>3, <4>1, LimitsAreNumbers DEF Fits
    <3>2. CASE buffer # <<>>
      <4>1. ~(size + Len(piece) > TARGET_CHARS)
        BY <1>8, <3>2
      <4>2. Len(buffer) \in Nat /\ Len(buffer) <= size
        BY <1>5 DEF BufferFits, Fits
      <4>. DEFINE n == Len(buffer)
      <4>. HIDE DEF size, piece, n
      <4>3. Fits(n + 1, size + Len(piece))
        BY <1>3, <1>6, <4>1, <4>2, LimitsAreNumbers DEF Fits, n
      <4>. QED  BY <4>3 DEF size, n
    <3>. QED  BY <3>1, <3>2
  <2>. HIDE DEF held, piece, buffer
  <2>4. IsGrown(C, R, grown, buffer, piece)
    BY <1>3, <1>5, <2>2, BufferGrows
  <2>. HIDE DEF grown
  <2>5. /\ after.chunks = acc.chunks /\ after.buffer = grown
        /\ after = [chunks |-> after.chunks, buffer |-> after.buffer]
    <3>1. after = [chunks |-> acc.chunks, buffer |-> grown]
      BY <1>5
    <3>. HIDE DEF after
    <3>. QED  BY <3>1
  <2>. HIDE DEF after
  <2>6. IsBuffer(C, R, grown) /\ grown # <<>> /\ Last(grown) = piece
        /\ BufferFits(grown)
    BY <2>3, <2>4 DEF IsGrown, BufferFits
  <2>7. /\ ToSet(FlattenSeq(grown)) \subseteq HeldBy(pieces, k)
        /\ ToSet(piece) \subseteq ToSet(FlattenSeq(grown))
    BY <1>4, <1>5, <2>4 DEF IsGrown
  <2>8. k # 0
    BY <1>2
  <2>9. \A c \in HeldBy(pieces, k) :
           \/ c \in ToSet(FlattenSeq(grown))
           \/ \E i \in DOMAIN acc.chunks : c \in ToSet(acc.chunks[i].text)
    BY <1>4, <1>5, <2>4 DEF IsGrown
  <2>10. \A i \in DOMAIN acc.chunks : IsChunk(C, R, section.title, held, acc.chunks[i])
    <3>1. HeldBy(pieces, (k - 1) - 1) \subseteq held
      <4>1. 1 .. (k - 1) - 1 \subseteq 1 .. k - 1
        BY <1>2
      <4>. QED  BY <4>1 DEF HeldBy, held
    <3>. QED  BY <1>5, <3>1, WiderChunk
  <2>11. IsPacked(C, R, section, pieces, k, after)
    BY <1>5, <2>5, <2>6, <2>7, <2>8, <2>9, <2>10 DEF IsPacked, held, piece
  <2>. QED  BY <2>1, <2>11 DEF piece
<1>. QED  BY <1>7, <1>8

-----------------------------------------------------------------------------
(* The chunks of a document, whatever is the order R of its characters. *)

\* _chunk_section: all of the section is in its chunks.
LEMMA SectionChunks ==
  ASSUME NEW C, NEW R, NEW section \in SectionType(C), SortedTexts(R, C, section.paragraphs)
  PROVE  AreChunksOf(C, R, section.title, Inside(section), ChunkSection(section))
<1>. DEFINE start  == [chunks |-> <<>>, buffer |-> <<>>]
            pieces == PiecesOf(section)
            acc    == Packing!Fold(section, start, pieces)
            n      == Len(pieces)
<1>1. ChunkSection(section) = IF acc.buffer = <<>> THEN acc.chunks
                              ELSE Append(acc.chunks, ChunkOf(section, acc.buffer))
  BY DEF ChunkSection, FoldLeft, MapThenFoldSet, Packing!Fold, Max, Packing!Max, PieceStep, PiecesOf
<1>2. IsSplit(C, R, Inside(section), pieces)
  BY PiecesInOrder
<1>. HIDE DEF pieces
<1>3. pieces \in Seq(Seq(C)) /\ n \in Nat /\ DOMAIN pieces = 1 .. n
  <2>1. pieces \in Seq(Seq(C))
    BY <1>2 DEF IsSplit, SortedTexts
  <2>. QED  BY <2>1
<1>4. IsPacked(C, R, section, pieces, n, acc)
  <2>1. PICK F : Packing!IsFold(F, section, start, pieces)
    BY <1>3, Packing!FoldHasSteps
  <2>2. /\ F[0] = start /\ acc = F[n]
        /\ \A k \in 1 .. n : F[k] = PieceStep(section, F[k - 1], pieces[k])
    BY <2>1 DEF Packing!IsFold
  <2>3. IsPacked(C, R, section, pieces, 0, start)
    <3>. DEFINE none == <<>>
                Q    == ChunkType(C)
    <3>1. /\ none \in Seq(C) /\ none \in Seq(Seq(C)) /\ none \in Seq(Q) /\ FlattenSeq(none) = none
          /\ ToSet(none) = {} /\ Sorted(R, none) /\ Len(none) = 0 /\ DOMAIN none = {}
          /\ Sorted(FreshAfter(R, C), none)
      BY FlattenNone DEF ToSet, Sorted
    <3>2. none = <<>>
      OBVIOUS
    <3>. HIDE DEF none, Q
    <3>3. start = [chunks |-> none, buffer |-> none]
      BY <3>2
    <3>. HIDE DEF start
    <3>4. /\ start.chunks = none /\ start.buffer = none
          /\ start = [chunks |-> start.chunks, buffer |-> start.buffer]
      BY <3>3
    <3>5. HeldBy(pieces, 0) = {}
      <4>1. 1 .. 0 = {}
        OBVIOUS
      <4>. QED  BY <4>1 DEF HeldBy
    <3>6. BufferFits(none)
      BY <3>1, LimitsAreNumbers DEF BufferFits, Fits
    <3>7. IsBuffer(C, R, none)
      BY <3>1 DEF IsBuffer
    <3>. QED  BY <3>1, <3>2, <3>4, <3>5, <3>6, <3>7 DEF IsPacked, Q
  <2>. HIDE DEF start, acc, n
  <2>. DEFINE T == {k \in 0 .. n : IsPacked(C, R, section, pieces, k, F[k])}
  <2>4. 0 \in T
    BY <1>3, <2>2, <2>3
  <2>5. ASSUME NEW k \in 1 .. n, k - 1 \in T PROVE k \in T
    <3>1. IsPacked(C, R, section, pieces, k - 1, F[k - 1]) /\ k \in 1 .. Len(pieces)
      BY <2>5 DEF n
    <3>2. IsPacked(C, R, section, pieces, k, PieceStep(section, F[k - 1], pieces[k]))
      BY <1>2, <3>1, PieceOK
    <3>. QED  BY <1>3, <2>2, <3>2
  <2>6. n \in T
    <3>. HIDE DEF T
    <3>1. \A k \in 0 .. n : k \in T
      BY <1>3, <2>4, <2>5, Parsing!RangeInduction
    <3>. QED  BY <1>3, <3>1
  <2>. QED  BY <2>2, <2>6
<1>. HIDE DEF acc, start
<1>5. HeldBy(pieces, n) = Inside(section)
  <2>1. \A i \in 1 .. n : ToSet(pieces[i]) \subseteq Inside(section)
    BY <1>2, <1>3 DEF IsSplit
  <2>2. \A c \in Inside(section) : \E i \in 1 .. n : c \in ToSet(pieces[i])
    BY <1>2, <1>3 DEF IsSplit
  <2>. QED  BY <2>1, <2>2 DEF HeldBy
<1>6. CASE n = 0
  <2>1. acc.buffer = <<>>
    BY <1>4, <1>6 DEF IsPacked
  <2>2. 1 .. 0 = {}
    OBVIOUS
  <2>3. HeldBy(pieces, n) = {} /\ HeldBy(pieces, n - 1) \subseteq {}
    <3>1. 1 .. n - 1 \subseteq 1 .. n /\ 1 .. n = {}
      BY <1>6, <2>2
    <3>. HIDE DEF n
    <3>. QED  BY <3>1 DEF HeldBy
  <2>4. /\ acc.chunks \in Seq(ChunkType(C)) /\ Sorted(FreshAfter(R, C), acc.chunks)
        /\ \A i \in DOMAIN acc.chunks :
             IsChunk(C, R, section.title, HeldBy(pieces, n - 1), acc.chunks[i])
    BY <1>4 DEF IsPacked
  <2>5. \A i \in DOMAIN acc.chunks : IsChunk(C, R, section.title, Inside(section), acc.chunks[i])
    BY <1>5, <2>3, <2>4, WiderChunk
  <2>6. AreChunksOf(C, R, section.title, Inside(section), acc.chunks)
    BY <1>5, <2>3, <2>4, <2>5 DEF AreChunksOf
  <2>. QED  BY <1>1, <2>1, <2>6
<1>7. CASE n # 0
  <2>1. acc.buffer # <<>>
    BY <1>4, <1>7 DEF IsPacked
  <2>2. n \in 1 .. Len(pieces)
    BY <1>3, <1>7
  <2>. HIDE DEF n
  <2>3. AreChunksOf(C, R, section.title, HeldBy(pieces, n),
                    Append(acc.chunks, ChunkOf(section, acc.buffer)))
    BY <1>2, <1>4, <2>2, FlushOK
  <2>. QED  BY <1>1, <1>5, <2>1, <2>3
<1>. QED  BY <1>6, <1>7

\* What a list of chunks is of: text of the paragraphs of a document in
\* order, under the last heading above it.
IsOfDocument(d, C, R, pars, chunk) ==
  /\ chunk.page_start = Min(PagesOf(chunk.text)) /\ chunk.page_end = Max(PagesOf(chunk.text))
  /\ chunk.text \in Seq(C) /\ chunk.text # <<>> /\ Sorted(R, chunk.text)
  /\ IsShort(chunk)
  /\ \A c \in ToSet(chunk.text) : \E j \in DOMAIN pars :
       /\ c \in ToSet(pars[j]) /\ ~IsHeading(d, pars[j])
       /\ TitleAt(d, pars, chunk.section, j - 1)

AreOfDocument(d, C, R, pars, chunks) ==
  /\ chunks \in Seq(ChunkType(C)) /\ Sorted(FreshAfter(R, C), chunks)
  /\ \A i \in DOMAIN chunks : IsOfDocument(d, C, R, pars, chunks[i])
  /\ \A j \in DOMAIN pars : ~IsHeading(d, pars[j]) =>
       \A c \in ToSet(pars[j]) : \E i \in DOMAIN chunks : c \in ToSet(chunks[i].text)

\* The chunks are in order, and hold all of the paragraphs but the headings.
LEMMA ChunksInOrder ==
  ASSUME NEW C, NEW R, NEW d, NEW pages, ArePages(C, R, pages)
  PROVE  AreOfDocument(d, C, R, ParsOf(d, pages), Chunk(d, pages))
<1>. DEFINE pars     == ParsOf(d, pages)
            sections == SplitSections(d, pages)
            n        == Len(sections)
            parts    == [i \in DOMAIN sections |-> ChunkSection(sections[i])]
            chunks   == FlattenSeq(parts)
            X        == ChunkType(C)
<1>1. Chunk(d, pages) = chunks
  BY DEF Chunk
<1>2. AreSections(d, C, R, pars, sections)
  BY SectionsInOrder
<1>3. SortedTexts(R, C, pars)
  BY ParsInOrder DEF ArePars
<1>. HIDE DEF pars, sections
<1>4. /\ n \in Nat /\ DOMAIN sections = 1 .. n
      /\ \A i \in 1 .. n : sections[i] \in SectionType(C)
  <2>1. sections \in Seq(SectionType(C))
    BY <1>2 DEF AreSections
  <2>. QED  BY <2>1
<1>5. /\ parts = [i \in 1 .. n |-> parts[i]] /\ DOMAIN parts = 1 .. n
      /\ \A i \in 1 .. n : parts[i] = ChunkSection(sections[i])
  BY <1>4
<1>. HIDE DEF n, parts
<1>6. \A i \in 1 .. n : /\ SortedTexts(R, C, sections[i].paragraphs)
                       /\ IsUnder(d, pars, Len(pars), sections[i])
  BY <1>2, <1>4 DEF AreSections
<1>7. \A i \in 1 .. n : AreChunksOf(C, R, sections[i].title, Inside(sections[i]), parts[i])
  BY <1>4, <1>5, <1>6, SectionChunks
<1>. HIDE DEF X
<1>8. \A i \in 1 .. n : parts[i] \in Seq(X) /\ Sorted(FreshAfter(R, C), parts[i])
  BY <1>7 DEF AreChunksOf, X
<1>9. \A i \in 1 .. n : \A chunk \in ToSet(parts[i]) :
        IsChunk(C, R, sections[i].title, Inside(sections[i]), chunk)
  BY <1>7 DEF AreChunksOf, ToSet
<1>10. parts \in Seq(Seq(X))
  <2>1. \A i \in 1 .. n : parts[i] \in Seq(X)
    BY <1>8
  <2>. QED  BY <1>4, <1>5, <2>1, FunctionIsSeq
<1>11. chunks \in Seq(X) /\ ToSet(chunks) = UNION {ToSet(parts[i]) : i \in 1 .. n}
  BY <1>5, <1>10, FlattenHolds
<1>12. Sorted(FreshAfter(R, C), chunks)
  <2>1. ASSUME NEW p \in 1 .. n, NEW q \in 1 .. n, p < q,
               NEW x \in ToSet(parts[p]), NEW y \in ToSet(parts[q])
        PROVE  <<x, y>> \in FreshAfter(R, C)
    <3>1. Inside(sections[p]) \X Inside(sections[q]) \subseteq R
      BY <1>2, <1>4, <2>1 DEF AreSections, Sorted, InsideApart
    <3>2. x \in ChunkType(C) /\ ToSet(x.text) \subseteq Inside(sections[p])
      BY <1>9 DEF IsChunk
    <3>3. /\ y \in ChunkType(C) /\ ToSet(y.text) \subseteq Inside(sections[q])
          /\ y.text \in Seq(C) /\ y.text # <<>>
      BY <1>9 DEF IsChunk
    <3>4. PICK b : b \in ToSet(y.text)
      <4>1. Len(y.text) \in Nat \ {0} /\ DOMAIN y.text = 1 .. Len(y.text)
        BY <3>3, EmptySeq
      <4>2. 1 \in DOMAIN y.text
        BY <4>1
      <4>. QED  BY <4>2 DEF ToSet
    <3>5. \A a \in ToSet(x.text) : <<a, b>> \in R
      BY <3>1, <3>2, <3>3, <3>4
    <3>. QED  BY <3>2, <3>3, <3>4, <3>5 DEF FreshAfter
  <2>2. \A p, q \in DOMAIN parts :
          p < q => ToSet(parts[p]) \X ToSet(parts[q]) \subseteq FreshAfter(R, C)
    BY <1>5, <2>1
  <2>3. \A p \in DOMAIN parts : Sorted(FreshAfter(R, C), parts[p])
    BY <1>5, <1>8
  <2>. QED  BY <1>10, <2>2, <2>3, SortedFlatten
<1>. HIDE DEF chunks
<1>13. ASSUME NEW i \in DOMAIN chunks PROVE IsOfDocument(d, C, R, pars, chunks[i])
  <2>. DEFINE chunk == chunks[i]
  <2>1. chunk \in ToSet(chunks)
    BY DEF ToSet
  <2>2. PICK p \in 1 .. n : chunk \in ToSet(parts[p])
    BY <1>11, <2>1
  <2>. HIDE DEF chunk
  <2>3. IsChunk(C, R, sections[p].title, Inside(sections[p]), chunk)
    BY <1>9, <2>2
  <2>4. ASSUME NEW c \in ToSet(chunk.text)
        PROVE  \E j \in DOMAIN pars : /\ c \in ToSet(pars[j]) /\ ~IsHeading(d, pars[j])
                                      /\ TitleAt(d, pars, chunk.section, j - 1)
    <3>1. c \in Inside(sections[p]) /\ chunk.section = sections[p].title
      BY <2>3 DEF IsChunk
    <3>2. PICK q \in DOMAIN sections[p].paragraphs : c \in ToSet(sections[p].paragraphs[q])
      BY <3>1 DEF Inside
    <3>3. PICK j \in 1 .. Len(pars) :
            /\ sections[p].paragraphs[q] = pars[j] /\ ~IsHeading(d, pars[j])
            /\ TitleAt(d, pars, sections[p].title, j - 1)
      BY <1>6 DEF IsUnder
    <3>4. j \in DOMAIN pars
      BY <1>3 DEF SortedTexts
    <3>. QED  BY <3>1, <3>2, <3>3, <3>4
  <2>5. IsOfDocument(d, C, R, pars, chunk)
    BY <2>3, <2>4 DEF IsChunk, IsOfDocument
  <2>. QED  BY <2>5 DEF chunk
<1>14. ASSUME NEW j \in DOMAIN pars, ~IsHeading(d, pars[j]), NEW c \in ToSet(pars[j])
       PROVE  \E i \in DOMAIN chunks : c \in ToSet(chunks[i].text)
  <2>1. PICK p \in 1 .. n : pars[j] \in ToSet(sections[p].paragraphs)
    BY <1>2, <1>4, <1>14 DEF AreSections
  <2>2. c \in Inside(sections[p])
    BY <2>1 DEF Inside, ToSet
  <2>3. PICK m \in DOMAIN parts[p] : c \in ToSet(parts[p][m].text)
    BY <1>7, <2>2 DEF AreChunksOf
  <2>4. parts[p][m] \in ToSet(chunks)
    <3>1. parts[p][m] \in ToSet(parts[p])
      BY DEF ToSet
    <3>. QED  BY <1>11, <3>1
  <2>5. PICK i \in DOMAIN chunks : chunks[i] = parts[p][m]
    BY <2>4 DEF ToSet
  <2>. QED  BY <2>3, <2>5
<1>15. AreOfDocument(d, C, R, pars, chunks)
  BY <1>11, <1>12, <1>13, <1>14 DEF AreOfDocument, X
<1>. QED  BY <1>1, <1>15 DEF pars

-----------------------------------------------------------------------------
(* Pages with masks: up to the first one they read in order. *)

\* Where a character can be from.
Origins == Nat \X Nat

\* The sanitized pages of a document: characters of their own, no one twice.
Differ == {e \in Origins \X Origins : e[1] # e[2] \/ e[2][2] = 0}

\* The order of a text of which the first P pages have no masks.
ReadInOrder(P) ==
  {e \in Origins \X Origins : e[1][1] <= e[2][1] /\ (e[2][1] <= P => Before(e[1], e[2]))}

ArePagesOf(d, pages) ==
  /\ pages \in Seq(Seq(Origins)) /\ DOMAIN pages = DOMAIN d.pages /\ DOMAIN pages \subseteq Nat
  /\ \A p \in DOMAIN pages : \A c \in ToSet(pages[p]) : c[1] = p

LEMMA PagesAreOf ==
  ASSUME NEW d \in Documents, NEW findings, AreQuotes(d, Quotes(findings))
  PROVE  ArePagesOf(d, SanitizedPages(d, findings))
<1>. DEFINE pages == SanitizedPages(d, findings)
            n     == Len(d.pages)
<1>1. n \in Nat /\ DOMAIN d.pages = 1 .. n
  <2>1. d.pages \in Seq(Seq({"a", "A", ".", "/"}))
    BY DocumentsAssumption
  <2>. QED  BY <2>1
<1>2. /\ pages = [p \in 1 .. n |-> pages[p]] /\ DOMAIN pages = 1 .. n
      /\ \A p \in 1 .. n : pages[p] = MaskFlaggedText(PageText(d, p), findings)
  BY <1>1 DEF SanitizedPages
<1>. HIDE DEF pages, n
<1>3. ASSUME NEW p \in 1 .. n
      PROVE  pages[p] \in Seq(Origins) /\ \A c \in ToSet(pages[p]) : c[1] = p
  <2>. DEFINE C == LeftOn(d, findings, p)
  <2>1. pages[p] \in Seq(C) /\ C = ToSet(pages[p])
    BY <1>1, <1>2, LeftIsOnPage DEF LeftOn
  <2>2. \A c \in C : c \in {p} \X (0 .. Len(Page(d, p)))
    BY <1>1, LeftIsOnPage
  <2>3. p \in Nat /\ Len(Page(d, p)) \in Nat
    BY <1>1, PageOfDocument
  <2>. HIDE DEF C
  <2>4. \A c \in C : c \in Origins /\ c[1] = p
    BY <2>2, <2>3 DEF Origins
  <2>5. Seq(C) \subseteq Seq(Origins)
    BY <2>4
  <2>. QED  BY <2>1, <2>4, <2>5
<1>4. pages \in Seq(Seq(Origins))
  BY <1>1, <1>2, <1>3, FunctionIsSeq
<1>. QED  BY <1>1, <1>2, <1>3, <1>4 DEF ArePagesOf, pages

\* No character but a mask is twice in a document.
LEMMA PagesDiffer ==
  ASSUME NEW d \in Documents, NEW findings, AreQuotes(d, Quotes(findings))
  PROVE  ArePages(Origins, Differ, SanitizedPages(d, findings))
<1>. DEFINE pages == SanitizedPages(d, findings)
<1>1. ArePagesOf(d, pages)
  BY PagesAreOf
<1>2. \A p \in DOMAIN d.pages : pages[p] = MaskFlaggedText(PageText(d, p), findings)
  BY DEF SanitizedPages
<1>. HIDE DEF pages
<1>3. ASSUME NEW p \in DOMAIN pages PROVE Sorted(Differ, pages[p])
  <2>1. p \in DOMAIN d.pages /\ pages[p] \in Seq(Origins)
    BY <1>1 DEF ArePagesOf
  <2>2. IsPageText(pages[p], p, Len(Page(d, p)))
    BY <1>2, <2>1, PageAfterMasks DEF IsMasked
  <2>3. Len(pages[p]) \in Nat /\ DOMAIN pages[p] = 1 .. Len(pages[p])
        /\ \A i \in 1 .. Len(pages[p]) : pages[p][i] \in Origins
    BY <2>1
  <2>4. ASSUME NEW i \in DOMAIN pages[p], NEW j \in DOMAIN pages[p], i < j
        PROVE  pages[p][i] # pages[p][j] \/ pages[p][j][2] = 0
    <3>1. pages[p][i] = pages[p][j] /\ pages[p][i][2] # 0 => i = j
      BY <2>2 DEF IsPageText
    <3>. QED  BY <2>3, <2>4, <3>1
  <2>. QED  BY <2>3, <2>4 DEF Sorted, Differ
<1>4. ASSUME NEW p \in DOMAIN pages, NEW q \in DOMAIN pages, p < q
      PROVE  ToSet(pages[p]) \X ToSet(pages[q]) \subseteq Differ
  <2>1. p \in Nat /\ q \in Nat /\ p # q
    BY <1>1, <1>4 DEF ArePagesOf
  <2>2. ToSet(pages[p]) \subseteq Origins /\ ToSet(pages[q]) \subseteq Origins
    BY <1>1 DEF ArePagesOf, ToSet
  <2>3. \A c \in ToSet(pages[p]) : \A e \in ToSet(pages[q]) : c # e
    BY <1>1, <2>1 DEF ArePagesOf
  <2>. QED  BY <2>2, <2>3 DEF Differ
<1>5. pages \in Seq(Seq(Origins))
  BY <1>1 DEF ArePagesOf
<1>. QED  BY <1>3, <1>4, <1>5 DEF ArePages, pages

\* A page that is not as it was has a mask.
LEMMA MaskedOrWhole ==
  ASSUME NEW d \in Documents, NEW findings, AreQuotes(d, Quotes(findings)),
         NEW p \in DOMAIN d.pages
  PROVE  \/ MaskFlaggedText(PageText(d, p), findings) = PageText(d, p)
         \/ MaskedAs(p) \in LeftOn(d, findings, p)
<1>. DEFINE qs   == ByLength(Quotes(findings))
            text == PageText(d, p)
            n    == Len(Page(d, p))
            C    == {p} \X (0 .. n)
            mask == MaskedAs(p)
            X    == {t \in Seq(C) : t = text \/ mask \in ToSet(t)}
<1>1. n \in Nat /\ p \in Nat /\ text = [i \in 1 .. n |-> <<p, i>>]
  BY PageOfDocument
<1>2. text \in Seq(C)
  <2>1. text = [i \in 1 .. n |-> text[i]] /\ \A i \in 1 .. n : text[i] \in C
    BY <1>1
  <2>. HIDE DEF text, C, n
  <2>. QED  BY <1>1, <2>1, FunctionIsSeq
<1>3. mask \in C /\ \A c \in C : c[1] = p
  BY <1>1 DEF MaskedAs
<1>4. qs \in Seq(Quotes(findings))
  BY QuotesByLength DEF AreQuotes
<1>5. MaskFlaggedText(text, findings) = Masking!Fold(0, text, qs)
  BY MaskingIsFold
<1>. HIDE DEF text, C, n, qs, mask
<1>6. ASSUME NEW t \in X, NEW q \in Quotes(findings) PROVE MaskStep(0, t, q) \in X
  <2>1. t \in Seq(C) /\ (t = text \/ mask \in ToSet(t))
    OBVIOUS
  <2>2. /\ Characters(q) # <<>> /\ ToSet(Characters(q)) = {<<q.page, a>> : a \in q.from .. q.to}
        /\ q.from \in q.from .. q.to
    <3>1. q \in Spans /\ q.from \in 1 .. q.to
      BY DEF AreQuotes
    <3>2. q.from \in q.from .. q.to
      BY <3>1 DEF Spans
    <3>3. /\ Characters(q) # <<>>
          /\ ToSet(Characters(q)) = {<<q.page, a>> : a \in q.from .. q.to}
      BY <3>1, CharactersOf
    <3>. QED  BY <3>2, <3>3
  <2>3. CASE Characters(q) \notin SubSeqs(t)
    BY <2>1, <2>3 DEF MaskStep, MaskQuote, ReplaceFirstSubSeq
  <2>4. CASE Characters(q) \in SubSeqs(t)
    <3>1. q.page = p
      <4>1. ToSet(Characters(q)) \subseteq ToSet(t)
        BY <2>1, <2>4, PartIsOfText
      <4>2. <<q.page, q.from>> \in ToSet(t)
        BY <2>2, <4>1
      <4>3. ToSet(t) \subseteq C
        BY <2>1 DEF ToSet
      <4>4. <<q.page, q.from>>[1] = p
        BY <1>3, <4>2, <4>3
      <4>. QED  BY <4>4
    <3>2. MaskedAs(q.page) = mask /\ MaskedAs(q.page) \in C
      BY <1>3, <3>1 DEF mask
    <3>. DEFINE new == MaskQuote(t, q)
    <3>3. new \in Seq(C)
      BY <2>1, <2>2, <3>2, MaskReplaces
    <3>4. PICK i \in 1 .. Len(t), l \in Nat : IsReplaced(new, t, i, l, MaskedAs(q.page))
      BY <2>1, <2>2, <2>4, <3>2, MaskReplaces
    <3>. HIDE DEF new
    <3>5. Len(t) \in Nat /\ DOMAIN new = 1 .. Len(new)
      BY <2>1, <3>3
    <3>6. /\ i + l - 1 \in i .. Len(t) /\ Len(new) = Len(t) - l + 1 /\ new[i] = mask
      BY <3>2, <3>4 DEF IsReplaced
    <3>7. i \in 1 .. Len(new)
      BY <3>5, <3>6
    <3>8. mask \in ToSet(new)
      BY <3>5, <3>6, <3>7 DEF ToSet
    <3>. QED  BY <3>3, <3>8 DEF MaskStep, new
  <2>. QED  BY <2>3, <2>4
<1>7. text \in X
  BY <1>2
<1>8. Masking!Fold(0, text, qs) \in X
  <2>. HIDE DEF X
  <2>. QED  BY <1>4, <1>6, <1>7, Masking!FoldKeeps
<1>. QED  BY <1>5, <1>8 DEF LeftOn, text, mask

\* Up to the first mask a document is read in order.
LEMMA PagesInOrder ==
  ASSUME NEW d \in Documents, NEW findings, AreQuotes(d, Quotes(findings)), NEW P \in Nat,
         \A p \in DOMAIN d.pages : p <= P => MaskedAs(p) \notin LeftOn(d, findings, p)
  PROVE  ArePages(Origins, ReadInOrder(P), SanitizedPages(d, findings))
<1>. DEFINE pages == SanitizedPages(d, findings)
            R     == ReadInOrder(P)
<1>1. ArePagesOf(d, pages)
  BY PagesAreOf
<1>2. \A p \in DOMAIN d.pages : pages[p] = MaskFlaggedText(PageText(d, p), findings)
  BY DEF SanitizedPages
<1>3. \A a, b \in Origins : <<a, b>> \in R <=> a[1] <= b[1] /\ (b[1] <= P => Before(a, b))
  BY DEF ReadInOrder
<1>4. \A c \in Origins : c[1] \in Nat /\ c[2] \in Nat
  BY DEF Origins
<1>. HIDE DEF pages, R
<1>5. ASSUME NEW p \in DOMAIN pages PROVE Sorted(R, pages[p])
  <2>1. p \in DOMAIN d.pages /\ pages[p] \in Seq(Origins) /\ p \in Nat
    BY <1>1 DEF ArePagesOf
  <2>2. Len(pages[p]) \in Nat /\ DOMAIN pages[p] = 1 .. Len(pages[p])
        /\ \A i \in 1 .. Len(pages[p]) : pages[p][i] \in Origins
    BY <2>1
  <2>3. \A i \in DOMAIN pages[p] : pages[p][i][1] = p
    BY <1>1 DEF ArePagesOf, ToSet
  <2>4. ASSUME NEW i \in DOMAIN pages[p], NEW j \in DOMAIN pages[p], i < j, p <= P
        PROVE  Before(pages[p][i], pages[p][j])
    <3>1. pages[p] = [k \in 1 .. Len(Page(d, p)) |-> <<p, k>>]
      BY <1>2, <2>1, <2>4, MaskedOrWhole, PageOfDocument
    <3>2. pages[p][i] = <<p, i>> /\ pages[p][j] = <<p, j>>
      BY <3>1
    <3>. QED  BY <2>4, <3>2 DEF Before
  <2>5. ASSUME NEW i \in DOMAIN pages[p], NEW j \in DOMAIN pages[p], i < j
        PROVE  <<pages[p][i], pages[p][j]>> \in R
    <3>1. pages[p][i] \in Origins /\ pages[p][j] \in Origins
      BY <2>2
    <3>2. pages[p][i][1] <= pages[p][j][1] /\ pages[p][j][1] = p
      BY <2>1, <2>3
    <3>. QED  BY <1>3, <2>4, <2>5, <3>1, <3>2
  <2>. QED  BY <2>5 DEF Sorted
<1>6. ASSUME NEW p \in DOMAIN pages, NEW q \in DOMAIN pages, p < q
      PROVE  ToSet(pages[p]) \X ToSet(pages[q]) \subseteq R
  <2>1. p \in Nat /\ q \in Nat
    BY <1>1 DEF ArePagesOf
  <2>2. ToSet(pages[p]) \subseteq Origins /\ ToSet(pages[q]) \subseteq Origins
    BY <1>1 DEF ArePagesOf, ToSet
  <2>3. \A a \in ToSet(pages[p]) : \A b \in ToSet(pages[q]) : a[1] = p /\ b[1] = q
    BY <1>1 DEF ArePagesOf
  <2>4. \A a \in ToSet(pages[p]) : \A b \in ToSet(pages[q]) : a[1] <= b[1] /\ Before(a, b)
    BY <1>6, <2>1, <2>3 DEF Before
  <2>5. \A a \in ToSet(pages[p]) : \A b \in ToSet(pages[q]) : <<a, b>> \in R
    BY <1>3, <2>2, <2>4
  <2>. QED  BY <2>5
<1>7. pages \in Seq(Seq(Origins))
  BY <1>1 DEF ArePagesOf
<1>. QED  BY <1>5, <1>6, <1>7 DEF ArePages, pages, R

\* What a title owes to a character below it: of the headings above, it is
\* the last.
IsLastAbove(heads, c, title) ==
  LET above == {h \in heads : h[1][2] # 0 /\ Before(h[1], c)}
  IN IF above = {} THEN title = <<>>
     ELSE \A h \in above \ {title} : Before(h[1], title[1])

LEMMA TitleIsLast ==
  ASSUME NEW d, NEW pages, NEW c \in Origins, ArePagesOf(d, pages),
         \A p \in DOMAIN pages : p <= c[1] => MaskedAs(p) \notin ToSet(pages[p]),
         NEW pars, ArePars(d, Origins, ReadInOrder(c[1]), pages, pars),
         NEW j \in DOMAIN pars, c \in ToSet(pars[j]), ~IsHeading(d, pars[j]),
         NEW title, TitleAt(d, pars, title, j - 1)
  PROVE  IsLastAbove(Headings(d, pages), c, title)
<1>. DEFINE heads == Headings(d, pages)
            above == {h \in heads : h[1][2] # 0 /\ Before(h[1], c)}
            P     == c[1]
            R     == ReadInOrder(P)
            w     == Len(pars)
<1>1. /\ w \in Nat /\ DOMAIN pars = 1 .. w /\ \A i \in 1 .. w : pars[i] \in Seq(Origins)
  BY DEF ArePars, SortedTexts
<1>2. \A a, b \in Origins : <<a, b>> \in R <=> a[1] <= b[1] /\ (b[1] <= P => Before(a, b))
  BY DEF ReadInOrder
<1>3. \A a \in Origins : a[1] \in Nat /\ a[2] \in Nat
  BY DEF Origins
<1>. HIDE DEF R, w
<1>4. ASSUME NEW i \in 1 .. w
      PROVE  pars[i][1] \in Origins /\ pars[i][1] \in ToSet(pars[i])
  <2>1. pars[i] # <<>> /\ pars[i] \in Seq(Origins)
    BY <1>1 DEF ArePars
  <2>2. Len(pars[i]) \in Nat \ {0} /\ DOMAIN pars[i] = 1 .. Len(pars[i])
    BY <2>1, EmptySeq
  <2>3. 1 \in DOMAIN pars[i]
    BY <2>2
  <2>. QED  BY <2>1, <2>2, <2>3 DEF ToSet
<1>5. \A i, k \in 1 .. w : i < k => ToSet(pars[i]) \X ToSet(pars[k]) \subseteq R
  BY <1>1 DEF ArePars, SortedTexts, Sorted, Apart, R
<1>6. ASSUME NEW h \in heads PROVE \E i \in 1 .. w : pars[i] = h /\ IsHeading(d, pars[i])
  <2>1. PICK p \in DOMAIN pages : h \in ToSet(Paragraphs(d, pages[p])) /\ IsHeading(d, h)
    BY DEF Headings
  <2>2. h \in ToSet(pars)
    BY <2>1 DEF ArePars
  <2>. QED  BY <1>1, <2>1, <2>2 DEF ToSet
<1>7. ASSUME NEW i \in 1 .. w, IsHeading(d, pars[i]) PROVE pars[i] \in heads
  <2>1. pars[i] \in ToSet(pars)
    BY <1>1 DEF ToSet
  <2>2. PICK p \in DOMAIN pages : pars[i] \in ToSet(Paragraphs(d, pages[p]))
    BY <2>1 DEF ArePars
  <2>. QED  BY <1>7, <2>2 DEF Headings
<1>8. ASSUME NEW i \in 1 .. w, pars[i][1][1] <= P PROVE pars[i][1][2] # 0
  <2>1. PICK p \in DOMAIN pages : ToSet(pars[i]) \subseteq ToSet(pages[p])
    BY <1>1 DEF ArePars
  <2>2. pars[i][1] \in ToSet(pages[p]) /\ pars[i][1] \in Origins
    BY <1>4, <2>1
  <2>3. pars[i][1][1] = p
    BY <2>2 DEF ArePagesOf
  <2>4. pars[i][1] # <<p, 0>>
    BY <1>8, <2>2, <2>3 DEF MaskedAs
  <2>. QED  BY <2>2, <2>3, <2>4 DEF Origins
<1>. HIDE DEF heads
<1>9. ASSUME NEW h \in above PROVE \E i \in 1 .. j - 1 : pars[i] = h /\ IsHeading(d, pars[i])
  <2>1. PICK i \in 1 .. w : pars[i] = h /\ IsHeading(d, pars[i])
    BY <1>6
  <2>2. Before(h[1], c) /\ h[1] \in Origins
    BY <1>4, <2>1
  <2>3. i # j
    BY <2>1
  <2>4. ASSUME j < i PROVE FALSE
    <3>1. <<c, h[1]>> \in R
      BY <1>1, <1>4, <1>5, <2>1, <2>4
    <3>2. h[1][1] <= P
      BY <1>3, <2>2 DEF Before
    <3>3. Before(c, h[1])
      BY <1>2, <2>2, <3>1, <3>2
    <3>. QED  BY <1>3, <2>2, <3>3 DEF Before
  <2>5. i \in 1 .. j - 1
    BY <1>1, <2>3, <2>4
  <2>. QED  BY <2>1, <2>5
<1>10. CASE title = <<>> /\ \A i \in 1 .. j - 1 : ~IsHeading(d, pars[i])
  <2>1. above = {}
    BY <1>9, <1>10
  <2>. QED  BY <1>10, <2>1 DEF IsLastAbove, heads
<1>11. ASSUME NEW t \in 1 .. j - 1, pars[t] = title, IsHeading(d, pars[t]),
              \A i \in t + 1 .. j - 1 : ~IsHeading(d, pars[i])
       PROVE  IsLastAbove(heads, c, title)
  <2>1. t \in 1 .. w /\ t < j /\ j \in 1 .. w
    BY <1>1
  <2>2. title[1] \in Origins /\ title[1] \in ToSet(pars[t])
    BY <1>4, <1>11, <2>1
  <2>3. <<title[1], c>> \in R
    BY <1>5, <2>1, <2>2
  <2>4. Before(title[1], c) /\ title[1][1] <= P
    BY <1>2, <1>3, <2>2, <2>3
  <2>5. title \in above
    BY <1>7, <1>8, <1>11, <2>1, <2>4
  <2>6. ASSUME NEW h \in above, h # title PROVE Before(h[1], title[1])
    <3>1. PICK i \in 1 .. j - 1 : pars[i] = h /\ IsHeading(d, pars[i])
      BY <1>9
    <3>2. i \in 1 .. w /\ i < t
      <4>1. i \notin t + 1 .. j - 1 /\ i # t
        BY <1>11, <2>6, <3>1
      <4>. QED  BY <1>1, <4>1
    <3>3. h[1] \in Origins /\ h[1] \in ToSet(pars[i])
      BY <1>4, <3>1, <3>2
    <3>4. <<h[1], title[1]>> \in R
      BY <1>5, <2>1, <2>2, <3>2, <3>3
    <3>. QED  BY <1>2, <2>2, <2>4, <3>3, <3>4
  <2>. QED  BY <2>5, <2>6 DEF IsLastAbove
<1>. QED  BY <1>10, <1>11 DEF TitleAt, heads

-----------------------------------------------------------------------------
(* What the chunks of a document owe to it. *)

\* The pages of a chunk are between its first and its last one.
LEMMA BetweenPages ==
  ASSUME NEW n \in Nat, NEW S, S \subseteq 0 .. n, NEW x \in S
  PROVE  x \in Min(S) .. Max(S)
<1>1. \E m \in S : \A i \in S : m <= i
  <2>1. S \subseteq Nat /\ S # {}
    OBVIOUS
  <2>. QED  BY <2>1, Parsing!LeastNumber
<1>2. \E m \in S : \A i \in S : m >= i
  <2>1. PICK m \in S : \A i \in S : i <= m
    BY Parsing!GreatestNumber
  <2>. QED  BY <2>1
<1>3. Min(S) \in S /\ \A i \in S : Min(S) <= i
  BY <1>1, Zenon DEF Min
<1>4. Max(S) \in S /\ \A i \in S : Max(S) >= i
  BY <1>2, Zenon DEF Max
<1>. HIDE DEF Min, Max
<1>. QED  BY <1>3, <1>4

\* What the property says, of any document and its findings.
LEMMA ChunksLocate ==
  ASSUME NEW d \in Documents, NEW findings, AreQuotes(d, Quotes(findings))
  PROVE  LocatesText(d, findings, Chunks(d, findings))
<1>. DEFINE pages  == SanitizedPages(d, findings)
            chunks == Chunks(d, findings)
            pars   == ParsOf(d, pages)
            heads  == Headings(d, pages)
            body   == {c \in UNION {ToSet(pages[p]) : p \in DOMAIN pages} :
                         /\ Kind(d, c) # "/" /\ c[2] # 0
                         /\ \A h \in heads : c \notin ToSet(h)}
            above(c) == {h \in heads : h[1][2] # 0 /\ Before(h[1], c)}
            masks(c) == {p \in 1 .. c[1] : MaskedAs(p) \in ToSet(pages[p])}
            last   == Len(d.pages)
<1>1. ArePagesOf(d, pages)
  BY PagesAreOf
<1>2. last \in Nat /\ DOMAIN d.pages = 1 .. last
  <2>1. d.pages \in Seq(Seq({"a", "A", ".", "/"}))
    BY DocumentsAssumption
  <2>. QED  BY <2>1
<1>3. ArePars(d, Origins, Differ, pages, pars)
  BY PagesDiffer, ParsInOrder
<1>4. AreOfDocument(d, Origins, Differ, pars, chunks)
  BY PagesDiffer, ChunksInOrder DEF Chunks
<1>5. \A p \in DOMAIN d.pages : ToSet(pages[p]) = LeftOn(d, findings, p)
  BY DEF SanitizedPages, LeftOn
<1>6. LocatesText(d, findings, chunks) <=>
        /\ \A c \in body : \E i \in DOMAIN chunks : c \in ToSet(chunks[i].text)
        /\ \A i \in DOMAIN chunks : \A c \in ToSet(chunks[i].text) \cap body :
             /\ c[1] \in chunks[i].page_start .. chunks[i].page_end
             /\ masks(c) = {} => IsLastAbove(heads, c, chunks[i].section)
        /\ \A i \in DOMAIN chunks \ {1} :
             \/ \E c \in ToSet(chunks[i].text) : c[2] = 0
             \/ ~(ToSet(chunks[i].text) \subseteq ToSet(chunks[i - 1].text))
        /\ \A i \in DOMAIN chunks :
             /\ Len(chunks[i].text) <= TARGET_CHARS + Repeated
             /\ LengthOf(chunks[i]) <= Longest + HEADING_MAX_CHARS + 3
  BY Zenon DEF LocatesText, IsLastAbove, Repeated, Longest
<1>. HIDE DEF pages, pars, heads, chunks, last
<1>7. ASSUME NEW c \in body PROVE \E i \in DOMAIN chunks : c \in ToSet(chunks[i].text)
  <2>1. PICK p \in DOMAIN pages : c \in ToSet(pages[p])
    OBVIOUS
  <2>2. PICK par \in ToSet(Paragraphs(d, pages[p])) : c \in ToSet(par)
    BY <1>3, <2>1 DEF ArePars
  <2>3. ~IsHeading(d, par)
    BY <2>2 DEF Headings, heads
  <2>4. PICK j \in DOMAIN pars : pars[j] = par
    BY <1>3, <2>2 DEF ArePars, ToSet
  <2>. QED  BY <1>4, <2>2, <2>3, <2>4 DEF AreOfDocument
<1>8. ASSUME NEW i \in DOMAIN chunks, NEW c \in ToSet(chunks[i].text)
      PROVE  c \in Origins /\ c[1] \in 1 .. last
  <2>1. PICK j \in DOMAIN pars : c \in ToSet(pars[j])
    BY <1>4 DEF AreOfDocument, IsOfDocument
  <2>2. PICK p \in DOMAIN pages : ToSet(pars[j]) \subseteq ToSet(pages[p])
    BY <1>3 DEF ArePars
  <2>3. c \in ToSet(pages[p]) /\ ToSet(pages[p]) \subseteq Origins
    <3>1. c \in ToSet(pages[p])
      BY <2>1, <2>2
    <3>2. pages[p] \in Seq(Origins)
      BY <1>1 DEF ArePagesOf
    <3>3. ToSet(pages[p]) \subseteq Origins
      BY <3>2 DEF ToSet
    <3>. QED  BY <3>1, <3>3
  <2>. QED  BY <1>1, <1>2, <2>3 DEF ArePagesOf
<1>9. ASSUME NEW i \in DOMAIN chunks, NEW c \in ToSet(chunks[i].text)
      PROVE  c[1] \in chunks[i].page_start .. chunks[i].page_end
  <2>. DEFINE S == PagesOf(chunks[i].text)
  <2>1. chunks[i].page_start = Min(S) /\ chunks[i].page_end = Max(S)
    BY <1>4 DEF AreOfDocument, IsOfDocument
  <2>2. c[1] \in S /\ S \subseteq 0 .. last
    <3>1. \A e \in ToSet(chunks[i].text) : e[1] \in 0 .. last
      BY <1>2, <1>8
    <3>. QED  BY <3>1 DEF PagesOf
  <2>. HIDE DEF S
  <2>. QED  BY <1>2, <2>1, <2>2, BetweenPages
<1>10. ASSUME NEW i \in DOMAIN chunks, NEW c \in ToSet(chunks[i].text), masks(c) = {}
       PROVE  IsLastAbove(heads, c, chunks[i].section)
  <2>1. c \in Origins /\ c[1] \in Nat
    BY <1>8 DEF Origins
  <2>2. \A p \in DOMAIN pages : p <= c[1] => MaskedAs(p) \notin ToSet(pages[p])
    <3>1. \A p \in DOMAIN pages : p \in 1 .. last
      BY <1>1, <1>2 DEF ArePagesOf
    <3>2. \A p \in 1 .. c[1] : MaskedAs(p) \notin ToSet(pages[p])
      BY <1>10
    <3>3. \A p \in 1 .. last : p <= c[1] => p \in 1 .. c[1]
      BY <1>2, <2>1
    <3>. QED  BY <3>1, <3>2, <3>3
  <2>3. \A p \in DOMAIN d.pages : p <= c[1] => MaskedAs(p) \notin LeftOn(d, findings, p)
    BY <1>1, <1>5, <2>2 DEF ArePagesOf
  <2>4. ArePars(d, Origins, ReadInOrder(c[1]), pages, pars)
    <3>1. ArePages(Origins, ReadInOrder(c[1]), pages)
      BY <2>1, <2>3, PagesInOrder DEF pages
    <3>. QED  BY <3>1, ParsInOrder DEF pars
  <2>5. PICK j \in DOMAIN pars : /\ c \in ToSet(pars[j]) /\ ~IsHeading(d, pars[j])
                                 /\ TitleAt(d, pars, chunks[i].section, j - 1)
    BY <1>4 DEF AreOfDocument, IsOfDocument
  <2>. QED  BY <1>1, <2>1, <2>2, <2>4, <2>5, TitleIsLast DEF heads
<1>11. ASSUME NEW i \in DOMAIN chunks \ {1}
       PROVE  \/ \E c \in ToSet(chunks[i].text) : c[2] = 0
              \/ ~(ToSet(chunks[i].text) \subseteq ToSet(chunks[i - 1].text))
  <2>1. chunks \in Seq(ChunkType(Origins)) /\ Sorted(FreshAfter(Differ, Origins), chunks)
    BY <1>4 DEF AreOfDocument
  <2>2. i \in DOMAIN chunks /\ i - 1 \in DOMAIN chunks /\ i - 1 < i
    BY <2>1
  <2>3. <<chunks[i - 1], chunks[i]>> \in FreshAfter(Differ, Origins)
    BY <2>1, <2>2 DEF Sorted
  <2>4. PICK b \in ToSet(chunks[i].text) : \A a \in ToSet(chunks[i - 1].text) : <<a, b>> \in Differ
    BY <2>3 DEF FreshAfter
  <2>5. \A a \in ToSet(chunks[i - 1].text) : a # b \/ b[2] = 0
    BY <2>4 DEF Differ
  <2>. QED  BY <2>4, <2>5
<1>12. ASSUME NEW i \in DOMAIN chunks
       PROVE  /\ Len(chunks[i].text) <= TARGET_CHARS + Repeated
              /\ LengthOf(chunks[i]) <= Longest + HEADING_MAX_CHARS + 3
  <2>. DEFINE chunk == chunks[i]
  <2>1. IsOfDocument(d, Origins, Differ, pars, chunk)
    BY <1>4 DEF AreOfDocument
  <2>2. chunk \in ChunkType(Origins)
    <3>1. chunks \in Seq(ChunkType(Origins))
      BY <1>4 DEF AreOfDocument
    <3>. QED  BY <3>1
  <2>. HIDE DEF chunk
  <2>3. /\ IsShort(chunk) /\ chunk.text \in Seq(Origins) /\ chunk.text # <<>>
        /\ chunk.section \in Seq(Origins)
    BY <2>1, <2>2, ChunkIsText DEF IsOfDocument
  <2>4. Len(chunk.section) <= HEADING_MAX_CHARS
    <3>1. PICK c : c \in ToSet(chunk.text)
      <4>1. Len(chunk.text) \in Nat \ {0} /\ DOMAIN chunk.text = 1 .. Len(chunk.text)
        BY <2>3, EmptySeq
      <4>2. 1 \in DOMAIN chunk.text
        BY <4>1
      <4>. QED  BY <4>2 DEF ToSet
    <3>2. PICK j \in DOMAIN pars : TitleAt(d, pars, chunk.section, j - 1)
      BY <2>1, <3>1 DEF IsOfDocument
    <3>3. chunk.section = <<>> \/ IsHeading(d, chunk.section)
      BY <3>2 DEF TitleAt
    <3>4. Len(<<>>) = 0
      OBVIOUS
    <3>. QED  BY <3>3, <3>4, ChunkerAssumption DEF IsHeading
  <2>5. LengthOf(chunk) <= Longest + HEADING_MAX_CHARS + 3
    <3>1. /\ Len(chunk.text) \in Nat /\ Len(chunk.section) \in Nat /\ chunk.breaks \in Nat
          /\ Longest \in Int /\ HEADING_MAX_CHARS \in Nat
      BY <2>3, ChunkerAssumption DEF IsShort, Longest
    <3>2. Len(chunk.text) + chunk.breaks <= Longest + 3
      BY <2>3, <3>1 DEF IsShort
    <3>. DEFINE m == Len(chunk.section)
                n == Len(chunk.text)
                b == chunk.breaks
    <3>3. LengthOf(chunk) = m + n + b
      BY DEF LengthOf
    <3>. HIDE DEF m, n, b
    <3>4. m + n + b <= Longest + HEADING_MAX_CHARS + 3
      <4>1. m \in Nat /\ n \in Nat /\ b \in Nat /\ m <= HEADING_MAX_CHARS /\ n + b <= Longest + 3
        BY <2>4, <3>1, <3>2 DEF m, n, b
      <4>. QED  BY <3>1, <4>1
    <3>. QED  BY <3>3, <3>4
  <2>. QED  BY <2>3, <2>5 DEF IsShort, chunk
<1>. HIDE DEF body, masks
<1>13. \A i \in DOMAIN chunks : \A c \in ToSet(chunks[i].text) \cap body :
         /\ c[1] \in chunks[i].page_start .. chunks[i].page_end
         /\ masks(c) = {} => IsLastAbove(heads, c, chunks[i].section)
  BY <1>9, <1>10
<1>. QED  BY <1>6, <1>7, <1>11, <1>12, <1>13 DEF chunks

LEMMA TextIsInChunks == AnalysisInv => ChunksLocateText
<1>1. ASSUME AnalysisInv, run.at = "indexed" PROVE LocatesText(doc, gate.findings, run.chunks)
  <2>1. /\ doc \in Documents /\ AreQuotes(doc, Quotes(gate.findings))
        /\ run.chunks = Chunks(doc, gate.findings)
    BY <1>1, PromptOfAnalysis
  <2>2. LocatesText(doc, gate.findings, Chunks(doc, gate.findings))
    BY <2>1, ChunksLocate
  <2>. QED  BY <2>1, <2>2
<1>. QED  BY <1>1 DEF ChunksLocateText

\* The chunks of a document hold all of its text that is neither masked nor a
\* heading, with its pages and the last heading above it, and none is only a
\* repetition of the one before or longer than its limit
\* (SectionAwareChunker.chunk): for any documents, findings and sizes.
THEOREM TextIsLocated == ServiceSpec => []ChunksLocateText
<1>1. NoAnalysis => ChunksLocateText
  BY DEF NoAnalysis, NotStarted, ChunksLocateText
<1>2. AnalysisPart => ChunksLocateText
  BY <1>1, TextIsInChunks DEF AnalysisPart
<1>. QED  BY <1>2, AnalysisPartOK, PTL

-----------------------------------------------------------------------------
(* The settlement of a notice. *)

AddPublic(given, total, c) == IF c.public THEN total + c.amount ELSE total

Summing == INSTANCE FoldLemmas WITH Op <- AddPublic

PublicSum(components) ==
  LET add(total, c) == IF c.public THEN total + c.amount ELSE total
  IN FoldLeft(add, 0, components)

LEMMA SumIsFold == ASSUME NEW s PROVE PublicSum(s) = Summing!Fold(0, 0, s)
BY DEF PublicSum, FoldLeft, MapThenFoldSet, Summing!Fold, Max, Summing!Max, AddPublic

LEMMA SumOfNone == PublicSum(<<>>) = 0
<1>. DEFINE s == <<>>
<1>1. Len(s) = 0 /\ DOMAIN s = 1 .. 0
  OBVIOUS
<1>. HIDE DEF s
<1>2. PICK F : Summing!IsFold(F, 0, 0, s)
  BY <1>1, Summing!FoldHasSteps
<1>3. PublicSum(s) = 0
  BY <1>1, <1>2, SumIsFold DEF Summing!IsFold
<1>. QED  BY <1>3 DEF s

\* A component, if there is any, counts if it is public.
LEMMA SumWithOneMore ==
  ASSUME NEW S, NEW s \in Seq(S), NEW c \in S, c.amount \in Nat, PublicSum(s) \in Nat
  PROVE  LET t == s \o IfAny(c)
         IN /\ t \in Seq(S)
            /\ PublicSum(t) = IF c.public THEN PublicSum(s) + c.amount ELSE PublicSum(s)
            /\ \A x \in ToSet(t) : x \in ToSet(s) \/ (x = c /\ c.amount > 0)
<1>. DEFINE t == s \o IfAny(c)
<1>1. CASE c.amount = 0
  <2>1. t = s
    BY <1>1 DEF IfAny
  <2>. HIDE DEF t
  <2>2. PublicSum(s) = IF c.public THEN PublicSum(s) + c.amount ELSE PublicSum(s)
    BY <1>1
  <2>3. \A x \in ToSet(t) : x \in ToSet(s)
    BY <2>1
  <2>4. /\ t \in Seq(S)
        /\ PublicSum(t) = IF c.public THEN PublicSum(s) + c.amount ELSE PublicSum(s)
    BY <2>1, <2>2
  <2>. QED  BY <2>3, <2>4 DEF t
<1>2. CASE c.amount > 0
  <2>. DEFINE n == Len(s)
  <2>1. t = Append(s, c)
    BY <1>2 DEF IfAny
  <2>2. /\ n \in Nat /\ DOMAIN s = 1 .. n
        /\ t \in Seq(S) /\ Len(t) = n + 1 /\ DOMAIN t = 1 .. n + 1
        /\ t[n + 1] = c /\ \A k \in 1 .. n : t[k] = s[k]
    BY <2>1
  <2>. HIDE DEF t, n
  <2>3. Summing!Fold(0, 0, t) = AddPublic(0, Summing!Fold(0, 0, s), t[n + 1])
    BY <2>2, Summing!FoldOneMore DEF n
  <2>4. PublicSum(t) = IF c.public THEN PublicSum(s) + c.amount ELSE PublicSum(s)
    BY <2>2, <2>3, SumIsFold DEF AddPublic
  <2>5. ASSUME NEW x \in ToSet(t) PROVE x \in ToSet(s) \/ x = c
    <3>1. PICK k \in 1 .. n + 1 : x = t[k]
      BY <2>2 DEF ToSet
    <3>2. CASE k = n + 1
      BY <2>2, <3>1, <3>2
    <3>3. CASE k \in 1 .. n
      BY <2>2, <3>1, <3>3 DEF ToSet
    <3>. QED  BY <2>2, <3>2, <3>3
  <2>. QED  BY <1>2, <2>2, <2>4, <2>5 DEF t
<1>. QED  BY <1>1, <1>2

LEMMA SumOfComponents ==
  ASSUME NEW a, NEW b, NEW c,
         a.amount \in Nat, b.amount \in Nat, c.amount \in Nat,
         a.public = TRUE, b.public = TRUE, c.public = FALSE
  PROVE  LET s == IfAny(a) \o IfAny(b) \o IfAny(c)
         IN /\ PublicSum(s) = a.amount + b.amount
            /\ \A x \in ToSet(s) : x \in {a, b, c} /\ x.amount > 0
<1>. DEFINE S    == {a, b, c}
            none == <<>>
            one  == none \o IfAny(a)
            two  == one \o IfAny(b)
            all  == two \o IfAny(c)
<1>1. none \in Seq(S) /\ ToSet(none) = {}
  BY DEF ToSet
<1>2. PublicSum(none) = 0
  BY SumOfNone
<1>3. one = IfAny(a)
  BY DEF IfAny
<1>. HIDE DEF none, S
<1>4. a \in S /\ b \in S /\ c \in S
  BY DEF S
<1>5. /\ one \in Seq(S) /\ PublicSum(one) = a.amount
      /\ \A x \in ToSet(one) : x = a /\ x.amount > 0
  <2>1. /\ one \in Seq(S)
        /\ PublicSum(one) = IF a.public THEN PublicSum(none) + a.amount ELSE PublicSum(none)
        /\ \A x \in ToSet(one) : x \in ToSet(none) \/ (x = a /\ a.amount > 0)
    BY <1>1, <1>2, <1>4, SumWithOneMore
  <2>. QED  BY <1>1, <1>2, <2>1
<1>6. /\ two \in Seq(S) /\ PublicSum(two) = a.amount + b.amount
      /\ \A x \in ToSet(two) : x \in {a, b} /\ x.amount > 0
  <2>. HIDE DEF one
  <2>1. /\ two \in Seq(S)
        /\ PublicSum(two) = IF b.public THEN PublicSum(one) + b.amount ELSE PublicSum(one)
        /\ \A x \in ToSet(two) : x \in ToSet(one) \/ (x = b /\ b.amount > 0)
    BY <1>4, <1>5, SumWithOneMore
  <2>. QED  BY <1>5, <2>1
<1>7. /\ PublicSum(all) = a.amount + b.amount
      /\ \A x \in ToSet(all) : x \in {a, b, c} /\ x.amount > 0
  <2>. HIDE DEF two
  <2>1. /\ PublicSum(all) = IF c.public THEN PublicSum(two) + c.amount ELSE PublicSum(two)
        /\ \A x \in ToSet(all) : x \in ToSet(two) \/ (x = c /\ c.amount > 0)
    BY <1>4, <1>6, SumWithOneMore
  <2>. QED  BY <1>6, <2>1
<1>. QED  BY <1>3, <1>7

LEMMA MoneyIsMonotone ==
  ASSUME NEW a \in Nat, NEW b \in Nat, a <= b
  PROVE  Money(a) \in Nat /\ Money(b) \in Nat /\ Money(a) <= Money(b) /\ Money(0) = 0
BY DEF Money

LEMMA WeightsAreOrdered ==
  /\ LowWeight \in Nat /\ HighWeight \in Nat
  /\ LowWeight <= HighWeight /\ HighWeight <= 10000
<1>1. EVIDENCE_STRENGTH \in 0 .. 100
  BY NoticeAssumption
<1>2. Center \in Nat /\ 4500 <= Center /\ Center <= 8000
  BY <1>1 DEF Center
<1>. HIDE DEF Center
<1>3. LowWeight = Center - 1000
  <2>1. {500, Center - 1000} \subseteq 0 .. 10000 /\ {500, Center - 1000} # {}
    BY <1>2
  <2>. DEFINE S == {500, Center - 1000}
  <2>2. 500 \in S /\ Center - 1000 \in S
    OBVIOUS
  <2>3. \A i \in S : i = 500 \/ i = Center - 1000
    OBVIOUS
  <2>. HIDE DEF S
  <2>4. Max(S) \in S /\ \A i \in S : i <= Max(S)
    <3>. DEFINE top == 10000
    <3>1. top \in Nat /\ S \subseteq 0 .. top /\ S # {}
      BY <2>1 DEF S
    <3>. HIDE DEF top
    <3>2. Parsing!Max(S) \in S /\ \A i \in S : i <= Parsing!Max(S)
      BY <3>1, Parsing!MaxOfNumbers
    <3>. QED  BY <3>2 DEF Max, Parsing!Max
  <2>5. Max(S) = Center - 1000
    BY <1>2, <2>2, <2>3, <2>4
  <2>. QED  BY <2>5 DEF LowWeight, S
<1>4. HighWeight = IF 9000 <= Center + 1000 THEN 9000 ELSE Center + 1000
  BY <1>2, LesserOfTwo DEF HighWeight
<1>. QED  BY <1>2, <1>3, <1>4

LEMMA WeightedIsMonotone ==
  ASSUME NEW a \in Int, NEW b \in Int, a <= b
  PROVE  Weighted(a) \in Int /\ Weighted(b) \in Int /\ Weighted(a) <= Weighted(b)
BY DEF Weighted

\* A whole amount, weighted by all of it.
LEMMA WeightedWhole ==
  ASSUME NEW n \in Nat
  PROVE  Weighted(n * 10000) = n /\ Weighted(-(n * 10000)) = -n
BY DEF Weighted

\* The illustrative values are in order, whatever the amounts.
LEMMA ValuesAreOrdered ==
  ASSUME NEW loss \in Nat, NEW high \in Nat, NEW cost \in Nat, loss <= high
  PROVE  LET low == Weighted(loss * LowWeight - cost * (10000 - LowWeight))
             top == Weighted(high * HighWeight - cost * (10000 - HighWeight))
         IN -cost <= low /\ low <= top /\ top <= high
<1>. DEFINE a == loss * LowWeight
            b == high * HighWeight
            x == cost * (10000 - LowWeight)
            y == cost * (10000 - HighWeight)
<1>1. /\ LowWeight \in Nat /\ HighWeight \in Nat /\ LowWeight <= HighWeight
      /\ HighWeight <= 10000
  BY WeightsAreOrdered
<1>2. a \in Nat /\ b \in Nat /\ x \in Nat /\ y \in Nat
  BY <1>1
<1>3. a <= b
  <2>1. loss * LowWeight <= high * LowWeight
    BY <1>1
  <2>2. high * LowWeight <= high * HighWeight
    BY <1>1
  <2>3. high * LowWeight \in Nat
    BY <1>1
  <2>. QED  BY <1>2, <2>1, <2>2, <2>3
<1>4. y <= x
  BY <1>1
<1>5. b <= high * 10000 /\ x <= cost * 10000
  BY <1>1
<1>. HIDE DEF a, b, x, y
<1>6. /\ -(cost * 10000) <= a - x /\ a - x <= b - y /\ b - y <= high * 10000
      /\ a - x \in Int /\ b - y \in Int /\ high * 10000 \in Int /\ -(cost * 10000) \in Int
  BY <1>2, <1>3, <1>4, <1>5
<1>7. Weighted(-(cost * 10000)) <= Weighted(a - x) /\ Weighted(a - x) <= Weighted(b - y)
      /\ Weighted(b - y) <= Weighted(high * 10000)
  BY <1>6, WeightedIsMonotone
<1>. QED  BY <1>7, WeightedWhole DEF a, b, x, y

\* A source of an amount, and what it has to be.
IsSource(files, facts, sources, value) ==
  /\ Len(sources) = 1 /\ sources[1].amount = value
  /\ sources[1].type = "evidence" =>
       files[sources[1].file].accepted /\ facts.loss = sources[1].amount

LEMMA ConfirmedIsSource ==
  ASSUME NEW files, NEW facts, NEW value, Amount(value) > 0
  PROVE  IsSource(files, facts, ConfirmedSources(value), value)
BY DEF ConfirmedSources, IsSource

LEMMA LossHasSource ==
  ASSUME NEW case \in Cases, AcceptsFacts(case.files, case.facts), Amount(case.facts.loss) > 0
  PROVE  IsSource(case.files, case.facts, DirectLossSources(case.files, case.facts),
                  case.facts.loss)
<1>1. CASE case.facts.reference = None
  BY <1>1, ConfirmedIsSource DEF DirectLossSources
<1>2. CASE case.facts.reference # None
  <2>. DEFINE S    == FilesWith(case.files, case.facts.reference)
              file == Min(S)
              from == [type |-> "evidence", file |-> file,
                       amount |-> case.facts.reference.mention.amount]
  <2>1. S \subseteq Nat /\ S # {} /\ case.facts.loss = case.facts.reference.mention.amount
    BY <1>2, CasesAssumption DEF AcceptsFacts, FilesWith
  <2>. HIDE DEF S
  <2>2. file \in S
    <3>1. \E m \in S : \A n \in S : m <= n
      BY <2>1, Parsing!LeastNumber
    <3>. QED  BY <3>1 DEF Min
  <2>3. case.files[file].accepted
    BY <2>2 DEF FilesWith, S
  <2>4. DirectLossSources(case.files, case.facts) = <<from>>
    BY <1>2 DEF DirectLossSources, S
  <2>5. from.file = file /\ from.amount = case.facts.loss
    BY <2>1
  <2>. HIDE DEF from, file
  <2>6. Len(<<from>>) = 1 /\ <<from>>[1] = from
    OBVIOUS
  <2>. QED  BY <2>3, <2>4, <2>5, <2>6 DEF IsSource
<1>. QED  BY <1>1, <1>2

LEMMA PaymentHasSource ==
  ASSUME NEW case \in Cases, AcceptsFacts(case.files, case.facts),
         Amount(case.facts.improper) > 0
  PROVE  IsSource(case.files, case.facts, ImproperPaymentSources(case.files, case.facts),
                  case.facts.improper)
<1>1. CASE case.facts.reference # None /\ case.facts.improper = case.facts.loss
  BY <1>1, LossHasSource DEF ImproperPaymentSources
<1>2. CASE ~(case.facts.reference # None /\ case.facts.improper = case.facts.loss)
  BY <1>2, ConfirmedIsSource DEF ImproperPaymentSources
<1>. QED  BY <1>1, <1>2

\* What is said of a settlement, for the case that it is of.
IsSupported(files, facts, s) ==
  LET sum == PublicSum(s.components)
  IN /\ \A c \in ToSet(s.components) : Len(c.sources) = 1 /\
          LET source == c.sources[1]
          IN /\ c.amount = Money(source.amount)
             /\ source.type = "evidence" =>
                  /\ files[source.file].accepted
                  /\ facts.loss = source.amount
     /\ IF sum = 0 THEN s.public = None /\ s.reserved = None
        ELSE s.public = sum /\ s.reserved <= sum /\ sum <= 2 * s.reserved
     /\ sum > Money(Amount(facts.loss)) => facts.requested /\ facts.improper # None
     /\ s.low <= s.high /\ s.high <= sum
     /\ -Money(Amount(facts.cost)) <= s.low

LEMMA SettlementIsSupported ==
  ASSUME NEW case \in Cases, AcceptsFacts(case.files, case.facts), IsPriceable(case.facts)
  PROVE  IsSupported(case.files, case.facts, Settlement(case.files, case.facts))
<1>. DEFINE files == case.files
            facts == case.facts
            s     == Settlement(files, facts)
            loss  == Money(Amount(facts.loss))
            more  == Increment(facts)
            cost  == Money(Amount(facts.cost))
            a     == Component("direct_loss", loss, TRUE, DirectLossSources(files, facts))
            b     == Component("conditional_article_42", more, TRUE,
                               ImproperPaymentSources(files, facts))
            c     == Component("downside_cost", cost, FALSE, ConfirmedSources(facts.cost))
            sum   == PublicSum(s.components)
<1>1. /\ Amount(facts.loss) \in Nat /\ Amount(facts.improper) \in Nat
      /\ Amount(facts.cost) \in Nat /\ Amount(facts.improper) <= Amount(facts.loss)
  BY CasesAssumption DEF Amount, IsPriceable
<1>2. /\ loss \in Nat /\ cost \in Nat /\ Money(Amount(facts.improper)) \in Nat
      /\ Money(Amount(facts.improper)) <= loss
  BY <1>1, MoneyIsMonotone
<1>3. /\ more \in Nat /\ more <= loss
      /\ more > 0 => facts.requested /\ more = Money(Amount(facts.improper))
  BY <1>2 DEF Increment
<1>4. /\ loss > 0 => Amount(facts.loss) > 0 /\ Amount(facts.loss) = facts.loss
      /\ more > 0 => Amount(facts.improper) > 0 /\ Amount(facts.improper) = facts.improper
                     /\ facts.improper # None
      /\ cost > 0 => Amount(facts.cost) > 0 /\ Amount(facts.cost) = facts.cost
  <2>1. \A n \in Nat : Money(n) > 0 => n > 0
    BY DEF Money
  <2>2. /\ loss > 0 => Amount(facts.loss) > 0
        /\ more > 0 => Amount(facts.improper) > 0
        /\ cost > 0 => Amount(facts.cost) > 0
    BY <1>1, <1>2, <1>3, <2>1
  <2>3. \A v : Amount(v) > 0 => Amount(v) = v /\ v # None
    BY DEF Amount
  <2>. QED  BY <2>2, <2>3
<1>5. /\ s.components = IfAny(a) \o IfAny(b) \o IfAny(c)
      /\ s.public = (IF loss + more > 0 THEN loss + more ELSE None)
      /\ s.reserved = (IF loss + more > 0 THEN loss ELSE None)
      /\ s.low = Weighted(loss * LowWeight - cost * Failing(LowWeight))
      /\ s.high = Weighted((loss + more) * HighWeight - cost * Failing(HighWeight))
  <2>. DEFINE low  == Weighted(loss * LowWeight - cost * Failing(LowWeight))
              high == Weighted((loss + more) * HighWeight - cost * Failing(HighWeight))
              all  == IfAny(a) \o IfAny(b) \o IfAny(c)
              top  == IF loss + more > 0 THEN loss + more ELSE None
              bottom == IF loss + more > 0 THEN loss ELSE None
  <2>1. s = [public |-> top, reserved |-> bottom, low |-> low, high |-> high,
             components |-> all]
    BY DEF Settlement
  <2>. HIDE DEF s, low, high, all, top, bottom
  <2>2. /\ s.public = top /\ s.reserved = bottom /\ s.low = low /\ s.high = high
        /\ s.components = all
    BY <2>1
  <2>. QED  BY Zenon, <2>2 DEF low, high, all, top, bottom
<1>6. /\ a.amount = loss /\ b.amount = more /\ c.amount = cost
      /\ a.public = TRUE /\ b.public = TRUE /\ c.public = FALSE
      /\ a.sources = DirectLossSources(files, facts)
      /\ b.sources = ImproperPaymentSources(files, facts)
      /\ c.sources = ConfirmedSources(facts.cost)
  BY DEF Component
<1>. HIDE DEF s, loss, more, cost, a, b, c
<1>7. sum = loss + more /\ \A x \in ToSet(s.components) : x \in {a, b, c} /\ x.amount > 0
  <2>1. /\ PublicSum(IfAny(a) \o IfAny(b) \o IfAny(c)) = a.amount + b.amount
        /\ \A x \in ToSet(IfAny(a) \o IfAny(b) \o IfAny(c)) : x \in {a, b, c} /\ x.amount > 0
    BY <1>2, <1>3, <1>6, SumOfComponents
  <2>. QED  BY <1>5, <1>6, <2>1
<1>8. ASSUME NEW x \in ToSet(s.components)
      PROVE  \E value : IsSource(files, facts, x.sources, value) /\ x.amount = Money(value)
  <2>1. x \in {a, b, c} /\ x.amount > 0
    BY <1>7
  <2>2. CASE x = a
    <3>1. loss > 0 /\ IsSource(files, facts, x.sources, facts.loss)
      BY <1>4, <1>6, <2>1, <2>2, LossHasSource
    <3>. QED  BY <1>4, <1>6, <2>2, <3>1 DEF loss
  <2>3. CASE x = b
    <3>1. more > 0 /\ IsSource(files, facts, x.sources, facts.improper)
      BY <1>4, <1>6, <2>1, <2>3, PaymentHasSource
    <3>2. more = Money(facts.improper)
      BY <1>3, <1>4, <3>1
    <3>. QED  BY <1>6, <2>3, <3>1, <3>2
  <2>4. CASE x = c
    <3>1. cost > 0 /\ IsSource(files, facts, x.sources, facts.cost)
      BY <1>4, <1>6, <2>1, <2>4, ConfirmedIsSource
    <3>. QED  BY <1>4, <1>6, <2>4, <3>1 DEF cost
  <2>. QED  BY <2>1, <2>2, <2>3, <2>4
<1>9. -cost <= s.low /\ s.low <= s.high /\ s.high <= sum
  <2>1. loss + more \in Nat /\ loss <= loss + more
    BY <1>2, <1>3
  <2>. QED  BY <1>2, <1>5, <1>7, <2>1, ValuesAreOrdered DEF Failing
<1>10. IF sum = 0 THEN s.public = None /\ s.reserved = None
       ELSE s.public = sum /\ s.reserved <= sum /\ sum <= 2 * s.reserved
  BY <1>2, <1>3, <1>5, <1>7
<1>11. sum > loss => facts.requested /\ facts.improper # None
  BY <1>2, <1>3, <1>4, <1>7
<1>12. \A x \in ToSet(s.components) :
         /\ Len(x.sources) = 1 /\ x.amount = Money(x.sources[1].amount)
         /\ x.sources[1].type = "evidence" =>
              files[x.sources[1].file].accepted /\ facts.loss = x.sources[1].amount
  BY <1>8 DEF IsSource
<1>. QED  BY <1>9, <1>10, <1>11, <1>12 DEF IsSupported, s, loss, cost

-----------------------------------------------------------------------------
(* The grounds of a notice: of what was found in the law, what is in force. *)

\* What the composer is given: the corpus, and the law that was found.
GroundStep(given, acc, rank) ==
  AddGround(given.provisions, given.chunks, acc, given.merged, rank)

Grounding == INSTANCE FoldLemmas WITH Op <- GroundStep

LEMMA GroundsAreFold ==
  ASSUME NEW provisions, NEW chunks, NEW facts, NEW merged
  PROVE  LegalGrounds(provisions, chunks, facts, merged) =
           IF IsConsumerScope(facts)
           THEN Grounding!Fold([provisions |-> provisions, chunks |-> chunks, merged |-> merged],
                               <<>>, [r \in DOMAIN merged |-> r])
           ELSE <<>>
<1>. DEFINE given == [provisions |-> provisions, chunks |-> chunks, merged |-> merged]
<1>1. /\ given.provisions = provisions /\ given.chunks = chunks /\ given.merged = merged
  OBVIOUS
<1>. HIDE DEF given
<1>2. Grounding!Fold(given, <<>>, [r \in DOMAIN merged |-> r]) =
        LET add(acc, rank) == AddGround(provisions, chunks, acc, merged, rank)
        IN FoldLeft(add, <<>>, [r \in DOMAIN merged |-> r])
  BY <1>1 DEF FoldLeft, MapThenFoldSet, Grounding!Fold, Max, Grounding!Max, GroundStep
<1>. QED  BY <1>2 DEF LegalGrounds, given

\* Where a result is in the law: the position of its provision.
LawPage(chunks, merged, r) == chunks[merged[r].id].page

GroundOf(provisions, chunks, merged, r) ==
  [key |-> provisions[LawPage(chunks, merged, r)].key,
   unit |-> UnitForChunk(provisions, chunks[merged[r].id]),
   chunk |-> merged[r].id, rank |-> r]

\* The grounds after k results: each is of a result in force, the first of its
\* provision; and while there is room every provision in force has one.
AreGrounds(provisions, chunks, merged, k, grounds) ==
  /\ grounds \in Seq({GroundOf(provisions, chunks, merged, r) : r \in DOMAIN merged})
  /\ \A g \in ToSet(grounds) :
       /\ g.rank \in 1 .. k /\ g = GroundOf(provisions, chunks, merged, g.rank)
       /\ provisions[LawPage(chunks, merged, g.rank)].status = "active"
       /\ \A r \in 1 .. g.rank - 1 :
            LawPage(chunks, merged, r) # LawPage(chunks, merged, g.rank)
  /\ \A r \in 1 .. k :
       provisions[LawPage(chunks, merged, r)].status = "active" /\ Len(grounds) < MAX_GROUNDS =>
         \E g \in ToSet(grounds) : g.key = provisions[LawPage(chunks, merged, r)].key

\* A chunk of the law is of a provision, and its unit, if it has one, is in force.
HasUnitInForce(provisions, chunk) ==
  LET unit == UnitForChunk(provisions, chunk)
  IN IF unit = <<>> THEN chunk.unit = <<>>
     ELSE unit[1].id = chunk.unit /\ unit[1].status = "active"

LEMMA GroundAdded ==
  ASSUME NEW provisions, NEW chunks, NEW merged, NEW n \in Nat, DOMAIN merged = 1 .. n,
         \A r \in 1 .. n : HasUnitInForce(provisions, chunks[merged[r].id]),
         NEW k \in 1 .. n, NEW acc, AreGrounds(provisions, chunks, merged, k - 1, acc),
         Len(acc) <= MAX_GROUNDS
  PROVE  LET new == AddGround(provisions, chunks, acc, merged, k)
         IN AreGrounds(provisions, chunks, merged, k, new) /\ Len(new) <= MAX_GROUNDS
<1>. DEFINE P(r)      == LawPage(chunks, merged, r)
            Ground(r) == GroundOf(provisions, chunks, merged, r)
            G         == {Ground(r) : r \in DOMAIN merged}
            new       == AddGround(provisions, chunks, acc, merged, k)
            Out       == \/ provisions[P(k)].status # "active"
                         \/ \E g \in ToSet(acc) : g.key = provisions[P(k)].key
                         \/ Len(acc) = MAX_GROUNDS
<1>0. MAX_GROUNDS \in Nat
  BY NoticeAssumption
<1>1. new = IF Out THEN acc ELSE Append(acc, Ground(k))
  <2>. DEFINE chunk == chunks[merged[k].id]
              unit  == UnitForChunk(provisions, chunk)
  <2>1. HasUnitInForce(provisions, chunk)
    OBVIOUS
  <2>2. unit # <<>> => unit[1].status = "active"
    BY <2>1 DEF HasUnitInForce
  <2>3. ProvisionForChunk(provisions, chunk) = provisions[P(k)]
    BY DEF ProvisionForChunk, LawPage
  <2>4. Ground(k) = [key |-> provisions[P(k)].key, unit |-> unit, chunk |-> merged[k].id,
                     rank |-> k]
    BY DEF GroundOf
  <2>. HIDE DEF unit, chunk, P
  <2>5. new = IF \/ provisions[P(k)].status # "active"
                 \/ unit # <<>> /\ unit[1].status # "active"
                 \/ \E g \in ToSet(acc) : g.key = provisions[P(k)].key
                 \/ Len(acc) = MAX_GROUNDS
              THEN acc
              ELSE Append(acc, [key |-> provisions[P(k)].key, unit |-> unit,
                                chunk |-> merged[k].id, rank |-> k])
    BY <2>3 DEF AddGround, unit, chunk
  <2>. QED  BY <2>2, <2>4, <2>5
<1>2. /\ acc \in Seq(G)
      /\ \A g \in ToSet(acc) :
           /\ g.rank \in 1 .. k - 1 /\ g = Ground(g.rank) /\ provisions[P(g.rank)].status = "active"
           /\ \A r \in 1 .. g.rank - 1 : P(r) # P(g.rank)
      /\ \A r \in 1 .. k - 1 : provisions[P(r)].status = "active" /\ Len(acc) < MAX_GROUNDS =>
           \E g \in ToSet(acc) : g.key = provisions[P(r)].key
  BY DEF AreGrounds
<1>3. Ground(k) \in G /\ Ground(k).rank = k /\ Ground(k).key = provisions[P(k)].key
  BY DEF GroundOf
<1>4. \A c : AreGrounds(provisions, chunks, merged, k, c) <=>
        /\ c \in Seq(G)
        /\ \A g \in ToSet(c) :
             /\ g.rank \in 1 .. k /\ g = Ground(g.rank) /\ provisions[P(g.rank)].status = "active"
             /\ \A r \in 1 .. g.rank - 1 : P(r) # P(g.rank)
        /\ \A r \in 1 .. k : provisions[P(r)].status = "active" /\ Len(c) < MAX_GROUNDS =>
             \E g \in ToSet(c) : g.key = provisions[P(r)].key
  BY Zenon DEF AreGrounds
<1>5. Len(acc) \in Nat
  BY <1>2
<1>. HIDE DEF P, Ground, G, new
<1>6. CASE Out
  <2>1. new = acc
    BY <1>1, <1>6
  <2>2. \A g \in ToSet(acc) : g.rank \in 1 .. k
    BY <1>2
  <2>3. ASSUME NEW r \in 1 .. k, provisions[P(r)].status = "active", Len(acc) < MAX_GROUNDS
        PROVE  \E g \in ToSet(acc) : g.key = provisions[P(r)].key
    <3>1. CASE r = k
      BY <1>0, <1>5, <1>6, <2>3, <3>1
    <3>2. CASE r # k
      <4>1. r \in 1 .. k - 1
        BY <3>2
      <4>. QED  BY <1>2, <2>3, <4>1
    <3>. QED  BY <3>1, <3>2
  <2>. QED  BY <1>2, <1>4, <2>1, <2>2, <2>3 DEF new
<1>7. CASE ~Out
  <2>1. new = Append(acc, Ground(k))
    BY <1>1, <1>7
  <2>2. /\ new \in Seq(G) /\ ToSet(new) = ToSet(acc) \cup {Ground(k)}
    BY <1>2, <1>3, <2>1, SetOfAppend
  <2>3. Len(new) = Len(acc) + 1
    BY <1>2, <1>3, <2>1
  <2>4. ASSUME NEW r \in 1 .. k - 1 PROVE P(r) # P(k)
    <3>1. Len(acc) < MAX_GROUNDS
      BY <1>0, <1>5, <1>7
    <3>2. provisions[P(k)].status = "active"
          /\ ~\E g \in ToSet(acc) : g.key = provisions[P(k)].key
      BY <1>7
    <3>. HIDE DEF Out
    <3>. QED  BY <1>2, <3>1, <3>2
  <2>5. ASSUME NEW g \in ToSet(new)
        PROVE  /\ g.rank \in 1 .. k /\ g = Ground(g.rank)
               /\ provisions[P(g.rank)].status = "active"
               /\ \A r \in 1 .. g.rank - 1 : P(r) # P(g.rank)
    <3>1. CASE g = Ground(k)
      BY <1>3, <1>7, <2>4, <3>1
    <3>2. CASE g \in ToSet(acc)
      BY <1>2, <3>2
    <3>. QED  BY <2>2, <3>1, <3>2
  <2>6. ASSUME NEW r \in 1 .. k, provisions[P(r)].status = "active", Len(new) < MAX_GROUNDS
        PROVE  \E g \in ToSet(new) : g.key = provisions[P(r)].key
    <3>1. CASE r = k
      BY <1>3, <2>2, <3>1
    <3>2. CASE r # k
      <4>1. r \in 1 .. k - 1 /\ Len(acc) < MAX_GROUNDS
        BY <1>0, <1>5, <2>3, <2>6, <3>2
      <4>2. PICK g \in ToSet(acc) : g.key = provisions[P(r)].key
        BY <1>2, <2>6, <4>1
      <4>. QED  BY <2>2, <4>2
    <3>. QED  BY <3>1, <3>2
  <2>7. Len(new) <= MAX_GROUNDS
    <3>1. Len(acc) # MAX_GROUNDS
      BY <1>7
    <3>. QED  BY <1>0, <1>5, <2>3, <3>1
  <2>. QED  BY <1>4, <2>2, <2>5, <2>6, <2>7 DEF new
<1>. QED  BY <1>6, <1>7

LEMMA GroundsOfNotice ==
  ASSUME NEW provisions, NEW chunks, NEW facts, NEW merged, NEW n \in Nat, DOMAIN merged = 1 .. n,
         Len(merged) = n, \A r \in 1 .. n : HasUnitInForce(provisions, chunks[merged[r].id]),
         IsConsumerScope(facts)
  PROVE  AreGrounds(provisions, chunks, merged, n,
                    LegalGrounds(provisions, chunks, facts, merged))
<1>. DEFINE given == [provisions |-> provisions, chunks |-> chunks, merged |-> merged]
            ranks == [r \in DOMAIN merged |-> r]
            none  == <<>>
<1>1. Len(ranks) = n /\ DOMAIN ranks = 1 .. n /\ \A k \in 1 .. n : ranks[k] = k
  OBVIOUS
<1>2. LegalGrounds(provisions, chunks, facts, merged) = Grounding!Fold(given, none, ranks)
  BY GroundsAreFold
<1>3. /\ given.provisions = provisions /\ given.chunks = chunks /\ given.merged = merged
  OBVIOUS
<1>. HIDE DEF given, ranks
<1>4. PICK F : Grounding!IsFold(F, given, none, ranks)
  BY <1>1, Grounding!FoldHasSteps
<1>5. /\ F[0] = none /\ Grounding!Fold(given, none, ranks) = F[n]
      /\ \A k \in 1 .. n : F[k] = AddGround(provisions, chunks, F[k - 1], merged, k)
  BY <1>1, <1>3, <1>4 DEF Grounding!IsFold, GroundStep
<1>. DEFINE Holds(k) == /\ AreGrounds(provisions, chunks, merged, k, F[k])
                        /\ Len(F[k]) <= MAX_GROUNDS
            T == {k \in 0 .. n : Holds(k)}
<1>6. 0 \in T
  <2>1. none \in Seq({GroundOf(provisions, chunks, merged, r) : r \in DOMAIN merged})
        /\ ToSet(none) = {} /\ Len(none) = 0
    BY DEF ToSet
  <2>2. AreGrounds(provisions, chunks, merged, 0, none)
    BY <2>1 DEF AreGrounds
  <2>3. Len(none) <= MAX_GROUNDS
    BY <2>1, NoticeAssumption
  <2>. QED  BY <1>5, <2>2, <2>3
<1>7. ASSUME NEW k \in 1 .. n, k - 1 \in T PROVE k \in T
  <2>1. Holds(k - 1)
    BY <1>7
  <2>2. Holds(k)
    <3>. DEFINE new == AddGround(provisions, chunks, F[k - 1], merged, k)
    <3>1. AreGrounds(provisions, chunks, merged, k, new) /\ Len(new) <= MAX_GROUNDS
      BY <2>1, GroundAdded
    <3>. QED  BY <1>5, <3>1
  <2>. HIDE DEF Holds
  <2>. QED  BY <2>2
<1>8. Holds(n)
  <2>. HIDE DEF T
  <2>1. \A k \in 0 .. n : k \in T
    BY <1>6, <1>7, Parsing!RangeInduction
  <2>. HIDE DEF Holds
  <2>. QED  BY <2>1 DEF T
<1>. QED  BY <1>2, <1>5, <1>8

-----------------------------------------------------------------------------
(* The citations of a notice: where its evidence comes from. *)

LEMMA SourcesOfCase ==
  ASSUME NEW case \in Cases
  PROVE  LET files   == case.files
             sources == PageSources(files)
         IN /\ IsSeq(sources)
            /\ \A s \in ToSet(sources) :
                 /\ s.file \in DOMAIN files /\ files[s.file].accepted
                 /\ s.page \in DOMAIN files[s.file].pages
                 /\ s = [file |-> s.file, page |-> s.page]
<1>. DEFINE files   == case.files
            m       == Len(files)
            parts   == [f \in DOMAIN files |->
                          IF files[f].accepted
                          THEN [p \in DOMAIN files[f].pages |-> [file |-> f, page |-> p]]
                          ELSE <<>>]
            sources == PageSources(files)
<1>1. /\ m \in Nat /\ DOMAIN files = 1 .. m
      /\ \A f \in 1 .. m : files[f].accepted \in BOOLEAN /\ files[f].pages \in Seq(Seq(STRING))
  BY CasesAssumption
<1>2. sources = FlattenSeq(parts)
  BY DEF PageSources
<1>3. /\ parts = [f \in 1 .. m |-> parts[f]]
      /\ \A f \in 1 .. m :
           parts[f] = IF files[f].accepted
                      THEN [p \in DOMAIN files[f].pages |-> [file |-> f, page |-> p]] ELSE <<>>
  BY <1>1
<1>. HIDE DEF parts, m, files, sources
<1>4. ASSUME NEW f \in 1 .. m
      PROVE  /\ IsSeq(parts[f])
             /\ \A s \in ToSet(parts[f]) :
                  /\ s.file = f /\ files[f].accepted /\ s.page \in DOMAIN files[f].pages
                  /\ s = [file |-> s.file, page |-> s.page]
  <2>1. CASE files[f].accepted
    <3>. DEFINE n == Len(files[f].pages)
    <3>1. n \in Nat /\ DOMAIN files[f].pages = 1 .. n
      BY <1>1
    <3>2. parts[f] = [p \in 1 .. n |-> [file |-> f, page |-> p]]
      BY <1>3, <2>1, <3>1
    <3>. HIDE DEF n
    <3>3. parts[f] = [p \in 1 .. n |-> parts[f][p]]
      BY <3>2
    <3>4. IsSeq(parts[f]) /\ ToSet(parts[f]) = {parts[f][p] : p \in 1 .. n}
      BY <3>1, <3>3, IsSeqOfFunction
    <3>5. \A p \in 1 .. n : parts[f][p] = [file |-> f, page |-> p]
      BY <3>2
    <3>6. ASSUME NEW s \in ToSet(parts[f])
          PROVE  s.file = f /\ s.page \in 1 .. n /\ s = [file |-> s.file, page |-> s.page]
      <4>1. PICK p \in 1 .. n : s = [file |-> f, page |-> p]
        BY <3>4, <3>5
      <4>. QED  BY <4>1
    <3>. QED  BY <2>1, <3>1, <3>4, <3>6
  <2>2. CASE ~files[f].accepted
    <3>1. parts[f] = <<>>
      BY <1>3, <2>2
    <3>2. <<>> \in Seq({}) /\ ToSet(<<>>) = {}
      BY DEF ToSet
    <3>. QED  BY <3>1, <3>2 DEF IsSeq
  <2>. QED  BY <2>1, <2>2
<1>5. IsSeq(sources) /\ ToSet(sources) = UNION {ToSet(parts[f]) : f \in 1 .. m}
  <2>1. \A f \in 1 .. m : IsSeq(parts[f])
    BY <1>4
  <2>2. m \in Nat /\ parts = [f \in 1 .. m |-> parts[f]]
    BY <1>1, <1>3
  <2>. QED  BY <1>2, <2>1, <2>2, FlattenOfSeqs
<1>6. ASSUME NEW s \in ToSet(sources)
      PROVE  /\ s.file \in DOMAIN files /\ files[s.file].accepted
             /\ s.page \in DOMAIN files[s.file].pages
             /\ s = [file |-> s.file, page |-> s.page]
  <2>1. PICK f \in 1 .. m : s \in ToSet(parts[f])
    BY <1>5
  <2>. QED  BY <1>1, <1>4, <2>1
<1>. QED  BY <1>5, <1>6 DEF files, sources

\* The pages of the evidence, in order: the first parts of characters rise.
RisingPages(C) == {e \in C \X C : e[1][1] <= e[2][1]}

EvidencePages(files) ==
  LET d == CombinedEvidence(files) IN [n \in DOMAIN d.pages |-> PageText(d, n)]

EvidencePlaces(files) == (1 .. Len(PageSources(files))) \X Nat

LEMMA EvidenceIsPages ==
  ASSUME NEW case \in Cases
  PROVE  LET C == EvidencePlaces(case.files)
         IN ArePages(C, RisingPages(C), EvidencePages(case.files))
<1>. DEFINE files   == case.files
            sources == PageSources(files)
            m       == Len(sources)
            d       == CombinedEvidence(files)
            pages   == EvidencePages(files)
            C       == EvidencePlaces(files)
            R       == RisingPages(C)
<1>1. /\ IsSeq(sources)
      /\ \A s \in ToSet(sources) : s.file \in DOMAIN files /\ s.page \in DOMAIN files[s.file].pages
  BY SourcesOfCase
<1>2. m \in Nat /\ DOMAIN sources = 1 .. m
  BY <1>1, SeqFacts
<1>3. C = (1 .. m) \X Nat
  BY DEF EvidencePlaces
<1>4. /\ DOMAIN d.pages = 1 .. m
      /\ \A n \in 1 .. m : d.pages[n] = <<files[sources[n].file].heading, "/">>
                                          \o files[sources[n].file].pages[sources[n].page]
  BY <1>2 DEF CombinedEvidence
<1>5. pages = [n \in 1 .. m |-> PageText(d, n)]
  BY <1>4 DEF EvidencePages
<1>. HIDE DEF sources, m, d, pages, C, R
<1>6. ASSUME NEW n \in 1 .. m
      PROVE  \E k \in Nat : pages[n] = [i \in 1 .. k |-> <<n, i>>]
  <2>. DEFINE k == Len(d.pages[n])
  <2>1. k \in Nat
    <3>. DEFINE s == sources[n]
    <3>1. s \in ToSet(sources)
      BY <1>2 DEF ToSet
    <3>2. s.file \in DOMAIN files /\ s.page \in DOMAIN files[s.file].pages
      BY <1>1, <3>1
    <3>. HIDE DEF s
    <3>3. files[s.file].heading \in STRING /\ files[s.file].pages \in Seq(Seq(STRING))
      BY <3>2, CasesAssumption
    <3>4. files[s.file].pages[s.page] \in Seq(STRING)
      BY <3>2, <3>3
    <3>5. d.pages[n] = <<files[s.file].heading, "/">> \o files[s.file].pages[s.page]
      BY <1>4 DEF s
    <3>. DEFINE rest  == files[s.file].pages[s.page]
                slash == "/"
                head  == files[s.file].heading
                X     == ToSet(rest) \cup {head, slash}
    <3>6. d.pages[n] = <<head, slash>> \o rest
      BY <3>5
    <3>7. rest \in Seq(X)
      <4>1. IsSeq(rest) /\ ToSet(rest) \subseteq X
        BY <3>4, SeqIsSeq
      <4>. HIDE DEF X, rest
      <4>. QED  BY <4>1, SeqFacts
    <3>8. head \in X /\ slash \in X
      OBVIOUS
    <3>. HIDE DEF X, head, slash, rest
    <3>9. <<head, slash>> \in Seq(X)
      BY <3>8
    <3>10. d.pages[n] \in Seq(X)
      BY <3>6, <3>7, <3>9, ConcatProperties
    <3>. QED  BY <3>10
  <2>. HIDE DEF k
  <2>2. Size(SpanOf(n, 1, k)) = k /\ SpanOf(n, 1, k).page = n /\ SpanOf(n, 1, k).from = 1
    BY <2>1 DEF Size, SpanOf
  <2>3. PageText(d, n) = [i \in 1 .. k |-> <<n, 1 + i - 1>>]
    BY <2>2 DEF PageText, Characters, Page, k
  <2>4. \A i \in 1 .. k : 1 + i - 1 = i
    BY <2>1
  <2>5. pages[n] = [i \in 1 .. k |-> <<n, i>>]
    BY <1>5, <2>3, <2>4
  <2>. QED  BY <2>1, <2>5
<1>7. ASSUME NEW n \in 1 .. m
      PROVE  pages[n] \in Seq(C) /\ \A c \in ToSet(pages[n]) : c \in C /\ c[1] = n
  <2>1. PICK k \in Nat : pages[n] = [i \in 1 .. k |-> <<n, i>>]
    BY <1>6
  <2>2. \A i \in 1 .. k : <<n, i>> \in C
    BY <1>3
  <2>3. pages[n] = [i \in 1 .. k |-> pages[n][i]] /\ \A i \in 1 .. k : pages[n][i] = <<n, i>>
    BY <2>1
  <2>4. pages[n] \in Seq(C)
    <3>. DEFINE page == pages[n]
    <3>1. page = [i \in 1 .. k |-> page[i]] /\ \A i \in 1 .. k : page[i] \in C
      BY <2>2, <2>3
    <3>. HIDE DEF page
    <3>2. page \in Seq(C)
      BY <3>1, FunctionIsSeq
    <3>. QED  BY <3>2 DEF page
  <2>5. DOMAIN pages[n] = 1 .. k
    BY <2>1
  <2>. QED  BY <2>2, <2>3, <2>4, <2>5 DEF ToSet
<1>8. \A a, b \in C : a[1] <= b[1] => <<a, b>> \in R
  BY DEF R, RisingPages
<1>9. DOMAIN pages = 1 .. m
  BY <1>5
<1>10. pages \in Seq(Seq(C))
  <2>1. pages = [n \in 1 .. m |-> pages[n]]
    BY <1>5
  <2>. QED  BY <1>2, <1>7, <2>1, FunctionIsSeq
<1>11. ASSUME NEW n \in 1 .. m PROVE Sorted(R, pages[n])
  <2>1. \A i \in DOMAIN pages[n] : pages[n][i] \in C /\ pages[n][i][1] = n
    BY <1>7 DEF ToSet
  <2>2. n <= n
    BY <1>2
  <2>. QED  BY <1>8, <2>1, <2>2 DEF Sorted
<1>12. ASSUME NEW p \in 1 .. m, NEW q \in 1 .. m, p < q
       PROVE  ToSet(pages[p]) \X ToSet(pages[q]) \subseteq R
  <2>1. p <= q
    BY <1>2, <1>12
  <2>2. \A a \in ToSet(pages[p]), b \in ToSet(pages[q]) : <<a, b>> \in R
    BY <1>7, <1>8, <2>1
  <2>. QED  BY <2>2
<1>. QED  BY <1>9, <1>10, <1>11, <1>12 DEF ArePages, C, R, pages

\* A chunk of the evidence begins on the page that it names.
LEMMA ChunksOfEvidence ==
  ASSUME NEW case \in Cases
  PROVE  LET chunks  == EvidenceChunks(case.files)
             sources == PageSources(case.files)
         IN /\ IsSeq(chunks)
            /\ \A i \in DOMAIN chunks :
                 /\ IsSeq(chunks[i].text) /\ chunks[i].text # <<>>
                 /\ chunks[i].page_start = chunks[i].text[1][1]
                 /\ chunks[i].page_start \in DOMAIN sources
<1>. DEFINE files   == case.files
            d       == CombinedEvidence(files)
            pages   == EvidencePages(files)
            C       == EvidencePlaces(files)
            R       == RisingPages(C)
            m       == Len(PageSources(files))
            chunks  == EvidenceChunks(files)
<1>1. chunks = Chunk(d, pages)
  BY DEF EvidenceChunks, EvidencePages
<1>2. ArePages(C, R, pages)
  BY EvidenceIsPages
<1>3. C = (1 .. m) \X Nat
  BY DEF EvidencePlaces
<1>4. m \in Nat /\ DOMAIN PageSources(files) = 1 .. m
  BY SourcesOfCase, SeqFacts
<1>. HIDE DEF d, pages, C, R, m, chunks
<1>5. AreOfDocument(d, C, R, ParsOf(d, pages), chunks)
  BY <1>1, <1>2, ChunksInOrder
<1>6. IsSeq(chunks)
  BY <1>5, SeqIsSeq DEF AreOfDocument
<1>7. ASSUME NEW i \in DOMAIN chunks
      PROVE  /\ IsSeq(chunks[i].text) /\ chunks[i].text # <<>>
             /\ chunks[i].page_start = chunks[i].text[1][1]
             /\ chunks[i].page_start \in DOMAIN PageSources(files)
  <2>. DEFINE text == chunks[i].text
              first == text[1][1]
  <2>1. /\ chunks[i].page_start = Min(PagesOf(text)) /\ text \in Seq(C) /\ text # <<>>
        /\ Sorted(R, text)
    BY <1>5 DEF AreOfDocument, IsOfDocument
  <2>. HIDE DEF text
  <2>2. Len(text) \in Nat \ {0} /\ DOMAIN text = 1 .. Len(text)
        /\ \A j \in 1 .. Len(text) : text[j] \in C
    BY <2>1, EmptySeq
  <2>3. ASSUME NEW j \in 1 .. Len(text) PROVE first <= text[j][1]
    <3>1. CASE j = 1
      <4>1. text[1] \in C
        BY <2>2
      <4>. QED  BY <1>3, <1>4, <3>1, <4>1
    <3>2. CASE j # 1
      <4>1. 1 \in DOMAIN text /\ j \in DOMAIN text /\ 1 < j
        BY <2>2, <3>2
      <4>2. <<text[1], text[j]>> \in R
        BY <2>1, <4>1 DEF Sorted
      <4>. QED  BY <4>2 DEF R, RisingPages
    <3>. QED  BY <3>1, <3>2
  <2>4. text[1] \in C /\ first \in 1 .. m
    BY <1>3, <2>2
  <2>5. first \in PagesOf(text) /\ \A p \in PagesOf(text) : p \in 1 .. m /\ first <= p
    <3>1. \A c \in ToSet(text) : c[1] \in 1 .. m /\ first <= c[1]
      BY <1>3, <2>2, <2>3 DEF ToSet
    <3>2. text[1] \in ToSet(text)
      BY <2>2 DEF ToSet
    <3>. QED  BY <3>1, <3>2 DEF PagesOf
  <2>6. Min(PagesOf(text)) = first
    <3>. HIDE DEF first
    <3>1. \A p \in PagesOf(text) : (\A q \in PagesOf(text) : p <= q) => p = first
      BY <1>4, <2>5
    <3>. QED  BY <2>5, <3>1 DEF Min
  <2>. QED  BY <1>4, <2>1, <2>4, <2>6, SeqIsSeq DEF text
<1>. QED  BY <1>6, <1>7 DEF chunks

\* A citation is of an accepted file, and begins on the page that it names.
LEMMA CitationsOfNotice ==
  ASSUME NEW case \in Cases, NEW merged, NEW n \in Nat, Len(merged) = n,
         \A r \in 1 .. n : merged[r].id \in DOMAIN EvidenceChunks(case.files)
  PROVE  LET sources   == PageSources(case.files)
             citations == EvidenceReferences(sources, EvidenceChunks(case.files), merged)
         IN \A c \in ToSet(citations) :
              /\ case.files[c.file].accepted
              /\ sources[Head(c.quote)[1]] = [file |-> c.file, page |-> c.page]
<1>. DEFINE files     == case.files
            chunks    == EvidenceChunks(files)
            sources   == PageSources(files)
            citations == EvidenceReferences(sources, chunks, merged)
<1>1. /\ IsSeq(sources)
      /\ \A s \in ToSet(sources) : files[s.file].accepted /\ s = [file |-> s.file, page |-> s.page]
  BY SourcesOfCase
<1>2. \A i \in DOMAIN chunks :
        /\ IsSeq(chunks[i].text) /\ chunks[i].text # <<>>
        /\ chunks[i].page_start = chunks[i].text[1][1]
        /\ chunks[i].page_start \in DOMAIN sources
  BY ChunksOfEvidence
<1>0. \A r \in 1 .. n : merged[r].id \in DOMAIN chunks
  OBVIOUS
<1>. HIDE DEF sources, chunks, files
<1>3. MAX_GROUNDS \in Nat /\ CITATION_CHARS \in Nat \ {0}
  BY NoticeAssumption
<1>4. 1 .. Min({n, MAX_GROUNDS}) \subseteq 1 .. n
  <2>1. Min({n, MAX_GROUNDS}) = IF n <= MAX_GROUNDS THEN n ELSE MAX_GROUNDS
    BY <1>3, LesserOfTwo
  <2>. QED  BY <1>3, <2>1
<1>. DEFINE Citation(r) ==
              LET chunk == chunks[merged[r].id]
              IN [file |-> sources[chunk.page_start].file, page |-> sources[chunk.page_start].page,
                  quote |-> Take(chunk.text, CITATION_CHARS), chunk |-> merged[r].id]
<1>5. citations = [r \in 1 .. Min({n, MAX_GROUNDS}) |-> Citation(r)]
  BY DEF EvidenceReferences
<1>. HIDE DEF citations
<1>6. ASSUME NEW r \in 1 .. n
      PROVE  /\ files[Citation(r).file].accepted
             /\ sources[Head(Citation(r).quote)[1]] =
                  [file |-> Citation(r).file, page |-> Citation(r).page]
  <2>. DEFINE chunk == chunks[merged[r].id]
              quote == Take(chunk.text, CITATION_CHARS)
              s     == sources[chunk.page_start]
  <2>1. /\ IsSeq(chunk.text) /\ chunk.text # <<>> /\ chunk.page_start = chunk.text[1][1]
        /\ chunk.page_start \in DOMAIN sources
    BY <1>0, <1>2
  <2>2. /\ Citation(r).file = s.file /\ Citation(r).page = s.page /\ Citation(r).quote = quote
    OBVIOUS
  <2>. HIDE DEF chunk, Citation
  <2>3. s \in ToSet(sources)
    BY <2>1 DEF ToSet
  <2>4. Head(quote) = chunk.text[1]
    <3>. DEFINE X == ToSet(chunk.text)
    <3>1. chunk.text \in Seq(X) /\ Len(chunk.text) \in Nat \ {0}
      <4>1. chunk.text \in Seq(X)
        BY <2>1 DEF IsSeq
      <4>. QED  BY <2>1, <4>1, EmptySeq
    <3>. HIDE DEF X
    <3>2. /\ quote \in Seq(X)
          /\ Len(quote) = IF CITATION_CHARS <= Len(chunk.text) THEN CITATION_CHARS
                          ELSE Len(chunk.text)
          /\ \A i \in 1 .. Len(quote) : quote[i] = chunk.text[i]
      BY <1>3, <3>1, TakeCuts
    <3>. HIDE DEF quote
    <3>3. Len(quote) \in Nat \ {0}
      BY <1>3, <3>1, <3>2
    <3>4. Head(quote) = quote[1]
      BY <3>2, <3>3
    <3>. QED  BY <3>2, <3>3, <3>4
  <2>. HIDE DEF s, quote
  <2>5. sources[chunk.page_start] = s
    BY DEF s
  <2>. QED  BY <1>1, <2>1, <2>2, <2>3, <2>4, <2>5
<1>. HIDE DEF Citation
<1>7. \A c \in ToSet(citations) : \E r \in 1 .. n : c = Citation(r)
  BY <1>4, <1>5 DEF ToSet
<1>. QED  BY <1>6, <1>7 DEF files, sources, citations, chunks

-----------------------------------------------------------------------------
(* What was found for a notice, and what of it the audit marks. *)

LEMMA FoundIsResults ==
  ASSUME NEW n \in Nat, NEW scores, scores \subseteq LawScores \cup EvidenceScores,
         NEW traces \in TracesOf(n, scores)
  PROVE  AreTraces(traces, n)
<1>. DEFINE Results(score) == [results |-> Ranked(score, 1 .. n, K), error |-> FALSE]
<1>0. K \in Nat
  BY RetrievalAssumption
<1>1. ASSUME NEW a \in Scored(n, scores)
      PROVE  /\ AreResults(Results(a).results) /\ Len(Results(a).results) <= K
             /\ Ids(Results(a).results) \subseteq 1 .. n
  <2>1. PICK score \in scores : a = [i \in 1 .. n |-> IF i \in DOMAIN score THEN score[i] ELSE 0]
    BY DEF Scored
  <2>2. \A i \in DOMAIN score : score[i] \in Nat
    BY NoticeAssumption
  <2>3. a \in [1 .. n -> Nat]
    BY <2>1, <2>2
  <2>4. /\ AreResults(Ranked(a, 1 .. n, K)) /\ Len(Ranked(a, 1 .. n, K)) <= K
        /\ Ids(Ranked(a, 1 .. n, K)) \subseteq 1 .. n
    BY <1>0, <2>3, RankedIsResults
  <2>. QED  BY <2>4
<1>2. PICK a \in Scored(n, scores), b \in Scored(n, scores) : traces = <<Results(a), Results(b)>>
  BY DEF TracesOf
<1>. HIDE DEF Results
<1>3. DOMAIN traces = 1 .. 2 /\ traces[1] = Results(a) /\ traces[2] = Results(b)
  BY <1>2
<1>4. \A q \in 1 .. 2 : /\ AreResults(traces[q].results) /\ Len(traces[q].results) <= K
                        /\ Ids(traces[q].results) \subseteq 1 .. n
  <2>1. \A q \in 1 .. 2 : q = 1 \/ q = 2
    OBVIOUS
  <2>. QED  BY <1>1, <1>3, <2>1
<1>. QED  BY <1>3, <1>4 DEF AreTraces

LEMMA FoundIsMerged ==
  ASSUME NEW traces, NEW n, AreTraces(traces, n)
  PROVE  LET merged == MergeRetrievals(traces)
         IN /\ Len(merged) \in Nat /\ DOMAIN merged = 1 .. Len(merged)
            /\ \A r \in 1 .. Len(merged) : merged[r].id \in 1 .. n
<1>. DEFINE merged == MergeRetrievals(traces)
            items  == MergedItems(traces)
            size   == Cardinality(items)
<1>1. IsRanking(merged, items) /\ IdsOf(traces) \subseteq 1 .. n
  BY MergeIsRanking
<1>2. \A x \in items : x.id \in 1 .. n
  BY <1>1 DEF MergedItems, Item
<1>. HIDE DEF merged, items
<1>3. size \in Nat /\ merged \in [1 .. size -> items]
  BY <1>1 DEF IsRanking
<1>. HIDE DEF size
<1>4. merged = [r \in 1 .. size |-> merged[r]] /\ \A r \in 1 .. size : merged[r] \in items
  BY <1>3
<1>5. Len(merged) = size
  BY <1>3, <1>4, FunctionIsSeq
<1>6. DOMAIN merged = 1 .. size
  BY <1>3
<1>. QED  BY <1>2, <1>3, <1>4, <1>5, <1>6 DEF merged

LEMMA CitedIsMarked ==
  ASSUME NEW traces, NEW n, AreTraces(traces, n), NEW merged, NEW cited
  PROVE  MarksAre(traces, ComposerSelection(traces, merged, cited), cited)
<1>. DEFINE places  == [i \in DOMAIN cited |-> cited[i].chunk]
            context == [included |-> places]
            marks   == ComposerSelection(traces, merged, cited)
<1>1. marks = AnnotateSelection(traces, merged, context) /\ context.included = places
  BY DEF ComposerSelection
<1>2. \A id : id \in ToSet(places) <=> \E c \in ToSet(cited) : c.chunk = id
  BY DEF ToSet
<1>. HIDE DEF places, context, marks
<1>3. ASSUME NEW id \in IdsOf(traces)
      PROVE  LET marked == MarkedPlaces(traces, marks, id)
             IN /\ Cardinality(marked) = IF \E c \in ToSet(cited) : c.chunk = id THEN 1 ELSE 0
                /\ \A pl \in marked, o \in Places(traces, id) :
                     ScoreAt(traces, pl) >= ScoreAt(traces, o)
  <2>. DEFINE marked == MarkedPlaces(traces, marks, id)
  <2>1. marked = {o \in Places(traces, id) : marks[o[1]][o[2]]}
    BY DEF MarkedPlaces
  <2>2. CASE id \in ToSet(places)
    <3>1. PICK pl \in Places(traces, id) :
            /\ ScoreAt(traces, pl) = BestOf(traces, id)
            /\ {o \in Places(traces, id) : marks[o[1]][o[2]]} = {pl}
      <4>1. id \in ToSet(context.included)
        BY <1>1, <2>2
      <4>. QED  BY <1>1, <4>1, OneWins
    <3>2. marked = {pl}
      BY <2>1, <3>1
    <3>3. Cardinality(marked) = 1
      BY <3>2, FS_Singleton
    <3>4. \A o \in Places(traces, id) :
            /\ ScoreAt(traces, o) \in Nat /\ ScoreAt(traces, o) <= BestOf(traces, id)
      BY PlacesOfChunk DEF BestOf
    <3>5. \A o \in Places(traces, id) : ScoreAt(traces, pl) >= ScoreAt(traces, o)
      BY <3>1, <3>4
    <3>6. \E c \in ToSet(cited) : c.chunk = id
      BY <1>2, <2>2
    <3>7. \A p \in marked, o \in Places(traces, id) : ScoreAt(traces, p) >= ScoreAt(traces, o)
      BY <3>2, <3>5
    <3>. QED  BY <3>3, <3>6, <3>7
  <2>3. CASE id \notin ToSet(places)
    <3>1. {o \in Places(traces, id) : marks[o[1]][o[2]]} = {}
      <4>1. id \notin ToSet(context.included)
        BY <1>1, <2>3
      <4>. QED  BY <1>1, <4>1, NoneWins
    <3>2. marked = {}
      BY <2>1, <3>1
    <3>3. Cardinality(marked) = 0
      BY <3>2, FS_EmptySet
    <3>4. ~\E c \in ToSet(cited) : c.chunk = id
      BY <1>2, <2>3
    <3>. QED  BY <3>2, <3>3, <3>4
  <2>. QED  BY <2>2, <2>3
<1>. QED  BY <1>3 DEF MarksAre, IdsOf, marks

-----------------------------------------------------------------------------
(* What is known of a notice on its way. *)

DraftShape ==
  draft = [case |-> draft.case, at |-> draft.at, chunks |-> draft.chunks, law |-> draft.law,
           evidence |-> draft.evidence, grounds |-> draft.grounds,
           citations |-> draft.citations, marks |-> draft.marks,
           settlement |-> draft.settlement]

\* The facts were accepted before, and the settlement is of these facts.
NoticeInv ==
  /\ DraftShape
  /\ draft.case \in Cases /\ AcceptsFacts(draft.case.files, draft.case.facts)
  /\ draft.at = "drafted" =>
       /\ IsPriceable(draft.case.facts)
       /\ draft.settlement = Settlement(draft.case.files, draft.case.facts)

LEMMA NoticeInitOK == DraftInit => NoticeInv
BY DEF DraftInit, NoticeInv, DraftShape

LEMMA NoticeNextOK == NoticeInv /\ NoticeNext => NoticeInv'
<1>. SUFFICES ASSUME NoticeInv, NoticeNext PROVE NoticeInv'
  OBVIOUS
<1>. USE DEF NoticeInv, DraftShape
<1>1. CASE IndexEvidence
  <2>1. PICK chunks : draft' = [draft EXCEPT !.at = IF chunks = <<>> THEN "failed"
                                                    ELSE "indexed", !.chunks = chunks]
    BY <1>1 DEF IndexEvidence
  <2>. QED  BY <2>1
<1>2. CASE RetrieveLaw
  <2>1. PICK traces : draft' = [draft EXCEPT !.at = "law", !.law = traces]
    BY <1>2 DEF RetrieveLaw
  <2>. QED  BY <2>1
<1>3. CASE RetrieveEvidence
  <2>1. PICK traces : draft' = [draft EXCEPT !.at = "evidence", !.evidence = traces]
    BY <1>3 DEF RetrieveEvidence
  <2>. QED  BY <2>1
<1>4. CASE NoticeFails
  BY <1>4 DEF NoticeFails
<1>5. CASE DraftNotice
  <2>1. PICK grounds, citations, marks :
          draft' = IF grounds = <<>> \/ citations = <<>> \/ ~IsPriceable(draft.case.facts)
                   THEN [draft EXCEPT !.at = "failed"]
                   ELSE [draft EXCEPT
                           !.at = "drafted", !.grounds = grounds, !.citations = citations,
                           !.marks = marks,
                           !.settlement = Settlement(draft.case.files, draft.case.facts)]
    BY <1>5 DEF DraftNotice
  <2>2. CASE draft' = [draft EXCEPT !.at = "failed"]
    BY <2>2
  <2>3. CASE /\ IsPriceable(draft.case.facts)
             /\ draft' = [draft EXCEPT
                            !.at = "drafted", !.grounds = grounds, !.citations = citations,
                            !.marks = marks,
                            !.settlement = Settlement(draft.case.files, draft.case.facts)]
    <3>. DEFINE s == Settlement(draft.case.files, draft.case.facts)
    <3>. HIDE DEF s
    <3>1. draft' = [draft EXCEPT
                      !.at = "drafted", !.grounds = grounds, !.citations = citations,
                      !.marks = marks, !.settlement = s]
      BY <2>3 DEF s
    <3>2. /\ DraftShape' /\ draft'.case = draft.case /\ draft'.at = "drafted"
          /\ draft'.settlement = s
      BY <3>1
    <3>. QED  BY <2>3, <3>2 DEF s
  <2>. QED  BY <2>1, <2>2, <2>3
<1>. QED  BY <1>1, <1>2, <1>3, <1>4, <1>5 DEF NoticeNext

-----------------------------------------------------------------------------
(* What a notice is made of. *)

\* What was found is of the law and of the evidence as they are, and what the
\* notice cites is what the composer takes from it.
SourcesInv ==
  /\ IsConsumerScope(draft.case.facts)
  /\ draft.at \in {"indexed", "law", "evidence", "drafted"} =>
       corpus.at = "indexed" /\ draft.chunks = EvidenceChunks(draft.case.files)
  /\ draft.at \in {"law", "evidence", "drafted"} => AreTraces(draft.law, Len(corpus.chunks))
  /\ draft.at \in {"evidence", "drafted"} => AreTraces(draft.evidence, Len(draft.chunks))
  /\ draft.at = "drafted" =>
       LET files    == draft.case.files
           statutes == MergeRetrievals(draft.law)
           found    == MergeRetrievals(draft.evidence)
       IN /\ draft.grounds =
               LegalGrounds(corpus.provisions, corpus.chunks, draft.case.facts, statutes)
          /\ draft.citations = EvidenceReferences(PageSources(files), draft.chunks, found)
          /\ draft.marks[1] = ComposerSelection(draft.law, statutes, draft.grounds)
          /\ draft.marks[2] = ComposerSelection(draft.evidence, found, draft.citations)

LEMMA SourcesInitOK == DraftInit => SourcesInv
BY DEF DraftInit, SourcesInv

LEMMA SourcesStepOK ==
  ASSUME NoticeInv, CorpusInv, SourcesInv, NoticeNext, corpus' = corpus
  PROVE  SourcesInv'
<1>0. DraftShape /\ draft.case \in Cases
  BY DEF NoticeInv
<1>1. CASE IndexEvidence
  <2>. DEFINE chunks == EvidenceChunks(draft.case.files)
  <2>1. /\ corpus.at = "indexed"
        /\ draft' = [draft EXCEPT !.at = IF chunks = <<>> THEN "failed" ELSE "indexed",
                                  !.chunks = chunks]
    BY <1>1 DEF IndexEvidence
  <2>. HIDE DEF chunks
  <2>2. /\ draft'.case = draft.case /\ draft'.chunks = chunks
        /\ draft'.at = IF chunks = <<>> THEN "failed" ELSE "indexed"
    BY <1>0, <2>1 DEF DraftShape
  <2>3. draft'.at \in {"failed", "indexed"}
    BY <2>2
  <2>. QED  BY <2>1, <2>2, <2>3 DEF SourcesInv, chunks
<1>2. CASE RetrieveLaw
  <2>1. PICK traces \in TracesOf(Len(corpus.chunks), LawScores) :
          draft' = [draft EXCEPT !.at = "law", !.law = traces]
    BY <1>2 DEF RetrieveLaw
  <2>2. draft.at = "indexed" /\ corpus.at = "indexed"
    BY <1>2 DEF RetrieveLaw, SourcesInv
  <2>3. Len(corpus.chunks) \in Nat
    BY <2>2, SeqFacts DEF CorpusInv, AreChunksOfLaw
  <2>4. AreTraces(traces, Len(corpus.chunks))
    BY <2>3, FoundIsResults
  <2>5. /\ draft'.case = draft.case /\ draft'.chunks = draft.chunks /\ draft'.at = "law"
        /\ draft'.law = traces
    BY <1>0, <2>1 DEF DraftShape
  <2>. QED  BY <2>2, <2>4, <2>5 DEF SourcesInv
<1>3. CASE RetrieveEvidence
  <2>1. PICK traces \in TracesOf(Len(draft.chunks), EvidenceScores) :
          draft' = [draft EXCEPT !.at = "evidence", !.evidence = traces]
    BY <1>3 DEF RetrieveEvidence
  <2>2. draft.at = "law" /\ draft.chunks = EvidenceChunks(draft.case.files)
    BY <1>3 DEF RetrieveEvidence, SourcesInv
  <2>3. Len(draft.chunks) \in Nat
    <3>1. IsSeq(EvidenceChunks(draft.case.files))
      BY <1>0, ChunksOfEvidence
    <3>. QED  BY <2>2, <3>1, SeqFacts
  <2>4. AreTraces(traces, Len(draft.chunks))
    BY <2>3, FoundIsResults
  <2>5. /\ draft'.case = draft.case /\ draft'.chunks = draft.chunks /\ draft'.at = "evidence"
        /\ draft'.law = draft.law /\ draft'.evidence = traces
    BY <1>0, <2>1 DEF DraftShape
  <2>. QED  BY <2>2, <2>4, <2>5 DEF SourcesInv
<1>4. CASE NoticeFails
  <2>1. draft'.case = draft.case /\ draft'.at = "failed"
    BY <1>0, <1>4 DEF NoticeFails, DraftShape
  <2>. QED  BY <2>1 DEF SourcesInv
<1>5. CASE DraftNotice
  <2>. DEFINE files     == draft.case.files
              facts     == draft.case.facts
              statutes  == MergeRetrievals(draft.law)
              found     == MergeRetrievals(draft.evidence)
              grounds   == LegalGrounds(corpus.provisions, corpus.chunks, facts, statutes)
              citations == EvidenceReferences(PageSources(files), draft.chunks, found)
              first     == ComposerSelection(draft.law, statutes, grounds)
              second    == ComposerSelection(draft.evidence, found, citations)
              price     == Settlement(files, facts)
              marks     == <<first, second>>
  <2>1. /\ draft.at = "evidence"
        /\ \/ draft' = [draft EXCEPT !.at = "failed"]
           \/ draft' = [draft EXCEPT !.at = "drafted", !.grounds = grounds,
                                     !.citations = citations, !.marks = marks,
                                     !.settlement = price]
    BY <1>5 DEF DraftNotice
  <2>2. marks[1] = first /\ marks[2] = second
    OBVIOUS
  <2>. HIDE DEF grounds, citations, first, second, price, marks
  <2>3. CASE draft' = [draft EXCEPT !.at = "failed"]
    <3>1. draft'.case = draft.case /\ draft'.at = "failed"
      BY <1>0, <2>3 DEF DraftShape
    <3>. QED  BY <3>1 DEF SourcesInv
  <2>4. CASE draft' = [draft EXCEPT !.at = "drafted", !.grounds = grounds,
                                    !.citations = citations, !.marks = marks,
                                    !.settlement = price]
    <3>1. /\ draft'.case = draft.case /\ draft'.chunks = draft.chunks /\ draft'.at = "drafted"
          /\ draft'.law = draft.law /\ draft'.evidence = draft.evidence
          /\ draft'.grounds = grounds /\ draft'.citations = citations /\ draft'.marks = marks
      BY <1>0, <2>4 DEF DraftShape
    <3>2. /\ corpus.at = "indexed" /\ draft.chunks = EvidenceChunks(files)
          /\ AreTraces(draft.law, Len(corpus.chunks))
          /\ AreTraces(draft.evidence, Len(draft.chunks))
          /\ IsConsumerScope(facts)
      BY <2>1 DEF SourcesInv
    <3>. QED  BY <2>2, <3>1, <3>2 DEF SourcesInv, grounds, citations, first, second
  <2>. QED  BY <2>1, <2>3, <2>4
<1>. QED  BY <1>1, <1>2, <1>3, <1>4, <1>5 DEF NoticeNext

LEMMA SourcesAreCited == NoticeInv /\ CorpusInv /\ SourcesInv => NoticeCitesItsSources
<1>. SUFFICES ASSUME NoticeInv, CorpusInv, SourcesInv, draft.at = "drafted"
              PROVE  NoticeCitesItsSources
  BY DEF NoticeCitesItsSources
<1>. DEFINE provisions == corpus.provisions
            chunks     == corpus.chunks
            merged     == MergeRetrievals(draft.law)
            found      == MergeRetrievals(draft.evidence)
            sources    == PageSources(draft.case.files)
            inforce(id) == provisions[chunks[id].page].status = "active"
            n          == Len(merged)
<1>1. /\ corpus.at = "indexed" /\ draft.chunks = EvidenceChunks(draft.case.files)
      /\ AreTraces(draft.law, Len(chunks)) /\ AreTraces(draft.evidence, Len(draft.chunks))
      /\ IsConsumerScope(draft.case.facts) /\ draft.case \in Cases
      /\ draft.grounds = LegalGrounds(provisions, chunks, draft.case.facts, merged)
      /\ draft.citations = EvidenceReferences(sources, draft.chunks, found)
      /\ draft.marks[1] = ComposerSelection(draft.law, merged, draft.grounds)
      /\ draft.marks[2] = ComposerSelection(draft.evidence, found, draft.citations)
  BY DEF SourcesInv, NoticeInv
<1>2. /\ AreProvisions(corpus.page, provisions) /\ IsCorpus(provisions)
      /\ AreChunksOfLaw(provisions, chunks)
  BY <1>1 DEF CorpusInv
<1>3. n \in Nat /\ DOMAIN merged = 1 .. n /\ \A r \in 1 .. n : merged[r].id \in 1 .. Len(chunks)
  BY <1>1, FoundIsMerged
<1>4. DOMAIN chunks = 1 .. Len(chunks)
  BY <1>2, SeqFacts DEF AreChunksOfLaw
<1>5. \A i \in 1 .. Len(chunks) : HasUnitInForce(provisions, chunks[i])
  BY <1>2, <1>4, UnitOfChunk DEF AreChunksOfLaw, HasUnitInForce
<1>. HIDE DEF merged, found, sources, n
<1>6. AreGrounds(provisions, chunks, merged, n, draft.grounds)
  <2>1. \A r \in 1 .. n : HasUnitInForce(provisions, chunks[merged[r].id])
    BY <1>3, <1>5
  <2>2. Len(merged) = n
    BY DEF n
  <2>. QED  BY <1>1, <1>3, <2>1, <2>2, GroundsOfNotice
<1>7. ASSUME NEW g \in ToSet(draft.grounds)
      PROVE  LET chunk == chunks[g.chunk]
             IN /\ inforce(g.chunk) /\ provisions[chunk.page].key = g.key
                /\ merged[g.rank].id = g.chunk
                /\ IF g.unit = <<>> THEN chunk.unit = <<>>
                   ELSE g.unit[1].id = chunk.unit /\ g.unit[1].status = "active"
                /\ \A r \in 1 .. g.rank - 1 : chunks[merged[r].id].page # chunk.page
  <2>. DEFINE rank == g.rank
  <2>1. /\ rank \in 1 .. n /\ g = GroundOf(provisions, chunks, merged, rank)
        /\ provisions[LawPage(chunks, merged, rank)].status = "active"
        /\ \A r \in 1 .. rank - 1 : LawPage(chunks, merged, r) # LawPage(chunks, merged, rank)
    BY <1>6 DEF AreGrounds
  <2>2. /\ g.chunk = merged[rank].id /\ g.key = provisions[LawPage(chunks, merged, rank)].key
        /\ g.unit = UnitForChunk(provisions, chunks[merged[rank].id])
    <3>. HIDE DEF rank
    <3>. QED  BY <2>1 DEF GroundOf
  <2>3. HasUnitInForce(provisions, chunks[merged[rank].id])
    BY <1>3, <1>5, <2>1
  <2>. HIDE DEF rank
  <2>4. IF g.unit = <<>> THEN chunks[g.chunk].unit = <<>>
        ELSE g.unit[1].id = chunks[g.chunk].unit /\ g.unit[1].status = "active"
    BY <2>2, <2>3 DEF HasUnitInForce
  <2>. QED  BY <2>1, <2>2, <2>4 DEF LawPage, rank
<1>8. ASSUME NEW r \in DOMAIN merged, inforce(merged[r].id), Len(draft.grounds) < MAX_GROUNDS
      PROVE  \E g \in ToSet(draft.grounds) : g.key = provisions[chunks[merged[r].id].page].key
  BY <1>3, <1>6, <1>8 DEF AreGrounds, LawPage
<1>9. ASSUME NEW c \in ToSet(draft.citations)
      PROVE  /\ draft.case.files[c.file].accepted
             /\ sources[Head(c.quote)[1]] = [file |-> c.file, page |-> c.page]
  <2>1. /\ Len(found) \in Nat
        /\ \A r \in 1 .. Len(found) : found[r].id \in 1 .. Len(draft.chunks)
    BY <1>1, FoundIsMerged DEF found
  <2>2. DOMAIN draft.chunks = 1 .. Len(draft.chunks)
    <3>1. IsSeq(draft.chunks)
      BY <1>1, ChunksOfEvidence
    <3>. QED  BY <3>1, SeqFacts
  <2>3. \A r \in 1 .. Len(found) : found[r].id \in DOMAIN EvidenceChunks(draft.case.files)
    BY <1>1, <2>1, <2>2
  <2>4. c \in ToSet(EvidenceReferences(sources, EvidenceChunks(draft.case.files), found))
    BY <1>1
  <2>. QED  BY <1>1, <2>1, <2>3, <2>4, CitationsOfNotice DEF sources
<1>10. /\ MarksAre(draft.law, draft.marks[1], draft.grounds)
       /\ MarksAre(draft.evidence, draft.marks[2], draft.citations)
  BY <1>1, CitedIsMarked
<1>. QED  BY <1>7, <1>8, <1>9, <1>10 DEF NoticeCitesItsSources, merged, sources

NoticePart == IF part = "notice" THEN NoticeInv /\ SourcesInv ELSE NoNotice

LEMMA NoticePartOK == ServiceSpec => []NoticePart
<1>1. ServiceInit => NoticePart
  BY NoticeInitOK, SourcesInitOK DEF ServiceInit, NoticePart
<1>2. CorpusPart /\ NoticePart /\ [ServiceNext]_service => NoticePart'
  <2>. SUFFICES ASSUME CorpusPart, NoticePart, [ServiceNext]_service PROVE NoticePart'
    OBVIOUS
  <2>1. part' = part
    BY DEF ServiceNext, service
  <2>2. \/ part = "notice" /\ NoticeNext /\ corpus' = corpus
        \/ draft' = draft /\ part \in {"law", "notice"} /\ (LoadCorpus \/ IndexCorpus)
        \/ draft' = draft /\ corpus' = corpus
    BY DEF ServiceNext, service, notice
  <2>3. CASE part = "notice" /\ NoticeNext /\ corpus' = corpus
    <3>1. CorpusInv /\ NoticeInv /\ SourcesInv
      BY <2>3 DEF CorpusPart, NoticePart
    <3>. QED  BY <2>1, <2>3, <3>1, NoticeNextOK, SourcesStepOK DEF NoticePart
  <2>4. CASE draft' = draft /\ part \in {"law", "notice"} /\ (LoadCorpus \/ IndexCorpus)
    <3>1. corpus.at # "indexed"
      BY <2>4 DEF LoadCorpus, IndexCorpus
    <3>2. NoticeInv => NoticeInv'
      BY <2>4 DEF NoticeInv, DraftShape
    <3>3. SourcesInv => SourcesInv'
      BY <2>4, <3>1 DEF SourcesInv
    <3>. QED  BY <2>1, <2>4, <3>2, <3>3 DEF NoticePart, NoNotice
  <2>5. CASE draft' = draft /\ corpus' = corpus
    BY <2>1, <2>5 DEF NoticePart, NoNotice, NoticeInv, DraftShape, SourcesInv
  <2>. QED  BY <2>2, <2>3, <2>4, <2>5
<1>. QED  BY <1>1, <1>2, CorpusPartOK, PTL DEF ServiceSpec

\* A notice that was drafted stands on law in force and on the evidence of the
\* case (_legal_grounds, _evidence_references, _annotate_composer_selection):
\* each ground is a provision that was found, once, by its best chunk, with
\* the unit of that chunk; each citation is of an accepted file and begins on
\* the page that it names; and the audit marks these chunks where they scored
\* best, and no others: for any law, files and scores.
THEOREM NoticeIsFounded == ServiceSpec => []NoticeCitesItsSources
<1>1. CorpusPart /\ NoticePart => NoticeCitesItsSources
  <2>. SUFFICES ASSUME CorpusPart, NoticePart, draft.at = "drafted" PROVE NoticeCitesItsSources
    BY DEF NoticeCitesItsSources
  <2>1. part = "notice"
    BY DEF NoticePart, NoNotice
  <2>. QED  BY <2>1, SourcesAreCited DEF NoticePart, CorpusPart
<1>. QED  BY <1>1, CorpusPartOK, NoticePartOK, PTL

\* Of a notice that was drafted, the proposal is supported by its components,
\* each of them with one source: an accepted file with that amount, or a fact
\* that was confirmed; and the reserve, the proposal and the illustrative
\* values are in order (SettlementCalculator.calculate): for any amounts.
THEOREM SettlementIsSound == ServiceSpec => []ProposalIsSupported
<1>1. NoticePart => ProposalIsSupported
  <2>. SUFFICES ASSUME NoticePart, draft.at = "drafted" PROVE ProposalIsSupported
    BY DEF ProposalIsSupported
  <2>1. NoticeInv
    BY DEF NoticePart, NoNotice
  <2>2. IsSupported(draft.case.files, draft.case.facts, draft.settlement)
    BY <2>1, SettlementIsSupported DEF NoticeInv
  <2>. QED  BY <2>2 DEF ProposalIsSupported, IsSupported, PublicSum
<1>. QED  BY <1>1, NoticePartOK, PTL
=============================================================================
