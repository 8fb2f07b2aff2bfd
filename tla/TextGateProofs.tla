--------------------------- MODULE TextGateProofs ---------------------------
(***************************************************************************)
(* Proofs about the gate that reads a document (InjectionGate): what its   *)
(* rules find stays found, a strict scan reads all of a document, and a    *)
(* balanced review what made a sentence suspicious.                        *)
(***************************************************************************)
EXTENDS TextFileProofs

-----------------------------------------------------------------------------
(* The injection gate. *)

GatePlaces == {"rules", "choose", "review", "assessed"}

\* A finding of the reviewer is known by what it says.
IsFinding(f) ==
  /\ f.severity \in NONE .. CRITICAL /\ f.source \in {"rule", "semantic"}
  /\ f.source = "semantic" => f = FindingAt(f, None, f.category, f.severity, "semantic")

\* The quote of a finding is not empty, begins with text and is on its page; only
\* a strong one may go on over the break.
IsQuoteOf(d, f) ==
  /\ f.page \in DOMAIN d.pages /\ f.from \in Nat \ {0} /\ f.to \in Nat /\ f.from <= f.to
  /\ f.severity < HIGH => f.to <= Len(Page(d, f.page)) /\ Page(d, f.page)[f.from] # "/"

\* Every finding of one set is in the other, under its key and as strong.
CoveredBy(found, findings) ==
  \A f \in found : \E g \in findings : Key(g) = Key(f) /\ g.severity >= f.severity

GateTypeOK ==
  /\ doc \in Documents /\ mode \in {"rules", "balanced", "strict"}
  /\ gate = [at |-> gate.at, findings |-> gate.findings, batches |-> gate.batches,
             read |-> gate.read, complete |-> gate.complete, reviewed |-> gate.reviewed]
  /\ gate.at \in GatePlaces /\ gate.complete \in BOOLEAN /\ gate.reviewed \in BOOLEAN
  /\ IsFiniteSet(gate.findings)
  /\ \A f \in gate.findings : IsFinding(f) /\ IsQuoteOf(doc, f)

\* Nothing that the rules found is lost on the way.
RulesAreKept ==
  /\ gate.at # "assessed" => gate.complete
  /\ gate.at # "rules" /\ gate.complete => CoveredBy(RuleFindings(doc), gate.findings)

\* What the reviewer adds was in a passage that it has read.
AddedWasRead ==
  \A f \in gate.findings :
    f.source = "semantic" => f.severity <= HIGH /\ \E span \in gate.read : InSpan(f, span)

GateInv == GateTypeOK /\ RulesAreKept /\ AddedWasRead

LEMMA MaxOfSeverities ==
  ASSUME NEW S, S \subseteq NONE .. CRITICAL, S # {}
  PROVE  Max(S) \in S /\ Max(S) \in NONE .. CRITICAL /\ \A i \in S : i <= Max(S)
<1>1. 4 \in Nat /\ S \subseteq 0 .. 4
  BY DEF NONE, CRITICAL
<1>2. Max(S) \in S /\ \A i \in S : i <= Max(S)
  BY <1>1, Parsing!MaxOfNumbers DEF Max, Parsing!Max
<1>. QED  BY <1>2

\* Whatever is there twice, the strongest of a key is kept.
LEMMA DeduplicateKeeps ==
  ASSUME NEW findings, \A f \in findings : IsFinding(f)
  PROVE  /\ CoveredBy(findings, DeduplicateFindings(findings))
         /\ DeduplicateFindings(findings) \subseteq findings
<1>1. ASSUME NEW f \in findings
      PROVE  \E g \in DeduplicateFindings(findings) : Key(g) = Key(f) /\ g.severity >= f.severity
  <2>. DEFINE same       == {g \in findings : Key(g) = Key(f)}
              severities == {g.severity : g \in same}
              m          == Max(severities)
  <2>1. severities \subseteq NONE .. CRITICAL /\ f.severity \in severities
    BY DEF IsFinding
  <2>2. m \in severities /\ m \in NONE .. CRITICAL /\ \A i \in severities : i <= m
    BY <2>1, MaxOfSeverities
  <2>. HIDE DEF m
  <2>3. PICK h \in same : h.severity = m
    BY <2>2
  <2>4. \A g \in same : g.severity \in NONE .. CRITICAL /\ g.severity <= m
    BY <2>2 DEF IsFinding
  <2>5. m >= f.severity
    BY <2>1, <2>2 DEF NONE, CRITICAL
  <2>6. CASE \E g \in same : g.severity = m /\ g.source = "rule"
    <3>1. PICK g \in same : g.severity = m /\ g.source = "rule"
      BY <2>6
    <3>2. \A k \in findings \ {g} : Key(k) = Key(g) => k.severity < m \/ k.severity = m
      BY <2>2, <2>4 DEF NONE, CRITICAL
    <3>3. g \in DeduplicateFindings(findings)
      BY <3>1, <3>2 DEF DeduplicateFindings
    <3>. QED  BY <2>5, <3>1, <3>3
  <2>7. CASE \A g \in same : g.severity = m => g.source # "rule"
    <3>1. ASSUME NEW k \in findings \ {h}, Key(k) = Key(h) PROVE k.severity < h.severity
      <4>1. k \in same
        BY <3>1
      <4>2. SUFFICES ASSUME k.severity = m PROVE FALSE
        BY <2>2, <2>3, <2>4, <4>1 DEF NONE, CRITICAL
      <4>3. k.source = "semantic" /\ h.source = "semantic"
        BY <2>3, <2>7, <4>1, <4>2 DEF IsFinding
      <4>4. k.page = h.page /\ k.from = h.from /\ k.to = h.to /\ k.category = h.category
        BY <3>1 DEF Key
      <4>5. k = h
        BY <2>3, <4>2, <4>3, <4>4 DEF IsFinding, FindingAt
      <4>. QED  BY <4>5
    <3>2. h \in DeduplicateFindings(findings)
      BY <3>1 DEF DeduplicateFindings
    <3>. QED  BY <2>3, <2>5, <3>2
  <2>. QED  BY <2>6, <2>7
<1>. QED  BY <1>1 DEF CoveredBy, DeduplicateFindings

LEMMA LesserOfTwo ==
  ASSUME NEW a \in Int, NEW b \in Int
  PROVE  Min({a, b}) = IF a <= b THEN a ELSE b
<1>. DEFINE m == IF a <= b THEN a ELSE b
<1>1. m \in {a, b} /\ \A y \in {a, b} : m <= y
  OBVIOUS
<1>2. \A x \in {a, b} : (\A y \in {a, b} : x <= y) => x = m
  OBVIOUS
<1>. HIDE DEF m
<1>3. Min({a, b}) = m
  BY <1>1, <1>2 DEF Min
<1>. QED  BY <1>3 DEF m

LEMMA StretchFacts ==
  ASSUME NEW text \in Seq({"a", "A", ".", "/"}), NEW k \in 1 .. Len(text), NEW stop
  PROVE  LET s == Stretch(text, k, stop)
         IN /\ s.from \in 1 .. k /\ s.to \in k - 1 .. Len(text)
            /\ text[k] # stop => s.to >= k /\ text[s.from] # stop
<1>. DEFINE n     == Len(text)
            stops == {0} \cup {i \in 1 .. k : text[i] = stop /\ i < k}
            after == {n + 1} \cup {i \in k .. n : text[i] = stop}
            from  == Max(stops)
            to    == Min(after)
<1>1. n \in Nat /\ k \in 1 .. n
  OBVIOUS
<1>2. from \in stops /\ \A i \in stops : i <= from
  <2>1. stops \subseteq 0 .. k /\ stops # {} /\ k \in Nat
    OBVIOUS
  <2>. HIDE DEF stops
  <2>. QED  BY <2>1, Parsing!MaxOfNumbers DEF Max, Parsing!Max
<1>3. to \in after
  <2>1. after \subseteq Nat /\ after # {}
    BY <1>1
  <2>. HIDE DEF after
  <2>2. PICK m \in after : \A i \in after : m <= i
    BY <2>1, Parsing!LeastNumber
  <2>. QED  BY <2>2 DEF Min
<1>4. /\ Stretch(text, k, stop).from = from + 1 /\ Stretch(text, k, stop).to = to - 1
  BY DEF Stretch
<1>. HIDE DEF from, to
<1>5. from \in 0 .. k - 1
  BY <1>1, <1>2
<1>6. to \in k .. n + 1 /\ (text[k] # stop => to > k)
  BY <1>1, <1>3
<1>7. ASSUME text[k] # stop PROVE text[from + 1] # stop
  <2>1. CASE from + 1 = k
    BY <1>7, <2>1
  <2>2. CASE from + 1 # k
    <3>1. from + 1 \in 1 .. k /\ from + 1 < k /\ ~(from + 1 <= from)
      BY <1>1, <1>5, <2>2
    <3>2. from + 1 \notin stops
      BY <1>2, <3>1
    <3>. QED  BY <3>1, <3>2
  <2>. QED  BY <2>1, <2>2
<1>. HIDE DEF stops, after
<1>. QED  BY <1>1, <1>4, <1>5, <1>6, <1>7

\* What a mark is quoted with is of its page.
LEMMA QuotedSpanFacts ==
  ASSUME NEW d \in Documents, NEW m \in d.marks
  PROVE  LET span == QuotedSpan(d, m)
         IN /\ span.page = m.page /\ m.page \in DOMAIN d.pages
            /\ span.from \in Nat \ {0} /\ span.to \in Nat /\ span.from <= span.to
            /\ m.form # "split" => /\ span.to <= Len(Page(d, m.page))
                                   /\ Page(d, m.page)[span.from] # "/"
<1>. DEFINE text  == Page(d, m.page)
            par   == Stretch(text, m.from, "/")
            start == IF m.form # "marker" \/ par.to - par.from >= MAX_QUOTE_CHARS
                     THEN m.from ELSE par.from
            end   == IF m.form = "marker" THEN par.to ELSE m.to
            cut   == start + MAX_QUOTE_CHARS - 1
            to    == IF end <= cut THEN end ELSE cut
<1>1. /\ m.page \in DOMAIN d.pages /\ m.from \in 1 .. m.to /\ m.to \in Nat
      /\ m.form # "split" => m.to <= Len(text) /\ text[m.from] # "/"
      /\ text \in Seq({"a", "A", ".", "/"}) /\ Len(text) \in Nat
  BY DocumentsAssumption DEF Page
<1>. HIDE DEF text
<1>2. m.form # "split" => /\ par.from \in 1 .. m.from /\ par.to \in m.from - 1 .. Len(text)
                          /\ par.to >= m.from /\ text[par.from] # "/"
  <2>1. m.form # "split" => m.from \in 1 .. Len(text)
    BY <1>1
  <2>. QED  BY <1>1, <2>1, StretchFacts
<1>3. QuotedSpan(d, m) = SpanOf(m.page, start, Min({end, cut}))
  BY DEF QuotedSpan, text
<1>. HIDE DEF par
<1>4. /\ start \in 1 .. m.from /\ end \in Nat /\ end >= m.from
      /\ m.form # "split" => end <= Len(text) /\ text[start] # "/"
  BY <1>1, <1>2
<1>. HIDE DEF start, end
<1>5. MAX_QUOTE_CHARS \in Nat \ {0}
  BY GateAssumption
<1>6. cut \in Nat /\ cut >= start
  BY <1>4, <1>5
<1>7. Min({end, cut}) = to
  <2>. HIDE DEF cut
  <2>. QED  BY <1>4, <1>6, LesserOfTwo
<1>. HIDE DEF cut
<1>8. to \in Nat /\ start <= to /\ to <= end /\ start \in Nat \ {0}
  BY <1>1, <1>4, <1>6
<1>. HIDE DEF to
<1>9. m.form # "split" => to <= Len(text) /\ text[start] # "/"
  BY <1>1, <1>4, <1>8
<1>. QED  BY <1>1, <1>3, <1>7, <1>8, <1>9 DEF SpanOf, text

LEMMA RulesFind ==
  ASSUME NEW d \in Documents
  PROVE  /\ \A f \in UNION {FoundBy(d, m) : m \in d.marks} : IsFinding(f) /\ f.source = "rule"
         /\ \A f \in RuleFindings(d) : IsFinding(f) /\ IsQuoteOf(d, f) /\ f.source = "rule"
         /\ IsFiniteSet(RuleFindings(d))
<1>. DEFINE all == UNION {FoundBy(d, m) : m \in d.marks}
<1>1. ASSUME NEW m \in d.marks, NEW f \in FoundBy(d, m)
      PROVE  IsFinding(f) /\ IsQuoteOf(d, f) /\ f.source = "rule"
  <2>1. m.severity \in NONE .. CRITICAL
    BY DocumentsAssumption
  <2>2. Max({m.severity, HIGH}) \in NONE .. CRITICAL
    <3>1. {m.severity, HIGH} \subseteq NONE .. CRITICAL
      BY <2>1 DEF NONE, HIGH, CRITICAL
    <3>. QED  BY <3>1, MaxOfSeverities
  <2>3. \/ f = Finding(d, m, "control", m.severity)
        \/ f = Finding(d, m, "obfuscated", Max({m.severity, HIGH}))
    BY DEF FoundBy
  <2>4. f.source = "rule" /\ f.severity \in NONE .. CRITICAL
    BY <2>1, <2>2, <2>3 DEF Finding, FindingAt
  <2>. DEFINE span == QuotedSpan(d, m)
  <2>5. /\ span.page = m.page /\ m.page \in DOMAIN d.pages
        /\ span.from \in Nat \ {0} /\ span.to \in Nat /\ span.from <= span.to
        /\ m.form # "split" => /\ span.to <= Len(Page(d, m.page))
                               /\ Page(d, m.page)[span.from] # "/"
    BY QuotedSpanFacts
  <2>. HIDE DEF span
  <2>6. f.page = span.page /\ f.from = span.from /\ f.to = span.to
    BY <2>3 DEF Finding, FindingAt, span
  <2>7. m.form = "split" => f.severity >= HIGH
    BY <2>1 DEF FoundBy, Finding, FindingAt
  <2>8. ASSUME f.severity < HIGH
        PROVE  f.to <= Len(Page(d, f.page)) /\ Page(d, f.page)[f.from] # "/"
    <3>1. m.form # "split"
      BY <2>4, <2>7, <2>8 DEF NONE, CRITICAL, HIGH
    <3>. QED  BY <2>5, <2>6, <3>1
  <2>9. IsQuoteOf(d, f)
    BY <2>5, <2>6, <2>8, Zenon DEF IsQuoteOf
  <2>. QED  BY <2>4, <2>9 DEF IsFinding
<1>2. \A f \in all : IsFinding(f) /\ IsQuoteOf(d, f) /\ f.source = "rule"
  BY <1>1
<1>3. IsFiniteSet(all)
  <2>. DEFINE g == [m \in d.marks |-> FoundBy(d, m)]
              S == {FoundBy(d, m) : m \in d.marks}
  <2>1. IsFiniteSet(d.marks)
    BY DocumentsAssumption
  <2>2. g \in Surjection(d.marks, S)
    BY DEF Surjection
  <2>3. IsFiniteSet(S)
    BY <2>1, <2>2, FS_Surjection
  <2>4. \A s \in S : IsFiniteSet(s)
    <3>. SUFFICES ASSUME NEW m \in d.marks PROVE IsFiniteSet(FoundBy(d, m))
      OBVIOUS
    <3>. DEFINE named  == Finding(d, m, "control", m.severity)
                hidden == Finding(d, m, "obfuscated", Max({m.severity, HIGH}))
    <3>1. FoundBy(d, m) \in SUBSET ({named} \cup {hidden})
      BY DEF FoundBy
    <3>2. IsFiniteSet({named} \cup {hidden})
      BY FS_Singleton, FS_Union
    <3>. HIDE DEF named, hidden
    <3>. QED  BY <3>1, <3>2, FS_Subset
  <2>. HIDE DEF S
  <2>5. IsFiniteSet(UNION S)
    BY <2>3, <2>4, FS_UNION
  <2>. QED  BY <2>5 DEF S
<1>. HIDE DEF all
<1>4. RuleFindings(d) \subseteq all
  BY <1>2, DeduplicateKeeps DEF RuleFindings, all
<1>. QED  BY <1>2, <1>3, <1>4, FS_Subset DEF all

\* What the rules know of a strong instruction is a strong finding.
LEMMA StrongMarkIsFound ==
  ASSUME NEW d \in Documents, NEW m \in d.marks, m.severity >= HIGH,
         m.form \notin {"court", "vague"}, m.form = "split" => NearBoundary(d, m)
  PROVE  \E f \in RuleFindings(d) : f.severity >= HIGH
<1>. DEFINE named  == Finding(d, m, "control", m.severity)
            hidden == Finding(d, m, "obfuscated", Max({m.severity, HIGH}))
            all    == UNION {FoundBy(d, n) : n \in d.marks}
<1>1. m.form \in MarkForms /\ m.severity \in NONE .. CRITICAL
  BY DocumentsAssumption
<1>2. Max({m.severity, HIGH}) >= HIGH
  <2>1. {m.severity, HIGH} \subseteq NONE .. CRITICAL
    BY <1>1 DEF NONE, HIGH, CRITICAL
  <2>. QED  BY <2>1, MaxOfSeverities
<1>3. named.severity >= HIGH /\ hidden.severity >= HIGH
  BY <1>2 DEF Finding, FindingAt
<1>4. named \in FoundBy(d, m) \/ hidden \in FoundBy(d, m)
  <2>. HIDE DEF named, hidden
  <2>1. CASE m.form = "encoded"
    BY <2>1 DEF FoundBy, hidden
  <2>2. CASE m.form \in {"plain", "marker", "invisible", "comment"}
    BY <2>2 DEF FoundBy, named
  <2>3. CASE m.form = "split"
    BY <2>3 DEF FoundBy, named
  <2>. QED  BY <1>1, <2>1, <2>2, <2>3 DEF MarkForms
<1>. HIDE DEF named, hidden
<1>5. PICK f \in all : f.severity >= HIGH
  BY <1>3, <1>4
<1>6. /\ CoveredBy(all, RuleFindings(d))
      /\ f.severity \in NONE .. CRITICAL
  BY RulesFind, DeduplicateKeeps DEF RuleFindings, IsFinding
<1>7. PICK g \in RuleFindings(d) : g.severity >= f.severity
  BY <1>6 DEF CoveredBy
<1>8. g.severity \in NONE .. CRITICAL
  BY RulesFind DEF IsFinding
<1>. QED  BY <1>5, <1>6, <1>7, <1>8 DEF NONE, HIGH, CRITICAL

LEMMA ValidatedIsRead ==
  ASSUME NEW d \in Documents, NEW batch, NEW claims \in SUBSET Claims,
         NEW f \in Validated(d, batch, claims)
  PROVE  /\ IsFinding(f) /\ f.source = "semantic" /\ f.severity <= HIGH
         /\ \E span \in ToSet(batch) : InSpan(f, span)
         /\ IsQuoteOf(d, f)
<1>1. PICK c \in Claims :
         /\ f = FindingAt(c, None, c.category, Min({c.severity, HIGH}), "semantic")
         /\ \E i \in DOMAIN batch : InSpan(c, batch[i])
         /\ c.page \in DOMAIN d.pages /\ c.to <= Len(Page(d, c.page))
  BY DEF Validated
<1>2. c.severity \in NONE .. CRITICAL
  BY DocumentsAssumption
<1>. DEFINE least == Min({c.severity, HIGH})
<1>3. least \in NONE .. CRITICAL /\ least <= HIGH
  BY <1>2 DEF Min, NONE, HIGH, CRITICAL
<1>. HIDE DEF least
<1>4. f = FindingAt(c, None, c.category, least, "semantic")
  BY <1>1 DEF least
<1>5. /\ f.page = c.page /\ f.from = c.from /\ f.to = c.to /\ f.category = c.category
      /\ f.severity = least /\ f.source = "semantic"
  BY <1>4 DEF FindingAt
<1>6. f = FindingAt(f, None, f.category, f.severity, "semantic")
  BY <1>4, <1>5 DEF FindingAt
<1>7. \E i \in DOMAIN batch : InSpan(f, batch[i])
  BY <1>1, <1>5 DEF InSpan
<1>8. IsQuoteOf(d, f)
  <2>1. c.to \in Nat /\ c.from \in 1 .. c.to /\ Page(d, c.page)[c.from] # "/"
    BY <1>1, DocumentsAssumption DEF Page
  <2>. QED  BY <1>1, <1>5, <2>1 DEF IsQuoteOf
<1>. QED  BY <1>3, <1>5, <1>6, <1>7, <1>8 DEF IsFinding, ToSet

LEMMA GateInitOK == GateInit => GateInv
BY FS_EmptySet DEF GateInit, Unscanned, GateInv, GateTypeOK, GatePlaces, RulesAreKept, AddedWasRead

LEMMA ScanRulesOK == ASSUME GateInv, ScanRules PROVE GateInv'
<1>. DEFINE found == RuleFindings(doc)
<1>1. /\ gate' = [gate EXCEPT !.at = "choose", !.findings = found]
      /\ doc' = doc /\ mode' = mode /\ gate.at = "rules"
  BY DEF ScanRules
<1>2. /\ \A f \in found : IsFinding(f) /\ IsQuoteOf(doc, f) /\ f.source = "rule"
      /\ IsFiniteSet(found)
  BY RulesFind DEF GateInv, GateTypeOK
<1>3. CoveredBy(found, found)
  BY <1>2 DEF CoveredBy, IsFinding, NONE, CRITICAL
<1>. HIDE DEF found
<1>4. /\ gate'.at = "choose" /\ gate'.findings = found /\ gate'.complete = gate.complete
      /\ gate'.reviewed = gate.reviewed /\ gate'.read = gate.read
      /\ gate'.batches = gate.batches
  BY <1>1 DEF GateInv, GateTypeOK
<1>5. GateTypeOK'
  BY <1>1, <1>2, <1>4 DEF GateInv, GateTypeOK, GatePlaces
<1>6. RulesAreKept'
  BY <1>1, <1>3, <1>4 DEF GateInv, RulesAreKept, found
<1>. QED  BY <1>2, <1>4, <1>5, <1>6 DEF GateInv, AddedWasRead

\* A step that ends the scan or goes on with it, and leaves what was found.
LEMMA FindingsStay ==
  ASSUME GateInv, gate.at # "assessed", NEW at \in {"review", "assessed"}, NEW batches,
         NEW complete \in BOOLEAN, NEW reviewed \in BOOLEAN, at = "review" => complete,
         gate.at = "rules" => ~complete, doc' = doc, mode' = mode,
         gate' = [gate EXCEPT !.at = at, !.batches = batches, !.complete = complete,
                              !.reviewed = reviewed]
  PROVE  /\ GateInv'
         /\ gate'.at = at /\ gate'.batches = batches /\ gate'.complete = complete
         /\ gate'.reviewed = reviewed /\ gate'.read = gate.read
<1>1. /\ gate'.at = at /\ gate'.batches = batches /\ gate'.complete = complete
      /\ gate'.reviewed = reviewed /\ gate'.read = gate.read
      /\ gate'.findings = gate.findings
  BY DEF GateInv, GateTypeOK
<1>2. GateTypeOK'
  BY <1>1 DEF GateInv, GateTypeOK, GatePlaces
<1>3. RulesAreKept'
  BY <1>1 DEF GateInv, RulesAreKept
<1>. QED  BY <1>1, <1>2, <1>3 DEF GateInv, AddedWasRead

LEMMA RuleScanFailsOK == ASSUME GateInv, RuleScanFails PROVE GateInv'
<1>. DEFINE batches == gate.batches
            reviewed == gate.reviewed
            complete == FALSE
            at == "assessed"
<1>1. /\ doc' = doc /\ mode' = mode /\ gate.at = "rules"
      /\ gate' = [gate EXCEPT !.at = at, !.batches = batches, !.complete = complete,
                              !.reviewed = reviewed]
  BY DEF RuleScanFails, GateInv, GateTypeOK
<1>2. reviewed \in BOOLEAN /\ complete = FALSE /\ at = "assessed"
  BY DEF GateInv, GateTypeOK
<1>. HIDE DEF batches, reviewed, complete, at
<1>. QED  BY <1>1, <1>2, FindingsStay

\* What comes after the candidates have been chosen.
LEMMA ChooseOK ==
  ASSUME GateInv, ChooseCandidates
  PROVE  LET batches == CandidateBatches(Candidates(doc, gate.findings))
             over    == OverBudget(batches)
         IN /\ GateInv'
            /\ gate'.at = IF over \/ batches = <<>> THEN "assessed" ELSE "review"
            /\ gate'.batches = IF over THEN <<>> ELSE batches
            /\ gate'.complete = ~over /\ gate'.read = gate.read
            /\ gate'.reviewed = (mode = "strict" /\ ~over /\ batches = <<>>)
<1>. DEFINE batches  == CandidateBatches(Candidates(doc, gate.findings))
            over     == OverBudget(batches)
            at       == IF over \/ batches = <<>> THEN "assessed" ELSE "review"
            left     == IF over THEN <<>> ELSE batches
            complete == ~over
            reviewed == mode = "strict" /\ ~over /\ batches = <<>>
<1>1. /\ doc' = doc /\ mode' = mode /\ gate.at = "choose"
      /\ gate' = [gate EXCEPT !.at = at, !.batches = left, !.complete = complete,
                              !.reviewed = reviewed]
  BY DEF ChooseCandidates
<1>2. over \in BOOLEAN
  BY DEF OverBudget
<1>3. /\ at \in {"review", "assessed"} /\ complete \in BOOLEAN /\ reviewed \in BOOLEAN
      /\ at = "review" => complete
  BY <1>2
<1>4. complete = ~over
  OBVIOUS
<1>. HIDE DEF at, left, complete, reviewed, over
<1>5. GateInv' /\ gate'.at = at /\ gate'.batches = left /\ gate'.read = gate.read
  BY <1>1, <1>3, FindingsStay
<1>6. gate'.complete = complete
  BY <1>1, <1>3, FindingsStay
<1>7. gate'.reviewed = reviewed
  BY <1>1, <1>3, FindingsStay
<1>. QED  BY <1>4, <1>5, <1>6, <1>7, Zenon DEF at, left, over, reviewed

LEMMA ReviewFailsOK ==
  ASSUME GateInv, SemanticReviewFails
  PROVE  /\ GateInv' /\ gate'.at = "assessed" /\ gate'.batches = <<>>
         /\ gate'.complete = (mode # "strict")
<1>. DEFINE batches  == <<>>
            reviewed == gate.reviewed
            complete == mode # "strict"
            at       == "assessed"
<1>1. /\ doc' = doc /\ mode' = mode /\ gate.at = "review"
      /\ gate' = [gate EXCEPT !.at = at, !.batches = batches, !.complete = complete,
                              !.reviewed = reviewed]
  BY DEF SemanticReviewFails, GateInv, GateTypeOK
<1>2. reviewed \in BOOLEAN /\ complete \in BOOLEAN /\ at = "assessed"
  BY DEF GateInv, GateTypeOK
<1>. HIDE DEF batches, reviewed, complete, at
<1>3. /\ GateInv' /\ gate'.at = at /\ gate'.batches = batches /\ gate'.complete = complete
  BY <1>1, <1>2, FindingsStay
<1>. QED  BY <1>3, Zenon DEF batches, complete, at

\* What the rules found stays, and what is added has been read.
LEMMA ReviewOK ==
  ASSUME GateInv, NEW claims \in SUBSET Claims, IsFiniteSet(claims), SemanticReview(claims)
  PROVE  /\ GateInv'
         /\ gate'.at = IF Len(gate.batches) = 1 THEN "assessed" ELSE gate.at
         /\ gate'.batches = Tail(gate.batches) /\ gate'.complete = gate.complete
         /\ gate'.read = gate.read \cup ToSet(Head(gate.batches))
         /\ gate'.reviewed = (Len(gate.batches) = 1)
<1>. DEFINE added    == Validated(doc, Head(gate.batches), claims)
            both     == gate.findings \cup added
            found    == DeduplicateFindings(both)
            read     == gate.read \cup ToSet(Head(gate.batches))
            left     == Tail(gate.batches)
            last     == Len(gate.batches) = 1
            at       == IF last THEN "assessed" ELSE gate.at
<1>1. /\ doc' = doc /\ mode' = mode /\ gate.at = "review"
      /\ gate' = [gate EXCEPT !.findings = found, !.read = read, !.batches = left,
                              !.at = at, !.reviewed = last]
  BY DEF SemanticReview
<1>2. \A f \in added : /\ IsFinding(f) /\ IsQuoteOf(doc, f) /\ f.severity <= HIGH
                       /\ \E span \in read : InSpan(f, span)
  <2>1. doc \in Documents
    BY DEF GateInv, GateTypeOK
  <2>. QED  BY <2>1, ValidatedIsRead
<1>3. \A f \in both : IsFinding(f) /\ IsQuoteOf(doc, f)
  BY <1>2 DEF GateInv, GateTypeOK
<1>10. IsFiniteSet(both)
  <2>. DEFINE valid == {c \in claims : /\ c.page \in DOMAIN doc.pages
                                       /\ c.to <= Len(Page(doc, c.page))
                                       /\ \E i \in DOMAIN Head(gate.batches) :
                                            InSpan(c, Head(gate.batches)[i])
                                       /\ c.sure /\ c.severity # NONE}
              made(c) == FindingAt(c, None, c.category, Min({c.severity, HIGH}), "semantic")
              g == [c \in valid |-> made(c)]
  <2>1. added = {made(c) : c \in valid}
    BY DEF Validated
  <2>2. valid \in SUBSET claims
    OBVIOUS
  <2>. HIDE DEF valid, made
  <2>3. IsFiniteSet(valid)
    BY <2>2, FS_Subset
  <2>4. g \in Surjection(valid, {made(c) : c \in valid})
    BY DEF Surjection
  <2>5. IsFiniteSet({made(c) : c \in valid})
    BY <2>3, <2>4, FS_Surjection
  <2>6. IsFiniteSet(added) /\ IsFiniteSet(gate.findings)
    BY <2>1, <2>5 DEF GateInv, GateTypeOK
  <2>. HIDE DEF added
  <2>. QED  BY <2>6, FS_Union
<1>4. CoveredBy(both, found) /\ found \in SUBSET both
  BY <1>3, DeduplicateKeeps
<1>11. IsFiniteSet(found)
  BY <1>4, <1>10, FS_Subset
<1>5. /\ last \in BOOLEAN /\ at \in {"review", "assessed"} /\ gate.read \subseteq read
      /\ gate.findings \subseteq both /\ both \subseteq gate.findings \cup added
  BY <1>1
<1>. HIDE DEF added, both, found, read, left, last, at
<1>6. /\ gate'.findings = found /\ gate'.read = read /\ gate'.batches = left /\ gate'.at = at
      /\ gate'.reviewed = last /\ gate'.complete = gate.complete
  BY <1>1 DEF GateInv, GateTypeOK
<1>7. GateTypeOK'
  BY <1>1, <1>3, <1>4, <1>5, <1>6, <1>11 DEF GateInv, GateTypeOK, GatePlaces
<1>8. gate.complete /\ CoveredBy(RuleFindings(doc), gate.findings)
  BY <1>1 DEF GateInv, RulesAreKept
<1>9. CoveredBy(RuleFindings(doc), found)
  <2>. SUFFICES ASSUME NEW f \in RuleFindings(doc)
                PROVE  \E g \in found : Key(g) = Key(f) /\ g.severity >= f.severity
    BY DEF CoveredBy
  <2>1. PICK g \in gate.findings : Key(g) = Key(f) /\ g.severity >= f.severity
    BY <1>8 DEF CoveredBy
  <2>2. PICK h \in found : Key(h) = Key(g) /\ h.severity >= g.severity
    BY <1>4, <1>5, <2>1 DEF CoveredBy
  <2>3. IsFinding(f) /\ IsFinding(g) /\ IsFinding(h)
    BY <1>3, <1>4, <1>5, <2>1, <2>2, RulesFind DEF GateInv, GateTypeOK
  <2>. QED  BY <2>1, <2>2, <2>3 DEF IsFinding, NONE, CRITICAL
<1>13. RulesAreKept'
  BY <1>1, <1>6, <1>8, <1>9 DEF RulesAreKept
<1>14. AddedWasRead'
  BY <1>2, <1>4, <1>5, <1>6 DEF GateInv, AddedWasRead
<1>12. GateInv'
  BY <1>7, <1>13, <1>14 DEF GateInv
<1>15. gate'.reviewed = (Len(gate.batches) = 1)
  BY <1>6, Zenon DEF last
<1>. QED  BY <1>6, <1>12, <1>15 DEF at, last, left, read

-----------------------------------------------------------------------------
(* A strict scan cuts the pages into windows, and the windows into batches. *)

WindowStep == MAX_CANDIDATE_CHARS - CANDIDATE_OVERLAP

Spans == [page : Nat, from : Nat, to : Int]

\* A passage of the text that a strict scan promises to read as a whole.
Passage(d, p, from) ==
  SpanOf(p, from, Min({Len(Page(d, p)), from + CANDIDATE_OVERLAP}))

\* The window that a position begins in.
LEMMA WindowOf ==
  ASSUME NEW step \in Nat \ {0}, NEW length \in Nat, NEW from \in 1 .. length
  PROVE  \E i \in 1 .. (length + step - 1) \div step :
           (i - 1) * step < from /\ from <= (i - 1) * step + step
<1>. DEFINE q == (from - 1) \div step
            n == (length + step - 1) \div step
<1>1. q \in Nat /\ q * step <= from - 1 /\ from - 1 < q * step + step
  OBVIOUS
<1>2. n \in Nat /\ n * step <= length + step - 1 /\ length + step - 1 < n * step + step
  OBVIOUS
<1>. HIDE DEF q, n
<1>3. q * step + step < n * step + step
  BY <1>1, <1>2
<1>4. ASSUME n <= q PROVE n * step <= q * step
  BY <1>1, <1>2, <1>4
<1>5. n * step \in Int /\ q * step \in Int
  BY <1>1, <1>2
<1>6. q < n
  BY <1>1, <1>2, <1>3, <1>4, <1>5
<1>7. q + 1 \in 1 .. n /\ (q + 1) - 1 = q
  BY <1>1, <1>2, <1>6
<1>. QED  BY <1>1, <1>7 DEF n

LEMMA WindowsCover ==
  ASSUME NEW d \in Documents, NEW p \in DOMAIN d.pages
  PROVE  LET windows == Windows(d, p, WindowStep)
         IN /\ windows \in Seq(Spans)
            /\ \A from \in 1 .. Len(Page(d, p)) :
                 \E w \in ToSet(windows) : InSpan(Passage(d, p, from), w)
<1>. DEFINE length   == Len(Page(d, p))
            n        == (length + WindowStep - 1) \div WindowStep
            window(i) == SpanOf(p, (i - 1) * WindowStep + 1,
                                Min({length, (i - 1) * WindowStep + MAX_CANDIDATE_CHARS}))
            windows  == Windows(d, p, WindowStep)
<1>1. /\ WindowStep \in Nat \ {0} /\ CANDIDATE_OVERLAP \in Nat
      /\ WindowStep + CANDIDATE_OVERLAP = MAX_CANDIDATE_CHARS
  BY GateAssumption DEF WindowStep
<1>2. d.pages \in Seq(Seq({"a", "A", ".", "/"}))
  BY DocumentsAssumption
<1>3. p \in Nat /\ length \in Nat
  BY <1>2 DEF Page
<1>4. windows = [i \in 1 .. n |-> window(i)]
  BY DEF Windows
<1>5. n \in Nat
  <2>. HIDE DEF length
  <2>. QED  BY <1>1, <1>3
<1>. HIDE DEF windows, n
<1>6. ASSUME NEW i \in 1 .. n
      PROVE  /\ window(i) \in Spans
             /\ window(i).page = p /\ window(i).from = (i - 1) * WindowStep + 1
             /\ window(i).to = IF length <= (i - 1) * WindowStep + MAX_CANDIDATE_CHARS
                               THEN length ELSE (i - 1) * WindowStep + MAX_CANDIDATE_CHARS
  <2>. DEFINE at == (i - 1) * WindowStep
  <2>1. at \in Nat /\ MAX_CANDIDATE_CHARS \in Nat
    BY <1>1, <1>5, GateAssumption
  <2>. HIDE DEF at, length
  <2>2. Min({length, at + MAX_CANDIDATE_CHARS})
          = IF length <= at + MAX_CANDIDATE_CHARS THEN length ELSE at + MAX_CANDIDATE_CHARS
    BY <1>3, <2>1, LesserOfTwo
  <2>. QED  BY <1>3, <2>1, <2>2 DEF at, SpanOf, Spans
<1>. HIDE DEF window
<1>7. windows \in Seq(Spans)
  BY <1>4, <1>5, <1>6
<1>8. ASSUME NEW from \in 1 .. length
      PROVE  \E w \in ToSet(windows) : InSpan(Passage(d, p, from), w)
  <2>1. PICK i \in 1 .. n : (i - 1) * WindowStep < from /\ from <= (i - 1) * WindowStep + WindowStep
    <3>. HIDE DEF length
    <3>. QED  BY <1>1, <1>3, WindowOf DEF n
  <2>. DEFINE at == (i - 1) * WindowStep
  <2>2. at \in Nat /\ at < from /\ from <= at + WindowStep
    BY <1>1, <1>5, <2>1
  <2>. HIDE DEF at, length
  <2>3. window(i).page = p /\ window(i).from = at + 1
        /\ window(i).to = IF length <= at + MAX_CANDIDATE_CHARS
                          THEN length ELSE at + MAX_CANDIDATE_CHARS
    BY <1>6 DEF at
  <2>4. Min({length, from + CANDIDATE_OVERLAP})
          = IF length <= from + CANDIDATE_OVERLAP THEN length ELSE from + CANDIDATE_OVERLAP
    BY <1>1, <1>3, LesserOfTwo
  <2>5. /\ Passage(d, p, from).page = p /\ Passage(d, p, from).from = from
        /\ Passage(d, p, from).to
             = IF length <= from + CANDIDATE_OVERLAP THEN length ELSE from + CANDIDATE_OVERLAP
    BY <2>4 DEF Passage, SpanOf, length
  <2>6. InSpan(Passage(d, p, from), window(i))
    BY <1>1, <1>3, <2>2, <2>3, <2>5 DEF InSpan
  <2>7. window(i) \in ToSet(windows)
    BY <1>4 DEF ToSet
  <2>. QED  BY <2>6, <2>7
<1>. QED  BY <1>7, <1>8 DEF windows, length

\* The windows of all pages.
LEMMA CandidatesCover ==
  ASSUME NEW d \in Documents
  PROVE  LET all == AllSemanticCandidates(d)
         IN /\ all \in Seq(Spans)
            /\ \A p \in DOMAIN d.pages : \A from \in 1 .. Len(Page(d, p)) :
                 \E w \in ToSet(all) : InSpan(Passage(d, p, from), w)
<1>. DEFINE s == [p \in DOMAIN d.pages |-> Windows(d, p, WindowStep)]
            n == Len(d.pages)
<1>1. n \in Nat /\ DOMAIN d.pages = 1 .. n
  BY DocumentsAssumption
<1>2. Len(s) = n /\ DOMAIN s = 1 .. n /\ \A p \in 1 .. n : s[p] = Windows(d, p, WindowStep)
  BY <1>1
<1>3. AllSemanticCandidates(d) = FlattenSeq(s)
  BY DEF AllSemanticCandidates, WindowStep
<1>4. \A p \in 1 .. n : s[p] \in Seq(Spans)
  BY <1>1, <1>2, WindowsCover
<1>5. \A p \in 1 .. n : \A from \in 1 .. Len(Page(d, p)) :
        \E w \in ToSet(s[p]) : InSpan(Passage(d, p, from), w)
  BY <1>1, <1>2, WindowsCover
<1>6. s \in Seq(Seq(Spans))
  <2>1. s = [p \in 1 .. n |-> s[p]]
    BY <1>1
  <2>. HIDE DEF s, n
  <2>. QED  BY <1>1, <1>4, <2>1, FunctionIsSeq
<1>. HIDE DEF s
<1>7. /\ FlattenSeq(s) \in Seq(Spans)
      /\ ToSet(FlattenSeq(s)) = UNION {ToSet(s[p]) : p \in DOMAIN s}
  BY <1>6, FlattenHolds
<1>. QED  BY <1>1, <1>2, <1>3, <1>5, <1>7

BatchStep(given, acc, span) == AddToBatch(acc, span)

Batching == INSTANCE FoldLemmas WITH Op <- BatchStep

\* All spans of batches.
Batched(batches) == UNION {ToSet(batches[i]) : i \in DOMAIN batches}

InBatches == [done : Seq(Seq(Spans)), current : Seq(Spans), used : Int]

LEMMA BatchedAppend ==
  ASSUME NEW batches \in Seq(Seq(Spans)), NEW batch \in Seq(Spans)
  PROVE  /\ Append(batches, batch) \in Seq(Seq(Spans))
         /\ Batched(Append(batches, batch)) = Batched(batches) \cup ToSet(batch)
<1>1. /\ Append(batches, batch) \in Seq(Seq(Spans)) /\ batch \in ToSet(Append(batches, batch))
      /\ ToSet(Append(batches, batch)) = ToSet(batches) \cup {batch}
  BY SetOfAppend
<1>2. ASSUME NEW s, NEW b \in ToSet(s) PROVE ToSet(b) \subseteq Batched(s)
  <2>1. PICK i \in DOMAIN s : b = s[i]
    BY DEF ToSet
  <2>. QED  BY <2>1, Zenon DEF Batched
<1>3. ASSUME NEW e \in Batched(batches) PROVE e \in Batched(Append(batches, batch))
  <2>1. PICK i \in DOMAIN batches : e \in ToSet(batches[i])
    BY DEF Batched
  <2>2. batches[i] \in ToSet(Append(batches, batch))
    BY <1>1 DEF ToSet
  <2>. QED  BY <1>2, <2>1, <2>2
<1>4. ASSUME NEW e \in Batched(Append(batches, batch))
      PROVE  e \in Batched(batches) \cup ToSet(batch)
  <2>1. PICK i \in DOMAIN Append(batches, batch) : e \in ToSet(Append(batches, batch)[i])
    BY DEF Batched
  <2>2. Append(batches, batch)[i] \in ToSet(batches) \cup {batch}
    BY <1>1 DEF ToSet
  <2>3. \A b \in ToSet(batches) : ToSet(b) \subseteq Batched(batches)
    BY <1>2
  <2>. QED  BY <2>1, <2>2, <2>3
<1>. QED  BY <1>1, <1>2, <1>3, <1>4

\* One passage more for the batches, and none lost.
LEMMA AddToBatchOK ==
  ASSUME NEW acc \in InBatches, NEW span \in Spans
  PROVE  LET next == AddToBatch(acc, span)
         IN /\ next \in InBatches
            /\ Batched(acc.done) \cup ToSet(acc.current) \cup {span}
                 = Batched(next.done) \cup ToSet(next.current)
<1>. DEFINE full == acc.current # <<>> /\ acc.used + BlockSize(span) > MAX_SEMANTIC_CONTEXT_CHARS
            one  == <<span>>
            more == Append(acc.current, span)
            both == Append(acc.done, acc.current)
            over == 2 + BlockSize(span) + 1
            used == acc.used + BlockSize(span) + 1
<1>1. over \in Int /\ used \in Int
  <2>1. BlockSize(span) \in Int
    BY GateAssumption DEF BlockSize, Size, Spans
  <2>2. acc.used \in Int
    BY DEF InBatches
  <2>. QED  BY <2>1, <2>2
<1>2. one \in Seq(Spans) /\ ToSet(one) = {span}
  <2>1. one \in Seq(Spans) /\ DOMAIN one = {1} /\ one[1] = span
    OBVIOUS
  <2>. HIDE DEF one
  <2>. QED  BY <2>1 DEF ToSet
<1>3. more \in Seq(Spans) /\ ToSet(more) = ToSet(acc.current) \cup {span}
  BY SetOfAppend DEF InBatches
<1>4. both \in Seq(Seq(Spans)) /\ Batched(both) = Batched(acc.done) \cup ToSet(acc.current)
  BY BatchedAppend DEF InBatches
<1>5. CASE full
  <2>1. AddToBatch(acc, span) = [done |-> both, current |-> one, used |-> over]
    BY <1>5 DEF AddToBatch
  <2>. HIDE DEF both, one, over
  <2>. QED  BY <1>1, <1>2, <1>4, <2>1 DEF InBatches
<1>6. CASE ~full
  <2>1. AddToBatch(acc, span) = [done |-> acc.done, current |-> more, used |-> used]
    BY <1>6 DEF AddToBatch
  <2>. HIDE DEF more, used
  <2>. QED  BY <1>1, <1>3, <2>1 DEF InBatches
<1>. QED  BY <1>5, <1>6

\* Every candidate is in a batch, and nothing else is.
LEMMA BatchesHoldAll ==
  ASSUME NEW s \in Seq(Spans)
  PROVE  /\ CandidateBatches(s) \in Seq(Seq(Spans))
         /\ Batched(CandidateBatches(s)) = ToSet(s)
<1>. DEFINE n     == Len(s)
            start == [done |-> <<>>, current |-> <<>>, used |-> 2]
            acc   == Batching!Fold(0, start, s)
<1>1. CandidateBatches(s) = IF acc.current = <<>> THEN acc.done ELSE Append(acc.done, acc.current)
  BY DEF CandidateBatches, FoldLeft, MapThenFoldSet, Batching!Fold, Max, Batching!Max, BatchStep
<1>2. n \in Nat /\ DOMAIN s = 1 .. n /\ \A k \in 1 .. n : s[k] \in Spans
  OBVIOUS
<1>3. start \in InBatches
  <2>. DEFINE none == <<>>
  <2>1. none \in Seq(Spans) /\ none \in Seq(Seq(Spans))
    OBVIOUS
  <2>. HIDE DEF none
  <2>2. [done |-> none, current |-> none, used |-> 2] \in InBatches
    BY <2>1 DEF InBatches
  <2>. QED  BY <2>2 DEF none
<1>. HIDE DEF start
<1>4. PICK F : Batching!IsFold(F, 0, start, s)
  BY <1>2, Batching!FoldHasSteps
<1>5. F[0] = start /\ acc = F[n]
  BY <1>4 DEF Batching!IsFold
<1>6. \A k \in 1 .. n : F[k] = AddToBatch(F[k - 1], s[k])
  BY <1>4 DEF Batching!IsFold, BatchStep
<1>. HIDE DEF n, acc
<1>. DEFINE All(k)   == Batched(F[k].done) \cup ToSet(F[k].current)
            Given(k) == {s[j] : j \in 1 .. k}
            Holds(k) == F[k] \in InBatches /\ All(k) = Given(k)
            T        == {k \in 0 .. n : Holds(k)}
<1>7. 0 \in T
  <2>1. /\ start.done = <<>> /\ start.current = <<>>
        /\ Batched(<<>>) = {} /\ ToSet(<<>>) = {} /\ Given(0) = {}
    BY DEF start, Batched, ToSet
  <2>2. All(0) = {}
    BY <1>5, <2>1
  <2>3. Holds(0)
    BY <1>3, <1>5, <2>1, <2>2
  <2>. HIDE DEF Holds
  <2>. QED  BY <1>2, <2>3
<1>8. ASSUME NEW k \in 1 .. n, k - 1 \in T PROVE k \in T
  <2>1. Holds(k - 1)
    <3>. HIDE DEF Holds
    <3>. QED  BY <1>8
  <2>2. F[k] = AddToBatch(F[k - 1], s[k]) /\ s[k] \in Spans /\ k \in 0 .. n
    BY <1>2, <1>6
  <2>3. F[k] \in InBatches /\ All(k) = All(k - 1) \cup {s[k]}
    <3>1. F[k - 1] \in InBatches
      BY <2>1
    <3>. QED  BY <2>2, <3>1, AddToBatchOK
  <2>4. Given(k) = Given(k - 1) \cup {s[k]}
    <3>1. \A j \in 1 .. k : j = k \/ j \in 1 .. k - 1
      BY <1>2
    <3>2. k \in 1 .. k /\ \A j \in 1 .. k - 1 : j \in 1 .. k
      BY <1>2
    <3>. QED  BY <3>1, <3>2
  <2>5. Holds(k)
    <3>1. All(k - 1) = Given(k - 1)
      BY <2>1
    <3>. HIDE DEF All, Given
    <3>. QED  BY <2>3, <2>4, <3>1
  <2>. HIDE DEF Holds
  <2>. QED  BY <2>2, <2>5
<1>9. n \in T
  <2>. HIDE DEF T
  <2>1. \A k \in 0 .. n : k \in T
    BY <1>2, <1>7, <1>8, Batching!RangeInduction
  <2>. QED  BY <1>2, <2>1
<1>10. acc \in InBatches /\ Batched(acc.done) \cup ToSet(acc.current) = ToSet(s)
  <2>1. Holds(n)
    <3>. HIDE DEF Holds
    <3>. QED  BY <1>9
  <2>2. Given(n) = ToSet(s)
    BY <1>2 DEF ToSet
  <2>. HIDE DEF Given
  <2>. QED  BY <1>5, <2>1, <2>2
<1>11. CASE acc.current = <<>>
  <2>1. ToSet(acc.current) = {}
    BY <1>11 DEF ToSet
  <2>. QED  BY <1>1, <1>10, <1>11, <2>1 DEF InBatches
<1>12. CASE acc.current # <<>>
  <2>1. acc.done \in Seq(Seq(Spans)) /\ acc.current \in Seq(Spans)
    BY <1>10 DEF InBatches
  <2>2. /\ CandidateBatches(s) \in Seq(Seq(Spans))
        /\ Batched(CandidateBatches(s)) = Batched(acc.done) \cup ToSet(acc.current)
    BY <1>1, <1>12, <2>1, BatchedAppend
  <2>. QED  BY <1>10, <2>2
<1>. QED  BY <1>11, <1>12

-----------------------------------------------------------------------------
(* What a strict scan has read, and what it has to read. *)

AllIsRead ==
  mode = "strict" /\ gate.complete /\ gate.at \in {"review", "assessed"} =>
    /\ gate.batches \in Seq(Seq(Spans))
    /\ gate.batches = <<>> <=> gate.at = "assessed"
    /\ ToSet(AllSemanticCandidates(doc)) \subseteq gate.read \cup Batched(gate.batches)

GateAndReading == GateInv /\ AllIsRead

LEMMA FirstBatch ==
  ASSUME NEW batches \in Seq(Seq(Spans)), batches # <<>>
  PROVE  /\ Tail(batches) \in Seq(Seq(Spans))
         /\ Tail(batches) = <<>> <=> Len(batches) = 1
         /\ Batched(batches) = ToSet(Head(batches)) \cup Batched(Tail(batches))
<1>1. /\ Tail(batches) \in Seq(Seq(Spans)) /\ Len(batches) \in Nat \ {0}
      /\ Len(Tail(batches)) = Len(batches) - 1 /\ Head(batches) = batches[1]
      /\ DOMAIN batches = 1 .. Len(batches) /\ DOMAIN Tail(batches) = 1 .. Len(batches) - 1
      /\ \A i \in 1 .. Len(batches) - 1 : Tail(batches)[i] = batches[i + 1]
  OBVIOUS
<1>2. Tail(batches) = <<>> <=> Len(batches) = 1
  <2>1. Tail(batches) = <<>> => Len(batches) = 1
    <3>1. Len(<<>>) = 0
      OBVIOUS
    <3>2. Tail(batches) = <<>> => Len(Tail(batches)) = 0
      BY <3>1, Zenon
    <3>. QED  BY <1>1, <3>2
  <2>2. Len(Tail(batches)) = 0 => Tail(batches) = <<>>
    BY <1>1, EmptySeq
  <2>. QED  BY <1>1, <2>1, <2>2, SMTT(20)
<1>3. ASSUME NEW e \in Batched(batches)
      PROVE  e \in ToSet(Head(batches)) \cup Batched(Tail(batches))
  <2>1. PICK i \in 1 .. Len(batches) : e \in ToSet(batches[i])
    BY <1>1 DEF Batched
  <2>2. CASE i = 1
    BY <1>1, <2>1, <2>2
  <2>3. CASE i # 1
    <3>1. i - 1 \in DOMAIN Tail(batches) /\ Tail(batches)[i - 1] = batches[i]
      BY <1>1, <2>3
    <3>. QED  BY <2>1, <3>1 DEF Batched
  <2>. QED  BY <2>2, <2>3
<1>4. ASSUME NEW e \in Batched(Tail(batches)) PROVE e \in Batched(batches)
  <2>1. PICK i \in 1 .. Len(batches) - 1 : e \in ToSet(Tail(batches)[i])
    BY <1>1 DEF Batched
  <2>2. i + 1 \in DOMAIN batches /\ Tail(batches)[i] = batches[i + 1]
    BY <1>1, <2>1
  <2>. QED  BY <2>1, <2>2 DEF Batched
<1>5. ToSet(Head(batches)) \subseteq Batched(batches)
  <2>1. 1 \in DOMAIN batches /\ Head(batches) = batches[1]
    BY <1>1
  <2>. QED  BY <2>1 DEF Batched
<1>. QED  BY <1>1, <1>2, <1>3, <1>4, <1>5

LEMMA ScanOK == ASSUME GateAndReading, Scan PROVE GateAndReading'
<1>0. GateInv /\ AllIsRead
  BY DEF GateAndReading
<1>1. CASE ScanRules
  <2>1. GateInv' /\ gate'.at = "choose"
    BY <1>0, <1>1, ScanRulesOK DEF ScanRules, GateInv, GateTypeOK
  <2>. QED  BY <2>1 DEF GateAndReading, AllIsRead
<1>2. CASE RuleScanFails
  <2>1. GateInv' /\ gate'.complete = FALSE
    BY <1>0, <1>2, RuleScanFailsOK DEF RuleScanFails, GateInv, GateTypeOK
  <2>. QED  BY <2>1, Zenon DEF GateAndReading, AllIsRead
<1>3. CASE ChooseCandidates
  <2>. DEFINE batches == CandidateBatches(Candidates(doc, gate.findings))
              over    == OverBudget(batches)
              all     == AllSemanticCandidates(doc)
  <2>1. /\ GateInv'
        /\ gate'.at = IF over \/ batches = <<>> THEN "assessed" ELSE "review"
        /\ gate'.batches = IF over THEN <<>> ELSE batches
    BY <1>0, <1>3, ChooseOK
  <2>2. gate'.complete = ~over
    BY <1>0, <1>3, ChooseOK
  <2>3. doc' = doc /\ mode' = mode /\ doc \in Documents
    BY <1>0, <1>3 DEF ChooseCandidates, GateInv, GateTypeOK
  <2>4. ASSUME mode = "strict", ~over
        PROVE  /\ batches \in Seq(Seq(Spans)) /\ ToSet(all) \subseteq Batched(batches)
    <3>1. Candidates(doc, gate.findings) = all
      BY <2>4 DEF Candidates, OverBudget
    <3>2. all \in Seq(Spans)
      BY <2>3, CandidatesCover
    <3>. HIDE DEF all
    <3>. QED  BY <3>1, <3>2, BatchesHoldAll
  <2>. HIDE DEF batches, over, all
  <2>5. AllIsRead'
    <3>. SUFFICES ASSUME mode = "strict", ~over
                  PROVE  /\ gate'.batches \in Seq(Seq(Spans))
                         /\ gate'.batches = <<>> <=> gate'.at = "assessed"
                         /\ ToSet(all) \subseteq gate'.read \cup Batched(gate'.batches)
      BY <2>2, <2>3, Zenon DEF AllIsRead, all
    <3>. QED  BY <2>1, <2>4
  <2>. QED  BY <2>1, <2>5 DEF GateAndReading
<1>4. ASSUME NEW claims \in SUBSET Claims, IsFiniteSet(claims), SemanticReview(claims)
      PROVE  GateAndReading'
  <2>1. /\ GateInv'
        /\ gate'.at = IF Len(gate.batches) = 1 THEN "assessed" ELSE gate.at
        /\ gate'.batches = Tail(gate.batches)
        /\ gate'.read = gate.read \cup ToSet(Head(gate.batches))
    BY <1>0, <1>4, ReviewOK
  <2>2. gate'.complete = gate.complete
    BY <1>0, <1>4, ReviewOK
  <2>3. doc' = doc /\ mode' = mode /\ gate.at = "review"
    BY <1>4 DEF SemanticReview
  <2>4. AllIsRead'
    <3>. SUFFICES ASSUME mode = "strict", gate.complete
                  PROVE  /\ gate'.batches \in Seq(Seq(Spans))
                         /\ gate'.batches = <<>> <=> gate'.at = "assessed"
                         /\ ToSet(AllSemanticCandidates(doc))
                              \subseteq gate'.read \cup Batched(gate'.batches)
      BY <2>2, <2>3, Zenon DEF AllIsRead
    <3>1. /\ gate.batches \in Seq(Seq(Spans)) /\ gate.batches # <<>>
          /\ ToSet(AllSemanticCandidates(doc)) \subseteq gate.read \cup Batched(gate.batches)
      BY <1>0, <2>3 DEF AllIsRead
    <3>2. /\ Tail(gate.batches) \in Seq(Seq(Spans))
          /\ Tail(gate.batches) = <<>> <=> Len(gate.batches) = 1
          /\ Batched(gate.batches)
               = ToSet(Head(gate.batches)) \cup Batched(Tail(gate.batches))
      BY <3>1, FirstBatch
    <3>. QED  BY <2>1, <2>3, <3>1, <3>2
  <2>. QED  BY <2>1, <2>4 DEF GateAndReading
<1>5. CASE SemanticReviewFails
  <2>1. GateInv' /\ gate'.complete = (mode # "strict") /\ mode' = mode
    BY <1>0, <1>5, ReviewFailsOK DEF SemanticReviewFails
  <2>. QED  BY <2>1, Zenon DEF GateAndReading, AllIsRead
<1>6. \A claims \in {{}} \cup {{c} : c \in Claims} : claims \in SUBSET Claims /\ IsFiniteSet(claims)
  BY FS_EmptySet, FS_Singleton
<1>. QED  BY <1>1, <1>2, <1>3, <1>4, <1>5, <1>6 DEF Scan

LEMMA GateRests == GateAndReading /\ UNCHANGED <<doc, mode, gate>> => GateAndReading'
BY DEF GateAndReading, GateInv, GateTypeOK, RulesAreKept, AddedWasRead, AllIsRead

\* The scan while a document is analysed, and at rest.
GatePart == IF part = "analysis" THEN GateAndReading ELSE NoAnalysis

LEMMA GatePartOK == ServiceSpec => []GatePart
<1>1. ServiceInit => GatePart
  <2>1. GateInit => AllIsRead
    BY DEF GateInit, Unscanned, AllIsRead
  <2>. QED  BY <2>1, GateInitOK DEF ServiceInit, GatePart, GateAndReading, Init
<1>2. GatePart /\ [ServiceNext]_service => GatePart'
  <2>. SUFFICES ASSUME GatePart, [ServiceNext]_service PROVE GatePart'
    OBVIOUS
  <2>1. part' = part
    BY DEF ServiceNext, service
  <2>2. (part = "analysis" /\ Next) \/ UNCHANGED vars
    BY DEF ServiceNext, service, analysis
  <2>3. CASE part = "analysis"
    <3>1. Scan \/ UNCHANGED <<doc, mode, gate>>
      BY <2>2 DEF Next, IndexDocument, BuildPrompt, RetrievalFails, RunAgent, ComposeReport, vars
    <3>. QED  BY <2>1, <2>3, <3>1, ScanOK, GateRests, SMTT(20) DEF GatePart
  <2>4. CASE part # "analysis"
    BY <2>1, <2>2, <2>4 DEF GatePart, NoAnalysis, vars
  <2>. QED  BY <2>3, <2>4
<1>. QED  BY <1>1, <1>2, PTL DEF ServiceSpec

LEMMA KnownStops == GateInv => KnownInstructionStops
<1>. SUFFICES ASSUME GateInv, AllowsAnalysis(gate), NEW m \in doc.marks, m.severity >= HIGH,
                     m.form \notin {"court", "vague"}, m.form = "split" => NearBoundary(doc, m)
              PROVE  FALSE
  BY DEF KnownInstructionStops
<1>1. doc \in Documents /\ gate.at = "assessed" /\ RiskLevel(gate) <= MEDIUM
  BY DEF GateInv, GateTypeOK, AllowsAnalysis
<1>2. gate.complete
  BY <1>1 DEF RiskLevel, MEDIUM, CRITICAL
<1>3. PICK f \in RuleFindings(doc) : f.severity >= HIGH
  BY <1>1, StrongMarkIsFound
<1>4. PICK g \in gate.findings : g.severity >= f.severity
  BY <1>1, <1>2, <1>3 DEF GateInv, RulesAreKept, CoveredBy
<1>5. IsFinding(f) /\ IsFinding(g)
  BY <1>1, RulesFind DEF GateInv, GateTypeOK
<1>. DEFINE severities == {NONE} \cup {h.severity : h \in gate.findings}
<1>6. severities \subseteq NONE .. CRITICAL /\ g.severity \in severities
  BY DEF GateInv, GateTypeOK, IsFinding, NONE, CRITICAL
<1>7. RiskLevel(gate) = Max(severities)
  BY <1>2 DEF RiskLevel
<1>. HIDE DEF severities
<1>8. g.severity <= Max(severities) /\ Max(severities) \in NONE .. CRITICAL
  BY <1>6, MaxOfSeverities
<1>. QED  BY <1>1, <1>3, <1>4, <1>5, <1>7, <1>8 DEF IsFinding, NONE, MEDIUM, HIGH, CRITICAL

LEMMA RestingGate ==
  NoAnalysis => KnownInstructionStops /\ ReviewOnlyAdds /\ StrictReadsEverything
BY DEF NoAnalysis, Unscanned, KnownInstructionStops, ReviewOnlyAdds, StrictReadsEverything,
       AllowsAnalysis

\* No document goes on to the analysis with a strong instruction that the rules
\* know (build_assessment, scan): not when it is hidden in a comment or encoded,
\* when the page is broken in it, when the strongest of two findings of one
\* quote is kept, nor whatever the reviewer answers or when it fails: for any
\* documents.
THEOREM KnownInstructionsStop == ServiceSpec => []KnownInstructionStops
<1>1. GatePart => KnownInstructionStops
  BY KnownStops, RestingGate DEF GatePart, GateAndReading
<1>. QED  BY <1>1, GatePartOK, PTL

\* The reviewer takes nothing from what the rules found, and what it adds is a
\* quote from a passage that it was shown, never critical (_semantic_review,
\* _deduplicate_findings): for any documents and any answers.
THEOREM ReviewerOnlyAdds == ServiceSpec => []ReviewOnlyAdds
<1>1. GatePart => ReviewOnlyAdds
  <2>1. GateInv => ReviewOnlyAdds
    BY DEF GateInv, RulesAreKept, CoveredBy, AddedWasRead, ReviewOnlyAdds
  <2>. QED  BY <2>1, RestingGate DEF GatePart, GateAndReading
<1>. QED  BY <1>1, GatePartOK, PTL

LEMMA StrictHasRead == GateAndReading => StrictReadsEverything
<1>. SUFFICES ASSUME GateAndReading, mode = "strict", AllowsAnalysis(gate),
                     NEW p \in DOMAIN doc.pages, NEW from \in 1 .. Len(Page(doc, p))
              PROVE  \E span \in gate.read : InSpan(Passage(doc, p, from), span)
  BY DEF StrictReadsEverything, Passage
<1>1. doc \in Documents /\ gate.at = "assessed" /\ RiskLevel(gate) <= MEDIUM
  BY DEF GateAndReading, GateInv, GateTypeOK, AllowsAnalysis
<1>2. gate.complete
  BY <1>1 DEF RiskLevel, MEDIUM, CRITICAL
<1>3. ToSet(AllSemanticCandidates(doc)) \subseteq gate.read
  <2>1. gate.batches = <<>> /\ ToSet(AllSemanticCandidates(doc)) \subseteq gate.read \cup Batched(<<>>)
    BY <1>1, <1>2 DEF GateAndReading, AllIsRead
  <2>2. Batched(<<>>) = {}
    BY DEF Batched
  <2>. QED  BY <2>1, <2>2
<1>4. \E w \in ToSet(AllSemanticCandidates(doc)) : InSpan(Passage(doc, p, from), w)
  BY <1>1, CandidatesCover
<1>. QED  BY <1>3, <1>4

\* A document that passes a strict scan has been read: the reviewer answered for
\* every passage of every page that fits into the overlap of two windows,
\* however the pages fall into windows and the windows into batches, and
\* whichever call failed or budget ran out on the way (scan,
\* _all_semantic_candidates, _candidate_batches): for any pages and budgets.
THEOREM StrictScanReadsAll == ServiceSpec => []StrictReadsEverything
<1>1. GatePart => StrictReadsEverything
  BY StrictHasRead, RestingGate DEF GatePart
<1>. QED  BY <1>1, GatePartOK, PTL

-----------------------------------------------------------------------------
(* What a balanced scan reads. *)

\* What the order of the findings looks at.
FindingRank(f) ==
  <<CRITICAL - f.severity, f.page, IF f.category = "control" THEN 0 ELSE 1,
    f.from, f.to, IF f.end = None THEN 0 ELSE f.end>>

\* The first difference decides.
Precedes(u, v) == \E k \in 1 .. 6 : u[k] < v[k] /\ \A j \in 1 .. k - 1 : u[j] = v[j]

LEMMA FirstDifference ==
  ASSUME NEW u \in [1 .. 6 -> Int], NEW v \in [1 .. 6 -> Int]
  PROVE  u = v \/ Precedes(u, v) \/ Precedes(v, u)
<1>. DEFINE differ == {k \in 1 .. 6 : u[k] # v[k]}
<1>1. CASE differ = {}
  <2>1. \A k \in 1 .. 6 : u[k] = v[k]
    BY <1>1
  <2>. QED  BY <2>1
<1>2. CASE differ # {}
  <2>1. PICK k \in differ : \A j \in differ : k <= j
    BY <1>2, Parsing!LeastNumber
  <2>2. k \in 1 .. 6 /\ u[k] # v[k] /\ u[k] \in Int /\ v[k] \in Int
    OBVIOUS
  <2>3. \A j \in 1 .. k - 1 : u[j] = v[j]
    BY <2>1, <2>2
  <2>4. u[k] < v[k] \/ v[k] < u[k]
    BY <2>2
  <2>. HIDE DEF differ
  <2>. QED  BY <2>2, <2>3, <2>4 DEF Precedes
<1>. QED  BY <1>1, <1>2

LEMMA PrecedesGoesOn ==
  ASSUME NEW u \in [1 .. 6 -> Int], NEW v \in [1 .. 6 -> Int], NEW w \in [1 .. 6 -> Int],
         Precedes(u, v), Precedes(v, w)
  PROVE  Precedes(u, w)
<1>1. PICK k \in 1 .. 6 : u[k] < v[k] /\ \A j \in 1 .. k - 1 : u[j] = v[j]
  BY DEF Precedes
<1>2. PICK l \in 1 .. 6 : v[l] < w[l] /\ \A j \in 1 .. l - 1 : v[j] = w[j]
  BY DEF Precedes
<1>3. /\ u[k] \in Int /\ v[k] \in Int /\ w[k] \in Int
      /\ u[l] \in Int /\ v[l] \in Int /\ w[l] \in Int
  OBVIOUS
<1>4. CASE k <= l
  <2>1. u[k] < w[k]
    BY <1>1, <1>2, <1>3, <1>4
  <2>2. \A j \in 1 .. k - 1 : j \in 1 .. l - 1
    BY <1>4
  <2>3. \A j \in 1 .. k - 1 : u[j] = w[j]
    BY <1>1, <1>2, <2>2
  <2>. QED  BY <2>1, <2>3 DEF Precedes
<1>5. CASE l < k
  <2>1. u[l] < w[l]
    BY <1>1, <1>2, <1>3, <1>5
  <2>2. \A j \in 1 .. l - 1 : j \in 1 .. k - 1
    BY <1>5
  <2>3. \A j \in 1 .. l - 1 : u[j] = w[j]
    BY <1>1, <1>2, <2>2
  <2>. QED  BY <2>1, <2>3 DEF Precedes
<1>. QED  BY <1>4, <1>5

\* A finding of the rules is known by what it says.
IsRuleFinding(f) ==
  /\ f = FindingAt(f, f.end, f.category, f.severity, "rule")
  /\ f.page \in Nat /\ f.from \in Nat \ {0} /\ f.to \in Nat
  /\ f.severity \in NONE .. CRITICAL /\ f.category \in {"control", "obfuscated"}
  /\ f.end = None \/ f.end \in Nat \ {0}

LEMMA RuleFindingsAreKnown ==
  ASSUME NEW d \in Documents, NEW f \in RuleFindings(d)
  PROVE  IsRuleFinding(f)
<1>1. \A g \in UNION {FoundBy(d, m) : m \in d.marks} : IsFinding(g)
  BY RulesFind
<1>2. f \in UNION {FoundBy(d, m) : m \in d.marks}
  BY <1>1, DeduplicateKeeps DEF RuleFindings
<1>3. PICK m \in d.marks : f \in FoundBy(d, m)
  BY <1>2
<1>4. PICK category \in {"control", "obfuscated"},
          severity \in {m.severity, Max({m.severity, HIGH})} :
        f = Finding(d, m, category, severity)
  BY <1>3 DEF FoundBy
<1>. DEFINE span == QuotedSpan(d, m)
            end  == IF m.form = "split" THEN m.page + 1 ELSE None
<1>5. /\ span.page = m.page /\ m.page \in DOMAIN d.pages
      /\ span.from \in Nat \ {0} /\ span.to \in Nat
  BY QuotedSpanFacts
<1>6. m.page \in Nat
  BY <1>5, DocumentsAssumption
<1>7. f = FindingAt(span, end, category, severity, "rule")
  BY <1>4 DEF Finding
<1>8. end = None \/ end \in Nat \ {0}
  BY <1>6
<1>9. f.severity \in NONE .. CRITICAL
  BY RulesFind DEF IsFinding
<1>. HIDE DEF span, end
<1>10. /\ f.page = span.page /\ f.from = span.from /\ f.to = span.to /\ f.end = end
       /\ f.category = category /\ f.severity = severity
  BY <1>7 DEF FindingAt
<1>11. f = FindingAt(f, f.end, f.category, f.severity, "rule")
  BY <1>7, <1>10 DEF FindingAt
<1>. QED  BY <1>5, <1>6, <1>8, <1>9, <1>10, <1>11 DEF IsRuleFinding

\* No two findings are at one place of the list.
LEMMA FindingsHaveOrder ==
  ASSUME NEW findings, IsFiniteSet(findings), \A f \in findings : IsRuleFinding(f)
  PROVE  IsOrder(findings, {p \in findings \X findings : ComesFirst(p[1], p[2])})
<1>. DEFINE before == {p \in findings \X findings : ComesFirst(p[1], p[2])}
<1>1. \A f, g \in findings : <<f, g>> \in before <=> Precedes(FindingRank(f), FindingRank(g))
  BY DEF ComesFirst, Precedes, FindingRank
<1>2. ASSUME NEW f \in findings PROVE FindingRank(f) \in [1 .. 6 -> Int]
  <2>. DEFINE a == CRITICAL - f.severity
              b == IF f.category = "control" THEN 0 ELSE 1
              c == IF f.end = None THEN 0 ELSE f.end
  <2>1. a \in Int /\ b \in Int /\ c \in Int /\ f.page \in Int /\ f.from \in Int /\ f.to \in Int
    BY DEF IsRuleFinding, NONE, CRITICAL
  <2>2. FindingRank(f) = <<a, f.page, b, f.from, f.to, c>>
    BY DEF FindingRank
  <2>. HIDE DEF a, b, c
  <2>. QED  BY <2>1, <2>2
<1>3. ASSUME NEW f \in findings, NEW g \in findings, FindingRank(f) = FindingRank(g) PROVE f = g
  <2>1. IsRuleFinding(f) /\ IsRuleFinding(g)
    OBVIOUS
  <2>2. \A k \in 1 .. 6 : FindingRank(f)[k] = FindingRank(g)[k]
    BY <1>3
  <2>3. /\ CRITICAL - f.severity = CRITICAL - g.severity /\ f.page = g.page
        /\ (IF f.category = "control" THEN 0 ELSE 1) = (IF g.category = "control" THEN 0 ELSE 1)
        /\ f.from = g.from /\ f.to = g.to
        /\ (IF f.end = None THEN 0 ELSE f.end) = (IF g.end = None THEN 0 ELSE g.end)
    BY <2>2 DEF FindingRank
  <2>4. f.severity = g.severity /\ f.category = g.category /\ f.end = g.end
    BY <2>1, <2>3 DEF IsRuleFinding, NONE, CRITICAL
  <2>. QED  BY <2>1, <2>3, <2>4 DEF IsRuleFinding, FindingAt
<1>4. ASSUME NEW f \in findings PROVE <<f, f>> \notin before
  <2>1. \A k \in 1 .. 6 : FindingRank(f)[k] \in Int
    BY <1>2
  <2>. QED  BY <1>1, <2>1 DEF Precedes
<1>. HIDE DEF before
<1>5. ASSUME NEW f \in findings, NEW g \in findings
      PROVE  f = g \/ <<f, g>> \in before \/ <<g, f>> \in before
  <2>. DEFINE u == FindingRank(f)
              v == FindingRank(g)
  <2>1. u \in [1 .. 6 -> Int] /\ v \in [1 .. 6 -> Int] /\ (u = v => f = g)
    BY <1>2, <1>3
  <2>. HIDE DEF u, v
  <2>2. u = v \/ Precedes(u, v) \/ Precedes(v, u)
    BY <2>1, FirstDifference
  <2>. QED  BY <1>1, <2>1, <2>2 DEF u, v
<1>6. ASSUME NEW f \in findings, NEW g \in findings, NEW h \in findings,
             <<f, g>> \in before, <<g, h>> \in before
      PROVE  <<f, h>> \in before
  <2>. DEFINE u == FindingRank(f)
              v == FindingRank(g)
              w == FindingRank(h)
  <2>1. u \in [1 .. 6 -> Int] /\ v \in [1 .. 6 -> Int] /\ w \in [1 .. 6 -> Int]
    BY <1>2
  <2>2. Precedes(u, v) /\ Precedes(v, w)
    BY <1>1, <1>6
  <2>. HIDE DEF u, v, w
  <2>3. Precedes(u, w)
    BY <2>1, <2>2, PrecedesGoesOn
  <2>. QED  BY <1>1, <2>3 DEF u, w
<1>7. IsOrder(findings, before)
  BY <1>4, <1>5, <1>6 DEF IsOrder
<1>. QED  BY <1>7 DEF before

-----------------------------------------------------------------------------
(* Suspicious sentences. *)

\* A stretch ends where the first stop after its start is.
LEMMA StretchEnd ==
  ASSUME NEW text \in Seq({"a", "A", ".", "/"}), NEW k \in 1 .. Len(text), NEW stop
  PROVE  LET s == Stretch(text, k, stop)
         IN s.to = Min({Len(text) + 1} \cup {i \in s.from .. Len(text) : text[i] = stop}) - 1
<1>. DEFINE n     == Len(text)
            stops == {0} \cup {i \in 1 .. k : text[i] = stop /\ i < k}
            from  == Max(stops)
<1>1. n \in Nat /\ k \in 1 .. n
  OBVIOUS
<1>2. from \in stops /\ \A i \in stops : i <= from
  <2>1. stops \subseteq 0 .. k /\ stops # {} /\ k \in Nat
    OBVIOUS
  <2>. HIDE DEF stops
  <2>. QED  BY <2>1, Parsing!MaxOfNumbers DEF Max, Parsing!Max
<1>3. /\ Stretch(text, k, stop).from = from + 1
      /\ Stretch(text, k, stop).to = Min({n + 1} \cup {i \in k .. n : text[i] = stop}) - 1
  BY DEF Stretch
<1>. HIDE DEF from
<1>4. from \in 0 .. k - 1
  BY <1>1, <1>2
<1>5. ASSUME NEW i \in from + 1 .. n, text[i] = stop PROVE i \in k .. n
  <2>1. i \in 1 .. n
    BY <1>1, <1>4
  <2>2. i < k => i \in stops
    BY <1>1, <1>5, <2>1
  <2>. QED  BY <1>1, <1>2, <1>4, <2>1, <2>2
<1>6. {i \in k .. n : text[i] = stop} = {i \in from + 1 .. n : text[i] = stop}
  BY <1>1, <1>4, <1>5
<1>. QED  BY <1>3, <1>6

IsSpan(s) ==
  s = SpanOf(s.page, s.from, s.to) /\ s.page \in Nat /\ s.from \in Nat \ {0} /\ s.to \in Nat

\* A sentence ends where the first stop after its start is.
IsSentence(d, s) ==
  /\ IsSpan(s)
  /\ s.to = Min({Len(Page(d, s.page)) + 1}
                  \cup {i \in s.from .. Len(Page(d, s.page)) : Page(d, s.page)[i] = "."}) - 1

LEMMA SentenceFacts ==
  ASSUME NEW d \in Documents, NEW m \in Suspects(d)
  PROVE  LET s == Sentence(d, m)
         IN /\ IsSentence(d, s) /\ s.page = m.page /\ InSpan(m, s)
            /\ m.from \in Nat \ {0} /\ m.to \in Nat /\ m.from <= m.to
<1>. DEFINE text == Page(d, m.page)
            s    == Stretch(text, m.from, ".")
<1>1. /\ m \in d.marks /\ m.form # "split" /\ InSpan(m, Sentence(d, m))
  BY DEF Suspects, Suspicious
<1>2. /\ m.page \in DOMAIN d.pages /\ m.from \in 1 .. m.to /\ m.to \in Nat
      /\ m.to <= Len(text) /\ text \in Seq({"a", "A", ".", "/"}) /\ m.page \in Nat
  BY <1>1, DocumentsAssumption DEF Page
<1>3. m.from \in 1 .. Len(text) /\ Len(text) \in Nat
  BY <1>2
<1>4. Sentence(d, m) = SpanOf(m.page, s.from, s.to)
  BY DEF Sentence
<1>. HIDE DEF text
<1>5. s.from \in 1 .. m.from /\ s.to \in m.from - 1 .. Len(text)
  BY <1>2, <1>3, StretchFacts
<1>6. s.to = Min({Len(text) + 1} \cup {i \in s.from .. Len(text) : text[i] = "."}) - 1
  BY <1>2, <1>3, StretchEnd
<1>. HIDE DEF s
<1>7. /\ Sentence(d, m).page = m.page /\ Sentence(d, m).from = s.from /\ Sentence(d, m).to = s.to
  BY <1>4 DEF SpanOf
<1>8. s.from \in Nat \ {0} /\ s.to \in Nat
  BY <1>3, <1>5
<1>9. IsSpan(Sentence(d, m))
  BY <1>2, <1>4, <1>7, <1>8 DEF IsSpan
<1>10. Page(d, Sentence(d, m).page) = text
  BY <1>7 DEF text
<1>11. IsSentence(d, Sentence(d, m))
  BY <1>6, <1>7, <1>9, <1>10 DEF IsSentence
<1>. QED  BY <1>1, <1>2, <1>7, <1>11

\* A sentence of a page is known by where it begins.
LEMMA SentencesHaveOrder ==
  ASSUME NEW d \in Documents
  PROVE  LET suspects == {Sentence(d, m) : m \in Suspects(d)}
         IN IsOrder(suspects, {p \in suspects \X suspects : InText(p[1], p[2])})
<1>. DEFINE suspects == {Sentence(d, m) : m \in Suspects(d)}
            before   == {p \in suspects \X suspects : InText(p[1], p[2])}
<1>1. IsFiniteSet(suspects)
  <2>. DEFINE g == [m \in Suspects(d) |-> Sentence(d, m)]
  <2>1. IsFiniteSet(d.marks) /\ Suspects(d) \in SUBSET d.marks
    BY DocumentsAssumption DEF Suspects
  <2>2. IsFiniteSet(Suspects(d))
    BY <2>1, FS_Subset
  <2>3. g \in Surjection(Suspects(d), suspects)
    BY DEF Surjection
  <2>. HIDE DEF suspects, g
  <2>. QED  BY <2>2, <2>3, FS_Surjection
<1>2. \A s, t \in suspects : <<s, t>> \in before <=> InText(s, t)
  OBVIOUS
<1>3. ASSUME NEW s \in suspects PROVE IsSentence(d, s)
  BY SentenceFacts
<1>. HIDE DEF suspects, before
<1>4. ASSUME NEW s \in suspects, NEW t \in suspects, s.page = t.page, s.from = t.from PROVE s = t
  <2>1. IsSentence(d, s) /\ IsSentence(d, t)
    BY <1>3
  <2>2. s.to = t.to
    BY <1>4, <2>1 DEF IsSentence
  <2>. QED  BY <1>4, <2>1, <2>2 DEF IsSentence, IsSpan
<1>5. \A s \in suspects : s.page \in Nat /\ s.from \in Nat
  <2>1. \A s \in suspects : IsSpan(s)
    BY <1>3 DEF IsSentence
  <2>. QED  BY <2>1 DEF IsSpan
<1>6. \A s \in suspects : <<s, s>> \notin before
  BY <1>2, <1>5 DEF InText
<1>7. ASSUME NEW s \in suspects, NEW t \in suspects
      PROVE  s = t \/ <<s, t>> \in before \/ <<t, s>> \in before
  <2>1. s.page = t.page /\ s.from = t.from => s = t
    BY <1>4
  <2>2. s.page \in Nat /\ s.from \in Nat /\ t.page \in Nat /\ t.from \in Nat
    BY <1>5
  <2>3. (s.page = t.page /\ s.from = t.from) \/ InText(s, t) \/ InText(t, s)
    BY <2>2 DEF InText
  <2>. QED  BY <1>2, <2>1, <2>3
<1>8. \A s, t, u \in suspects : <<s, t>> \in before /\ <<t, u>> \in before => <<s, u>> \in before
  BY <1>2, <1>5 DEF InText
<1>9. IsOrder(suspects, before)
  BY <1>1, <1>6, <1>7, <1>8 DEF IsOrder
<1>. QED  BY <1>9 DEF suspects, before

\* The first mark of some, by where it begins, then by where it ends.
FirstMarks(M) == {m \in M : \A n \in M : m.from < n.from \/ (m.from = n.from /\ m.to <= n.to)}

LEMMA SomeMarkIsFirst ==
  ASSUME NEW M, M # {}, \A m \in M : m.from \in Nat /\ m.to \in Nat
  PROVE  FirstMarks(M) # {}
<1>. DEFINE froms == {m.from : m \in M}
<1>1. froms \subseteq Nat /\ froms # {}
  OBVIOUS
<1>. HIDE DEF froms
<1>2. PICK i \in froms : \A j \in froms : i <= j
  BY <1>1, Parsing!LeastNumber
<1>. DEFINE tos == {m.to : m \in {m \in M : m.from = i}}
<1>3. tos \subseteq Nat /\ tos # {}
  BY <1>2 DEF froms
<1>. HIDE DEF tos
<1>4. PICK k \in tos : \A j \in tos : k <= j
  BY <1>3, Parsing!LeastNumber
<1>5. PICK m \in M : m.from = i /\ m.to = k
  BY DEF tos
<1>6. ASSUME NEW n \in M PROVE m.from < n.from \/ (m.from = n.from /\ m.to <= n.to)
  <2>1. i <= n.from /\ n.from \in Nat /\ i \in Nat
    BY <1>1, <1>2 DEF froms
  <2>2. n.from = i => k <= n.to
    BY <1>4 DEF tos
  <2>. QED  BY <1>5, <2>1, <2>2
<1>. QED  BY <1>5, <1>6 DEF FirstMarks

\* The words that make a sentence suspicious are in it.
LEMMA FocusFacts ==
  ASSUME NEW d \in Documents, NEW s, s \in {Sentence(d, m) : m \in Suspects(d)}
  PROVE  /\ IsSpan(s) /\ IsSpan(Focus(d, s)) /\ InSpan(Focus(d, s), s)
         /\ Focus(d, s).from <= Focus(d, s).to
<1>. DEFINE within  == {m \in Suspects(d) : Sentence(d, m) = s}
            words   == {m \in within : m.form # "marker"}
            markers == {m \in within : m.form = "marker"}
            found   == FirstMarks(words) \cup FirstMarks(markers)
            froms   == {m.from : m \in found}
            tos     == {m.to : m \in found}
<1>1. within # {} /\ words \cup markers = within
  OBVIOUS
<1>2. ASSUME NEW m \in within
      PROVE  /\ m.from \in Nat /\ m.to \in Nat /\ m.from <= m.to
             /\ s.from <= m.from /\ m.to <= s.to /\ IsSpan(s)
  <2>1. IsSentence(d, s) /\ InSpan(m, s) /\ m.from \in Nat /\ m.to \in Nat /\ m.from <= m.to
    BY SentenceFacts
  <2>. QED  BY <2>1 DEF IsSentence, InSpan
<1>3. IsSpan(s)
  BY <1>1, <1>2
<1>4. Focus(d, s) = SpanOf(s.page, Min(froms), Max(tos))
  BY DEF Focus, FirstMarks
<1>5. found # {}
  <2>1. words # {} => FirstMarks(words) # {}
    BY <1>2, SomeMarkIsFirst
  <2>2. markers # {} => FirstMarks(markers) # {}
    BY <1>2, SomeMarkIsFirst
  <2>. QED  BY <1>1, <2>1, <2>2
<1>6. found \subseteq within
  BY DEF FirstMarks
<1>. HIDE DEF within, found
<1>7. froms \subseteq Nat /\ froms # {} /\ \A i \in froms : s.from <= i
  BY <1>2, <1>5, <1>6
<1>8. tos \subseteq 0 .. s.to /\ tos # {} /\ s.to \in Nat
  BY <1>2, <1>3, <1>5, <1>6 DEF IsSpan
<1>9. PICK m \in found : TRUE
  BY <1>5
<1>10. m.from \in froms /\ m.to \in tos /\ m.from <= m.to /\ m.from \in Nat /\ m.to \in Nat
  BY <1>2, <1>6, <1>9
<1>. HIDE DEF froms, tos
<1>11. Min(froms) \in froms /\ \A i \in froms : Min(froms) <= i
  <2>1. PICK i \in froms : \A j \in froms : i <= j
    BY <1>7, Parsing!LeastNumber
  <2>. QED  BY <2>1 DEF Min
<1>12. Max(tos) \in tos /\ \A i \in tos : i <= Max(tos)
  BY <1>8, Parsing!MaxOfNumbers DEF Max, Parsing!Max
<1>. DEFINE from == Min(froms)
            to   == Max(tos)
<1>13. Focus(d, s) = SpanOf(s.page, from, to) /\ from \in froms /\ to \in tos
  BY <1>4, <1>11, <1>12
<1>14. from <= m.from /\ m.to <= to
  BY <1>10, <1>11, <1>12
<1>. HIDE DEF from, to
<1>15. s.from \in Nat \ {0} /\ s.to \in Nat /\ s.page \in Nat
  BY <1>3 DEF IsSpan
<1>16. from \in Nat /\ s.from <= from
  BY <1>7, <1>13
<1>17. to \in Nat /\ to <= s.to
  BY <1>8, <1>13, <1>15
<1>18. from \in Nat \ {0} /\ from <= to
  BY <1>10, <1>14, <1>15, <1>16, <1>17
<1>19. /\ Focus(d, s).page = s.page /\ Focus(d, s).from = from /\ Focus(d, s).to = to
  BY <1>13 DEF SpanOf
<1>. QED  BY <1>3, <1>13, <1>15, <1>16, <1>17, <1>18, <1>19 DEF IsSpan, InSpan

LEMMA GreaterNumber ==
  ASSUME NEW a \in Nat, NEW b \in Int
  PROVE  Max({a, b}) = IF b <= a THEN a ELSE b
<1>. DEFINE m == IF b <= a THEN a ELSE b
<1>1. m \in {a, b} /\ \A y \in {a, b} : y <= m
  OBVIOUS
<1>2. \A x \in {a, b} : (\A y \in {a, b} : y <= x) => x = m
  OBVIOUS
<1>. HIDE DEF m
<1>3. Max({a, b}) = m
  BY <1>1, <1>2 DEF Max
<1>. QED  BY <1>3 DEF m

\* What fits into a passage is in the one that is cut around it.
LEMMA PassageHasFocus ==
  ASSUME NEW s, NEW f, IsSpan(s), IsSpan(f), InSpan(f, s), f.from <= f.to
  PROVE  /\ FocusedPassage(s, f) \in Spans
         /\ Size(f) <= MAX_CANDIDATE_CHARS => InSpan(f, FocusedPassage(s, f))
<1>. DEFINE C      == MAX_CANDIDATE_CHARS
            half   == C \div 2
            length == Size(s)
            a      == f.from - s.from
            b      == f.to - s.from + 1
            middle == (a + b) \div 2
            first  == IF middle - half <= 0 THEN 0 ELSE middle - half
            end    == IF length <= first + C THEN length ELSE first + C
            start  == IF end - C <= 0 THEN 0 ELSE end - C
<1>1. /\ s.from \in Nat \ {0} /\ s.to \in Nat /\ f.from \in Nat /\ f.to \in Nat /\ s.page \in Nat
      /\ f.page = s.page /\ s.from <= f.from /\ f.to <= s.to /\ f.from <= f.to
      /\ s = SpanOf(s.page, s.from, s.to)
  BY DEF IsSpan, InSpan
<1>2. C \in Nat /\ length = s.to - s.from + 1
  BY GateAssumption DEF Size
<1>3. half \in Nat /\ 2 * half <= C /\ C <= 2 * half + 1
  BY <1>2
<1>4. a \in Nat /\ b \in Nat /\ a < b /\ b <= length /\ length \in Nat
  BY <1>1, <1>2
<1>5. s \in Spans
  BY <1>1 DEF SpanOf, Spans
<1>6. CASE length <= C
  <2>1. FocusedPassage(s, f) = s
    BY <1>6 DEF FocusedPassage
  <2>. QED  BY <1>5, <2>1
<1>7. CASE ~(length <= C)
  <2>. HIDE DEF C, half, length, a, b
  <2>1. middle \in Nat /\ 2 * middle <= a + b /\ a + b <= 2 * middle + 1
    BY <1>4
  <2>2. FocusedPassage(s, f)
          = LET e == Min({length, Max({0, middle - half}) + C})
            IN SpanOf(s.page, s.from + Max({0, e - C}), s.from + e - 1)
    <3>1. f.from - s.from + f.to - s.from + 1 = a + b
      BY <1>1 DEF a, b
    <3>. QED  BY <1>7, <3>1 DEF FocusedPassage, C, half, length
  <2>. HIDE DEF middle
  <2>3. Max({0, middle - half}) = first
    BY <1>3, <2>1, GreaterNumber
  <2>4. first \in Nat
    BY <1>3, <2>1
  <2>5. middle - half <= first /\ (first = 0 \/ first = middle - half)
    BY <1>3, <2>1
  <2>. HIDE DEF first
  <2>6. Min({length, first + C}) = end
    BY <1>2, <1>4, <2>4, LesserOfTwo
  <2>7. end \in Nat /\ end <= length /\ end <= first + C /\ (end = length \/ end = first + C)
    BY <1>2, <1>4, <2>4
  <2>. HIDE DEF end
  <2>8. Max({0, end - C}) = start
    BY <1>2, <2>7, GreaterNumber
  <2>9. start \in Nat /\ start <= first
    BY <1>2, <2>4, <2>7
  <2>. HIDE DEF start
  <2>10. FocusedPassage(s, f) = SpanOf(s.page, s.from + start, s.from + end - 1)
    BY <2>2, <2>3, <2>6, <2>8
  <2>11. FocusedPassage(s, f) \in Spans
    BY <1>1, <2>7, <2>9, <2>10 DEF SpanOf, Spans
  <2>12. ASSUME Size(f) <= C PROVE InSpan(f, FocusedPassage(s, f))
    <3>1. b - a <= C
      BY <1>1, <2>12 DEF Size, a, b
    <3>2. middle - half <= a
      BY <1>2, <1>3, <1>4, <2>1, <3>1
    <3>3. first <= a
      BY <1>3, <1>4, <2>1, <2>4, <2>5, <3>2
    <3>4. b <= first + C
      BY <1>2, <1>3, <1>4, <2>1, <2>4, <2>5, <3>1
    <3>5. start <= a /\ b <= end
      BY <1>2, <1>4, <2>4, <2>7, <2>9, <3>3, <3>4
    <3>6. s.from + start <= f.from /\ f.to <= s.from + end - 1
      BY <1>1, <2>7, <2>9, <3>5 DEF a, b
    <3>. QED  BY <1>1, <2>10, <3>6 DEF InSpan, SpanOf
  <2>. QED  BY <2>11, <2>12 DEF C
<1>. QED  BY <1>6, <1>7

-----------------------------------------------------------------------------
(* The list of candidates. *)

CandidateStep(given, list, span) == AddCandidate(list, span)

Listing == INSTANCE FoldLemmas WITH Op <- CandidateStep

\* A list without repetition, full or with all that was to be listed.
IsListOf(list, given) ==
  /\ list \in Seq(Spans) /\ AreDistinct(list, Len(list)) /\ Len(list) <= MAX_CANDIDATES
  /\ Len(list) = MAX_CANDIDATES \/ given \subseteq ToSet(list)

LEMMA AddCandidateOK ==
  ASSUME NEW list, NEW given, IsListOf(list, given), NEW span \in Spans
  PROVE  IsListOf(AddCandidate(list, span), given \cup {span})
<1>. DEFINE n == Len(list)
            new == Append(list, span)
<1>1. /\ list \in Seq(Spans) /\ AreDistinct(list, n) /\ n <= MAX_CANDIDATES
      /\ n = MAX_CANDIDATES \/ given \subseteq ToSet(list)
  BY DEF IsListOf
<1>2. n \in Nat /\ DOMAIN list = 1 .. n /\ MAX_CANDIDATES \in Nat
  BY <1>1, GateAssumption
<1>3. Contains(list, span) <=> span \in ToSet(list)
  BY DEF Contains, ToSet
<1>4. CASE n < MAX_CANDIDATES /\ ~Contains(list, span)
  <2>1. AddCandidate(list, span) = new
    BY <1>4 DEF AddCandidate
  <2>2. new \in Seq(Spans) /\ ToSet(new) = ToSet(list) \cup {span}
    BY <1>1, SetOfAppend
  <2>7. \A i \in 1 .. n : list[i] # span
    BY <1>4 DEF Contains
  <2>8. Len(new) = n + 1 /\ new[n + 1] = span /\ \A i \in 1 .. n : new[i] = list[i]
    BY <1>1
  <2>3. /\ Len(new) = n + 1 /\ new[n + 1] = span
        /\ \A i \in 1 .. n : new[i] = list[i] /\ list[i] # span
    BY <2>7, <2>8
  <2>. HIDE DEF new, n
  <2>4. ASSUME NEW j \in 1 .. n + 1, NEW k \in 1 .. n + 1, new[j] = new[k] PROVE j = k
    <3>1. CASE j \in 1 .. n /\ k \in 1 .. n
      BY <1>1, <2>3, <2>4, <3>1 DEF AreDistinct
    <3>2. CASE j = n + 1 \/ k = n + 1
      <4>1. (j \in 1 .. n \/ j = n + 1) /\ (k \in 1 .. n \/ k = n + 1)
        BY <1>2
      <4>. QED  BY <2>3, <2>4, <3>2, <4>1
    <3>. QED  BY <1>2, <3>1, <3>2
  <2>5. AreDistinct(new, n + 1)
    BY <2>4 DEF AreDistinct
  <2>6. n + 1 <= MAX_CANDIDATES /\ given \cup {span} \subseteq ToSet(new)
    BY <1>1, <1>2, <1>4, <2>2
  <2>. QED  BY <2>1, <2>2, <2>3, <2>5, <2>6 DEF IsListOf
<1>5. CASE ~(n < MAX_CANDIDATES /\ ~Contains(list, span))
  <2>1. AddCandidate(list, span) = list
    BY <1>5 DEF AddCandidate
  <2>. HIDE DEF n
  <2>2. n = MAX_CANDIDATES \/ given \cup {span} \subseteq ToSet(list)
    BY <1>1, <1>2, <1>3, <1>5
  <2>. QED  BY <1>1, <2>1, <2>2 DEF IsListOf, n
<1>. QED  BY <1>4, <1>5

LEMMA ListHoldsAll ==
  ASSUME NEW s \in Seq(Spans)
  PROVE  IsListOf(FoldLeft(AddCandidate, <<>>, s), ToSet(s))
<1>. DEFINE n     == Len(s)
            start == <<>>
            list  == Listing!Fold(0, start, s)
            Given(k) == {s[j] : j \in 1 .. k}
<1>1. FoldLeft(AddCandidate, <<>>, s) = list
  BY DEF FoldLeft, MapThenFoldSet, Listing!Fold, Max, Listing!Max, CandidateStep
<1>2. n \in Nat /\ DOMAIN s = 1 .. n /\ \A k \in 1 .. n : s[k] \in Spans
  OBVIOUS
<1>3. IsListOf(start, {})
  <2>1. start \in Seq(Spans) /\ Len(start) = 0
    OBVIOUS
  <2>. HIDE DEF start
  <2>2. AreDistinct(start, Len(start)) /\ Len(start) <= MAX_CANDIDATES
    BY <2>1, GateAssumption DEF AreDistinct
  <2>. QED  BY <2>1, <2>2 DEF IsListOf
<1>. HIDE DEF start
<1>4. PICK F : Listing!IsFold(F, 0, start, s)
  BY <1>2, Listing!FoldHasSteps
<1>5. F[0] = start /\ list = F[n]
  BY <1>4 DEF Listing!IsFold
<1>6. \A k \in 1 .. n : F[k] = AddCandidate(F[k - 1], s[k])
  BY <1>4 DEF Listing!IsFold, CandidateStep
<1>. HIDE DEF n, list
<1>. DEFINE T == {k \in 0 .. n : IsListOf(F[k], Given(k))}
<1>7. 0 \in T
  <2>1. Given(0) = {}
    OBVIOUS
  <2>. HIDE DEF Given
  <2>2. IsListOf(F[0], Given(0))
    BY <1>3, <1>5, <2>1, Zenon
  <2>3. 0 \in 0 .. n
    BY <1>2
  <2>. QED  BY <2>2, <2>3
<1>8. ASSUME NEW k \in 1 .. n, k - 1 \in T PROVE k \in T
  <2>1. IsListOf(F[k - 1], Given(k - 1))
    <3>. HIDE DEF Given
    <3>. QED  BY <1>8
  <2>2. Given(k) = Given(k - 1) \cup {s[k]}
    <3>1. \A j \in 1 .. k : j = k \/ j \in 1 .. k - 1
      BY <1>2
    <3>2. k \in 1 .. k /\ \A j \in 1 .. k - 1 : j \in 1 .. k
      BY <1>2
    <3>. QED  BY <3>1, <3>2
  <2>. HIDE DEF Given
  <2>3. IsListOf(AddCandidate(F[k - 1], s[k]), Given(k - 1) \cup {s[k]})
    BY <1>2, <2>1, AddCandidateOK
  <2>4. k \in 0 .. n
    BY <1>2
  <2>. QED  BY <1>6, <2>2, <2>3, <2>4
<1>9. n \in T
  <2>. HIDE DEF T
  <2>1. \A k \in 0 .. n : k \in T
    BY <1>2, <1>7, <1>8, Listing!RangeInduction
  <2>. QED  BY <1>2, <2>1
<1>10. Given(n) = ToSet(s)
  BY <1>2 DEF ToSet
<1>. HIDE DEF Given
<1>. QED  BY <1>1, <1>5, <1>9, <1>10

\* The list of a balanced scan: each passage once, and each sentence that is
\* suspicious with its words, unless the list is full.
IsReviewList(d, list) ==
  /\ list \in Seq(Spans) /\ AreDistinct(list, Len(list))
  /\ \A m \in Suspects(d) :
       LET focus == Focus(d, Sentence(d, m))
       IN Size(focus) <= MAX_CANDIDATE_CHARS =>
            Len(list) = MAX_CANDIDATES \/ \E span \in ToSet(list) : InSpan(focus, span)

LEMMA CandidatesHaveWords ==
  ASSUME NEW d \in Documents
  PROVE  IsReviewList(d, SemanticCandidates(d, RuleFindings(d)))
<1>. DEFINE findings  == RuleFindings(d)
            suspects  == {Sentence(d, m) : m \in Suspects(d)}
            inList    == {p \in findings \X findings : ComesFirst(p[1], p[2])}
            inText    == {p \in suspects \X suspects : InText(p[1], p[2])}
            quotes    == InOrder(findings, inList)
            sentences == InOrder(suspects, inText)
            quoted    == [i \in DOMAIN quotes |-> Clipped(quotes[i])]
            passage(s) == FocusedPassage(s, Focus(d, s))
            passages  == [i \in DOMAIN sentences |-> passage(sentences[i])]
            list      == FoldLeft(AddCandidate, <<>>, quoted \o passages)
<1>1. SemanticCandidates(d, RuleFindings(d)) = list
  BY DEF SemanticCandidates
<1>2. quoted \in Seq(Spans)
  <2>1. \A f \in findings : IsRuleFinding(f)
    BY RuleFindingsAreKnown
  <2>2. IsFiniteSet(findings)
    BY RulesFind
  <2>. DEFINE n == Cardinality(findings)
  <2>. HIDE DEF findings
  <2>3. IsInOrder(quotes, findings, inList)
    BY <2>1, <2>2, FindingsHaveOrder, InOrderSorts
  <2>. HIDE DEF quotes
  <2>4. n \in Nat /\ DOMAIN quotes = 1 .. n /\ \A i \in 1 .. n : quotes[i] \in findings
    BY <2>3 DEF IsInOrder
  <2>5. \A f \in findings : Clipped(f) \in Spans
    <3>. SUFFICES ASSUME NEW f \in findings PROVE Clipped(f) \in Spans
      OBVIOUS
    <3>. DEFINE cut == f.from + MAX_CANDIDATE_CHARS - 1
    <3>1. f.page \in Nat /\ f.from \in Nat /\ f.to \in Nat /\ cut \in Int
      BY <2>1, GateAssumption DEF IsRuleFinding
    <3>2. Clipped(f) = SpanOf(f.page, f.from, Min({f.to, cut}))
      BY DEF Clipped
    <3>. HIDE DEF cut
    <3>3. Min({f.to, cut}) \in Int
      BY <3>1, LesserOfTwo
    <3>. QED  BY <3>1, <3>2, <3>3 DEF SpanOf, Spans
  <2>. HIDE DEF n
  <2>6. quoted = [i \in 1 .. n |-> quoted[i]] /\ \A i \in 1 .. n : quoted[i] \in Spans
    BY <2>4, <2>5
  <2>. HIDE DEF quoted
  <2>. QED  BY <2>4, <2>6, FunctionIsSeq
<1>3. /\ passages \in Seq(Spans)
      /\ \A s \in suspects : passage(s) \in ToSet(passages)
      /\ \A s \in suspects : Size(Focus(d, s)) <= MAX_CANDIDATE_CHARS =>
                                InSpan(Focus(d, s), passage(s))
  <2>1. IsInOrder(sentences, suspects, inText)
    BY SentencesHaveOrder, InOrderSorts
  <2>2. ASSUME NEW s \in suspects
        PROVE  /\ passage(s) \in Spans
               /\ Size(Focus(d, s)) <= MAX_CANDIDATE_CHARS => InSpan(Focus(d, s), passage(s))
    <3>1. /\ IsSpan(s) /\ IsSpan(Focus(d, s)) /\ InSpan(Focus(d, s), s)
          /\ Focus(d, s).from <= Focus(d, s).to
      BY FocusFacts
    <3>. QED  BY <3>1, PassageHasFocus
  <2>. DEFINE n == Cardinality(suspects)
  <2>. HIDE DEF sentences, suspects, passage
  <2>3. /\ n \in Nat /\ DOMAIN sentences = 1 .. n /\ \A i \in 1 .. n : sentences[i] \in suspects
        /\ \A s \in suspects : \E i \in 1 .. n : sentences[i] = s
    BY <2>1 DEF IsInOrder
  <2>. HIDE DEF n
  <2>4. /\ DOMAIN passages = 1 .. n
        /\ \A i \in 1 .. n : passages[i] = passage(sentences[i])
        /\ passages = [i \in 1 .. n |-> passages[i]]
    BY <2>3
  <2>5. \A i \in 1 .. n : passages[i] \in Spans
    BY <2>2, <2>3, <2>4
  <2>. HIDE DEF passages
  <2>6. passages \in Seq(Spans)
    BY <2>3, <2>4, <2>5, FunctionIsSeq
  <2>7. ASSUME NEW s \in suspects PROVE passage(s) \in ToSet(passages)
    <3>1. PICK i \in 1 .. n : sentences[i] = s
      BY <2>3
    <3>. QED  BY <2>4, <3>1 DEF ToSet
  <2>. QED  BY <2>2, <2>6, <2>7
<1>. HIDE DEF quoted, passages
<1>4. /\ quoted \o passages \in Seq(Spans)
      /\ ToSet(passages) \subseteq ToSet(quoted \o passages)
  BY <1>2, <1>3, SetOfConcat
<1>5. IsListOf(list, ToSet(quoted \o passages))
  BY <1>4, ListHoldsAll
<1>. HIDE DEF list
<1>6. ASSUME NEW m \in Suspects(d), Size(Focus(d, Sentence(d, m))) <= MAX_CANDIDATE_CHARS
      PROVE  Len(list) = MAX_CANDIDATES
               \/ \E span \in ToSet(list) : InSpan(Focus(d, Sentence(d, m)), span)
  <2>1. Sentence(d, m) \in suspects
    OBVIOUS
  <2>. DEFINE s == Sentence(d, m)
  <2>. HIDE DEF s, suspects, passage
  <2>2. passage(s) \in ToSet(passages) /\ InSpan(Focus(d, s), passage(s))
    BY <1>3, <1>6, <2>1 DEF s
  <2>. QED  BY <1>4, <1>5, <2>2 DEF IsListOf, s
<1>. QED  BY <1>1, <1>5, <1>6 DEF IsReviewList, IsListOf

LEMMA ValuesAreSet ==
  ASSUME NEW list \in Seq(Spans), AreDistinct(list, Len(list))
  PROVE  Cardinality(ToSet(list)) = Len(list)
<1>1. Len(list) \in Nat /\ ToSet(list) = ValuesOf(list, Len(list))
  BY DEF ToSet, ValuesOf
<1>. QED  BY <1>1, CountOnce

-----------------------------------------------------------------------------
(* How far a balanced review is: what is to come and what was read are the *)
(* candidates, and nothing is reviewed before the last batch.              *)

ReviewList == SemanticCandidates(doc, RuleFindings(doc))

ReviewInv ==
  /\ gate.at \in {"rules", "choose"} => gate.read = {}
  /\ gate.at # "assessed" => ~gate.reviewed
  /\ gate.at = "choose" => gate.findings = RuleFindings(doc)
  /\ mode = "balanced" /\ gate.at = "review" =>
       /\ gate.batches \in Seq(Seq(Spans)) /\ gate.batches # <<>>
       /\ gate.read \cup Batched(gate.batches) = ToSet(ReviewList)
  /\ mode = "balanced" /\ gate.at = "assessed" /\ gate.reviewed => gate.read = ToSet(ReviewList)

LEMMA ReviewHasRead == GateInv /\ ReviewInv => ReviewedMeansRead
<1>. SUFFICES ASSUME GateInv, ReviewInv, mode = "balanced", gate.at = "assessed", gate.reviewed,
                     NEW m \in Suspects(doc),
                     Size(Focus(doc, Sentence(doc, m))) <= MAX_CANDIDATE_CHARS
              PROVE  \/ Cardinality(gate.read) = MAX_CANDIDATES
                     \/ \E span \in gate.read : InSpan(Focus(doc, Sentence(doc, m)), span)
  BY DEF ReviewedMeansRead
<1>1. gate.read = ToSet(ReviewList) /\ doc \in Documents
  BY DEF ReviewInv, GateInv, GateTypeOK
<1>2. IsReviewList(doc, ReviewList)
  BY <1>1, CandidatesHaveWords DEF ReviewList
<1>3. ReviewList \in Seq(Spans) /\ AreDistinct(ReviewList, Len(ReviewList))
  BY <1>2 DEF IsReviewList
<1>4. Cardinality(gate.read) = Len(ReviewList)
  BY <1>1, <1>3, ValuesAreSet
<1>5. Len(ReviewList) = MAX_CANDIDATES
        \/ \E span \in ToSet(ReviewList) : InSpan(Focus(doc, Sentence(doc, m)), span)
  BY <1>2 DEF IsReviewList
<1>. QED  BY <1>1, <1>4, <1>5

LEMMA ReviewInitOK == GateInit => ReviewInv
BY DEF GateInit, Unscanned, ReviewInv

LEMMA ReviewRests == ReviewInv /\ UNCHANGED <<doc, mode, gate>> => ReviewInv'
BY DEF ReviewInv, ReviewList

LEMMA ReviewScanOK == ASSUME GateInv, ReviewInv, Scan PROVE ReviewInv'
<1>0. /\ gate = [at |-> gate.at, findings |-> gate.findings, batches |-> gate.batches,
                 read |-> gate.read, complete |-> gate.complete, reviewed |-> gate.reviewed]
      /\ doc \in Documents
  BY DEF GateInv, GateTypeOK
<1>1. CASE ScanRules
  <2>. DEFINE found == RuleFindings(doc)
  <2>1. /\ gate' = [gate EXCEPT !.at = "choose", !.findings = found]
        /\ doc' = doc /\ mode' = mode /\ gate.at = "rules"
    BY <1>1 DEF ScanRules
  <2>2. RuleFindings(doc)' = found
    BY <2>1
  <2>. HIDE DEF found
  <2>3. /\ gate'.at = "choose" /\ gate'.findings = found /\ gate'.read = gate.read
        /\ gate'.reviewed = gate.reviewed
    BY <1>0, <2>1
  <2>. QED  BY <2>1, <2>2, <2>3 DEF ReviewInv
<1>2. CASE RuleScanFails
  <2>1. /\ gate' = [gate EXCEPT !.at = "assessed", !.complete = FALSE]
        /\ doc' = doc /\ mode' = mode /\ gate.at = "rules"
    BY <1>2 DEF RuleScanFails
  <2>2. gate'.at = "assessed" /\ gate'.reviewed = gate.reviewed
    BY <1>0, <2>1
  <2>. QED  BY <2>1, <2>2 DEF ReviewInv
<1>3. CASE ChooseCandidates
  <2>. DEFINE batches == CandidateBatches(Candidates(doc, gate.findings))
              over    == OverBudget(batches)
  <2>1. /\ gate'.at = IF over \/ batches = <<>> THEN "assessed" ELSE "review"
        /\ gate'.batches = IF over THEN <<>> ELSE batches
        /\ gate'.read = gate.read
        /\ gate'.reviewed = (mode = "strict" /\ ~over /\ batches = <<>>)
    BY <1>3, ChooseOK
  <2>2. doc' = doc /\ mode' = mode /\ gate.at = "choose"
    BY <1>3 DEF ChooseCandidates
  <2>3. gate.read = {} /\ gate.findings = RuleFindings(doc)
    BY <2>2 DEF ReviewInv
  <2>4. ASSUME mode = "balanced"
        PROVE  /\ batches \in Seq(Seq(Spans)) /\ Batched(batches) = ToSet(ReviewList)
    <3>1. Candidates(doc, gate.findings) = ReviewList
      BY <2>3, <2>4 DEF Candidates, ReviewList
    <3>2. ReviewList \in Seq(Spans)
      BY <1>0, CandidatesHaveWords DEF ReviewList, IsReviewList
    <3>. QED  BY <3>1, <3>2, BatchesHoldAll
  <2>5. mode = "balanced" => ~over
    BY DEF OverBudget
  <2>6. ReviewList' = ReviewList
    BY <2>2 DEF ReviewList
  <2>. HIDE DEF batches, over
  <2>7. gate'.reviewed => mode = "strict" /\ batches = <<>> /\ ~over
    BY <2>1
  <2>8. gate'.at \in {"review", "assessed"} /\ (gate'.at = "review" => ~over /\ batches # <<>>)
    BY <2>1
  <2>9. gate'.at # "assessed" => ~gate'.reviewed
    BY <2>1, <2>7, <2>8
  <2>10. ~(mode = "balanced" /\ gate'.reviewed)
    BY <2>7
  <2>11. ASSUME mode = "balanced", gate'.at = "review"
         PROVE  /\ gate'.batches \in Seq(Seq(Spans)) /\ gate'.batches # <<>>
                /\ gate'.read \cup Batched(gate'.batches) = ToSet(ReviewList)
    BY <2>1, <2>3, <2>4, <2>8, <2>11
  <2>. QED  BY <2>2, <2>6, <2>8, <2>9, <2>10, <2>11 DEF ReviewInv
<1>4. ASSUME NEW claims \in SUBSET Claims, IsFiniteSet(claims), SemanticReview(claims)
      PROVE  ReviewInv'
  <2>1. /\ gate'.at = IF Len(gate.batches) = 1 THEN "assessed" ELSE gate.at
        /\ gate'.batches = Tail(gate.batches)
        /\ gate'.read = gate.read \cup ToSet(Head(gate.batches))
        /\ gate'.reviewed = (Len(gate.batches) = 1)
    BY <1>4, ReviewOK
  <2>2. doc' = doc /\ mode' = mode /\ gate.at = "review"
    BY <1>4 DEF SemanticReview
  <2>3. ReviewList' = ReviewList
    BY <2>2 DEF ReviewList
  <2>4. gate'.at \in {"review", "assessed"} /\ (gate'.at # "assessed" => ~gate'.reviewed)
    BY <2>1, <2>2
  <2>5. ASSUME mode = "balanced"
        PROVE  /\ gate'.at = "review" =>
                    /\ gate'.batches \in Seq(Seq(Spans)) /\ gate'.batches # <<>>
                    /\ gate'.read \cup Batched(gate'.batches) = ToSet(ReviewList)
               /\ gate'.at = "assessed" => gate'.read = ToSet(ReviewList)
    <3>1. /\ gate.batches \in Seq(Seq(Spans)) /\ gate.batches # <<>>
          /\ gate.read \cup Batched(gate.batches) = ToSet(ReviewList)
      BY <2>2, <2>5 DEF ReviewInv
    <3>2. /\ Tail(gate.batches) \in Seq(Seq(Spans))
          /\ Tail(gate.batches) = <<>> <=> Len(gate.batches) = 1
          /\ Batched(gate.batches) = ToSet(Head(gate.batches)) \cup Batched(Tail(gate.batches))
      BY <3>1, FirstBatch
    <3>3. CASE Len(gate.batches) = 1
      <4>1. Batched(Tail(gate.batches)) = {}
        BY <3>2, <3>3 DEF Batched
      <4>2. gate'.at = "assessed"
        BY <2>1, <3>3
      <4>. QED  BY <2>1, <3>1, <3>2, <4>1, <4>2
    <3>4. CASE Len(gate.batches) # 1
      <4>1. gate'.at = "review" /\ gate'.batches # <<>>
        BY <2>1, <2>2, <3>2, <3>4
      <4>. QED  BY <2>1, <3>1, <3>2, <4>1
    <3>. QED  BY <3>3, <3>4
  <2>. QED  BY <2>2, <2>3, <2>4, <2>5 DEF ReviewInv
<1>5. CASE SemanticReviewFails
  <2>. DEFINE complete == mode # "strict"
              none     == <<>>
  <2>1. /\ gate' = [gate EXCEPT !.at = "assessed", !.batches = none, !.complete = complete]
        /\ doc' = doc /\ mode' = mode /\ gate.at = "review"
    BY <1>5 DEF SemanticReviewFails
  <2>. HIDE DEF complete, none
  <2>2. gate'.at = "assessed" /\ gate'.reviewed = gate.reviewed
    BY <1>0, <2>1
  <2>. QED  BY <2>1, <2>2 DEF ReviewInv
<1>6. \A claims \in {{}} \cup {{c} : c \in Claims} : claims \in SUBSET Claims /\ IsFiniteSet(claims)
  BY FS_EmptySet, FS_Singleton
<1>. QED  BY <1>1, <1>2, <1>3, <1>4, <1>5, <1>6 DEF Scan

\* The review while a document is analysed; gates that rest are as they began.
ReviewPart == part = "analysis" => ReviewInv

\* A review that counts as done was done: what made a sentence suspicious was
\* in front of the reviewer, if it fits into a passage and the list of
\* candidates was not full, whatever the findings, their order and the batches
\* (prompt_injection.py, _semantic_candidates, _candidate_batches and scan).
THEOREM ReviewIsDone == ServiceSpec => []ReviewedMeansRead
<1>1. ServiceInit => ReviewPart
  BY ReviewInitOK DEF ServiceInit, ReviewPart, Init, NoAnalysis
<1>2. GatePart /\ ReviewPart /\ [ServiceNext]_service => ReviewPart'
  <2>. SUFFICES ASSUME GatePart, ReviewPart, [ServiceNext]_service
                PROVE  ReviewPart'
    OBVIOUS
  <2>1. part' = part
    BY DEF ServiceNext, service
  <2>2. ASSUME part = "analysis"
        PROVE  ReviewInv'
    <3>1. Next \/ UNCHANGED vars
      BY <2>2 DEF ServiceNext, service, analysis
    <3>2. Scan \/ UNCHANGED <<doc, mode, gate>>
      BY <3>1, Zenon DEF Next, IndexDocument, BuildPrompt, RetrievalFails, RunAgent,
                          ComposeReport, vars
    <3>3. GateInv /\ ReviewInv
      BY <2>2 DEF GatePart, GateAndReading, ReviewPart
    <3>. QED  BY <3>2, <3>3, ReviewScanOK, ReviewRests
  <2>. QED  BY <2>1, <2>2 DEF ReviewPart
<1>3. GatePart /\ ReviewPart => ReviewedMeansRead
  <2>1. CASE part = "analysis"
    BY <2>1, ReviewHasRead DEF GatePart, GateAndReading, ReviewPart
  <2>2. CASE part # "analysis"
    BY <2>2 DEF GatePart, NoAnalysis, ReviewedMeansRead, Unscanned
  <2>. QED  BY <2>1, <2>2
<1>. QED  BY <1>1, <1>2, <1>3, GatePartOK, PTL DEF ServiceSpec
=============================================================================
