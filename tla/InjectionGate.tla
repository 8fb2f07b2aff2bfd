---------------------------- MODULE InjectionGate ----------------------------
(***************************************************************************)
(* The prompt-injection gate from the inside (security/prompt_injection.py)*)
(* where AnalysisJob takes its assessment as an input: the deterministic   *)
(* rules, the passages chosen for the semantic review, their batches and   *)
(* budgets, the reviewer's answers and the assessment.                     *)
(*                                                                         *)
(* The text of a document is a sequence of kinds of characters per page:   *)
(* "a" and "A" for small and capital letters, "." for the end of a         *)
(* sentence and "/" for a blank line.  Which passages the rules and the    *)
(* word lists would match is part of the document (its marks).  A passage  *)
(* is a span: a page and the positions of its first and last character.    *)
(***************************************************************************)
EXTENDS Integers, Sequences, FiniteSets, SequencesExt, Ordering

CONSTANTS
  Documents,                   \* documents of an instance: [pages, marks]
  Claims,                      \* what a reviewer may report: [page, from, to, severity, sure]
  MAX_CANDIDATES,
  MAX_CANDIDATE_CHARS,
  CANDIDATE_OVERLAP,           \* 100 in _all_semantic_candidates
  MAX_SEMANTIC_CONTEXT_CHARS,
  BlockFrame,                  \* JSON characters around a passage
  MAX_QUOTE_CHARS,             \* 1_000
  PAGE_BOUNDARY_CHARS,
  STRICT_MAX_CHARS,
  STRICT_MAX_BATCHES,
  None

(* SecurityRiskLevel, by rank. *)
NONE == 0
MEDIUM == 2
HIGH == 3
CRITICAL == 4

MarkForms == {"plain", "marker", "invisible", "comment", "encoded", "split", "court", "vague"}

ASSUME GateAssumption ==
  /\ CANDIDATE_OVERLAP \in Nat /\ MAX_CANDIDATE_CHARS \in Nat
  /\ CANDIDATE_OVERLAP < MAX_CANDIDATE_CHARS
  /\ MAX_CANDIDATES \in Nat \ {0} /\ MAX_QUOTE_CHARS \in Nat \ {0}
  /\ BlockFrame \in Nat /\ MAX_SEMANTIC_CONTEXT_CHARS \in Nat

\* What rules match and what is left of an answer after strip() begins with text.
ASSUME DocumentsAssumption ==
  /\ \A d \in Documents :
       /\ d.pages \in Seq(Seq({"a", "A", ".", "/"}))
       /\ IsFiniteSet(d.marks)
       /\ d.marks \subseteq [page : DOMAIN d.pages, from : Nat, to : Nat,
                            form : MarkForms, severity : NONE .. CRITICAL]
       /\ \A m \in d.marks :
            /\ m.from \in 1 .. m.to
            /\ m.form # "split" => m.to <= Len(d.pages[m.page]) /\ d.pages[m.page][m.from] # "/"
  /\ \A c \in Claims :
       /\ c.page \in Nat /\ c.to \in Nat /\ c.from \in 1 .. c.to /\ c.severity \in NONE .. CRITICAL
       /\ \A d \in Documents :
            c.page \in DOMAIN d.pages /\ c.to <= Len(d.pages[c.page]) =>
              d.pages[c.page][c.from] # "/"

VARIABLES
  doc,   \* the parsed document
  mode,  \* rules, balanced or strict
  gate   \* the scan: where it is, findings, batches to come, what was read

-----------------------------------------------------------------------------
(* Spans and the text around a position. *)

Page(d, p) == d.pages[p]

Size(span) == span.to - span.from + 1

InSpan(inner, outer) ==
  inner.page = outer.page /\ outer.from <= inner.from /\ inner.to <= outer.to

\* The stretch around position k that holds no character of kind stop.
Stretch(text, k, stop) ==
  [from |-> Max({0} \cup {i \in 1 .. k : text[i] = stop /\ i < k}) + 1,
   to   |-> Min({Len(text) + 1} \cup {i \in k .. Len(text) : text[i] = stop}) - 1]

SpanOf(p, from, to) == [page |-> p, from |-> from, to |-> to]

-----------------------------------------------------------------------------
(* scan_prompt_injection_rules *)

\* A marker of a system message stands for the paragraph it is in, if that is
\* short enough; every quote is cut at MAX_QUOTE_CHARS.
QuotedSpan(d, m) ==
  LET par   == Stretch(Page(d, m.page), m.from, "/")
      start == IF m.form # "marker" \/ par.to - par.from >= MAX_QUOTE_CHARS
               THEN m.from ELSE par.from
      end   == IF m.form = "marker" THEN par.to ELSE m.to
  IN SpanOf(m.page, start, Min({end, start + MAX_QUOTE_CHARS - 1}))

\* A mark that runs over the page is found on the characters around the break.
NearBoundary(d, m) ==
  LET left == Len(Page(d, m.page))
  IN left - m.from < PAGE_BOUNDARY_CHARS /\ m.to - left <= PAGE_BOUNDARY_CHARS

FindingAt(span, end, category, severity, source) ==
  [page |-> span.page, from |-> span.from, to |-> span.to, end |-> end,
   category |-> category, severity |-> severity, source |-> source]

Finding(d, m, category, severity) ==
  FindingAt(QuotedSpan(d, m), IF m.form = "split" THEN m.page + 1 ELSE None,
            category, severity, "rule")

\* Mutation: the page break is not looked at.
FoundOnPages(d, m) ==
  IF m.form \in {"plain", "marker", "invisible", "comment"}
  THEN {Finding(d, m, "control", m.severity)} ELSE {}

\* What the rules make of one mark.  Invisible characters, comments and
\* encoded blocks are reported as obfuscation, HIGH at least; the text of a
\* comment and one with invisible characters also matches as it stands.  An
\* order to use a court's own system and words no rule knows are no finding.
FoundBy(d, m) ==
  LET strong == m.severity >= HIGH
      named  == Finding(d, m, "control", m.severity)
      hidden == Finding(d, m, "obfuscated", Max({m.severity, HIGH}))
  IN {f \in {named} : \/ m.form \in {"plain", "marker", "invisible", "comment"}
                      \/ m.form = "split" /\ strong /\ NearBoundary(d, m)}
       \cup
     {f \in {hidden} : \/ m.form = "invisible"
                       \/ m.form \in {"comment", "encoded"} /\ strong}

Key(f) == <<f.page, f.end, f.from, f.to, f.category>>

\* Mutation: the last finding of a key is kept.
KeepLastFindings(findings) ==
  {f \in findings : \A g \in findings : Key(g) = Key(f) => f.source = "semantic" \/ g = f}

\* _deduplicate_findings: the strongest of each key, the first of equals; the
\* findings of the rules come first.
DeduplicateFindings(findings) ==
  {f \in findings :
     \A g \in findings \ {f} :
       Key(g) = Key(f) => \/ g.severity < f.severity
                          \/ g.severity = f.severity /\ f.source = "rule"}

RuleFindings(d) == DeduplicateFindings(UNION {FoundBy(d, m) : m \in d.marks})

\* The order of the list: strongest first, then page, category and quote.
ComesFirst(f, g) ==
  LET rank(h) == <<CRITICAL - h.severity, h.page, IF h.category = "control" THEN 0 ELSE 1,
                   h.from, h.to, IF h.end = None THEN 0 ELSE h.end>>
  IN \E k \in 1 .. 6 : rank(f)[k] < rank(g)[k] /\ \A j \in 1 .. k - 1 : rank(f)[j] = rank(g)[j]

-----------------------------------------------------------------------------
(* The passages for the semantic review. *)

\* The sentence that a mark begins in.
Sentence(d, m) ==
  LET s == Stretch(Page(d, m.page), m.from, ".") IN SpanOf(m.page, s.from, s.to)

\* Words of control and words for the model in one sentence, or a marker.
Suspicious(d, m) == m.form \notin {"split", "encoded"} /\ InSpan(m, Sentence(d, m))

Suspects(d) == {m \in d.marks : Suspicious(d, m)}

\* The words that make a sentence suspicious: the first of them, the first
\* marker, and what is between the two.
Focus(d, s) ==
  LET within   == {m \in Suspects(d) : Sentence(d, m) = s}
      first(M) == {m \in M : \A n \in M : m.from < n.from \/ (m.from = n.from /\ m.to <= n.to)}
      words    == first({m \in within : m.form # "marker"})
      markers  == first({m \in within : m.form = "marker"})
  IN SpanOf(s.page, Min({m.from : m \in words \cup markers}),
            Max({m.to : m \in words \cup markers}))

\* Mutation: the passage is cut at its end.
HeadOfPassage(s, focus) == SpanOf(s.page, s.from, Min({s.to, s.from + MAX_CANDIDATE_CHARS - 1}))

\* _focused_passage: a window around the words that made it suspicious.
FocusedPassage(s, focus) ==
  LET length == Size(s)
      middle == (focus.from - s.from + focus.to - s.from + 1) \div 2
      first  == Max({0, middle - MAX_CANDIDATE_CHARS \div 2})
      end    == Min({length, first + MAX_CANDIDATE_CHARS})
      start  == Max({0, end - MAX_CANDIDATE_CHARS})
  IN IF length <= MAX_CANDIDATE_CHARS THEN s
     ELSE SpanOf(s.page, s.from + start, s.from + end - 1)

Clipped(span) == SpanOf(span.page, span.from, Min({span.to, span.from + MAX_CANDIDATE_CHARS - 1}))

AddCandidate(list, span) ==
  IF Len(list) < MAX_CANDIDATES /\ ~Contains(list, span) THEN Append(list, span) ELSE list

InText(s, t) == s.page < t.page \/ (s.page = t.page /\ s.from < t.from)

\* _semantic_candidates: the quotes of the findings, then one passage of each
\* suspicious sentence, in the order of the text.
SemanticCandidates(d, findings) ==
  LET quotes    == InOrder(findings, {p \in findings \X findings : ComesFirst(p[1], p[2])})
      suspects  == {Sentence(d, m) : m \in Suspects(d)}
      sentences == InOrder(suspects, {p \in suspects \X suspects : InText(p[1], p[2])})
      passage(s) == FocusedPassage(s, Focus(d, s))
  IN FoldLeft(AddCandidate, <<>>,
              [i \in DOMAIN quotes |-> Clipped(quotes[i])]
                \o [i \in DOMAIN sentences |-> passage(sentences[i])])

Windows(d, p, step) ==
  LET length == Len(Page(d, p))
  IN [i \in 1 .. (length + step - 1) \div step |->
        SpanOf(p, (i - 1) * step + 1, Min({length, (i - 1) * step + MAX_CANDIDATE_CHARS}))]

\* _all_semantic_candidates: overlapping windows over every page.
AllSemanticCandidates(d) ==
  FlattenSeq([p \in DOMAIN d.pages |->
                Windows(d, p, MAX_CANDIDATE_CHARS - CANDIDATE_OVERLAP)])

BlockSize(span) == BlockFrame + Size(span)

\* One passage more for the batch under way, or for the next one.
AddToBatch(acc, span) ==
  LET full == acc.current # <<>> /\ acc.used + BlockSize(span) > MAX_SEMANTIC_CONTEXT_CHARS
  IN [done    |-> IF full THEN Append(acc.done, acc.current) ELSE acc.done,
      current |-> IF full THEN <<span>> ELSE Append(acc.current, span),
      used    |-> (IF full THEN 2 ELSE acc.used) + BlockSize(span) + 1]

\* _candidate_batches
CandidateBatches(candidates) ==
  LET acc == FoldLeft(AddToBatch, [done |-> <<>>, current |-> <<>>, used |-> 2], candidates)
  IN IF acc.current = <<>> THEN acc.done ELSE Append(acc.done, acc.current)

TooLong(d) == FoldLeft(LAMBDA n, text : n + Len(text), 0, d.pages) > STRICT_MAX_CHARS

Candidates(d, findings) ==
  CASE mode = "rules"    -> <<>>
    [] mode = "balanced" -> SemanticCandidates(d, findings)
    [] mode = "strict"   -> IF TooLong(d) THEN <<>> ELSE AllSemanticCandidates(d)

-----------------------------------------------------------------------------
(* PromptInjectionDetector.scan *)

\* The claims of an answer that stand: quotes found on their page and in a
\* passage of this batch, with confidence.  None is CRITICAL.
Validated(d, batch, claims) ==
  {FindingAt(c, None, c.category, Min({c.severity, HIGH}), "semantic") :
   c \in {c \in claims : /\ c.page \in DOMAIN d.pages
                         /\ c.to <= Len(Page(d, c.page))
                         /\ \E i \in DOMAIN batch : InSpan(c, batch[i])
                         /\ c.sure /\ c.severity # NONE}}

Unscanned == [at |-> "rules", findings |-> {}, batches |-> <<>>, read |-> {},
              complete |-> TRUE, reviewed |-> FALSE]

ScanRules ==
  /\ gate.at = "rules"
  /\ gate' = [gate EXCEPT !.at = "choose", !.findings = RuleFindings(doc)]
  /\ UNCHANGED <<doc, mode>>

\* failed_scan_assessment, when the scan raises.
RuleScanFails ==
  /\ gate.at = "rules"
  /\ gate' = [gate EXCEPT !.at = "assessed", !.complete = FALSE]
  /\ UNCHANGED <<doc, mode>>

OverBudget(batches) ==
  mode = "strict" /\ (TooLong(doc) \/ Len(batches) > STRICT_MAX_BATCHES)

ChooseCandidates ==
  LET batches == CandidateBatches(Candidates(doc, gate.findings))
      over    == OverBudget(batches)
  IN /\ gate.at = "choose"
     /\ gate' = [gate EXCEPT
          !.at = IF over \/ batches = <<>> THEN "assessed" ELSE "review",
          !.batches = IF over THEN <<>> ELSE batches,
          !.complete = ~over,
          !.reviewed = mode = "strict" /\ ~over /\ batches = <<>>]
     /\ UNCHANGED <<doc, mode>>

\* The reviewer answers for one batch.
SemanticReview(claims) ==
  /\ gate.at = "review"
  /\ gate' = [gate EXCEPT
       !.findings = DeduplicateFindings(@ \cup Validated(doc, Head(gate.batches), claims)),
       !.read = @ \cup ToSet(Head(gate.batches)),
       !.batches = Tail(@),
       !.at = IF Len(gate.batches) = 1 THEN "assessed" ELSE @,
       !.reviewed = Len(gate.batches) = 1]
  /\ UNCHANGED <<doc, mode>>

\* One failed call ends the review; only a strict scan depends on it.
SemanticReviewFails ==
  /\ gate.at = "review"
  /\ gate' = [gate EXCEPT !.at = "assessed", !.batches = <<>>, !.complete = mode # "strict"]
  /\ UNCHANGED <<doc, mode>>

\* Mutation: an incomplete scan is judged by what it found.
RiskOfFindings(g) == Max({NONE} \cup {f.severity : f \in g.findings})

\* build_assessment
RiskLevel(g) ==
  IF ~g.complete THEN CRITICAL ELSE Max({NONE} \cup {f.severity : f \in g.findings})

AllowsAnalysis(g) == g.at = "assessed" /\ RiskLevel(g) <= MEDIUM

GateInit ==
  /\ doc \in Documents
  /\ mode \in {"rules", "balanced", "strict"}
  /\ gate = Unscanned

Scan ==
  \/ ScanRules \/ RuleScanFails \/ ChooseCandidates
  \/ \E claims \in {{}} \cup {{c} : c \in Claims} : SemanticReview(claims)
  \/ SemanticReviewFails

-----------------------------------------------------------------------------
\* A strict scan fails closed (prompt_injection.py:310): it lets a document
\* through only if the reviewer has answered for every passage of it that is
\* short enough to fit into the overlap of two windows, whichever budget or
\* call went wrong.
StrictReadsEverything ==
  mode = "strict" /\ AllowsAnalysis(gate) =>
    \A p \in DOMAIN doc.pages : \A from \in 1 .. Len(Page(doc, p)) :
      LET to == Min({Len(Page(doc, p)), from + CANDIDATE_OVERLAP})
      IN \E span \in gate.read : InSpan(SpanOf(p, from, to), span)

\* A review that counts as done was done: the words that made a sentence
\* suspicious were in front of the reviewer, if they fit into a passage and
\* the list of candidates was not full.
ReviewedMeansRead ==
  mode = "balanced" /\ gate.at = "assessed" /\ gate.reviewed =>
    \A m \in Suspects(doc) :
      LET focus == Focus(doc, Sentence(doc, m))
      IN Size(focus) <= MAX_CANDIDATE_CHARS =>
           \/ Cardinality(gate.read) = MAX_CANDIDATES
           \/ \E span \in gate.read : InSpan(focus, span)

\* The reviewer only adds: whatever it answers, no finding of the rules is
\* lost or weakened, and what it adds by itself was shown to it, is on the
\* page, and never blocks a document by itself.
ReviewOnlyAdds ==
  /\ gate.at \in {"review", "assessed"} /\ gate.complete =>
       \A f \in RuleFindings(doc) :
         \E g \in gate.findings : Key(g) = Key(f) /\ g.severity >= f.severity
  /\ \A f \in gate.findings :
       f.source = "semantic" =>
         f.severity <= HIGH /\ \E span \in gate.read : InSpan(f, span)

\* No analysis of a document with a strong instruction that the rules know,
\* also when it is hidden in a comment, encoded, or cut by a page break.
KnownInstructionStops ==
  AllowsAnalysis(gate) =>
    \A m \in doc.marks :
      m.severity >= HIGH => \/ m.form \in {"court", "vague"}
                            \/ m.form = "split" /\ ~NearBoundary(doc, m)
=============================================================================
