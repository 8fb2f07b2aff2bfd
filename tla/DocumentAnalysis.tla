--------------------------- MODULE DocumentAnalysis ---------------------------
(***************************************************************************)
(* One document through the analysis, with its text: the gate, the masks   *)
(* and the chunks, the retrieval and the prompt of an agent, its answer    *)
(* and the report (orchestration/graph.py, agents/base.py,                 *)
(* services/composer.py).  AnalysisJob has the order of the stages and the *)
(* parallel agents; here is what each stage does to the text, for one      *)
(* agent.                                                                  *)
(***************************************************************************)
EXTENDS AgentContext

CONSTANTS
  Setups,   \* retrieval configurations: [hybrid, reranked, words], with one or
            \* two queries and for each whether its words are in the document
  DenseScores, LexicalScores,  \* what searches may make of the chunks: scores
                               \* by index, 0 for a chunk without the words
  Prompted, \* bound: the documents that are followed past the index, and
            \* only in balanced mode: what follows does not look at the mode
  Answers   \* what an agent may answer: a sequence of conclusions, each a
            \* set of citations [page, from, to, chunk]

ASSUME ScoresAssumption ==
  \A score \in DenseScores \cup LexicalScores : \A i \in DOMAIN score : score[i] \in Nat

ASSUME AnswersAssumption ==
  \A answer \in Answers :
    answer \in Seq(SUBSET [page : Nat, from : Nat \ {0}, to : Nat, chunk : Nat \cup {None}])

VARIABLE run  \* the analysis after the gate

vars == <<doc, mode, gate, run>>

NotStarted ==
  [at |-> "waiting", chunks |-> <<>>, setup |-> None, queries |-> <<>>, traces |-> <<>>,
   marks |-> <<>>, context |-> None, conclusions |-> <<>>, report |-> None]

\* index_node.  The findings are kept for the masks of the prompt; the rest
\* of the scan is forgotten.
IndexDocument ==
  /\ run.at = "waiting" /\ AllowsAnalysis(gate)
  /\ run' = [run EXCEPT !.at = "indexed", !.chunks = Chunks(doc, gate.findings)]
  /\ UNCHANGED <<doc, mode, gate>>

Unscored(n) == {[i \in 1 .. n |-> 0]}

\* What the searches make of query q on n chunks: all of them by the vector,
\* by the words those that have one.  Searches that are not made return none.
Searches(n, setup, q) ==
  [dense   : Scored(n, DenseScores),
   lexical : IF setup.hybrid /\ setup.words[q] THEN Scored(n, LexicalScores) ELSE Unscored(n),
   rerank  : IF setup.reranked THEN Scored(n, DenseScores) ELSE Unscored(n)]

Queries(n, setup) ==
  IF Len(setup.words) = 1 THEN {<<a>> : a \in Searches(n, setup, 1)}
  ELSE {<<a, b>> : a \in Searches(n, setup, 1), b \in Searches(n, setup, 2)}

IsPrompted == run.at = "indexed" /\ doc \in Prompted /\ mode = "balanced"

\* build_user_prompt: retrieve_many_with_traces, merge, format, annotate.
BuildPrompt(setup) ==
  /\ IsPrompted
  /\ \E queries \in Queries(Len(run.chunks), setup) :
       LET traces  == RetrievalTraces(setup, queries, {})
           merged  == MergeRetrievals(traces)
           context == FormatContext(doc, gate.findings, run.chunks, merged)
       IN run' = [run EXCEPT !.at = "prompted", !.setup = setup, !.queries = queries,
                             !.traces = traces, !.context = context,
                             !.marks = AnnotateSelection(traces, merged, context)]
  /\ UNCHANGED <<doc, mode, gate>>

\* A batch in which a search fails, or all of it when the embedding does: the
\* agent fails with the traces it has, none of them in a context.
RetrievalFails(setup) ==
  /\ IsPrompted
  /\ \E failing \in SUBSET DOMAIN setup.words \ {{}} :
       LET queries == CHOOSE queries \in Queries(Len(run.chunks), setup) : TRUE
           traces  == RetrievalTraces(setup, queries, failing)
       IN run' = [run EXCEPT !.at = "answered", !.traces = traces,
                             !.marks = [q \in DOMAIN traces |->
                                          [r \in DOMAIN traces[q].results |-> FALSE]]]
  /\ UNCHANGED <<doc, mode, gate>>

\* BaseAgent.run; a call that fails leaves the retrievals and no answer.
RunAgent(answer) ==
  /\ run.at = "prompted"
  /\ run' = [run EXCEPT !.at = "answered", !.conclusions = answer, !.queries = <<>>]
  /\ UNCHANGED <<doc, mode, gate>>

\* Mutation: coverage is counted over all that was retrieved.
RetrievedByTraces(r) == UNION {Ids(r.traces[q].results) : q \in DOMAIN r.traces}

\* Chunks that reached the prompt, by the traces.
IncludedByTraces(r) ==
  UNION {{r.traces[q].results[i].id : i \in {j \in DOMAIN r.marks[q] : r.marks[q][j]}} :
         q \in DOMAIN r.marks}

\* validate_report_citations
Verified(citations) == {c \in citations : CitationIsValid(doc, run.chunks, c)}

Untraced(kept) ==
  {c \in UNION ToSet(kept) : c.chunk # None /\ c.chunk \notin IncludedByTraces(run)}

\* compose_report: the citations that stand, and the warnings about the rest.
\* A gate that stops the document leaves a report without conclusions.
ComposeReport ==
  LET kept == [i \in DOMAIN run.conclusions |-> Verified(run.conclusions[i])]
  IN /\ \/ run.at = "answered"
        \/ run.at = "waiting" /\ gate.at = "assessed" /\ ~AllowsAnalysis(gate)
     /\ run' = [run EXCEPT !.at = "reported", !.report =
          [conclusions |-> kept,
           rejected  |-> kept # run.conclusions,
           untraced  |-> Untraced(kept) # {},
           unproved  |-> \E i \in DOMAIN kept : kept[i] = {},
           stopped   |-> ~AllowsAnalysis(gate)]]
     /\ UNCHANGED <<doc, mode, gate>>

Init == GateInit /\ run = NotStarted

Next ==
  \/ Scan /\ UNCHANGED run
  \/ IndexDocument
  \/ \E setup \in Setups : BuildPrompt(setup) \/ RetrievalFails(setup)
  \/ \E answer \in Answers \cup {<<>>} : RunAgent(answer)
  \/ ComposeReport

Spec == Init /\ [][Next]_vars

-----------------------------------------------------------------------------
\* Nothing flagged gets through: no finding that lets the analysis go on is
\* in the index, in a title, or in the head of the page that every agent
\* reads, however the quotes overlap (sanitization.py:82).
FlaggedQuotesAreMasked ==
  /\ run.at = "indexed" =>
       \A i \in DOMAIN run.chunks :
         /\ Hides(run.chunks[i].text, Quotes(gate.findings))
         /\ Hides(run.chunks[i].section, Quotes(gate.findings))
  /\ run.at = "prompted" => Hides(run.context.head, Quotes(gate.findings))

\* The chunks of a document lose none of its text and say where it is from,
\* whatever was masked.
ChunksLocateText ==
  run.at = "indexed" => LocatesText(doc, gate.findings, run.chunks)

\* Fusion does not turn two rankings upside down: a chunk that is before
\* another in both is before it in the result.
FusionKeepsAgreement ==
  run.at = "prompted" /\ run.setup.hybrid /\ ~run.setup.reranked =>
    \A q \in DOMAIN run.queries : \A a, b \in DOMAIN run.chunks :
      LET ck      == CandidateK(run.setup)
          dense   == Ranked(run.queries[q].dense, DOMAIN run.chunks, ck)
          lexical == Ranked(run.queries[q].lexical, DOMAIN run.chunks, ck)
          result  == run.traces[q].results
      IN RankOf(dense, a) < RankOf(dense, b) /\ RankOf(lexical, a) < RankOf(lexical, b) =>
           RankOf(result, a) < RankOf(result, b) \/ b \notin Ids(result)

\* The audit is the prompt: the excerpts of a context are the best of what
\* the queries brought, cut only at the end and within the limit, and each is
\* marked on exactly one result, one with its best score.
AuditIsThePrompt ==
  run.at = "prompted" =>
    LET shown  == ToSet(run.context.included)
        all    == UNION {Ids(run.traces[q].results) : q \in DOMAIN run.traces}
        best(id) == Max({ScoreAt(run.traces, pl) : pl \in Places(run.traces, id)})
        marked(id) == {pl \in Places(run.traces, id) : run.marks[pl[1]][pl[2]]}
    IN /\ \A id \in all :
            /\ Cardinality(marked(id)) = IF id \in shown THEN 1 ELSE 0
            /\ \A pl \in marked(id) : ScoreAt(run.traces, pl) = best(id)
       /\ \A a \in shown, b \in all \ shown : best(a) >= best(b)
       /\ run.context.truncated \/ shown = all
       /\ shown # {} => run.context.used <= MAX_CONTEXT_CHARS

\* A report shows only what can be followed back: a citation it keeps is on
\* its page and in its chunk, and unless the report says so every excerpt it
\* names was in front of the agent.
ReportCanBeTraced ==
  run.at = "reported" =>
    /\ run.report.stopped => run.report.conclusions = <<>>
    /\ \A i \in DOMAIN run.report.conclusions : \A c \in run.report.conclusions[i] :
         /\ c.to <= Len(Page(doc, c.page))
         /\ c.chunk # None =>
              /\ \E p \in DOMAIN doc.pages :
                   p = c.page /\ MaskFlaggedText(Characters(c), gate.findings) = Characters(c)
              /\ run.report.untraced \/ c.chunk \in ToSet(run.context.included)
    /\ run.report.rejected \/ run.report.conclusions = run.conclusions
=============================================================================
