----------------------------- MODULE AgentContext -----------------------------
(***************************************************************************)
(* From the chunks of a document to the prompt of an agent: ranking and    *)
(* fusion (rag/pipeline.py, rag/vector_store.py, rag/reranking.py), the    *)
(* merge of the queries and the context with its audit                     *)
(* (agents/context.py).  A chunk is known by its index in the document.    *)
(* What a similarity search thinks of a chunk is an input: a score per     *)
(* chunk, 0 for a chunk it does not return.                                *)
(***************************************************************************)
EXTENDS SectionChunker

CONSTANTS
  K,                     \* requested_k
  CANDIDATE_MULTIPLIER,
  RRF_CONSTANT,
  DENSE_WEIGHT,
  LEXICAL_WEIGHT,
  MAX_CONTEXT_CHARS,
  DOC_HEAD_CHARS,
  ExcerptFrame           \* characters of the tags around an excerpt

ASSUME RetrievalAssumption ==
  /\ K \in Nat \ {0} /\ CANDIDATE_MULTIPLIER \in Nat \ {0}
  /\ RRF_CONSTANT \in Nat \ {0}
  /\ DENSE_WEIGHT \in Nat \ {0} /\ LEXICAL_WEIGHT \in Nat \ {0}
  /\ MAX_CONTEXT_CHARS \in Nat /\ DOC_HEAD_CHARS \in Nat /\ ExcerptFrame \in Nat

-----------------------------------------------------------------------------
(* Rankings. *)

Take(seq, n) == SubSeq(seq, 1, Min({n, Len(seq)}))

Item(id, score) == [id |-> id, score |-> score]

Better(a, b) == a.score > b.score \/ (a.score = b.score /\ a.id < b.id)

\* The scores of n chunks; one that a search does not know has none.
Scored(n, scores) ==
  {[i \in 1 .. n |-> IF i \in DOMAIN score THEN score[i] ELSE 0] : score \in scores}

\* The best first.
Ranking(items) == InOrder(items, {p \in items \X items : Better(p[1], p[2])})

\* query, lexical_query and rerank order the same way and cut at k.
Ranked(scores, ids, k) ==
  Take(Ranking({Item(id, scores[id]) : id \in {i \in ids : scores[i] > 0}}), k)

Ids(items) == {items[r].id : r \in DOMAIN items}

\* The place of a chunk in a ranking, after all others when it is missing.
RankOf(items, id) ==
  IF id \in Ids(items) THEN CHOOSE r \in DOMAIN items : items[r].id = id
  ELSE Len(items) + 1

\* Common denominator of 1 / (RRF_CONSTANT + rank).
Denominator(n) == FoldLeft(LAMBDA x, r : x * (RRF_CONSTANT + r), 1, [r \in 1 .. n |-> r])

\* Mutation: the second ranking replaces the score of the first.
FuseLastOnly(dense, lexical, k) ==
  LET unit == Denominator(Max({Len(dense), Len(lexical)}))
      points(items, weight, id) ==
        IF id \in Ids(items) THEN weight * (unit \div (RRF_CONSTANT + RankOf(items, id))) ELSE 0
  IN Take(Ranking(
       {Item(id, IF id \in Ids(lexical) THEN points(lexical, LEXICAL_WEIGHT, id)
                 ELSE points(dense, DENSE_WEIGHT, id)) : id \in Ids(dense) \cup Ids(lexical)}), k)

\* reciprocal_rank_fusion
ReciprocalRankFusion(dense, lexical, k) ==
  LET unit == Denominator(Max({Len(dense), Len(lexical)}))
      points(items, weight, id) ==
        IF id \in Ids(items) THEN weight * (unit \div (RRF_CONSTANT + RankOf(items, id))) ELSE 0
  IN Take(Ranking(
       {Item(id, points(dense, DENSE_WEIGHT, id) + points(lexical, LEXICAL_WEIGHT, id)) :
        id \in Ids(dense) \cup Ids(lexical)}), k)

\* _candidate_k
CandidateK(setup) ==
  IF setup.hybrid \/ setup.reranked THEN K * CANDIDATE_MULTIPLIER ELSE K

\* query_store, for one query and the scores its words and its vector get.
QueryStore(setup, query) ==
  LET ids   == DOMAIN query.dense
      ck    == CandidateK(setup)
      dense == Ranked(query.dense, ids, ck)
      items == IF setup.hybrid
               THEN ReciprocalRankFusion(dense, Ranked(query.lexical, ids, ck), ck)
               ELSE dense
  IN IF setup.reranked THEN Ranked(query.rerank, Ids(items), K) ELSE Take(items, K)

\* One trace per query, in their order; a query that fails has no results
\* and its error, and the others keep theirs.
RetrievalTraces(setup, queries, failing) ==
  [q \in DOMAIN queries |->
     [results |-> IF q \in failing THEN <<>> ELSE QueryStore(setup, queries[q]),
      error |-> q \in failing]]

-----------------------------------------------------------------------------
(* agents/context.py *)

\* Where a chunk is among the results, and with which score.
Places(traces, id) ==
  {pl \in (DOMAIN traces) \X (1 .. K) :
     /\ pl[2] \in DOMAIN traces[pl[1]].results
     /\ traces[pl[1]].results[pl[2]].id = id}

ScoreAt(traces, pl) == traces[pl[1]].results[pl[2]].score

\* merge_retrievals: each chunk once, with its best score.
MergeRetrievals(traces) ==
  LET ids == UNION {Ids(traces[q].results) : q \in DOMAIN traces}
      best(id) == Max({ScoreAt(traces, pl) : pl \in Places(traces, id)})
  IN Ranking({Item(id, best(id)) : id \in ids})

\* An excerpt shows the title as an attribute and in its text.
ExcerptSize(chunk) == ExcerptFrame + Len(chunk.section) + LengthOf(chunk)

\* Mutation: an excerpt that does not fit is passed over.
SkipExcerpt(chunks, acc, item) ==
  LET size == ExcerptSize(chunks[item.id])
  IN IF acc.used + size > MAX_CONTEXT_CHARS THEN [acc EXCEPT !.truncated = TRUE]
     ELSE [acc EXCEPT !.used = @ + size, !.included = Append(@, item.id)]

\* The first excerpt that does not fit ends the context.
AddExcerpt(chunks, acc, item) ==
  LET size == ExcerptSize(chunks[item.id])
  IN IF acc.truncated \/ acc.used + size > MAX_CONTEXT_CHARS THEN [acc EXCEPT !.truncated = TRUE]
     ELSE [acc EXCEPT !.used = @ + size, !.included = Append(@, item.id)]

\* format_context_with_audit: the masked head of the first page, and excerpts.
FormatContext(d, findings, chunks, merged) ==
  LET masked(chunk) == [chunk EXCEPT !.text = MaskFlaggedText(@, findings),
                                     !.section = MaskFlaggedText(@, findings)]
      first == IF d.pages = <<>> THEN <<>> ELSE PageText(d, 1)
      head == Take(MaskFlaggedText(first, findings), DOC_HEAD_CHARS)
      add(acc, item) == AddExcerpt([i \in DOMAIN chunks |-> masked(chunks[i])], acc, item)
  IN FoldLeft(add, [head |-> head, used |-> ExcerptFrame + Len(head),
                    included |-> <<>>, truncated |-> FALSE], merged)

\* annotate_retrieval_selection: of the results for one chunk, the first with
\* the best score counts as the one that brought it into the context.
AnnotateSelection(traces, merged, formatted) ==
  LET wins(pl, id) ==
        \A o \in Places(traces, id) \ {pl} :
          \/ ScoreAt(traces, pl) > ScoreAt(traces, o)
          \/ ScoreAt(traces, pl) = ScoreAt(traces, o) /\ Before(pl, o)
  IN [q \in DOMAIN traces |->
        [r \in DOMAIN traces[q].results |->
           LET id == traces[q].results[r].id
           IN wins(<<q, r>>, id) /\ id \in ToSet(formatted.included)]]

-----------------------------------------------------------------------------
(* services/citations.py; a citation names a page, a span of it, and maybe *)
(* a chunk.                                                                *)

\* Blank lines do not count when a quote is compared.
Plain(d, text) ==
  FlattenSeq([i \in DOMAIN text |-> IF Kind(d, text[i]) = "/" THEN <<>> ELSE <<text[i]>>])

QuoteMatches(d, span, text) ==
  /\ span.to <= Len(Page(d, span.page))
  /\ Plain(d, Characters(span)) \in SubSeqs(Plain(d, text)) \ {<<>>}

\* _citation_is_valid
CitationIsValid(d, chunks, c) ==
  /\ c.page \in DOMAIN d.pages
  /\ QuoteMatches(d, c, PageText(d, c.page))
  /\ c.chunk # None =>
       /\ c.chunk \in DOMAIN chunks
       /\ c.page \in chunks[c.chunk].page_start .. chunks[c.chunk].page_end
       /\ QuoteMatches(d, c, chunks[c.chunk].text)
=============================================================================
