---------------------------- MODULE ConsumerNotice ----------------------------
(***************************************************************************)
(* What a notice is made of (consumer/service.py, generate_notice): the    *)
(* evidence of a case as one document, the retrieval of law and evidence,  *)
(* the grounds and citations taken from it, and the settlement             *)
(* (consumer/settlement.py).  ConsumerCase has the requests and their      *)
(* interleavings; here is what one request does to text and amounts.       *)
(*                                                                         *)
(* A file is [source, accepted, heading, pages, mentions]: its hash, the   *)
(* characters of its masked pages, and the amounts in reais that occur in  *)
(* them, each [page, amount, quote].  Amounts are in tenths of a cent.     *)
(***************************************************************************)
EXTENDS AgentContext, LegalCorpus

CONSTANTS
  Cases,            \* files and facts of cases that are ready for a notice
  LawScores,        \* what a search may make of the chunks of the law,
  EvidenceScores,   \* and of the evidence: scores by index, 0 for not found
  MAX_REFERENCES,   \* amounts kept of a file
  MAX_GROUNDS,      \* 8 grounds, and 8 citations
  CITATION_CHARS,   \* 700 characters of a chunk
  EVIDENCE_STRENGTH \* of the settlement, in hundredths

ASSUME NoticeAssumption ==
  /\ MAX_REFERENCES \in Nat /\ MAX_GROUNDS \in Nat \ {0} /\ CITATION_CHARS \in Nat \ {0}
  /\ EVIDENCE_STRENGTH \in 0 .. 100
  /\ \A score \in LawScores \cup EvidenceScores : \A i \in DOMAIN score : score[i] \in Nat

ASSUME CasesAssumption ==
  \A case \in Cases :
    /\ Len(case.files) \in Nat /\ DOMAIN case.files = 1 .. Len(case.files)
    /\ \A f \in DOMAIN case.files :
         /\ case.files[f].accepted \in BOOLEAN
         /\ case.files[f].heading \in STRING /\ case.files[f].pages \in Seq(Seq(STRING))
    /\ {case.facts.loss, case.facts.improper, case.facts.cost} \subseteq Nat \cup {None}

VARIABLE draft  \* the case, and how far its notice is

-----------------------------------------------------------------------------
(* Evidence. *)

\* _combined_evidence: each page of each accepted file under a line of its
\* own.  Whether the chunker takes that line, with its two hexadecimal ids,
\* for a heading depends on how many of their digits are letters.
PageSources(files) ==
  FlattenSeq([f \in DOMAIN files |->
    IF files[f].accepted THEN [p \in DOMAIN files[f].pages |-> [file |-> f, page |-> p]]
    ELSE <<>>])

CombinedEvidence(files) ==
  LET sources == PageSources(files)
  IN [pages |-> [n \in DOMAIN sources |->
                   <<files[sources[n].file].heading, "/">>
                     \o files[sources[n].file].pages[sources[n].page]],
      marks |-> {}]

EvidenceChunks(files) ==
  LET d == CombinedEvidence(files) IN Chunk(d, [n \in DOMAIN d.pages |-> PageText(d, n)])

\* extract_brl_mentions and _extract_monetary_references: one reference for
\* each positive amount and quote of a page.
MonetaryReferences(file) ==
  LET add(acc, mention) ==
        IF mention.amount = 0 \/ mention \in ToSet(acc) THEN acc ELSE Append(acc, mention)
  IN Take(FoldLeft(add, <<>>, file.mentions), MAX_REFERENCES)

\* _find_monetary_reference: the files with the reference; the first counts.
FilesWith(files, reference) ==
  {f \in DOMAIN files :
     /\ files[f].accepted /\ files[f].source = reference.source
     /\ reference.mention \in ToSet(MonetaryReferences(files[f]))}

-----------------------------------------------------------------------------
(* Facts. *)

\* None, in the calculator, is zero.
Amount(value) == IF value = None THEN 0 ELSE value

\* The validator of ConsumerCaseFacts, and update_facts: a reference to an
\* accepted file, with its amount.
AcceptsFacts(files, facts) ==
  /\ facts.loss # None /\ facts.improper # None => facts.improper <= facts.loss
  /\ facts.reference # None =>
       /\ FilesWith(files, facts.reference) # {}
       /\ facts.loss = facts.reference.mention.amount

\* is_consumer_scope: a category other than "other", or a word of consumption
\* in the complaint, or none of another kind of dispute.
IsConsumerScope(facts) ==
  facts.category # "other" \/ "consumer" \in facts.signals \/ "unrelated" \notin facts.signals

-----------------------------------------------------------------------------
(* The composer. *)

\* Mutation: only the unit is asked whether it is in force.
AddGroundOfUnit(provisions, chunks, acc, merged, rank) ==
  LET chunk     == chunks[merged[rank].id]
      provision == ProvisionForChunk(provisions, chunk)
      unit      == UnitForChunk(provisions, chunk)
  IN IF \/ unit # <<>> /\ unit[1].status # "active"
        \/ \E g \in ToSet(acc) : g.key = provision.key
        \/ Len(acc) = MAX_GROUNDS
     THEN acc
     ELSE Append(acc, [key |-> provision.key, unit |-> unit, chunk |-> merged[rank].id,
                       rank |-> rank])

\* _legal_grounds: of the law that was found, what is in force, each
\* provision once, with the unit of its best chunk.
AddGround(provisions, chunks, acc, merged, rank) ==
  LET chunk     == chunks[merged[rank].id]
      provision == ProvisionForChunk(provisions, chunk)
      unit      == UnitForChunk(provisions, chunk)
  IN IF \/ provision.status # "active"
        \/ unit # <<>> /\ unit[1].status # "active"
        \/ \E g \in ToSet(acc) : g.key = provision.key
        \/ Len(acc) = MAX_GROUNDS
     THEN acc
     ELSE Append(acc, [key |-> provision.key, unit |-> unit, chunk |-> merged[rank].id,
                       rank |-> rank])

LegalGrounds(provisions, chunks, facts, merged) ==
  LET add(acc, rank) == AddGround(provisions, chunks, acc, merged, rank)
  IN IF IsConsumerScope(facts) THEN FoldLeft(add, <<>>, [r \in DOMAIN merged |-> r]) ELSE <<>>

\* _evidence_references, _clean_chunk_quote: the start of a chunk, as a quote
\* from the page on which the chunk starts.
EvidenceReferences(sources, chunks, merged) ==
  [r \in 1 .. Min({Len(merged), MAX_GROUNDS}) |->
     LET chunk == chunks[merged[r].id]
     IN [file |-> sources[chunk.page_start].file, page |-> sources[chunk.page_start].page,
         quote |-> Take(chunk.text, CITATION_CHARS), chunk |-> merged[r].id]]

\* _annotate_composer_selection
ComposerSelection(traces, merged, cited) ==
  AnnotateSelection(traces, merged, [included |-> [i \in DOMAIN cited |-> cited[i].chunk]])

-----------------------------------------------------------------------------
(* settlement.py, in cents. *)

\* _money
Money(value) == (value + 5) \div 10

\* _money of a product with a weight in ten-thousandths, away from zero.
Weighted(value) ==
  IF value >= 0 THEN (value + 5000) \div 10000 ELSE -((5000 - value) \div 10000)

Center == 2500 + 35 * EVIDENCE_STRENGTH + 2000
LowWeight == Max({500, Center - 1000})
HighWeight == Min({9000, Center + 1000})

\* What is left of the whole for failing.
Failing(weight) == 10000 - weight

\* _confirmed_fact_sources
ConfirmedSources(amount) ==
  IF Amount(amount) > 0 THEN <<[type |-> "confirmed", file |-> 0, amount |-> amount]>> ELSE <<>>

\* _direct_loss_sources
DirectLossSources(files, facts) ==
  IF facts.reference = None THEN ConfirmedSources(facts.loss)
  ELSE <<[type |-> "evidence", file |-> Min(FilesWith(files, facts.reference)),
          amount |-> facts.reference.mention.amount]>>

ImproperPaymentSources(files, facts) ==
  IF facts.reference # None /\ facts.improper = facts.loss THEN DirectLossSources(files, facts)
  ELSE ConfirmedSources(facts.improper)

\* The validator of SettlementInputs
IsPriceable(facts) == Amount(facts.improper) <= Amount(facts.loss)

\* Mutation: what was paid counts twice whether that was asked for or not.
IncrementOfPayment(facts) == Money(Amount(facts.improper))

\* article_42_increment
Increment(facts) == IF facts.requested THEN Money(Amount(facts.improper)) ELSE 0

Component(kind, amount, public, sources) ==
  [kind |-> kind, amount |-> amount, public |-> public, sources |-> sources]

\* A component without an amount is left out.
IfAny(component) == IF component.amount > 0 THEN <<component>> ELSE <<>>

\* SettlementCalculator.calculate; None for a proposal without money.
Settlement(files, facts) ==
  LET loss == Money(Amount(facts.loss))
      cost == Money(Amount(facts.cost))
      high == loss + Increment(facts)
  IN [public   |-> IF high > 0 THEN high ELSE None,
      reserved |-> IF high > 0 THEN loss ELSE None,
      low      |-> Weighted(loss * LowWeight - cost * Failing(LowWeight)),
      high     |-> Weighted(high * HighWeight - cost * Failing(HighWeight)),
      components |->
        IfAny(Component("direct_loss", loss, TRUE, DirectLossSources(files, facts)))
          \o IfAny(Component("conditional_article_42", Increment(facts), TRUE,
                             ImproperPaymentSources(files, facts)))
          \o IfAny(Component("downside_cost", cost, FALSE, ConfirmedSources(facts.cost)))]

-----------------------------------------------------------------------------
(* generate_notice *)

DraftInit ==
  \E case \in Cases :
    /\ AcceptsFacts(case.files, case.facts) /\ IsConsumerScope(case.facts)
    /\ \E f \in DOMAIN case.files : case.files[f].accepted
    /\ draft = [case |-> case, at |-> "ready", chunks |-> <<>>, law |-> <<>>, evidence |-> <<>>,
                grounds |-> <<>>, citations |-> <<>>, marks |-> <<>>, settlement |-> None]

\* The law is indexed by then; a case without text in its files ends here.
IndexEvidence ==
  /\ draft.at = "ready" /\ corpus.at = "indexed"
  /\ draft' = LET chunks == EvidenceChunks(draft.case.files)
              IN [draft EXCEPT !.at = IF chunks = <<>> THEN "failed" ELSE "indexed",
                               !.chunks = chunks]

\* What two queries find.
TracesOf(n, scores) ==
  LET results(score) == [results |-> Ranked(score, 1 .. n, K), error |-> FALSE]
  IN {<<results(a), results(b)>> : a \in Scored(n, scores), b \in Scored(n, scores)}

RetrieveLaw ==
  /\ draft.at = "indexed"
  /\ \E traces \in TracesOf(Len(corpus.chunks), LawScores) :
       draft' = [draft EXCEPT !.at = "law", !.law = traces]

RetrieveEvidence ==
  /\ draft.at = "law"
  /\ \E traces \in TracesOf(Len(draft.chunks), EvidenceScores) :
       draft' = [draft EXCEPT !.at = "evidence", !.evidence = traces]

\* A provider fails.
NoticeFails ==
  /\ draft.at \in {"indexed", "law"}
  /\ draft' = [draft EXCEPT !.at = "failed"]

\* What follows the last retrieval.
DraftNotice ==
  /\ draft.at = "evidence"
  /\ LET files     == draft.case.files
         facts     == draft.case.facts
         statutes  == MergeRetrievals(draft.law)
         found     == MergeRetrievals(draft.evidence)
         grounds   == LegalGrounds(corpus.provisions, corpus.chunks, facts, statutes)
         citations == EvidenceReferences(PageSources(files), draft.chunks, found)
     IN draft' = IF grounds = <<>> \/ citations = <<>> \/ ~IsPriceable(facts)
                 THEN [draft EXCEPT !.at = "failed"]
                 ELSE [draft EXCEPT
                         !.at = "drafted", !.grounds = grounds, !.citations = citations,
                         !.marks = <<ComposerSelection(draft.law, statutes, grounds),
                                     ComposerSelection(draft.evidence, found, citations)>>,
                         !.settlement = Settlement(files, facts)]

NoticeNext ==
  IndexEvidence \/ RetrieveLaw \/ RetrieveEvidence \/ NoticeFails \/ DraftNotice

-----------------------------------------------------------------------------
\* The results that a trace marks as cited, for a chunk.
MarkedPlaces(traces, marks, id) == {pl \in Places(traces, id) : marks[pl[1]][pl[2]]}

\* A chunk that is cited is marked once, where it scored best; no other is.
MarksAre(traces, marks, cited) ==
  \A id \in UNION {Ids(traces[q].results) : q \in DOMAIN traces} :
    LET marked == MarkedPlaces(traces, marks, id)
    IN /\ Cardinality(marked) = IF \E c \in ToSet(cited) : c.chunk = id THEN 1 ELSE 0
       /\ \A pl \in marked, o \in Places(traces, id) : ScoreAt(traces, pl) >= ScoreAt(traces, o)

\* A notice stands on law in force and on the evidence of the case: each
\* ground is a provision in force that was found, with the unit that the
\* chunk is of, once, by its best chunk; each citation is of an accepted file
\* and begins on the page that it names; and the audit marks these chunks and
\* no others (service.py:480, :660).
NoticeCitesItsSources ==
  draft.at = "drafted" =>
    LET merged  == MergeRetrievals(draft.law)
        sources == PageSources(draft.case.files)
        inforce(id) == corpus.provisions[corpus.chunks[id].page].status = "active"
    IN /\ \A g \in ToSet(draft.grounds) :
            LET chunk == corpus.chunks[g.chunk] IN
            /\ inforce(g.chunk) /\ corpus.provisions[chunk.page].key = g.key
            /\ merged[g.rank].id = g.chunk
            /\ IF g.unit = <<>> THEN chunk.unit = <<>>
               ELSE g.unit[1].id = chunk.unit /\ g.unit[1].status = "active"
            /\ \A r \in 1 .. g.rank - 1 : corpus.chunks[merged[r].id].page # chunk.page
       /\ \A r \in DOMAIN merged : inforce(merged[r].id) /\ Len(draft.grounds) < MAX_GROUNDS =>
            \E g \in ToSet(draft.grounds) :
              g.key = corpus.provisions[corpus.chunks[merged[r].id].page].key
       /\ \A c \in ToSet(draft.citations) :
            /\ draft.case.files[c.file].accepted
            /\ sources[Head(c.quote)[1]] = [file |-> c.file, page |-> c.page]
       /\ MarksAre(draft.law, draft.marks[1], draft.grounds)
       /\ MarksAre(draft.evidence, draft.marks[2], draft.citations)

\* A proposal is what its components say: each has a source, evidence of an
\* accepted file with that very amount or a fact that was confirmed; the
\* proposal is their sum without the cost of failing, at least the reserve
\* and at most twice it; it grows by what was paid only when that was asked
\* for; and the illustrative values are in order below it (settlement.py:24).
ProposalIsSupported ==
  draft.at = "drafted" =>
    LET s == draft.settlement
        facts == draft.case.facts
        add(total, c) == IF c.public THEN total + c.amount ELSE total
        sum == FoldLeft(add, 0, s.components)
    IN /\ \A c \in ToSet(s.components) : Len(c.sources) = 1 /\
            LET source == c.sources[1]
            IN /\ c.amount = Money(source.amount)
               /\ source.type = "evidence" =>
                    /\ draft.case.files[source.file].accepted
                    /\ facts.loss = source.amount
       /\ IF sum = 0 THEN s.public = None /\ s.reserved = None
          ELSE s.public = sum /\ s.reserved <= sum /\ sum <= 2 * s.reserved
       /\ sum > Money(Amount(facts.loss)) => facts.requested /\ facts.improper # None
       /\ s.low <= s.high /\ s.high <= sum
       /\ -Money(Amount(facts.cost)) <= s.low

\* A fact citation can be verified in the file that it names
\* (schemas.py:209, the docstring of EvidenceCitation): nothing in its quote
\* is from another file.
EvidenceIsQuotedFromItsFile ==
  draft.at = "drafted" =>
    \A c \in ToSet(draft.citations) : \A char \in ToSet(c.quote) :
      PageSources(draft.case.files)[char[1]].file = c.file
=============================================================================
