----------------------------- MODULE MCTextService -----------------------------
(***************************************************************************)
(* Small instances for TLC.  Documents, each made for cases of the gate    *)
(* and of the chunker: quotes that overlap, instructions at a page break,  *)
(* hidden and harmless ones, headings, long sentences, and texts over the  *)
(* budgets; pages of a small law; and cases that ask for a notice.         *)
(***************************************************************************)
EXTENDS TextService

Mark(page, from, to, form, severity) ==
  [page |-> page, from |-> from, to |-> to, form |-> form, severity |-> severity]

\* A heading, a paragraph of two sentences with quotes that overlap, a page
\* with a heading of its own.
Petition ==
  [pages |-> <<<<"A", "/", "a", "a", "a", ".", "a">>, <<"A", "/", "a", "a">>>>,
   marks |-> {Mark(1, 3, 4, "plain", 2), Mark(1, 4, 5, "invisible", 1)}]

Overlapping == [Petition EXCEPT !.marks = {Mark(1, 3, 5, "plain", 2), Mark(1, 5, 7, "plain", 1)}]

\* A marker in a paragraph of its own, before text of the same section.
Marked ==
  [pages |-> <<<<"A", "/", "a", "a", "/", "a", "a", "a", "a", "a", "a">>>>,
   marks |-> {Mark(1, 4, 4, "marker", 2), Mark(1, 9, 9, "court", 3)}]

\* One long sentence with suspicious words at its end, cut by a page break.
Long ==
  [pages |-> <<<<"a", "a", "a", "a", "a", "a", "a", "a", "a">>, <<"a", "a", "a">>>>,
   marks |-> {Mark(1, 6, 8, "vague", 0)}]

\* A marker and words near it, and words at the end that nobody will read.
Spread ==
  [Long EXCEPT !.marks = {Mark(1, 2, 2, "marker", 1), Mark(1, 4, 5, "vague", 0),
                          Mark(1, 8, 9, "vague", 0)}]

Crossing(from, to) == [Long EXCEPT !.marks = {Mark(1, from, to, "split", 3)}]

Hidden(form, severity) == [Long EXCEPT !.marks = {Mark(1, 2, 4, form, severity)}]

\* More than the budget of batches, and more than the budget of characters.
ManyPages == [pages |-> <<<<"a", "a", "a", "a">>, <<"a", "a", "a", "a">>, <<"a", "a", "a", "a">>>>,
              marks |-> {}]

TooManyChars == [ManyPages EXCEPT !.pages = Append(@, <<"a", "a">>)]

\* A heading of the greatest length and a list of short lines.
Lines == [pages |-> <<<<"A", "A">>, <<"a">>, <<"a", "/", "a", "/", "a", "/", "a", "/", "a">>>>,
          marks |-> {}]

Blank == [pages |-> <<<<>>, <<"A">>>>, marks |-> {}]

MCDocuments ==
  {Petition, Overlapping, Marked, Long, Spread, ManyPages, TooManyChars, Lines, Blank}
    \cup {Crossing(from, to) : from \in {6, 8}, to \in {10, 12}}
    \cup {Hidden(form, severity) : form \in {"comment", "encoded", "plain"}, severity \in {2, 4}}

Claim(page, from, to, severity, sure) ==
  [page |-> page, from |-> from, to |-> to, severity |-> severity, sure |-> sure,
   category |-> "control"]

\* Stronger and weaker than a rule, overlapping it, on its own, and ones that do not
\* stand: not on the page, not sure, harmless, no such page.
MCClaims ==
  {Claim(1, 3, 4, 4, TRUE), Claim(1, 3, 4, 1, TRUE), Claim(1, 4, 6, 2, TRUE),
   Claim(1, 7, 7, 1, TRUE),
   Claim(2, 3, 4, 2, TRUE), Claim(2, 3, 9, 3, TRUE), Claim(1, 7, 7, 3, FALSE),
   Claim(1, 7, 7, 0, TRUE), Claim(9, 1, 1, 3, TRUE)}

Cited(page, from, to, chunk) == [page |-> page, from |-> from, to |-> to, chunk |-> chunk]

MCAnswers ==
  {<<{Cited(1, 3, 4, 1), Cited(1, 3, 3, None)}, {Cited(2, 3, 4, 2)}>>,
   <<{Cited(1, 6, 7, 1)}, {Cited(1, 7, 8, 2)}, {Cited(4, 1, 1, None)}>>,
   <<{Cited(2, 1, 2, 3), Cited(1, 9, 9, 3)}, {Cited(1, 6, 7, 2), Cited(1, 6, 7, 3)}>>}

MCSetups ==
  {[hybrid |-> FALSE, reranked |-> FALSE, words |-> <<TRUE, TRUE>>],
   [hybrid |-> TRUE, reranked |-> FALSE, words |-> <<TRUE, FALSE>>],
   [hybrid |-> FALSE, reranked |-> TRUE, words |-> <<TRUE>>]}

MCDenseScores == [1 .. 3 -> {1, 2}] \cup {<<1, 2, 3>>, <<2, 3, 1>>}
MCLexicalScores == [1 .. 3 -> {0, 1}] \cup {<<1, 0, 2>>, <<2, 3, 0>>}

MCPrompted == {Petition, Overlapping, Marked, Hidden("plain", 2), Blank}

-----------------------------------------------------------------------------
(* Pages of a law of articles 1, 1-A and 2. *)

Par(kind, n) ==
  [kind |-> kind, n |-> n, s |-> 0, caps |-> FALSE, bare |-> FALSE, status |-> "active",
   text |-> <<"a">>]

Capitals(par) == [par EXCEPT !.caps = TRUE]
Bare(par) == [par EXCEPT !.bare = TRUE]
Saying(par, text) == [par EXCEPT !.text = text]
Without(par, status) == [par EXCEPT !.status = status]

Art(n, s) == [Par("article", n) EXCEPT !.s = s]

\* Sentences that are cut at a space, in a word, at the half, and not at all.
Clause == <<"a", "a", " ", "a", "a", "a", "a", "a", " ", "a", " ", "a", "a">>
HalfClause == <<"a", " ", "a", "a", "a", "a", " ", "a", "a">>

MCHeads ==
  {<<>>,
   <<Par("title", 1), Par("other", 0), Par("chapter", 1), Par("section", 1)>>,
   <<Bare(Par("title", 1)), Capitals(Par("other", 0)), Capitals(Par("chapter", 1))>>,
   <<Capitals(Bare(Par("title", 2))), Capitals(Bare(Par("chapter", 1))), Par("section", 2)>>,
   <<Capitals(Bare(Par("title", 2))), Capitals(Bare(Par("chapter", 1))),
     Capitals(Bare(Par("chapter", 2))), Capitals(Bare(Par("section", 1)))>>,
   <<Par("section", 3), Par("chapter", 2)>>}

MCBodies ==
  {<<>>,
   <<Par("inciso", 1), Saying(Par("paragraph", 1), Clause), Par("inciso", 1), Par("alinea", 1)>>,
   <<Without(Par("paragraph", 1), "vetoed"), Saying(Par("paragraph", 1), HalfClause), Par("penalty", 0)>>,
   <<[Par("quoted", 2) EXCEPT !.s = 0], Par("inciso", 1), Par("inciso", 1), Par("article", 1)>>,
   <<Par("paragraph", 1), Par("note", 0), Par("other", 0), Par("closing", 0), Par("alinea", 1)>>}

LawPage(head, first, body, second, tail) ==
  head \o <<Saying(Art(1, 0), Clause)>> \o first \o <<Art(1, 1)>> \o body \o second
    \o <<Saying(Art(2, 0), HalfClause)>> \o tail

Closing == <<Par("paragraph", 9), Par("closing", 0), Par("other", 0)>>

\* All of article 1 is vetoed, or it is vetoed in part and revoked in part.
Vetoed(status) ==
  <<Without(Art(1, 0), "vetoed"), Par("note", 0), Without(Par("paragraph", 1), status),
    Art(1, 1), Art(2, 0)>>

Incomplete == <<Art(1, 0), Art(2, 0)>>

MCNoticePages ==
  {Vetoed("vetoed"),
   LawPage(<<Par("title", 1)>>, <<>>,
           <<Without(Par("paragraph", 1), "vetoed"), Par("inciso", 1)>>, <<>>, Closing)}

MCPages ==
  {LawPage(head, first, body, second, Closing) :
     head \in MCHeads, first \in MCBodies, body \in MCBodies, second \in MCHeads}
    \cup {Vetoed("vetoed"), Vetoed("revoked"), Incomplete}
    \cup {LawPage(<<Saying(Par("title", 1), Clause)>>, <<>>, <<>>, <<>>, <<>>)}
    \cup MCNoticePages

MCDownloads ==
  {Vetoed("vetoed"), Incomplete, LawPage(<<>>, <<>>, <<>>, <<>>, <<>>),
   LawPage(<<Par("title", 1)>>, <<>>, <<>>, <<>>, Closing)}

MCCfTexts == <<Clause, <<"a">>>>

MCChunkCount == <<2, 1, 0>>

MCExtensions == {<<1, 1>>}

\* What searches may make of up to twelve chunks.
MCLawScores ==
  {<<0, 0, 2, 3, 1, 0, 0, 0, 0, 0, 0, 0>>, <<0, 0, 0, 2, 3, 0, 1, 0, 0, 0, 0, 0>>,
   <<1, 2, 0, 0, 0, 0, 0, 0, 0, 0, 0, 0>>, <<0, 0, 0, 0, 0, 0, 0, 0, 0, 0, 0, 0>>,
   <<2, 0, 0, 2, 0, 0, 3, 2, 1, 0, 0, 0>>}

MCEvidenceScores ==
  {<<1, 2, 0, 0, 0, 0, 0, 0, 0, 0, 0, 0>>, <<2, 1, 0, 0, 3, 0, 0, 0, 0, 0, 0, 0>>,
   <<0, 0, 0, 0, 0, 0, 0, 0, 0, 0, 0, 0>>}

-----------------------------------------------------------------------------
(* Cases. *)

Mention(page, amount) == [page |-> page, amount |-> amount, quote |-> "q"]

File(source, heading, pages, mentions) ==
  [source |-> source, accepted |-> TRUE, heading |-> heading, pages |-> pages,
   mentions |-> mentions]

Blocked(file) == [file EXCEPT !.accepted = FALSE]

Receipt(heading) ==
  File(1, heading, <<<<"a", "a">>>>, <<Mention(1, 15), Mention(1, 0), Mention(1, 15)>>)

Statement(heading) ==
  File(2, heading, <<<<"a", "a", "a", "a", "a", "a">>, <<"a">>>>,
       <<Mention(1, 1000), Mention(2, 1000), Mention(2, 20)>>)

Photo(heading) == File(3, heading, <<<<>>>>, <<>>)

MCFiles ==
  {<<Receipt("a"), Statement("a")>>, <<Receipt("A"), Blocked(Statement("a")), Statement("A")>>,
   <<Statement("a"), Receipt("A"), Receipt("a")>>, <<Photo("A")>>}

Reference(source, page, amount) == [source |-> source, mention |-> Mention(page, amount)]

MCFacts ==
  [category : {"other"}, signals : {{"consumer", "unrelated"}},
   loss : {None, 4, 15, 1000}, improper : {None, 5, 15, 1000}, requested : BOOLEAN,
   cost : {None, 3000},
   reference : {None, Reference(1, 1, 15), Reference(2, 2, 1000), Reference(2, 2, 20)}]

Plainly ==
  [category |-> "fraud", signals |-> {"unrelated"}, loss |-> 1000, improper |-> 15,
   requested |-> TRUE, cost |-> None, reference |-> None]

MCCases ==
  [files : MCFiles, facts : {Plainly, [Plainly EXCEPT !.category = "other"]}]
    \cup [files : {<<Receipt("a"), Statement("a")>>}, facts : MCFacts]
=============================================================================
