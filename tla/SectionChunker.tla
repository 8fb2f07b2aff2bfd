---------------------------- MODULE SectionChunker ----------------------------
(***************************************************************************)
(* From a scanned document to the chunks that are indexed: the masks over  *)
(* the quotes of the findings (security/sanitization.py), then sections    *)
(* and overlapping chunks (rag/chunking.py).                               *)
(*                                                                         *)
(* A text is a sequence of characters, and a character is where it comes   *)
(* from: page and position, or position 0 for the mask.  One character     *)
(* stands for the whole mask, which is short and in capitals.              *)
(***************************************************************************)
EXTENDS InjectionGate

CONSTANTS
  TARGET_CHARS,
  OVERLAP_CHARS,
  HEADING_MAX_CHARS

ASSUME ChunkerAssumption ==
  /\ TARGET_CHARS \in Nat /\ OVERLAP_CHARS \in Nat /\ HEADING_MAX_CHARS \in Nat
  /\ OVERLAP_CHARS < TARGET_CHARS

Kind(d, char) == IF char[2] = 0 THEN "A" ELSE Page(d, char[1])[char[2]]

Characters(span) == [i \in 1 .. Size(span) |-> <<span.page, span.from + i - 1>>]

MaskedAs(page) == <<page, 0>>

-----------------------------------------------------------------------------
(* sanitization.py *)

\* mask_flagged_text: the longest quotes first; a quote that an earlier mask
\* has cut is no longer found.
MaskQuote(text, span) == ReplaceFirstSubSeq(<<MaskedAs(span.page)>>, Characters(span), text)

Quotes(findings) == {SpanOf(f.page, f.from, f.to) : f \in findings}

Earlier(a, b) == a.page < b.page \/ (a.page = b.page /\ a.from < b.from)

\* Mutation: the shortest quotes first.
ShortestFirst(a, b) == Size(a) < Size(b) \/ (Size(a) = Size(b) /\ Earlier(a, b))

LongestFirst(a, b) == Size(a) > Size(b) \/ (Size(a) = Size(b) /\ Earlier(a, b))

ByLength(quotes) == InOrder(quotes, {p \in quotes \X quotes : LongestFirst(p[1], p[2])})

MaskFlaggedText(text, findings) == FoldLeft(MaskQuote, text, ByLength(Quotes(findings)))

PageText(d, p) == Characters(SpanOf(p, 1, Len(Page(d, p))))

\* sanitized_document, as the texts of its pages.
SanitizedPages(d, findings) ==
  [p \in DOMAIN d.pages |-> MaskFlaggedText(PageText(d, p), findings)]

-----------------------------------------------------------------------------
(* chunking.py *)

\* A short line of capitals.
IsHeading(d, par) ==
  Len(par) <= HEADING_MAX_CHARS /\ \A i \in DOMAIN par : Kind(d, par[i]) = "A"

\* The paragraphs of a page, between its blank lines.
Paragraphs(d, text) ==
  LET add(pars, char) == IF Kind(d, char) = "/" THEN Append(pars, <<>>)
                         ELSE Append(Front(pars), Append(Last(pars), char))
      all == FoldLeft(add, <<<<>>>>, text)
  IN FlattenSeq([i \in DOMAIN all |-> IF all[i] = <<>> THEN <<>> ELSE <<all[i]>>])

\* _split_sections: headings without text below them are dropped.
SplitSections(d, pages) ==
  LET add(sections, par) ==
        IF IsHeading(d, par) THEN Append(sections, [title |-> par, paragraphs |-> <<>>])
        ELSE Append(Front(sections),
                    [Last(sections) EXCEPT !.paragraphs = Append(@, par)])
      pars == FlattenSeq([p \in DOMAIN pages |-> Paragraphs(d, pages[p])])
      all  == FoldLeft(add, <<[title |-> <<>>, paragraphs |-> <<>>]>>, pars)
  IN FlattenSeq([i \in DOMAIN all |-> IF all[i].paragraphs = <<>> THEN <<>> ELSE <<all[i]>>])

\* _hard_split
HardSplit(par) ==
  [i \in 1 .. (Len(par) + TARGET_CHARS - 1) \div TARGET_CHARS |->
     SubSeq(par, (i - 1) * TARGET_CHARS + 1, Min({Len(par), i * TARGET_CHARS}))]

\* The end of a piece that the next chunk starts with, if the piece is longer;
\* in Python the last 0 characters are all of them.
OverlapOf(piece) ==
  IF Len(piece) <= OVERLAP_CHARS THEN <<>>
  ELSE IF OVERLAP_CHARS = 0 THEN <<piece>>
  ELSE <<SubSeq(piece, Len(piece) - OVERLAP_CHARS + 1, Len(piece))>>

\* The buffered pieces as a chunk of the section, with their pages.  Its
\* characters are those of the document; the newline after each piece but the
\* last, and the brackets and the newline of a title, are breaks.
ChunkOf(section, buffer) ==
  LET text == FlattenSeq(buffer)
  IN [section |-> section.title, text |-> text,
      breaks |-> Len(buffer) - 1 + (IF section.title = <<>> THEN 0 ELSE 3),
      page_start |-> Min({c[1] : c \in ToSet(text)}),
      page_end |-> Max({c[1] : c \in ToSet(text)})]

\* The length of the text that is stored: title, pieces and breaks.
LengthOf(chunk) == Len(chunk.section) + Len(chunk.text) + chunk.breaks

\* Mutation: a piece that overflows the chunk is left out.
DropOverflow(section, acc, piece) ==
  LET size == Len(FlattenSeq(acc.buffer))
  IN IF size + Len(piece) > TARGET_CHARS /\ acc.buffer # <<>>
     THEN [chunks |-> Append(acc.chunks, ChunkOf(section, acc.buffer)),
           buffer |-> OverlapOf(Last(acc.buffer))]
     ELSE [acc EXCEPT !.buffer = Append(@, piece)]

\* One more piece: a chunk that would grow over the target is flushed first.
AddPiece(section, acc, piece) ==
  LET size == Len(FlattenSeq(acc.buffer))
  IN IF size + Len(piece) > TARGET_CHARS /\ acc.buffer # <<>>
     THEN [chunks |-> Append(acc.chunks, ChunkOf(section, acc.buffer)),
           buffer |-> Append(OverlapOf(Last(acc.buffer)), piece)]
     ELSE [acc EXCEPT !.buffer = Append(@, piece)]

\* _chunk_section
ChunkSection(section) ==
  LET pieces == FlattenSeq([i \in DOMAIN section.paragraphs |->
                              HardSplit(section.paragraphs[i])])
      add(acc, piece) == AddPiece(section, acc, piece)
      acc == FoldLeft(add, [chunks |-> <<>>, buffer |-> <<>>], pieces)
  IN IF acc.buffer = <<>> THEN acc.chunks
     ELSE Append(acc.chunks, ChunkOf(section, acc.buffer))

\* SectionAwareChunker.chunk; the index of a chunk is the rest of its id.
Chunk(d, pages) ==
  LET sections == SplitSections(d, pages)
  IN FlattenSeq([i \in DOMAIN sections |-> ChunkSection(sections[i])])

\* RagPipeline.index_document, up to the store.
Chunks(d, findings) == Chunk(d, SanitizedPages(d, findings))

-----------------------------------------------------------------------------
(* What a list of chunks owes to its document. *)

Overlap(a, b) == a.page = b.page /\ a.from <= b.to /\ b.from <= a.to

\* A text shows no flagged quote in full, and a part of one only where
\* another quote, at least as long, has cut it.
Hides(text, quotes) ==
  \A q \in quotes :
    /\ Characters(q) \notin SubSeqs(text)
    /\ ToSet(Characters(q)) \cap ToSet(text) # {} =>
         \E other \in quotes \ {q} : Overlap(q, other) /\ Size(other) >= Size(q)

\* The headings of a document with the masks in it: a paragraph that is
\* nothing but a mask is one as well.
Headings(d, pages) ==
  UNION {{par \in ToSet(Paragraphs(d, pages[p])) : IsHeading(d, par)} : p \in DOMAIN pages}

Before(c, e) == c[1] < e[1] \/ (c[1] = e[1] /\ c[2] < e[2])

\* Every character that is neither masked, blank line nor heading is in a
\* chunk; the chunk names its page and the last heading above it; no chunk is
\* only a repetition of the one before, where masks do not make them alike;
\* a chunk has no more of the document than the target and what it repeats,
\* and, as newlines do not count towards the target, with them and its title
\* it is not longer than twice the target and a title.
LocatesText(d, findings, chunks) ==
  LET pages == SanitizedPages(d, findings)
      heads == Headings(d, pages)
      body  == {c \in UNION {ToSet(pages[p]) : p \in DOMAIN pages} :
                  /\ Kind(d, c) # "/" /\ c[2] # 0
                  /\ \A h \in heads : c \notin ToSet(h)}
      above(c) == {h \in heads : h[1][2] # 0 /\ Before(h[1], c)}
      masks(c) == {p \in 1 .. c[1] : MaskedAs(p) \in ToSet(pages[p])}
  IN /\ \A c \in body :
          \E i \in DOMAIN chunks : c \in ToSet(chunks[i].text)
     /\ \A i \in DOMAIN chunks : \A c \in ToSet(chunks[i].text) \cap body :
          /\ c[1] \in chunks[i].page_start .. chunks[i].page_end
          /\ masks(c) = {} =>
               IF above(c) = {} THEN chunks[i].section = <<>>
               ELSE \A h \in above(c) \ {chunks[i].section} :
                      Before(h[1], chunks[i].section[1])
     /\ \A i \in DOMAIN chunks \ {1} :
          \/ \E c \in ToSet(chunks[i].text) : c[2] = 0
          \/ ~(ToSet(chunks[i].text) \subseteq ToSet(chunks[i - 1].text))
     /\ \A i \in DOMAIN chunks :
          /\ Len(chunks[i].text) <=
               TARGET_CHARS + (IF OVERLAP_CHARS = 0 THEN TARGET_CHARS ELSE OVERLAP_CHARS)
          /\ LengthOf(chunks[i]) <=
               2 * TARGET_CHARS + (IF OVERLAP_CHARS = 0 THEN 1 ELSE 0) + HEADING_MAX_CHARS + 3
=============================================================================
