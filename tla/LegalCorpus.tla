----------------------------- MODULE LegalCorpus -----------------------------
(***************************************************************************)
(* The law that notices cite (consumer/legal_corpus.py): provisions of the *)
(* Constitution and the articles of a parsed page, one synthetic page per  *)
(* provision; the chunks of their units in force; and the way back from a  *)
(* chunk to its provision and unit.  A text is a sequence of characters,   *)
(* of which the spaces matter.                                             *)
(***************************************************************************)
EXTENDS CdcSnapshot

CONSTANTS
  Pages,           \* pages of the law to be parsed, of paragraphs that are not blank
  CfTexts,         \* the texts of the constitutional provisions
  CHUNK_CHARS,     \* target_chars of as_chunks
  ContextFrame,    \* the characters of a context but for the hierarchy
  MIN_PIECE_CHARS, \* the room that a context must leave
  Space            \* the character at which a text may be cut

ASSUME LegalCorpusAssumption ==
  /\ Pages \subseteq Seq(LawParagraphs) /\ CfTexts \in Seq(Seq(STRING))
  /\ \A page \in Pages : \A i \in DOMAIN page : page[i].text # <<>> /\ page[i].text[1] # Space
  /\ CHUNK_CHARS \in Nat /\ ContextFrame \in Nat
  /\ MIN_PIECE_CHARS \in Nat \ {0}

VARIABLE corpus  \* a page, the provisions it gives and the chunks of them

\* A provision of the Constitution has no units, and its text is official.
CfProvision(i) ==
  [key |-> <<0, i>>, hierarchy |-> <<<<>>, <<>>, <<>>>>, units |-> <<>>, status |-> "active"]

\* CURATED_PROVISIONS; the position of a provision is its page.
Provisions(page) == [i \in DOMAIN CfTexts |-> CfProvision(i)] \o ParsedArticles(page)

\* LegalCorpus.__init__, the schema's validators
IsCorpus(provisions) ==
  /\ provisions # <<>>
  /\ IsInjective([n \in DOMAIN provisions |-> provisions[n].key])
  /\ \A p \in ToSet(provisions) : IsInjective([k \in DOMAIN p.units |-> p.units[k].id])

-----------------------------------------------------------------------------
(* _split_text *)

\* strip
Strip(text) ==
  LET solid == {i \in DOMAIN text : text[i] # Space}
  IN IF solid = {} THEN <<>> ELSE SubSeq(text, Min(solid), Max(solid))

\* After the last space in front of the limit, or at the limit when that space
\* is in the first half.  The ends of sentences that the code looks for as
\* well are never later than the space that follows them.
Boundary(text, max) ==
  LET spaces == {i \in 1 .. max : text[i] = Space}
  IN IF spaces = {} \/ Max(spaces \cup {0}) - 1 < max \div 2 THEN max ELSE Max(spaces)

SplitText(text, max) ==
  LET split(acc, n) ==
        LET b == Boundary(acc.remaining, max)
        IN IF Len(acc.remaining) <= max THEN acc
           ELSE [pieces |-> Append(acc.pieces, Strip(SubSeq(acc.remaining, 1, b))),
                 remaining |-> Strip(SubSeq(acc.remaining, b + 1, Len(acc.remaining)))]
      last == FoldLeft(split, [pieces |-> <<>>, remaining |-> text], [n \in DOMAIN text |-> n])
  IN IF last.remaining = <<>> THEN last.pieces ELSE Append(last.pieces, last.remaining)

-----------------------------------------------------------------------------
(* as_chunks *)

\* Room for the text: the context repeats the headings above the provision.
PieceChars(page, provision) ==
  LET headings == FlattenSeq(provision.hierarchy)
      context  == ContextFrame +
                    Len(FlattenSeq([i \in DOMAIN headings |-> page[headings[i]].text]))
  IN IF context < CHUNK_CHARS THEN CHUNK_CHARS - context ELSE 0

\* The texts to be indexed of a provision: those of its units in force, or its
\* own when it has no units.
Bodies(page, provision) ==
  IF provision.units = <<>> THEN <<[unit |-> <<>>, text |-> CfTexts[provision.key[2]]]>>
  ELSE LET active == FlattenSeq([k \in DOMAIN provision.units |->
                       IF provision.units[k].status = "active" THEN <<provision.units[k]>>
                       ELSE <<>>])
       IN [i \in DOMAIN active |-> [unit |-> active[i].id, text |-> page[active[i].at].text]]

\* A chunk of one unit: its id has the provision's page, the unit and the part.
UnitChunks(page, n, provision, body) ==
  LET pieces == SplitText(body.text, PieceChars(page, provision))
  IN [part \in DOMAIN pieces |->
        [page |-> n, unit |-> body.unit, part |-> part, text |-> pieces[part]]]

ProvisionChunks(page, n, provision) ==
  LET bodies == Bodies(page, provision)
  IN FlattenSeq([b \in DOMAIN bodies |-> UnitChunks(page, n, provision, bodies[b])])

AsChunks(page, provisions) ==
  FlattenSeq([n \in DOMAIN provisions |-> ProvisionChunks(page, n, provisions[n])])

\* Without room for one provision there are no chunks at all.
HasRoom(page, provisions) ==
  \A p \in ToSet(provisions) :
    Bodies(page, p) # <<>> => PieceChars(page, p) >= MIN_PIECE_CHARS

\* provision_for_chunk
ProvisionForChunk(provisions, chunk) == provisions[chunk.page]

\* unit_for_chunk: the first unit with the id that the chunk's id names.
UnitForChunk(provisions, chunk) ==
  LET units == ProvisionForChunk(provisions, chunk).units
      named == {k \in DOMAIN units : units[k].id = chunk.unit}
  IN IF named = {} THEN <<>> ELSE <<units[Min(named)]>>

-----------------------------------------------------------------------------
\* The import of the module, with a page that has been pinned.
LoadCorpus ==
  /\ corpus.at = "pinned"
  /\ LET provisions == Provisions(corpus.page)
     IN corpus' = IF IsComplete(ParsedArticles(corpus.page)) /\ IsCorpus(provisions)
                  THEN [corpus EXCEPT !.at = "loaded", !.provisions = provisions]
                  ELSE [corpus EXCEPT !.at = "refused"]

\* _ensure_legal_corpus_indexed; an error leaves it for the next notice.
IndexCorpus ==
  /\ corpus.at = "loaded"
  /\ corpus' = IF HasRoom(corpus.page, corpus.provisions)
               THEN [corpus EXCEPT !.at = "indexed",
                                   !.chunks = AsChunks(corpus.page, corpus.provisions)]
               ELSE [corpus EXCEPT !.at = "unindexable"]

CorpusInit ==
  \E page \in Pages :
    corpus = [page |-> page, at |-> "pinned", provisions |-> <<>>, chunks |-> <<>>]

-----------------------------------------------------------------------------
(* What the page says, read without the parser. *)

IsHeadingPar(par) == par.kind \in ToSet(Levels)

\* The paragraphs of capitals that belong to the heading above them; one that
\* does is no heading itself, whatever it says.
Continuations(page) ==
  LET bare(i) == IsHeadingPar(page[i]) /\ page[i].bare
      take(taken, i) == IF i > 1 /\ page[i].caps /\ bare(i - 1) /\ i - 1 \notin taken
                        THEN taken \cup {i} ELSE taken
  IN FoldLeft(take, {}, [i \in DOMAIN page |-> i])

Nearest(positions) == IF positions = {} THEN 0 ELSE Max(positions)

\* The heading of a level that position i is under.
HeadingAbove(page, i, level) ==
  LET taken    == Continuations(page)
      heads(l) == {j \in 1 .. i - 1 : IsHeadingPar(page[j]) /\ LevelOf(page[j]) = l} \ taken
      above    == Nearest(heads(level))
  IN IF above < Nearest(UNION {heads(l) : l \in 1 .. level - 1}) THEN 0 ELSE above

\* The nearest unit of a kind above unit k of an article, or at it.
UnitAbove(units, k, kinds) ==
  LET at == Nearest({j \in 1 .. k : units[j].kind \in kinds \cup {"caput"}})
  IN IF units[at].kind \in kinds THEN at ELSE 0

\* What a sequence has of a set, in its order.
Chosen(seq, S) == FlattenSeq([i \in DOMAIN seq |-> IF seq[i] \in S THEN <<seq[i]>> ELSE <<>>])

Words(text) == Chosen(text, ToSet(text) \ {Space})

\* One unit of a provision, with the chunks of the provision.
UnitIsLocated(p, k, chunks) ==
  LET u    == p.units[k]
      par  == UnitAbove(p.units, k, {"paragraph"})
      mine == Chosen(chunks, {c \in ToSet(chunks) : c.unit = u.id})
  IN /\ \A l \in 1 .. 3 :
          LET head == HeadingAbove(corpus.page, p.units[1].at, l)
          IN IF head = 0 THEN p.hierarchy[l] = <<>> ELSE p.hierarchy[l][1] = head
     /\ k > 1 => u.at = p.units[k - 1].at + 1
     /\ u.kind \in {"inciso", "alinea", "penalty", "note", "other"} =>
          u.place[1] = IF par = 0 THEN 0 ELSE corpus.page[p.units[par].at].n
     /\ corpus.at = "indexed" =>
          /\ Words(FlattenSeq([i \in DOMAIN mine |-> mine[i].text])) =
               IF u.status = "active" THEN Words(corpus.page[u.at].text) ELSE <<>>
          /\ \A c \in ToSet(mine) :
               /\ UnitForChunk(corpus.provisions, c) = <<u>>
               /\ c.text # <<>> /\ Len(c.text) <= CHUNK_CHARS - ContextFrame

\* The law is where its citation says.  A complete page is not refused; every
\* article is under the headings above it on the page and ends where the next
\* begins; every unit is under the paragraph above it; the chunks of a unit in
\* force are its whole text, within the limit, and lead back to that unit
\* alone, also when two units of an article have one label; what is vetoed or
\* revoked has none, though the notes in it have (legal_corpus.py:522).
LawIsLocated ==
  /\ corpus.at = "refused" => ~IsComplete(ParsedArticles(corpus.page))
  /\ corpus.at \in {"loaded", "indexed"} =>
       \A n \in DOMAIN corpus.provisions :
         LET p    == corpus.provisions[n]
             mine == Chosen(corpus.chunks, {c \in ToSet(corpus.chunks) : c.page = n})
         IN /\ \A k \in DOMAIN p.units : UnitIsLocated(p, k, mine)
            /\ p.units # <<>> =>
                 LET next == Last(p.units).at + 1
                 IN next \in DOMAIN corpus.page =>
                      corpus.page[next].kind \in ToSet(Levels) \cup {"article", "closing"}
            /\ p.status # "active" =>
                 \A c \in ToSet(mine) : UnitForChunk(corpus.provisions, c)[1].kind = "note"
=============================================================================
