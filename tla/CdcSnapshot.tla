----------------------------- MODULE CdcSnapshot -----------------------------
(***************************************************************************)
(* The official text of the Code: the parser of the page of the Planalto   *)
(* (consumer/cdc_snapshot.py), the tool of the maintainer that pins a new  *)
(* snapshot (consumer/update_cdc_snapshot.py), and the reads of a server   *)
(* that starts (consumer/legal_corpus.py).                                 *)
(*                                                                         *)
(* A page is a sequence of paragraphs, and a paragraph what the parser can *)
(* tell of it: kind, number, suffix (0 without), whether its letters are   *)
(* all capitals, whether it is a heading without a name, its status and    *)
(* its text.  A paragraph of the page is known by its position.            *)
(***************************************************************************)
EXTENDS Naturals, Sequences, FiniteSets, SequencesExt, FiniteSetsExt

CONSTANTS
  Downloads,     \* what the site may serve
  LAST,          \* the last article of the code
  Extensions,    \* articles with a suffix that a compiled page must have
  ARTICLE_COUNT  \* how many articles the maintainer's tool expects

ASSUME CodeAssumption ==
  /\ LAST \in Nat \ {0} /\ ARTICLE_COUNT \in Nat
  /\ Extensions \subseteq (1 .. LAST) \X (Nat \ {0})

LawParagraphs ==
  [kind : STRING, n : Nat, s : Nat, caps : BOOLEAN, bare : BOOLEAN, status : STRING,
   text : Seq(STRING)]

ASSUME DownloadsAssumption == Downloads \subseteq Seq(LawParagraphs)

VARIABLE law  \* the files, the tool, what was reviewed, and the server

-----------------------------------------------------------------------------
(* The parser. *)

Levels == <<"title", "chapter", "section">>

LevelOf(par) == CHOOSE l \in 1 .. 3 : Levels[l] = par.kind

\* _is_next_cdc_article, for articles as <<number, suffix>>.
IsNext(key, previous) ==
  \/ key = <<previous[1] + 1, 0>>
  \/ previous[1] > 0 /\ key = <<previous[1], previous[2] + 1>>

\* _update_hierarchy
UpdateHierarchy(hierarchy, level, i) ==
  [l \in 1 .. 3 |-> IF l < level THEN hierarchy[l] ELSE IF l = level THEN <<i>> ELSE <<>>]

\* finish_current
FinishCurrent(acc) == [acc EXCEPT !.done = @ \o acc.current, !.current = <<>>]

\* One paragraph of the page.  What is between a heading and the next article
\* is dropped, and so is all that comes after the place and date.
ParseParagraph(page, acc, i) ==
  LET par == page[i]
      on  == [acc EXCEPT !.pending = 0]
  IN IF acc.closed THEN acc
     ELSE IF acc.pending # 0 /\ par.caps THEN [on EXCEPT !.hierarchy[acc.pending] = Append(@, i)]
     ELSE IF par.kind \in ToSet(Levels)
     THEN [FinishCurrent(on) EXCEPT
             !.hierarchy = UpdateHierarchy(@, LevelOf(par), i),
             !.pending = IF par.bare THEN LevelOf(par) ELSE 0]
     ELSE IF par.kind = "article" /\ IsNext(<<par.n, par.s>>, acc.previous)
     THEN [FinishCurrent(on) EXCEPT
             !.previous = <<par.n, par.s>>,
             !.current = <<[key |-> <<par.n, par.s>>, hierarchy |-> acc.hierarchy,
                            blocks |-> <<i>>]>>]
     ELSE IF acc.current = <<>> THEN on
     ELSE IF par.kind = "closing" /\ acc.current[1].key[1] = LAST
     THEN [FinishCurrent(on) EXCEPT !.closed = TRUE]
     ELSE [on EXCEPT !.current[1].blocks = Append(@, i)]

\* The articles, with the paragraphs of each.
ArticleSpecs(page) ==
  LET start == [hierarchy |-> <<<<>>, <<>>, <<>>>>, pending |-> 0, current |-> <<>>,
                done |-> <<>>, previous |-> <<0, 0>>, closed |-> FALSE]
      step(acc, i) == ParseParagraph(page, acc, i)
  IN FinishCurrent(FoldLeft(step, start, [i \in DOMAIN page |-> i])).done

Unstructured == {"penalty", "quoted", "note", "other"}

UnitKind(par, first) ==
  IF first THEN "caput"
  ELSE IF par.kind \in {"paragraph", "inciso", "alinea", "penalty", "quoted", "note"} THEN par.kind
  ELSE "other"

\* The paragraph, inciso and alinea of a unit: those it is or is under; of a
\* quoted amendment, those it quotes (n a paragraph, s an inciso).
UnitPlace(acc, kind, par) ==
  CASE kind = "caput"     -> <<0, 0, 0>>
    [] kind = "paragraph" -> <<par.n, 0, 0>>
    [] kind = "inciso"    -> <<acc.place[1], par.n, 0>>
    [] kind = "alinea"    -> <<acc.place[1], acc.place[2], par.n>>
    [] kind = "quoted"    -> <<par.n, par.s, 0>>
    [] OTHER              -> <<acc.place[1], acc.place[2], 0>>

\* Mutation: a fragment that comes again has the same id.
FragmentAsId(units, kind, place) ==
  IF kind \in Unstructured
  THEN <<<<kind, Cardinality({i \in DOMAIN units : units[i].kind = kind}) + 1>>, 1>>
  ELSE <<<<kind>> \o place, 1>>

\* The fragment of the id, and how often it has been used.
UnitId(units, kind, place) ==
  LET fragment == IF kind \in Unstructured
                  THEN <<kind, Cardinality({i \in DOMAIN units : units[i].kind = kind}) + 1>>
                  ELSE <<kind>> \o place
  IN <<fragment, Cardinality({i \in DOMAIN units : units[i].id[1] = fragment}) + 1>>

AddUnit(page, acc, i) ==
  LET kind  == UnitKind(page[i], acc.units = <<>>)
      place == UnitPlace(acc, kind, page[i])
  IN [units |-> Append(acc.units,
        [id |-> UnitId(acc.units, kind, place), kind |-> kind, place |-> place,
         status |-> page[i].status, at |-> i]),
      place |-> CASE kind \in {"caput", "paragraph", "inciso"} -> place
                  [] OTHER -> acc.place]

\* _build_units
BuildUnits(page, blocks) ==
  LET add(acc, i) == AddUnit(page, acc, i)
  IN FoldLeft(add, [units |-> <<>>, place |-> <<0, 0, 0>>], blocks).units

\* Vetoed or revoked as a whole, when all its units but the notes are.
ArticleStatus(units) ==
  LET statuses == {u.status : u \in {v \in ToSet(units) : v.kind # "note"}}
  IN IF Cardinality(statuses) = 1 THEN CHOOSE s \in statuses : TRUE ELSE "active"

\* _build_article
BuildArticle(page, spec) ==
  LET units == BuildUnits(page, spec.blocks)
  IN [key |-> spec.key, hierarchy |-> spec.hierarchy, units |-> units,
      status |-> ArticleStatus(units)]

\* parse_cdc_html, before the validation.
ParsedArticles(page) ==
  LET specs == ArticleSpecs(page) IN [a \in DOMAIN specs |-> BuildArticle(page, specs[a])]

\* _validate_complete_cdc
IsComplete(articles) ==
  LET keys == {a.key : a \in ToSet(articles)}
  IN /\ {key[1] : key \in keys} = 1 .. LAST
     /\ Cardinality(keys) = Len(articles)
     /\ Extensions \subseteq keys

-----------------------------------------------------------------------------
(* The maintainer's tool.  The hash of a page is the page. *)

\* refresh_snapshot: a page that cannot be parsed, or has another number of
\* articles, changes nothing.  Each file is replaced in one step, the
\* manifest after the snapshot.
WriteSnapshot(page) ==
  /\ law.tool = <<>>
  /\ IsComplete(ParsedArticles(page)) /\ Len(ParsedArticles(page)) = ARTICLE_COUNT
  /\ law' = [law EXCEPT !.snapshot = page, !.tool = <<page>>]

WriteManifest ==
  /\ law.tool # <<>>
  /\ law' = [law EXCEPT !.manifest = [sha |-> law.tool[1], review |-> "pending_review"],
                        !.tool = <<>>]

\* It is killed, or a write fails.
CrashTool == law.tool # <<>> /\ law' = [law EXCEPT !.tool = <<>>]

\* External: someone reads the snapshot that the manifest names, and says so.
Promote ==
  /\ law.manifest.sha = law.snapshot /\ law.manifest.review = "pending_review"
  /\ law' = [law EXCEPT !.manifest.review = "legal_reviewed", !.reviewed = @ \cup {law.snapshot}]

-----------------------------------------------------------------------------
(* A server that starts reads the manifest, the snapshot, and the manifest *)
(* twice again; whatever is wrong, it does not start.                      *)

Down == [at |-> "down", sha |-> <<>>, page |-> <<>>]

Fails == [Down EXCEPT !.at = "failed"]

\* load_manifest
Promoted == law.manifest.review # "pending_review"

ReadManifest ==
  /\ law.server.at = "down"
  /\ law' = [law EXCEPT !.server =
       IF Promoted THEN [at |-> "manifest", sha |-> law.manifest.sha, page |-> <<>>] ELSE Fails]

\* Mutation: a complete page will do.
LoadsComplete(page, sha) == IsComplete(ParsedArticles(page))

\* load_official_cdc
Loads(page, sha) == page = sha /\ IsComplete(ParsedArticles(page))

ReadSnapshot ==
  /\ law.server.at = "manifest"
  /\ law' = [law EXCEPT !.server =
       IF Loads(law.snapshot, @.sha) THEN [@ EXCEPT !.at = "parsed", !.page = law.snapshot]
       ELSE Fails]

\* _validate_cdc_snapshot_provenance
ValidateProvenance ==
  /\ law.server.at = "parsed"
  /\ law' = [law EXCEPT !.server =
       IF Promoted /\ law.manifest.sha = @.sha THEN [@ EXCEPT !.at = "validated"] ELSE Fails]

\* _calculate_corpus_sha256: the digest takes the manifest as it is by now.
DigestCorpus ==
  /\ law.server.at = "validated"
  /\ law' = [law EXCEPT !.server =
       IF Promoted THEN [@ EXCEPT !.at = "up", !.sha = law.manifest.sha] ELSE Fails]

StopServer == law.server.at \in {"up", "failed"} /\ law' = [law EXCEPT !.server = Down]

\* The release that the repository is shipped with.
LawInit ==
  \E page \in Downloads :
    /\ IsComplete(ParsedArticles(page))
    /\ law = [snapshot |-> page, manifest |-> [sha |-> page, review |-> "legal_reviewed"],
              tool |-> <<>>, reviewed |-> {page}, server |-> Down]

LawNext ==
  \/ \E page \in Downloads : WriteSnapshot(page)
  \/ WriteManifest \/ CrashTool \/ Promote
  \/ ReadManifest \/ ReadSnapshot \/ ValidateProvenance \/ DigestCorpus \/ StopServer

-----------------------------------------------------------------------------
\* A server gives out no law that nobody has reviewed, nor one with an article
\* missing, wherever a refresh is or was killed and however a promotion and
\* a start fall together; and the digest it publishes names a reviewed release.
ServedLawWasReviewed ==
  law.server.at = "up" =>
    /\ law.server.page \in law.reviewed /\ law.server.sha \in law.reviewed
    /\ \A n \in 1 .. LAST : \E a \in ToSet(ParsedArticles(law.server.page)) : a.key = <<n, 0>>
    /\ \A key \in Extensions : \E a \in ToSet(ParsedArticles(law.server.page)) : a.key = key
=============================================================================
