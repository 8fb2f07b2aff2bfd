------------------------------- MODULE RunLog -------------------------------
(***************************************************************************)
(* The history of runs (observability/store.py): one JSON line per run,    *)
(* appended without a sync, and read back by splitlines, line by line.     *)
(* The file is a sequence of pieces of records; a piece "break" is         *)
(* whatever splitlines breaks a line at: the newline that append writes,   *)
(* and U+2028 or U+0085 inside a text, which JSON does not escape.         *)
(***************************************************************************)
EXTENDS Integers, Sequences, SequencesExt, FiniteSets, Ordering

CONSTANTS
  Runs,       \* run ids, numbered in the order in which the runs end
  Separated,  \* runs with one of the two characters in a text of their record
  LIMIT,      \* how many runs a page of the history shows
  MaxTears    \* bound on crashes in the middle of an append

ASSUME RunLogAssumption ==
  /\ IsFiniteSet(Runs) /\ Runs = 1 .. Cardinality(Runs) /\ Separated \subseteq Runs
  /\ LIMIT \in Nat /\ MaxTears \in Nat

VARIABLE log  \* the file, the runs whose append returned, those torn by a crash

Piece(r, part) == [run |-> r, part |-> part]

\* model_dump_json and the newline.
Line(r) ==
  IF r \in Separated
  THEN <<Piece(r, "head"), Piece(r, "break"), Piece(r, "tail"), Piece(r, "break")>>
  ELSE <<Piece(r, "body"), Piece(r, "break")>>

\* RunStore.append
AppendRun(r) ==
  log' = [log EXCEPT !.file = @ \o Line(r), !.appended = @ \cup {r}]

\* A crash leaves the start of the line: whole pieces of it and perhaps a part
\* of the next, which may end inside a character.
TearRun(r) ==
  /\ Cardinality(log.torn) < MaxTears
  /\ \E n \in 0 .. Len(Line(r)) - 1 :
       \E cut \in {<<>>} \cup {<<Piece(r, part)>> : part \in {"torn", "bad"}} :
         /\ cut # <<>> => Line(r)[n + 1].part # "break"
         /\ log' = [log EXCEPT !.file = @ \o SubSeq(Line(r), 1, n) \o cut,
                               !.torn = @ \cup {r}]

RunEnds ==
  \E r \in Runs :
    /\ log.appended \cup log.torn = {s \in Runs : s < r}
    /\ AppendRun(r) \/ TearRun(r)

-----------------------------------------------------------------------------
(* Reading. *)

\* read_text raises for the file as a whole.
Undecodable(file) == \E i \in DOMAIN file : file[i].part = "bad"

\* splitlines
LinesOf(file) ==
  LET add(lines, piece) == IF piece.part = "break" THEN Append(lines, <<>>)
                           ELSE Append(Front(lines), Append(Last(lines), piece))
  IN FoldLeft(add, <<<<>>>>, file)

Parses(line) == Len(line) = 1 /\ line[1].part = "body"

\* Mutation: the first damaged line ends the reading.
RecordsUpToDamage(file) ==
  LET add(acc, line) ==
        IF acc.damaged \/ line = <<>> THEN acc
        ELSE IF Parses(line) THEN [acc EXCEPT !.read = Append(@, line[1].run)]
        ELSE [acc EXCEPT !.damaged = TRUE]
  IN FoldLeft(add, [read |-> <<>>, damaged |-> FALSE], LinesOf(file)).read

\* _records, _parse_line: a line that is no record is skipped.
Records(file) ==
  LET lines == LinesOf(file)
      found == {i \in DOMAIN lines : Parses(lines[i])}
      kept  == InOrder(found, {p \in found \X found : p[1] < p[2]})
  IN [k \in DOMAIN kept |-> lines[kept[k]][1].run]

NewestFirst(runs) == InOrder(runs, {p \in runs \X runs : p[1] > p[2]})

\* list_runs
ListRuns(file, limit) ==
  LET newest == NewestFirst(ToSet(Records(file)))
  IN SubSeq(newest, 1, IF limit < Len(newest) THEN limit ELSE Len(newest))

LogInit == log = [file |-> <<>>, appended |-> {}, torn |-> {}]

-----------------------------------------------------------------------------
\* Damage stays where it is (store.py:59): unless a crash cut a character in
\* two, the history has every run whose record was appended, save one with a
\* line separator in a text and one glued to the torn line of the run before
\* it; it has no others, no run twice, and a page of it shows the newest.
OnlyDamagedRunsAreLost ==
  LET all  == ListRuns(log.file, Cardinality(Runs))
      page == ToSet(ListRuns(log.file, LIMIT))
  IN ~Undecodable(log.file) =>
       /\ ToSet(all) \subseteq log.appended \cup log.torn
       /\ \A r \in log.appended \ ToSet(all) : r \in Separated \/ r - 1 \in log.torn
       /\ Len(Records(log.file)) = Cardinality(ToSet(all))
       /\ \A r \in ToSet(all) \ page : Cardinality({s \in page : s > r}) = LIMIT
=============================================================================
