----------------------------- MODULE ChunkStore -----------------------------
(***************************************************************************)
(* The chunks of one document in a vector store (rag/vector_store.py,      *)
(* RagPipeline.index_chunks).  A document is indexed again whenever its    *)
(* text is analysed again, and may then have other chunks: the masks, and  *)
(* after a deployment the chunker, can differ.  Chroma replaces a document *)
(* in a worker thread and three calls, so replacements of one document     *)
(* interleave; the store in memory does it in one step of the event loop.  *)
(* Each of Chroma's calls may raise, in a server that goes on, having done *)
(* any part of its work (what it makes of its own failures is unknown).    *)
(* The chunks of a document are numbered from 0, so that the chunks of     *)
(* two replacements have their first ids in common.                        *)
(***************************************************************************)
EXTENDS Naturals, FiniteSets

CONSTANTS
  Writers,     \* indexings of the document
  ChunkCount,  \* how many chunks each of them has; 0 without text
  MaxCrashes

ASSUME ChunkStoreAssumption ==
  ChunkCount \in [Writers -> Nat] /\ 0 \notin Writers /\ MaxCrashes \in Nat

VARIABLES
  index,  \* backend, chunk by id, and what happened to the document lately
  writer  \* where each indexing is, and the ids it found

store == <<index, writer>>

AllIds == UNION {0 .. ChunkCount[w] : w \in Writers}

Own(w) == AllIds \cap (0 .. ChunkCount[w] - 1)

StoredIds == {i \in AllIds : index.chunk[i] # 0}

\* No replacement is between its first and its last call.
Quiet == \A w \in Writers : writer[w].at \notin {"upsert", "remove"}

\* The indexings that had the document since it was last at rest.
With(w) == IF Quiet THEN {w} ELSE index.lately \cup {w}

\* index_chunks: a provider that fails, or answers with another number of
\* vectors, ends the indexing before anything is stored.
EmbedDocuments(w) ==
  /\ writer[w].at = "idle"
  /\ \E at \in {"embedded", "failed"} :
       /\ at = "failed" => ChunkCount[w] > 0
       /\ writer' = [writer EXCEPT ![w].at = at]
  /\ UNCHANGED index

\* index_document: a document without chunks is deleted.
DeleteIfEmpty(w) ==
  /\ writer[w].at = "embedded" /\ ChunkCount[w] = 0
  /\ writer' = [writer EXCEPT ![w].at = "done"]
  /\ index' = [index EXCEPT !.chunk = [i \in AllIds |-> 0], !.lately = With(w),
                            !.searchable = FALSE, !.broken = @ /\ ~Quiet]

\* A call of Chroma raises and leaves these chunks behind.
CutShort(w, chunk) ==
  /\ index.backend = "chroma"
  /\ writer' = [writer EXCEPT ![w].at = "failed"]
  /\ index' = [index EXCEPT !.chunk = chunk, !.broken = TRUE]

DeleteFails(w) ==
  /\ index.backend = "chroma"
  /\ writer[w].at = "embedded" /\ ChunkCount[w] = 0
  /\ writer' = [writer EXCEPT ![w].at = "failed"]
  /\ \E removed \in SUBSET StoredIds :
       index' = [index EXCEPT !.chunk = [i \in AllIds |-> IF i \in removed THEN 0 ELSE @[i]],
                              !.lately = With(w), !.searchable = FALSE, !.broken = TRUE]

\* InMemoryVectorStore.replace_document
ReplaceInMemory(w) ==
  /\ index.backend = "memory"
  /\ writer[w].at = "embedded" /\ ChunkCount[w] > 0
  /\ writer' = [writer EXCEPT ![w].at = "done"]
  /\ index' = [index EXCEPT !.chunk = [i \in AllIds |-> IF i \in Own(w) THEN w ELSE 0],
                            !.lately = {w}, !.searchable = TRUE]

\* ChromaVectorStore.replace_document: the ids that are there,
ReadExistingIds(w) ==
  /\ index.backend = "chroma"
  /\ writer[w].at = "embedded" /\ ChunkCount[w] > 0
  /\ writer' = [writer EXCEPT ![w] = [at |-> "upsert", existing |-> StoredIds]]
  /\ index' = [index EXCEPT !.lately = With(w), !.broken = @ /\ ~Quiet]

ReadFails(w) ==
  /\ index.backend = "chroma"
  /\ writer[w].at = "embedded" /\ ChunkCount[w] > 0
  /\ writer' = [writer EXCEPT ![w].at = "failed"]
  /\ UNCHANGED index

\* the new chunks,
Upsert(w) ==
  /\ writer[w].at = "upsert"
  /\ writer' = [writer EXCEPT ![w].at = "remove"]
  /\ index' = [index EXCEPT !.chunk = [i \in AllIds |-> IF i \in Own(w) THEN w ELSE @[i]]]

UpsertFails(w) ==
  /\ writer[w].at = "upsert"
  /\ \E written \in SUBSET Own(w) :
       CutShort(w, [i \in AllIds |-> IF i \in written THEN w ELSE index.chunk[i]])

\* Mutation: the ids of the new chunks are not taken out.
AllFound(w) == writer[w].existing

StaleIds(w) == writer[w].existing \ Own(w)

\* and the ids no chunk has any more.
RemoveStale(w) ==
  /\ writer[w].at = "remove"
  /\ writer' = [writer EXCEPT ![w].at = "done"]
  /\ index' = [index EXCEPT
       !.chunk = [i \in AllIds |-> IF i \in StaleIds(w) THEN 0 ELSE @[i]],
       !.searchable = @ \/ \A v \in index.lately : ChunkCount[v] > 0]

\* It is called only when there are any.
RemoveFails(w) ==
  /\ writer[w].at = "remove"
  /\ StaleIds(w) # {}
  /\ \E removed \in SUBSET StaleIds(w) :
       CutShort(w, [i \in AllIds |-> IF i \in removed THEN 0 ELSE index.chunk[i]])

\* The process ends; what Chroma has done stays.
CrashStore ==
  /\ index.crashes < MaxCrashes
  /\ writer' = [w \in Writers |->
                  IF writer[w].at = "idle" THEN writer[w] ELSE [writer[w] EXCEPT !.at = "done"]]
  /\ index' = [index EXCEPT
       !.crashes = @ + 1,
       !.broken = @ \/ ~Quiet,
       !.chunk = IF index.backend = "memory" THEN [i \in AllIds |-> 0] ELSE @,
       !.lately = IF index.backend = "memory" THEN {} ELSE @,
       !.searchable = @ /\ index.backend = "chroma"]

StoreInit ==
  /\ \E backend \in {"memory", "chroma"} :
       index = [backend |-> backend, chunk |-> [i \in AllIds |-> 0], lately |-> {},
                searchable |-> FALSE, broken |-> FALSE, crashes |-> 0]
  /\ writer = [w \in Writers |-> [at |-> "idle", existing |-> {}]]

StoreNext ==
  \/ \E w \in Writers :
       EmbedDocuments(w) \/ DeleteIfEmpty(w) \/ ReplaceInMemory(w)
         \/ ReadExistingIds(w) \/ Upsert(w) \/ RemoveStale(w)
         \/ DeleteFails(w) \/ ReadFails(w) \/ UpsertFails(w) \/ RemoveFails(w)
  \/ CrashStore

-----------------------------------------------------------------------------
\* At rest, unless a crash or a call that raised has cut a replacement short
\* since, a document that one indexing alone had last is that one's, whole,
\* whatever was there, or was cut short, before it; after indexings that
\* overlapped, no chunk of an earlier one is left, though chunks of theirs may
\* be missing (vector_store.py:138).  A document that could be searched can be
\* searched all the time, also while replacements fail, until it has no text.
ReplacementIsWhole ==
  /\ Quiet /\ ~index.broken =>
       /\ \A i \in StoredIds : index.chunk[i] \in index.lately
       /\ \A w \in index.lately : index.lately = {w} =>
            \A i \in AllIds : index.chunk[i] = IF i \in Own(w) THEN w ELSE 0
  /\ index.searchable => StoredIds # {}

\* "Upsert first, then remove stale ids so provider failure preserves old data"
\* (vector_store.py:129): of what a replacement found, it has put nothing of its
\* own in the place when it fails.
FailedReplacementKeepsOld ==
  \A w \in Writers : writer[w].at = "failed" =>
    \A i \in writer[w].existing : index.chunk[i] # w
=============================================================================
