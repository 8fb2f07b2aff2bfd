---------------------------- MODULE ConsumerCase ----------------------------
(***************************************************************************)
(* The consumer case service (app/consumer/service.py) behind its routes:  *)
(* one asyncio event loop, so a handler is atomic from one await to the    *)
(* next.  create_case, add_message and update_facts never await and are    *)
(* single actions; add_document, generate_notice and delete_case are split *)
(* at their awaits and interleave with every other request.  The vector    *)
(* store does its work in a worker thread, so its effect and the handler's *)
(* resumption are separate steps.                                          *)
(***************************************************************************)
EXTENDS Naturals, Sequences

CONSTANTS
  Cases,         \* case ids, drawn fresh from uuid4
  Requests,      \* slots for the requests that await (upload, notice, delete)
  Files,         \* evidence files, told apart by their sha-256
  HeadingFiles,  \* files whose text is all headings: the chunker keeps nothing
  Fields,        \* the facts a notice cannot do without
  IntakeFields,  \* those of them that the chat extractor may fill
  Values,        \* what a field may say
  ScopedTexts,   \* the field contents that are a consumer dispute
  Keys,          \* client_message_id values
  Messages,      \* what the extractor finds in a message, field by field
  Amounts,       \* amounts of money
  References,    \* reference ids of amounts found in evidence
  FileReferences,  \* the references a file holds
  ReferenceAmount, \* the amount a reference stands for
  Patches,       \* bodies of PATCH facts
  OneAtATime,    \* TRUE: a client waits for its answer before the next call
  MaxRestarts,   \* bound on process restarts
  None,          \* Python's None
  Keep           \* a key that is absent from a PATCH body

Texts == [Fields -> Values \cup {None}]

ASSUME DataAssumption ==
  /\ HeadingFiles \subseteq Files
  /\ IntakeFields \subseteq Fields
  /\ ScopedTexts \subseteq Texts
  /\ Messages \subseteq Texts
  /\ \A m \in Messages : \A f \in Fields \ IntakeFields : m[f] = None
  /\ Amounts \subseteq Nat
  /\ FileReferences \in [Files -> SUBSET References]
  /\ ReferenceAmount \in [References -> Amounts]
  /\ Patches \subseteq [text     : [Fields -> Values \cup {None, Keep}],
                        loss     : Amounts \cup {None, Keep},
                        ref      : References \cup {None, Keep},
                        improper : Amounts \cup {None, Keep}]

ASSUME ConfigAssumption ==
  /\ OneAtATime \in BOOLEAN
  /\ MaxRestarts \in Nat
  /\ None \notin Cases /\ None \notin Values /\ None \notin Amounts
  /\ None \notin References /\ None \notin Keys
  /\ Keep \notin Values /\ Keep \notin Amounts /\ Keep \notin References
  /\ Keep # None

VARIABLES
  created,               \* case ids handed out so far
  live,                  \* ConsumerCaseStore._cases
  facts,                 \* record.facts
  facts_confirmed,       \* record.facts_confirmed
  accepted,              \* record.documents with a safe_document, in order
  refused,               \* record.documents without one
  notice,                \* record.notice
  answered,              \* record.idempotent_messages
  indexed_document_ids,  \* record.indexed_document_ids
  index,                 \* documents with chunks in the persistent vector store
  legal_indexed,         \* service._legal_indexed
  legal_index_lock,      \* service._legal_index_lock: holder first, then waiters
  request,               \* the requests in flight
  acknowledged,          \* cases whose DELETE was answered 204
  restarts               \* process restarts so far

record == <<facts, facts_confirmed, accepted, refused, notice, answered,
            indexed_document_ids>>
legal  == <<legal_indexed, legal_index_lock>>
vars   == <<created, live, record, index, legal, request, acknowledged, restarts>>

Facts == [text     : Texts,
          loss     : Amounts \cup {None},
          ref      : References \cup {None},
          improper : Amounts \cup {None}]

NoFacts == [text |-> [f \in Fields |-> None],
            loss |-> None, ref |-> None, improper |-> None]

\* A notice holds the facts it was rendered from and names the combined
\* evidence document it cites.
Notices == [facts : Facts, doc : Nat]

\* A notice is never taken for its absence.
ASSUME NoticeAssumption == None \notin Notices

States == {"idle", "receiving", "ingesting",
           "waiting", "legal", "clearing", "indexing", "stored", "retrieving",
           "composing", "purging", "purged"}

Generating == {"waiting", "legal", "clearing", "indexing", "stored",
               "retrieving", "composing"}

Request == [pc   : States,
            case : Cases \cup {None},
            file : Files \cup {None},
            doc  : Nat,
            all  : SUBSET Nat,
            rest : SUBSET Nat]

Idle == [pc |-> "idle", case |-> None, file |-> None,
         doc |-> 0, all |-> {}, rest |-> {}]

\* Unless the client waits for each answer, any request may arrive any time.
Admitted(c) == OneAtATime => \A r \in Requests : request[r].case # c

Goto(r, pc) == request' = [request EXCEPT ![r].pc = pc]

Finish(r) == request' = [request EXCEPT ![r] = Idle]

-----------------------------------------------------------------------------
(* Helpers of the service. *)

SeqElements(s) == {s[i] : i \in DOMAIN s}

\* _has_accepted_evidence
HasAcceptedEvidence(c) == accepted[c] # <<>>

\* Mutation: the amount is not compared.
BackedByAnyAmount(c, ref, loss) ==
  \E f \in SeqElements(accepted[c]) : ref \in FileReferences[f]

\* _find_monetary_reference plus the amount test of update_facts: only
\* accepted evidence can back an amount.
Backed(c, ref, loss) ==
  /\ loss # None
  /\ \E f \in SeqElements(accepted[c]) : ref \in FileReferences[f]
  /\ ReferenceAmount[ref] = loss

\* The validator of ConsumerCaseFacts: tested only when both amounts are set.
ValidFacts(f) ==
  (f.improper # None /\ f.loss # None) => f.improper <= f.loss

\* The validator of SettlementInputs, which sees a missing loss as zero.
SettlementAccepts(f) ==
  f.improper # None => f.improper <= (IF f.loss = None THEN 0 ELSE f.loss)

\* _readiness_missing is empty.
Ready(c) == /\ \A f \in Fields : facts[c].text[f] # None
            /\ facts[c].text \in ScopedTexts
            /\ HasAcceptedEvidence(c)
            /\ facts_confirmed[c]

\* _combined_evidence: the document is named by its content, and accepted
\* evidence is only ever appended, so its length names the document.
CombinedEvidence(c) == Len(accepted[c])

HasChunks(c) == \E f \in SeqElements(accepted[c]) : f \notin HeadingFiles

-----------------------------------------------------------------------------
(* Handlers that never await. *)

CreateCase(c) ==
  /\ c \notin created
  /\ created' = created \cup {c}
  /\ live' = live \cup {c}
  /\ UNCHANGED <<record, index, legal, request, acknowledged, restarts>>

\* Mutation: only the notice is dropped.
ReopenKeepingReview(c) ==
  /\ notice' = [notice EXCEPT ![c] = None]
  /\ UNCHANGED facts_confirmed

\* Anything new makes the person review the case again.
Reopen(c) ==
  /\ notice' = [notice EXCEPT ![c] = None]
  /\ facts_confirmed' = [facts_confirmed EXCEPT ![c] = FALSE]

\* extract_explicit_facts looks only for facts still missing and
\* merge_explicit_facts only fills those.
Merged(text, m) == [f \in Fields |-> IF text[f] = None THEN m[f] ELSE text[f]]

\* A client_message_id that was answered before is answered again from memory.
AddMessage(c, key, m) ==
  /\ c \in live
  /\ Admitted(c)
  /\ key \notin answered[c]
  /\ facts' = [facts EXCEPT ![c].text = Merged(@, m)]
  /\ Reopen(c)
  /\ answered' = [answered EXCEPT ![c] = @ \cup ({key} \ {None})]
  /\ UNCHANGED <<created, live, accepted, refused, indexed_document_ids,
                 index, legal, request, acknowledged, restarts>>

\* Mutation: absent keys are written too.
GivenOrAbsent(new, old) == new

Given(new, old) == IF new = Keep THEN old ELSE new

\* The PATCH body over the stored facts.  An amount that comes without a
\* reference drops the reference of the amount it replaces.
Patched(f, p) ==
  [text     |-> [n \in Fields |-> Given(p.text[n], f.text[n])],
   loss     |-> Given(p.loss, f.loss),
   ref      |-> IF p.ref = Keep /\ p.loss # Keep THEN None ELSE Given(p.ref, f.ref),
   improper |-> Given(p.improper, f.improper)]

\* Mutation: an edit leaves the notice standing.
NoticeAfterKept(old, changed) == old

NoticeAfter(old, changed) == IF changed THEN None ELSE old

\* `ask` is the facts_confirmed of the body: absent, true or false.
UpdateFacts(c, p, ask) ==
  LET new     == Patched(facts[c], p)
      changed == new # facts[c]
  IN  /\ c \in live
      /\ Admitted(c)
      /\ new.ref # None => Backed(c, new.ref, new.loss)
      /\ ValidFacts(new)
      /\ facts' = [facts EXCEPT ![c] = new]
      /\ notice' = [notice EXCEPT ![c] = NoticeAfter(@, changed)]
      /\ facts_confirmed' =
           [facts_confirmed EXCEPT ![c] = IF ask = "absent" THEN @ /\ ~changed
                                                            ELSE ask = "true"]
      /\ UNCHANGED <<created, live, accepted, refused, answered,
                     indexed_document_ids, index, legal, request, acknowledged,
                     restarts>>

-----------------------------------------------------------------------------
(* add_document *)

\* The route authorizes before it streams the body to disk.
StartUpload(r, c, f) ==
  /\ request[r] = Idle
  /\ c \in live
  /\ Admitted(c)
  /\ request' = [request EXCEPT ![r] = [Idle EXCEPT !.pc = "receiving",
                                                    !.case = c, !.file = f]]
  /\ UNCHANGED <<created, live, record, index, legal, acknowledged, restarts>>

\* The service authorizes again and looks the file up among the documents.
BeginIngest(r) ==
  LET c == request[r].case
  IN  /\ request[r].pc = "receiving"
      /\ c \in live
      /\ request[r].file \notin SeqElements(accepted[c]) \cup refused[c]
      /\ Goto(r, "ingesting")
      /\ UNCHANGED <<created, live, record, index, legal, acknowledged, restarts>>

\* Too large, bad signature, case gone, duplicate, or no text: no effect.
UploadEnds(r) ==
  /\ request[r].pc \in {"receiving", "ingesting"}
  /\ Finish(r)
  /\ UNCHANGED <<created, live, record, index, legal, acknowledged, restarts>>

\* Ingestion and scan are over.  The record is the one found before them.
CommitEvidence(r, safe) ==
  LET c == request[r].case
  IN  /\ request[r].pc = "ingesting"
      /\ accepted' = [accepted EXCEPT ![c] =
                        IF safe THEN Append(@, request[r].file) ELSE @]
      /\ refused' = [refused EXCEPT ![c] =
                       IF safe THEN @ ELSE @ \cup {request[r].file}]
      /\ Reopen(c)
      /\ Finish(r)
      /\ UNCHANGED <<created, live, facts, answered, indexed_document_ids,
                     index, legal, acknowledged, restarts>>

-----------------------------------------------------------------------------
(* generate_notice *)

\* _combined_evidence and the chunker run without an await before the first
\* call that leaves the loop: embedding, or clearing an empty document.
Combine(r, c) ==
  request' = [request EXCEPT ![r] =
                [Idle EXCEPT !.pc   = IF HasChunks(c) THEN "indexing" ELSE "clearing",
                             !.case = c,
                             !.doc  = CombinedEvidence(c)]]

\* The readiness test, then _ensure_legal_corpus_indexed up to its await.
StartNotice(r, c) ==
  /\ request[r] = Idle
  /\ c \in live
  /\ Admitted(c)
  /\ Ready(c)
  /\ IF legal_indexed
     THEN /\ Combine(r, c)
          /\ UNCHANGED legal_index_lock
     ELSE /\ request' = [request EXCEPT ![r] =
               [Idle EXCEPT !.case = c,
                            !.pc = IF legal_index_lock = <<>> THEN "legal"
                                                              ELSE "waiting"]]
          /\ legal_index_lock' = Append(legal_index_lock, r)
  /\ UNCHANGED <<created, live, record, index, legal_indexed, acknowledged, restarts>>

\* Mutation: the flag is tested only before the lock.
AcquireLegalLockUnchecked(r) ==
  /\ request[r].pc = "waiting"
  /\ legal_index_lock # <<>>
  /\ Head(legal_index_lock) = r
  /\ Goto(r, "legal")
  /\ UNCHANGED <<created, live, record, index, legal, acknowledged, restarts>>

\* asyncio.Lock wakes its waiters in order; the winner tests the flag again.
AcquireLegalLock(r) ==
  /\ request[r].pc = "waiting"
  /\ legal_index_lock # <<>>
  /\ Head(legal_index_lock) = r
  /\ IF legal_indexed
     THEN /\ Combine(r, request[r].case)
          /\ legal_index_lock' = Tail(legal_index_lock)
     ELSE /\ Goto(r, "legal")
          /\ UNCHANGED legal_index_lock
  /\ UNCHANGED <<created, live, record, index, legal_indexed, acknowledged, restarts>>

LegalCorpusIndexed(r) ==
  /\ request[r].pc = "legal"
  /\ legal_indexed' = TRUE
  /\ legal_index_lock' = Tail(legal_index_lock)
  /\ Combine(r, request[r].case)
  /\ UNCHANGED <<created, live, record, index, acknowledged, restarts>>

\* Mutation: a failure keeps the lock.
LegalCorpusFailsHoldingLock(r) ==
  /\ request[r].pc = "legal"
  /\ Finish(r)
  /\ UNCHANGED <<created, live, record, index, legal, acknowledged, restarts>>

\* The exception leaves `async with`, which releases the lock.
LegalCorpusFails(r) ==
  /\ request[r].pc = "legal"
  /\ legal_index_lock' = Tail(legal_index_lock)
  /\ Finish(r)
  /\ UNCHANGED <<created, live, record, index, legal_indexed, acknowledged, restarts>>

\* rag.index_document found no chunk: it clears the document and the notice
\* is refused for want of retrievable text.
ClearEmptyDocument(r) ==
  /\ request[r].pc = "clearing"
  /\ index' = index \ {<<request[r].case, request[r].doc>>}
  /\ Finish(r)
  /\ UNCHANGED <<created, live, record, legal, acknowledged, restarts>>

\* Embedding is done and the worker thread replaces the document's chunks.
StoreEvidence(r) ==
  /\ request[r].pc = "indexing"
  /\ index' = index \cup {<<request[r].case, request[r].doc>>}
  /\ Goto(r, "stored")
  /\ UNCHANGED <<created, live, record, legal, acknowledged, restarts>>

\* Mutation: the record is not told.
RecordIndexedForgotten(r) ==
  /\ request[r].pc = "stored"
  /\ Goto(r, "retrieving")
  /\ UNCHANGED <<created, live, record, index, legal, acknowledged, restarts>>

\* Only after the thread has returned does the record learn of the document.
RecordIndexed(r) ==
  /\ request[r].pc = "stored"
  /\ indexed_document_ids' =
       [indexed_document_ids EXCEPT ![request[r].case] = @ \cup {request[r].doc}]
  /\ Goto(r, "retrieving")
  /\ UNCHANGED <<created, live, facts, facts_confirmed, accepted, refused, notice,
                 answered, index, legal, acknowledged, restarts>>

\* Evidence comes back only while its document is in the index.
RetrieveEvidence(r) ==
  /\ request[r].pc = "retrieving"
  /\ <<request[r].case, request[r].doc>> \in index
  /\ Goto(r, "composing")
  /\ UNCHANGED <<created, live, record, index, legal, acknowledged, restarts>>

\* Everything from here to the assignment of record.notice reads the record
\* as it is now, and neither readiness nor confirmation is tested again.
ComposeNotice(r) ==
  LET c == request[r].case
  IN  /\ request[r].pc = "composing"
      /\ facts[c].text \in ScopedTexts
      /\ facts[c].ref # None => Backed(c, facts[c].ref, facts[c].loss)
      /\ SettlementAccepts(facts[c])
      /\ notice' = [notice EXCEPT ![c] = [facts |-> facts[c], doc |-> request[r].doc]]
      /\ Finish(r)
      /\ UNCHANGED <<created, live, facts, facts_confirmed, accepted, refused,
                     answered, indexed_document_ids, index, legal, acknowledged,
                     restarts>>

\* A provider fails, retrieval supports nothing, or an input is rejected: the
\* request ends with an error and the record keeps what it had.
NoticeFails(r) ==
  /\ request[r].pc \in {"clearing", "indexing", "retrieving", "composing"}
  /\ Finish(r)
  /\ UNCHANGED <<created, live, record, index, legal, acknowledged, restarts>>

-----------------------------------------------------------------------------
(* delete_case *)

\* The loop over the live set indexed_document_ids, at its next element.
PurgeStep(r, c, all, rest) ==
  IF rest = {}
  THEN /\ Finish(r)
       /\ acknowledged' = acknowledged \cup {c}
  ELSE /\ \E d \in rest :
            request' = [request EXCEPT ![r] =
                          [Idle EXCEPT !.pc = "purging", !.case = c, !.doc = d,
                                       !.all = all, !.rest = rest \ {d}]]
       /\ UNCHANGED acknowledged

StartDelete(r, c) ==
  /\ request[r] = Idle
  /\ c \in live
  /\ Admitted(c)
  /\ live' = live \ {c}
  /\ PurgeStep(r, c, indexed_document_ids[c], indexed_document_ids[c])
  /\ UNCHANGED <<created, record, index, legal, restarts>>

PurgeDocument(r) ==
  /\ request[r].pc = "purging"
  /\ index' = index \ {<<request[r].case, request[r].doc>>}
  /\ Goto(r, "purged")
  /\ UNCHANGED <<created, live, record, legal, acknowledged, restarts>>

PurgeNext(r) ==
  /\ request[r].pc = "purged"
  /\ indexed_document_ids[request[r].case] = request[r].all
  /\ PurgeStep(r, request[r].case, request[r].all, request[r].rest)
  /\ UNCHANGED <<created, live, record, index, legal, restarts>>

\* Mutation: the failure is swallowed and the deletion answered with success.
PurgeFailsSilently(r) ==
  /\ request[r].pc = "purging"
  /\ acknowledged' = acknowledged \cup {request[r].case}
  /\ Finish(r)
  /\ UNCHANGED <<created, live, record, index, legal, restarts>>

\* The store fails, or the iterator finds that the set has grown meanwhile.
\* The case is already gone, so the client cannot ask again.
PurgeFails(r) ==
  /\ \/ request[r].pc = "purging"
     \/ /\ request[r].pc = "purged"
        /\ indexed_document_ids[request[r].case] # request[r].all
  /\ Finish(r)
  /\ UNCHANGED <<created, live, record, index, legal, acknowledged, restarts>>

-----------------------------------------------------------------------------
InitialRecord ==
  /\ facts = [c \in Cases |-> NoFacts]
  /\ facts_confirmed = [c \in Cases |-> FALSE]
  /\ accepted = [c \in Cases |-> <<>>]
  /\ refused = [c \in Cases |-> {}]
  /\ notice = [c \in Cases |-> None]
  /\ answered = [c \in Cases |-> {}]
  /\ indexed_document_ids = [c \in Cases |-> {}]

Init ==
  /\ created = {}
  /\ live = {}
  /\ InitialRecord
  /\ index = {}
  /\ legal_indexed = FALSE
  /\ legal_index_lock = <<>>
  /\ request = [r \in Requests |-> Idle]
  /\ acknowledged = {}
  /\ restarts = 0

\* Cases live in memory, the vector store on disk.
Restart ==
  /\ restarts < MaxRestarts
  /\ restarts' = restarts + 1
  /\ live' = {}
  /\ facts' = [c \in Cases |-> NoFacts]
  /\ facts_confirmed' = [c \in Cases |-> FALSE]
  /\ accepted' = [c \in Cases |-> <<>>]
  /\ refused' = [c \in Cases |-> {}]
  /\ notice' = [c \in Cases |-> None]
  /\ answered' = [c \in Cases |-> {}]
  /\ indexed_document_ids' = [c \in Cases |-> {}]
  /\ legal_indexed' = FALSE
  /\ legal_index_lock' = <<>>
  /\ request' = [r \in Requests |-> Idle]
  /\ UNCHANGED <<created, index, acknowledged>>

Edit(c) ==
  \/ CreateCase(c)
  \/ \E key \in Keys \cup {None}, m \in Messages : AddMessage(c, key, m)
  \/ \E p \in Patches, ask \in {"absent", "true", "false"} : UpdateFacts(c, p, ask)

Start(r, c) ==
  \/ \E f \in Files : StartUpload(r, c, f)
  \/ StartNotice(r, c)
  \/ StartDelete(r, c)

Advance(r) ==
  \/ BeginIngest(r)
  \/ UploadEnds(r)
  \/ \E safe \in BOOLEAN : CommitEvidence(r, safe)
  \/ AcquireLegalLock(r)
  \/ LegalCorpusIndexed(r)
  \/ LegalCorpusFails(r)
  \/ ClearEmptyDocument(r)
  \/ StoreEvidence(r)
  \/ RecordIndexed(r)
  \/ RetrieveEvidence(r)
  \/ ComposeNotice(r)
  \/ NoticeFails(r)
  \/ PurgeDocument(r)
  \/ PurgeNext(r)
  \/ PurgeFails(r)

Next ==
  \/ \E c \in Cases : Edit(c)
  \/ \E r \in Requests, c \in Cases : Start(r, c)
  \/ \E r \in Requests : Advance(r)
  \/ Restart

Spec == Init /\ [][Next]_vars

\* The event loop runs every task that is ready, and every await on a
\* provider or on the store ends, with a result or with an exception.
FairSpec == Spec /\ \A r \in Requests : WF_vars(Advance(r))

-----------------------------------------------------------------------------
(* Properties. *)

RecordOK ==
  /\ facts \in [Cases -> Facts]
  /\ facts_confirmed \in [Cases -> BOOLEAN]
  /\ accepted \in [Cases -> Seq(Files)]
  /\ refused \in [Cases -> SUBSET Files]
  /\ notice \in [Cases -> Notices \cup {None}]
  /\ answered \in [Cases -> SUBSET Keys]
  /\ indexed_document_ids \in [Cases -> SUBSET Nat]

RequestOK ==
  /\ request \in [Requests -> Request]
  /\ \A r \in Requests :
       /\ request[r].pc # "idle" => request[r].case \in created
       /\ request[r].pc \in {"receiving", "ingesting"} => request[r].file \in Files

\* Every variable stays in its domain.
TypeOK ==
  /\ created \subseteq Cases
  /\ live \subseteq created
  /\ RecordOK
  /\ index \subseteq created \X Nat
  /\ legal_indexed \in BOOLEAN
  /\ legal_index_lock \in Seq(Requests)
  /\ RequestOK
  /\ acknowledged \subseteq created
  /\ restarts \in 0..MaxRestarts

\* A stored notice states the facts the case holds now, within the scope of
\* consumer law, and cites a document that a deletion will find: whatever
\* changed while the notice was being generated, every handler that edits the
\* facts drops the notice, and composing reads the facts afresh.
NoticeMatchesRecord ==
  \A c \in Cases : notice[c] # None =>
    /\ notice[c].facts = facts[c]
    /\ facts[c].text \in ScopedTexts
    /\ notice[c].doc \in indexed_document_ids[c]

\* An evidence reference among the facts always names an amount that some
\* accepted document really shows, whatever is patched, uploaded or dropped
\* later, so _direct_loss_sources never misses its source.
ReferenceBacked ==
  \A c \in Cases : facts[c].ref # None =>
    /\ facts[c].loss = ReferenceAmount[facts[c].ref]
    /\ \E f \in SeqElements(accepted[c]) : facts[c].ref \in FileReferences[f]

\* Double-checked locking works: one request at a time indexes the legal
\* corpus, never again after a success, and no request goes on to the
\* evidence before the corpus is there.
LegalCorpusIndexedOnce ==
  \A r \in Requests :
    /\ request[r].pc = "legal" => /\ ~legal_indexed
                                  /\ legal_index_lock # <<>>
                                  /\ Head(legal_index_lock) = r
    /\ request[r].pc \in Generating \ {"waiting", "legal"} => legal_indexed

\* Whatever text of a live case is searchable is known to its record, or will
\* be when the handler that stored it resumes: a deletion can find it.
LiveDocumentsTracked ==
  \A d \in index : d[1] \in live =>
    \/ d[2] \in indexed_document_ids[d[1]]
    \/ \E r \in Requests : /\ request[r].pc = "stored"
                           /\ request[r].case = d[1]
                           /\ request[r].doc = d[2]

\* "Isso remove o atendimento e os documentos indexados pela API": after the
\* deletion of a case was answered with success, none of its text is left in
\* the index.
ErasedMeansErased ==
  \A d \in index : d[1] \notin acknowledged

\* What the person sees of a case, in the terms of NoticeContract.
Stage ==
  [c \in Cases |-> CASE c \notin created -> "absent"
                     [] c \in acknowledged -> "erased"
                     [] c \in created \ (live \cup acknowledged) -> "withdrawn"
                     [] c \in live /\ notice[c] # None -> "drafted"
                     [] c \in live /\ notice[c] = None -> IF facts_confirmed[c]
                                                         THEN "reviewed"
                                                         ELSE "open"]

Typed == [c \in Cases |-> IF c \in live THEN facts[c] ELSE NoFacts]

HandedIn == [c \in Cases |-> IF c \in live
                            THEN <<accepted[c], refused[c], answered[c]>>
                            ELSE <<>>]

Held == [c \in Cases |-> \E d \in index : d[1] = c]

\* The person's contract, implemented as long as every client waits for its
\* answers: drafts only from reviewed material, erasure that erases.
Contract == INSTANCE NoticeContract
              WITH stage <- Stage, typed <- Typed, given <- HandedIn, held <- Held

ImplementsContract == Contract!Spec

\* "Assemble the final notice deterministically from confirmed facts": a notice
\* is stored only while the facts are confirmed.
DraftedFromConfirmedFacts ==
  [][\A c \in Cases :
       (notice'[c] # notice[c] /\ notice'[c] # None) => facts_confirmed[c]]_vars

\* Facts and evidence suffice for a draft, says the assistant, confirm and then
\* generate the notice: a case that reports itself ready has amounts that the
\* settlement calculator takes, so that generating cannot fail on them.
ReadyCaseCanBePriced ==
  \A c \in live : Ready(c) => SettlementAccepts(facts[c])

\* Every request is answered in the end: the queue at the legal lock moves on
\* when its holder fails as well as when it succeeds.
EveryRequestEnds ==
  \A r \in Requests : request[r].pc # "idle" ~> request[r].pc = "idle"
=============================================================================
