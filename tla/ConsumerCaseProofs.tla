------------------------- MODULE ConsumerCaseProofs -------------------------
(***************************************************************************)
(* Proofs about ConsumerCase, for any number of cases, requests, files,    *)
(* facts and amounts: its types, the lock of the legal corpus, the record  *)
(* of a case and the notice it stores.  Where every client waits for an    *)
(* answer, a document stays tracked until it is erased, and the service    *)
(* implements NoticeContract.                                              *)
(***************************************************************************)
EXTENDS ConsumerCase, SequenceTheorems, TLAPS

-----------------------------------------------------------------------------
(* What the helpers do to the requests. *)

\* A request in flight may move to any other state of its handler.
LEMMA GotoOK ==
  ASSUME RequestOK, UNCHANGED created, NEW r \in Requests, NEW pc \in States,
         request[r].pc # "idle", Goto(r, pc),
         pc \in {"receiving", "ingesting"} => request[r].pc = "receiving"
  PROVE  RequestOK'
BY DEF RequestOK, Goto, Request, States

\* The idle request is well formed.
LEMMA IdleOK == Idle \in Request
BY DEF Idle, Request, States

\* A handler may end at any point.
LEMMA FinishOK ==
  ASSUME RequestOK, UNCHANGED created, NEW r \in Requests, Finish(r)
  PROVE  RequestOK'
BY IdleOK DEF RequestOK, Finish, Idle

\* Evidence is handed to the indexer under a number.
LEMMA CombineOK ==
  ASSUME TypeOK, UNCHANGED created, NEW r \in Requests, NEW c \in Cases, c \in created,
         Combine(r, c)
  PROVE  RequestOK'
<1>1. CombinedEvidence(c) \in Nat
  BY LenProperties DEF TypeOK, RecordOK, CombinedEvidence
<1>. DEFINE q == [Idle EXCEPT !.pc = IF HasChunks(c) THEN "indexing" ELSE "clearing",
                              !.case = c, !.doc = CombinedEvidence(c)]
<1>2. q \in Request /\ q.case = c /\ q.pc \notin {"receiving", "ingesting"}
  BY <1>1 DEF Idle, Request, States
<1>3. request' = [request EXCEPT ![r] = q]
  BY DEF Combine
<1>. HIDE DEF q
<1>. QED  BY <1>2, <1>3 DEF TypeOK, RequestOK

\* A deletion goes to the next document, or ends and is acknowledged.
LEMMA PurgeStepOK ==
  ASSUME RequestOK, UNCHANGED created, NEW r \in Requests, NEW c \in Cases, c \in created,
         NEW all \in SUBSET Nat, NEW rest \in SUBSET Nat, PurgeStep(r, c, all, rest)
  PROVE  /\ RequestOK'
         /\ acknowledged' \in {acknowledged, acknowledged \cup {c}}
<1>1. CASE rest = {}
  BY <1>1, FinishOK DEF PurgeStep
<1>2. CASE rest # {}
  <2>1. PICK d \in rest :
            request' = [request EXCEPT ![r] =
                          [Idle EXCEPT !.pc = "purging", !.case = c, !.doc = d,
                                       !.all = all, !.rest = rest \ {d}]]
    BY <1>2 DEF PurgeStep
  <2>. DEFINE q == [Idle EXCEPT !.pc = "purging", !.case = c, !.doc = d,
                                !.all = all, !.rest = rest \ {d}]
  <2>2. q \in Request /\ q.case = c /\ q.pc \notin {"receiving", "ingesting"}
    BY DEF Idle, Request, States
  <2>3. request' = [request EXCEPT ![r] = q]
    BY <2>1
  <2>. HIDE DEF q
  <2>. QED  BY <1>2, <2>2, <2>3 DEF RequestOK, PurgeStep
<1>. QED  BY <1>1, <1>2

\* Every handler works on its own request only.
OthersUntouched(r) == \A q \in Requests \ {r} : request'[q] = request[q]

\* What each helper leaves behind, field by field.
LEMMA GotoEffect ==
  ASSUME RequestOK, NEW r \in Requests, NEW pc, Goto(r, pc)
  PROVE  /\ OthersUntouched(r)
         /\ request'[r].pc = pc
         /\ request'[r].case = request[r].case
         /\ request'[r].file = request[r].file
         /\ request'[r].doc = request[r].doc
         /\ request'[r].all = request[r].all
         /\ request'[r].rest = request[r].rest
BY DEF RequestOK, Request, Goto, OthersUntouched

\* A request that ends is idle and belongs to no case.
LEMMA FinishEffect ==
  ASSUME RequestOK, NEW r \in Requests, Finish(r)
  PROVE  /\ OthersUntouched(r)
         /\ request'[r] = Idle
         /\ request'[r].pc = "idle"
         /\ request'[r].case = None
BY DEF RequestOK, Finish, Idle, OthersUntouched

\* A request past the legal lock is at the evidence of its case.
LEMMA CombineEffect ==
  ASSUME RequestOK, NEW r \in Requests, NEW c, Combine(r, c)
  PROVE  /\ OthersUntouched(r)
         /\ request'[r].pc \in {"indexing", "clearing"}
         /\ request'[r].case = c
BY DEF RequestOK, Combine, Idle, OthersUntouched

\* A deletion at its next document still belongs to its case, or is over.
LEMMA PurgeStepEffect ==
  ASSUME RequestOK, NEW r \in Requests, NEW c, NEW all, NEW rest,
         PurgeStep(r, c, all, rest)
  PROVE  /\ OthersUntouched(r)
         /\ \/ /\ rest = {}
               /\ request'[r].pc = "idle"
               /\ request'[r].case = None
               /\ acknowledged' = acknowledged \cup {c}
            \/ /\ request'[r].pc = "purging"
               /\ request'[r].case = c
               /\ request'[r].all = all
               /\ request'[r].doc \in rest
               /\ request'[r].rest = rest \ {request'[r].doc}
               /\ UNCHANGED acknowledged
<1>1. CASE rest = {}
  BY <1>1, FinishEffect DEF PurgeStep
<1>2. CASE rest # {}
  BY <1>2 DEF RequestOK, PurgeStep, Idle, OthersUntouched
<1>. QED  BY <1>1, <1>2

-----------------------------------------------------------------------------
(* What the helpers do to the facts. *)

\* A message fills gaps and leaves the facts well formed.
LEMMA MergedOK ==
  ASSUME NEW text \in Texts, NEW m \in Messages
  PROVE  Merged(text, m) \in Texts
BY DataAssumption DEF Merged, Texts

\* So does a PATCH body, absent keys included.
LEMMA PatchedOK ==
  ASSUME NEW f \in Facts, NEW p \in Patches
  PROVE  Patched(f, p) \in Facts
<1>1. /\ p.text \in [Fields -> Values \cup {None, Keep}]
      /\ p.loss \in Amounts \cup {None, Keep}
      /\ p.ref \in References \cup {None, Keep}
      /\ p.improper \in Amounts \cup {None, Keep}
  BY DataAssumption
<1>2. [n \in Fields |-> Given(p.text[n], f.text[n])] \in Texts
  BY <1>1 DEF Facts, Texts, Given
<1>. QED  BY <1>1, <1>2 DEF Patched, Facts, Given

-----------------------------------------------------------------------------
(* Type correctness.  Taking the head off the queue at the legal lock keeps *)
(* it a queue only because the lock is not empty when its holder leaves,    *)
(* which LegalCorpusIndexedOnce says; the two are inductive together.       *)

\* An empty service is well typed and its legal lock free.
LEMMA InitOK == Init => TypeOK /\ LegalCorpusIndexedOnce
<1>. SUFFICES ASSUME Init  PROVE TypeOK /\ LegalCorpusIndexedOnce
  OBVIOUS
<1>1. NoFacts \in Facts
  BY DEF NoFacts, Facts, Texts
<1>2. RecordOK
  BY <1>1 DEF Init, InitialRecord, RecordOK
<1>3. RequestOK
  BY IdleOK DEF Init, RequestOK, Idle
<1>4. <<>> \in Seq(Requests) /\ 0 \in 0..MaxRestarts
  BY ConfigAssumption
<1>5. TypeOK
  BY <1>4, <1>2, <1>3, ConfigAssumption DEF Init, TypeOK
<1>6. LegalCorpusIndexedOnce
  BY DEF Init, LegalCorpusIndexedOnce, Idle, Generating
<1>. QED  BY <1>5, <1>6

\* Handlers that never await.
LEMMA EditTypeOK ==
  ASSUME TypeOK, NEW c \in Cases, Edit(c)
  PROVE  TypeOK'
<1>1. CASE CreateCase(c)
  BY <1>1 DEF TypeOK, RecordOK, RequestOK, CreateCase, record, legal
<1>2. ASSUME NEW key \in Keys \cup {None}, NEW m \in Messages, AddMessage(c, key, m)
      PROVE  TypeOK'
  <2>1. facts' \in [Cases -> Facts]
    BY <1>2, MergedOK DEF TypeOK, RecordOK, AddMessage, Facts
  <2>2. RecordOK'
    BY <1>2, <2>1 DEF TypeOK, RecordOK, AddMessage, Reopen
  <2>. QED  BY <1>2, <2>2 DEF TypeOK, RequestOK, AddMessage, legal
<1>3. ASSUME NEW p \in Patches, NEW ask \in {"absent", "true", "false"},
             UpdateFacts(c, p, ask)
      PROVE  TypeOK'
  <2>1. Patched(facts[c], p) \in Facts
    BY PatchedOK DEF TypeOK, RecordOK
  <2>2. RecordOK'
    BY <1>3, <2>1 DEF TypeOK, RecordOK, UpdateFacts, NoticeAfter
  <2>. QED  BY <1>3, <2>2 DEF TypeOK, RequestOK, UpdateFacts, legal
<1>. QED  BY <1>1, <1>2, <1>3 DEF Edit

\* The first part of a handler that awaits.
LEMMA StartTypeOK ==
  ASSUME TypeOK, NEW r \in Requests, NEW c \in Cases, Start(r, c)
  PROVE  TypeOK'
<1>1. ASSUME NEW f \in Files, StartUpload(r, c, f)
      PROVE  TypeOK'
  <2>. DEFINE q == [Idle EXCEPT !.pc = "receiving", !.case = c, !.file = f]
  <2>1. q \in Request /\ q.case = c /\ q.file \in Files
    BY DEF Idle, Request, States
  <2>2. request' = [request EXCEPT ![r] = q]
    BY <1>1 DEF StartUpload
  <2>. HIDE DEF q
  <2>3. RequestOK'
    BY <1>1, <2>1, <2>2 DEF StartUpload, TypeOK, RequestOK
  <2>. QED  BY <1>1, <2>3 DEF TypeOK, RecordOK, StartUpload, record, legal
<1>2. CASE StartNotice(r, c)
  <2>1. CASE legal_indexed
    <3>1. RequestOK'
      BY <1>2, <2>1, CombineOK DEF StartNotice, TypeOK
    <3>. QED  BY <1>2, <2>1, <3>1 DEF TypeOK, RecordOK, StartNotice, record
  <2>2. CASE ~legal_indexed
    <3>. DEFINE q == [Idle EXCEPT !.case = c,
                        !.pc = IF legal_index_lock = <<>> THEN "legal" ELSE "waiting"]
    <3>1. q \in Request /\ q.case = c /\ q.pc \notin {"receiving", "ingesting"}
      BY DEF Idle, Request, States
    <3>2. request' = [request EXCEPT ![r] = q]
      BY <1>2, <2>2 DEF StartNotice
    <3>. HIDE DEF q
    <3>3. RequestOK'
      BY <1>2, <3>1, <3>2 DEF StartNotice, TypeOK, RequestOK
    <3>4. legal_index_lock' \in Seq(Requests)
      BY <1>2, <2>2, AppendProperties DEF StartNotice, TypeOK
    <3>. QED  BY <1>2, <3>3, <3>4 DEF TypeOK, RecordOK, StartNotice, record
  <2>. QED  BY <2>1, <2>2
<1>3. CASE StartDelete(r, c)
  <2>1. /\ RequestOK'
        /\ acknowledged' \in {acknowledged, acknowledged \cup {c}}
    BY <1>3, PurgeStepOK DEF TypeOK, RecordOK, StartDelete
  <2>. QED  BY <1>3, <2>1 DEF TypeOK, RecordOK, StartDelete, record, legal
<1>. QED  BY <1>1, <1>2, <1>3 DEF Start

\* Its holder leaves the legal lock.
LEMMA ReleaseOK ==
  ASSUME TypeOK, legal_index_lock # <<>>, legal_index_lock' = Tail(legal_index_lock)
  PROVE  legal_index_lock' \in Seq(Requests)
BY HeadTailProperties DEF TypeOK

\* The later parts of the handlers that await.
LEMMA AdvanceTypeOK ==
  ASSUME TypeOK, LegalCorpusIndexedOnce, NEW r \in Requests, Advance(r)
  PROVE  TypeOK'
<1>1. CASE BeginIngest(r)
  <2>1. RequestOK'
    BY <1>1, GotoOK DEF BeginIngest, TypeOK, States
  <2>. QED  BY <1>1, <2>1 DEF TypeOK, RecordOK, BeginIngest, record, legal
<1>2. CASE UploadEnds(r)
  BY <1>2, FinishOK DEF TypeOK, RecordOK, UploadEnds, record, legal
<1>3. ASSUME NEW safe \in BOOLEAN, CommitEvidence(r, safe)
      PROVE  TypeOK'
  <2>. DEFINE c == request[r].case
              f == request[r].file
  <2>1. c \in Cases /\ f \in Files
    BY <1>3 DEF CommitEvidence, TypeOK, RequestOK
  <2>2. Append(accepted[c], f) \in Seq(Files)
    BY <2>1, AppendProperties DEF TypeOK, RecordOK
  <2>3. accepted' \in [Cases -> Seq(Files)] /\ refused' \in [Cases -> SUBSET Files]
    BY <1>3, <2>1, <2>2 DEF CommitEvidence, TypeOK, RecordOK
  <2>4. RecordOK'
    BY <1>3, <2>3 DEF CommitEvidence, Reopen, TypeOK, RecordOK
  <2>5. RequestOK'
    BY <1>3, FinishOK DEF CommitEvidence, TypeOK
  <2>. QED  BY <1>3, <2>4, <2>5 DEF CommitEvidence, TypeOK, legal
<1>4. CASE AcquireLegalLock(r)
  <2>1. CASE legal_indexed
    <3>1. RequestOK'
      BY <1>4, <2>1, CombineOK DEF AcquireLegalLock, TypeOK, RequestOK
    <3>. QED  BY <1>4, <2>1, <3>1, ReleaseOK DEF AcquireLegalLock, TypeOK, RecordOK, record
  <2>2. CASE ~legal_indexed
    <3>1. RequestOK'
      BY <1>4, <2>2, GotoOK DEF AcquireLegalLock, TypeOK, States
    <3>. QED  BY <1>4, <2>2, <3>1 DEF AcquireLegalLock, TypeOK, RecordOK, record
  <2>. QED  BY <2>1, <2>2
<1>5. CASE LegalCorpusIndexed(r)
  <2>1. RequestOK'
    BY <1>5, CombineOK DEF LegalCorpusIndexed, TypeOK, RequestOK
  <2>2. legal_index_lock' \in Seq(Requests)
    BY <1>5, ReleaseOK DEF LegalCorpusIndexed, LegalCorpusIndexedOnce
  <2>. QED  BY <1>5, <2>1, <2>2 DEF LegalCorpusIndexed, TypeOK, RecordOK, record
<1>6. CASE LegalCorpusFails(r)
  <2>1. RequestOK'
    BY <1>6, FinishOK DEF LegalCorpusFails, TypeOK
  <2>2. legal_index_lock' \in Seq(Requests)
    BY <1>6, ReleaseOK DEF LegalCorpusFails, LegalCorpusIndexedOnce
  <2>. QED  BY <1>6, <2>1, <2>2 DEF LegalCorpusFails, TypeOK, RecordOK, record
<1>7. CASE ClearEmptyDocument(r)
  BY <1>7, FinishOK DEF TypeOK, RecordOK, ClearEmptyDocument, record, legal
<1>8. CASE StoreEvidence(r)
  <2>1. RequestOK'
    BY <1>8, GotoOK DEF StoreEvidence, TypeOK, States
  <2>2. index' \subseteq created \X Nat
    BY <1>8 DEF StoreEvidence, TypeOK, RequestOK, Request
  <2>. QED  BY <1>8, <2>1, <2>2 DEF StoreEvidence, TypeOK, RecordOK, record, legal
<1>9. CASE RecordIndexed(r)
  <2>1. RequestOK'
    BY <1>9, GotoOK DEF RecordIndexed, TypeOK, States
  <2>2. indexed_document_ids' \in [Cases -> SUBSET Nat]
    BY <1>9 DEF RecordIndexed, TypeOK, RecordOK, RequestOK, Request
  <2>. QED  BY <1>9, <2>1, <2>2 DEF RecordIndexed, TypeOK, RecordOK, legal
<1>10. CASE RetrieveEvidence(r)
  <2>1. RequestOK'
    BY <1>10, GotoOK DEF RetrieveEvidence, TypeOK, States
  <2>. QED  BY <1>10, <2>1 DEF RetrieveEvidence, TypeOK, RecordOK, record, legal
<1>11. CASE ComposeNotice(r)
  <2>. DEFINE c == request[r].case
  <2>1. RequestOK'
    BY <1>11, FinishOK DEF ComposeNotice, TypeOK
  <2>2. c \in Cases /\ request[r].doc \in Nat
    BY <1>11 DEF ComposeNotice, TypeOK, RequestOK, Request
  <2>3. [facts |-> facts[c], doc |-> request[r].doc] \in Notices
    BY <2>2 DEF Notices, TypeOK, RecordOK
  <2>4. notice' \in [Cases -> Notices \cup {None}]
    BY <1>11, <2>2, <2>3 DEF ComposeNotice, TypeOK, RecordOK
  <2>. QED  BY <1>11, <2>1, <2>4 DEF ComposeNotice, TypeOK, RecordOK, legal
<1>12. CASE NoticeFails(r)
  BY <1>12, FinishOK DEF TypeOK, RecordOK, NoticeFails, record, legal
<1>13. CASE PurgeDocument(r)
  <2>1. RequestOK'
    BY <1>13, GotoOK DEF PurgeDocument, TypeOK, States
  <2>. QED  BY <1>13, <2>1 DEF PurgeDocument, TypeOK, RecordOK, record, legal
<1>14. CASE PurgeNext(r)
  <2>. DEFINE c == request[r].case
  <2>1. c \in Cases /\ c \in created /\ request[r].all \in SUBSET Nat /\ request[r].rest \in SUBSET Nat
    BY <1>14 DEF PurgeNext, TypeOK, RequestOK, Request
  <2>2. RequestOK' /\ acknowledged' \in {acknowledged, acknowledged \cup {c}}
    BY <1>14, <2>1, PurgeStepOK DEF PurgeNext, TypeOK
  <2>3. acknowledged' \subseteq created
    BY <2>1, <2>2 DEF TypeOK
  <2>. QED  BY <1>14, <2>2, <2>3 DEF PurgeNext, TypeOK, RecordOK, record, legal
<1>15. CASE PurgeFails(r)
  BY <1>15, FinishOK DEF TypeOK, RecordOK, PurgeFails, record, legal
<1>. QED  BY <1>1, <1>2, <1>3, <1>4, <1>5, <1>6, <1>7, <1>8, <1>9, <1>10,
             <1>11, <1>12, <1>13, <1>14, <1>15 DEF Advance

\* A restart leaves an empty service.
LEMMA RestartTypeOK == TypeOK /\ Restart => TypeOK'
<1>. SUFFICES ASSUME TypeOK, Restart  PROVE TypeOK'
  OBVIOUS
<1>1. NoFacts \in Facts
  BY DEF NoFacts, Facts, Texts
<1>2. RecordOK'
  BY <1>1 DEF Restart, RecordOK
<1>3. RequestOK'
  BY IdleOK DEF Restart, RequestOK, Idle
<1>4. <<>> \in Seq(Requests) /\ restarts' \in 0..MaxRestarts
  BY ConfigAssumption DEF Restart, TypeOK
<1>. QED  BY <1>2, <1>3, <1>4 DEF Restart, TypeOK

-----------------------------------------------------------------------------
(* Double-checked locking. *)

\* A step that neither touches the legal corpus nor brings a request to it or
\* past it keeps LegalCorpusIndexedOnce.
LEMMA LegalUntouched ==
  ASSUME RequestOK, LegalCorpusIndexedOnce, UNCHANGED legal, NEW r \in Requests,
         OthersUntouched(r),
         request'[r].pc \in Generating => request[r].pc \in Generating \ {"waiting", "legal"},
         request'[r].pc \notin {"waiting", "legal"}
  PROVE  LegalCorpusIndexedOnce'
BY DEF LegalCorpusIndexedOnce, legal, OthersUntouched

\* The lock is taken when it is free and waited for when it is not.
LEMMA StartLegalOK ==
  ASSUME TypeOK, LegalCorpusIndexedOnce, NEW r \in Requests, NEW c \in Cases,
         Start(r, c)
  PROVE  LegalCorpusIndexedOnce'
<1>1. ASSUME NEW f \in Files, StartUpload(r, c, f)
      PROVE  LegalCorpusIndexedOnce'
  <2>1. OthersUntouched(r) /\ request'[r].pc = "receiving"
    BY <1>1 DEF StartUpload, TypeOK, RequestOK, Idle, OthersUntouched
  <2>. QED  BY <1>1, <2>1, LegalUntouched DEF StartUpload, TypeOK, Generating
<1>2. CASE StartNotice(r, c)
  <2>1. CASE legal_indexed
    <3>1. OthersUntouched(r) /\ request'[r].pc \in {"indexing", "clearing"}
      BY <1>2, <2>1, CombineEffect DEF StartNotice, TypeOK
    <3>. QED  BY <1>2, <2>1, <3>1
              DEF StartNotice, LegalCorpusIndexedOnce, OthersUntouched, Generating
  <2>2. CASE ~legal_indexed
    <3>1. /\ OthersUntouched(r)
          /\ request'[r].pc = IF legal_index_lock = <<>> THEN "legal" ELSE "waiting"
      BY <1>2, <2>2 DEF StartNotice, TypeOK, RequestOK, Idle, OthersUntouched
    <3>2. /\ legal_index_lock' # <<>>
          /\ Head(legal_index_lock') = IF legal_index_lock = <<>> THEN r
                                       ELSE Head(legal_index_lock)
      BY <1>2, <2>2, AppendProperties DEF StartNotice, TypeOK
    <3>. QED  BY <1>2, <2>2, <3>1, <3>2
              DEF StartNotice, LegalCorpusIndexedOnce, OthersUntouched, Generating
  <2>. QED  BY <2>1, <2>2
<1>3. CASE StartDelete(r, c)
  <2>1. OthersUntouched(r) /\ request'[r].pc \in {"idle", "purging"}
    BY <1>3, PurgeStepEffect DEF StartDelete, TypeOK
  <2>. QED  BY <1>3, <2>1, LegalUntouched DEF StartDelete, TypeOK, Generating
<1>. QED  BY <1>1, <1>2, <1>3 DEF Start

\* The lock is tested again once it is held, and passed on by success and by
\* failure; only the request at its head can be indexing the corpus.
LEMMA AdvanceLegalOK ==
  ASSUME TypeOK, LegalCorpusIndexedOnce, NEW r \in Requests, Advance(r)
  PROVE  LegalCorpusIndexedOnce'
<1>. RequestOK
  BY DEF TypeOK
<1>1. CASE AcquireLegalLock(r)
  <2>1. CASE legal_indexed
    <3>1. OthersUntouched(r) /\ request'[r].pc \in {"indexing", "clearing"}
      BY <1>1, <2>1, CombineEffect DEF AcquireLegalLock
    <3>. QED  BY <1>1, <2>1, <3>1
              DEF AcquireLegalLock, LegalCorpusIndexedOnce, OthersUntouched, Generating
  <2>2. CASE ~legal_indexed
    <3>1. OthersUntouched(r) /\ request'[r].pc = "legal"
      BY <1>1, <2>2, GotoEffect DEF AcquireLegalLock
    <3>. QED  BY <1>1, <2>2, <3>1
              DEF AcquireLegalLock, LegalCorpusIndexedOnce, OthersUntouched, Generating
  <2>. QED  BY <2>1, <2>2
<1>2. CASE LegalCorpusIndexed(r)
  <2>1. OthersUntouched(r) /\ request'[r].pc \in {"indexing", "clearing"}
    BY <1>2, CombineEffect DEF LegalCorpusIndexed
  <2>. QED  BY <1>2, <2>1
            DEF LegalCorpusIndexed, LegalCorpusIndexedOnce, OthersUntouched, Generating
<1>3. CASE LegalCorpusFails(r)
  <2>1. OthersUntouched(r) /\ request'[r].pc = "idle"
    BY <1>3, FinishEffect DEF LegalCorpusFails
  <2>. QED  BY <1>3, <2>1
            DEF LegalCorpusFails, LegalCorpusIndexedOnce, OthersUntouched, Generating
<1>4. CASE \/ UploadEnds(r) \/ \E safe \in BOOLEAN : CommitEvidence(r, safe)
           \/ ClearEmptyDocument(r) \/ ComposeNotice(r) \/ NoticeFails(r)
           \/ PurgeFails(r)
  <2>1. UNCHANGED legal /\ OthersUntouched(r) /\ request'[r].pc = "idle"
    BY <1>4, FinishEffect
    DEF UploadEnds, CommitEvidence, ClearEmptyDocument, ComposeNotice, NoticeFails, PurgeFails
  <2>. QED  BY <2>1, LegalUntouched DEF Generating
<1>5. CASE BeginIngest(r) \/ PurgeDocument(r)
  <2>1. UNCHANGED legal /\ OthersUntouched(r) /\ request'[r].pc \in {"ingesting", "purged"}
    BY <1>5, GotoEffect DEF BeginIngest, PurgeDocument
  <2>. QED  BY <2>1, LegalUntouched DEF Generating
<1>6. CASE StoreEvidence(r) \/ RecordIndexed(r) \/ RetrieveEvidence(r)
  <2>1. /\ UNCHANGED legal
        /\ OthersUntouched(r)
        /\ request[r].pc \in {"indexing", "stored", "retrieving"}
        /\ request'[r].pc \in {"stored", "retrieving", "composing"}
    BY <1>6, GotoEffect DEF StoreEvidence, RecordIndexed, RetrieveEvidence
  <2>. QED  BY <2>1, LegalUntouched DEF Generating
<1>7. CASE PurgeNext(r)
  <2>1. UNCHANGED legal /\ OthersUntouched(r) /\ request'[r].pc \in {"idle", "purging"}
    BY <1>7, PurgeStepEffect DEF PurgeNext
  <2>. QED  BY <2>1, LegalUntouched DEF Generating
<1>. QED  BY <1>1, <1>2, <1>3, <1>4, <1>5, <1>6, <1>7 DEF Advance

\* Every step of the service keeps the types and the legal lock in order.
LEMMA NextTypeOK ==
  TypeOK /\ LegalCorpusIndexedOnce /\ [Next]_vars => TypeOK' /\ LegalCorpusIndexedOnce'
<1>. SUFFICES ASSUME TypeOK, LegalCorpusIndexedOnce, [Next]_vars
              PROVE  TypeOK' /\ LegalCorpusIndexedOnce'
  OBVIOUS
<1>1. ASSUME NEW c \in Cases, Edit(c)
      PROVE  TypeOK' /\ LegalCorpusIndexedOnce'
  <2>1. UNCHANGED <<request, legal>>
    BY <1>1 DEF Edit, CreateCase, AddMessage, UpdateFacts
  <2>. QED  BY <1>1, <2>1, EditTypeOK DEF LegalCorpusIndexedOnce, legal
<1>2. ASSUME NEW r \in Requests, NEW c \in Cases, Start(r, c)
      PROVE  TypeOK' /\ LegalCorpusIndexedOnce'
  BY <1>2, StartTypeOK, StartLegalOK
<1>3. ASSUME NEW r \in Requests, Advance(r)
      PROVE  TypeOK' /\ LegalCorpusIndexedOnce'
  BY <1>3, AdvanceTypeOK, AdvanceLegalOK
<1>4. CASE Restart
  BY <1>4, RestartTypeOK DEF Restart, LegalCorpusIndexedOnce, Idle, Generating
<1>5. CASE UNCHANGED vars
  BY <1>5 DEF vars, record, legal, TypeOK, RecordOK, RequestOK, LegalCorpusIndexedOnce
<1>. QED  BY <1>1, <1>2, <1>3, <1>4, <1>5 DEF Next

\* Every variable of the service keeps its type, however many requests overlap.
THEOREM TypeCorrect == Spec => []TypeOK
<1>. QED  BY InitOK, NextTypeOK, PTL DEF Spec

\* However many requests reach for the legal corpus, one at a time indexes it,
\* never again after a success, and none goes on to the evidence before.
THEOREM LegalCorpusCorrect == Spec => []LegalCorpusIndexedOnce
<1>. QED  BY InitOK, NextTypeOK, PTL DEF Spec
-----------------------------------------------------------------------------
(* The facts and the evidence behind them. *)

\* Only the handlers that never await change the facts.
LEMMA StartRecord ==
  ASSUME NEW r \in Requests, NEW c \in Cases, Start(r, c)
  PROVE  UNCHANGED record
BY DEF Start, StartUpload, StartNotice, StartDelete

\* The handlers that await never change the facts of a case.
LEMMA AdvanceFacts ==
  ASSUME NEW r \in Requests, Advance(r)
  PROVE  UNCHANGED facts
BY DEF Advance, BeginIngest, UploadEnds, CommitEvidence, AcquireLegalLock,
       LegalCorpusIndexed, LegalCorpusFails, ClearEmptyDocument, StoreEvidence,
       RecordIndexed, RetrieveEvidence, ComposeNotice, NoticeFails, PurgeDocument,
       PurgeNext, PurgeFails, record

\* Evidence that was accepted stays: an upload only adds to it.
LEMMA AdvanceEvidence ==
  ASSUME TypeOK, NEW r \in Requests, Advance(r), NEW c \in Cases
  PROVE  SeqElements(accepted[c]) \subseteq SeqElements(accepted'[c])
<1>1. ASSUME NEW safe \in BOOLEAN, CommitEvidence(r, safe)
      PROVE  SeqElements(accepted[c]) \subseteq SeqElements(accepted'[c])
  <2>1. CASE safe /\ c = request[r].case
    <3>1. accepted'[c] = Append(accepted[c], request[r].file)
      BY <1>1, <2>1 DEF CommitEvidence, TypeOK, RecordOK
    <3>2. request[r].file \in Files
      BY <1>1 DEF CommitEvidence, TypeOK, RequestOK
    <3>3. \A i \in 1..Len(accepted[c]) :
             i \in 1..Len(accepted'[c]) /\ accepted'[c][i] = accepted[c][i]
      BY <3>1, <3>2, AppendProperties, LenProperties DEF TypeOK, RecordOK
    <3>4. /\ DOMAIN accepted[c] = 1..Len(accepted[c])
          /\ DOMAIN accepted'[c] = 1..Len(accepted'[c])
      BY <3>1, <3>2, AppendProperties, LenProperties DEF TypeOK, RecordOK
    <3>. QED  BY <3>3, <3>4 DEF SeqElements
  <2>2. CASE ~(safe /\ c = request[r].case)
    BY <1>1, <2>2 DEF CommitEvidence, TypeOK, RecordOK
  <2>. QED  BY <2>1, <2>2
<1>2. CASE UNCHANGED accepted
  BY <1>2
<1>. QED
  BY <1>1, <1>2
  DEF Advance, BeginIngest, UploadEnds, AcquireLegalLock, LegalCorpusIndexed,
      LegalCorpusFails, ClearEmptyDocument, StoreEvidence, RecordIndexed,
      RetrieveEvidence, ComposeNotice, NoticeFails, PurgeDocument, PurgeNext,
      PurgeFails, record

\* ReferenceBacked is inductive under the types.
LEMMA NextReferenceBacked ==
  TypeOK /\ ReferenceBacked /\ [Next]_vars => ReferenceBacked'
<1>. SUFFICES ASSUME TypeOK, ReferenceBacked, [Next]_vars
              PROVE  ReferenceBacked'
  OBVIOUS
<1>1. ASSUME NEW c \in Cases, Edit(c)
      PROVE  ReferenceBacked'
  <2>1. CASE CreateCase(c)
    BY <2>1 DEF CreateCase, record, ReferenceBacked
  <2>2. ASSUME NEW key \in Keys \cup {None}, NEW m \in Messages, AddMessage(c, key, m)
        PROVE  ReferenceBacked'
    <3>1. \A x \in Cases : facts'[x].ref = facts[x].ref /\ facts'[x].loss = facts[x].loss
      BY <2>2 DEF AddMessage, TypeOK, RecordOK, Facts
    <3>. QED  BY <2>2, <3>1 DEF AddMessage, ReferenceBacked
  <2>3. ASSUME NEW p \in Patches, NEW ask \in {"absent", "true", "false"},
               UpdateFacts(c, p, ask)
        PROVE  ReferenceBacked'
    <3>. DEFINE new == Patched(facts[c], p)
    <3>1. new.ref # None => Backed(c, new.ref, new.loss)
      BY <2>3 DEF UpdateFacts
    <3>2. facts' = [facts EXCEPT ![c] = new] /\ UNCHANGED accepted
      BY <2>3 DEF UpdateFacts
    <3>. HIDE DEF new
    <3>. QED  BY <3>1, <3>2 DEF ReferenceBacked, Backed, TypeOK, RecordOK
  <2>. QED  BY <1>1, <2>1, <2>2, <2>3 DEF Edit
<1>2. ASSUME NEW r \in Requests, NEW c \in Cases, Start(r, c)
      PROVE  ReferenceBacked'
  BY <1>2, StartRecord DEF record, ReferenceBacked
<1>3. ASSUME NEW r \in Requests, Advance(r)
      PROVE  ReferenceBacked'
  <2>1. \A c \in Cases : SeqElements(accepted[c]) \subseteq SeqElements(accepted'[c])
    BY <1>3, AdvanceEvidence
  <2>. QED  BY <1>3, <2>1, AdvanceFacts DEF ReferenceBacked
<1>4. CASE Restart
  BY <1>4 DEF Restart, ReferenceBacked, NoFacts
<1>5. CASE UNCHANGED vars
  BY <1>5 DEF vars, record, ReferenceBacked
<1>. QED  BY <1>1, <1>2, <1>3, <1>4, <1>5 DEF Next

\* An evidence reference among the facts always names an amount that accepted
\* evidence shows, whatever is patched, uploaded or dropped in whatever order.
THEOREM ReferenceCorrect == Spec => []ReferenceBacked
<1>1. Init => ReferenceBacked
  BY DEF Init, InitialRecord, ReferenceBacked, NoFacts
<1>. QED  BY <1>1, TypeCorrect, NextReferenceBacked, PTL DEF Spec

-----------------------------------------------------------------------------
(* The stored notice. *)

\* What a notice is about to cite is known to its record.
DraftTracked ==
  \A r \in Requests : request[r].pc \in {"retrieving", "composing"} =>
    request[r].doc \in indexed_document_ids[request[r].case]

NoticeInv == NoticeMatchesRecord /\ DraftTracked

\* A step that leaves the record alone and brings no request nearer to a notice
\* than it was keeps NoticeInv.
LEMMA NoticeUntouched ==
  ASSUME NoticeInv, UNCHANGED <<facts, notice, indexed_document_ids>>,
         NEW r \in Requests, OthersUntouched(r),
         request'[r].pc \in {"retrieving", "composing"} =>
           /\ request[r].pc \in {"retrieving", "composing"}
           /\ request'[r].case = request[r].case
           /\ request'[r].doc = request[r].doc
  PROVE  NoticeInv'
BY DEF NoticeInv, NoticeMatchesRecord, DraftTracked, OthersUntouched

\* An edit drops the notice unless it leaves the facts as they are.
LEMMA EditNoticeOK ==
  ASSUME TypeOK, NoticeInv, NEW c \in Cases, Edit(c)
  PROVE  NoticeInv'
<1>1. DraftTracked'
  <2>1. UNCHANGED <<request, indexed_document_ids>>
    BY DEF Edit, CreateCase, AddMessage, UpdateFacts, record
  <2>. QED  BY <2>1 DEF NoticeInv, DraftTracked
<1>2. CASE CreateCase(c)
  BY <1>1, <1>2 DEF CreateCase, record, NoticeInv, NoticeMatchesRecord
<1>3. ASSUME NEW key \in Keys \cup {None}, NEW m \in Messages, AddMessage(c, key, m)
      PROVE  NoticeInv'
  BY <1>1, <1>3 DEF AddMessage, Reopen, NoticeInv, NoticeMatchesRecord, TypeOK, RecordOK
<1>4. ASSUME NEW p \in Patches, NEW ask \in {"absent", "true", "false"},
             UpdateFacts(c, p, ask)
      PROVE  NoticeInv'
  <2>. DEFINE new == Patched(facts[c], p)
  <2>1. /\ facts' = [facts EXCEPT ![c] = new]
        /\ notice' = [notice EXCEPT ![c] = IF new # facts[c] THEN None ELSE @]
        /\ UNCHANGED indexed_document_ids
    BY <1>4 DEF UpdateFacts, NoticeAfter
  <2>. HIDE DEF new
  <2>. QED  BY <1>1, <2>1 DEF NoticeInv, NoticeMatchesRecord, TypeOK, RecordOK
<1>. QED  BY <1>2, <1>3, <1>4 DEF Edit

\* Uploads, notices and deletions begin away from the record.
LEMMA StartNoticeOK ==
  ASSUME TypeOK, NoticeInv, NEW r \in Requests, NEW c \in Cases, Start(r, c)
  PROVE  NoticeInv'
<1>1. UNCHANGED <<facts, notice, indexed_document_ids>>
  BY StartRecord DEF record
<1>2. ASSUME NEW f \in Files, StartUpload(r, c, f)
      PROVE  OthersUntouched(r) /\ request'[r].pc = "receiving"
  BY <1>2 DEF StartUpload, TypeOK, RequestOK, Idle, OthersUntouched
<1>3. CASE StartNotice(r, c)
  <2>1. CASE legal_indexed
    <3>1. OthersUntouched(r) /\ request'[r].pc \in {"indexing", "clearing"}
      BY <1>3, <2>1, CombineEffect DEF StartNotice, TypeOK
    <3>. QED  BY <1>1, <3>1, NoticeUntouched
  <2>2. CASE ~legal_indexed
    <3>1. OthersUntouched(r) /\ request'[r].pc \in {"legal", "waiting"}
      BY <1>3, <2>2 DEF StartNotice, TypeOK, RequestOK, Idle, OthersUntouched
    <3>. QED  BY <1>1, <3>1, NoticeUntouched
  <2>. QED  BY <2>1, <2>2
<1>4. CASE StartDelete(r, c)
  <2>1. OthersUntouched(r) /\ request'[r].pc \in {"idle", "purging"}
    BY <1>4, PurgeStepEffect DEF StartDelete, TypeOK
  <2>. QED  BY <1>1, <2>1, NoticeUntouched
<1>. QED  BY <1>1, <1>2, <1>3, <1>4, NoticeUntouched DEF Start

\* A notice is composed from the facts of the moment, and cites a document that
\* the record learnt of on the way.
LEMMA AdvanceNoticeOK ==
  ASSUME TypeOK, NoticeInv, NEW r \in Requests, Advance(r)
  PROVE  NoticeInv'
<1>. RequestOK
  BY DEF TypeOK
<1>1. ASSUME NEW safe \in BOOLEAN, CommitEvidence(r, safe)
      PROVE  NoticeInv'
  <2>1. OthersUntouched(r) /\ request'[r].pc = "idle"
    BY <1>1, FinishEffect DEF CommitEvidence
  <2>2. DraftTracked'
    BY <1>1, <2>1 DEF CommitEvidence, NoticeInv, DraftTracked, OthersUntouched
  <2>3. NoticeMatchesRecord'
    BY <1>1 DEF CommitEvidence, Reopen, NoticeInv, NoticeMatchesRecord, TypeOK, RecordOK
  <2>. QED  BY <2>2, <2>3 DEF NoticeInv
<1>2. CASE RecordIndexed(r)
  <2>. DEFINE c == request[r].case
  <2>1. /\ OthersUntouched(r)
        /\ request'[r].case = c
        /\ request'[r].doc = request[r].doc
    BY <1>2, GotoEffect DEF RecordIndexed
  <2>2. c \in Cases
    BY <1>2 DEF RecordIndexed, TypeOK, RequestOK
  <2>3. /\ request[r].doc \in indexed_document_ids'[c]
        /\ \A d \in Cases : indexed_document_ids[d] \subseteq indexed_document_ids'[d]
    BY <1>2, <2>2 DEF RecordIndexed, TypeOK, RecordOK
  <2>4. DraftTracked'
    <3>1. ASSUME NEW q \in Requests \ {r}, request'[q].pc \in {"retrieving", "composing"}
          PROVE  request'[q].doc \in indexed_document_ids'[request'[q].case]
      <4>1. request'[q] = request[q]
        BY <2>1 DEF OthersUntouched
      <4>2. request[q].case \in Cases
        BY <3>1, <4>1 DEF TypeOK, RequestOK
      <4>. QED  BY <3>1, <4>1, <4>2, <2>3 DEF NoticeInv, DraftTracked
    <3>. QED  BY <3>1, <2>1, <2>3 DEF DraftTracked
  <2>5. NoticeMatchesRecord'
    BY <1>2, <2>3 DEF RecordIndexed, NoticeInv, NoticeMatchesRecord
  <2>. QED  BY <2>4, <2>5 DEF NoticeInv
<1>3. CASE ComposeNotice(r)
  <2>. DEFINE c == request[r].case
  <2>1. OthersUntouched(r) /\ request'[r].pc = "idle"
    BY <1>3, FinishEffect DEF ComposeNotice
  <2>2. DraftTracked'
    BY <1>3, <2>1 DEF ComposeNotice, NoticeInv, DraftTracked, OthersUntouched
  <2>3. /\ facts[c].text \in ScopedTexts
        /\ request[r].doc \in indexed_document_ids[c]
        /\ notice' = [notice EXCEPT ![c] = [facts |-> facts[c], doc |-> request[r].doc]]
        /\ UNCHANGED <<facts, indexed_document_ids>>
    BY <1>3 DEF ComposeNotice, NoticeInv, DraftTracked
  <2>. HIDE DEF c
  <2>4. NoticeMatchesRecord'
    BY <2>3 DEF NoticeInv, NoticeMatchesRecord, TypeOK, RecordOK
  <2>. QED  BY <2>2, <2>4 DEF NoticeInv
<1>4. CASE \/ UploadEnds(r) \/ LegalCorpusFails(r) \/ ClearEmptyDocument(r)
           \/ NoticeFails(r) \/ PurgeFails(r)
  <2>1. /\ UNCHANGED record
        /\ OthersUntouched(r) /\ request'[r].pc = "idle"
    BY <1>4, FinishEffect
    DEF UploadEnds, LegalCorpusFails, ClearEmptyDocument, NoticeFails, PurgeFails
  <2>. QED  BY <2>1, NoticeUntouched DEF record
<1>5. CASE BeginIngest(r) \/ StoreEvidence(r) \/ RetrieveEvidence(r) \/ PurgeDocument(r)
  <2>1. /\ UNCHANGED record
        /\ OthersUntouched(r)
        /\ request'[r].case = request[r].case /\ request'[r].doc = request[r].doc
        /\ \/ request'[r].pc \in {"ingesting", "stored", "purged"}
           \/ request'[r].pc = "composing" /\ request[r].pc = "retrieving"
    BY <1>5, GotoEffect DEF BeginIngest, StoreEvidence, RetrieveEvidence, PurgeDocument
  <2>. QED  BY <2>1, NoticeUntouched DEF record
<1>6. CASE AcquireLegalLock(r) \/ LegalCorpusIndexed(r)
  <2>1. /\ UNCHANGED record
        /\ OthersUntouched(r) /\ request'[r].pc \in {"legal", "indexing", "clearing"}
    BY <1>6, GotoEffect, CombineEffect DEF AcquireLegalLock, LegalCorpusIndexed
  <2>. QED  BY <2>1, NoticeUntouched DEF record
<1>7. CASE PurgeNext(r)
  <2>1. UNCHANGED record /\ OthersUntouched(r) /\ request'[r].pc \in {"idle", "purging"}
    BY <1>7, PurgeStepEffect DEF PurgeNext
  <2>. QED  BY <2>1, NoticeUntouched DEF record
<1>. QED  BY <1>1, <1>2, <1>3, <1>4, <1>5, <1>6, <1>7 DEF Advance

\* Every step keeps the notice true to the record and its document tracked.
LEMMA NextNoticeOK == TypeOK /\ NoticeInv /\ [Next]_vars => NoticeInv'
<1>. SUFFICES ASSUME TypeOK, NoticeInv, [Next]_vars
              PROVE  NoticeInv'
  OBVIOUS
<1>1. CASE Restart
  BY <1>1 DEF Restart, NoticeInv, NoticeMatchesRecord, DraftTracked, Idle
<1>2. CASE UNCHANGED vars
  BY <1>2 DEF vars, record, NoticeInv, NoticeMatchesRecord, DraftTracked
<1>. QED  BY <1>1, <1>2, EditNoticeOK, StartNoticeOK, AdvanceNoticeOK DEF Next

\* Whatever changes while a notice is being generated, the notice that is stored
\* states the facts the case holds, and cites a document a deletion will find.
THEOREM NoticeCorrect == Spec => []NoticeMatchesRecord
<1>1. Init => NoticeInv
  BY DEF Init, InitialRecord, NoticeInv, NoticeMatchesRecord, DraftTracked, Idle
<1>2. NoticeInv => NoticeMatchesRecord
  BY DEF NoticeInv
<1>. QED  BY <1>1, <1>2, TypeCorrect, NextNoticeOK, PTL DEF Spec

-----------------------------------------------------------------------------
(* Documents of live cases. *)

\* A step that adds nothing to the index, brings no case to life and ends no
\* pending registration keeps the documents tracked.
LEMMA TrackedUntouched ==
  ASSUME LiveDocumentsTracked, UNCHANGED indexed_document_ids,
         index' \subseteq index, live' \subseteq live,
         NEW r \in Requests, OthersUntouched(r), request[r].pc # "stored"
  PROVE  LiveDocumentsTracked'
BY DEF LiveDocumentsTracked, OthersUntouched

\* Handlers that never await leave the index alone.
LEMMA EditTrackedOK ==
  ASSUME TypeOK, LiveDocumentsTracked, NEW c \in Cases, Edit(c)
  PROVE  LiveDocumentsTracked'
<1>1. CASE CreateCase(c)
  <2>1. \A d \in index : d[1] \in created
    BY DEF TypeOK
  <2>. QED  BY <1>1, <2>1 DEF CreateCase, record, LiveDocumentsTracked
<1>2. CASE ~CreateCase(c)
  <2>1. UNCHANGED <<live, index, request, indexed_document_ids>>
    BY <1>2 DEF Edit, AddMessage, UpdateFacts
  <2>. QED  BY <2>1 DEF LiveDocumentsTracked
<1>. QED  BY <1>1, <1>2

\* The first part of a handler that awaits leaves the index alone too.
LEMMA StartTrackedOK ==
  ASSUME TypeOK, LiveDocumentsTracked, NEW r \in Requests, NEW c \in Cases, Start(r, c)
  PROVE  LiveDocumentsTracked'
<1>1. UNCHANGED <<indexed_document_ids, index>> /\ live' \subseteq live
  BY DEF Start, StartUpload, StartNotice, StartDelete, record
<1>2. request[r] = Idle
  BY DEF Start, StartUpload, StartNotice, StartDelete
<1>3. OthersUntouched(r)
  <2>1. ASSUME NEW f \in Files, StartUpload(r, c, f)
        PROVE  OthersUntouched(r)
    BY <2>1 DEF StartUpload, TypeOK, RequestOK, OthersUntouched
  <2>2. CASE StartNotice(r, c)
    BY <2>2, CombineEffect DEF StartNotice, TypeOK, RequestOK, OthersUntouched
  <2>3. CASE StartDelete(r, c)
    BY <2>3, PurgeStepEffect DEF StartDelete, TypeOK
  <2>. QED  BY <2>1, <2>2, <2>3 DEF Start
<1>. QED  BY <1>1, <1>2, <1>3, TrackedUntouched DEF Idle

\* The handler that stores a document registers it when it resumes.
LEMMA AdvanceTrackedOK ==
  ASSUME TypeOK, LiveDocumentsTracked, NEW r \in Requests, Advance(r)
  PROVE  LiveDocumentsTracked'
<1>. RequestOK
  BY DEF TypeOK
<1>1. CASE StoreEvidence(r)
  <2>1. /\ OthersUntouched(r)
        /\ request'[r].pc = "stored"
        /\ request'[r].case = request[r].case
        /\ request'[r].doc = request[r].doc
    BY <1>1, GotoEffect DEF StoreEvidence
  <2>2. /\ request[r].pc = "indexing"
        /\ index' = index \cup {<<request[r].case, request[r].doc>>}
        /\ UNCHANGED <<live, indexed_document_ids>>
    BY <1>1 DEF StoreEvidence, record
  <2>. QED  BY <2>1, <2>2 DEF LiveDocumentsTracked, OthersUntouched
<1>2. CASE RecordIndexed(r)
  <2>. DEFINE c == request[r].case
  <2>1. OthersUntouched(r) /\ UNCHANGED <<live, index>>
    BY <1>2, GotoEffect DEF RecordIndexed
  <2>2. c \in Cases
    BY <1>2 DEF RecordIndexed, TypeOK, RequestOK
  <2>3. /\ request[r].doc \in indexed_document_ids'[c]
        /\ \A d \in Cases : indexed_document_ids[d] \subseteq indexed_document_ids'[d]
    BY <1>2, <2>2 DEF RecordIndexed, TypeOK, RecordOK
  <2>4. \A d \in index : d[1] \in Cases
    BY DEF TypeOK
  <2>. QED  BY <2>1, <2>2, <2>3, <2>4 DEF LiveDocumentsTracked, OthersUntouched
<1>3. CASE \/ UploadEnds(r) \/ \E safe \in BOOLEAN : CommitEvidence(r, safe)
           \/ LegalCorpusFails(r) \/ ClearEmptyDocument(r) \/ ComposeNotice(r)
           \/ NoticeFails(r) \/ PurgeFails(r)
  <2>1. /\ OthersUntouched(r) /\ request[r].pc # "stored"
        /\ UNCHANGED <<live, indexed_document_ids>> /\ index' \subseteq index
    BY <1>3, FinishEffect
    DEF UploadEnds, CommitEvidence, LegalCorpusFails, ClearEmptyDocument,
        ComposeNotice, NoticeFails, PurgeFails, record
  <2>. QED  BY <2>1, TrackedUntouched
<1>4. CASE \/ BeginIngest(r) \/ AcquireLegalLock(r) \/ LegalCorpusIndexed(r)
           \/ RetrieveEvidence(r) \/ PurgeDocument(r) \/ PurgeNext(r)
  <2>1. /\ OthersUntouched(r) /\ request[r].pc # "stored"
        /\ UNCHANGED <<live, indexed_document_ids>> /\ index' \subseteq index
    BY <1>4, GotoEffect, CombineEffect, PurgeStepEffect
    DEF BeginIngest, AcquireLegalLock, LegalCorpusIndexed, RetrieveEvidence,
        PurgeDocument, PurgeNext, record
  <2>. QED  BY <2>1, TrackedUntouched
<1>. QED  BY <1>1, <1>2, <1>3, <1>4 DEF Advance

\* Every step keeps the documents of live cases tracked.
LEMMA NextTrackedOK ==
  TypeOK /\ LiveDocumentsTracked /\ [Next]_vars => LiveDocumentsTracked'
<1>. SUFFICES ASSUME TypeOK, LiveDocumentsTracked, [Next]_vars
              PROVE  LiveDocumentsTracked'
  OBVIOUS
<1>1. CASE Restart
  BY <1>1 DEF Restart, LiveDocumentsTracked
<1>2. CASE UNCHANGED vars
  BY <1>2 DEF vars, record, LiveDocumentsTracked
<1>. QED  BY <1>1, <1>2, EditTrackedOK, StartTrackedOK, AdvanceTrackedOK DEF Next

\* Whatever text of a live case can be searched is known to its record, or will
\* be when the handler that stored it resumes.
THEOREM TrackingCorrect == Spec => []LiveDocumentsTracked
<1>1. Init => LiveDocumentsTracked
  BY DEF Init, LiveDocumentsTracked
<1>. QED  BY <1>1, TypeCorrect, NextTrackedOK, PTL DEF Spec
-----------------------------------------------------------------------------
(* Erasure.  With one request per case no other handler can add a document  *)
(* while a deletion walks through the documents of the case, so the walk    *)
(* covers whatever is left of it in the index.                              *)

\* No two requests work on one case.
OnePerCase ==
  \A r, q \in Requests : request[r].case \in Cases /\ request[r].case = request[q].case
                         => r = q

\* An erased case is at rest.
ErasedAtRest ==
  \A c \in acknowledged :
    /\ c \notin live
    /\ \A r \in Requests : request[r].case # c

\* A deletion still has every document of its case before it that is left.
PurgeCovers ==
  \A r \in Requests : request[r].pc \in {"purging", "purged"} =>
    /\ request[r].case \notin live
    /\ \A d \in index : d[1] = request[r].case =>
         \/ d[2] \in request[r].rest
         \/ request[r].pc = "purging" /\ d[2] = request[r].doc

ErasureInv == OnePerCase /\ ErasedAtRest /\ PurgeCovers /\ ErasedMeansErased

\* A step of a request that is not a deletion, or ends one unacknowledged, and
\* that neither revives a case nor adds a document, keeps ErasureInv.
LEMMA ErasureUntouched ==
  ASSUME TypeOK, ErasureInv, UNCHANGED <<live, acknowledged>>, index' \subseteq index,
         NEW r \in Requests, OthersUntouched(r),
         request'[r].case \in {request[r].case, None},
         request'[r].pc \notin {"purging", "purged"}
  PROVE  ErasureInv'
<1>1. \A c \in acknowledged : c # None
  BY ConfigAssumption DEF TypeOK
<1>2. OnePerCase' /\ ErasedAtRest'
  BY <1>1, ConfigAssumption DEF ErasureInv, OnePerCase, ErasedAtRest, OthersUntouched
<1>3. PurgeCovers' /\ ErasedMeansErased'
  BY DEF ErasureInv, PurgeCovers, ErasedMeansErased, OthersUntouched
<1>. QED  BY <1>2, <1>3 DEF ErasureInv

\* Handlers that never await touch neither index nor acknowledgements.
LEMMA EditErasureOK ==
  ASSUME TypeOK, ErasureInv, NEW c \in Cases, Edit(c)
  PROVE  ErasureInv'
<1>1. CASE CreateCase(c)
  BY <1>1 DEF CreateCase, TypeOK, RequestOK, ErasureInv, OnePerCase, ErasedAtRest,
              PurgeCovers, ErasedMeansErased
<1>2. CASE ~CreateCase(c)
  <2>1. UNCHANGED <<live, index, request, acknowledged>>
    BY <1>2 DEF Edit, AddMessage, UpdateFacts
  <2>. QED  BY <2>1 DEF ErasureInv, OnePerCase, ErasedAtRest, PurgeCovers, ErasedMeansErased
<1>. QED  BY <1>1, <1>2

\* A deletion that begins finds every document in the record: no handler of the
\* case is under way that could still register one.
LEMMA StartErasureOK ==
  ASSUME OneAtATime, TypeOK, LiveDocumentsTracked, ErasureInv,
         NEW r \in Requests, NEW c \in Cases, Start(r, c)
  PROVE  ErasureInv'
<1>1. c \in live /\ \A q \in Requests : request[q].case # c
  BY DEF Start, StartUpload, StartNotice, StartDelete, Admitted
<1>2. c \notin acknowledged /\ c # None
  BY <1>1, ConfigAssumption DEF ErasureInv, ErasedAtRest
<1>3. CASE StartNotice(r, c) \/ \E f \in Files : StartUpload(r, c, f)
  <2>1. UNCHANGED <<live, index, acknowledged>>
    BY <1>3 DEF StartNotice, StartUpload
  <2>2. /\ OthersUntouched(r)
        /\ request'[r].case = c
        /\ request'[r].pc \notin {"purging", "purged"}
    <3>1. ASSUME NEW f \in Files, StartUpload(r, c, f)
          PROVE  /\ OthersUntouched(r)
                 /\ request'[r].case = c
                 /\ request'[r].pc \notin {"purging", "purged"}
      BY <3>1 DEF StartUpload, TypeOK, RequestOK, Idle, OthersUntouched
    <3>2. CASE StartNotice(r, c) /\ legal_indexed
      BY <3>2, CombineEffect DEF StartNotice, TypeOK
    <3>3. CASE StartNotice(r, c) /\ ~legal_indexed
      BY <3>3 DEF StartNotice, TypeOK, RequestOK, Idle, OthersUntouched
    <3>. QED  BY <1>3, <3>1, <3>2, <3>3
  <2>3. OnePerCase' /\ ErasedAtRest'
    BY <1>1, <1>2, <2>1, <2>2 DEF ErasureInv, OnePerCase, ErasedAtRest, OthersUntouched
  <2>4. PurgeCovers' /\ ErasedMeansErased'
    BY <2>1, <2>2 DEF ErasureInv, PurgeCovers, ErasedMeansErased, OthersUntouched
  <2>. QED  BY <2>3, <2>4 DEF ErasureInv
<1>4. CASE StartDelete(r, c)
  <2>. DEFINE ids == indexed_document_ids[c]
  <2>1. \A d \in index : d[1] = c => d[2] \in ids
    BY <1>1 DEF LiveDocumentsTracked
  <2>2. live' = live \ {c} /\ UNCHANGED index
    BY <1>4 DEF StartDelete
  <2>3. /\ OthersUntouched(r)
        /\ \/ /\ ids = {}
              /\ request'[r].pc = "idle"
              /\ request'[r].case = None
              /\ acknowledged' = acknowledged \cup {c}
           \/ /\ request'[r].pc = "purging"
              /\ request'[r].case = c
              /\ request'[r].rest = ids \ {request'[r].doc}
              /\ UNCHANGED acknowledged
    BY <1>4, PurgeStepEffect DEF StartDelete, TypeOK
  <2>. HIDE DEF ids
  <2>4. OnePerCase'
    BY <1>1, <1>2, <2>3, ConfigAssumption DEF ErasureInv, OnePerCase, OthersUntouched
  <2>5. ErasedAtRest'
    BY <1>1, <1>2, <2>2, <2>3, ConfigAssumption
    DEF ErasureInv, ErasedAtRest, OthersUntouched, TypeOK
  <2>6. PurgeCovers'
    BY <2>1, <2>2, <2>3 DEF ErasureInv, PurgeCovers, OthersUntouched
  <2>7. ErasedMeansErased'
    BY <2>1, <2>2, <2>3 DEF ErasureInv, ErasedMeansErased
  <2>. QED  BY <2>4, <2>5, <2>6, <2>7 DEF ErasureInv
<1>. QED  BY <1>3, <1>4 DEF Start

\* A deletion is acknowledged only once its last document is purged, and
\* while it runs no other request of its case can index anything.
LEMMA AdvanceErasureOK ==
  ASSUME TypeOK, ErasureInv, NEW r \in Requests, Advance(r)
  PROVE  ErasureInv'
<1>. RequestOK
  BY DEF TypeOK
<1>. DEFINE c == request[r].case
<1>1. CASE StoreEvidence(r)
  <2>1. /\ OthersUntouched(r)
        /\ request'[r].pc = "stored"
        /\ request'[r].case = c
    BY <1>1, GotoEffect DEF StoreEvidence
  <2>2. /\ index' = index \cup {<<c, request[r].doc>>}
        /\ UNCHANGED <<live, acknowledged>>
        /\ c \in Cases
    BY <1>1 DEF StoreEvidence, TypeOK, RequestOK
  <2>3. c \notin acknowledged
    BY DEF ErasureInv, ErasedAtRest
  <2>4. \A q \in Requests \ {r} : request[q].case # c
    BY <2>2 DEF ErasureInv, OnePerCase
  <2>. HIDE DEF c
  <2>5. OnePerCase' /\ ErasedAtRest'
    BY <2>1, <2>2, <2>3, <2>4 DEF ErasureInv, OnePerCase, ErasedAtRest, OthersUntouched
  <2>6. PurgeCovers' /\ ErasedMeansErased'
    BY <2>1, <2>2, <2>3, <2>4 DEF ErasureInv, PurgeCovers, ErasedMeansErased, OthersUntouched
  <2>. QED  BY <2>5, <2>6 DEF ErasureInv
<1>2. CASE PurgeDocument(r)
  <2>1. /\ OthersUntouched(r)
        /\ request'[r].pc = "purged"
        /\ request'[r].case = c
        /\ request'[r].rest = request[r].rest
    BY <1>2, GotoEffect DEF PurgeDocument
  <2>2. /\ request[r].pc = "purging"
        /\ index' = index \ {<<c, request[r].doc>>}
        /\ UNCHANGED <<live, acknowledged>>
    BY <1>2 DEF PurgeDocument
  <2>3. \A d \in index : d = <<d[1], d[2]>>
    BY DEF TypeOK
  <2>. HIDE DEF c
  <2>4. OnePerCase' /\ ErasedAtRest' /\ ErasedMeansErased'
    BY <2>1, <2>2 DEF c, ErasureInv, OnePerCase, ErasedAtRest, ErasedMeansErased, OthersUntouched
  <2>5. PurgeCovers'
    BY <2>1, <2>2, <2>3 DEF c, ErasureInv, PurgeCovers, OthersUntouched
  <2>. QED  BY <2>4, <2>5 DEF ErasureInv
<1>3. CASE PurgeNext(r)
  <2>1. /\ request[r].pc = "purged"
        /\ c \in Cases
        /\ UNCHANGED <<live, index>>
    BY <1>3 DEF PurgeNext, TypeOK, RequestOK
  <2>2. c \notin live /\ \A d \in index : d[1] = c => d[2] \in request[r].rest
    BY <2>1 DEF ErasureInv, PurgeCovers
  <2>3. \A q \in Requests \ {r} : request[q].case # c
    BY <2>1 DEF ErasureInv, OnePerCase
  <2>4. /\ OthersUntouched(r)
        /\ \/ /\ request[r].rest = {}
              /\ request'[r].pc = "idle"
              /\ request'[r].case = None
              /\ acknowledged' = acknowledged \cup {c}
           \/ /\ request'[r].pc = "purging"
              /\ request'[r].case = c
              /\ request'[r].rest = request[r].rest \ {request'[r].doc}
              /\ UNCHANGED acknowledged
    BY <1>3, PurgeStepEffect DEF PurgeNext
  <2>5. c \notin acknowledged /\ None \notin Cases /\ None \notin acknowledged
    BY ConfigAssumption DEF ErasureInv, ErasedAtRest, TypeOK
  <2>. HIDE DEF c
  <2>6. OnePerCase'
    BY <2>1, <2>3, <2>4, <2>5 DEF ErasureInv, OnePerCase, OthersUntouched
  <2>7. ErasedAtRest'
    BY <2>1, <2>2, <2>3, <2>4, <2>5 DEF ErasureInv, ErasedAtRest, OthersUntouched
  <2>8. PurgeCovers'
    BY <2>1, <2>2, <2>4 DEF ErasureInv, PurgeCovers, OthersUntouched
  <2>9. ErasedMeansErased'
    BY <2>1, <2>2, <2>4 DEF ErasureInv, ErasedMeansErased
  <2>. QED  BY <2>6, <2>7, <2>8, <2>9 DEF ErasureInv
<1>4. CASE \/ UploadEnds(r) \/ \E safe \in BOOLEAN : CommitEvidence(r, safe)
           \/ LegalCorpusFails(r) \/ ClearEmptyDocument(r) \/ ComposeNotice(r)
           \/ NoticeFails(r) \/ PurgeFails(r)
  <2>1. /\ UNCHANGED <<live, acknowledged>> /\ index' \subseteq index
        /\ OthersUntouched(r) /\ request'[r].pc = "idle" /\ request'[r].case = None
    BY <1>4, FinishEffect
    DEF UploadEnds, CommitEvidence, LegalCorpusFails, ClearEmptyDocument,
        ComposeNotice, NoticeFails, PurgeFails
  <2>. QED  BY <2>1, ErasureUntouched
<1>5. CASE \/ BeginIngest(r) \/ AcquireLegalLock(r) \/ LegalCorpusIndexed(r)
           \/ RecordIndexed(r) \/ RetrieveEvidence(r)
  <2>1. /\ UNCHANGED <<live, index, acknowledged>>
        /\ OthersUntouched(r) /\ request'[r].case = c
        /\ request'[r].pc \notin {"purging", "purged"}
    BY <1>5, GotoEffect, CombineEffect
    DEF BeginIngest, AcquireLegalLock, LegalCorpusIndexed, RecordIndexed, RetrieveEvidence
  <2>. QED  BY <2>1, ErasureUntouched
<1>. QED  BY <1>1, <1>2, <1>3, <1>4, <1>5 DEF Advance

\* Every step keeps the erasure invariant.
LEMMA NextErasureOK ==
  ASSUME OneAtATime
  PROVE  TypeOK /\ LiveDocumentsTracked /\ ErasureInv /\ [Next]_vars => ErasureInv'
<1>. SUFFICES ASSUME TypeOK, LiveDocumentsTracked, ErasureInv, [Next]_vars
              PROVE  ErasureInv'
  OBVIOUS
<1>1. CASE Restart
  BY <1>1, ConfigAssumption
  DEF Restart, TypeOK, Idle, ErasureInv, OnePerCase, ErasedAtRest, PurgeCovers, ErasedMeansErased
<1>2. CASE UNCHANGED vars
  BY <1>2 DEF vars, ErasureInv, OnePerCase, ErasedAtRest, PurgeCovers, ErasedMeansErased
<1>. QED  BY <1>1, <1>2, EditErasureOK, StartErasureOK, AdvanceErasureOK DEF Next

\* When every client waits for its answers, a deletion that was answered with
\* success leaves nothing of the case in the index, restarts and failures of the
\* store included.
THEOREM ErasureCorrect ==
  ASSUME OneAtATime
  PROVE  Spec => []ErasedMeansErased
<1>1. Init => ErasureInv
  BY ConfigAssumption
  DEF Init, Idle, ErasureInv, OnePerCase, ErasedAtRest, PurgeCovers, ErasedMeansErased
<1>2. ErasureInv => ErasedMeansErased
  BY DEF ErasureInv
<1>3. TypeOK /\ LiveDocumentsTracked /\ ErasureInv /\ [Next]_vars => ErasureInv'
  BY NextErasureOK
<1>. QED  BY <1>1, <1>2, <1>3, TypeCorrect, TrackingCorrect, PTL DEF Spec

-----------------------------------------------------------------------------
(* What the requests of a case can rely on.  With one request per case     *)
(* nobody withdraws the review or the case itself under a handler that     *)
(* tested them before its awaits.                                          *)

RequestFindsItsCase(r) ==
  /\ request[r].pc \in {"receiving", "ingesting"} \cup Generating => request[r].case \in live
  /\ request[r].pc \in Generating => facts_confirmed[request[r].case]
  /\ request[r].pc = "clearing" => ~HasChunks(request[r].case)
  /\ request[r].pc \in {"indexing", "stored", "retrieving", "composing"}
       => HasChunks(request[r].case)
  /\ request[r].pc = "composing" => <<request[r].case, request[r].doc>> \in index

FreshCases == \A c \in Cases \ created : notice[c] = None /\ ~facts_confirmed[c]

\* Text of a live case is in the index only when the case has text.
IndexedHasChunks == \A d \in index : d[1] \in live => HasChunks(d[1])

ContractInv ==
  /\ \A r \in Requests : RequestFindsItsCase(r)
  /\ FreshCases
  /\ IndexedHasChunks

-----------------------------------------------------------------------------
(* A step is about one case; the others stay as they were. *)

CaseAsWas(d) ==
  /\ d \in created' <=> d \in created
  /\ d \in live' <=> d \in live
  /\ d \in acknowledged' <=> d \in acknowledged
  /\ facts'[d] = facts[d] /\ facts_confirmed'[d] = facts_confirmed[d]
  /\ notice'[d] = notice[d] /\ answered'[d] = answered[d]
  /\ accepted'[d] = accepted[d] /\ refused'[d] = refused[d]
  /\ \A n : <<d, n>> \in index' <=> <<d, n>> \in index

OthersAsWere(c) == \A d \in Cases \ {c} : CaseAsWas(d)

LEMMA EditIsLocal ==
  ASSUME TypeOK, NEW c \in Cases, Edit(c)
  PROVE  OthersAsWere(c)
<1>. USE DEF TypeOK, RecordOK, OthersAsWere, CaseAsWas, record
<1>1. CASE CreateCase(c)
  BY <1>1 DEF CreateCase
<1>2. ASSUME NEW key, NEW m, AddMessage(c, key, m)
      PROVE  OthersAsWere(c)
  BY <1>2 DEF AddMessage, Reopen
<1>3. ASSUME NEW p, NEW ask, UpdateFacts(c, p, ask)
      PROVE  OthersAsWere(c)
  BY <1>3 DEF UpdateFacts
<1>. QED  BY <1>1, <1>2, <1>3 DEF Edit

LEMMA StartIsLocal ==
  ASSUME TypeOK, NEW r \in Requests, NEW c \in Cases, Start(r, c)
  PROVE  OthersAsWere(c)
<1>. USE DEF OthersAsWere, CaseAsWas, record
<1>1. CASE StartDelete(r, c)
  BY <1>1, PurgeStepEffect DEF StartDelete, TypeOK
<1>2. CASE ~StartDelete(r, c)
  BY <1>2 DEF Start, StartUpload, StartNotice
<1>. QED  BY <1>1, <1>2

LEMMA AdvanceIsLocal ==
  ASSUME TypeOK, NEW r \in Requests, Advance(r)
  PROVE  /\ OthersAsWere(request[r].case)
         /\ request[r].pc # "idle" /\ request[r].case \in created
         /\ request[r].case \in Cases /\ UNCHANGED created
<1>1. request[r].pc # "idle" /\ request[r].case \in created /\ request[r].case \in Cases
      /\ UNCHANGED created
  BY DEF TypeOK, RequestOK, Advance, BeginIngest, UploadEnds, CommitEvidence, AcquireLegalLock,
         LegalCorpusIndexed, LegalCorpusFails, ClearEmptyDocument, StoreEvidence,
         RecordIndexed, RetrieveEvidence, ComposeNotice, NoticeFails, PurgeDocument,
         PurgeNext, PurgeFails
<1>. DEFINE c == request[r].case
<1>2. OthersAsWere(c)
  <2>. USE DEF OthersAsWere, CaseAsWas, record
  <2>1. ASSUME NEW safe \in BOOLEAN, CommitEvidence(r, safe)
        PROVE  OthersAsWere(c)
    BY <1>1, <2>1 DEF CommitEvidence, Reopen, TypeOK, RecordOK
  <2>2. CASE ComposeNotice(r)
    BY <1>1, <2>2 DEF ComposeNotice, TypeOK, RecordOK
  <2>3. CASE PurgeNext(r)
    BY <1>1, <2>3, PurgeStepEffect DEF PurgeNext, TypeOK
  <2>4. CASE ClearEmptyDocument(r) \/ StoreEvidence(r) \/ PurgeDocument(r)
    BY <1>1, <2>4 DEF ClearEmptyDocument, StoreEvidence, PurgeDocument
  <2>5. CASE \/ BeginIngest(r) \/ UploadEnds(r) \/ AcquireLegalLock(r) \/ LegalCorpusIndexed(r)
             \/ LegalCorpusFails(r) \/ RecordIndexed(r) \/ RetrieveEvidence(r)
             \/ NoticeFails(r) \/ PurgeFails(r)
    BY <1>1, <2>5 DEF BeginIngest, UploadEnds, AcquireLegalLock, LegalCorpusIndexed,
                      LegalCorpusFails, RecordIndexed, RetrieveEvidence, NoticeFails, PurgeFails
  <2>. QED  BY <2>1, <2>2, <2>3, <2>4, <2>5 DEF Advance
<1>. QED  BY <1>1, <1>2

\* The invariant is left to the case of the step and the requests it moves.
LEMMA ContractKept ==
  ASSUME TypeOK, TypeOK', ContractInv, NEW c \in Cases, NEW Moved \in SUBSET Requests,
         OthersAsWere(c), c \in created',
         \A q \in Requests \ Moved :
           request'[q] = request[q] /\ (request[q].case # c \/ request[q].pc = "idle"),
         \A q \in Moved : RequestFindsItsCase(q)',
         \A n : <<c, n>> \in index' /\ c \in live' => HasChunks(c)'
  PROVE  ContractInv'
<1>1. \A d \in Cases \ {c} : HasChunks(d)' = HasChunks(d)
  BY DEF OthersAsWere, CaseAsWas, HasChunks, SeqElements
<1>2. ASSUME NEW q \in Requests \ Moved
      PROVE  RequestFindsItsCase(q)'
  <2>1. request'[q] = request[q] /\ RequestFindsItsCase(q)
    BY DEF ContractInv
  <2>2. CASE request[q].pc = "idle"
    BY <2>1, <2>2 DEF RequestFindsItsCase, Generating
  <2>3. CASE request[q].pc # "idle"
    <3>1. request[q].case \in Cases \ {c}
      BY <2>3 DEF TypeOK, RequestOK
    <3>. QED  BY <1>1, <2>1, <3>1 DEF RequestFindsItsCase, OthersAsWere, CaseAsWas
  <2>. QED  BY <2>2, <2>3
<1>3. FreshCases'
  BY DEF ContractInv, FreshCases, OthersAsWere, CaseAsWas
<1>4. IndexedHasChunks'
  <2>. SUFFICES ASSUME NEW d \in index', d[1] \in live'
                PROVE  HasChunks(d[1])'
    BY DEF IndexedHasChunks
  <2>1. d = <<d[1], d[2]>> /\ d[1] \in Cases
    BY DEF TypeOK
  <2>2. CASE d[1] = c
    BY <2>1, <2>2
  <2>3. CASE d[1] # c
    BY <1>1, <2>1, <2>3 DEF ContractInv, IndexedHasChunks, OthersAsWere, CaseAsWas
  <2>. QED  BY <2>2, <2>3
<1>. QED  BY <1>2, <1>3, <1>4 DEF ContractInv

-----------------------------------------------------------------------------
(* Every step keeps the invariant. *)

LEMMA EditContractOK ==
  ASSUME OneAtATime, TypeOK, TypeOK', ContractInv, NEW c \in Cases, Edit(c)
  PROVE  ContractInv'
<1>1. OthersAsWere(c) /\ UNCHANGED <<request, index, accepted>>
  BY EditIsLocal DEF Edit, CreateCase, AddMessage, UpdateFacts, record
<1>2. HasChunks(c)' = HasChunks(c)
  BY <1>1 DEF HasChunks, SeqElements
<1>3. CASE CreateCase(c)
  <2>1. c \in created' /\ \A n : <<c, n>> \notin index'
    BY <1>1, <1>3 DEF CreateCase, TypeOK
  <2>2. \A q \in Requests : request[q].case # c \/ request[q].pc = "idle"
    BY <1>3 DEF CreateCase, TypeOK, RequestOK
  <2>3. /\ {} \in SUBSET Requests
        /\ \A q \in Requests \ {} :
             request'[q] = request[q] /\ (request[q].case # c \/ request[q].pc = "idle")
        /\ \A q \in {} : RequestFindsItsCase(q)'
    BY <1>1, <2>2
  <2>. QED  BY <1>1, <2>1, <2>3, ContractKept
<1>4. CASE ~CreateCase(c)
  <2>1. c \in live /\ live' = live /\ c \in created' /\ \A q \in Requests : request[q].case # c
    BY <1>4 DEF Edit, AddMessage, UpdateFacts, Admitted, TypeOK
  <2>2. \A n : <<c, n>> \in index' => HasChunks(c)'
    BY <1>1, <1>2, <2>1 DEF ContractInv, IndexedHasChunks
  <2>3. /\ {} \in SUBSET Requests
        /\ \A q \in Requests \ {} :
             request'[q] = request[q] /\ (request[q].case # c \/ request[q].pc = "idle")
        /\ \A q \in {} : RequestFindsItsCase(q)'
    BY <1>1, <2>1
  <2>. QED  BY <1>1, <2>1, <2>2, <2>3, ContractKept
<1>. QED  BY <1>3, <1>4

\* Where the combined evidence goes.
LEMMA CombineGoes ==
  ASSUME RequestOK, NEW r \in Requests, NEW c, Combine(r, c)
  PROVE  request'[r].pc = IF HasChunks(c) THEN "indexing" ELSE "clearing"
BY DEF RequestOK, Combine, Idle

LEMMA StartContractOK ==
  ASSUME OneAtATime, TypeOK, TypeOK', ContractInv,
         NEW r \in Requests, NEW c \in Cases, Start(r, c)
  PROVE  ContractInv'
<1>1. OthersAsWere(c) /\ UNCHANGED <<index, accepted, facts_confirmed, created>>
  BY StartIsLocal DEF Start, StartUpload, StartNotice, StartDelete, record
<1>2. HasChunks(c)' = HasChunks(c)
  BY <1>1 DEF HasChunks, SeqElements
<1>3. c \in live /\ c \in created /\ \A q \in Requests : request[q].case # c
  BY DEF Start, StartUpload, StartNotice, StartDelete, Admitted, TypeOK
<1>4. \A n : <<c, n>> \in index' => HasChunks(c)'
  BY <1>1, <1>2, <1>3 DEF ContractInv, IndexedHasChunks
<1>5. OthersUntouched(r) /\ RequestFindsItsCase(r)'
  <2>. USE DEF TypeOK, RequestFindsItsCase, Generating
  <2>1. ASSUME NEW f \in Files, StartUpload(r, c, f)
        PROVE  OthersUntouched(r) /\ RequestFindsItsCase(r)'
    BY <1>3, <2>1 DEF StartUpload, RequestOK, OthersUntouched, Idle
  <2>2. CASE StartNotice(r, c) /\ legal_indexed
    <3>1. Combine(r, c) /\ facts_confirmed[c] /\ UNCHANGED live
      BY <2>2 DEF StartNotice, Ready
    <3>. QED  BY <1>1, <1>2, <1>3, <3>1, CombineEffect, CombineGoes
  <2>3. CASE StartNotice(r, c) /\ ~legal_indexed
    <3>1. facts_confirmed[c] /\ UNCHANGED live
      BY <2>3 DEF StartNotice, Ready
    <3>. DEFINE pc == IF legal_index_lock = <<>> THEN "legal" ELSE "waiting"
    <3>2. request' = [request EXCEPT ![r] = [Idle EXCEPT !.case = c, !.pc = pc]]
      BY <2>3 DEF StartNotice
    <3>3. pc \in {"legal", "waiting"}
      OBVIOUS
    <3>. HIDE DEF pc
    <3>4. OthersUntouched(r) /\ request'[r].pc = pc /\ request'[r].case = c
      BY <3>2 DEF RequestOK, Idle, OthersUntouched
    <3>. QED  BY <1>1, <1>3, <3>1, <3>3, <3>4
  <2>4. CASE StartDelete(r, c)
    BY <2>4, PurgeStepEffect DEF StartDelete
  <2>. QED  BY <2>1, <2>2, <2>3, <2>4 DEF Start
<1>6. /\ {r} \in SUBSET Requests
      /\ \A q \in Requests \ {r} :
           request'[q] = request[q] /\ (request[q].case # c \/ request[q].pc = "idle")
      /\ \A q \in {r} : RequestFindsItsCase(q)'
  BY <1>3, <1>5 DEF OthersUntouched
<1>7. c \in created'
  BY <1>1, <1>3
<1>. QED  BY <1>1, <1>4, <1>6, <1>7, ContractKept

LEMMA AdvanceContractOK ==
  ASSUME TypeOK, TypeOK', ErasureInv, ContractInv, NEW r \in Requests, Advance(r)
  PROVE  ContractInv'
<1>0. PICK c \in Cases : c = request[r].case
  BY AdvanceIsLocal
<1>1. /\ OthersAsWere(c) /\ request[r].pc # "idle" /\ c \in created /\ c \in Cases
      /\ UNCHANGED created /\ RequestOK
  BY <1>0, AdvanceIsLocal DEF TypeOK
<1>2. RequestFindsItsCase(r) /\ \A q \in Requests \ {r} : request[q].case # c
  BY <1>0, <1>1 DEF ContractInv, ErasureInv, OnePerCase
<1>3. ASSUME OthersUntouched(r), RequestFindsItsCase(r)',
             \A n : <<c, n>> \in index' /\ c \in live' => HasChunks(c)'
      PROVE  ContractInv'
  <2>1. /\ {r} \in SUBSET Requests /\ c \in created'
        /\ \A q \in Requests \ {r} :
             request'[q] = request[q] /\ (request[q].case # c \/ request[q].pc = "idle")
        /\ \A q \in {r} : RequestFindsItsCase(q)'
    BY <1>1, <1>2, <1>3 DEF OthersUntouched
  <2>. QED  BY <1>1, <1>3, <2>1, ContractKept
<1>4. ASSUME NEW safe \in BOOLEAN, CommitEvidence(r, safe)
      PROVE  ContractInv'
  <2>1. OthersUntouched(r) /\ request'[r].pc = "idle" /\ UNCHANGED <<index, live>>
    BY <1>1, <1>4, FinishEffect DEF CommitEvidence
  <2>2. RequestFindsItsCase(r)'
    BY <2>1 DEF RequestFindsItsCase, Generating
  <2>3. HasChunks(c) => HasChunks(c)'
    <3>. DEFINE s == accepted[c]
                t == accepted'[c]
                f == request[r].file
    <3>1. s \in Seq(Files) /\ f \in Files
      BY <1>1, <1>4 DEF CommitEvidence, TypeOK, RecordOK, RequestOK
    <3>2. t = s \/ t = Append(s, f)
      BY <1>0, <1>1, <1>4 DEF CommitEvidence, TypeOK, RecordOK
    <3>. HIDE DEF s, t, f
    <3>3. \A i \in DOMAIN s : i \in DOMAIN t /\ t[i] = s[i]
      BY <3>1, <3>2, AppendProperties, LenProperties
    <3>. QED  BY <3>3 DEF HasChunks, SeqElements, s, t
  <2>4. \A n : <<c, n>> \in index' /\ c \in live' => HasChunks(c)'
    BY <2>1, <2>3 DEF ContractInv, IndexedHasChunks
  <2>. QED  BY <1>3, <2>1, <2>2, <2>4
<1>5. ASSUME UNCHANGED accepted,
             OthersUntouched(r), RequestFindsItsCase(r)',
             \A n : <<c, n>> \in index' /\ c \in live' => <<c, n>> \in index \/ HasChunks(c),
             live' = live
      PROVE  ContractInv'
  <2>1. HasChunks(c)' = HasChunks(c)
    BY <1>5 DEF HasChunks, SeqElements
  <2>2. \A n : <<c, n>> \in index' /\ c \in live' => HasChunks(c)'
    BY <1>5, <2>1 DEF ContractInv, IndexedHasChunks
  <2>. QED  BY <1>3, <1>5, <2>2
<1>6. CASE \/ UploadEnds(r) \/ LegalCorpusFails(r) \/ ClearEmptyDocument(r) \/ ComposeNotice(r)
           \/ NoticeFails(r) \/ PurgeFails(r)
  <2>1. /\ OthersUntouched(r) /\ request'[r].pc = "idle" /\ index' \subseteq index
        /\ UNCHANGED <<live, accepted>>
    BY <1>1, <1>6, FinishEffect
    DEF UploadEnds, LegalCorpusFails, ClearEmptyDocument, ComposeNotice, NoticeFails,
        PurgeFails, record
  <2>2. RequestFindsItsCase(r)'
    BY <2>1 DEF RequestFindsItsCase, Generating
  <2>. QED  BY <1>5, <2>1, <2>2
<1>7. CASE AcquireLegalLock(r) \/ LegalCorpusIndexed(r)
  <2>1. /\ UNCHANGED <<live, accepted, facts_confirmed, index>>
        /\ c \in live /\ facts_confirmed[c]
    BY <1>0, <1>2, <1>7 DEF AcquireLegalLock, LegalCorpusIndexed, record, RequestFindsItsCase,
                      Generating
  <2>2. HasChunks(c)' = HasChunks(c)
    BY <2>1 DEF HasChunks, SeqElements
  <2>3. CASE Combine(r, c)
    <3>1. /\ OthersUntouched(r) /\ request'[r].case = c
          /\ request'[r].pc = IF HasChunks(c) THEN "indexing" ELSE "clearing"
      BY <1>1, <2>3, CombineEffect, CombineGoes
    <3>2. RequestFindsItsCase(r)'
      BY <2>1, <2>2, <3>1 DEF RequestFindsItsCase, Generating
    <3>. QED  BY <1>5, <2>1, <3>1, <3>2
  <2>4. CASE Goto(r, "legal")
    <3>1. OthersUntouched(r) /\ request'[r].case = c /\ request'[r].pc = "legal"
      BY <1>0, <1>1, <2>4, GotoEffect
    <3>2. RequestFindsItsCase(r)'
      BY <2>1, <3>1 DEF RequestFindsItsCase, Generating
    <3>. QED  BY <1>5, <2>1, <3>1, <3>2
  <2>. QED  BY <1>0, <1>7, <2>3, <2>4 DEF AcquireLegalLock, LegalCorpusIndexed
<1>8. CASE BeginIngest(r) \/ StoreEvidence(r) \/ RecordIndexed(r) \/ RetrieveEvidence(r)
  <2>1. /\ UNCHANGED <<live, accepted, facts_confirmed>> /\ OthersUntouched(r)
        /\ request'[r].case = c /\ request'[r].doc = request[r].doc
    BY <1>0, <1>1, <1>8, GotoEffect
       DEF BeginIngest, StoreEvidence, RecordIndexed, RetrieveEvidence, record
  <2>2. /\ \/ request[r].pc = "receiving" /\ request'[r].pc = "ingesting"
           \/ request[r].pc = "indexing" /\ request'[r].pc = "stored"
           \/ request[r].pc = "stored" /\ request'[r].pc = "retrieving"
           \/ /\ request[r].pc = "retrieving" /\ request'[r].pc = "composing"
              /\ <<c, request[r].doc>> \in index
        /\ \/ UNCHANGED index
           \/ request[r].pc = "indexing" /\ index' = index \cup {<<c, request[r].doc>>}
    BY <1>0, <1>1, <1>8, GotoEffect
       DEF BeginIngest, StoreEvidence, RecordIndexed, RetrieveEvidence, record
  <2>3. HasChunks(c)' = HasChunks(c)
    BY <2>1 DEF HasChunks, SeqElements
  <2>4. RequestFindsItsCase(r)'
    BY <1>0, <1>2, <2>1, <2>2, <2>3 DEF RequestFindsItsCase, Generating
  <2>5. \A n : <<c, n>> \in index' /\ c \in live' => <<c, n>> \in index \/ HasChunks(c)
    BY <1>0, <1>2, <2>2 DEF RequestFindsItsCase
  <2>. QED  BY <1>5, <2>1, <2>4, <2>5
<1>9. CASE PurgeDocument(r) \/ PurgeNext(r)
  <2>1. /\ UNCHANGED <<live, accepted>> /\ OthersUntouched(r) /\ index' \subseteq index
        /\ request'[r].pc \in {"purging", "purged", "idle"}
    BY <1>0, <1>1, <1>9, GotoEffect, PurgeStepEffect DEF PurgeDocument, PurgeNext, record
  <2>2. RequestFindsItsCase(r)'
    BY <2>1 DEF RequestFindsItsCase, Generating
  <2>. QED  BY <1>5, <2>1, <2>2
<1>. QED  BY <1>4, <1>6, <1>7, <1>8, <1>9 DEF Advance

LEMMA NextContractOK ==
  ASSUME OneAtATime
  PROVE  TypeOK /\ TypeOK' /\ ErasureInv /\ ContractInv /\ [Next]_vars => ContractInv'
<1>. SUFFICES ASSUME TypeOK, TypeOK', ErasureInv, ContractInv, [Next]_vars
              PROVE  ContractInv'
  OBVIOUS
<1>1. CASE Restart
  BY <1>1 DEF Restart, Idle, ContractInv, RequestFindsItsCase, Generating, FreshCases,
              IndexedHasChunks
<1>2. CASE UNCHANGED vars
  BY <1>2 DEF vars, record, ContractInv, RequestFindsItsCase, FreshCases, IndexedHasChunks,
              HasChunks, SeqElements
<1>. QED  BY <1>1, <1>2, EditContractOK, StartContractOK, AdvanceContractOK DEF Next

-----------------------------------------------------------------------------
(* Steps of the contract, as a step of the service shows them. *)

LEMMA StageIs ==
  ASSUME TypeOK, ErasedAtRest, NEW c \in Cases
  PROVE  /\ c \notin created => Stage[c] = "absent"
         /\ c \in acknowledged => Stage[c] = "erased"
         /\ c \in created \ (live \cup acknowledged) => Stage[c] = "withdrawn"
         /\ c \in live /\ notice[c] # None => Stage[c] = "drafted"
         /\ c \in live /\ notice[c] = None =>
              Stage[c] = IF facts_confirmed[c] THEN "reviewed" ELSE "open"
BY DEF TypeOK, ErasedAtRest, Stage

LEMMA StageIsAfter ==
  ASSUME TypeOK', ErasedAtRest', NEW c \in Cases
  PROVE  /\ c \notin created' => Stage'[c] = "absent"
         /\ c \in acknowledged' => Stage'[c] = "erased"
         /\ c \in created' \ (live' \cup acknowledged') => Stage'[c] = "withdrawn"
         /\ c \in live' /\ notice'[c] # None => Stage'[c] = "drafted"
         /\ c \in live' /\ notice'[c] = None =>
              Stage'[c] = IF facts_confirmed'[c] THEN "reviewed" ELSE "open"
BY DEF TypeOK, ErasedAtRest, Stage

\* A live case is in a live stage.
LEMMA LiveStage ==
  ASSUME TypeOK, ErasedAtRest, NEW c \in Cases, c \in live
  PROVE  /\ Stage[c] \in Contract!Live
         /\ facts_confirmed[c] => Stage[c] \in {"reviewed", "drafted"}
BY StageIs DEF Contract!Live, TypeOK, RecordOK

\* A case that is as it was looks as it did.
LEMMA LooksAsItDid ==
  ASSUME NEW d \in Cases, CaseAsWas(d), TypeOK, TypeOK'
  PROVE  /\ Stage'[d] = Stage[d] /\ Typed'[d] = Typed[d] /\ HandedIn'[d] = HandedIn[d]
         /\ Held'[d] = Held[d]
<1>1. Stage'[d] = Stage[d]
  BY DEF CaseAsWas, Stage
<1>2. Typed'[d] = Typed[d] /\ HandedIn'[d] = HandedIn[d]
  BY DEF CaseAsWas, Typed, HandedIn
<1>3. Held'[d] = Held[d]
  <2>1. \A i \in index : i = <<i[1], i[2]>>
    BY DEF TypeOK
  <2>2. \A i \in index' : i = <<i[1], i[2]>>
    BY DEF TypeOK
  <2>3. (\E i \in index' : i[1] = d) <=> (\E i \in index : i[1] = d)
    BY <2>1, <2>2 DEF CaseAsWas
  <2>. QED  BY <2>3 DEF Held
<1>. QED  BY <1>1, <1>2, <1>3

LEMMA OthersLookAsTheyDid ==
  ASSUME TypeOK, TypeOK', NEW c \in Cases, OthersAsWere(c)
  PROVE  /\ Stage' = [Stage EXCEPT ![c] = Stage'[c]]
         /\ Held' = [Held EXCEPT ![c] = Held'[c]]
         /\ \A d \in Cases \ {c} : Typed'[d] = Typed[d] /\ HandedIn'[d] = HandedIn[d]
<1>1. \A d \in Cases \ {c} : /\ Stage'[d] = Stage[d] /\ Typed'[d] = Typed[d]
                             /\ HandedIn'[d] = HandedIn[d] /\ Held'[d] = Held[d]
  BY LooksAsItDid DEF OthersAsWere
<1>2. Stage = [d \in Cases |-> Stage[d]] /\ Stage' = [d \in Cases |-> Stage'[d]]
  BY DEF Stage
<1>3. Held = [d \in Cases |-> Held[d]] /\ Held' = [d \in Cases |-> Held'[d]]
  BY DEF Held
<1>4. Stage' = [Stage EXCEPT ![c] = Stage'[c]]
  BY <1>1, <1>2
<1>5. Held' = [Held EXCEPT ![c] = Held'[c]]
  BY <1>1, <1>3
<1>. QED  BY <1>1, <1>4, <1>5

\* Steps that leave the record, the lives and the index alone show nothing.
LEMMA Unseen ==
  ASSUME UNCHANGED <<created, live, facts, facts_confirmed, accepted, refused, notice, answered,
                     index, acknowledged>>
  PROVE  UNCHANGED Contract!vars
<1>1. Stage' = Stage
  BY DEF Stage
<1>2. Typed' = Typed /\ HandedIn' = HandedIn
  BY DEF Typed, HandedIn
<1>3. Held' = Held
  BY DEF Held
<1>. QED  BY <1>1, <1>2, <1>3 DEF Contract!vars, Contract!material

LEMMA HeldAsItWas ==
  ASSUME UNCHANGED index
  PROVE  Held' = Held
BY DEF Held

\* The steps about one case.
LEMMA RevisesOrReviews ==
  ASSUME TypeOK, TypeOK', ErasedAtRest, ErasedAtRest', NEW c \in Cases, OthersAsWere(c),
         c \in live, c \in live', UNCHANGED index, notice'[c] = None
  PROVE  /\ ~facts_confirmed'[c] => Contract!Revise(c)
         /\ facts_confirmed'[c] /\ HandedIn' = HandedIn => Contract!Review(c)
<1>1. /\ Stage[c] \in Contract!Live
      /\ Stage'[c] = IF facts_confirmed'[c] THEN "reviewed" ELSE "open"
      /\ Held' = Held
  BY LiveStage, StageIsAfter, HeldAsItWas
<1>2. /\ Stage' = [Stage EXCEPT ![c] = Stage'[c]]
      /\ \A d \in Cases \ {c} : Typed'[d] = Typed[d] /\ HandedIn'[d] = HandedIn[d]
  BY OthersLookAsTheyDid
<1>. QED  BY <1>1, <1>2
          DEF Contract!Revise, Contract!Review, Contract!OnlyMaterialOf, Contract!OnlyTypedOf

LEMMA EditImplements ==
  ASSUME TypeOK, TypeOK', ErasureInv, ErasureInv', ContractInv, NEW c \in Cases, Edit(c)
  PROVE  Contract!Next \/ UNCHANGED Contract!vars
<1>0. OthersAsWere(c) /\ UNCHANGED <<index, acknowledged>> /\ ErasedAtRest /\ ErasedAtRest'
  BY EditIsLocal DEF Edit, CreateCase, AddMessage, UpdateFacts, ErasureInv
<1>1. CASE CreateCase(c)
  <2>1. /\ c \notin created /\ c \in live' /\ notice'[c] = None /\ ~facts_confirmed'[c]
    BY <1>1 DEF CreateCase, record, ContractInv, FreshCases
  <2>2. Stage[c] = "absent" /\ Stage'[c] = "open" /\ Held' = Held
    BY <1>0, <2>1, StageIs, StageIsAfter, HeldAsItWas
  <2>3. Contract!Open(c)
    BY <1>0, <2>2, OthersLookAsTheyDid
       DEF Contract!Open, Contract!OnlyMaterialOf, Contract!OnlyTypedOf
  <2>. QED  BY <2>3 DEF Contract!Next
<1>2. ASSUME NEW key, NEW m, AddMessage(c, key, m)
      PROVE  Contract!Next
  <2>1. c \in live /\ c \in live' /\ notice'[c] = None /\ ~facts_confirmed'[c]
    BY <1>2 DEF AddMessage, Reopen, TypeOK, RecordOK
  <2>2. Contract!Revise(c)
    BY <1>0, <2>1, RevisesOrReviews
  <2>. QED  BY <2>2 DEF Contract!Next
<1>3. ASSUME NEW p, NEW ask, UpdateFacts(c, p, ask)
      PROVE  Contract!Next \/ UNCHANGED Contract!vars
  <2>1. /\ c \in live /\ UNCHANGED <<created, live, accepted, refused, answered>>
    BY <1>3 DEF UpdateFacts
  <2>2. CASE notice'[c] = None
    <3>1. HandedIn' = HandedIn
      BY <2>1 DEF HandedIn
    <3>2. Contract!Revise(c) \/ Contract!Review(c)
      BY <1>0, <2>1, <2>2, <3>1, RevisesOrReviews
    <3>. QED  BY <3>2 DEF Contract!Next
  <2>3. CASE notice'[c] # None
    <3>1. facts' = facts /\ notice' = notice
      BY <1>3, <2>3 DEF UpdateFacts, NoticeAfter, TypeOK, RecordOK
    <3>2. Typed' = Typed /\ HandedIn' = HandedIn /\ Held' = Held
      BY <1>0, <2>1, <3>1, HeldAsItWas DEF Typed, HandedIn
    <3>3. Stage'[c] = Stage[c]
      BY <1>0, <2>1, <2>3, <3>1, StageIs, StageIsAfter
    <3>4. Stage' = Stage
      <4>1. Stage' = [Stage EXCEPT ![c] = Stage'[c]]
        BY <1>0, OthersLookAsTheyDid
      <4>. QED  BY <3>3, <4>1 DEF Stage
    <3>. QED  BY <3>2, <3>4 DEF Contract!vars, Contract!material
  <2>. QED  BY <2>2, <2>3
<1>. QED  BY <1>1, <1>2, <1>3 DEF Edit

LEMMA StartImplements ==
  ASSUME OneAtATime, TypeOK, TypeOK', ErasureInv, ErasureInv', LiveDocumentsTracked,
         NEW r \in Requests, NEW c \in Cases, Start(r, c)
  PROVE  Contract!Next \/ UNCHANGED Contract!vars
<1>1. CASE StartNotice(r, c) \/ \E f \in Files : StartUpload(r, c, f)
  BY <1>1, Unseen DEF StartNotice, StartUpload, record
<1>2. CASE StartDelete(r, c)
  <2>0. /\ OthersAsWere(c) /\ ErasedAtRest /\ ErasedAtRest' /\ UNCHANGED <<created, index>>
        /\ c \in live /\ c \notin live' /\ c \in created
    BY <1>2, StartIsLocal DEF Start, StartDelete, ErasureInv, TypeOK
  <2>1. /\ Stage' = [Stage EXCEPT ![c] = Stage'[c]] /\ Held' = Held
        /\ \A d \in Cases \ {c} : Typed'[d] = Typed[d] /\ HandedIn'[d] = HandedIn[d]
        /\ Stage[c] \in Contract!Live
    BY <2>0, OthersLookAsTheyDid, HeldAsItWas, LiveStage
  <2>2. CASE c \in acknowledged'
    <3>1. indexed_document_ids[c] = {}
      BY <1>2, <2>0, <2>2, PurgeStepEffect DEF StartDelete, TypeOK, ErasedAtRest
    <3>2. \A d \in index : d[1] # c
      BY <1>2, <2>0, <3>1 DEF LiveDocumentsTracked, StartDelete, Admitted
    <3>3. ~Held[c]
      BY <3>2 DEF Held
    <3>4. Stage'[c] = "erased"
      BY <2>0, <2>2, StageIsAfter
    <3>5. Contract!Acknowledge(c)
      BY <2>1, <3>3, <3>4
         DEF Contract!Acknowledge, Contract!OnlyMaterialOf, Contract!OnlyTypedOf
    <3>. QED  BY <3>5 DEF Contract!Next
  <2>3. CASE c \notin acknowledged'
    <3>1. Stage'[c] = "withdrawn"
      BY <2>0, <2>3, StageIsAfter
    <3>2. Stage' = [d \in Cases |-> IF d \in {c} THEN "withdrawn" ELSE Stage[d]]
      <4>1. DOMAIN Stage = Cases
        BY DEF Stage
      <4>. QED  BY <2>1, <3>1, <4>1
    <3>3. Contract!Withdraw({c})
      BY <2>1, <3>2 DEF Contract!Withdraw, Contract!OnlyMaterialOf, Contract!OnlyTypedOf
    <3>4. {c} \in SUBSET Cases
      OBVIOUS
    <3>. QED  BY <3>3, <3>4 DEF Contract!Next
  <2>. QED  BY <2>2, <2>3
<1>. QED  BY <1>1, <1>2 DEF Start

LEMMA AdvanceImplements ==
  ASSUME TypeOK, TypeOK', ErasureInv, ErasureInv', ContractInv, NEW r \in Requests, Advance(r)
  PROVE  Contract!Next \/ UNCHANGED Contract!vars
<1>0. PICK c \in Cases : c = request[r].case
  BY AdvanceIsLocal
<1>1. /\ OthersAsWere(c) /\ c \in created /\ UNCHANGED created /\ RequestFindsItsCase(r)
      /\ ErasedAtRest /\ ErasedAtRest' /\ c \notin acknowledged
  BY <1>0, AdvanceIsLocal DEF ContractInv, ErasureInv, ErasedAtRest
<1>2. /\ Stage' = [Stage EXCEPT ![c] = Stage'[c]] /\ Held' = [Held EXCEPT ![c] = Held'[c]]
      /\ \A d \in Cases \ {c} : Typed'[d] = Typed[d] /\ HandedIn'[d] = HandedIn[d]
      /\ DOMAIN Stage = Cases /\ DOMAIN Held = Cases
      /\ Stage = [d \in Cases |-> Stage[d]] /\ Held = [d \in Cases |-> Held[d]]
  <2>1. /\ DOMAIN Stage = Cases /\ Stage = [d \in Cases |-> Stage[d]]
        /\ DOMAIN Held = Cases /\ Held = [d \in Cases |-> Held[d]]
    BY DEF Stage, Held
  <2>. QED  BY <1>1, <2>1, OthersLookAsTheyDid
<1>3. CASE \/ BeginIngest(r) \/ UploadEnds(r) \/ AcquireLegalLock(r) \/ LegalCorpusIndexed(r)
           \/ LegalCorpusFails(r) \/ RecordIndexed(r) \/ RetrieveEvidence(r)
           \/ NoticeFails(r) \/ PurgeFails(r)
  <2>1. UNCHANGED <<created, live, facts, facts_confirmed, accepted, refused, notice, answered,
                    index, acknowledged>>
    BY <1>3 DEF BeginIngest, UploadEnds, AcquireLegalLock, LegalCorpusIndexed,
                LegalCorpusFails, RecordIndexed, RetrieveEvidence, NoticeFails, PurgeFails, record
  <2>. QED  BY <2>1, Unseen
<1>4. ASSUME NEW safe \in BOOLEAN, CommitEvidence(r, safe)
      PROVE  Contract!Next
  <2>1. /\ c \in live /\ c \in live' /\ UNCHANGED index
        /\ notice'[c] = None /\ ~facts_confirmed'[c]
    BY <1>0, <1>1, <1>4 DEF CommitEvidence, Reopen, RequestFindsItsCase, TypeOK, RecordOK
  <2>2. Contract!Revise(c)
    BY <1>1, <2>1, RevisesOrReviews
  <2>. QED  BY <2>2 DEF Contract!Next
<1>5. CASE ClearEmptyDocument(r)
  \* There is nothing to clear: the case never had text.
  <2>1. /\ c \in live /\ ~HasChunks(c) /\ index' = index \ {<<c, request[r].doc>>}
    BY <1>0, <1>1, <1>5 DEF ClearEmptyDocument, RequestFindsItsCase, Generating
  <2>2. <<c, request[r].doc>> \notin index
    BY <2>1 DEF ContractInv, IndexedHasChunks
  <2>3. UNCHANGED <<created, live, facts, facts_confirmed, accepted, refused, notice, answered,
                    index, acknowledged>>
    BY <1>5, <2>1, <2>2 DEF ClearEmptyDocument, record
  <2>. QED  BY <2>3, Unseen
<1>6. CASE StoreEvidence(r)
  <2>1. /\ c \in live /\ facts_confirmed[c] /\ <<c, request[r].doc>> \in index'
        /\ UNCHANGED <<live, record, acknowledged>>
    BY <1>0, <1>1, <1>6 DEF StoreEvidence, RequestFindsItsCase, Generating
  <2>2. Stage[c] \in {"reviewed", "drafted"}
    BY <1>1, <2>1, LiveStage
  <2>3. Held'[c] = TRUE
    BY <2>1 DEF Held
  <2>4. Stage' = Stage /\ Typed' = Typed /\ HandedIn' = HandedIn
    BY <1>1, <2>1 DEF Stage, Typed, HandedIn, record
  <2>5. Contract!Index(c)
    BY <1>2, <2>2, <2>3, <2>4 DEF Contract!Index, Contract!material
  <2>. QED  BY <2>5 DEF Contract!Next
<1>7. CASE ComposeNotice(r)
  <2>1. /\ c \in live /\ c \in live' /\ facts_confirmed[c] /\ <<c, request[r].doc>> \in index
        /\ UNCHANGED <<live, facts, accepted, refused, answered, index>>
    BY <1>0, <1>1, <1>7 DEF ComposeNotice, RequestFindsItsCase, Generating
  <2>2. notice'[c] # None
    <3>1. notice'[c] = [facts |-> facts[c], doc |-> request[r].doc]
      BY <1>0, <1>7 DEF ComposeNotice, TypeOK, RecordOK
    <3>2. [facts |-> facts[c], doc |-> request[r].doc] \in Notices
      BY DEF TypeOK, RecordOK, RequestOK, Request, Notices
    <3>. QED  BY <3>1, <3>2, NoticeAssumption
  <2>3. Stage[c] \in {"reviewed", "drafted"} /\ Stage'[c] = "drafted"
    BY <1>1, <2>1, <2>2, LiveStage, StageIsAfter
  <2>4. Held[c] /\ Held' = Held /\ Typed' = Typed /\ HandedIn' = HandedIn
    BY <2>1 DEF Held, Typed, HandedIn
  <2>5. Contract!Draft(c)
    BY <1>2, <2>3, <2>4 DEF Contract!Draft, Contract!material
  <2>. QED  BY <2>5 DEF Contract!Next
<1>8. CASE PurgeDocument(r)
  <2>1. /\ c \notin live /\ UNCHANGED <<live, record, acknowledged>>
        /\ index' = index \ {<<c, request[r].doc>>}
    BY <1>0, <1>8 DEF PurgeDocument, ErasureInv, PurgeCovers
  <2>2. Stage[c] = "withdrawn" /\ Stage' = Stage /\ Typed' = Typed /\ HandedIn' = HandedIn
    <3>1. Stage[c] = "withdrawn"
      BY <1>1, <2>1, StageIs
    <3>2. Stage' = Stage /\ Typed' = Typed /\ HandedIn' = HandedIn
      BY <1>1, <2>1 DEF Stage, Typed, HandedIn, record
    <3>. QED  BY <3>1, <3>2
  <2>3. CASE Held'[c] = Held[c]
    <3>1. Held' = Held
      BY <1>2, <2>3
    <3>. QED  BY <2>2, <3>1 DEF Contract!vars, Contract!material
  <2>4. CASE Held'[c] # Held[c]
    <3>1. Held'[c] = FALSE
      <4>1. Held'[c] => Held[c]
        BY <2>1 DEF Held
      <4>2. Held[c] \in BOOLEAN /\ Held'[c] \in BOOLEAN
        BY Zenon DEF Held
      <4>. QED  BY <2>4, <4>1, <4>2
    <3>2. Contract!Purge(c)
      BY <1>2, <2>2, <3>1 DEF Contract!Purge, Contract!material
    <3>. QED  BY <3>2 DEF Contract!Next
  <2>. QED  BY <2>3, <2>4
<1>9. CASE PurgeNext(r)
  <2>1. /\ request[r].pc = "purged" /\ c \notin live /\ UNCHANGED <<live, record, index>>
    BY <1>0, <1>9 DEF PurgeNext, ErasureInv, PurgeCovers
  <2>2. CASE c \in acknowledged'
    <3>1. request[r].rest = {}
      BY <1>0, <1>1, <1>9, <2>2, PurgeStepEffect DEF PurgeNext, TypeOK
    <3>2. ~Held[c]
      BY <1>0, <2>1, <3>1 DEF Held, ErasureInv, PurgeCovers
    <3>3. Stage[c] = "withdrawn" /\ Stage'[c] = "erased"
      BY <1>1, <2>1, <2>2, StageIs, StageIsAfter
    <3>4. Held' = Held
      BY <2>1, HeldAsItWas
    <3>5. Contract!Acknowledge(c)
      BY <1>2, <3>2, <3>3, <3>4
         DEF Contract!Acknowledge, Contract!OnlyMaterialOf, Contract!OnlyTypedOf
    <3>. QED  BY <3>5 DEF Contract!Next
  <2>3. CASE c \notin acknowledged'
    <3>1. UNCHANGED acknowledged
      BY <1>0, <1>9, <2>3, PurgeStepEffect DEF PurgeNext, TypeOK
    <3>. QED  BY <1>1, <2>1, <3>1, Unseen DEF record
  <2>. QED  BY <2>2, <2>3
<1>. QED  BY <1>3, <1>4, <1>5, <1>6, <1>7, <1>8, <1>9 DEF Advance

\* A restart withdraws every live case at once.
LEMMA RestartImplements ==
  ASSUME TypeOK, TypeOK', ErasureInv, ErasureInv', Restart
  PROVE  Contract!Next \/ UNCHANGED Contract!vars
<1>1. /\ ErasedAtRest /\ ErasedAtRest' /\ live' = {} /\ UNCHANGED <<created, index, acknowledged>>
      /\ live \subseteq Cases /\ live \subseteq created
  BY DEF Restart, ErasureInv, TypeOK
<1>2. \A c \in Cases : Stage'[c] = IF c \in live THEN "withdrawn" ELSE Stage[c]
  <2>. SUFFICES ASSUME NEW c \in Cases
                PROVE  Stage'[c] = IF c \in live THEN "withdrawn" ELSE Stage[c]
    OBVIOUS
  <2>. QED  BY <1>1, StageIs, StageIsAfter DEF ErasedAtRest
<1>3. Stage' = [c \in Cases |-> IF c \in live THEN "withdrawn" ELSE Stage[c]]
  <2>1. Stage' = [c \in Cases |-> Stage'[c]]
    BY DEF Stage
  <2>. QED  BY <1>2, <2>1
<1>4. \A d \in Cases \ live : Typed'[d] = Typed[d] /\ HandedIn'[d] = HandedIn[d]
  BY <1>1 DEF Typed, HandedIn
<1>5. Held' = Held
  BY <1>1, HeldAsItWas
<1>6. CASE live # {}
  <2>1. \A c \in live : Stage[c] \in Contract!Live
    BY <1>1, LiveStage
  <2>2. Contract!Withdraw(live)
    BY <1>3, <1>4, <1>5, <1>6, <2>1
       DEF Contract!Withdraw, Contract!OnlyMaterialOf, Contract!OnlyTypedOf
  <2>. QED  BY <1>1, <2>2 DEF Contract!Next
<1>7. CASE live = {}
  <2>1. Stage' = Stage
    <3>1. Stage = [c \in Cases |-> Stage[c]]
      BY DEF Stage
    <3>. QED  BY <1>3, <1>7, <3>1
  <2>2. Typed' = Typed /\ HandedIn' = HandedIn
    BY <1>1, <1>7 DEF Typed, HandedIn
  <2>. QED  BY <1>5, <2>1, <2>2 DEF Contract!vars, Contract!material
<1>. QED  BY <1>6, <1>7

LEMMA InitImplements == Init => Contract!Init
<1>. SUFFICES ASSUME Init
              PROVE  Contract!Init
  OBVIOUS
<1>1. Stage = [c \in Cases |-> "absent"]
  BY DEF Init, Stage
<1>2. Held = [c \in Cases |-> FALSE]
  BY DEF Init, Held
<1>. QED  BY <1>1, <1>2 DEF Contract!Init

\* Every client waiting for its answers, the service implements the contract:
\* a draft is only made of material under review, whatever changes withdraws
\* the review and the draft, and what is erased is no longer held.
THEOREM ContractImplemented ==
  ASSUME OneAtATime
  PROVE  Spec => ImplementsContract
<1>1. Init => ErasureInv /\ ContractInv
  BY ConfigAssumption
  DEF Init, InitialRecord, Idle, ErasureInv, OnePerCase, ErasedAtRest, PurgeCovers,
      ErasedMeansErased, ContractInv, RequestFindsItsCase, Generating, FreshCases,
      IndexedHasChunks
<1>2. TypeOK /\ LiveDocumentsTracked /\ ErasureInv /\ [Next]_vars => ErasureInv'
  BY NextErasureOK
<1>3. TypeOK /\ TypeOK' /\ ErasureInv /\ ContractInv /\ [Next]_vars => ContractInv'
  BY NextContractOK
<1>4. /\ TypeOK /\ TypeOK' /\ LiveDocumentsTracked
      /\ ErasureInv /\ ErasureInv' /\ ContractInv /\ [Next]_vars
      => [Contract!Next]_(Contract!vars)
  <2>. SUFFICES ASSUME TypeOK, TypeOK', LiveDocumentsTracked, ErasureInv, ErasureInv',
                       ContractInv, [Next]_vars
                PROVE  Contract!Next \/ UNCHANGED Contract!vars
    OBVIOUS
  <2>1. CASE UNCHANGED vars
    BY <2>1, Unseen DEF vars, record
  <2>. QED  BY <2>1, EditImplements, StartImplements, AdvanceImplements, RestartImplements
            DEF Next
<1>. QED  BY <1>1, <1>2, <1>3, <1>4, InitImplements, TypeCorrect, TrackingCorrect, PTL
          DEF Spec, ImplementsContract, Contract!Spec
=============================================================================
