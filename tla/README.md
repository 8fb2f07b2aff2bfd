# Verification of the litigation-analysis service

TLA+ models, TLC configurations and TLAPS proofs for the Python service under
`src/app`: a FastAPI process that analyses uploaded lawsuits with a LangGraph
pipeline of agents, and helps a consumer to draft an extrajudicial notice from
a chat, a form and uploaded evidence. Line numbers refer to the source tree.

## 1. Inventory

The service is one process with one asyncio event loop. Handlers and tasks
interleave only at their awaits; work on disk and in the vector store runs in
threads (`asyncio.to_thread`) that a handler awaits.

| Component | State | Operations | Talks to |
|---|---|---|---|
| Consumer case service (`consumer/service.py`, `store.py`, `api/consumer_routes.py`) | in-memory cases (facts, confirmation, evidence, notice, answered message ids, indexed document ids); legal-corpus flag and lock | create, message, patch facts, add document, generate notice, delete | ingestion, security gate, RAG pipeline, settlement |
| Analysis job manager (`api/jobs.py`) | in-memory jobs and tasks, uploads on disk | submit, execute, poll, persist run | ingestion, graph, run store |
| Orchestration (`orchestration/graph.py`, `state.py`) | per-run `AnalysisState` with additive `errors` and `traces` | ten nodes, two conditional edges, two fan-outs, one join | gate, RAG, agents, composer |
| RAG pipeline and stores (`rag/`) | persistent Chroma collection, chunking version per document | index, replace, delete, query, hybrid fusion | embedder, reranker |
| Prompt-injection gate (`security/`) | none | scan (rules, balanced, strict), assess, mask | LLM |
| Agents (`agents/`, `prompts/`) | none | retrieve, prompt, parse | RAG, LLM |
| Intake, schemas, settlement, monetary (`consumer/`) | none | extract and merge facts, validate, price | - |
| Legal corpus and CDC snapshot (`consumer/legal_corpus.py`, `cdc_snapshot.py`, `update_cdc_snapshot.py`) | pinned texts and hashes | build provisions and chunks, refresh the snapshot | - |
| Run store (`observability/store.py`) | append-only JSONL file | append, list, totals | disk |
| Composer, citations, reporting | none | assemble, check quotes, render | - |
| Consumer page (`frontend/consumer_view.py`, `api_client.py`) | `st.session_state` of a browser: credentials, snapshot of the case, draft, widgets of the form | one request per button, a loop of uploads, reset, refresh | case service, over HTTP with time-outs |
| Analyst page (`frontend/streamlit_app.py`) | job id, report and error of the session; a polling fragment | upload, poll, fetch, download | job manager, over HTTP |
| Ingestion, OCR, LLM clients, enrichment, evaluation | none | adapters and metrics | libraries, HTTP |

Hard behaviours and what makes each component correct:

* **Case service.** `generate_notice` awaits the legal corpus, the embedding,
  the store and the retrieval, and every other request of the case may run in
  between (a client whose request timed out simply sends the next one).
  Correct: a notice is written from confirmed facts and states the facts of the
  record; references to evidence are backed; the corpus is indexed once; a
  deletion deletes the indexed text.
* **Jobs and graph.** Agents fail independently and in parallel; jobs share the
  index, where a document is named by its content; clients poll at any moment;
  the process may be killed or stopped. Correct: the outcome is what happened,
  nothing is analysed before the gate allows it, a flagged excerpt never reaches
  a prompt (it can, see `job_excerpt`), the board never contradicts itself, jobs
  end and uploads go unless the disk refuses.
* **Index.** Replacement is upsert, then delete of stale ids, in a thread;
  another replacement may run between the calls, and each of them may raise in a
  server that goes on. Correct: one replacement alone leaves exactly its chunks,
  also over what a failed one left; a searchable document stays searchable.
* **Run store.** A crash may cut an append anywhere. Correct: only records next
  to the damage are lost.
* **Gate and masks.** Rules, candidates, windows and budgets decide what the
  language model reads; quotes overlap and cross pages. Correct: exceeded
  budgets and failed reviews fail closed, what counts as reviewed was read, a
  review only adds, and no flagged text is indexed or shown.
* **Chunks, retrieval, context, report.** Correct: no text is lost between the
  chunks, chunks know their page and heading, the audit is what the prompt
  held, and a citation in a report can be followed back or is flagged.
* **Law.** Correct: every unit is where its citation says, what is not in force
  is not cited, and a server never gives out a release nobody reviewed, even
  when it starts while the maintainer's tool runs or after it was killed.
* **Notice.** Correct: grounds and citations are those that were found and can
  be looked up, amounts are the sum of what has a source.
* **Browser session.** Answers are lost and requests carried out late; some are
  carried out and answered with an error; a script is run again at any moment, also
  between two uploads; the service forgets everything at a restart.
  Correct: the page agrees with the service, shows no stale draft, counts
  nothing as confirmed that was not submitted, and does not leave a job
  unanswered.

`PROJECT.json` lists every component and every hazard at its line.

## 2. Modules

| Module | Models |
|---|---|
| `ConsumerCase` | the case service with its routes and store; requests are slots with a program counter, one action from one await to the next |
| `NoticeContract` | what a case promises the person: drafts only from reviewed material, erasure that erases |
| `MCConsumerCase` | small instances of `ConsumerCase` |
| `AnalysisJob` | job manager, LangGraph supersteps, gate routing, masking, run log |
| `JobContract` | what a polling client may rely on |
| `ConsumerSession` | the consumer page: `st.session_state`, its requests, their loss and delay, reruns |
| `AnalystPage` | the analyst's page: upload, polling fragment, report |
| `StreamlitApp` | both pages in one session and one service behind them |
| `MCStreamlitApp` | a small session |
| `InjectionGate` | `PromptInjectionDetector.scan` on texts: rules, candidates, batches, budgets, review, assessment |
| `SectionChunker` | masks and chunks (extends `InjectionGate`) |
| `AgentContext` | rankings, fusion, merging, the context with its audit, citation checks (extends `SectionChunker`) |
| `DocumentAnalysis` | one document from the scan to the report (extends `AgentContext`) |
| `CdcSnapshot` | the parser of the official page, the maintainer's tool, the start of a server |
| `LegalCorpus` | provisions, their chunks and the way back (extends `CdcSnapshot`) |
| `ConsumerNotice` | evidence, grounds, citations and settlement of one notice (extends `AgentContext`, `LegalCorpus`) |
| `Ordering` | a sort with a key, for rankings, masks and the history |
| `RunLog` | the JSONL file of runs |
| `ChunkStore` | replacement of a document in the vector stores, call by call |
| `TextService` | the five parts above as one service; `MCTextService` has its instances |
| `ConsumerCaseProofs` | effect lemmas of the helpers; types, legal lock, evidence references, the notice against the record; tracking of indexed documents, erasure; `ConsumerCase` implements `NoticeContract` |
| `AnalysisJobProofs` | types, gate, masking, board, outcome and run log of `AnalysisJob`; `AnalysisJob` implements `JobContract` |
| `StreamlitAppProofs` | the two pages against the service |
| `FoldLemmas` | what a fold reaches step by step, an induction on ranges of numbers, least and greatest numbers; instantiated once for each operator that is folded, so it extends as little as it can |
| `TextFileProofs` | the vector store, the release of the law, the history, the law that notices cite |
| `TextGateProofs` | the gate and its review |
| `TextAnalysisProofs` | masks, fusion, audit and report of an analysis |
| `TextSourceProofs` | the chunks of a document against its pages and headings; the sources and the settlement of a notice |

### ConsumerCase and the code

`create_case`, `add_message` and `update_facts` never await and are one action
each. The others are split:

| Handler | Actions (program counter after each) |
|---|---|
| `add_consumer_document`, `add_document` | `StartUpload` (receiving), `BeginIngest` (ingesting), `CommitEvidence` or `UploadEnds` (idle) |
| `generate_notice` | `StartNotice` (waiting, legal, indexing or clearing), `AcquireLegalLock`, `LegalCorpusIndexed` or `LegalCorpusFails`, `StoreEvidence` (stored: the thread wrote, the handler has not resumed), `RecordIndexed` (retrieving), `RetrieveEvidence` (composing), `ComposeNotice`; `ClearEmptyDocument` for evidence that yields no chunk; `NoticeFails` for every other error |
| `delete_case` | `StartDelete`, then `PurgeDocument` and `PurgeNext` per document, `PurgeFails` |

Requests that await keep a reference to the record they found, as the Python
objects do: an upload that ends after the case was deleted still appends to it.
`legal_index_lock` is the FIFO queue of `asyncio.Lock`. `Restart` forgets
everything in memory and keeps `index`. `Files` stand for file contents;
evidence is combined from an append-only list, so its length names the combined
document. Text values are abstract, amounts are numbers, `ScopedTexts` stands
for `is_consumer_scope`. Retrieval succeeds only when the chunks are there, and
may fail.

### AnalysisJob and the code

`job[j]` holds what the manager knows (`state`, stages, errors, report) and what
the graph does: `todo`, the nodes of the superstep still running; `ran`,
`writes`, `fails`, what they returned; `filled` and `graph_errors`, the merged
state. Nodes of one superstep run in any order and interleave with other jobs;
`Superstep` and `Finish` merge and pick the successors. The edges give a fixed
sequence of supersteps, since the join `[risk, strategy, enrich] -> compose` is
complete exactly when risk and strategy are. `Assessments` is what
`build_assessment` and `failed_scan_assessment` can return. `index[d]`
says whether the chunks of d, shared by all jobs on that content, show or mask the
suspicious excerpt. `mask_flagged_text` finds a quote only where one text has the
whole of it: in a document of `SplitDocs` the excerpt is split between two chunks,
and `ShowsFlagged` is a prompt of a job that flagged it in which both parts stand
(`exposed`). `RejectUpload` and `RemoveUpload` take the file away, or, when `unlink`
raises (`RemoveUploadFails`), leave it behind with a task that has failed
("undeleted"). `Shutdown` is the cancellation of all tasks: `except Exception` lets
it pass, `finally` logs the job and removes its file, either of which may fail.

### ConsumerSession, AnalystPage and the code

A Streamlit script runs from top to bottom at every interaction, so a handler
with its request is one action: `SendMessage`, `SubmitFacts`, `PickAmount`,
`StartUploads`/`UploadNext`/`FinishUploads`, `Generate`, `Refresh`, `Delete`,
`StartCase`. Each ends with `st.rerun`, and `Render` is the next run of the
script. `ui` is `st.session_state`; `ui.form` are the widgets, which Streamlit
drops when a run does not draw them (`WithoutForm`). A request is carried out
and answered; refused, or failed, with nothing changed; carried out and answered
with an error (`ServeUnheard`: a DELETE whose purge raises after the record is gone,
an upload whose temporary file cannot be removed, any answer that cannot be read); or
lost: a lost one is in `late` and may reach the service at any later moment
(`ServeLate`) or never. `service` is what the clients of `ConsumerCase` see, one
operation per request; `Admitted` is what the service asks before it takes a call
up, and a call taken up may fail all the same, as a draft for want of chunks,
grounds or amounts that add up. `InterruptUploads` is an interaction during the loop
of uploads: Streamlit stops the script at the first element it writes after the
answer, before `_store_case`, so that what was uploaded is not in the session. An
interaction during any other request waits likewise for its answer, and then for
the rerun the handler asks for, so it is one at `Render`. `missed`, in `faults`, is
bookkeeping for the properties: the service may have changed the case, or the draft,
of the session without the session hearing of it. On the analyst's page
`fragment` is `poll_analysis`, between its two requests when it is `fetching`;
any interaction stops it. `RestartBackend` forgets cases and jobs alike.

### The text modules and the code

A document is a sequence of pages, a page a sequence of characters of four
kinds: letters, the capital of a heading, the end of a sentence, a blank line.
`marks` says where instructions are, in which disguise and how severe: this is
all that the regular expressions and decoders of the rules contribute, and
`FoundBy` says where each disguise lets the code see it. A suspicious sentence has
one passage, around the first words and the first marker in it; what else is in a
long sentence is not read, and the document `Spread` is such a one. Everything after that
follows the code on positions: the focused passage of a long sentence, windows
and their overlap, batches by size, the order in which quotes are masked, hard
splits, the tail that a chunk hands on, the RRF score (with a common denominator
in place of fractions), the budget of the context. Claims of the language model
and scores of searches are inputs. A character in a chunk is its position in
the document, so that `ChunksLocateText` and `FlaggedQuotesAreMasked` can ask
where each came from.

A page of the law is a sequence of paragraphs with what the parser's patterns
tell of each. `ParseParagraph` is the loop of `parse_cdc_html`, `AddUnit` that of
`_build_units`. `HeadingAbove` and `UnitAbove` in `LegalCorpus` read the same page
without the parser, by looking upward from a paragraph; `LawIsLocated` compares.
Hashes of files are the files. `law.server` is a server that starts, one action
per file that it reads.

In `ConsumerNotice` amounts are integers in tenths of a cent, so that the rounding
of `_money` is seen. `RunLog` holds the file as pieces of records; `RunEnds` appends
a record or tears it anywhere. `ChunkStore` numbers the indexings of a document
and stores in each chunk which of them wrote it. A call of Chroma that raises
(`DeleteFails`, `ReadFails`, `UpsertFails`, `RemoveFails`) may have done any part of its
work: Chroma is not in the repository, and an upsert of a batch that does all or
nothing is one of the cases. A chunk of `SectionChunker` holds characters of the
document; the newlines between its pieces and the brackets and newline of its title,
which the code puts into the text without counting them towards the target, are its
`breaks`, and `LengthOf` is the length of what is stored, by which the budget of a
context goes too.

The parts of `TextService` share no state, save the notice and its law, so a
behaviour works on one of them (`part`, chosen in `ServiceInit`) and their
product is never built.

## 3. Runs

| Run | Specification | Shows |
|---|---|---|
| `case_races` | `FairSpec`, 1 case, 2 requests, 1 file, 8 patches, 3 messages, 1 restart | types, notice, references, lock and index stay consistent under any overlap, and every request ends |
| `case_contract` | `Spec`, 1 case, 1 request at a time, 2 files, 1 restart | refinement of `NoticeContract`, erasure |
| `case_draft_race` | 2 requests | **violated**: a draft from unconfirmed facts |
| `case_erase_race` | 2 requests | **violated**: evidence left after an acknowledged deletion |
| `case_ready` | 2 requests | **violated**: a ready case that cannot be priced |
| `analysis_job` | `FairSpec`, 1 job, 2 files (one without text), any faults, 1 restart | outcomes, gate, board, run log, polling contract; accepted jobs end, uploads go unless the disk refuses |
| `job_critical` | 1 job | **violated**: critical risk does not end as blocked |
| `job_excerpt` | 2 jobs, 1 file whose excerpt is split between chunks | **violated**: a flagged excerpt in a prompt |
| `streamlit_app` | `AppSpec`, 2 cases, 2 files, 2 jobs, 1 lost or untrue answer, 1 restart | the session agrees with the service, page by page |
| `text_service` | `ServiceSpec`, 19 documents, 905 pages of law, 264 cases, 4 runs, 3 indexings | the properties of the text modules |
| `store_failure` | `ServiceSpec`, the vector store only | **violated**: a failed replacement has overwritten old chunks |
| `evidence_citation` | `ServiceSpec`, notices only | **violated**: a citation of one file with the text of another |

Bounds. Handlers of different cases share only the legal lock and disjoint parts
of the index, so one case with two requests has every pairwise race, including
two at the lock; the proofs below cover any number of both. The patches set,
change and drop an amount with and without its reference, set the improper
payment above the loss, move the complaint out of scope and confirm. Two files
tell evidence with chunks from evidence without. A job meets another one only in
the index, on which neither its outcome nor what a client sees of it depends:
`analysis_job` has one job, with all the faults it can meet (twelve are more than any run of it
has), so that any parallel branches fail together, and `job_excerpt` has two jobs on
one file. One restart is enough to lose memory and keep the disk at every point of a
run.

In `streamlit_app` a case takes up to five updates, which is a whole journey (create,
facts, upload, notice, one more), the second case one; `Bounded` lets only
sessions that stay on the consumer page go that far, because two pages at once
only share the restart and the loss of widgets. One answer that is lost or untrue and
one restart are enough to be late, doubled, half done or forgotten at every point;
interrupted uploads are not counted. Two jobs let one
replace the other; they end with and without a report.

In `text_service` limits are scaled down until texts of up to twelve characters
meet them all: windows of 4 with an overlap of 1, batches of 16, strict budgets
of 12 characters and 2 batches, chunks of 5 with an overlap of 1 (one of which has
14 characters with its breaks and title, of the 15 that are allowed), a context of 18
(which one or two excerpts fit, and a third or a second one exceeds), pieces of law of at most 7 characters.
Each document of `MCDocuments` is made for a case, named beside it. Only the
documents of `Prompted` are followed past the index, and only in balanced mode,
since nothing after the scan looks at the mode. The pages of law combine five
heads and bodies around articles 1, 1-A and 2; two of them (`NoticePages`) serve
for notices, one with an article vetoed but for a note, one with a vetoed
paragraph. Amounts are below, at and above a half cent, alone and in pairs.
Three indexings of 2, 1 and 0 chunks, any of whose calls may raise, one crash and two
torn appends reach every overlap of two replacements, a third one after them, and
every kind of damage next to a whole record.

Fairness. `WF(Advance(r))` and `WF(Advance(j))`: the event loop runs every ready
task, and every await on a provider, a thread or the disk ends, with a result or
with an exception (the clients set timeouts, threads do bounded work). Nothing
is assumed about users, restarts or which way a call ends. `AnalystFairness`: the
timer of the fragment fires and its run goes on (`WF(Follow)`), jobs end, and a
person who keeps interrupting the page does not do so at every single fetch
(`SF(FetchReport)`). Deadlock checking is off where the service may rest when
nobody sends a request, and in `TextService`, whose parts come to an end.

Violations are disagreements with what the repository says; `findings` in
`PROJECT.json` quotes the lines. In short: confirmation is tested before the
awaits of `generate_notice` and not after; `delete_case` cannot know documents
that are about to be registered; a missing loss is treated as unknown by one
validator and as zero by another; `BLOCKED` demands a complete scan although
an incomplete scan is what is rated critical; quotes are masked in one chunk at a
time, though chunks of another job may split them; the upsert overwrites old chunks
in place, so a failure after it does not keep them; and evidence is chunked as one
document but cited by the file on which a chunk starts.

Smaller observations without a run of their own. Those that a property names as
an exception are marked with it.

* The page keeps showing a draft after a documented amount was taken over,
  which the service has dropped (consumer_view.py:782; `ShownDraftIsTheServices`).
* `poll_analysis` takes a 404 for a status: after a restart the fragment fails on
  `status["stages"]` once a second (streamlit_app.py:281; `FollowedJobIsShown`).
  A download that fails hands out the error message as a file.
* A `DELETE` whose purge raises answers 500 after the record is gone
  (service.py:388), and the page keeps the case with its draft; an interaction during
  the loop of uploads leaves answered uploads out of the session
  (consumer_view.py:645). Until the next answer the page goes by a case the
  service has not (`SessionAgreesWithService`, `ShownDraftIsTheServices`,
  `OfferedDraftIsReady`).
* `Refresh` brings the case up to date but keeps the draft on the page, also one
  that the service has dropped (`ShownDraftIsTheServices`). A draft of a case that is
  ready may be refused for want of chunks or grounds, or for its amounts
  (`case_ready`); the page then shows the error.
* A message that timed out is sent again with a new `client_message_id`
  (consumer_view.py:310), so the idempotency of `add_message` does not help.
* A crash inside a multi-byte character makes `read_text` raise, and the whole
  history is unreadable until someone repairs the file; a record whose newline
  is missing takes the next one with it; U+2028 in a text loses the record
  (store.py:63; `OnlyDamagedRunsAreLost`).
* Replacements of one document that overlap can delete chunks that the other
  has just written, when their numbers of chunks differ; a crash, or a call that
  raises, between upsert and delete leaves a mixture until the document is indexed
  again (vector_store.py:138; `ReplacementIsWhole`).
* Newlines and titles do not count towards the size of a chunk, which can be nearly
  twice the target in a list of short lines (chunking.py:124; `ChunksLocateText`).
* The start of a server reads the manifest three times; a promotion in between
  makes its digest name another reviewed release than the one it serves.
* A bare heading of capitals after a bare heading is taken for the name of the
  first one (cdc_snapshot.py:289); paragraphs between a heading and the next
  article are dropped. The pinned text has neither.
* An article whose units are partly vetoed and partly revoked counts as in force
  although no unit of it is.
* An overlap of 0, which the chunker accepts, repeats the whole last piece of a chunk
  in the next one, because `last_paragraph[-0:]` is all of it (chunking.py:109;
  `ChunksLocateText`). The masks on a page look alike, so a chunk of masks alone can
  repeat the one before.
* `_split_text` looks for the end of a sentence, but the space after it is always
  later, so the preference has no effect (legal_corpus.py:719).
* The public proposal equals the private reservation whenever article 42 is not
  asked for (settlement.py:51).

And two of the jobs: a job on a document without chunks
succeeds although its stage `index` never shows done (jobs.py:200), a
graceful shutdown logs the outcome `running`, which `totals()` counts among
neither the successes nor the failures (jobs.py:191, store.py:100), and an `unlink`
that raises leaves the upload on disk for good, after the job has ended or, for a
rejected one, in place of the rejection (jobs.py:195; `AcceptedJobsEnd`).

## 4. Proofs

For every value of the constants that the assumptions named in section 4.5 allow.

### 4.1 Cases and jobs

| Theorem | States | Argument |
|---|---|---|
| `TypeCorrect` | `[]TypeOK` | inductive together with `LegalCorpusIndexedOnce`: `Tail` of the lock is a queue only because its holder is at its head |
| `LegalCorpusCorrect` | `[]LegalCorpusIndexedOnce` | same induction |
| `ReferenceCorrect` | `[]ReferenceBacked` | inductive under the types: accepted evidence only grows, only the PATCH sets a reference, a message never touches amounts |
| `NoticeCorrect` | `[]NoticeMatchesRecord` | `NoticeInv` adds `DraftTracked`: the document of a request past registration is registered |
| `TrackingCorrect` | `[]LiveDocumentsTracked` | inductive under the types |
| `ErasureCorrect` | `OneAtATime => []ErasedMeansErased` | `ErasureInv`: one request per case, no request at an erased case, and what a running deletion has purged plus what it has left covers the index |
| `ContractImplemented` | `OneAtATime => (Spec => ImplementsContract)` | `ContractInv`, see below |
| `GateCorrect`, `BoardCorrect`, `OutcomeCorrect` | the invariants of `AnalysisJob`, for any number of jobs, documents and faults | one invariant `JobInv` on job records, see below |
| `RunLogCorrect` | `[]RunLogIsTrue` | inductive under `JobInv`: only a job that has not ended is logged |
| `PollingImplemented` | `Spec => ImplementsPolling` | `JobInv` and `ShownInv`: what is shown follows from where the job is |
| `JobTypeCorrect` | `[]TypeOK` of `AnalysisJob` | follows from `JobInv` and the typing of disk and log |

The invariants of `AnalysisJob` speak of the end of a run and are not inductive:
a job that succeeds has every field because each superstep delivered its own.
`JobInv` therefore follows a run. `StepOK` says that a running job is in exactly
one of seven supersteps; `NodesOK`, that every node that has returned left a
field or an error (the scan both, when incomplete); `HistoryOK`, what the merged
state and the board say about the supersteps behind (`Past`), and that a stopped
run has only its scan behind it. A job is a record and each kind of update is a
lemma about records (`MoveOK`, `ScanOK`, `NodeOK`, `SuperstepOK`, `FinishOK`,
`CrashOK`); `AdvanceJobOK` has one case per action. Jobs meet only in the index,
which `ShowsFlagged` reads and no invariant relies on.

`ErasureCorrect` needs `OneAtATime`, which `case_erase_race` shows to be
necessary: it is a property of clients, not of the server.

`PollingImplemented` maps each step of a job to one of the contract: accepting,
starting, a superstep (`Polling!Progress`), `Finish` and `Crash`
(`Polling!Answer`), a restart (`Polling!Forget`); every node and the removal of
the file are stutters (`NothingShown`).

`ContractImplemented` maps the steps of one case: opening, review, a draft, the
withdrawal of a draft and erasure are steps of `NoticeContract`, all the rest
stutters. The contract lets a draft begin only from a reviewed case, so
`ContractInv` carries the review along: while a request for a notice runs, alone
by `OneAtATime`, its case is live, confirmed, and has text whenever it is past the
point that tested for it (`RequestFindsItsCase`), and the index holds text of a
live case only if that case has some. `case_draft_race` and `case_erase_race`
show what happens otherwise.

### 4.2 The pages

| Theorem | States |
|---|---|
| `AppTypesCorrect` | `[]AppTypeOK` |
| `ConfirmedFactsWereSubmitted` | `[]ConfirmedIsWhatWasSubmitted` |
| `FormIsNeverStale` | `[]FormShowsTheCase` |
| `SessionHoldsOneCase` | `[]SessionIsOfOneCase` |
| `PageFollowsTheRecord` | `[]SessionAgreesWithService` |
| `ShownDraftIsStored` | `[]ShownDraftIsTheServices` |
| `OfferedCaseIsReady` | `[]OfferedDraftIsReady` |
| `AnalystSeesOneJob` | `[]PageIsAboutItsJob` |

`SessionCorrect` (`AppSpec => []AppInv`) is their common induction. Three of the
properties are about what the session has heard: they suppose that the service has
not changed the case, or the draft, unheard since the last answer (`missed`), which a
lost request, a half-done one and an interrupted upload can bring about and the next
snapshot ends. `AppInv` needs to say what holds meanwhile (`Coherent`): what a session
holds of its case is not newer than the service's, and where it is as new it has the
same facts and review. A ticked form was filled from that very record, so what it
submits is what the person saw. While nothing is missed (`HeardInv`), the session
agrees with the service in all it shows (`CaseCurrent`, `DraftCurrent`), an upload loop
apart, which holds the latest answer in a variable of the script (`UploadsCurrent`).
Serving a request is a set of lemmas about the operators of `ConsumerSession`
(`Serve`, `ServeUnheard`, `Patched`, `Sync`, ...), used when it is answered, when it is
answered with an error and when it arrives late; there is one case per button.

### 4.3 Texts and files

| Theorem | States | Argument |
|---|---|---|
| `ReindexingIsWhole` | `[]ReplacementIsWhole` | `StoreInv`: a chunk of an indexing that is over, or was cut short before the running ones began, is in what each of them has found, and is taken out by whichever removes last |
| `OnlyReviewedLawIsServed` | `[]ServedLawWasReviewed` | `LawInv`: a server between two of its reads has read a manifest somebody reviewed, whatever the tool has written since; parsing a reviewed page again gives the same corpus |
| `KnownInstructionsStop` | `[]KnownInstructionStops` | `GateInv`: a finding of the rules stays among the findings until the end; duplicates replace each other only upward |
| `ReviewerOnlyAdds` | `[]ReviewOnlyAdds` | `GateInv`: a finding of the reviewer lies in a passage of a batch that was read |
| `ReviewIsDone` | `[]ReviewedMeansRead` | `ReviewInv`: what is still to come and what was read are together the candidates, see below |
| `StrictScanReadsAll` | `[]StrictReadsEverything` | `AllIsRead`: every position of a page is in a window, every window in a batch, and every batch is still to come or was read |
| `NothingFlaggedGetsThrough` | `[]FlaggedQuotesAreMasked` | `RunInv`: the chunks of a run are made with the masks of what the gate found; then `LeftHides`, see below |
| `FusionAgreesWithBoth` | `[]FusionKeepsAgreement` | `RunInv`: a prompt has the results of its queries; then `FusionAgrees`: shares of a common denominator fall with the rank, strictly, so what is better twice has more points |
| `AuditIsOfThePrompt` | `[]AuditIsThePrompt` | `RunInv`: the prompt has the context and the marks of its own results; then `IsContext`, the invariant of the loop over the excerpts, and `OneWins` |
| `ReportIsTraced` | `[]ReportCanBeTraced` | `AnswerInv`: a report keeps what it verified against the chunks of the run; then masks and blank lines, see below |
| `TextIsLocated` | `[]ChunksLocateText` | `RunInv`: the chunks of a run are those of the masked pages; then `ChunksLocate`, see below |
| `NoticeIsFounded` | `[]NoticeCitesItsSources` | `CorpusInv` and `SourcesInv`: chunks of the law are of units in force of their provisions, and a notice keeps what its loop over the law collected, see below |
| `SettlementIsSound` | `[]ProposalIsSupported` | `NoticeInv` carries the accepted facts to the end; the rest is arithmetic: rounding to cents is monotone, the weights are ordered whatever the strength of the evidence, and so are the products |
| `HistoryLosesOnlyDamage` | `[]OnlyDamagedRunsAreLost` | `LogInv`: what the lines of the file hold of the runs so far, see below |

The parts of `TextService` rest while another works, so each invariant has the form
`IF part = ... THEN Inv ELSE at rest`.

What these texts go through are folds, and the theorems on induction of the
library take an operator, which the installed provers cannot instantiate.
`FoldLemmas` goes around this: its operators are CONSTANTs of a module that is
instantiated for each fold, `FoldHasSteps` gives the sequence of the values
that a fold takes on the way, and `RangeInduction` is induction on a set of
numbers instead of a formula. An invariant of a fold is then the set of the
indices where it holds.

`NothingFlaggedGetsThrough` is about one such fold, over the quotes from the longest
to the shortest (`IsMasked`): after each step each character of a page is
left at most once, characters that were neighbours on the page and are both left are
still side by side, and a quote that was handled is gone, or a mask of a quote at least as long has cut it.
Chunking only selects and concatenates what is left (`ChunksAreLeft`), so a text of
chunks could show a quote only if a page did (`LeftHides`). The proof uses
nothing of the order among quotes of one length, which the code leaves open. It
needs the gate: a finding that runs over the end of its page is a strong one, which
does not let the document through (`CalmFindings`).

The lines of the history are a fold over the file. `HistoryOK` says of them that a
whole record is there once, that the record of a run that was appended is there
unless the run before it was torn, and that the last line is open only after a tear:
this is what makes damage stay between neighbours. One piece more changes the last
line or begins one (`LineStepIs`), so whatever a run writes, whole or torn
(`StartsOfLine`), goes on with one line by one piece and begins others without a
whole record (`GoesOn`), and `HistoryStep` needs no more than that. The property
then holds of the reading also when a character was cut in two, where the code
does not get to it.

`ReviewedMeansRead` is about a list with a limit. The orders in which findings and
sentences are listed are total, so each suspicious sentence has its place in the
list; one more candidate is added unless it is there or the list is full, so the
list is full at the end or has a passage for each of them, and is without
repetition either way. A passage is as long as the words that made its sentence
suspicious or longer, and is placed around their middle: so it holds them
(`FocusedPassage`), also at the ends of the sentence.

`ReportCanBeTraced` says that a mask leaves a quote that was kept as it is. The
citation was found in the masked text of its chunk with blank lines left out on both
sides, which makes it weaker than being there. A mask that took something of it would
have taken the first character of a flagged quote, which is text and not a blank
line, and what is left of the page has that character nowhere else. So the proof
needs that flagged quotes begin with text (`DocumentsAssumption`), which they do,
because the patterns of the rules begin with words.

`ChunksLocateText` follows a document through four loops: over the characters of a
page, the paragraphs, the pieces of a section and the sections. What they keep is
stated for any relation `R` that holds from each character of the masked pages to
every later one (`Sorted`): paragraphs, sections, pieces and chunks are then in the
order `R` too, lose nothing but blank lines and headings, and each paragraph is under
the last heading above it (`ParsInOrder`, `SectionsInOrder`, `PiecesInOrder`,
`ChunksInOrder`). Two such relations give the property. With `Differ`, two characters
are equal only as masks: so a chunk has a character that the one before has not
(`FreshAfter`), or one that is a mask. With `ReadInOrder(P)`, the order of the document
up to a page `P` without masks before it, the last heading in the list of
paragraphs is the last one on the pages (`TitleIsLast`). Where a page has a mask that
order is not known, because masks look alike; the property leaves it out there. The
overlap makes the bounds on the length an invariant of their own: the buffer
holds at any time at most the target, or a piece and one overlap, in pieces of a
character at least (`BufferFits`), so it needs no more newlines than fit in twice
the target; and its title is a heading.

`NoticeCitesItsSources` goes from what a notice cites back to its sources. A chunk of
the law has the page of a provision and the id of one of its units in force
(`ChunksOfCorpus`), and in a corpus that was accepted no other unit of the provision
has that id, so the way back ends at that unit (`UnitOfChunk`). The pages in a chunk
of the evidence rise, so the chunk begins on the page that its reference names.
`AreGrounds` is the invariant of the loop over the results: each ground is of the
best result of its provision, and while there is room every provision in force that
was found has one. One result of a chunk that is cited is marked and none of another
(`OneWins`, `NoneWins`).

Rankings are sequences in an order (`InOrder`, `InOrderSorts`) and not results of
`SortSeq`, so that `RankingRanks` can say of them what the proofs need: all items, the
better first. The best score of a chunk is the greatest because its
places are finitely many (`PlacesOfChunk`, `GreatestOfFinite`).

### 4.4 What is only model-checked

* Liveness (`EveryRequestEnds`, `AcceptedJobsEnd`, `FollowedJobIsShown`): beyond the
  prover.
* `LawIsLocated`: it compares the parser with a second reading of the same page. Its
  proof is the correctness of a parser with lookahead, level by level. Proved of
  the parser is that its articles are in the order of the page and that a corpus
  is complete (`LawInv`).

### 4.5 Assumptions

`DataAssumption`, `ConfigAssumption`, `NoneAssumption`, `NoticeAssumption`,
`RunLogAssumption`: settings are in the ranges that the code's validators accept,
inputs have the fields the schemas give them, and Python's `None` is no value of
another kind; so `AbsenceAssumption` for the pages. `SessionAssumption`,
`PageAssumption`, `AppAssumption`, `ChunkStoreAssumption` and `PartsAssumption`:
bounds of the runs are numbers, cases and jobs are named by numbers; the runs of the
history are numbered in the order in which they end.
`ChunkerAssumption`, `GateAssumption`, `RetrievalAssumption`,
`ScoresAssumption`, `CodeAssumption`, `LegalCorpusAssumption`: scores are numbers,
limits are positive, overlaps smaller than what overlaps, and texts and pages of
the law sequences, those of paragraphs that begin with text (the parser strips them
and drops what is blank). `DocumentsAssumption`, `DownloadsAssumption`, `CasesAssumption`,
`AnswersAssumption` say of what shape the inputs are: pages are sequences, marks and
claims lie on pages and begin with text, not with a blank line, amounts are numbers
or absent, a citation has a page, a span and perhaps a chunk. TLC evaluates each of them in the run of its
module. `OneAtATime` is a hypothesis of two theorems, not of the model.

## 5. Not modelled, and the plan

What is left: `LawIsLocated` for every value of the constants (section 4.4).

Not modelled, and why:

* Regular expressions, canonical forms, decoders, HTML and PDF parsing, OCR:
  what they recognise is an input of the models. Intake extraction likewise.
* Vendor SDKs of language models and embeddings: a call ends with a result or an
  exception, and a result is any value the code accepts.
* BM25, cosine similarity, the wording of queries and prompts: scores are inputs.
* Digests, legacy ids and editorial metadata of the law; text of the notice and of
  the report; metrics and confidence; export to Markdown, PDF and DOCX; logging,
  settings; the layout of the pages.
* Evaluation: offline arithmetic over recorded runs, which its unit tests compare
  with reference values.
