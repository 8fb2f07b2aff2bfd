---------------------------- MODULE AnalysisJob ----------------------------
(***************************************************************************)
(* The analysis of an uploaded lawsuit: AnalysisJobManager (app/api/jobs)  *)
(* drives one asyncio task per job through the LangGraph state machine of  *)
(* app/orchestration/graph.  The graph runs in supersteps: the nodes of a  *)
(* superstep run concurrently on the same state, their writes are merged   *)
(* at its end, and the merged state is streamed to the job.  Jobs share    *)
(* the vector store, where a document is named by its content, so two      *)
(* uploads of one file replace each other's chunks.                        *)
(***************************************************************************)
EXTENDS Naturals, FiniteSets

CONSTANTS
  Jobs,         \* job ids, drawn fresh from uuid4
  Docs,         \* contents of PDF files
  EmptyDocs,    \* those that yield no chunk
  SplitDocs,    \* those whose suspicious excerpt no single chunk holds
  RetainUploads,  \* LITIGATION_RETAIN_UPLOADS
  MaxFaults,    \* bound on failures of providers and of the disk
  MaxRestarts,  \* bound on process restarts
  None

ASSUME ConfigAssumption ==
  /\ EmptyDocs \subseteq Docs /\ SplitDocs \subseteq Docs
  /\ RetainUploads \in BOOLEAN
  /\ MaxFaults \in Nat
  /\ MaxRestarts \in Nat

VARIABLES
  job,      \* what the manager and the graph know of each job
  uploads,  \* jobs whose PDF is on disk
  index,    \* index[d]: whether chunks of d show the suspicious excerpt
  runs,     \* the run log: one record per finished job
  faults, restarts

vars == <<job, uploads, index, runs, faults, restarts>>

\* STAGE_PREDICATES, each with the node that fills its field.
Stages == {"security_scan", "index", "classify", "extract", "analyze",
           "enrich", "risk", "strategy", "compose"}

\* SECURITY_SKIPPED_STAGES
Analysis == Stages \ {"security_scan", "compose"}

\* The agents, wrapped by _agent_node; all but the classifier retrieve.
Agents == {"classify", "extract", "analyze", "risk", "strategy"}

Finals == {"succeeded", "partial", "review_required", "blocked", "failed"}

\* The policy of build_assessment: a scan that was not completed is critical,
\* and a finding of at least medium risk is what raises the action.
Assessments ==
  {a \in [action   : {"proceed", "proceed_with_warning", "human_review", "block"},
          complete : BOOLEAN,
          flagged  : BOOLEAN] :
     /\ ~a.complete => a.action = "block"
     /\ (a.complete /\ a.action # "proceed") => a.flagged}

ASSUME NoneAssumption ==
  None \notin Docs \cup Finals \cup Assessments \cup {"queued", "running"}

Allows(a) == a.action \in {"proceed", "proceed_with_warning"}

Absent == [pc |-> "absent", doc |-> None, state |-> None,
           assessment |-> None, filled |-> {}, graph_errors |-> {},
           todo |-> {}, ran |-> {}, writes |-> {}, fails |-> {},
           done_stages |-> {}, failed_stages |-> {}, skipped_stages |-> {},
           errors |-> {}, report |-> FALSE, exposed |-> FALSE]

Fault == /\ faults < MaxFaults
         /\ faults' = faults + 1

-----------------------------------------------------------------------------
(* submit_upload *)

\* The PDF is written before any job can be seen.
BeginUpload(j, d) ==
  /\ job[j].pc = "absent"
  /\ job' = [job EXCEPT ![j].pc = "uploading", ![j].doc = d]
  /\ uploads' = uploads \cup {j}
  /\ UNCHANGED <<index, runs, faults, restarts>>

\* Too large, not a PDF, or any other exception: the file is removed again,
\* or removing it raises in its turn.
RejectUpload(j) ==
  /\ job[j].pc = "uploading"
  /\ job' = [job EXCEPT ![j].pc = "rejected"]
  /\ \/ uploads' = uploads \ {j} /\ UNCHANGED faults
     \/ Fault /\ UNCHANGED uploads
  /\ UNCHANGED <<index, runs, restarts>>

AcceptUpload(j) ==
  /\ job[j].pc = "uploading"
  /\ job' = [job EXCEPT ![j].pc = "queued", ![j].state = "queued"]
  /\ UNCHANGED <<uploads, index, runs, faults, restarts>>

-----------------------------------------------------------------------------
(* The nodes of the graph.  `writes` and `fails` are what a node returns.  *)

Return(j, n, wrote, failed) ==
  [job[j] EXCEPT !.todo = @ \ {n}, !.ran = @ \cup {n},
                 !.writes = @ \cup wrote, !.fails = @ \cup failed]

\* security_scan_node: a scan that raises or stays incomplete still leaves an
\* assessment, together with an error.
SecurityScan(j, a) ==
  /\ "security_scan" \in job[j].todo
  /\ IF a.complete THEN UNCHANGED faults ELSE Fault
  /\ job' = [job EXCEPT ![j] =
       [Return(j, "security_scan", {"security_scan"},
               IF a.complete THEN {} ELSE {"security_scan"})
          EXCEPT !.assessment = a]]
  /\ UNCHANGED <<uploads, index, runs, restarts>>

\* index_node: the chunks carry the masks of this job's own assessment.  A
\* document without chunks is cleared from the store, and its field stays empty.
IndexDocument(j) ==
  LET d     == job[j].doc
      empty == d \in EmptyDocs
  IN  /\ "index" \in job[j].todo
      /\ index' = [index EXCEPT ![d] =
                     IF empty THEN "none"
                     ELSE IF job[j].assessment.flagged THEN "masked" ELSE "plain"]
      /\ job' = [job EXCEPT ![j] =
                   Return(j, "index", IF empty THEN {} ELSE {"index"}, {})]
      /\ UNCHANGED <<uploads, runs, faults, restarts>>

IndexFails(j) ==
  /\ "index" \in job[j].todo
  /\ Fault
  /\ job' = [job EXCEPT ![j] = Return(j, "index", {}, {"index"})]
  /\ UNCHANGED <<uploads, index, runs, restarts>>

\* format_context_with_audit masks the head of the document and what was
\* retrieved once more, with the findings of this job, but each chunk by itself:
\* of an excerpt split over chunks that another job stored unmasked, nothing is
\* found.  Does the prompt show an excerpt that the scan of this job flagged?
ShowsFlagged(j, n) ==
  /\ n # "classify" /\ index[job[j].doc] = "plain"
  /\ job[j].assessment.flagged /\ job[j].doc \in SplitDocs

\* _agent_node: a failure is returned as an error, never raised.
RunAgent(j, n, ok) ==
  /\ n \in job[j].todo \cap Agents
  /\ IF ok THEN UNCHANGED faults ELSE Fault
  /\ job' = [job EXCEPT ![j] =
       [Return(j, n, IF ok THEN {n} ELSE {}, IF ok THEN {} ELSE {n})
          EXCEPT !.exposed = @ \/ ShowsFlagged(j, n)]]
  /\ UNCHANGED <<uploads, index, runs, restarts>>

\* make_enrich_node never fails; compose_node calls no provider.
RunDeterministic(j, n) ==
  /\ n \in job[j].todo \cap {"enrich", "compose"}
  /\ job' = [job EXCEPT ![j] = Return(j, n, {n}, {})]
  /\ UNCHANGED <<uploads, index, runs, faults, restarts>>

-----------------------------------------------------------------------------
(* The edges of the graph. *)

\* Mutation: the route looks only at whether the scan was completed.
AfterSecurityScanIfComplete(a) == IF a.complete THEN {"index"} ELSE {"compose"}

AfterSecurityScan(a) == IF Allows(a) THEN {"index"} ELSE {"compose"}

AfterIndex(errors) == IF errors # {} THEN {"compose"} ELSE {"classify"}

\* Compose joins risk, strategy and enrich; enrich has ended a superstep
\* before the other two.
Successors(ran, a, errors) ==
  CASE ran = {"security_scan"}     -> AfterSecurityScan(a)
    [] ran = {"index"}             -> AfterIndex(errors)
    [] ran = {"classify"}          -> {"extract"}
    [] ran = {"extract"}           -> {"analyze", "enrich"}
    [] ran = {"analyze", "enrich"} -> {"risk", "strategy"}
    [] ran = {"risk", "strategy"}  -> {"compose"}
    [] ran = {"compose"}           -> {}

-----------------------------------------------------------------------------
(* _execute *)

\* Mutation: the state shown is one that the API does not know.
StartJobShowingPhase(j) ==
  /\ job[j].pc = "queued"
  /\ job' = [job EXCEPT ![j].pc = "ingesting", ![j].state = "ingesting"]
  /\ UNCHANGED <<uploads, index, runs, faults, restarts>>

StartJob(j) ==
  /\ job[j].pc = "queued"
  /\ job' = [job EXCEPT ![j].pc = "ingesting", ![j].state = "running"]
  /\ UNCHANGED <<uploads, index, runs, faults, restarts>>

Ingested(j) ==
  /\ job[j].pc = "ingesting"
  /\ job' = [job EXCEPT ![j].pc = "running", ![j].todo = {"security_scan"}]
  /\ UNCHANGED <<uploads, index, runs, faults, restarts>>

\* The end of a superstep: the additive reducers merge what the nodes wrote.
Merged(j) ==
  [job[j] EXCEPT !.filled = @ \cup job[j].writes,
                 !.graph_errors = @ \cup job[j].fails,
                 !.ran = {}, !.writes = {}, !.fails = {},
                 !.todo = Successors(job[j].ran, job[j].assessment,
                                     job[j].graph_errors \cup job[j].fails)]

\* Mutation: the board shows only the stages of the latest superstep.
UpdateStagesAfresh(m) ==
  [m EXCEPT !.done_stages = m.filled \ @, !.failed_stages = m.graph_errors]

\* Mutation: the skipped stages are marked whenever there is a report.
UpdateStagesSkipping(m) ==
  [m EXCEPT !.done_stages = @ \cup m.filled,
            !.failed_stages = @ \cup m.graph_errors,
            !.skipped_stages = IF "compose" \in m.filled THEN @ \cup Analysis ELSE @]

\* _update_stages
UpdateStages(m) ==
  [m EXCEPT !.done_stages = @ \cup m.filled,
            !.failed_stages = @ \cup m.graph_errors,
            !.skipped_stages = IF "compose" \in m.filled /\ ~Allows(m.assessment)
                               THEN @ \cup Analysis ELSE @]

\* Mutation: a stopped run without errors counts as a success.
OutcomeByErrors(m) == IF m.graph_errors # {} THEN "partial" ELSE "succeeded"

\* The outcome of a run that has a report.
Outcome(m) ==
  CASE m.assessment.complete /\ m.assessment.action = "human_review" -> "review_required"
    [] m.assessment.complete /\ m.assessment.action = "block" -> "blocked"
    [] Allows(m.assessment) \/ ~m.assessment.complete ->
         IF m.graph_errors # {} THEN "partial" ELSE "succeeded"

\* Mutation: the outcome is derived from the errors alone.
PersistRunByErrors(j, outcome) ==
  /\ runs' = runs \cup {[job |-> j,
                         outcome |-> IF job[j].graph_errors = {} THEN "succeeded"
                                                                ELSE "partial"]}
  /\ UNCHANGED faults

\* _persist_run, whose own failure is only logged.
PersistRun(j, outcome) ==
  \/ /\ runs' = runs \cup {[job |-> j, outcome |-> outcome]}
     /\ UNCHANGED faults
  \/ /\ Fault
     /\ UNCHANGED runs

\* A superstep ends and the stream yields the merged state.
Superstep(j) ==
  /\ job[j].pc = "running"
  /\ job[j].todo = {}
  /\ LET m == UpdateStages(Merged(j))
     IN  /\ m.todo # {}
         /\ job' = [job EXCEPT ![j] = m]
  /\ UNCHANGED <<uploads, index, runs, faults, restarts>>

\* The last superstep: result, errors, state and run record without an await.
Finish(j) ==
  /\ job[j].pc = "running"
  /\ job[j].todo = {}
  /\ LET m == UpdateStages(Merged(j))
     IN  /\ m.todo = {}
         /\ job' = [job EXCEPT ![j] = [m EXCEPT !.pc = "closing", !.report = TRUE,
                                                !.errors = m.graph_errors,
                                                !.state = Outcome(m)]]
         /\ PersistRun(j, Outcome(m))
  /\ UNCHANGED <<uploads, index, restarts>>

\* Ingestion, or composing the report, raises: nothing but the exception is
\* reported and the graph's own errors are lost with its state.
Crash(j) ==
  /\ \/ job[j].pc = "ingesting"
     \/ "compose" \in job[j].todo
  /\ Fault
  /\ job' = [job EXCEPT ![j].pc = "closing", ![j].todo = {}, ![j].ran = {},
                        ![j].state = "failed", ![j].errors = {"exception"}]
  /\ runs' \in {runs, runs \cup {[job |-> j, outcome |-> "failed"]}}
  /\ UNCHANGED <<uploads, index, restarts>>

\* Mutation: a failed job keeps its file.
RemoveUploadIfSucceeded(j) ==
  /\ job[j].pc = "closing"
  /\ job' = [job EXCEPT ![j].pc = "done"]
  /\ uploads' = IF RetainUploads \/ job[j].state = "failed" THEN uploads
                                                            ELSE uploads \ {j}
  /\ UNCHANGED <<index, runs, faults, restarts>>

RemoveUpload(j) ==
  /\ job[j].pc = "closing"
  /\ job' = [job EXCEPT ![j].pc = "done"]
  /\ uploads' = IF RetainUploads THEN uploads ELSE uploads \ {j}
  /\ UNCHANGED <<index, runs, faults, restarts>>

\* The unlink in the finally clause raises: the task ends, and the file stays.
RemoveUploadFails(j) ==
  /\ job[j].pc = "closing" /\ ~RetainUploads
  /\ Fault
  /\ job' = [job EXCEPT ![j].pc = "undeleted"]
  /\ UNCHANGED <<uploads, index, runs, restarts>>

-----------------------------------------------------------------------------
Init ==
  /\ job = [j \in Jobs |-> Absent]
  /\ uploads = {}
  /\ index = [d \in Docs |-> "none"]
  /\ runs = {}
  /\ faults = 0
  /\ restarts = 0

\* Jobs live in memory; the index, the run log and the uploads on disk.
Forgotten == [j \in Jobs |-> IF job[j].pc = "absent" THEN Absent
                             ELSE [Absent EXCEPT !.pc = "lost"]]

\* The process is killed.
Restart ==
  /\ restarts < MaxRestarts
  /\ restarts' = restarts + 1
  /\ job' = Forgotten
  /\ UNCHANGED <<uploads, index, runs, faults>>

\* The process is asked to stop: the event loop cancels its tasks, and a
\* cancellation, which `except Exception` lets pass, leaves a started job in
\* state running when the finally clause logs it and removes its file.  A task
\* that was still queued never enters its try.  The disk may fail for some.
Shutdown ==
  LET started == {j \in Jobs : job[j].pc \in {"ingesting", "running"}}
      closing == {j \in Jobs : job[j].pc = "closing"}
      Close(logged, removed) ==
        /\ runs' = runs \cup {[job |-> j, outcome |-> "running"] : j \in logged}
        /\ uploads' = IF RetainUploads THEN uploads ELSE uploads \ removed
  IN  /\ restarts < MaxRestarts
      /\ restarts' = restarts + 1
      /\ job' = Forgotten
      /\ \/ Close(started, started \cup closing) /\ UNCHANGED faults
         \/ /\ Fault
            /\ \E logged \in SUBSET started, removed \in SUBSET (started \cup closing) :
                 Close(logged, removed)
      /\ UNCHANGED index

Upload(j) == \E d \in Docs : BeginUpload(j, d)

Advance(j) ==
  \/ RejectUpload(j)
  \/ AcceptUpload(j)
  \/ StartJob(j)
  \/ Ingested(j)
  \/ \E a \in Assessments : SecurityScan(j, a)
  \/ IndexDocument(j)
  \/ IndexFails(j)
  \/ \E n \in Agents, ok \in BOOLEAN : RunAgent(j, n, ok)
  \/ \E n \in {"enrich", "compose"} : RunDeterministic(j, n)
  \/ Superstep(j)
  \/ Finish(j)
  \/ Crash(j)
  \/ RemoveUpload(j)
  \/ RemoveUploadFails(j)

Next ==
  \/ \E j \in Jobs : Upload(j) \/ Advance(j)
  \/ Restart
  \/ Shutdown

Spec == Init /\ [][Next]_vars

\* The event loop runs every ready task; provider calls and disk operations
\* end, with a result or with an exception.
FairSpec == Spec /\ \A j \in Jobs : WF_vars(Advance(j))

-----------------------------------------------------------------------------
(* Properties. *)

JobRecord == [pc : {"absent", "uploading", "rejected", "queued", "ingesting",
                    "running", "closing", "done", "undeleted", "lost"},
              doc : Docs \cup {None},
              state : {None, "queued", "running"} \cup Finals,
              assessment : Assessments \cup {None},
              filled : SUBSET Stages,
              graph_errors : SUBSET Stages,
              todo : SUBSET Stages,
              ran : SUBSET Stages,
              writes : SUBSET Stages,
              fails : SUBSET Stages,
              done_stages : SUBSET Stages,
              failed_stages : SUBSET Stages,
              skipped_stages : SUBSET Stages,
              errors : SUBSET (Stages \cup {"exception"}),
              report : BOOLEAN,
              exposed : BOOLEAN]

\* Every variable stays in its domain.
TypeOK ==
  /\ job \in [Jobs -> JobRecord]
  /\ uploads \subseteq Jobs
  /\ index \in [Docs -> {"none", "masked", "plain"}]
  /\ runs \subseteq [job : Jobs, outcome : Finals \cup {"running"}]
  /\ faults \in 0..MaxFaults
  /\ restarts \in 0..MaxRestarts

\* The final state of a job is what happened to it: success means that every
\* node delivered after a scan that allowed it, a security outcome means that
\* a completed scan stopped it before anything was analysed, partial comes
\* with its errors, and failed means that there is no report.
OutcomeIsTrue ==
  \A j \in Jobs :
    /\ job[j].state = "succeeded" =>
         /\ Allows(job[j].assessment)
         /\ job[j].errors = {} /\ job[j].failed_stages = {}
         /\ Stages \ {"index"} \subseteq job[j].filled
    /\ job[j].state \in {"review_required", "blocked"} =>
         /\ job[j].assessment.complete /\ ~Allows(job[j].assessment)
         /\ job[j].filled = {"security_scan", "compose"}
    /\ job[j].state = "partial" => job[j].errors # {}
    /\ job[j].state = "failed" => job[j].errors = {"exception"}
    /\ job[j].state \in Finals => (job[j].report <=> job[j].state # "failed")

\* Nothing of a document is indexed or analysed unless the scan of this very
\* job allows it, wherever the job stands in its run.
GateComesFirst ==
  \A j \in Jobs :
    Analysis \cap (job[j].todo \cup job[j].ran \cup job[j].filled) # {} =>
      /\ job[j].assessment # None
      /\ Allows(job[j].assessment)

\* The progress board never contradicts itself: only the scan can be done and
\* failed at once, and what the gate skipped was neither run nor failed.
BoardIsConsistent ==
  \A j \in Jobs :
    /\ job[j].done_stages \cap job[j].failed_stages \subseteq {"security_scan"}
    /\ job[j].skipped_stages \cap (job[j].done_stages \cup job[j].failed_stages) = {}

\* A job that has an outcome, or was forgotten after it was started.
Over == {"closing", "done", "undeleted", "lost"}

\* The run log names a job at most once, only after it ended, and with the
\* outcome its clients are shown; "running" names a job that a shutdown cut off.
RunLogIsTrue ==
  \A r \in runs :
    /\ job[r.job].pc \in Over
    /\ job[r.job].pc # "lost" => job[r.job].state = r.outcome
    /\ r.outcome = "running" => job[r.job].pc = "lost"
    /\ \A q \in runs : q.job = r.job => q = r

\* A job that was accepted ends, and its file is then off the disk unless it
\* is to be retained or the disk refused to remove it; a restart may forget
\* the job.
AcceptedJobsEnd ==
  \A j \in Jobs : job[j].pc = "queued" ~>
    \/ job[j].pc \in {"lost", "undeleted"}
    \/ job[j].pc = "done" /\ (j \in uploads => RetainUploads)

\* What get_analysis and get_report show of a job.
PhaseShown(m) == IF m.state = None THEN "unknown"
                 ELSE IF m.state \in Finals THEN "final" ELSE m.state

StagesShown(m) == m.done_stages \cup m.failed_stages \cup m.skipped_stages

AnswerShown(m) == [outcome |-> IF m.state \in Finals THEN m.state ELSE "none",
                   report  |-> m.report]

phase   == [j \in Jobs |-> PhaseShown(job[j])]
settled == [j \in Jobs |-> StagesShown(job[j])]
answer  == [j \in Jobs |-> AnswerShown(job[j])]

\* The polled view of the jobs obeys its contract.
Polling == INSTANCE JobContract WITH phase <- phase, settled <- settled, answer <- answer

ImplementsPolling == Polling!Spec

\* "critical: end with job outcome blocked": a job whose assessment is critical,
\* the one level whose action is to block, and that has a report, is blocked.
CriticalEndsBlocked ==
  \A j \in Jobs :
    job[j].report /\ job[j].assessment.action = "block" => job[j].state = "blocked"

\* "mask flagged excerpts in downstream prompts": an excerpt that the scan of
\* a job flagged shows in no prompt of that job, also when another job on the
\* same file, whose scan did not flag it, has stored the unmasked chunks.
FlaggedExcerptsAreMasked ==
  \A j \in Jobs : ~job[j].exposed
=============================================================================
