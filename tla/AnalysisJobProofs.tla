------------------------- MODULE AnalysisJobProofs -------------------------
(***************************************************************************)
(* Proofs about AnalysisJob, for any number of jobs, documents, faults and *)
(* restarts.  A job is a record that its steps update; the invariant is a  *)
(* predicate on such records, and each kind of update is a lemma about     *)
(* records alone.  With it every step of a job is a step of the view a     *)
(* client polls (JobContract), or changes nothing that a client can see.   *)
(***************************************************************************)
EXTENDS AnalysisJob, TLAPS

-----------------------------------------------------------------------------
(* What a job looks like between two of its steps.                         *)

\* Nothing of the document has been touched yet, or is any more known.
Fresh == {"absent", "uploading", "rejected", "queued", "ingesting", "lost"}

Supersteps == {{"security_scan"}, {"index"}, {"classify"}, {"extract"},
               {"analyze", "enrich"}, {"risk", "strategy"}, {"compose"}}

\* The stages that have run before a superstep, unless a stop skipped them.
Past(step) ==
  CASE step = {"security_scan"}     -> {}
    [] step = {"index"}             -> {"security_scan"}
    [] step = {"classify"}          -> {"security_scan", "index"}
    [] step = {"extract"}           -> {"security_scan", "index", "classify"}
    [] step = {"analyze", "enrich"} -> {"security_scan", "index", "classify", "extract"}
    [] step = {"risk", "strategy"}  -> Stages \ {"risk", "strategy", "compose"}
    [] step = {"compose"}           -> Stages \ {"compose"}

Step(r) == r.todo \cup r.ran

\* The gate stopped the run: what is left is to compose the report.
Stopped(r) == Step(r) = {"compose"} /\ ~Allows(r.assessment)

FreshOK(r) == /\ r.filled = {} /\ r.graph_errors = {}
              /\ r.writes = {} /\ r.fails = {}
              /\ r.done_stages = {} /\ r.failed_stages = {} /\ r.skipped_stages = {}

\* A running job is in one superstep; from the scan on there is an assessment.
StepOK(r) ==
  /\ r.pc # "running" => Step(r) = {}
  /\ r.pc = "running" => Step(r) \in Supersteps /\ r.todo \cap r.ran = {}
  /\ r.pc \in Fresh => FreshOK(r)
  /\ (r.pc = "running" /\ "security_scan" \notin r.todo) => r.assessment \in Assessments

\* Every node leaves a field or an error, the scan both when it is incomplete.
NodesOK(r) ==
  /\ r.writes \subseteq r.ran
  /\ r.fails \subseteq r.ran \ {"compose", "enrich"}
  /\ r.ran \ {"index"} \subseteq r.writes \cup r.fails
  /\ r.writes \cap r.fails \subseteq {"security_scan"}
  /\ "security_scan" \in r.ran => "security_scan" \in r.writes
  /\ ("security_scan" \notin r.todo /\ ~r.assessment.complete) =>
       "security_scan" \in r.fails \cup r.graph_errors

\* What the merged state and the board say about the supersteps behind.
HistoryOK(r) ==
  /\ r.done_stages \subseteq r.filled /\ r.failed_stages \subseteq r.graph_errors
  /\ r.skipped_stages = {}
  /\ r.filled \cup r.graph_errors \subseteq Past(Step(r))
  /\ r.filled \cap r.graph_errors \subseteq {"security_scan"}
  /\ Stopped(r) => r.filled = {"security_scan"} /\ r.graph_errors \subseteq {"security_scan"}
  /\ (~Stopped(r) /\ r.graph_errors = {}) => Past(Step(r)) \ {"index"} \subseteq r.filled

\* The invariants of AnalysisJob, of one job.
GateOK(r) ==
  Analysis \cap (r.todo \cup r.ran \cup r.filled) # {} =>
    r.assessment # None /\ Allows(r.assessment)

BoardOK(r) ==
  /\ r.done_stages \cap r.failed_stages \subseteq {"security_scan"}
  /\ r.skipped_stages \cap (r.done_stages \cup r.failed_stages) = {}

OutcomeOK(r) ==
  /\ r.state = "succeeded" =>
       /\ Allows(r.assessment)
       /\ r.errors = {} /\ r.failed_stages = {}
       /\ Stages \ {"index"} \subseteq r.filled
  /\ r.state \in {"review_required", "blocked"} =>
       /\ r.assessment.complete /\ ~Allows(r.assessment)
       /\ r.filled = {"security_scan", "compose"}
  /\ r.state = "partial" => r.errors # {}
  /\ r.state = "failed" => r.errors = {"exception"}
  /\ r.state \in Finals => (r.report <=> r.state # "failed")
  /\ r.pc \in Fresh \cup {"running"} => r.state \notin Finals /\ ~r.report

JobOK(r) == /\ r \in JobRecord
            /\ StepOK(r) /\ GateOK(r) /\ BoardOK(r) /\ OutcomeOK(r)
            /\ r.pc = "running" => NodesOK(r) /\ HistoryOK(r)

JobInv == /\ job \in [Jobs -> JobRecord]
          /\ \A j \in Jobs : JobOK(job[j])

\* A step that updates one job has to keep only that job in order.
LEMMA OneJobOK ==
  ASSUME JobInv, NEW j \in Jobs, NEW r, JobOK(r), job' = [job EXCEPT ![j] = r]
  PROVE  JobInv'
BY DEF JobInv, JobOK

-----------------------------------------------------------------------------
(* The updates of a job by its manager. *)

\* Before the graph runs, the manager moves a job from state to state.
LEMMA MoveOK ==
  ASSUME NEW r, JobOK(r), r.pc \in Fresh,
         NEW pc \in Fresh, NEW state \in {None, "queued", "running"}
  PROVE  JobOK([r EXCEPT !.pc = pc, !.state = state])
<1>1. [r EXCEPT !.pc = pc, !.state = state] \in JobRecord
  BY DEF JobOK, JobRecord, Fresh
<1>2. state \notin Finals
  BY NoneAssumption DEF Finals
<1>. QED
  BY <1>1, <1>2 DEF JobOK, JobRecord, Fresh, StepOK, Step, FreshOK, GateOK,
     BoardOK, OutcomeOK, Finals

\* An upload begins with the document it brings.
LEMMA BeginOK ==
  ASSUME NEW r, JobOK(r), r.pc \in Fresh, NEW d \in Docs
  PROVE  JobOK([r EXCEPT !.pc = "uploading", !.doc = d])
<1>1. [r EXCEPT !.pc = "uploading", !.doc = d] \in JobRecord
  BY DEF JobOK, JobRecord
<1>. QED
  BY <1>1 DEF JobOK, JobRecord, Fresh, StepOK, Step, FreshOK, GateOK,
     BoardOK, OutcomeOK

\* The graph begins with the scan alone.
LEMMA IngestedOK ==
  ASSUME NEW r, JobOK(r), r.pc = "ingesting"
  PROVE  JobOK([r EXCEPT !.pc = "running", !.todo = {"security_scan"}])
<1>. DEFINE s == [r EXCEPT !.pc = "running", !.todo = {"security_scan"}]
<1>1. s \in JobRecord
  BY DEF JobOK, JobRecord, Stages
<1>2. /\ s.todo = {"security_scan"} /\ s.ran = {} /\ s.writes = {}
      /\ s.pc = "running" /\ s.state = r.state /\ s.report = r.report
      /\ s.assessment = r.assessment
      /\ FreshOK(s)
  BY DEF JobOK, JobRecord, StepOK, Step, Fresh, FreshOK
<1>3. StepOK(s) /\ GateOK(s) /\ BoardOK(s)
  BY <1>2 DEF StepOK, Step, Supersteps, FreshOK, Fresh, GateOK, BoardOK, Analysis
<1>4. OutcomeOK(s)
  BY <1>2 DEF JobOK, OutcomeOK, Fresh, Finals
<1>5. NodesOK(s) /\ HistoryOK(s)
  BY <1>2 DEF NodesOK, HistoryOK, FreshOK, Step, Past, Stopped
<1>. QED  BY <1>1, <1>3, <1>4, <1>5 DEF JobOK

\* Ingestion or the report raises an exception.
LEMMA CrashOK ==
  ASSUME NEW r, JobOK(r), r.pc \in {"ingesting", "running"}
  PROVE  JobOK([r EXCEPT !.pc = "closing", !.todo = {}, !.ran = {},
                         !.state = "failed", !.errors = {"exception"}])
<1>. DEFINE s == [r EXCEPT !.pc = "closing", !.todo = {}, !.ran = {},
                           !.state = "failed", !.errors = {"exception"}]
<1>1. s \in JobRecord
  BY DEF JobOK, JobRecord, Finals
<1>2. /\ s.todo = {} /\ s.ran = {} /\ s.pc = "closing"
      /\ s.state = "failed" /\ s.errors = {"exception"} /\ s.report = r.report
      /\ s.filled = r.filled /\ s.exposed = r.exposed /\ s.assessment = r.assessment
      /\ s.done_stages = r.done_stages /\ s.failed_stages = r.failed_stages
      /\ s.skipped_stages = r.skipped_stages
  BY DEF JobOK, JobRecord
<1>. QED
  BY <1>1, <1>2 DEF JobOK, StepOK, Step, Fresh, GateOK, BoardOK, OutcomeOK

\* The file is removed, or not, once the job has its outcome.
LEMMA CloseOK ==
  ASSUME NEW r, JobOK(r), r.pc = "closing", NEW pc \in {"done", "undeleted"}
  PROVE  JobOK([r EXCEPT !.pc = pc])
<1>. DEFINE s == [r EXCEPT !.pc = pc]
<1>1. s \in JobRecord
  BY DEF JobOK, JobRecord
<1>2. /\ s.todo = r.todo /\ s.ran = r.ran /\ s.pc = pc
      /\ s.state = r.state /\ s.errors = r.errors /\ s.report = r.report
      /\ s.filled = r.filled /\ s.exposed = r.exposed /\ s.assessment = r.assessment
      /\ s.done_stages = r.done_stages /\ s.failed_stages = r.failed_stages
      /\ s.skipped_stages = r.skipped_stages
  BY DEF JobOK, JobRecord
<1>. QED
  BY <1>1, <1>2 DEF JobOK, StepOK, Step, Fresh, GateOK, BoardOK, OutcomeOK

-----------------------------------------------------------------------------
(* The updates of a job by its graph. *)

\* A node to run belongs to a running job, and the scan runs alone.
LEMMA TodoFacts ==
  ASSUME NEW r, JobOK(r), NEW n \in r.todo
  PROVE  /\ r.pc = "running" /\ n \in Stages
         /\ n = "security_scan" => r.todo = {"security_scan"} /\ r.ran = {}
         /\ n # "security_scan" => /\ "security_scan" \notin Step(r)
                                   /\ r.assessment \in Assessments
<1>1. r.pc = "running" /\ n \in Stages
  BY DEF JobOK, JobRecord, StepOK, Step
<1>2. Step(r) \in Supersteps
  BY <1>1 DEF JobOK, StepOK
<1>3. "security_scan" \in Step(r) => Step(r) = {"security_scan"}
  BY <1>2 DEF Supersteps
<1>4. n = "security_scan" => r.todo = {"security_scan"} /\ r.ran = {}
  BY <1>1, <1>3 DEF JobOK, StepOK, Step
<1>5. n # "security_scan" => "security_scan" \notin Step(r)
  BY <1>3 DEF Step
<1>. QED  BY <1>1, <1>4, <1>5 DEF JobOK, StepOK, Step

\* The scan leaves its assessment, and an error when it was not completed.
LEMMA ScanOK ==
  ASSUME NEW j \in Jobs, JobOK(job[j]), "security_scan" \in job[j].todo, NEW a \in Assessments
  PROVE  JobOK([Return(j, "security_scan", {"security_scan"},
                       IF a.complete THEN {} ELSE {"security_scan"})
                  EXCEPT !.assessment = a])
<1>. DEFINE r == job[j]
            failed == IF a.complete THEN {} ELSE {"security_scan"}
            t == Return(j, "security_scan", {"security_scan"}, failed)
            s == [t EXCEPT !.assessment = a]
<1>1. r \in JobRecord /\ "security_scan" \in Stages /\ failed \in SUBSET Stages
  BY DEF JobOK, Stages
<1>2. /\ r.pc = "running" /\ r.todo = {"security_scan"} /\ r.ran = {}
  BY TodoFacts
<1>3. /\ t \in JobRecord
      /\ t.todo = {} /\ t.ran = {"security_scan"}
      /\ t.writes = r.writes \cup {"security_scan"} /\ t.fails = r.fails \cup failed
      /\ t.pc = r.pc /\ t.state = r.state /\ t.report = r.report
      /\ t.exposed = r.exposed
      /\ t.filled = r.filled /\ t.graph_errors = r.graph_errors
      /\ t.done_stages = r.done_stages /\ t.failed_stages = r.failed_stages
      /\ t.skipped_stages = r.skipped_stages
  <2>1. /\ r.writes \cup {"security_scan"} \in SUBSET Stages
        /\ r.fails \cup failed \in SUBSET Stages /\ {"security_scan"} \in SUBSET Stages
    BY <1>1 DEF JobRecord
  <2>2. t = [r EXCEPT !.todo = {}, !.ran = {"security_scan"},
                      !.writes = r.writes \cup {"security_scan"},
                      !.fails = r.fails \cup failed]
    BY <1>1, <1>2 DEF Return, JobRecord
  <2>. HIDE DEF r, t, failed
  <2>. QED  BY <1>1, <2>1, <2>2 DEF JobRecord
<1>4. s \in JobRecord
  BY <1>3 DEF JobRecord
<1>5. /\ s.todo = {} /\ s.ran = {"security_scan"}
      /\ s.writes = r.writes \cup {"security_scan"} /\ s.fails = r.fails \cup failed
      /\ s.pc = "running" /\ s.state = r.state /\ s.report = r.report
      /\ s.exposed = r.exposed /\ s.assessment = a
      /\ s.filled = r.filled /\ s.graph_errors = r.graph_errors
      /\ s.done_stages = r.done_stages /\ s.failed_stages = r.failed_stages
      /\ s.skipped_stages = r.skipped_stages
  BY <1>2, <1>3 DEF JobRecord
<1>. HIDE DEF s
<1>6. r.writes = {} /\ r.fails = {}
  BY <1>2 DEF JobOK, NodesOK
<1>7. /\ r.filled = {} /\ r.graph_errors = {}
      /\ r.done_stages = {} /\ r.failed_stages = {} /\ r.skipped_stages = {}
  BY <1>2 DEF JobOK, HistoryOK, Past, Step
<1>8. Step(s) = {"security_scan"}
  BY <1>5 DEF Step
<1>9. StepOK(s)
  BY <1>5, <1>8 DEF StepOK, Supersteps, Fresh
<1>10. GateOK(s) /\ BoardOK(s)
  BY <1>5, <1>7 DEF GateOK, BoardOK, Analysis
<1>11. OutcomeOK(s)
  BY <1>2, <1>5 DEF JobOK, OutcomeOK, Fresh, Finals
<1>12. NodesOK(s)
  BY <1>5, <1>6 DEF NodesOK
<1>13. HistoryOK(s)
  BY <1>5, <1>7, <1>8 DEF HistoryOK, Past, Stopped
<1>. QED  BY <1>4, <1>9, <1>10, <1>11, <1>12, <1>13 DEF JobOK, s

\* Any other node returns its field or an error, whatever its prompt shows.
LEMMA NodeOK ==
  ASSUME NEW j \in Jobs, JobOK(job[j]), NEW n \in job[j].todo, n # "security_scan",
         NEW wrote \in {{}, {n}}, NEW failed \in {{}, {n}},
         wrote \cap failed = {},
         n # "index" => wrote \cup failed = {n},
         n \in {"compose", "enrich"} => failed = {},
         NEW shown \in BOOLEAN
  PROVE  JobOK([Return(j, n, wrote, failed) EXCEPT !.exposed = shown])
<1>. DEFINE r == job[j]
            t == Return(j, n, wrote, failed)
            s == [t EXCEPT !.exposed = shown]
<1>1. r \in JobRecord /\ n \in Stages /\ wrote \in SUBSET Stages /\ failed \in SUBSET Stages
  BY TodoFacts DEF JobOK
<1>2. /\ r.pc = "running" /\ r.assessment \in Assessments
      /\ "security_scan" \notin Step(r)
  BY TodoFacts
<1>3. /\ t \in JobRecord
      /\ t.todo = r.todo \ {n} /\ t.ran = r.ran \cup {n}
      /\ t.writes = r.writes \cup wrote /\ t.fails = r.fails \cup failed
      /\ t.pc = r.pc /\ t.state = r.state /\ t.report = r.report
      /\ t.assessment = r.assessment
      /\ t.filled = r.filled /\ t.graph_errors = r.graph_errors
      /\ t.done_stages = r.done_stages /\ t.failed_stages = r.failed_stages
      /\ t.skipped_stages = r.skipped_stages
  <2>1. /\ r.todo \ {n} \in SUBSET Stages /\ r.ran \cup {n} \in SUBSET Stages
        /\ r.writes \cup wrote \in SUBSET Stages /\ r.fails \cup failed \in SUBSET Stages
    BY <1>1 DEF JobRecord
  <2>2. t = [r EXCEPT !.todo = r.todo \ {n}, !.ran = r.ran \cup {n},
                      !.writes = r.writes \cup wrote, !.fails = r.fails \cup failed]
    BY <1>1 DEF Return, JobRecord
  <2>. HIDE DEF r, t
  <2>. QED  BY <1>1, <2>1, <2>2 DEF JobRecord
<1>4. s \in JobRecord
  BY <1>3 DEF JobRecord
<1>5. /\ s.todo = r.todo \ {n} /\ s.ran = r.ran \cup {n}
      /\ s.writes = r.writes \cup wrote /\ s.fails = r.fails \cup failed
      /\ s.pc = "running" /\ s.state = r.state /\ s.report = r.report
      /\ s.exposed = shown /\ s.assessment = r.assessment
      /\ s.filled = r.filled /\ s.graph_errors = r.graph_errors
      /\ s.done_stages = r.done_stages /\ s.failed_stages = r.failed_stages
      /\ s.skipped_stages = r.skipped_stages
  BY <1>2, <1>3 DEF JobRecord
<1>. HIDE DEF s
<1>6. Step(s) = Step(r) /\ s.todo \cap s.ran = {}
  BY <1>2, <1>5 DEF JobOK, StepOK, Step
<1>7. StepOK(s)
  BY <1>2, <1>5, <1>6 DEF JobOK, StepOK, Fresh
<1>8. GateOK(s)
  BY <1>5, <1>6 DEF JobOK, GateOK, Step
<1>9. BoardOK(s)
  BY <1>5 DEF JobOK, BoardOK
<1>10. OutcomeOK(s)
  BY <1>2, <1>5 DEF JobOK, OutcomeOK, Fresh, Finals
<1>11. n \notin r.ran
  BY <1>2 DEF JobOK, StepOK
<1>12. NodesOK(s)
  BY <1>2, <1>5, <1>11 DEF JobOK, NodesOK, Step
<1>13. HistoryOK(s)
  BY <1>2, <1>5, <1>6 DEF JobOK, HistoryOK, Stopped
<1>. QED  BY <1>4, <1>7, <1>8, <1>9, <1>10, <1>12, <1>13 DEF JobOK, s

\* The edges of the graph: a superstep leads to one superstep, only composing
\* leads to none, and indexing starts only when the assessment allows it.
LEMMA SuccessorsOK ==
  ASSUME NEW ran \in Supersteps, NEW a, NEW errors
  PROVE  LET next == Successors(ran, a, errors)
         IN  /\ next \in SUBSET Stages
             /\ ran = {"compose"} => next = {}
             /\ ran # {"compose"} => next \in Supersteps
             /\ "security_scan" \notin next
             /\ ran = {"security_scan"} => /\ Allows(a) => next = {"index"}
                                           /\ ~Allows(a) => next = {"compose"}
             /\ ran = {"index"} => /\ errors = {} => next = {"classify"}
                                   /\ errors # {} => next = {"compose"}
             /\ ran = {"classify"} => next = {"extract"}
             /\ ran = {"extract"} => next = {"analyze", "enrich"}
             /\ ran = {"analyze", "enrich"} => next = {"risk", "strategy"}
             /\ ran = {"risk", "strategy"} => next = {"compose"}
<1>1. CASE ran = {"security_scan"}
  BY <1>1 DEF Supersteps, Successors, AfterSecurityScan, Stages
<1>2. CASE ran = {"index"}
  BY <1>2 DEF Supersteps, Successors, AfterIndex, Stages
<1>3. CASE ran = {"classify"}
  BY <1>3 DEF Supersteps, Successors, Stages
<1>4. CASE ran = {"extract"}
  BY <1>4 DEF Supersteps, Successors, Stages
<1>5. CASE ran = {"analyze", "enrich"}
  BY <1>5 DEF Supersteps, Successors, Stages
<1>6. CASE ran = {"risk", "strategy"}
  BY <1>6 DEF Supersteps, Successors, Stages
<1>7. CASE ran = {"compose"}
  BY <1>7 DEF Supersteps, Successors, Stages
<1>. QED  BY <1>1, <1>2, <1>3, <1>4, <1>5, <1>6, <1>7 DEF Supersteps

\* A superstep is not among those behind it.
LEMMA PastOK ==
  ASSUME NEW ran \in Supersteps
  PROVE  /\ Past(ran) \subseteq Stages /\ Past(ran) \cap ran = {}
         /\ "compose" \notin Past(ran)
BY DEF Supersteps, Past, Stages

\* The fields of a job after the writes of a superstep were merged and shown.
LEMMA MergedEffect ==
  ASSUME NEW j \in Jobs, JobOK(job[j]), job[j].ran \in Supersteps
  PROVE  LET m == UpdateStages(Merged(j))
         IN  /\ m \in JobRecord
             /\ m.filled = job[j].filled \cup job[j].writes
             /\ m.graph_errors = job[j].graph_errors \cup job[j].fails
             /\ m.todo = Successors(job[j].ran, job[j].assessment,
                                    job[j].graph_errors \cup job[j].fails)
             /\ m.ran = {} /\ m.writes = {} /\ m.fails = {}
             /\ m.done_stages = job[j].done_stages \cup m.filled
             /\ m.failed_stages = job[j].failed_stages \cup m.graph_errors
             /\ m.skipped_stages =
                  IF "compose" \in m.filled /\ ~Allows(job[j].assessment)
                  THEN job[j].skipped_stages \cup Analysis ELSE job[j].skipped_stages
             /\ m.pc = job[j].pc /\ m.state = job[j].state
             /\ m.report = job[j].report /\ m.exposed = job[j].exposed
             /\ m.assessment = job[j].assessment
<1>. DEFINE r == job[j]
            F == r.filled \cup r.writes
            E == r.graph_errors \cup r.fails
            next == Successors(r.ran, r.assessment, E)
            t == Merged(j)
            m == UpdateStages(t)
<1>1. r \in JobRecord
  BY DEF JobOK
<1>2. /\ F \in SUBSET Stages /\ E \in SUBSET Stages /\ next \in SUBSET Stages
      /\ {} \in SUBSET Stages
  BY <1>1, SuccessorsOK DEF JobRecord
<1>3. t = [r EXCEPT !.filled = F, !.graph_errors = E, !.ran = {}, !.writes = {},
                    !.fails = {}, !.todo = next]
  BY <1>1 DEF Merged, JobRecord
<1>. HIDE DEF r, F, E, next, t
<1>4. /\ t \in JobRecord
      /\ t.filled = F /\ t.graph_errors = E /\ t.todo = next
      /\ t.ran = {} /\ t.writes = {} /\ t.fails = {}
      /\ t.done_stages = r.done_stages /\ t.failed_stages = r.failed_stages
      /\ t.skipped_stages = r.skipped_stages
      /\ t.pc = r.pc /\ t.state = r.state /\ t.report = r.report
      /\ t.exposed = r.exposed /\ t.assessment = r.assessment
  BY <1>1, <1>2, <1>3 DEF JobRecord
<1>. DEFINE skipped == IF "compose" \in F /\ ~Allows(r.assessment)
                       THEN r.skipped_stages \cup Analysis ELSE r.skipped_stages
<1>5. m = [t EXCEPT !.done_stages = r.done_stages \cup F,
                    !.failed_stages = r.failed_stages \cup E,
                    !.skipped_stages = skipped]
  BY <1>4 DEF UpdateStages, JobRecord
<1>6. /\ r.done_stages \cup F \in SUBSET Stages
      /\ r.failed_stages \cup E \in SUBSET Stages
      /\ skipped \in SUBSET Stages
  BY <1>1, <1>2 DEF JobRecord, Analysis
<1>. HIDE DEF skipped, m
<1>7. /\ m \in JobRecord
      /\ m.filled = F /\ m.graph_errors = E /\ m.todo = next
      /\ m.ran = {} /\ m.writes = {} /\ m.fails = {}
      /\ m.done_stages = r.done_stages \cup F /\ m.failed_stages = r.failed_stages \cup E
      /\ m.skipped_stages = skipped
      /\ m.pc = r.pc /\ m.state = r.state /\ m.report = r.report
      /\ m.exposed = r.exposed /\ m.assessment = r.assessment
  BY <1>4, <1>5, <1>6 DEF JobRecord
<1>. QED  BY <1>7 DEF skipped, m, t, next, r, F, E

\* What the merged state says once all nodes of a superstep have returned.
LEMMA MergedFacts ==
  ASSUME NEW r, JobOK(r), r.pc = "running", r.todo = {}
  PROVE  LET F == r.filled \cup r.writes
             E == r.graph_errors \cup r.fails
         IN  /\ r.ran \in Supersteps /\ Step(r) = r.ran
             /\ r.assessment \in Assessments
             /\ F \cup E \subseteq Past(r.ran) \cup r.ran
             /\ F \cap E \subseteq {"security_scan"}
             /\ ~r.assessment.complete => "security_scan" \in E
             /\ ~Stopped(r) /\ E = {} => (Past(r.ran) \cup r.ran) \ {"index"} \subseteq F
             /\ Stopped(r) => F = {"security_scan", "compose"} /\ E \subseteq {"security_scan"}
<1>1. r.ran \in Supersteps /\ Step(r) = r.ran /\ r.assessment \in Assessments
  BY DEF JobOK, StepOK, Step
<1>2. NodesOK(r) /\ HistoryOK(r)
  BY DEF JobOK
<1>3. Past(r.ran) \cap r.ran = {}
  BY <1>1, PastOK
<1>. DEFINE F == r.filled \cup r.writes
            E == r.graph_errors \cup r.fails
<1>4. F \cup E \subseteq Past(r.ran) \cup r.ran
  BY <1>1, <1>2 DEF NodesOK, HistoryOK
<1>5. F \cap E \subseteq {"security_scan"}
  BY <1>1, <1>2, <1>3 DEF NodesOK, HistoryOK
<1>6. ~r.assessment.complete => "security_scan" \in E
  BY <1>2 DEF NodesOK
<1>7. ~Stopped(r) /\ E = {} => (Past(r.ran) \cup r.ran) \ {"index"} \subseteq F
  BY <1>1, <1>2 DEF NodesOK, HistoryOK
<1>8. ASSUME Stopped(r)
      PROVE  F = {"security_scan", "compose"} /\ E \subseteq {"security_scan"}
  <2>1. r.ran = {"compose"}
    BY <1>1, <1>8 DEF Stopped
  <2>2. r.fails = {} /\ r.writes = {"compose"}
    BY <1>2, <2>1 DEF NodesOK
  <2>. QED  BY <1>2, <1>8, <2>2 DEF HistoryOK
<1>. QED  BY <1>1, <1>4, <1>5, <1>6, <1>7, <1>8

\* What lies behind the next superstep is what lay behind this one, and this one.
LEMMA NextPast ==
  ASSUME NEW ran \in Supersteps, NEW a, NEW errors, ran # {"compose"}
  PROVE  LET next == Successors(ran, a, errors)
         IN  /\ Past(ran) \cup ran \subseteq Past(next)
             /\ "compose" \notin Past(ran) \cup ran
             /\ next # {"compose"} => Past(next) = Past(ran) \cup ran
             /\ (next = {"compose"} /\ ran # {"security_scan"} /\ errors = {}) =>
                  Past(next) = Past(ran) \cup ran
             /\ ran # {"security_scan"} => Analysis \cap ran # {}
<1>. DEFINE next == Successors(ran, a, errors)
<1>1. /\ next \in Supersteps
      /\ ran = {"security_scan"} => next \in {{"index"}, {"compose"}}
      /\ ran = {"index"} => /\ errors = {} => next = {"classify"}
                            /\ errors # {} => next = {"compose"}
      /\ ran = {"classify"} => next = {"extract"}
      /\ ran = {"extract"} => next = {"analyze", "enrich"}
      /\ ran = {"analyze", "enrich"} => next = {"risk", "strategy"}
      /\ ran = {"risk", "strategy"} => next = {"compose"}
  BY SuccessorsOK
<1>2. /\ Past({"security_scan"}) = {}
      /\ Past({"index"}) = {"security_scan"}
      /\ Past({"classify"}) = {"security_scan", "index"}
      /\ Past({"extract"}) = {"security_scan", "index", "classify"}
      /\ Past({"analyze", "enrich"}) = {"security_scan", "index", "classify", "extract"}
      /\ Past({"risk", "strategy"}) = Stages \ {"risk", "strategy", "compose"}
      /\ Past({"compose"}) = Stages \ {"compose"}
  BY DEF Past
<1>3. CASE ran = {"security_scan"}
  BY <1>1, <1>2, <1>3 DEF Stages
<1>4. CASE ran = {"index"}
  BY <1>1, <1>2, <1>4 DEF Stages, Analysis
<1>5. CASE ran = {"classify"}
  BY <1>1, <1>2, <1>5 DEF Stages, Analysis
<1>6. CASE ran = {"extract"}
  BY <1>1, <1>2, <1>6 DEF Stages, Analysis
<1>7. CASE ran = {"analyze", "enrich"}
  BY <1>1, <1>2, <1>7 DEF Stages, Analysis
<1>8. CASE ran = {"risk", "strategy"}
  BY <1>1, <1>2, <1>8 DEF Stages, Analysis
<1>. QED  BY <1>3, <1>4, <1>5, <1>6, <1>7, <1>8 DEF Supersteps

\* The end of a superstep that has a successor.
LEMMA SuperstepOK ==
  ASSUME NEW j \in Jobs, JobOK(job[j]), job[j].pc = "running", job[j].todo = {},
         UpdateStages(Merged(j)).todo # {}
  PROVE  JobOK(UpdateStages(Merged(j)))
<1>. DEFINE r == job[j]
            m == UpdateStages(Merged(j))
            F == r.filled \cup r.writes
            E == r.graph_errors \cup r.fails
            next == Successors(r.ran, r.assessment, E)
<1>1. /\ r.ran \in Supersteps /\ Step(r) = r.ran
      /\ r.assessment \in Assessments
      /\ F \cup E \subseteq Past(r.ran) \cup r.ran
      /\ F \cap E \subseteq {"security_scan"}
      /\ ~r.assessment.complete => "security_scan" \in E
      /\ ~Stopped(r) /\ E = {} => (Past(r.ran) \cup r.ran) \ {"index"} \subseteq F
  BY MergedFacts
<1>2. /\ m \in JobRecord
      /\ m.filled = F /\ m.graph_errors = E /\ m.todo = next
      /\ m.ran = {} /\ m.writes = {} /\ m.fails = {}
      /\ m.done_stages = r.done_stages \cup F /\ m.failed_stages = r.failed_stages \cup E
      /\ m.skipped_stages = IF "compose" \in F /\ ~Allows(r.assessment)
                            THEN r.skipped_stages \cup Analysis ELSE r.skipped_stages
      /\ m.pc = "running" /\ m.state = r.state /\ m.report = r.report
      /\ m.exposed = r.exposed /\ m.assessment = r.assessment
  BY <1>1, MergedEffect
<1>. HIDE DEF m
<1>3. JobOK(r) /\ r.pc = "running" /\ next # {}
  BY <1>2 DEF m
<1>4. /\ r.ran # {"compose"} /\ next \in Supersteps /\ "security_scan" \notin next
      /\ r.ran = {"security_scan"} /\ Allows(r.assessment) => next = {"index"}
      /\ r.ran = {"security_scan"} /\ ~Allows(r.assessment) => next = {"compose"}
  BY <1>1, <1>3, SuccessorsOK
<1>5. /\ Past(r.ran) \cup r.ran \subseteq Past(next)
      /\ "compose" \notin Past(r.ran) \cup r.ran
      /\ next # {"compose"} => Past(next) = Past(r.ran) \cup r.ran
      /\ (next = {"compose"} /\ r.ran # {"security_scan"} /\ E = {}) =>
           Past(next) = Past(r.ran) \cup r.ran
      /\ r.ran # {"security_scan"} => Analysis \cap r.ran # {}
  BY <1>1, <1>4, NextPast
<1>. HIDE DEF next
<1>6. /\ r.done_stages \subseteq F /\ r.failed_stages \subseteq E
      /\ r.skipped_stages = {} /\ m.skipped_stages = {}
      /\ "security_scan" \in r.ran => r.filled = {} /\ r.graph_errors = {}
  <2>1. "security_scan" \in r.ran => Past(r.ran) = {}
    BY <1>1 DEF Supersteps, Past
  <2>. QED  BY <1>1, <1>2, <1>3, <1>5, <2>1 DEF JobOK, HistoryOK
<1>7. Step(m) = next
  BY <1>2 DEF Step
<1>8. r.ran # {"security_scan"} => Allows(r.assessment)
  BY <1>3, <1>5 DEF JobOK, GateOK
<1>9. /\ r.ran = {"security_scan"} => F = {"security_scan"} /\ E \subseteq {"security_scan"}
  <2>. SUFFICES ASSUME r.ran = {"security_scan"}
                PROVE  F = {"security_scan"} /\ E \subseteq {"security_scan"}
    OBVIOUS
  <2>. QED  BY <1>3, <1>6 DEF JobOK, NodesOK
<1>10. StepOK(m)
  BY <1>1, <1>2, <1>4, <1>7 DEF StepOK, Fresh
<1>11. GateOK(m)
  BY <1>1, <1>2, <1>4, <1>8, <1>9, NoneAssumption DEF GateOK, Analysis
<1>12. BoardOK(m)
  BY <1>1, <1>2, <1>6 DEF BoardOK
<1>13. OutcomeOK(m)
  BY <1>2, <1>3 DEF JobOK, OutcomeOK, Fresh, Finals
<1>14. NodesOK(m)
  BY <1>1, <1>2 DEF NodesOK
<1>15. HistoryOK(m)
  <2>1. Stopped(m) => r.ran = {"security_scan"}
    BY <1>2, <1>8 DEF Stopped
  <2>2. ASSUME ~Stopped(m), E = {}
        PROVE  Past(next) \ {"index"} \subseteq F
    <3>1. ~Stopped(r)
      BY <1>1, <1>4 DEF Stopped
    <3>2. Past(next) = Past(r.ran) \cup r.ran
      BY <1>2, <1>4, <1>5, <1>7, <2>2 DEF Stopped
    <3>. QED  BY <1>1, <2>2, <3>1, <3>2
  <2>. QED  BY <1>1, <1>2, <1>4, <1>5, <1>6, <1>7, <1>9, <2>1, <2>2 DEF HistoryOK
<1>. QED  BY <1>2, <1>10, <1>11, <1>12, <1>13, <1>14, <1>15 DEF JobOK, m

\* The outcome of the last superstep is what happened to the job.
LEMMA FinishOK ==
  ASSUME NEW j \in Jobs, JobOK(job[j]), job[j].pc = "running", job[j].todo = {},
         UpdateStages(Merged(j)).todo = {}
  PROVE  LET m == UpdateStages(Merged(j))
         IN  /\ JobOK([m EXCEPT !.pc = "closing", !.report = TRUE,
                                !.errors = m.graph_errors, !.state = Outcome(m)])
             /\ Outcome(m) \in Finals
<1>. DEFINE r == job[j]
            m == UpdateStages(Merged(j))
            F == r.filled \cup r.writes
            E == r.graph_errors \cup r.fails
            s == [m EXCEPT !.pc = "closing", !.report = TRUE,
                           !.errors = m.graph_errors, !.state = Outcome(m)]
<1>1. /\ r.ran \in Supersteps /\ Step(r) = r.ran
      /\ r.assessment \in Assessments
      /\ F \cup E \subseteq Past(r.ran) \cup r.ran
      /\ F \cap E \subseteq {"security_scan"}
      /\ ~r.assessment.complete => "security_scan" \in E
      /\ ~Stopped(r) /\ E = {} => (Past(r.ran) \cup r.ran) \ {"index"} \subseteq F
      /\ Stopped(r) => F = {"security_scan", "compose"} /\ E \subseteq {"security_scan"}
  BY MergedFacts
<1>2. /\ m \in JobRecord
      /\ m.filled = F /\ m.graph_errors = E
      /\ m.todo = Successors(r.ran, r.assessment, E) /\ m.todo = {}
      /\ m.ran = {} /\ m.writes = {} /\ m.fails = {}
      /\ m.done_stages = r.done_stages \cup F /\ m.failed_stages = r.failed_stages \cup E
      /\ m.skipped_stages = IF "compose" \in F /\ ~Allows(r.assessment)
                            THEN r.skipped_stages \cup Analysis ELSE r.skipped_stages
      /\ m.exposed = r.exposed /\ m.assessment = r.assessment
  BY <1>1, MergedEffect
<1>. HIDE DEF m
<1>3. r.ran = {"compose"}
  <2>1. {} \notin Supersteps
    BY DEF Supersteps
  <2>2. Successors(r.ran, r.assessment, E) = {}
    BY <1>2
  <2>3. r.ran # {"compose"} => Successors(r.ran, r.assessment, E) \in Supersteps
    <3>. HIDE DEF r, E
    <3>. QED  BY <1>1, SuccessorsOK
  <2>. QED  BY <2>1, <2>2, <2>3
<1>4. /\ Stopped(r) <=> ~Allows(r.assessment)
      /\ Past(r.ran) \cup r.ran = Stages
      /\ r.done_stages \subseteq F /\ r.failed_stages \subseteq E /\ r.skipped_stages = {}
  BY <1>1, <1>3 DEF JobOK, HistoryOK, Stopped, Past, Stages
<1>5. /\ Outcome(m) \in Finals \ {"failed"}
      /\ Outcome(m) \in {"review_required", "blocked"} =>
           m.assessment.complete /\ ~Allows(m.assessment)
      /\ Outcome(m) = "partial" => E # {}
      /\ Outcome(m) = "succeeded" => E = {} /\ Allows(m.assessment)
  <2>1. CASE m.assessment.complete /\ m.assessment.action = "human_review"
    BY <2>1 DEF Outcome, Allows, Finals
  <2>2. CASE m.assessment.complete /\ m.assessment.action = "block"
    BY <2>2 DEF Outcome, Allows, Finals
  <2>3. CASE Allows(m.assessment)
    BY <1>2, <2>3 DEF Outcome, Allows, Finals
  <2>4. CASE ~m.assessment.complete
    BY <1>1, <1>2, <2>4 DEF Outcome, Allows, Finals
  <2>. QED  BY <1>1, <1>2, <2>1, <2>2, <2>3, <2>4 DEF Assessments, Allows
<1>6. s \in JobRecord
  BY <1>2, <1>5 DEF JobRecord
<1>7. /\ s.pc = "closing" /\ s.report = TRUE /\ s.errors = E /\ s.state = Outcome(m)
      /\ s.todo = {} /\ s.ran = {} /\ s.filled = F
      /\ s.exposed = r.exposed /\ s.assessment = r.assessment
      /\ s.done_stages = F /\ s.failed_stages = E
      /\ s.skipped_stages = IF "compose" \in F /\ ~Allows(r.assessment)
                            THEN Analysis ELSE {}
  BY <1>2, <1>4 DEF JobRecord
<1>. HIDE DEF s
<1>8. StepOK(s)
  BY <1>7 DEF StepOK, Step, Fresh
<1>9. GateOK(s)
  BY <1>1, <1>4, <1>7, NoneAssumption DEF GateOK, Analysis
<1>10. BoardOK(s)
  BY <1>1, <1>4, <1>7 DEF BoardOK, Analysis
<1>11. OutcomeOK(s)
  BY <1>1, <1>2, <1>4, <1>5, <1>7 DEF OutcomeOK, Fresh
<1>. QED  BY <1>5, <1>6, <1>7, <1>8, <1>9, <1>10, <1>11 DEF JobOK, s, m

-----------------------------------------------------------------------------
(* The specification. *)

\* A job that has not been uploaded, or that a restart forgot, is in order.
LEMMA AbsentOK ==
  /\ JobOK(Absent)
  /\ JobOK([Absent EXCEPT !.pc = "lost"])
<1>. DEFINE s == [Absent EXCEPT !.pc = "lost"]
<1>1. Absent \in JobRecord /\ s \in JobRecord
  BY DEF Absent, JobRecord
<1>2. None \notin Finals /\ None \notin {"succeeded", "review_required", "blocked",
                                         "partial", "failed"}
  BY NoneAssumption DEF Finals
<1>3. JobOK(Absent)
  BY <1>1, <1>2 DEF JobOK, Absent, StepOK, Step, Fresh, FreshOK, GateOK,
     BoardOK, OutcomeOK
<1>4. /\ s.todo = {} /\ s.ran = {} /\ s.pc = "lost" /\ s.filled = {} /\ s.graph_errors = {}
      /\ s.writes = {} /\ s.fails = {} /\ s.exposed = FALSE /\ s.report = FALSE
      /\ s.done_stages = {} /\ s.failed_stages = {} /\ s.skipped_stages = {}
      /\ s.state = None
  BY DEF Absent
<1>. HIDE DEF s
<1>5. JobOK(s)
  BY <1>1, <1>2, <1>4 DEF JobOK, StepOK, Step, Fresh, FreshOK, GateOK,
     BoardOK, OutcomeOK
<1>. QED  BY <1>3, <1>5 DEF s

\* The steps of one job keep every job in order.
LEMMA AdvanceJobOK ==
  ASSUME JobInv, NEW j \in Jobs, Upload(j) \/ Advance(j)
  PROVE  JobInv'
<1>. DEFINE r == job[j]
<1>1. JobOK(r) /\ r \in JobRecord /\ job \in [Jobs -> JobRecord]
  BY DEF JobInv
<1>2. CASE Upload(j)
  <2>1. PICK d \in Docs : BeginUpload(j, d)
    BY <1>2 DEF Upload
  <2>2. job' = [job EXCEPT ![j] = [r EXCEPT !.pc = "uploading", !.doc = d]]
    BY <1>1, <2>1 DEF BeginUpload
  <2>3. JobOK([r EXCEPT !.pc = "uploading", !.doc = d])
    BY <1>1, <2>1, BeginOK DEF BeginUpload, Fresh
  <2>. QED  BY <2>2, <2>3, OneJobOK
<1>3. CASE RejectUpload(j)
  <2>1. job' = [job EXCEPT ![j] = [r EXCEPT !.pc = "rejected", !.state = r.state]]
    BY <1>1, <1>3 DEF RejectUpload, JobRecord
  <2>2. r.pc \in Fresh /\ r.state \in {None, "queued", "running"}
    BY <1>1, <1>3 DEF RejectUpload, Fresh, JobOK, OutcomeOK, JobRecord
  <2>3. JobOK([r EXCEPT !.pc = "rejected", !.state = r.state])
    BY <1>1, <2>2, MoveOK DEF Fresh
  <2>. QED  BY <2>1, <2>3, OneJobOK
<1>4. CASE AcceptUpload(j)
  <2>1. job' = [job EXCEPT ![j] = [r EXCEPT !.pc = "queued", !.state = "queued"]]
    BY <1>1, <1>4 DEF AcceptUpload
  <2>2. JobOK([r EXCEPT !.pc = "queued", !.state = "queued"])
    BY <1>1, <1>4, MoveOK DEF AcceptUpload, Fresh
  <2>. QED  BY <2>1, <2>2, OneJobOK
<1>5. CASE StartJob(j)
  <2>1. job' = [job EXCEPT ![j] = [r EXCEPT !.pc = "ingesting", !.state = "running"]]
    BY <1>1, <1>5 DEF StartJob
  <2>2. JobOK([r EXCEPT !.pc = "ingesting", !.state = "running"])
    BY <1>1, <1>5, MoveOK DEF StartJob, Fresh
  <2>. QED  BY <2>1, <2>2, OneJobOK
<1>6. CASE Ingested(j)
  <2>1. job' = [job EXCEPT ![j] = [r EXCEPT !.pc = "running", !.todo = {"security_scan"}]]
    BY <1>1, <1>6 DEF Ingested
  <2>2. JobOK([r EXCEPT !.pc = "running", !.todo = {"security_scan"}])
    BY <1>1, <1>6, IngestedOK DEF Ingested
  <2>. QED  BY <2>1, <2>2, OneJobOK
<1>7. CASE \E a \in Assessments : SecurityScan(j, a)
  <2>1. PICK a \in Assessments : SecurityScan(j, a)
    BY <1>7
  <2>. QED  BY <1>1, <2>1, ScanOK, OneJobOK DEF SecurityScan
<1>8. CASE IndexDocument(j) \/ IndexFails(j)
  <2>1. PICK wrote \in {{}, {"index"}}, failed \in {{}, {"index"}} :
          /\ wrote \cap failed = {}
          /\ job' = [job EXCEPT ![j] = Return(j, "index", wrote, failed)]
    BY <1>8 DEF IndexDocument, IndexFails
  <2>2. "index" \in r.todo
    BY <1>8 DEF IndexDocument, IndexFails
  <2>3. /\ [Return(j, "index", wrote, failed) EXCEPT !.exposed = r.exposed]
             = Return(j, "index", wrote, failed)
        /\ r.exposed \in BOOLEAN
    BY <1>1 DEF Return, JobRecord
  <2>4. JobOK([Return(j, "index", wrote, failed) EXCEPT !.exposed = r.exposed])
    BY <1>1, <2>1, <2>2, <2>3, NodeOK
  <2>. QED  BY <2>1, <2>3, <2>4, OneJobOK
<1>9. CASE \E n \in Agents, ok \in BOOLEAN : RunAgent(j, n, ok)
  <2>1. PICK n \in Agents, ok \in BOOLEAN : RunAgent(j, n, ok)
    BY <1>9
  <2>. DEFINE wrote == IF ok THEN {n} ELSE {}
              failed == IF ok THEN {} ELSE {n}
              t == Return(j, n, wrote, failed)
              shown == r.exposed \/ ShowsFlagged(j, n)
  <2>2. n \in r.todo /\ n \notin {"security_scan", "index", "compose", "enrich"}
    BY <2>1 DEF RunAgent, Agents
  <2>3. t.exposed = r.exposed /\ r.exposed \in BOOLEAN
    BY <1>1 DEF Return, JobRecord
  <2>4. job' = [job EXCEPT ![j] = [t EXCEPT !.exposed = shown]]
    BY <2>1, <2>3 DEF RunAgent
  <2>5. shown \in BOOLEAN
    BY <2>3
  <2>6. /\ wrote \in {{}, {n}} /\ failed \in {{}, {n}}
        /\ wrote \cap failed = {} /\ wrote \cup failed = {n}
    OBVIOUS
  <2>. HIDE DEF wrote, failed, shown
  <2>7. JobOK([t EXCEPT !.exposed = shown])
    BY <1>1, <2>2, <2>5, <2>6, NodeOK
  <2>. QED  BY <2>4, <2>7, OneJobOK
<1>10. CASE \E n \in {"enrich", "compose"} : RunDeterministic(j, n)
  <2>1. PICK n \in {"enrich", "compose"} : RunDeterministic(j, n)
    BY <1>10
  <2>2. n \in r.todo /\ n \notin {"security_scan", "index"}
    BY <2>1 DEF RunDeterministic
  <2>3. /\ [Return(j, n, {n}, {}) EXCEPT !.exposed = r.exposed] = Return(j, n, {n}, {})
        /\ r.exposed \in BOOLEAN
    BY <1>1 DEF Return, JobRecord
  <2>4. JobOK([Return(j, n, {n}, {}) EXCEPT !.exposed = r.exposed])
    BY <1>1, <2>2, <2>3, NodeOK
  <2>. QED  BY <2>1, <2>3, <2>4, OneJobOK DEF RunDeterministic
<1>11. CASE Superstep(j)
  BY <1>1, <1>11, SuperstepOK, OneJobOK DEF Superstep
<1>12. CASE Finish(j)
  BY <1>1, <1>12, FinishOK, OneJobOK DEF Finish
<1>13. CASE Crash(j)
  <2>1. r.pc \in {"ingesting", "running"}
    BY <1>1, <1>13, TodoFacts DEF Crash
  <2>2. job' = [job EXCEPT ![j] =
                 [r EXCEPT !.pc = "closing", !.todo = {}, !.ran = {},
                           !.state = "failed", !.errors = {"exception"}]]
    BY <1>1, <1>13 DEF Crash
  <2>. QED  BY <1>1, <2>1, <2>2, CrashOK, OneJobOK
<1>14. CASE RemoveUpload(j) \/ RemoveUploadFails(j)
  <2>1. PICK pc \in {"done", "undeleted"} : job' = [job EXCEPT ![j] = [r EXCEPT !.pc = pc]]
    BY <1>1, <1>14 DEF RemoveUpload, RemoveUploadFails
  <2>2. r.pc = "closing"
    BY <1>14 DEF RemoveUpload, RemoveUploadFails
  <2>. QED  BY <1>1, <2>1, <2>2, CloseOK, OneJobOK
<1>. QED  BY <1>2, <1>3, <1>4, <1>5, <1>6, <1>7, <1>8, <1>9, <1>10, <1>11,
             <1>12, <1>13, <1>14 DEF Advance

\* Every step of the service keeps every job in order.
LEMMA NextJobOK == JobInv /\ [Next]_vars => JobInv'
<1>. SUFFICES ASSUME JobInv, [Next]_vars
              PROVE  JobInv'
  OBVIOUS
<1>1. CASE \E j \in Jobs : Upload(j) \/ Advance(j)
  BY <1>1, AdvanceJobOK
<1>2. CASE Restart \/ Shutdown
  <2>1. job' = Forgotten
    BY <1>2 DEF Restart, Shutdown
  <2>2. \A j \in Jobs : JobOK(job'[j])
    BY <2>1, AbsentOK DEF Forgotten
  <2>. QED  BY <2>1, <2>2 DEF JobInv, JobOK, Forgotten
<1>3. CASE UNCHANGED vars
  BY <1>3 DEF vars, JobInv
<1>. QED  BY <1>1, <1>2, <1>3 DEF Next

\* From the first state on.
LEMMA AlwaysJobInv == Spec => []JobInv
<1>1. Init => JobInv
  BY AbsentOK DEF Init, JobInv, JobOK
<1>. QED  BY <1>1, NextJobOK, PTL DEF Spec

\* Nothing of a document is indexed or analysed unless the scan of
\* the same job allows it, whichever nodes fail in whichever order.
THEOREM GateCorrect == Spec => []GateComesFirst
<1>1. JobInv => GateComesFirst
  BY DEF JobInv, JobOK, GateOK, GateComesFirst
<1>. QED  BY <1>1, AlwaysJobInv, PTL

\* The progress board never contradicts itself.
THEOREM BoardCorrect == Spec => []BoardIsConsistent
<1>1. JobInv => BoardIsConsistent
  BY DEF JobInv, JobOK, BoardOK, BoardIsConsistent
<1>. QED  BY <1>1, AlwaysJobInv, PTL

\* The final state of a job is what happened to it.
THEOREM OutcomeCorrect == Spec => []OutcomeIsTrue
<1>1. JobInv => OutcomeIsTrue
  BY DEF JobInv, JobOK, OutcomeOK, OutcomeIsTrue
<1>. QED  BY <1>1, AlwaysJobInv, PTL

-----------------------------------------------------------------------------
(* The run log. *)

\* The log is written once per job, when it ends, and by a shutdown.
LEMMA RunsEffect ==
  ASSUME JobInv, NEW j \in Jobs, Upload(j) \/ Advance(j)
  PROVE  \/ runs' = runs
         \/ /\ job[j].pc \in {"ingesting", "running"}
            /\ job' = [job EXCEPT ![j] = job'[j]]
            /\ job'[j].pc = "closing"
            /\ job'[j].state \in Finals
            /\ runs' = runs \cup {[job |-> j, outcome |-> job'[j].state]}
<1>1. JobOK(job[j]) /\ job \in [Jobs -> JobRecord]
  BY DEF JobInv
<1>2. CASE Finish(j)
  <2>. DEFINE m == UpdateStages(Merged(j))
              s == [m EXCEPT !.pc = "closing", !.report = TRUE,
                             !.errors = m.graph_errors, !.state = Outcome(m)]
  <2>1. /\ job[j].pc = "running" /\ job[j].todo = {} /\ m.todo = {}
        /\ job' = [job EXCEPT ![j] = s]
        /\ PersistRun(j, Outcome(m))
    BY <1>2 DEF Finish
  <2>2. JobOK(s) /\ Outcome(m) \in Finals
    BY <1>1, <2>1, FinishOK
  <2>3. m \in JobRecord
    BY <1>1, <2>1, MergedFacts, MergedEffect
  <2>. HIDE DEF m
  <2>4. s.pc = "closing" /\ s.state = Outcome(m)
    BY <2>3 DEF JobRecord
  <2>. QED  BY <1>1, <2>1, <2>2, <2>4 DEF PersistRun
<1>3. CASE Crash(j)
  <2>1. job[j].pc \in {"ingesting", "running"}
    BY <1>1, <1>3, TodoFacts DEF Crash
  <2>2. job'[j] = [job[j] EXCEPT !.pc = "closing", !.todo = {}, !.ran = {},
                                 !.state = "failed", !.errors = {"exception"}]
    BY <1>1, <1>3 DEF Crash
  <2>3. job'[j].pc = "closing" /\ job'[j].state = "failed"
    BY <1>1, <2>2 DEF JobRecord
  <2>4. job' = [job EXCEPT ![j] = job'[j]]
    BY <1>1, <1>3 DEF Crash
  <2>. QED  BY <1>3, <2>1, <2>3, <2>4 DEF Crash, Finals
<1>. QED
  BY <1>2, <1>3 DEF Upload, BeginUpload, Advance, RejectUpload, AcceptUpload,
     StartJob, Ingested, SecurityScan, IndexDocument, IndexFails, RunAgent,
     RunDeterministic, Superstep, RemoveUpload, RemoveUploadFails

\* A job that has ended keeps its outcome.
LEMMA EndedEffect ==
  ASSUME JobInv, NEW j \in Jobs, Upload(j) \/ Advance(j),
         job[j].pc \in Over
  PROVE  /\ job'[j].pc \in Over
         /\ job'[j].pc = "lost" <=> job[j].pc = "lost"
         /\ job'[j].state = job[j].state
<1>1. JobOK(job[j]) /\ job[j] \in JobRecord /\ job \in [Jobs -> JobRecord]
  BY DEF JobInv, JobOK
<1>2. job[j].todo = {}
  BY <1>1 DEF JobOK, StepOK, Step, Over
<1>3. RemoveUpload(j) \/ RemoveUploadFails(j)
  BY <1>2 DEF Over, Upload, BeginUpload, Advance, RejectUpload, AcceptUpload,
     StartJob, Ingested, SecurityScan, IndexDocument, IndexFails, RunAgent,
     RunDeterministic, Superstep, Finish, Crash
<1>4. /\ job[j].pc = "closing"
      /\ \E pc \in {"done", "undeleted"} : job'[j] = [job[j] EXCEPT !.pc = pc]
  BY <1>1, <1>3 DEF RemoveUpload, RemoveUploadFails
<1>. QED  BY <1>1, <1>4 DEF JobRecord, Over

\* A step of one job leaves the others alone.
LEMMA OthersEffect ==
  ASSUME JobInv, NEW j \in Jobs, Upload(j) \/ Advance(j), NEW k \in Jobs \ {j}
  PROVE  job'[k] = job[k]
BY DEF JobInv, Upload, BeginUpload, Advance, RejectUpload, AcceptUpload,
   StartJob, Ingested, SecurityScan, IndexDocument, IndexFails, RunAgent,
   RunDeterministic, Superstep, Finish, Crash, RemoveUpload, RemoveUploadFails

RunsTyped == runs \subseteq [job : Jobs, outcome : Finals \cup {"running"}]

\* Every step of a job keeps the log true.
LEMMA AdvanceRunLogOK ==
  ASSUME JobInv, RunsTyped, RunLogIsTrue, NEW j \in Jobs, Upload(j) \/ Advance(j)
  PROVE  RunsTyped' /\ RunLogIsTrue'
<1>1. CASE runs' = runs
  <2>1. \A r \in runs : r.job \in Jobs
    BY DEF RunsTyped
  <2>2. \A r \in runs : /\ job'[r.job].pc \in Over
                        /\ job'[r.job].pc = "lost" <=> job[r.job].pc = "lost"
                        /\ job'[r.job].state = job[r.job].state
    BY <2>1, EndedEffect, OthersEffect DEF RunLogIsTrue
  <2>. QED  BY <1>1, <2>1, <2>2 DEF RunsTyped, RunLogIsTrue
<1>2. CASE /\ job[j].pc \in {"ingesting", "running"}
           /\ job' = [job EXCEPT ![j] = job'[j]]
           /\ job'[j].pc = "closing"
           /\ job'[j].state \in Finals
           /\ runs' = runs \cup {[job |-> j, outcome |-> job'[j].state]}
  <2>1. \A r \in runs : r.job \in Jobs /\ r.job # j
    BY <1>2 DEF RunsTyped, RunLogIsTrue, Over
  <2>2. \A r \in runs : job'[r.job] = job[r.job]
    BY <2>1, OthersEffect
  <2>3. "running" \notin Finals
    BY DEF Finals
  <2>. QED  BY <1>2, <2>1, <2>2, <2>3 DEF RunsTyped, RunLogIsTrue, Over
<1>. QED  BY <1>1, <1>2, RunsEffect

\* Restarts and shutdowns keep the log true, of the jobs they cut off too.
LEMMA NextRunLogOK ==
  JobInv /\ RunsTyped /\ RunLogIsTrue /\ [Next]_vars => RunsTyped' /\ RunLogIsTrue'
<1>. SUFFICES ASSUME JobInv, RunsTyped, RunLogIsTrue, [Next]_vars
              PROVE  RunsTyped' /\ RunLogIsTrue'
  OBVIOUS
<1>1. CASE \E j \in Jobs : Upload(j) \/ Advance(j)
  BY <1>1, AdvanceRunLogOK
<1>2. CASE Restart \/ Shutdown
  <2>. DEFINE CutOff(q) == \E j \in Jobs : /\ q = [job |-> j, outcome |-> "running"]
                                          /\ job[j].pc \in {"ingesting", "running"}
  <2>1. \A q \in runs' : q \in runs \/ CutOff(q)
    BY <1>2 DEF Restart, Shutdown
  <2>2. \A j \in Jobs : job[j].pc # "absent" => job'[j].pc = "lost"
    BY <1>2 DEF Restart, Shutdown, Forgotten, Absent
  <2>3. \A q \in runs : /\ q \in [job : Jobs, outcome : Finals \cup {"running"}]
                        /\ job[q.job].pc \in Over
                        /\ job'[q.job].pc = "lost"
    BY <2>2 DEF RunsTyped, RunLogIsTrue, Over
  <2>4. \A q : CutOff(q) => /\ q \in [job : Jobs, outcome : Finals \cup {"running"}]
                            /\ job[q.job].pc \in {"ingesting", "running"}
                            /\ job'[q.job].pc = "lost"
                            /\ q.outcome = "running"
    BY <2>2
  <2>5. RunsTyped'
    BY <2>1, <2>3, <2>4 DEF RunsTyped
  <2>6. \A q, r \in runs' : q.job = r.job => q = r
    <3>. SUFFICES ASSUME NEW q \in runs', NEW r \in runs', q.job = r.job
                  PROVE  q = r
      OBVIOUS
    <3>1. CASE q \in runs /\ r \in runs
      BY <3>1 DEF RunLogIsTrue
    <3>2. CASE CutOff(q) /\ CutOff(r)
      BY <3>2
    <3>3. ~(q \in runs /\ CutOff(r)) /\ ~(r \in runs /\ CutOff(q))
      BY <2>3, <2>4 DEF Over
    <3>. QED  BY <2>1, <3>1, <3>2, <3>3
  <2>. QED  BY <2>1, <2>3, <2>4, <2>5, <2>6 DEF RunLogIsTrue, Over
<1>3. CASE UNCHANGED vars
  BY <1>3 DEF vars, RunsTyped, RunLogIsTrue
<1>. QED  BY <1>1, <1>2, <1>3 DEF Next

\* The run log names a job at most once, only after it ended, and with the
\* outcome its clients are shown.
THEOREM RunLogCorrect == Spec => []RunLogIsTrue
<1>1. Init => RunsTyped /\ RunLogIsTrue
  BY DEF Init, RunsTyped, RunLogIsTrue
<1>. QED  BY <1>1, AlwaysJobInv, NextRunLogOK, PTL DEF Spec

-----------------------------------------------------------------------------
(* The types. *)

\* Faults and restarts stay within their bounds, uploads and index typed.
DiskOK == /\ uploads \subseteq Jobs
          /\ index \in [Docs -> {"none", "masked", "plain"}]
          /\ faults \in 0..MaxFaults
          /\ restarts \in 0..MaxRestarts

\* The steps of a job keep the disk and the counters typed.
LEMMA AdvanceDiskOK ==
  ASSUME JobInv, DiskOK, NEW j \in Jobs, Upload(j) \/ Advance(j)
  PROVE  DiskOK'
<1>1. JobOK(job[j]) /\ job[j].doc \in Docs \cup {None}
  BY DEF JobInv, JobOK, JobRecord
<1>2. /\ uploads' \subseteq Jobs
      /\ restarts' = restarts
      /\ faults' = faults \/ (faults < MaxFaults /\ faults' = faults + 1)
  BY DEF DiskOK, Upload, BeginUpload, Advance, RejectUpload, AcceptUpload,
     StartJob, Ingested, SecurityScan, IndexDocument, IndexFails, RunAgent,
     RunDeterministic, Superstep, Finish, Crash, RemoveUpload,
     RemoveUploadFails, PersistRun, Fault
<1>3. index' \in [Docs -> {"none", "masked", "plain"}]
  BY DEF DiskOK, Upload, BeginUpload, Advance, RejectUpload, AcceptUpload,
     StartJob, Ingested, SecurityScan, IndexDocument, IndexFails, RunAgent,
     RunDeterministic, Superstep, Finish, Crash, RemoveUpload, RemoveUploadFails
<1>. QED  BY <1>2, <1>3, ConfigAssumption DEF DiskOK

\* Every variable keeps its type, for any number of jobs and documents.
THEOREM JobTypeCorrect == Spec => []TypeOK
<1>1. Init => DiskOK /\ RunsTyped /\ RunLogIsTrue
  BY ConfigAssumption DEF Init, DiskOK, RunsTyped, RunLogIsTrue
<1>2. JobInv /\ DiskOK /\ [Next]_vars => DiskOK'
  <2>. SUFFICES ASSUME JobInv, DiskOK, [Next]_vars
                PROVE  DiskOK'
    OBVIOUS
  <2>1. CASE \E j \in Jobs : Upload(j) \/ Advance(j)
    BY <2>1, AdvanceDiskOK
  <2>2. CASE Restart \/ Shutdown
    BY <2>2, ConfigAssumption DEF DiskOK, Restart, Shutdown, Fault
  <2>3. CASE UNCHANGED vars
    BY <2>3 DEF DiskOK, vars
  <2>. QED  BY <2>1, <2>2, <2>3 DEF Next
<1>3. JobInv /\ DiskOK /\ RunsTyped => TypeOK
  BY DEF JobInv, DiskOK, RunsTyped, TypeOK
<1>. QED  BY <1>1, <1>2, <1>3, AlwaysJobInv, NextRunLogOK, PTL DEF Spec

-----------------------------------------------------------------------------
(* What a client sees of a job follows from where the job is.              *)

ShownOK(r) ==
  /\ r.pc \in {"absent", "uploading", "rejected", "lost"} =>
       /\ PhaseShown(r) = "unknown" /\ StagesShown(r) = {}
       /\ AnswerShown(r) = Polling!NoAnswer
  /\ r.pc = "queued" => PhaseShown(r) = "queued"
  /\ r.pc \in {"ingesting", "running"} => PhaseShown(r) = "running"

ShownInv == \A j \in Jobs : ShownOK(job[j])

\* Two records of a job that a client cannot tell apart.
SameBoard(s, r) == /\ s.report = r.report
                   /\ s.done_stages = r.done_stages /\ s.failed_stages = r.failed_stages
                   /\ s.skipped_stages = r.skipped_stages

SameView(s, r) == s.pc = r.pc /\ s.state = r.state /\ SameBoard(s, r)

\* A step that updates one job updates the view of that job alone.
LEMMA OneJobShown ==
  ASSUME JobInv, NEW j \in Jobs, NEW r, job' = [job EXCEPT ![j] = r]
  PROVE  /\ phase' = [phase EXCEPT ![j] = PhaseShown(r)]
         /\ settled' = [settled EXCEPT ![j] = StagesShown(r)]
         /\ answer' = [answer EXCEPT ![j] = AnswerShown(r)]
         /\ ShownInv /\ ShownOK(r) => ShownInv'
BY DEF JobInv, phase, settled, answer, ShownInv

\* A step that shows the client nothing new is a stutter of the contract.
LEMMA NothingShown ==
  ASSUME JobInv, ShownInv, NEW j \in Jobs, NEW r, job' = [job EXCEPT ![j] = r],
         PhaseShown(r) = PhaseShown(job[j]), StagesShown(r) = StagesShown(job[j]),
         AnswerShown(r) = AnswerShown(job[j]), ShownOK(r)
  PROVE  UNCHANGED Polling!vars /\ ShownInv'
<1>1. phase' = phase /\ settled' = settled /\ answer' = answer
  BY OneJobShown DEF phase, settled, answer
<1>. QED  BY <1>1, OneJobShown DEF Polling!vars

\* Each step of the contract, as a step that changes what is shown of one job.
LEMMA ContractSteps ==
  ASSUME JobInv, ShownInv, NEW j \in Jobs, NEW r, job' = [job EXCEPT ![j] = r], ShownOK(r),
         NEW from, PhaseShown(job[j]) = from, NEW to, PhaseShown(r) = to,
         StagesShown(job[j]) \subseteq StagesShown(r)
  PROVE  /\ /\ from = "unknown" /\ to = "queued"
            /\ StagesShown(r) = StagesShown(job[j]) /\ AnswerShown(r) = AnswerShown(job[j])
            => Polling!Accept(j)
         /\ /\ from = "queued" /\ to = "running"
            /\ StagesShown(r) = StagesShown(job[j]) /\ AnswerShown(r) = AnswerShown(job[j])
            => Polling!Start(j)
         /\ /\ from = "running" /\ to = "running"
            /\ AnswerShown(r) = AnswerShown(job[j])
            => Polling!Progress(j)
         /\ /\ from = "running" /\ to = "final"
            /\ AnswerShown(r).outcome # "none"
            /\ AnswerShown(r).report = (AnswerShown(r).outcome # "failed")
            => Polling!Answer(j)
         /\ ShownInv'
<1>. DEFINE st == StagesShown(r)  an == AnswerShown(r)
            st0 == StagesShown(job[j])  an0 == AnswerShown(job[j])
<1>1. /\ phase' = [phase EXCEPT ![j] = to]
      /\ settled' = [settled EXCEPT ![j] = st]
      /\ answer' = [answer EXCEPT ![j] = an]
      /\ ShownInv'
  BY OneJobShown
<1>2. /\ DOMAIN settled = Jobs /\ DOMAIN answer = Jobs
      /\ phase[j] = from /\ settled[j] = st0 /\ answer[j] = an0
      /\ settled = [k \in Jobs |-> settled[k]] /\ answer = [k \in Jobs |-> answer[k]]
      /\ phase = [k \in Jobs |-> phase[k]]
  BY DEF phase, settled, answer
<1>3. st0 \subseteq st
  OBVIOUS
<1>. HIDE DEF st, an, st0, an0
<1>4. /\ settled[j] \subseteq settled'[j] /\ settled'[j] = st /\ answer'[j] = an
      /\ \A k \in Jobs \ {j} : settled'[k] = settled[k]
      /\ \A k \in Jobs \ {j} : answer'[k] = answer[k]
  BY <1>1, <1>2, <1>3
<1>5. /\ st = st0 => settled' = settled
      /\ an = an0 => answer' = answer
      /\ from = to => phase' = phase
  BY <1>1, <1>2
<1>6. (from = "unknown" /\ to = "queued" /\ st = st0 /\ an = an0) => Polling!Accept(j)
  BY <1>1, <1>2, <1>5 DEF Polling!Accept
<1>7. (from = "queued" /\ to = "running" /\ st = st0 /\ an = an0) => Polling!Start(j)
  BY <1>1, <1>2, <1>5 DEF Polling!Start
<1>8. (from = "running" /\ to = "running" /\ an = an0) => Polling!Progress(j)
  BY <1>1, <1>2, <1>4, <1>5 DEF Polling!Progress, Polling!Settles
<1>9. (from = "running" /\ to = "final" /\ an.outcome # "none"
         /\ an.report = (an.outcome # "failed")) => Polling!Answer(j)
  BY <1>1, <1>2, <1>4 DEF Polling!Answer, Polling!Settles
<1>. QED  BY <1>1, <1>6, <1>7, <1>8, <1>9 DEF st, an, st0, an0

\* A step of the graph that only touches what clients do not see.
LEMMA GraphStepShown ==
  ASSUME JobInv, ShownInv, NEW j \in Jobs, NEW r, job' = [job EXCEPT ![j] = r],
         SameView(r, job[j])
  PROVE  UNCHANGED Polling!vars /\ ShownInv'
<1>1. /\ PhaseShown(r) = PhaseShown(job[j]) /\ StagesShown(r) = StagesShown(job[j])
      /\ AnswerShown(r) = AnswerShown(job[j])
  BY DEF PhaseShown, StagesShown, AnswerShown, SameView, SameBoard
<1>2. ShownOK(r)
  BY <1>1 DEF ShownInv, ShownOK, SameView
<1>. QED  BY <1>1, <1>2, NothingShown

\* Merging a superstep shows more stages, and nothing else of the job.
LEMMA MergedShown ==
  ASSUME NEW j \in Jobs, JobOK(job[j]), job[j].pc = "running", job[j].todo = {}
  PROVE  LET m == UpdateStages(Merged(j))
         IN  /\ m \in JobRecord
             /\ m.pc = "running" /\ m.state = job[j].state /\ m.report = job[j].report
             /\ StagesShown(job[j]) \subseteq StagesShown(m)
<1>1. job[j].ran \in Supersteps
  BY MergedFacts
<1>. DEFINE m == UpdateStages(Merged(j))
<1>2. /\ m \in JobRecord
      /\ m.pc = "running" /\ m.state = job[j].state /\ m.report = job[j].report
      /\ job[j].done_stages \subseteq m.done_stages
      /\ job[j].failed_stages \subseteq m.failed_stages
      /\ job[j].skipped_stages \subseteq m.skipped_stages
  BY <1>1, MergedEffect
<1>. HIDE DEF m
<1>3. StagesShown(job[j]) \subseteq StagesShown(m)
  BY <1>2 DEF StagesShown
<1>. QED  BY <1>2, <1>3 DEF m

\* The return of a node changes nothing that is shown of its job.
LEMMA ReturnShown ==
  ASSUME NEW j \in Jobs, job[j] \in JobRecord, NEW n, NEW wrote, NEW failed
  PROVE  LET t == Return(j, n, wrote, failed)
         IN  /\ SameView(t, job[j])
             /\ \A a : SameView([t EXCEPT !.assessment = a], job[j])
             /\ \A e : SameView([t EXCEPT !.exposed = e], job[j])
<1>1. SameView(Return(j, n, wrote, failed), job[j])
  BY DEF Return, JobRecord, SameView, SameBoard
<1>2. ASSUME NEW a
      PROVE  SameView([Return(j, n, wrote, failed) EXCEPT !.assessment = a], job[j])
  BY DEF Return, JobRecord, SameView, SameBoard
<1>3. ASSUME NEW e
      PROVE  SameView([Return(j, n, wrote, failed) EXCEPT !.exposed = e], job[j])
  BY DEF Return, JobRecord, SameView, SameBoard
<1>. QED  BY <1>1, <1>2, <1>3

NodeReturns(j) ==
  \/ \E a \in Assessments : SecurityScan(j, a)
  \/ IndexDocument(j)
  \/ IndexFails(j)
  \/ \E n \in Agents, ok \in BOOLEAN : RunAgent(j, n, ok)
  \/ \E n \in {"enrich", "compose"} : RunDeterministic(j, n)

\* So no node of the graph changes what is shown of any job.
LEMMA NodeShown ==
  ASSUME JobInv, ShownInv, NEW j \in Jobs, NodeReturns(j)
  PROVE  UNCHANGED Polling!vars /\ ShownInv'
<1>. SUFFICES \E s : job' = [job EXCEPT ![j] = s] /\ SameView(s, job[j])
  BY GraphStepShown
<1>1. job[j] \in JobRecord
  BY DEF JobInv
<1>2. CASE \E a \in Assessments : SecurityScan(j, a)
  <2>. PICK a \in Assessments : SecurityScan(j, a)
    BY <1>2
  <2>. DEFINE t == Return(j, "security_scan", {"security_scan"},
                          IF a.complete THEN {} ELSE {"security_scan"})
  <2>1. SameView([t EXCEPT !.assessment = a], job[j])
    BY <1>1, ReturnShown
  <2>2. job' = [job EXCEPT ![j] = [t EXCEPT !.assessment = a]]
    BY DEF SecurityScan
  <2>. QED  BY <2>1, <2>2
<1>3. CASE IndexDocument(j) \/ IndexFails(j)
  BY <1>1, <1>3, ReturnShown DEF IndexDocument, IndexFails
<1>4. CASE \E n \in Agents, ok \in BOOLEAN : RunAgent(j, n, ok)
  <2>. PICK n \in Agents, ok \in BOOLEAN : RunAgent(j, n, ok)
    BY <1>4
  <2>. DEFINE t == Return(j, n, IF ok THEN {n} ELSE {}, IF ok THEN {} ELSE {n})
              e == t.exposed \/ ShowsFlagged(j, n)
  <2>1. SameView([t EXCEPT !.exposed = e], job[j])
    BY <1>1, ReturnShown
  <2>2. job' = [job EXCEPT ![j] = [t EXCEPT !.exposed = e]]
    BY DEF RunAgent
  <2>. QED  BY <2>1, <2>2
<1>5. CASE \E n \in {"enrich", "compose"} : RunDeterministic(j, n)
  BY <1>1, <1>5, ReturnShown DEF RunDeterministic
<1>. QED  BY <1>2, <1>3, <1>4, <1>5 DEF NodeReturns

\* The start and the end of a job, its progress, and what is not seen of it.
LEMMA AdvanceShown ==
  ASSUME JobInv, ShownInv, NEW j \in Jobs, Upload(j) \/ Advance(j)
  PROVE  [Polling!Next]_(Polling!vars) /\ ShownInv'
<1>. DEFINE r == job[j]
<1>1. JobOK(r) /\ r \in JobRecord /\ job \in [Jobs -> JobRecord] /\ ShownOK(r)
  BY DEF JobInv, JobOK, ShownInv
<1>2. CASE Upload(j)
  <2>1. PICK d \in Docs : BeginUpload(j, d)
    BY <1>2 DEF Upload
  <2>. DEFINE s == [r EXCEPT !.pc = "uploading", !.doc = d]
  <2>2. job' = [job EXCEPT ![j] = s] /\ r.pc = "absent"
    BY <1>1, <2>1 DEF BeginUpload
  <2>3. /\ s.pc = "uploading" /\ s.state = r.state /\ SameBoard(s, r)
    BY <1>1 DEF JobRecord, SameBoard
  <2>. HIDE DEF s
  <2>4. /\ PhaseShown(s) = PhaseShown(r) /\ StagesShown(s) = StagesShown(r)
        /\ AnswerShown(s) = AnswerShown(r)
    BY <2>3 DEF PhaseShown, StagesShown, AnswerShown, SameBoard
  <2>5. ShownOK(s)
    BY <1>1, <2>2, <2>3, <2>4 DEF ShownOK
  <2>. QED  BY <2>2, <2>4, <2>5, NothingShown
<1>3. CASE RejectUpload(j)
  <2>. DEFINE s == [r EXCEPT !.pc = "rejected"]
  <2>1. job' = [job EXCEPT ![j] = s] /\ r.pc = "uploading"
    BY <1>1, <1>3 DEF RejectUpload
  <2>2. /\ s.pc = "rejected" /\ s.state = r.state /\ SameBoard(s, r)
    BY <1>1 DEF JobRecord, SameBoard
  <2>. HIDE DEF s
  <2>3. /\ PhaseShown(s) = PhaseShown(r) /\ StagesShown(s) = StagesShown(r)
        /\ AnswerShown(s) = AnswerShown(r)
    BY <2>2 DEF PhaseShown, StagesShown, AnswerShown, SameBoard
  <2>4. ShownOK(s)
    BY <1>1, <2>1, <2>2, <2>3 DEF ShownOK
  <2>. QED  BY <2>1, <2>3, <2>4, NothingShown
<1>4. CASE AcceptUpload(j)
  <2>. DEFINE s == [r EXCEPT !.pc = "queued", !.state = "queued"]
  <2>1. job' = [job EXCEPT ![j] = s] /\ r.pc = "uploading"
    BY <1>1, <1>4 DEF AcceptUpload
  <2>2. /\ s.pc = "queued" /\ s.state = "queued" /\ SameBoard(s, r)
    BY <1>1 DEF JobRecord, SameBoard
  <2>. HIDE DEF s
  <2>3. /\ PhaseShown(s) = "queued" /\ StagesShown(s) = StagesShown(r)
        /\ AnswerShown(s).report = r.report /\ AnswerShown(s).outcome = "none"
    BY <2>2, NoneAssumption DEF PhaseShown, StagesShown, AnswerShown, Finals, SameBoard
  <2>4. /\ PhaseShown(r) = "unknown" /\ AnswerShown(r) = Polling!NoAnswer
    BY <1>1, <2>1 DEF ShownOK
  <2>5. r.report = FALSE /\ s.state \notin Finals
    BY <2>2, <2>4 DEF AnswerShown, Polling!NoAnswer, Finals
  <2>6. AnswerShown(s) = AnswerShown(r) /\ PhaseShown(r) = "unknown"
    BY <2>2, <2>4, <2>5 DEF AnswerShown, Polling!NoAnswer, SameBoard
  <2>7. ShownOK(s)
    BY <2>2, <2>3 DEF ShownOK
  <2>8. Polling!Accept(j) /\ ShownInv'
    BY <2>1, <2>3, <2>6, <2>7, ContractSteps
  <2>. QED  BY <2>8 DEF Polling!Next
<1>5. CASE StartJob(j)
  <2>. DEFINE s == [r EXCEPT !.pc = "ingesting", !.state = "running"]
  <2>1. job' = [job EXCEPT ![j] = s] /\ r.pc = "queued"
    BY <1>1, <1>5 DEF StartJob
  <2>2. /\ s.pc = "ingesting" /\ s.state = "running" /\ SameBoard(s, r)
    BY <1>1 DEF JobRecord, SameBoard
  <2>. HIDE DEF s
  <2>3. PhaseShown(s) = "running" /\ StagesShown(s) = StagesShown(r)
    BY <2>2, NoneAssumption DEF PhaseShown, StagesShown, Finals, SameBoard
  <2>4. AnswerShown(s) = AnswerShown(r) /\ PhaseShown(r) = "queued"
    BY <1>1, <2>1, <2>2 DEF ShownOK, AnswerShown, JobOK, OutcomeOK, Fresh, Finals, SameBoard
  <2>5. ShownOK(s)
    BY <2>2, <2>3 DEF ShownOK
  <2>6. Polling!Start(j) /\ ShownInv'
    BY <2>1, <2>3, <2>4, <2>5, ContractSteps
  <2>. QED  BY <2>6 DEF Polling!Next
<1>6. CASE Ingested(j)
  <2>. DEFINE s == [r EXCEPT !.pc = "running", !.todo = {"security_scan"}]
  <2>1. job' = [job EXCEPT ![j] = s] /\ r.pc = "ingesting"
    BY <1>1, <1>6 DEF Ingested
  <2>2. /\ s.pc = "running" /\ s.state = r.state /\ SameBoard(s, r)
    BY <1>1 DEF JobRecord, SameBoard
  <2>. HIDE DEF s
  <2>3. /\ PhaseShown(s) = PhaseShown(r) /\ StagesShown(s) = StagesShown(r)
        /\ AnswerShown(s) = AnswerShown(r)
    BY <2>2 DEF PhaseShown, StagesShown, AnswerShown, SameBoard
  <2>4. ShownOK(s)
    BY <1>1, <2>1, <2>2, <2>3 DEF ShownOK
  <2>. QED  BY <2>1, <2>3, <2>4, NothingShown
<1>7. CASE Superstep(j)
  <2>. DEFINE m == UpdateStages(Merged(j))
  <2>1. /\ r.pc = "running" /\ r.todo = {} /\ job' = [job EXCEPT ![j] = m]
    BY <1>7 DEF Superstep
  <2>2. /\ m.pc = "running" /\ m.state = r.state /\ m.report = r.report
        /\ StagesShown(r) \subseteq StagesShown(m)
    BY <1>1, <2>1, MergedShown
  <2>. HIDE DEF m
  <2>3. PhaseShown(m) = PhaseShown(r) /\ AnswerShown(m) = AnswerShown(r)
    BY <2>2 DEF PhaseShown, AnswerShown
  <2>4. PhaseShown(r) = "running" /\ ShownOK(m)
    BY <1>1, <2>1, <2>2, <2>3 DEF ShownOK
  <2>5. Polling!Progress(j) /\ ShownInv'
    BY <2>1, <2>2, <2>3, <2>4, ContractSteps
  <2>. QED  BY <2>5 DEF Polling!Next
<1>8. CASE Finish(j)
  <2>. DEFINE m == UpdateStages(Merged(j))
              s == [m EXCEPT !.pc = "closing", !.report = TRUE,
                             !.errors = m.graph_errors, !.state = Outcome(m)]
  <2>1. /\ r.pc = "running" /\ r.todo = {} /\ job' = [job EXCEPT ![j] = s]
    BY <1>8 DEF Finish
  <2>2. /\ m \in JobRecord /\ StagesShown(r) \subseteq StagesShown(m)
    BY <1>1, <2>1, MergedShown
  <2>3. JobOK(s) /\ Outcome(m) \in Finals
    BY <1>1, <1>8, <2>1, FinishOK DEF Finish
  <2>. HIDE DEF m
  <2>4. /\ s.pc = "closing" /\ s.state = Outcome(m) /\ s.report = TRUE
        /\ StagesShown(s) = StagesShown(m)
    BY <2>2 DEF JobRecord, StagesShown
  <2>. HIDE DEF s
  <2>5. Outcome(m) # "failed"
    BY <2>3, <2>4 DEF JobOK, OutcomeOK
  <2>6. /\ PhaseShown(s) = "final" /\ AnswerShown(s).outcome = Outcome(m)
        /\ AnswerShown(s).report = TRUE /\ Outcome(m) # "none"
        /\ StagesShown(r) \subseteq StagesShown(s)
    BY <2>2, <2>3, <2>4, NoneAssumption DEF PhaseShown, AnswerShown, StagesShown, Finals, SameBoard
  <2>7. PhaseShown(r) = "running" /\ ShownOK(s)
    BY <1>1, <2>1, <2>4 DEF ShownOK
  <2>8. Polling!Answer(j) /\ ShownInv'
    BY <2>1, <2>6, <2>7, <2>5, ContractSteps
  <2>. QED  BY <2>8 DEF Polling!Next
<1>9. CASE Crash(j)
  <2>. DEFINE s == [r EXCEPT !.pc = "closing", !.todo = {}, !.ran = {},
                             !.state = "failed", !.errors = {"exception"}]
  <2>1. job' = [job EXCEPT ![j] = s]
    BY <1>1, <1>9 DEF Crash
  <2>2. r.pc \in {"ingesting", "running"}
    BY <1>1, <1>9, TodoFacts DEF Crash
  <2>3. /\ s.pc = "closing" /\ s.state = "failed" /\ SameBoard(s, r)
    BY <1>1 DEF JobRecord, SameBoard
  <2>. HIDE DEF s
  <2>4. r.report = FALSE
    BY <1>1, <2>2 DEF JobOK, OutcomeOK, Fresh, JobRecord
  <2>5. /\ PhaseShown(s) = "final" /\ AnswerShown(s).outcome = "failed"
        /\ AnswerShown(s).report = FALSE
        /\ StagesShown(s) = StagesShown(r)
    BY <2>3, <2>4, NoneAssumption DEF PhaseShown, AnswerShown, StagesShown, Finals, SameBoard
  <2>6. PhaseShown(r) = "running" /\ ShownOK(s)
    BY <1>1, <2>2, <2>3 DEF ShownOK
  <2>7. Polling!Answer(j) /\ ShownInv'
    BY <2>1, <2>5, <2>6, ContractSteps
  <2>. QED  BY <2>7 DEF Polling!Next
<1>10. CASE RemoveUpload(j) \/ RemoveUploadFails(j)
  <2>. PICK pc \in {"done", "undeleted"} : job' = [job EXCEPT ![j] = [r EXCEPT !.pc = pc]]
    BY <1>1, <1>10 DEF RemoveUpload, RemoveUploadFails
  <2>. DEFINE s == [r EXCEPT !.pc = pc]
  <2>1. job' = [job EXCEPT ![j] = s] /\ r.pc = "closing"
    BY <1>1, <1>10 DEF RemoveUpload, RemoveUploadFails
  <2>2. /\ s.pc \in {"done", "undeleted"} /\ s.state = r.state /\ SameBoard(s, r)
    BY <1>1 DEF JobRecord, SameBoard
  <2>. HIDE DEF s
  <2>3. /\ PhaseShown(s) = PhaseShown(r) /\ StagesShown(s) = StagesShown(r)
        /\ AnswerShown(s) = AnswerShown(r) /\ ShownOK(s)
    BY <2>2 DEF PhaseShown, StagesShown, AnswerShown, ShownOK, SameBoard
  <2>. QED  BY <2>1, <2>3, NothingShown
<1>11. CASE NodeReturns(j)
  BY <1>11, NodeShown
<1>. QED
  BY <1>2, <1>3, <1>4, <1>5, <1>6, <1>7, <1>8, <1>9, <1>10, <1>11 DEF Advance, NodeReturns

\* A service that starts anew shows nothing of any job.
LEMMA ForgetShown ==
  ASSUME job' = Forgotten
  PROVE  Polling!Forget /\ ShownInv'
<1>1. \A j \in Jobs : /\ job'[j].pc \in {"absent", "lost"}
                      /\ PhaseShown(job'[j]) = "unknown" /\ StagesShown(job'[j]) = {}
                      /\ AnswerShown(job'[j]) = Polling!NoAnswer
  <2>1. None \notin Finals
    BY NoneAssumption
  <2>2. ASSUME NEW m \in {Absent, [Absent EXCEPT !.pc = "lost"]}
        PROVE  /\ m.pc \in {"absent", "lost"}
               /\ PhaseShown(m) = "unknown" /\ StagesShown(m) = {}
               /\ AnswerShown(m) = Polling!NoAnswer
    <3>1. /\ m.pc \in {"absent", "lost"} /\ m.state = None /\ m.report = FALSE
          /\ m.done_stages = {} /\ m.failed_stages = {} /\ m.skipped_stages = {}
      BY DEF Absent
    <3>. QED
      BY <2>1, <3>1 DEF PhaseShown, StagesShown, AnswerShown, Polling!NoAnswer
  <2>. QED  BY <2>2 DEF Forgotten
<1>. QED
  BY <1>1 DEF Polling!Forget, phase, settled, answer, ShownInv, ShownOK

\* JobContract is implemented: a client that polls a job sees queued, running
\* and one final answer, with the report in the very moment the answer is
\* there, stages that stay settled, and nothing forgotten but by a restart.
THEOREM PollingImplemented == Spec => ImplementsPolling
<1>1. Init => Polling!Init /\ ShownInv
  <2>1. None \notin Finals
    BY NoneAssumption
  <2>2. /\ PhaseShown(Absent) = "unknown" /\ StagesShown(Absent) = {}
        /\ AnswerShown(Absent) = Polling!NoAnswer
    BY <2>1 DEF Absent, PhaseShown, StagesShown, AnswerShown, Polling!NoAnswer
  <2>3. Absent.pc = "absent"
    BY DEF Absent
  <2>. QED
    BY <2>2, <2>3 DEF Init, Polling!Init, phase, settled, answer, ShownInv, ShownOK
<1>2. JobInv /\ ShownInv /\ [Next]_vars => [Polling!Next]_(Polling!vars) /\ ShownInv'
  <2>. SUFFICES ASSUME JobInv, ShownInv, [Next]_vars
                PROVE  [Polling!Next]_(Polling!vars) /\ ShownInv'
    OBVIOUS
  <2>1. CASE \E j \in Jobs : Upload(j) \/ Advance(j)
    BY <2>1, AdvanceShown
  <2>2. CASE Restart \/ Shutdown
    BY <2>2, ForgetShown DEF Restart, Shutdown, Polling!Next
  <2>3. CASE UNCHANGED vars
    BY <2>3 DEF vars, Polling!vars, phase, settled, answer, ShownInv
  <2>. QED  BY <2>1, <2>2, <2>3 DEF Next
<1>3. Spec => []JobInv
  BY AlwaysJobInv
<1>. QED  BY <1>1, <1>2, <1>3, PTL DEF Spec, ImplementsPolling, Polling!Spec
=============================================================================
