----------------------------- MODULE AnalystPage -----------------------------
(***************************************************************************)
(* The analyst's page of the Streamlit frontend (frontend/                 *)
(* streamlit_app.py): it posts a petition, follows the job with a fragment *)
(* that runs every second, fetches the report when the job ends and offers *)
(* it for download.  The job manager is seen through its HTTP answers      *)
(* (AnalysisJob has its inside).                                           *)
(***************************************************************************)
EXTENDS Naturals

CONSTANTS
  Jobs,         \* job ids, drawn fresh from uuid4, numbered as drawn
  Endings,      \* the states in which the jobs of an instance end
  MaxOutages,   \* bound on restarts of the service that forget the jobs
  NoJob

VARIABLES
  job,       \* what the service answers to GET /analyses/{id}
  session,   \* job_id, report and job_error of st.session_state
  fragment,  \* poll_analysis: off, on, or between its two requests
  drawn,     \* what the last run of the script put on the page
  outages

analyst == <<job, session, fragment, drawn, outages>>

\* Mutation: a state is missing from the tuple.
WithReportButReview == {"succeeded", "partial", "blocked"}

\* The states in which poll_analysis fetches the report.
WithReport == {"succeeded", "partial", "review_required", "blocked"}

\* The states of a job that has ended (api/schemas.py).
Ended == {"succeeded", "partial", "review_required", "blocked", "failed"}

ASSUME PageAssumption ==
  /\ Jobs \subseteq Nat /\ NoJob \notin Jobs
  /\ Endings \subseteq Ended
  /\ MaxOutages \in Nat

\* The service forgets its jobs when it restarts.
ServiceStates == {"unknown", "running", "forgotten"} \cup Ended

Drawings == [up : BOOLEAN, report : Jobs \cup {NoJob}, download : Jobs \cup {NoJob},
             error : {"none", "upload", "poll", "exception", "job"}]

Blank == [up |-> TRUE, report |-> NoJob, download |-> NoJob, error |-> "none"]

-----------------------------------------------------------------------------
(* The service. *)

JobEnds(j) ==
  /\ job[j] = "running"
  /\ \E end \in Endings : job' = [job EXCEPT ![j] = end]
  /\ UNCHANGED <<session, fragment, drawn, outages>>

ForgetJobs ==
  /\ outages < MaxOutages
  /\ outages' = outages + 1
  /\ job' = [j \in Jobs |-> IF job[j] = "unknown" THEN "unknown" ELSE "forgotten"]
  /\ UNCHANGED <<session, fragment, drawn>>

Fresh(j) == job[j] = "unknown" /\ \A i \in Jobs : i < j => job[i] # "unknown"

-----------------------------------------------------------------------------
(* The page. *)

\* What a run of the script draws for a session.  Without the report, the
\* fragment starts unless an error is on record.  With it, the downloads are
\* fetched in the same run; their status code is not looked at, so a service
\* that forgot the job hands out its error message.
Drawn(s) ==
  IF s.report = NoJob THEN Blank
  ELSE [Blank EXCEPT !.report = s.report,
                     !.download = IF job[s.job] \in WithReport THEN s.job ELSE NoJob]

Follows(s) == s.job # NoJob /\ s.report = NoJob /\ s.error = "none"

\* A run of the script: the sidebar asks the service first and stops the run
\* when it does not answer.
Draw(s) ==
  \/ /\ drawn' = [Drawn(s) EXCEPT !.error = IF s.report = NoJob /\ s.error # "none"
                                            THEN "job" ELSE "none"]
     /\ fragment' = IF Follows(s) THEN "on" ELSE "off"
  \/ /\ drawn' = [Blank EXCEPT !.up = FALSE]
     /\ fragment' = "off"

\* Mutation: the report of the previous job is kept.
UploadedKeepingReport(j) == [session EXCEPT !.job = j, !.error = "none"]

Uploaded(j) == [job |-> j, report |-> NoJob, error |-> "none"]

\* The form is submitted and the upload accepted; the run goes on to draw.
Submit(j) ==
  /\ Fresh(j)
  /\ job' = [job EXCEPT ![j] = "running"]
  /\ session' = Uploaded(j)
  /\ drawn' = Blank
  /\ fragment' = "on"
  /\ UNCHANGED outages

\* The upload fails, or the job starts and the answer is lost: the run stops
\* with the session as it was.
SubmitFails(j) ==
  /\ Fresh(j)
  /\ \/ UNCHANGED job
     \/ job' = [job EXCEPT ![j] = "running"]
  /\ drawn' = [Blank EXCEPT !.error = "upload"]
  /\ fragment' = "off"
  /\ UNCHANGED <<session, outages>>

\* Any other interaction runs the script again and stops a fragment that
\* waits for an answer.
Interact ==
  /\ Draw(session)
  /\ UNCHANGED <<job, session, outages>>

\* poll_analysis, first request.  A job the service does not know answers
\* without stages, which the fragment does not expect.
PollState ==
  LET state == job[session.job]
  IN /\ fragment = "on"
     /\ UNCHANGED <<job, outages>>
     /\ \/ /\ state = "running"
           /\ drawn' = Blank
           /\ UNCHANGED <<session, fragment>>
        \/ /\ state = "forgotten"
           /\ drawn' = [Blank EXCEPT !.error = "exception"]
           /\ UNCHANGED <<session, fragment>>
        \/ /\ state = "failed"
           /\ session' = [session EXCEPT !.error = "failed"]
           /\ fragment' = "rerun"
           /\ UNCHANGED drawn
        \/ /\ state \in WithReport
           /\ fragment' = "fetching"
           /\ UNCHANGED <<session, drawn>>

PollUnanswered ==
  /\ fragment = "on"
  /\ drawn' = [Blank EXCEPT !.error = "poll"]
  /\ UNCHANGED <<job, session, fragment, outages>>

\* poll_analysis, second request: a report that cannot be loaded is an error
\* the page stays with.
FetchReport ==
  /\ fragment = "fetching"
  /\ \/ /\ job[session.job] \in WithReport
        /\ session' = [session EXCEPT !.report = session.job, !.error = "none"]
     \/ session' = [session EXCEPT !.error = "load"]
  /\ fragment' = "rerun"
  /\ UNCHANGED <<job, drawn, outages>>

\* st.rerun
Redraw ==
  /\ fragment = "rerun"
  /\ Draw(session)
  /\ UNCHANGED <<job, session, outages>>

-----------------------------------------------------------------------------
AnalystInit ==
  /\ job = [j \in Jobs |-> "unknown"]
  /\ session = [job |-> NoJob, report |-> NoJob, error |-> "none"]
  /\ fragment = "off"
  /\ drawn = Blank
  /\ outages = 0

Follow == PollState \/ FetchReport \/ Redraw

AnalystNext ==
  \/ \E j \in Jobs : drawn.up /\ (Submit(j) \/ SubmitFails(j))
  \/ Interact \/ PollUnanswered \/ Follow

\* The timer of the fragment goes on, the event loop of the service runs its
\* jobs, and the person does not interrupt every fetch of a report.
AnalystFairness ==
  /\ WF_analyst(Follow) /\ SF_analyst(FetchReport)
  /\ \A j \in Jobs : WF_analyst(JobEnds(j))

-----------------------------------------------------------------------------
AnalystTypeOK ==
  /\ job \in [Jobs -> ServiceStates]
  /\ session \in [job : Jobs \cup {NoJob}, report : Jobs \cup {NoJob},
                  error : {"none", "failed", "load"}]
  /\ fragment \in {"off", "on", "fetching", "rerun"}
  /\ drawn \in Drawings
  /\ outages \in 0 .. MaxOutages

\* Whatever the order of polls, uploads and reruns, the page is about its
\* job: a report it holds is that of the job it follows and was served for
\* it, an error stands for that job, and as long as the service keeps its
\* jobs the downloads beside a report are those of the same job.
PageIsAboutItsJob ==
  /\ session.report # NoJob =>
       /\ session.report = session.job /\ session.error = "none"
       /\ job[session.job] \in WithReport \cup {"forgotten"}
  /\ session.error = "failed" => job[session.job] \in {"failed", "forgotten"}
  /\ drawn.report # NoJob =>
       /\ drawn.report = session.report
       /\ outages = 0 => drawn.download = session.job

\* A job that is followed is answered for: while the page can reach the
\* service and the person stays on it, the fragment ends with the report or
\* with an error about the job, in every state a job can end in.
FollowedJobIsShown ==
  \A j \in Jobs :
    (session.job = j /\ fragment # "off")
      ~> \/ session.report = j \/ session.error # "none"
         \/ session.job # j \/ fragment = "off" \/ drawn.error = "exception"
=============================================================================
