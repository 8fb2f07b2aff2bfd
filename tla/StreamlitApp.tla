---------------------------- MODULE StreamlitApp ----------------------------
(***************************************************************************)
(* frontend/streamlit_app.py: one browser session in which the person      *)
(* switches between the consumer page and the analyst's page.  Both keep   *)
(* their values in the one st.session_state; the page that is not drawn    *)
(* loses its widgets and its running fragment, and keeps the rest.         *)
(***************************************************************************)
EXTENDS ConsumerSession, AnalystPage

CONSTANTS
  MaxSwitches,  \* bound on changes of the audience
  MaxMixed      \* bound on the updates of a case in a session with jobs

ASSUME AppAssumption == MaxSwitches \in Nat

VARIABLES
  audience,  \* the segmented control at the top of the page
  switches

appvars == <<vars, analyst, audience, switches>>

\* A change of audience stops the run of the page that is left, wherever it is,
\* and draws the other one; the consumer page ends its run with st.stop.
ToConsumer ==
  /\ audience = "business" /\ switches < MaxSwitches
  /\ audience' = "consumer" /\ switches' = switches + 1
  /\ fragment' = "off"
  /\ drawn' = [Blank EXCEPT !.up = FALSE]
  /\ pc' = Rerun
  /\ UNCHANGED <<job, session, outages, service, late, ui, screen, signed, faults>>

ToBusiness ==
  /\ audience = "consumer" /\ switches < MaxSwitches
  /\ audience' = "business" /\ switches' = switches + 1
  /\ ui' = WithoutForm(ui)
  /\ screen' = "down"
  /\ pc' = Idle
  /\ faults' = AfterInterruption
  /\ Draw(session)
  /\ UNCHANGED <<job, session, outages, service, late, signed>>

AppInit ==
  /\ Init /\ AnalystInit
  /\ audience = "business" /\ switches = 0

\* One process serves both pages: a restart forgets the cases and the jobs.
RestartBackend == RestartService /\ ForgetJobs

AppStep ==
  \/ ToConsumer \/ ToBusiness
  \/ /\ audience = "consumer" /\ Next
     /\ UNCHANGED <<analyst, audience, switches>>
  \/ /\ audience = "business" /\ AnalystNext
     /\ UNCHANGED <<vars, audience, switches>>
  \/ /\ \E j \in Jobs : JobEnds(j)
     /\ UNCHANGED <<vars, audience, switches>>
  \/ RestartBackend /\ UNCHANGED <<audience, switches>>

\* Only a session that stays on the consumer page of one backend goes through
\* a whole journey; the others lose no answer to it and update a case MaxMixed
\* times at most, and not after it was opened once there are jobs.
Bounded ==
  LET alone == \A j \in Jobs : job'[j] = "unknown"
  IN \/ alone /\ faults'.restarts = 0 /\ switches' <= 1
     \/ /\ faults'.lost = 0
        /\ \A c \in Cases : service'[c].stamp <= IF alone THEN MaxMixed ELSE 1

AppNext == AppStep /\ Bounded

AppSpec == AppInit /\ [][AppNext]_appvars /\ AnalystFairness

-----------------------------------------------------------------------------
\* Types of both pages and of the services behind them.
AppTypeOK ==
  /\ TypeOK /\ AnalystTypeOK
  /\ audience \in {"consumer", "business"} /\ switches \in 0 .. MaxSwitches
=============================================================================
