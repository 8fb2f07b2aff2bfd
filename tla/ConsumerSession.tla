-------------------------- MODULE ConsumerSession --------------------------
(***************************************************************************)
(* One browser session of the consumer page (frontend/consumer_view.py)    *)
(* with its HTTP client (frontend/api_client.py), against the case         *)
(* service.  A Streamlit script runs from top to bottom at every           *)
(* interaction and waits for each request it makes, so a session has one   *)
(* request at a time; but a request whose answer is lost (a time-out, a    *)
(* closed connection) may still reach the service, at once, later, after   *)
(* other requests, or never.  Nor does every answer tell what was done, or *)
(* reach the session before another interaction ends the run.  The service *)
(* is seen as its clients see it: one atomic operation per request         *)
(* (ConsumerCase has its inside).                                          *)
(***************************************************************************)
EXTENDS Naturals, Sequences, FiniteSets

CONSTANTS
  Cases,       \* case ids, numbered in the order they are drawn
  Stories,     \* contents of the facts that are texts
  Losses,      \* amounts a person may enter, 0 for none
  Files,       \* evidence files; an accepted one holds one amount
  Refused,     \* files the security gate does not accept
  AmountIn,    \* the amount found in a file, named by the file as reference
  MaxTouches,  \* bound on the updates of each case
  MaxLost,     \* bound on requests the page gets no answer to, or no true one
  MaxRestarts, \* bound on restarts of the service
  None

ASSUME SessionAssumption ==
  /\ Cases \subseteq Nat \ {0}
  /\ Losses \subseteq Nat /\ 0 \in Losses
  /\ Refused \subseteq Files
  /\ MaxTouches \in [Cases -> Nat \ {0}]
  /\ MaxLost \in Nat /\ MaxRestarts \in Nat
  /\ AmountIn \in [Files -> Losses \ {0}]

VARIABLES
  service,  \* what the service knows of each case
  late,     \* requests that left the session without an answer
  ui,       \* st.session_state
  pc,       \* where the script is
  screen,   \* what the last run drew: the page, or why it could not
  signed,   \* facts submitted with the confirmation ticked, ever
  faults    \* answers lost and restarts so far, and which of the case and the
            \* draft in the session the service may have changed meanwhile

vars == <<service, late, ui, pc, screen, signed, faults>>

Facts == [story : Stories \cup {None}, loss : Losses, ref : Files \cup {None}]

NoFacts == [story |-> None, loss |-> 0, ref |-> None]

NoCase == [alive |-> FALSE, facts |-> NoFacts, confirmed |-> FALSE,
           docs |-> {}, notice |-> None, stamp |-> 0]

-----------------------------------------------------------------------------
(* The service, one operation per request. *)

Accepted(s) == s.docs \ Refused

Touched(s) == [s EXCEPT !.stamp = @ + 1]

\* Mutation: the draft is sent where the page asks whether there is one.
SnapshotWithDraft(c, s) ==
  [id |-> c, facts |-> s.facts, confirmed |-> s.confirmed, docs |-> s.docs,
   ready |-> s.confirmed /\ s.facts.story # None /\ Accepted(s) # {},
   notice_available |-> s.notice, stamp |-> s.stamp]

\* ConsumerCaseSnapshot, as JSON.
Snapshot(c, s) ==
  [id |-> c, facts |-> s.facts, confirmed |-> s.confirmed, docs |-> s.docs,
   ready |-> s.confirmed /\ s.facts.story # None /\ Accepted(s) # {},
   notice_available |-> s.notice # None, stamp |-> s.stamp]

Opened == Touched([NoCase EXCEPT !.alive = TRUE])

\* add_message: what the extractor finds fills only what is empty, and every
\* message asks for a new review.
Messaged(s, story) ==
  Touched([s EXCEPT !.facts.story = IF @ = None THEN story ELSE @,
                    !.confirmed = FALSE, !.notice = None])

\* Mutation: changed facts stay confirmed.
PatchedKeepingTick(s, f, tick) ==
  Touched([s EXCEPT !.facts = f,
                    !.notice = IF f # s.facts THEN None ELSE @,
                    !.confirmed = IF tick # None THEN tick ELSE @])

\* update_facts; tick is None when the body has no facts_confirmed.
Backed(s, f) == f.ref = None \/ (f.ref \in Accepted(s) /\ AmountIn[f.ref] = f.loss)

Patched(s, f, tick) ==
  LET changed == f # s.facts
  IN Touched([s EXCEPT !.facts = f,
                       !.notice = IF changed THEN None ELSE @,
                       !.confirmed = IF tick # None THEN tick
                                     ELSE @ /\ ~changed])

\* add_document: a file already there changes nothing.
WithDocument(s, f) ==
  IF f \in s.docs THEN s
  ELSE Touched([s EXCEPT !.docs = @ \cup {f}, !.notice = None, !.confirmed = FALSE])

\* A case that is gone; the stamp tells its id from one never drawn.
Forgotten(s) == [NoCase EXCEPT !.stamp = s.stamp]

WithNotice(c, s) == Touched([s EXCEPT !.notice = [case |-> c, facts |-> s.facts]])

Call(kind, c, arg) == [kind |-> kind, case |-> c, arg |-> arg]

\* Whether the service takes a call up: it knows the case (404), the facts name
\* references it has (422) and a draft is asked of a case that is ready (409).
\* A call taken up may still fail, a draft also for want of chunks, grounds or
\* amounts that add up.
Admitted(call) ==
  LET s == service[call.case]
  IN /\ s.alive
     /\ call.kind = "facts"  => Backed(s, call.arg.facts)
     /\ call.kind = "notice" => Snapshot(call.case, s).ready

\* What the service makes of a call it serves.  A patch of the amount alone
\* keeps the other facts.
Outcome(call) ==
  LET s == service[call.case]
  IN CASE call.kind = "message" -> Messaged(s, call.arg)
       [] call.kind = "facts"   -> Patched(s, call.arg.facts, call.arg.tick)
       [] call.kind = "amount"  ->
            Patched(s, [s.facts EXCEPT !.loss = AmountIn[call.arg], !.ref = call.arg], None)
       [] call.kind = "upload"  -> WithDocument(s, call.arg)
       [] call.kind = "notice"  -> WithNotice(call.case, s)
       [] call.kind = "delete"  -> Forgotten(s)

Serve(call) ==
  /\ Admitted(call)
  /\ Outcome(call).stamp <= MaxTouches[call.case]
  /\ service' = [service EXCEPT ![call.case] = Outcome(call)]

\* Bookkeeping for the properties, in no variable of the code: the service has
\* changed what the session holds, unheard; the session hears.
Missed == [faults EXCEPT !.missed = {part \in {"case", "draft"} :
                                       IF part = "case" THEN ui.case # None
                                                        ELSE ui.notice # None}]

Heard(what) == [faults EXCEPT !.missed = @ \ what]

\* A request nobody waits for any more reaches the service after all.
ServeLate ==
  \E call \in late :
    /\ late' = late \ {call}
    /\ IF Admitted(call) THEN Serve(call) ELSE UNCHANGED service
    /\ faults' = IF Admitted(call) /\ call.case = ui.id THEN Missed ELSE faults
    /\ UNCHANGED <<ui, pc, screen, signed>>

\* Cases live in memory only.
RestartService ==
  /\ faults.restarts < MaxRestarts
  /\ faults' = [Missed EXCEPT !.restarts = @ + 1]
  /\ service' = [c \in Cases |-> Forgotten(service[c])]
  /\ UNCHANGED <<late, ui, pc, screen, signed>>

-----------------------------------------------------------------------------
(* The session. *)

EmptySession ==
  [id |-> 0, case |-> None, notice |-> None, synced |-> None, form |-> None,
   typed |-> FALSE, picked |-> FALSE]

\* Mutation: the reset forgets to drop the draft.
ResetKeepingDraft(u) == [EmptySession EXCEPT !.notice = u.notice]

\* _reset_case_state
Reset(u) == EmptySession

\* _store_case
StoreCase(u, snapshot) == [u EXCEPT !.case = snapshot, !.id = snapshot.id]

\* consumer_notice = None
DropDraft(u) == [u EXCEPT !.notice = None, !.picked = FALSE]

FormOf(case) == [story |-> case.facts.story, loss |-> case.facts.loss,
                 tick |-> case.confirmed]

\* Mutation: only the version is compared.
SyncByVersion(u) ==
  IF u.synced = u.case.stamp THEN u
  ELSE [u EXCEPT !.form = FormOf(u.case), !.synced = u.case.stamp, !.typed = FALSE]

\* _sync_fact_widgets: the widgets are filled again when the version of the
\* case changed or when a run without the form made Streamlit drop them.
Sync(u) ==
  IF u.synced = u.case.stamp /\ u.form # None THEN u
  ELSE [u EXCEPT !.form = FormOf(u.case), !.synced = u.case.stamp, !.typed = FALSE]

HasCredentials == ui.id # 0

\* The page of a case is on the screen and waits for the person.
OnCasePage == pc.at = "idle" /\ screen = "page" /\ HasCredentials

\* The run that handles a click ends with st.rerun; the next run draws.
Rerun == [at |-> "rerun", rest |-> {}, latest |-> None, failed |-> FALSE]

Idle == [Rerun EXCEPT !.at = "idle"]

\* A request that is under way when the session gives up on it.
Lose(call) ==
  /\ faults.lost < MaxLost
  /\ faults' = [faults EXCEPT !.lost = @ + 1]
  /\ late' = late \cup {call}

\* The service did what it was asked and the session does not learn of it: the
\* record of a case is gone before the purge of its documents raises
\* (service.py:388), a document is attached before its file cannot be removed
\* (consumer_routes.py:225), and both answer 500; or another interaction has
\* come in meanwhile and ends the run at its first access to the session.
ServeUnheard(call) ==
  /\ Serve(call)
  /\ faults.lost < MaxLost
  /\ faults' = [Missed EXCEPT !.lost = @ + 1]
  /\ UNCHANGED late

\* What an answer brings the session up to date with: the case in it, and the
\* draft, that comes with it or is dropped.
Renewed(call) == CASE call.kind \in {"amount", "upload"} -> {"case"}
                   [] call.kind = "notice"             -> {"draft"}
                   [] OTHER                            -> {"case", "draft"}

\* The page makes a request in session u and is drawn again: the service
\* serves it and the page goes on with the snapshot in the answer, or the
\* request fails, or is served unheard, or its answer is lost.
Request(call, u, Handle(_, _)) ==
  /\ pc' = Rerun
  /\ UNCHANGED screen
  /\ \/ /\ Serve(call)
        /\ ui' = Handle(u, Snapshot(call.case, Outcome(call)))
        /\ faults' = Heard(Renewed(call))
        /\ UNCHANGED late
     \/ /\ ui' = u
        /\ UNCHANGED <<service, late, faults>>
     \/ /\ ServeUnheard(call)
        /\ ui' = u
     \/ /\ Lose(call)
        /\ ui' = u
        /\ UNCHANGED service

\* _render_onboarding
StartCase(c) ==
  /\ pc.at = "idle" /\ screen = "page" /\ ~HasCredentials
  /\ service[c] = NoCase /\ \A d \in Cases : d < c => service[d].stamp > 0
  /\ service' = [service EXCEPT ![c] = Opened]
  /\ pc' = Rerun
  /\ UNCHANGED <<late, screen, signed>>
  /\ \/ /\ ui' = StoreCase(ui, Snapshot(c, Opened))
        /\ faults' = Heard({"case", "draft"})
     \/ \* the script is stopped once it holds the credentials
        /\ ui' = [ui EXCEPT !.id = c]
        /\ UNCHANGED faults
     \/ \* no answer is stored: a case nobody has the token of
        /\ faults.lost < MaxLost
        /\ faults' = [faults EXCEPT !.lost = @ + 1]
        /\ UNCHANGED ui

\* Mutation: the draft stays on the page.
AfterMessageKeepingDraft(u, snapshot) == StoreCase(u, snapshot)

\* The chat input; every message gets a new client_message_id.
AfterMessage(u, snapshot) == DropDraft(StoreCase(u, snapshot))

SendMessage(story) ==
  /\ OnCasePage
  /\ Request(Call("message", ui.id, story), ui, AfterMessage)
  /\ UNCHANGED signed

\* The reference of the stored amount goes along only with that amount.
RetainedReference(loss) ==
  IF loss = ui.case.facts.loss THEN ui.case.facts.ref ELSE None

AfterFacts(u, snapshot) == DropDraft(StoreCase(u, snapshot))

\* _render_facts_form: the values stay in the widgets, whatever the answer.
SubmitFacts(story, loss, tick) ==
  LET facts == [story |-> story, loss |-> loss, ref |-> RetainedReference(loss)]
      filled == [ui EXCEPT !.form = [story |-> story, loss |-> loss, tick |-> tick],
                           !.typed = TRUE]
      call   == Call("facts", ui.id, [facts |-> facts, tick |-> tick])
  IN /\ OnCasePage
     /\ signed' = IF tick THEN signed \cup {[case |-> ui.id, facts |-> facts]} ELSE signed
     /\ Request(call, filled, AfterFacts)

\* _render_monetary_candidate_confirmation: the draft on the page is kept.
AfterAmount(u, snapshot) == [StoreCase(u, snapshot) EXCEPT !.picked = TRUE]

PickAmount(f) ==
  /\ OnCasePage
  /\ f \in ui.case.docs \ Refused
  /\ Request(Call("amount", ui.id, f), ui, AfterAmount)
  /\ UNCHANGED signed

\* _render_evidence_section: one request per file, failures collected.
StartUploads(files) ==
  /\ OnCasePage
  /\ files # {}
  /\ pc' = [at |-> "uploading", rest |-> files, latest |-> ui.case, failed |-> FALSE]
  /\ UNCHANGED <<service, late, ui, screen, signed, faults>>

UploadNext(f) ==
  LET call == Call("upload", ui.id, f)
  IN /\ pc.at = "uploading" /\ f \in pc.rest
     /\ UNCHANGED <<ui, screen, signed>>
     /\ \/ /\ Serve(call)
           /\ pc' = [pc EXCEPT !.rest = @ \ {f}, !.latest = Snapshot(ui.id, Outcome(call))]
           /\ faults' = Heard(Renewed(call))
           /\ UNCHANGED late
        \/ /\ pc' = [pc EXCEPT !.rest = @ \ {f}, !.failed = TRUE]
           /\ UNCHANGED <<service, late, faults>>
        \/ /\ ServeUnheard(call)
           /\ pc' = [pc EXCEPT !.rest = @ \ {f}, !.failed = TRUE]
        \/ /\ Lose(call)
           /\ pc' = [pc EXCEPT !.rest = @ \ {f}, !.failed = TRUE]
           /\ UNCHANGED service

\* Mutation: the session goes on with the case from before the uploads.
KeepFirstCase(u, latest) == DropDraft(u)

\* The last answer is the case the session goes on with.
AfterUploads(u, latest) == DropDraft(StoreCase(u, latest))

FinishUploads ==
  /\ pc.at = "uploading" /\ pc.rest = {}
  /\ ui' = AfterUploads(ui, pc.latest)
  /\ pc' = Rerun
  /\ faults' = Heard({"draft"})
  /\ UNCHANGED <<service, late, screen, signed>>

\* What the session misses when an interaction ends a run that uploads: the
\* answers so far are stored only after the last one.
AfterInterruption ==
  IF pc.at = "uploading" /\ pc.latest # ui.case THEN Missed ELSE faults

InterruptUploads ==
  /\ pc.at = "uploading"
  /\ pc' = Rerun
  /\ faults' = AfterInterruption
  /\ UNCHANGED <<service, late, ui, screen, signed>>

\* Mutation: readiness alone enables the button.
OfferedWhenConfirmed(case) == case.confirmed /\ case.facts.story # None

\* _render_generation_section: can_generate
CanGenerate(case) == case.ready /\ case.confirmed /\ case.docs \ Refused # {}

\* Only the draft comes back; the case the session holds is marked.
AfterNotice(u, snapshot) ==
  [u EXCEPT !.notice = [case |-> snapshot.id, facts |-> snapshot.facts],
            !.case.notice_available = TRUE, !.picked = FALSE]

Generate ==
  /\ OnCasePage
  /\ CanGenerate(ui.case)
  /\ Request(Call("notice", ui.id, None), ui, AfterNotice)
  /\ UNCHANGED signed

\* The refresh button.
Refresh ==
  /\ OnCasePage
  /\ pc' = Rerun
  /\ \/ UNCHANGED <<ui, faults>>
     \/ /\ service[ui.id].alive
        /\ ui' = StoreCase(ui, Snapshot(ui.id, service[ui.id]))
        /\ faults' = Heard({"case"})
  /\ UNCHANGED <<service, late, screen, signed>>

\* _confirm_delete_case: only an acknowledged deletion resets the session.
AfterDelete(u, snapshot) == Reset(u)

Delete ==
  /\ OnCasePage
  /\ Request(Call("delete", ui.id, None), ui, AfterDelete)
  /\ UNCHANGED signed

\* The button beside the error when a case without a snapshot cannot be read.
StartNewAfterError ==
  /\ pc.at = "idle" /\ screen = "unreadable"
  /\ ui' = Reset(ui)
  /\ pc' = Rerun
  /\ UNCHANGED <<service, late, screen, signed, faults>>

\* Any other interaction runs the script again.
Visit ==
  /\ pc.at = "idle"
  /\ pc' = Rerun
  /\ UNCHANGED <<service, late, ui, screen, signed, faults>>

-----------------------------------------------------------------------------
(* render_consumer_app: one run that draws the page. *)

\* Streamlit drops the values of widgets that a run does not draw.
WithoutForm(u) == [u EXCEPT !.form = None]

RenderUnavailable ==
  /\ screen' = "down"
  /\ ui' = WithoutForm(ui)
  /\ UNCHANGED faults

RenderOnboarding ==
  /\ ~HasCredentials
  /\ screen' = "page"
  /\ ui' = WithoutForm(ui)
  /\ UNCHANGED faults

\* The draft is fetched again when the case says that there is one.
ShowCase(u, heard) ==
  LET held == service[u.id].notice
  IN /\ screen' = "page"
     /\ \/ ui' = u /\ faults' = Heard(heard)
        \/ /\ u.notice = None /\ u.case.notice_available /\ held # None
           /\ ui' = [u EXCEPT !.notice = held]
           /\ faults' = Heard(heard \cup {"draft"})

RenderCase ==
  /\ HasCredentials /\ ui.case # None
  /\ ShowCase(Sync(ui), {})

\* A session that has the credentials and no case reads it first.
RenderFetchedCase ==
  /\ HasCredentials /\ ui.case = None
  /\ \/ /\ service[ui.id].alive
        /\ ShowCase(Sync(StoreCase(ui, Snapshot(ui.id, service[ui.id]))), {"case"})
     \/ /\ screen' = "unreadable"
        /\ ui' = WithoutForm(ui)
        /\ UNCHANGED faults

Render ==
  /\ pc.at = "rerun"
  /\ pc' = Idle
  /\ RenderUnavailable \/ RenderOnboarding \/ RenderCase \/ RenderFetchedCase
  /\ UNCHANGED <<service, late, signed>>

-----------------------------------------------------------------------------
Init ==
  /\ service = [c \in Cases |-> NoCase]
  /\ late = {}
  /\ ui = EmptySession
  /\ pc = Rerun
  /\ screen = "down"
  /\ signed = {}
  /\ faults = [lost |-> 0, restarts |-> 0, missed |-> {}]

Next ==
  \/ \E c \in Cases : StartCase(c)
  \/ \E story \in Stories : SendMessage(story)
  \/ \E story \in Stories, loss \in Losses, tick \in BOOLEAN : SubmitFacts(story, loss, tick)
  \/ \E f \in Files : PickAmount(f) \/ UploadNext(f)
  \/ \E files \in SUBSET Files : StartUploads(files)
  \/ FinishUploads \/ InterruptUploads
  \/ Generate \/ Refresh \/ Delete \/ StartNewAfterError
  \/ Visit \/ Render
  \/ ServeLate

Spec == Init /\ [][Next \/ RestartService]_vars

-----------------------------------------------------------------------------
Snapshots == [id : Cases, facts : Facts, confirmed : BOOLEAN, docs : SUBSET Files,
              ready : BOOLEAN, notice_available : BOOLEAN, stamp : Nat]

Drafts == [case : Cases, facts : Facts]

Forms == [story : Stories \cup {None}, loss : Losses, tick : BOOLEAN]

\* Nothing in the state is taken for Python's None.
ASSUME AbsenceAssumption ==
  /\ None \notin Stories /\ None \notin Files /\ None \notin BOOLEAN /\ None \notin Nat
  /\ None \notin Snapshots /\ None \notin Drafts /\ None \notin Forms

\* Types of the session and of the service behind it.
TypeOK ==
  /\ service \in [Cases -> [alive : BOOLEAN, facts : Facts, confirmed : BOOLEAN,
                            docs : SUBSET Files, notice : Drafts \cup {None},
                            stamp : Nat]]
  /\ \A c \in Cases : service[c].stamp <= MaxTouches[c]
  /\ ui.id \in Cases \cup {0}
  /\ ui.case \in Snapshots \cup {None}
  /\ ui.notice \in Drafts \cup {None}
  /\ ui.synced \in Nat \cup {None}
  /\ ui.typed \in BOOLEAN /\ ui.picked \in BOOLEAN
  /\ pc.at \in {"idle", "rerun", "uploading"}
  /\ screen \in {"down", "page", "unreadable"}
  /\ faults \in [lost : 0 .. MaxLost, restarts : 0 .. MaxRestarts,
                 missed : SUBSET {"case", "draft"}]

\* The page never drifts from the record: the facts, the review, the documents
\* and the availability of a draft that it goes by (consumer_case in
\* st.session_state) are those of the service, unless the service has changed
\* the case without an answer reaching the session, and then only until the
\* next answer with a case in it (consumer_view.py:1240).
SessionAgreesWithService ==
  "case" \notin faults.missed /\ ui.case # None /\ pc.at # "uploading" =>
    [ui.case EXCEPT !.stamp = 0]
      = [Snapshot(ui.id, service[ui.id]) EXCEPT !.stamp = 0]

\* The draft on the page is the one that is downloaded, that is the one the
\* service holds, unless the service has changed the case unheard since that
\* draft came.  The one exception is a documented amount taken over while a
\* draft is open: that handler alone keeps the draft, which the service has
\* dropped (consumer_view.py:782).
ShownDraftIsTheServices ==
  "draft" \notin faults.missed /\ ui.notice # None /\ pc.at # "uploading" =>
    ui.notice = service[ui.id].notice \/ ui.picked

\* Whatever is lost, late or served twice: facts count as confirmed only
\* after the person submitted exactly these facts with the box ticked.
ConfirmedIsWhatWasSubmitted ==
  \A c \in Cases :
    service[c].confirmed => [case |-> c, facts |-> service[c].facts] \in signed

\* A form the person has not typed into shows the case of the session, also
\* after a run that could not draw it (consumer_view.py:557); one typed into
\* was filled from that case.
FormShowsTheCase ==
  OnCasePage =>
    /\ ui.synced = ui.case.stamp
    /\ ui.form = FormOf(ui.case) \/ ui.typed

\* Nothing of one case is left on the page of the next: the case, the form
\* and the draft in the session are those of the credentials it holds.
SessionIsOfOneCase ==
  /\ ui.case # None => ui.case.id = ui.id
  /\ ui.notice # None => ui.notice.case = ui.id
  /\ ui.id = 0 => ui.case = None /\ ui.notice = None /\ ui.synced = None

\* The page offers to generate a draft only where the service finds the case
\* and finds it ready (consumer_view.py:811, service.py:263), although each of
\* them decides that for itself, unless it has changed the case unheard.
OfferedDraftIsReady ==
  "case" \notin faults.missed /\ OnCasePage /\ CanGenerate(ui.case) =>
    Admitted(Call("notice", ui.id, None))
=============================================================================
