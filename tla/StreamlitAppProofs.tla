------------------------- MODULE StreamlitAppProofs -------------------------
(***************************************************************************)
(* Proofs about the browser session: the consumer page against the case    *)
(* service, for any number of cases, files, lost answers and restarts, and *)
(* the analyst's page against the job manager.                             *)
(***************************************************************************)
EXTENDS StreamlitApp, TLAPS

-----------------------------------------------------------------------------
(* What the variables hold. *)

Records == [alive : BOOLEAN, facts : Facts, confirmed : BOOLEAN, docs : SUBSET Files,
            notice : Drafts \cup {None}, stamp : Nat]

Calls ==
  [kind : {"message"}, case : Cases, arg : Stories]
    \cup [kind : {"facts"}, case : Cases, arg : [facts : Facts, tick : BOOLEAN]]
    \cup [kind : {"amount", "upload"}, case : Cases, arg : Files]
    \cup [kind : {"notice", "delete"}, case : Cases, arg : {None}]

Sessions == [id : Cases \cup {0}, case : Snapshots \cup {None}, notice : Drafts \cup {None},
             synced : Nat \cup {None}, form : Forms \cup {None},
             typed : BOOLEAN, picked : BOOLEAN]

Scripts == [at : {"idle", "rerun", "uploading"}, rest : SUBSET Files,
            latest : Snapshots \cup {None}, failed : BOOLEAN]

-----------------------------------------------------------------------------
(* The invariant of the service: a ticked submission that is still on its  *)
(* way was signed, and a draft is stored with its case.                    *)

Signed(call, forms) ==
  call.kind = "facts" /\ call.arg.tick => [case |-> call.case, facts |-> call.arg.facts] \in forms

ServiceTypes ==
  /\ service \in [Cases -> Records]
  /\ \A c \in Cases : service[c].stamp <= MaxTouches[c]
  /\ late \subseteq Calls

ServiceInv ==
  /\ ServiceTypes
  /\ ConfirmedIsWhatWasSubmitted
  /\ \A call \in late : Signed(call, signed)
  /\ \A c \in Cases : service[c].notice # None => service[c].notice.case = c

-----------------------------------------------------------------------------
(* The invariant of the session.  A snapshot is never newer than the       *)
(* record, and one with the stamp of the record has its facts and review;  *)
(* so the stamp that the form was filled at tells whether it is up to date *)
(* whatever was served in between.                                         *)

FormIs(u, facts, confirmed, stamp) ==
  u.form # None /\ ~u.typed /\ u.synced = stamp =>
    u.form = [story |-> facts.story, loss |-> facts.loss, tick |-> confirmed]

Coherent(u, case, s) ==
  /\ case.id = u.id
  /\ FormIs(u, case.facts, case.confirmed, case.stamp)
  /\ s.alive =>
       /\ case.stamp <= s.stamp
       /\ case.stamp = s.stamp => case.facts = s.facts /\ case.confirmed = s.confirmed

FormCoherent(u, s) ==
  s.alive =>
    /\ u.synced # None => u.synced <= s.stamp
    /\ FormIs(u, s.facts, s.confirmed, s.stamp)

OfOneCase(u) ==
  /\ u.case # None => u.case.id = u.id
  /\ u.notice # None => u.notice.case = u.id
  /\ u.id = 0 => u.case = None /\ u.notice = None /\ u.synced = None

SessionOK(u, svc) ==
  /\ u \in Sessions
  /\ OfOneCase(u)
  /\ u.case # None => Coherent(u, u.case, svc[u.id])
  /\ u.id # 0 => FormCoherent(u, svc[u.id])

UploadOK(u, latest, svc) ==
  /\ u.case # None
  /\ latest \in Snapshots
  /\ Coherent(u, latest, svc[u.id])

PageHasCase == OnCasePage => ui.case # None

SessionInv ==
  /\ pc \in Scripts
  /\ screen \in {"down", "page", "unreadable"}
  /\ SessionOK(ui, service)
  /\ pc.at = "uploading" => UploadOK(ui, pc.latest, service)
  /\ PageHasCase
  /\ FormShowsTheCase

-----------------------------------------------------------------------------
(* What holds of the parts that the service has not changed unheard. *)

Agrees(case, s) ==
  /\ case.facts = s.facts /\ case.confirmed = s.confirmed /\ case.docs = s.docs
  /\ case.ready = (s.confirmed /\ s.facts.story # None /\ Accepted(s) # {})
  /\ case.notice_available = (s.notice # None)

\* The case and the draft in a session, unless the session missed a change.
CaseCurrent(case, s, missed) == "case" \notin missed => s.alive /\ Agrees(case, s)

DraftCurrent(u, s, missed) ==
  u.notice # None /\ "draft" \notin missed => u.notice = s.notice \/ u.picked

Current(u, svc, missed) ==
  /\ u.case # None => CaseCurrent(u.case, svc[u.id], missed)
  /\ DraftCurrent(u, svc[u.id], missed)

\* While files are uploaded the last answer is current, and the draft is as
\* long as no upload has changed the case; the stamp tells.
UploadsCurrent(u, latest, s, missed) ==
  /\ CaseCurrent(latest, s, missed)
  /\ u.case = latest \/ u.case.stamp = s.stamp => DraftCurrent(u, s, missed)

HeardInv ==
  /\ pc.at # "uploading" => Current(ui, service, faults.missed)
  /\ pc.at = "uploading" => UploadsCurrent(ui, pc.latest, service[ui.id], faults.missed)

FaultsOK == faults \in [lost : 0 .. MaxLost, restarts : 0 .. MaxRestarts,
                       missed : SUBSET {"case", "draft"}]

AudienceOK ==
  /\ audience \in {"consumer", "business"} /\ switches \in 0 .. MaxSwitches
  /\ audience = "business" => pc.at # "uploading"

ConsumerInv == ServiceInv /\ SessionInv /\ HeardInv

-----------------------------------------------------------------------------
(* The invariant of the analyst's page: a fragment that runs has a job that *)
(* is not answered for yet.                                                *)

AnalystInv ==
  /\ AnalystTypeOK
  /\ PageIsAboutItsJob
  /\ fragment # "off" => session.job \in Jobs /\ drawn.report = NoJob
  /\ fragment \in {"on", "fetching"} => session.report = NoJob /\ session.error = "none"
  /\ session.error # "none" => session.job \in Jobs
  /\ outages = 0 => \A j \in Jobs : job[j] # "forgotten"

-----------------------------------------------------------------------------
(* The operations of the service. *)

\* A snapshot shows the record.
LEMMA SnapshotShows ==
  ASSUME NEW c \in Cases, NEW s \in Records
  PROVE  /\ Snapshot(c, s) \in Snapshots
         /\ Snapshot(c, s).id = c
         /\ Snapshot(c, s).facts = s.facts
         /\ Snapshot(c, s).confirmed = s.confirmed
         /\ Snapshot(c, s).stamp = s.stamp
         /\ Agrees(Snapshot(c, s), s)
BY DEF Snapshot, Snapshots, Records, Agrees

\* What an operation makes of a record: it keeps its type and its draft to its
\* case, a new stamp tells a changed record from an unchanged one, and facts
\* count as confirmed only when they were before or come with the tick.
OutcomeOK(call, s, o) ==
  /\ o \in Records
  /\ (s.notice # None => s.notice.case = call.case) =>
       (o.notice # None => o.notice.case = call.case)
  /\ call.kind # "delete" => o.alive = s.alive
  /\ call.kind = "delete" => ~o.alive /\ ~o.confirmed /\ o.notice = None
  /\ o.stamp = s.stamp /\ call.kind # "delete" => o = s
  /\ o.stamp \in {s.stamp, s.stamp + 1}
  /\ o.confirmed => \/ s.confirmed /\ o.facts = s.facts
                    \/ call.kind = "facts" /\ call.arg.tick /\ o.facts = call.arg.facts

\* A touched record differs in its stamp only.
LEMMA TouchedIs ==
  ASSUME NEW s \in Records
  PROVE  /\ Touched(s) \in Records
         /\ Touched(s).alive = s.alive /\ Touched(s).facts = s.facts
         /\ Touched(s).confirmed = s.confirmed /\ Touched(s).docs = s.docs
         /\ Touched(s).notice = s.notice
         /\ s.stamp \in Nat /\ Touched(s).stamp = s.stamp + 1
BY DEF Touched, Records

\* A forgotten case keeps its stamp and nothing else.
LEMMA ForgottenIs ==
  ASSUME NEW s \in Records
  PROVE  /\ Forgotten(s) \in Records
         /\ ~Forgotten(s).alive /\ ~Forgotten(s).confirmed /\ Forgotten(s).notice = None
         /\ Forgotten(s).stamp = s.stamp
<1>1. NoFacts \in Facts
  BY SessionAssumption DEF NoFacts, Facts
<1>2. NoCase = [alive |-> FALSE, facts |-> NoFacts, confirmed |-> FALSE, docs |-> {},
                notice |-> None, stamp |-> 0]
  BY DEF NoCase
<1>3. s.stamp \in Nat
  BY DEF Records
<1>. QED  BY <1>1, <1>2, <1>3 DEF Forgotten, Records

LEMMA MessagedOK ==
  ASSUME NEW call \in Calls, call.kind = "message", NEW s \in Records
  PROVE  OutcomeOK(call, s, Messaged(s, call.arg))
<1>. DEFINE m == [s EXCEPT !.facts.story = IF @ = None THEN call.arg ELSE @,
                           !.confirmed = FALSE, !.notice = None]
<1>1. call.arg \in Stories
  BY DEF Calls
<1>2. m \in Records /\ m.alive = s.alive /\ m.notice = None /\ ~m.confirmed /\ m.stamp = s.stamp
  BY <1>1 DEF Records, Facts
<1>3. Messaged(s, call.arg) = Touched(m)
  BY DEF Messaged
<1>. HIDE DEF m
<1>. QED  BY <1>2, <1>3, TouchedIs DEF OutcomeOK

LEMMA PatchedOK ==
  ASSUME NEW call \in Calls, NEW s \in Records, NEW f \in Facts, NEW tick \in BOOLEAN \cup {None},
         call.kind \in {"facts", "amount"},
         tick = TRUE => call.kind = "facts" /\ call.arg.tick /\ call.arg.facts = f
  PROVE  OutcomeOK(call, s, Patched(s, f, tick))
<1>. DEFINE b == IF tick # None THEN tick ELSE s.confirmed /\ ~(f # s.facts)
            n == IF f # s.facts THEN None ELSE s.notice
            m == [s EXCEPT !.facts = f, !.notice = n, !.confirmed = b]
<1>1. b \in BOOLEAN /\ (b => tick = TRUE \/ (s.confirmed /\ f = s.facts))
  BY AbsenceAssumption, Zenon DEF Records
<1>2. n \in Drafts \cup {None} /\ n \in {s.notice, None}
  BY DEF Records
<1>3. Patched(s, f, tick) = Touched(m)
  BY DEF Patched
<1>. HIDE DEF b, n
<1>4. m \in Records /\ m.alive = s.alive /\ m.facts = f /\ m.notice = n /\ m.confirmed = b
      /\ m.stamp = s.stamp
  BY <1>1, <1>2 DEF Records
<1>. HIDE DEF m
<1>. QED  BY <1>1, <1>2, <1>3, <1>4, TouchedIs DEF OutcomeOK

LEMMA OutcomeEffect ==
  ASSUME service \in [Cases -> Records], NEW call \in Calls
  PROVE  OutcomeOK(call, service[call.case], Outcome(call))
<1>1. service[call.case] \in Records /\ call.case \in Cases
  BY DEF Calls
<1>2. CASE call.kind = "message"
  BY <1>1, <1>2, MessagedOK DEF Outcome
<1>3. CASE call.kind = "facts"
  <2>1. call.arg.facts \in Facts /\ call.arg.tick \in BOOLEAN
    BY <1>3 DEF Calls
  <2>2. Outcome(call) = Patched(service[call.case], call.arg.facts, call.arg.tick)
    BY <1>3 DEF Outcome
  <2>. QED  BY <1>1, <1>3, <2>1, <2>2, PatchedOK
<1>4. CASE call.kind = "amount"
  <2>. DEFINE f == [service[call.case].facts EXCEPT !.loss = AmountIn[call.arg],
                                                    !.ref = call.arg]
  <2>1. f \in Facts
    BY <1>1, <1>4, SessionAssumption DEF Calls, Records, Facts
  <2>2. Outcome(call) = Patched(service[call.case], f, None)
    BY <1>4 DEF Outcome
  <2>3. None # TRUE
    BY AbsenceAssumption
  <2>. HIDE DEF f
  <2>. QED  BY <1>1, <1>4, <2>1, <2>2, <2>3, PatchedOK
<1>5. CASE call.kind = "upload"
  <2>1. call.arg \in Files /\ Outcome(call) = WithDocument(service[call.case], call.arg)
    BY <1>5 DEF Calls, Outcome
  <2>. DEFINE s == service[call.case]
              m == [s EXCEPT !.docs = @ \cup {call.arg}, !.notice = None, !.confirmed = FALSE]
  <2>2. m \in Records /\ m.alive = s.alive /\ m.notice = None /\ ~m.confirmed
        /\ m.stamp = s.stamp
    BY <1>1, <2>1 DEF Records
  <2>3. Outcome(call) \in {s, Touched(m)}
    BY <2>1 DEF WithDocument
  <2>. HIDE DEF s, m
  <2>. QED  BY <1>1, <1>5, <2>2, <2>3, TouchedIs DEF OutcomeOK, s
<1>6. CASE call.kind = "notice"
  <2>1. Outcome(call) = WithNotice(call.case, service[call.case])
    BY <1>6 DEF Outcome
  <2>. DEFINE s == service[call.case]
              m == [s EXCEPT !.notice = [case |-> call.case, facts |-> s.facts]]
  <2>2. m \in Records /\ m.alive = s.alive /\ m.notice.case = call.case /\ m.stamp = s.stamp
        /\ m.confirmed = s.confirmed /\ m.facts = s.facts
    BY <1>1 DEF Records, Drafts
  <2>3. Outcome(call) = Touched(m)
    BY <2>1 DEF WithNotice
  <2>. HIDE DEF s, m
  <2>. QED  BY <1>1, <1>6, <2>2, <2>3, TouchedIs DEF OutcomeOK, s
<1>7. CASE call.kind = "delete"
  <2>1. Outcome(call) = Forgotten(service[call.case])
    BY <1>7 DEF Outcome
  <2>. QED  BY <1>1, <1>7, <2>1, ForgottenIs DEF OutcomeOK
<1>. QED  BY <1>2, <1>3, <1>4, <1>5, <1>6, <1>7 DEF Calls

-----------------------------------------------------------------------------
(* A step of the service, as a session sees it. *)

\* The record of a case goes on: it is not revived, and its stamp tells
\* whether it changed.
GoesOn(s, t) ==
  t.alive => /\ s.alive
             /\ s.stamp <= t.stamp
             /\ s.stamp = t.stamp => s.facts = t.facts /\ s.confirmed = t.confirmed

\* Serving a signed call keeps the invariant of the service and lets every
\* record go on.
LEMMA ServeOK ==
  ASSUME ServiceInv, NEW call \in Calls, Serve(call), Signed(call, signed'),
         signed \subseteq signed', late' \subseteq late
  PROVE  /\ ServiceInv'
         /\ service' \in [Cases -> Records]
         /\ service'[call.case] = Outcome(call)
         /\ OutcomeOK(call, service[call.case], Outcome(call))
         /\ \A c \in Cases : GoesOn(service[c], service'[c])
<1>. USE DEF ServiceInv, ServiceTypes
<1>1. call.case \in Cases
  BY DEF Calls
<1>2. OutcomeOK(call, service[call.case], Outcome(call))
  BY OutcomeEffect
<1>3. /\ service'[call.case] = Outcome(call)
      /\ \A c \in Cases \ {call.case} : service'[c] = service[c]
      /\ DOMAIN service' = Cases
      /\ service' = [c \in Cases |-> service'[c]]
      /\ Outcome(call).stamp <= MaxTouches[call.case]
  BY <1>1 DEF Serve
<1>4. \A c \in Cases : service'[c] \in Records
  BY <1>2, <1>3 DEF OutcomeOK
<1>5. service' \in [Cases -> Records]
  BY <1>3, <1>4
<1>6. ServiceTypes'
  BY <1>3, <1>5 DEF ServiceTypes
<1>7. ConfirmedIsWhatWasSubmitted'
  <2>. SUFFICES ASSUME NEW c \in Cases, service'[c].confirmed
                PROVE  [case |-> c, facts |-> service'[c].facts] \in signed'
    BY DEF ConfirmedIsWhatWasSubmitted
  <2>1. CASE c # call.case
    BY <2>1, <1>3 DEF ConfirmedIsWhatWasSubmitted
  <2>2. CASE c = call.case
    BY <2>2, <1>2, <1>3 DEF ConfirmedIsWhatWasSubmitted, OutcomeOK, Signed
  <2>. QED  BY <2>1, <2>2
<1>8. \A d \in late' : Signed(d, signed')
  BY DEF Signed
<1>9. \A c \in Cases : service'[c].notice # None => service'[c].notice.case = c
  BY <1>1, <1>2, <1>3 DEF OutcomeOK
<1>10. \A c \in Cases : GoesOn(service[c], service'[c])
  <2>. SUFFICES ASSUME NEW c \in Cases
                PROVE  GoesOn(service[c], service'[c])
    OBVIOUS
  <2>0. service[c] \in Records
    OBVIOUS
  <2>1. CASE c # call.case
    BY <2>0, <2>1, <1>3 DEF GoesOn, Records
  <2>2. CASE c = call.case
    BY <2>0, <2>2, <1>2, <1>3 DEF GoesOn, OutcomeOK, Records
  <2>. QED  BY <2>1, <2>2
<1>. QED  BY <1>2, <1>3, <1>5, <1>6, <1>7, <1>8, <1>9, <1>10

\* A session stays coherent with a record that goes on.
LEMMA SessionGoesOn ==
  ASSUME NEW svc \in [Cases -> Records], NEW new \in [Cases -> Records], NEW u,
         SessionOK(u, svc), u.id # 0 => GoesOn(svc[u.id], new[u.id])
  PROVE  /\ SessionOK(u, new)
         /\ \A latest : UploadOK(u, latest, svc) => UploadOK(u, latest, new)
<1>1. u \in Sessions /\ (u.case # None => u.id # 0) /\ (u.id # 0 => u.id \in Cases)
  BY DEF SessionOK, OfOneCase, Sessions
<1>2. CASE u.id = 0
  BY <1>1, <1>2 DEF SessionOK, UploadOK
<1>3. CASE u.id # 0
  <2>. DEFINE s == svc[u.id]
              t == new[u.id]
  <2>1. s \in Records /\ t \in Records /\ GoesOn(s, t) /\ FormCoherent(u, s)
    BY <1>1, <1>3 DEF SessionOK
  <2>2. s.stamp \in Nat /\ t.stamp \in Nat /\ u.synced \in Nat \cup {None}
    BY <1>1, <2>1 DEF Records, Sessions
  <2>. HIDE DEF s, t
  <2>3. ASSUME NEW case \in Snapshots, Coherent(u, case, s)
        PROVE  Coherent(u, case, t)
    <3>1. case.stamp \in Nat
      BY DEF Snapshots
    <3>. QED  BY <2>1, <2>2, <2>3, <3>1 DEF Coherent, GoesOn
  <2>4. FormCoherent(u, t)
    <3>. SUFFICES ASSUME t.alive
                  PROVE  FormCoherent(u, t)
      BY DEF FormCoherent
    <3>1. /\ s.stamp <= t.stamp
          /\ s.stamp = t.stamp => s.facts = t.facts /\ s.confirmed = t.confirmed
          /\ u.synced # None => u.synced <= s.stamp
          /\ FormIs(u, s.facts, s.confirmed, s.stamp)
      BY <2>1 DEF FormCoherent, GoesOn
    <3>2. None \notin Nat
      BY AbsenceAssumption
    <3>3. u.synced = t.stamp => s.stamp = t.stamp
      BY <2>2, <3>1, <3>2
    <3>4. u.synced # None => u.synced <= t.stamp
      BY <2>2, <3>1, <3>2
    <3>5. FormIs(u, t.facts, t.confirmed, t.stamp)
      BY <3>1, <3>3 DEF FormIs
    <3>. QED  BY <3>4, <3>5 DEF FormCoherent
  <2>5. u.case # None => u.case \in Snapshots
    BY <1>1 DEF Sessions
  <2>6. SessionOK(u, new)
    BY <2>3, <2>4, <2>5 DEF SessionOK, s, t
  <2>7. \A latest : UploadOK(u, latest, svc) => UploadOK(u, latest, new)
    BY <2>3 DEF UploadOK, s, t
  <2>. QED  BY <2>6, <2>7
<1>. QED  BY <1>2, <1>3

-----------------------------------------------------------------------------
(* What the session heard. *)

LEMMA HeardIs ==
  ASSUME FaultsOK, NEW what
  PROVE  /\ Heard(what) \in [lost : 0 .. MaxLost, restarts : 0 .. MaxRestarts,
                            missed : SUBSET {"case", "draft"}]
         /\ Heard(what).missed = faults.missed \ what
BY DEF FaultsOK, Heard

\* A session that missed a change vouches for nothing it holds.
LEMMA MissedIs ==
  ASSUME FaultsOK, NEW svc, NEW u, u.case = ui.case, u.notice = ui.notice
  PROVE  /\ Missed \in [lost : 0 .. MaxLost, restarts : 0 .. MaxRestarts,
                       missed : SUBSET {"case", "draft"}]
         /\ Missed.lost = faults.lost /\ Missed.restarts = faults.restarts
         /\ Current(u, svc, Missed.missed)
         /\ \A latest, s : u.case # None => UploadsCurrent(u, latest, s, Missed.missed)
<1>. DEFINE m == {part \in {"case", "draft"} : IF part = "case" THEN ui.case # None
                                                              ELSE ui.notice # None}
<1>1. /\ m \in SUBSET {"case", "draft"}
      /\ u.case # None => "case" \in m
      /\ u.notice # None => "draft" \in m
  OBVIOUS
<1>2. Missed = [faults EXCEPT !.missed = m]
  BY DEF Missed
<1>. HIDE DEF m
<1>3. /\ Missed \in [lost : 0 .. MaxLost, restarts : 0 .. MaxRestarts,
                    missed : SUBSET {"case", "draft"}]
      /\ Missed.lost = faults.lost /\ Missed.restarts = faults.restarts /\ Missed.missed = m
  BY <1>1, <1>2 DEF FaultsOK
<1>. QED  BY <1>1, <1>3 DEF Current, UploadsCurrent, CaseCurrent, DraftCurrent

-----------------------------------------------------------------------------
(* What the handlers do to the session. *)

\* The answer of a case that is alive becomes the case of the session.
LEMMA StoreCaseOK ==
  ASSUME NEW svc \in [Cases -> Records], NEW u, SessionOK(u, svc), u.id \in Cases,
         svc[u.id].alive
  PROVE  LET w == StoreCase(u, Snapshot(u.id, svc[u.id]))
         IN /\ SessionOK(w, svc)
            /\ w.id = u.id /\ w.case = Snapshot(u.id, svc[u.id]) /\ w.notice = u.notice
            /\ w.picked = u.picked
            /\ Agrees(w.case, svc[u.id])
<1>. DEFINE s == svc[u.id]
            n == Snapshot(u.id, s)
            w == StoreCase(u, n)
<1>1. s \in Records /\ u \in Sessions /\ u.id # 0
  BY SessionAssumption DEF SessionOK
<1>2. n \in Snapshots /\ n.id = u.id /\ n.facts = s.facts /\ n.confirmed = s.confirmed
      /\ n.stamp = s.stamp /\ Agrees(n, s) /\ s.stamp \in Nat
  BY <1>1, SnapshotShows DEF Records
<1>3. FormCoherent(u, s) /\ s.alive /\ OfOneCase(u)
  BY <1>1 DEF SessionOK
<1>. HIDE DEF n, s
<1>4. /\ w \in Sessions /\ w.id = u.id /\ w.case = n /\ w.notice = u.notice
      /\ w.synced = u.synced /\ w.form = u.form /\ w.typed = u.typed /\ w.picked = u.picked
  BY <1>1, <1>2 DEF StoreCase, Sessions
<1>. HIDE DEF w
<1>5. Coherent(w, n, s)
  BY <1>2, <1>3, <1>4 DEF Coherent, FormCoherent, FormIs
<1>6. FormCoherent(w, s)
  BY <1>3, <1>4 DEF FormCoherent, FormIs
<1>7. OfOneCase(w)
  BY <1>1, <1>2, <1>3, <1>4 DEF OfOneCase
<1>8. SessionOK(w, svc)
  BY <1>4, <1>5, <1>6, <1>7 DEF SessionOK, s
<1>. QED  BY <1>2, <1>4, <1>8 DEF w, n, s

\* Changes of the draft or of its marks leave the rest of the session alone.
LEMMA DraftChangeOK ==
  ASSUME NEW svc \in [Cases -> Records], NEW u, SessionOK(u, svc), NEW w \in Sessions,
         w.id = u.id, w.case = u.case, w.synced = u.synced, w.form = u.form,
         w.typed = u.typed, w.notice # None => u.id # 0 /\ w.notice.case = u.id
  PROVE  SessionOK(w, svc)
BY DEF SessionOK, OfOneCase, Coherent, FormCoherent, FormIs

\* A form that is typed into, or dropped, shows nothing the case does not.
LEMMA FormChangeOK ==
  ASSUME NEW svc \in [Cases -> Records], NEW u, SessionOK(u, svc), NEW w \in Sessions,
         w.id = u.id, w.case = u.case, w.synced = u.synced, w.notice = u.notice,
         w.form = None \/ w.typed
  PROVE  SessionOK(w, svc)
BY DEF SessionOK, OfOneCase, Coherent, FormCoherent, FormIs

LEMMA DropDraftOK ==
  ASSUME NEW svc \in [Cases -> Records], NEW u, SessionOK(u, svc)
  PROVE  LET w == DropDraft(u)
         IN SessionOK(w, svc) /\ w.id = u.id /\ w.case = u.case /\ w.notice = None
<1>. DEFINE w == DropDraft(u)
<1>1. /\ w \in Sessions /\ w.id = u.id /\ w.case = u.case /\ w.notice = None
      /\ w.synced = u.synced /\ w.form = u.form /\ w.typed = u.typed
  BY DEF SessionOK, Sessions, DropDraft
<1>. HIDE DEF w
<1>2. SessionOK(w, svc)
  BY <1>1, DraftChangeOK
<1>. QED  BY <1>1, <1>2 DEF w

LEMMA WithoutFormOK ==
  ASSUME NEW svc \in [Cases -> Records], NEW u, SessionOK(u, svc)
  PROVE  LET w == WithoutForm(u)
         IN /\ SessionOK(w, svc)
            /\ w.id = u.id /\ w.case = u.case /\ w.notice = u.notice /\ w.picked = u.picked
<1>. DEFINE w == WithoutForm(u)
<1>1. /\ w \in Sessions /\ w.id = u.id /\ w.case = u.case /\ w.notice = u.notice
      /\ w.picked = u.picked /\ w.synced = u.synced /\ w.form = None
  BY DEF SessionOK, Sessions, WithoutForm
<1>. HIDE DEF w
<1>2. SessionOK(w, svc)
  BY <1>1, FormChangeOK
<1>. QED  BY <1>1, <1>2 DEF w

\* The widgets show the case of the session after _sync_fact_widgets.
LEMMA SyncOK ==
  ASSUME NEW svc \in [Cases -> Records], NEW u, SessionOK(u, svc), u.case # None
  PROVE  LET w == Sync(u)
         IN /\ SessionOK(w, svc)
            /\ w.id = u.id /\ w.case = u.case /\ w.notice = u.notice /\ w.picked = u.picked
            /\ w.synced = w.case.stamp
            /\ w.form = FormOf(w.case) \/ w.typed
<1>1. u \in Sessions /\ u.case \in Snapshots /\ u.id # 0 /\ u.id \in Cases
      /\ Coherent(u, u.case, svc[u.id]) /\ FormCoherent(u, svc[u.id])
  BY DEF SessionOK, Sessions, OfOneCase
<1>2. CASE u.synced = u.case.stamp /\ u.form # None
  <2>1. Sync(u) = u
    BY <1>2 DEF Sync
  <2>. QED  BY <1>1, <1>2, <2>1 DEF Coherent, FormIs, FormOf
<1>3. CASE ~(u.synced = u.case.stamp /\ u.form # None)
  <2>. DEFINE s == svc[u.id]
              c == u.case
              f == FormOf(c)
              w == Sync(u)
  <2>1. f \in Forms /\ f = [story |-> c.facts.story, loss |-> c.facts.loss, tick |-> c.confirmed]
    BY <1>1 DEF FormOf, Forms, Snapshots, Facts
  <2>2. c.stamp \in Nat
    BY <1>1 DEF Snapshots
  <2>3. w = [u EXCEPT !.form = f, !.synced = c.stamp, !.typed = FALSE]
    BY <1>3 DEF Sync
  <2>4. OfOneCase(u) /\ Coherent(u, c, s) /\ FormCoherent(u, s)
    BY <1>1 DEF SessionOK
  <2>. HIDE DEF f, w, c, s
  <2>5. /\ w \in Sessions /\ w.id = u.id /\ w.case = u.case /\ w.notice = u.notice
        /\ w.picked = u.picked /\ w.synced = c.stamp /\ w.form = f /\ ~w.typed
    BY <1>1, <2>1, <2>2, <2>3 DEF Sessions
  <2>6. Coherent(w, c, s)
    BY <2>1, <2>4, <2>5 DEF Coherent, FormIs
  <2>7. FormCoherent(w, s)
    BY <2>1, <2>4, <2>5 DEF Coherent, FormIs, FormCoherent
  <2>8. OfOneCase(w)
    BY <1>1, <2>4, <2>5 DEF OfOneCase
  <2>9. SessionOK(w, svc)
    BY <2>5, <2>6, <2>7, <2>8 DEF SessionOK, c, s
  <2>. QED  BY <2>5, <2>9 DEF w, c, f
<1>. QED  BY <1>2, <1>3

\* A session without credentials is coherent with anything.
LEMMA EmptyOK ==
  ASSUME NEW svc \in [Cases -> Records]
  PROVE  SessionOK(EmptySession, svc) /\ \A missed : Current(EmptySession, svc, missed)
BY SessionAssumption DEF SessionOK, OfOneCase, Current, DraftCurrent, EmptySession, Sessions

\* The draft that is fetched belongs to the case.
LEMMA ShowCaseOK ==
  ASSUME ServiceInv, FaultsOK, NEW u, SessionOK(u, service), u.id \in Cases, u.case # None,
         NEW heard, Current(u, service, faults.missed \ heard), ShowCase(u, heard)
  PROVE  /\ SessionOK(ui', service)
         /\ ui'.id = u.id /\ ui'.case = u.case /\ ui'.synced = u.synced /\ ui'.form = u.form
         /\ ui'.typed = u.typed
         /\ Current(ui', service, faults'.missed)
<1>. DEFINE n == service[u.id].notice
<1>1. CASE ui' = u /\ faults' = Heard(heard)
  BY <1>1, HeardIs
<1>2. CASE /\ u.notice = None /\ u.case.notice_available /\ n # None
           /\ ui' = [u EXCEPT !.notice = n] /\ faults' = Heard(heard \cup {"draft"})
  <2>1. n # None /\ n \in Drafts /\ n.case = u.id
    BY <1>2 DEF ServiceInv, ServiceTypes, Records
  <2>2. ui' = [u EXCEPT !.notice = n] /\ faults'.missed = faults.missed \ (heard \cup {"draft"})
    BY <1>2, HeardIs
  <2>3. u \in Sessions /\ u.id # 0
    BY SessionAssumption DEF SessionOK
  <2>. HIDE DEF n
  <2>4. /\ ui' \in Sessions /\ ui'.id = u.id /\ ui'.case = u.case /\ ui'.synced = u.synced
        /\ ui'.form = u.form /\ ui'.typed = u.typed /\ ui'.picked = u.picked /\ ui'.notice = n
    BY <2>1, <2>2, <2>3 DEF Sessions
  <2>5. service \in [Cases -> Records]
    BY DEF ServiceInv, ServiceTypes
  <2>6. SessionOK(ui', service)
    BY <2>1, <2>3, <2>4, <2>5, DraftChangeOK
  <2>7. Current(ui', service, faults'.missed)
    BY <2>2, <2>4 DEF Current, CaseCurrent, DraftCurrent, n
  <2>. QED  BY <2>4, <2>6, <2>7
<1>. QED  BY <1>1, <1>2 DEF ShowCase

-----------------------------------------------------------------------------
(* The steps of the consumer page. *)

\* A run that ends with st.rerun leaves only the session to look at.
LEMMA RerunKeeps ==
  ASSUME ServiceInv', SessionOK(ui', service'), pc' = Rerun,
         screen' \in {"down", "page", "unreadable"},
         Current(ui', service', faults'.missed)
  PROVE  ConsumerInv'
<1>1. pc' \in Scripts /\ pc'.at = "rerun"
  BY DEF Rerun, Scripts
<1>2. SessionInv'
  BY <1>1 DEF SessionInv, PageHasCase, FormShowsTheCase, OnCasePage
<1>3. HeardInv'
  BY <1>1 DEF HeardInv
<1>. QED  BY <1>2, <1>3 DEF ConsumerInv

\* A service that is left alone keeps its invariant, whatever else is signed
\* or on its way.
LEMMA ServiceAlone ==
  ASSUME ServiceInv, UNCHANGED service, signed \subseteq signed',
         \A call \in late' : call \in late \/ (call \in Calls /\ Signed(call, signed'))
  PROVE  ServiceInv'
<1>1. ServiceTypes'
  BY DEF ServiceInv, ServiceTypes
<1>2. ConfirmedIsWhatWasSubmitted'
  BY DEF ServiceInv, ConfirmedIsWhatWasSubmitted
<1>3. \A call \in late' : Signed(call, signed')
  BY DEF ServiceInv, Signed
<1>. QED  BY <1>1, <1>2, <1>3 DEF ServiceInv

\* A request that fails, or is served unheard, or whose answer is lost.
Unanswered(call) ==
  \/ UNCHANGED <<service, late, faults>>
  \/ ServeUnheard(call)
  \/ Lose(call) /\ UNCHANGED service

LEMMA UnansweredKeeps ==
  ASSUME ConsumerInv, FaultsOK, pc.at # "uploading", SessionOK(ui', service),
         NEW call \in Calls, Signed(call, signed'), signed \subseteq signed', Unanswered(call),
         ui'.id = ui.id, ui'.case = ui.case, ui'.notice = ui.notice, ui'.picked = ui.picked
  PROVE  /\ ServiceInv' /\ SessionOK(ui', service')
         /\ Current(ui', service', faults'.missed)
<1>0. Current(ui, service, faults.missed) /\ service \in [Cases -> Records]
  BY DEF ConsumerInv, HeardInv, ServiceInv, ServiceTypes
<1>1. CASE UNCHANGED <<service, late, faults>>
  <2>1. ServiceInv'
    BY <1>1, ServiceAlone DEF ConsumerInv
  <2>. QED  BY <1>0, <1>1, <2>1 DEF Current, CaseCurrent, DraftCurrent
<1>2. CASE ServeUnheard(call)
  <2>1. Serve(call) /\ late' = late /\ faults' = [Missed EXCEPT !.lost = @ + 1]
    BY <1>2 DEF ServeUnheard
  <2>2. ServiceInv' /\ service' \in [Cases -> Records]
        /\ \A c \in Cases : GoesOn(service[c], service'[c])
    BY <2>1, ServeOK DEF ConsumerInv
  <2>3. ui'.id # 0 => ui'.id \in Cases
    BY DEF SessionOK, Sessions
  <2>4. SessionOK(ui', service')
    BY <1>0, <2>2, <2>3, SessionGoesOn
  <2>5. faults'.missed = Missed.missed
    BY <2>1, MissedIs
  <2>6. Current(ui', service', Missed.missed)
    BY MissedIs
  <2>. QED  BY <2>2, <2>4, <2>5, <2>6
<1>3. CASE Lose(call) /\ UNCHANGED service
  <2>1. \A d \in late' : d \in late \/ (d \in Calls /\ Signed(d, signed'))
    BY <1>3 DEF Lose
  <2>2. ServiceInv'
    BY <1>3, <2>1, ServiceAlone DEF ConsumerInv
  <2>3. faults'.missed = faults.missed
    BY <1>3 DEF Lose, FaultsOK
  <2>. QED  BY <1>0, <1>3, <2>2, <2>3 DEF Current, CaseCurrent, DraftCurrent
<1>. QED  BY <1>1, <1>2, <1>3 DEF Unanswered

\* An answer that carries the case.
LEMMA AnswerStored ==
  ASSUME ConsumerInv, NEW call \in Calls, Serve(call), call.kind # "delete",
         Signed(call, signed'), signed \subseteq signed', late' = late,
         NEW u, SessionOK(u, service), u.id = call.case
  PROVE  LET w == StoreCase(u, Snapshot(call.case, Outcome(call)))
         IN /\ ServiceInv'
            /\ SessionOK(u, service') /\ SessionOK(w, service')
            /\ w.id = u.id /\ w.notice = u.notice /\ w.picked = u.picked
            /\ w.case # None /\ Agrees(w.case, service'[u.id]) /\ service'[u.id].alive
<1>. DEFINE w == StoreCase(u, Snapshot(call.case, Outcome(call)))
<1>1. /\ ServiceInv'
      /\ service \in [Cases -> Records] /\ service' \in [Cases -> Records]
      /\ service'[call.case] = Outcome(call)
      /\ OutcomeOK(call, service[call.case], Outcome(call))
      /\ \A c \in Cases : GoesOn(service[c], service'[c])
  BY ServeOK DEF ConsumerInv, ServiceInv, ServiceTypes
<1>2. call.case \in Cases
  BY DEF Calls
<1>3. service'[u.id].alive
  BY <1>1 DEF OutcomeOK, Serve, Admitted
<1>4. SessionOK(u, service')
  BY <1>1, <1>2, SessionGoesOn
<1>5. w = StoreCase(u, Snapshot(u.id, service'[u.id]))
  BY <1>1
<1>. HIDE DEF w
<1>6. /\ SessionOK(w, service') /\ w.id = u.id /\ w.notice = u.notice /\ w.picked = u.picked
      /\ w.case = Snapshot(u.id, service'[u.id])
      /\ Agrees(w.case, service'[u.id])
  BY <1>1, <1>2, <1>3, <1>4, <1>5, StoreCaseOK
<1>7. w.case # None
  BY <1>1, <1>2, <1>6, SnapshotShows, AbsenceAssumption
<1>. QED  BY <1>1, <1>3, <1>4, <1>6, <1>7 DEF w

\* A person who acts on the page of a case has one.
LEMMA OnPage ==
  ASSUME ConsumerInv, OnCasePage
  PROVE  /\ pc.at # "uploading" /\ screen = "page"
         /\ ui \in Sessions /\ ui.id \in Cases /\ ui.id # 0
         /\ ui.case # None /\ ui.case \in Snapshots
         /\ SessionOK(ui, service)
         /\ Current(ui, service, faults.missed)
         /\ service \in [Cases -> Records]
BY DEF ConsumerInv, SessionInv, PageHasCase, OnCasePage, HasCredentials, HeardInv,
       SessionOK, Sessions, ServiceInv, ServiceTypes

LEMMA SendMessageKeeps ==
  ASSUME ConsumerInv, FaultsOK, NEW story \in Stories, SendMessage(story)
  PROVE  ConsumerInv'
<1>. DEFINE call == Call("message", ui.id, story)
<1>1. call \in Calls /\ call.kind = "message" /\ call.case = ui.id
  BY OnPage DEF Calls, Call, SendMessage
<1>2. /\ pc' = Rerun /\ screen' = "page" /\ signed' = signed /\ Signed(call, signed')
  BY <1>1, OnPage DEF SendMessage, Request, Signed
<1>3. \/ Serve(call) /\ ui' = AfterMessage(ui, Snapshot(call.case, Outcome(call)))
         /\ late' = late
      \/ ui' = ui /\ Unanswered(call)
  BY DEF SendMessage, Request, Unanswered
<1>. HIDE DEF call
<1>4. ServiceInv' /\ SessionOK(ui', service')
      /\ Current(ui', service', faults'.missed)
  <2>0. OnCasePage
    BY DEF SendMessage
  <2>1. CASE Serve(call) /\ ui' = AfterMessage(ui, Snapshot(call.case, Outcome(call)))
             /\ late' = late
    <3>. DEFINE w == StoreCase(ui, Snapshot(call.case, Outcome(call)))
    <3>1. /\ ServiceInv' /\ SessionOK(w, service') /\ w.id = ui.id /\ w.case # None
          /\ Agrees(w.case, service'[ui.id]) /\ service'[ui.id].alive
      BY <1>1, <1>2, <2>0, <2>1, OnPage, AnswerStored
    <3>2. ui' = DropDraft(w)
      BY <2>1 DEF AfterMessage
    <3>3. service' \in [Cases -> Records]
      BY <3>1 DEF ServiceInv, ServiceTypes
    <3>. HIDE DEF w
    <3>4. SessionOK(ui', service') /\ ui'.id = ui.id /\ ui'.case = w.case /\ ui'.notice = None
      BY <3>1, <3>2, <3>3, DropDraftOK
    <3>. QED  BY <3>1, <3>4 DEF Current, CaseCurrent, DraftCurrent
  <2>2. CASE ui' = ui /\ Unanswered(call)
    BY <1>1, <1>2, <2>0, <2>2, OnPage, UnansweredKeeps
  <2>. QED  BY <1>3, <2>1, <2>2
<1>. QED  BY <1>2, <1>4, RerunKeeps

LEMMA SubmitFactsKeeps ==
  ASSUME ConsumerInv, FaultsOK, NEW story \in Stories, NEW loss \in Losses,
         NEW tick \in BOOLEAN, SubmitFacts(story, loss, tick)
  PROVE  ConsumerInv'
<1>. DEFINE facts  == [story |-> story, loss |-> loss, ref |-> RetainedReference(loss)]
            filled == [ui EXCEPT !.form = [story |-> story, loss |-> loss, tick |-> tick],
                                 !.typed = TRUE]
            call   == Call("facts", ui.id, [facts |-> facts, tick |-> tick])
<1>0. OnCasePage
  BY DEF SubmitFacts
<1>1. facts \in Facts
  BY <1>0, OnPage DEF Facts, RetainedReference, Snapshots
<1>2. /\ pc' = Rerun /\ screen' = "page"
      /\ signed' = IF tick THEN signed \cup {[case |-> ui.id, facts |-> facts]} ELSE signed
      /\ \/ Serve(call) /\ ui' = AfterFacts(filled, Snapshot(call.case, Outcome(call)))
            /\ late' = late
         \/ ui' = filled /\ Unanswered(call)
  BY <1>0, OnPage DEF SubmitFacts, Request, Unanswered
<1>. HIDE DEF facts
<1>3. /\ call \in Calls /\ call.kind = "facts" /\ call.case = ui.id
      /\ call.arg.facts = facts /\ call.arg.tick = tick
  BY <1>0, <1>1, OnPage DEF Calls, Call
<1>. HIDE DEF call
<1>4. signed \subseteq signed' /\ Signed(call, signed')
  BY <1>2, <1>3 DEF Signed
<1>5. /\ filled \in Sessions /\ filled.id = ui.id /\ filled.case = ui.case /\ filled.typed
      /\ filled.synced = ui.synced /\ filled.notice = ui.notice /\ filled.picked = ui.picked
  BY <1>0, OnPage DEF Sessions, Forms
<1>. HIDE DEF filled
<1>6. SessionOK(filled, service)
  BY <1>0, <1>5, OnPage, FormChangeOK
<1>7. ServiceInv' /\ SessionOK(ui', service')
      /\ Current(ui', service', faults'.missed)
  <2>1. CASE Serve(call) /\ ui' = AfterFacts(filled, Snapshot(call.case, Outcome(call)))
             /\ late' = late
    <3>. DEFINE w == StoreCase(filled, Snapshot(call.case, Outcome(call)))
    <3>1. /\ ServiceInv' /\ SessionOK(w, service') /\ w.id = ui.id /\ w.case # None
          /\ Agrees(w.case, service'[ui.id]) /\ service'[ui.id].alive
      BY <1>3, <1>4, <1>5, <1>6, <2>1, AnswerStored
    <3>2. ui' = DropDraft(w)
      BY <2>1 DEF AfterFacts
    <3>3. service' \in [Cases -> Records]
      BY <3>1 DEF ServiceInv, ServiceTypes
    <3>. HIDE DEF w
    <3>4. SessionOK(ui', service') /\ ui'.id = ui.id /\ ui'.case = w.case /\ ui'.notice = None
      BY <3>1, <3>2, <3>3, DropDraftOK
    <3>. QED  BY <3>1, <3>4 DEF Current, CaseCurrent, DraftCurrent
  <2>2. CASE ui' = filled /\ Unanswered(call)
    BY <1>0, <1>3, <1>4, <1>5, <1>6, <2>2, OnPage, UnansweredKeeps
  <2>. QED  BY <1>2, <2>1, <2>2
<1>. QED  BY <1>2, <1>7, RerunKeeps

LEMMA PickAmountKeeps ==
  ASSUME ConsumerInv, FaultsOK, NEW f \in Files, PickAmount(f)
  PROVE  ConsumerInv'
<1>. DEFINE call == Call("amount", ui.id, f)
<1>0. OnCasePage
  BY DEF PickAmount
<1>1. call \in Calls /\ call.kind = "amount" /\ call.case = ui.id
  BY <1>0, OnPage DEF Calls, Call
<1>2. /\ pc' = Rerun /\ screen' = "page" /\ signed' = signed /\ Signed(call, signed')
  BY <1>0, <1>1, OnPage DEF PickAmount, Request, Signed
<1>3. \/ Serve(call) /\ ui' = AfterAmount(ui, Snapshot(call.case, Outcome(call)))
         /\ late' = late
      \/ ui' = ui /\ Unanswered(call)
  BY DEF PickAmount, Request, Unanswered
<1>. HIDE DEF call
<1>4. ServiceInv' /\ SessionOK(ui', service')
      /\ Current(ui', service', faults'.missed)
  <2>1. CASE Serve(call) /\ ui' = AfterAmount(ui, Snapshot(call.case, Outcome(call)))
             /\ late' = late
    <3>. DEFINE w == StoreCase(ui, Snapshot(call.case, Outcome(call)))
    <3>1. /\ ServiceInv' /\ SessionOK(w, service') /\ w.id = ui.id /\ w.case # None
          /\ Agrees(w.case, service'[ui.id]) /\ service'[ui.id].alive
      BY <1>0, <1>1, <1>2, <2>1, OnPage, AnswerStored
    <3>2. ui' = [w EXCEPT !.picked = TRUE]
      BY <2>1 DEF AfterAmount
    <3>3. service' \in [Cases -> Records]
      BY <3>1 DEF ServiceInv, ServiceTypes
    <3>. HIDE DEF w
    <3>4. /\ ui' \in Sessions /\ ui'.id = w.id /\ ui'.case = w.case /\ ui'.synced = w.synced
          /\ ui'.form = w.form /\ ui'.typed = w.typed /\ ui'.notice = w.notice /\ ui'.picked
      BY <3>1, <3>2 DEF SessionOK, Sessions
    <3>5. w.notice # None => w.id # 0 /\ w.notice.case = w.id
      BY <3>1 DEF SessionOK, OfOneCase
    <3>6. SessionOK(ui', service')
      BY <3>1, <3>3, <3>4, <3>5, DraftChangeOK
    <3>. QED  BY <3>1, <3>4, <3>6 DEF Current, CaseCurrent, DraftCurrent
  <2>2. CASE ui' = ui /\ Unanswered(call)
    BY <1>0, <1>1, <1>2, <2>2, OnPage, UnansweredKeeps
  <2>. QED  BY <1>3, <2>1, <2>2
<1>. QED  BY <1>2, <1>4, RerunKeeps

\* Only the draft comes back: the case that the session holds is marked, and
\* is the case that the draft was made of.
LEMMA GenerateKeeps ==
  ASSUME ConsumerInv, FaultsOK, Generate
  PROVE  ConsumerInv'
<1>. DEFINE call == Call("notice", ui.id, None)
            s == service[ui.id]
            t == WithNotice(ui.id, s)
<1>0. OnCasePage
  BY DEF Generate
<1>1. call \in Calls /\ call.kind = "notice" /\ call.case = ui.id
  BY <1>0, OnPage DEF Calls, Call
<1>2. /\ pc' = Rerun /\ screen' = "page" /\ signed' = signed /\ Signed(call, signed')
  BY <1>0, <1>1, OnPage DEF Generate, Request, Signed
<1>3. \/ Serve(call) /\ ui' = AfterNotice(ui, Snapshot(call.case, Outcome(call)))
         /\ late' = late /\ faults' = Heard(Renewed(call))
      \/ ui' = ui /\ Unanswered(call)
  BY DEF Generate, Request, Unanswered
<1>4. Outcome(call) = t /\ Renewed(call) = {"draft"}
  BY DEF Outcome, Call, Renewed
<1>. HIDE DEF call
<1>5. ServiceInv' /\ SessionOK(ui', service')
      /\ Current(ui', service', faults'.missed)
  <2>1. CASE Serve(call) /\ ui' = AfterNotice(ui, Snapshot(call.case, Outcome(call)))
             /\ late' = late /\ faults' = Heard(Renewed(call))
    <3>1. /\ ServiceInv' /\ SessionOK(ui, service') /\ service'[ui.id].alive
      BY <1>0, <1>1, <1>2, <2>1, OnPage, AnswerStored
    <3>2. service'[ui.id] = t
      BY <1>0, <1>1, <1>2, <1>4, <2>1, OnPage, ServeOK DEF ConsumerInv
    <3>3. s \in Records /\ ui.id \in Cases
      BY <1>0, OnPage
    <3>. HIDE DEF s
    <3>. DEFINE n == [case |-> ui.id, facts |-> s.facts]
                m == [s EXCEPT !.notice = n]
    <3>4. n \in Drafts /\ n # None /\ n.case = ui.id
      BY <3>3, AbsenceAssumption DEF Drafts, Records
    <3>. HIDE DEF n
    <3>5. /\ m \in Records /\ m.facts = s.facts /\ m.confirmed = s.confirmed /\ m.docs = s.docs
          /\ m.notice = n
      BY <3>3, <3>4 DEF Records
    <3>6. t = Touched(m)
      BY DEF WithNotice, n
    <3>. HIDE DEF m, t
    <3>7. /\ t.facts = s.facts /\ t.confirmed = s.confirmed /\ t.docs = s.docs /\ t.notice = n
          /\ t \in Records
      BY <3>5, <3>6, TouchedIs
    <3>. DEFINE k == Snapshot(ui.id, t)
                c == [ui.case EXCEPT !.notice_available = TRUE]
    <3>8. k.id = ui.id /\ k.facts = s.facts
      BY <3>3, <3>7, SnapshotShows
    <3>9. /\ c \in Snapshots /\ c.id = ui.case.id /\ c.facts = ui.case.facts
          /\ c.confirmed = ui.case.confirmed /\ c.docs = ui.case.docs
          /\ c.ready = ui.case.ready /\ c.stamp = ui.case.stamp /\ c.notice_available = TRUE
      BY <1>0, OnPage DEF Snapshots
    <3>10. ui' = [ui EXCEPT !.notice = n, !.case = c, !.picked = FALSE]
      BY <1>1, <1>4, <2>1, <3>8 DEF AfterNotice, n
    <3>. HIDE DEF c, k
    <3>11. /\ ui' \in Sessions /\ ui'.id = ui.id /\ ui'.case = c /\ ui'.synced = ui.synced
           /\ ui'.form = ui.form /\ ui'.typed = ui.typed /\ ui'.notice = n
      BY <1>0, <3>4, <3>9, <3>10, OnPage DEF Sessions
    <3>12. Coherent(ui', c, service'[ui.id])
      BY <1>0, <3>1, <3>9, <3>11, OnPage DEF SessionOK, Coherent, FormIs
    <3>13. FormCoherent(ui', service'[ui.id]) /\ OfOneCase(ui')
      BY <1>0, <3>1, <3>4, <3>9, <3>11, OnPage DEF SessionOK, OfOneCase, FormCoherent, FormIs
    <3>14. SessionOK(ui', service')
      BY <3>11, <3>12, <3>13 DEF SessionOK
    <3>15. "case" \notin faults'.missed => Agrees(ui.case, s)
      BY <1>0, <1>4, <2>1, OnPage, HeardIs DEF Current, CaseCurrent, s
    <3>16. Agrees(ui.case, s) => Agrees(c, t)
      BY <3>4, <3>7, <3>9 DEF Agrees, Accepted
    <3>. QED  BY <3>1, <3>2, <3>7, <3>11, <3>14, <3>15, <3>16 DEF Current, CaseCurrent, DraftCurrent
  <2>2. CASE ui' = ui /\ Unanswered(call)
    BY <1>0, <1>1, <1>2, <2>2, OnPage, UnansweredKeeps
  <2>. QED  BY <1>3, <2>1, <2>2
<1>. QED  BY <1>2, <1>5, RerunKeeps

LEMMA DeleteKeeps ==
  ASSUME ConsumerInv, FaultsOK, Delete
  PROVE  ConsumerInv'
<1>. DEFINE call == Call("delete", ui.id, None)
<1>0. OnCasePage
  BY DEF Delete
<1>1. call \in Calls /\ call.kind = "delete" /\ call.case = ui.id
  BY <1>0, OnPage DEF Calls, Call
<1>2. /\ pc' = Rerun /\ screen' = "page" /\ signed' = signed /\ Signed(call, signed')
  BY <1>0, <1>1, OnPage DEF Delete, Request, Signed
<1>3. \/ Serve(call) /\ ui' = EmptySession /\ late' = late
      \/ ui' = ui /\ Unanswered(call)
  BY DEF Delete, Request, AfterDelete, Reset, Unanswered
<1>. HIDE DEF call
<1>4. ServiceInv' /\ SessionOK(ui', service')
      /\ Current(ui', service', faults'.missed)
  <2>1. CASE Serve(call) /\ ui' = EmptySession /\ late' = late
    <3>1. ServiceInv' /\ service' \in [Cases -> Records]
      BY <1>1, <1>2, <2>1, ServeOK DEF ConsumerInv
    <3>. QED  BY <2>1, <3>1, EmptyOK
  <2>2. CASE ui' = ui /\ Unanswered(call)
    BY <1>0, <1>1, <1>2, <2>2, OnPage, UnansweredKeeps
  <2>. QED  BY <1>3, <2>1, <2>2
<1>. QED  BY <1>2, <1>4, RerunKeeps

\* The three ways a case is opened: with its answer, up to its credentials, or
\* for nobody.
LEMMA StartCaseKeeps ==
  ASSUME ConsumerInv, FaultsOK, NEW c \in Cases, StartCase(c)
  PROVE  ConsumerInv'
<1>. DEFINE o == Opened
            n == Snapshot(c, o)
<1>0. /\ pc.at = "idle" /\ screen' = "page" /\ ui.id = 0 /\ pc' = Rerun
      /\ service' = [service EXCEPT ![c] = o] /\ signed' = signed /\ late' = late
  BY DEF StartCase, HasCredentials
<1>1. /\ o \in Records /\ o.alive /\ ~o.confirmed /\ o.notice = None /\ o.stamp = 1
  <2>. DEFINE m == [NoCase EXCEPT !.alive = TRUE]
  <2>1. m \in Records /\ m.alive /\ ~m.confirmed /\ m.notice = None /\ m.stamp = 0
    BY SessionAssumption DEF NoCase, NoFacts, Facts, Records
  <2>2. o = Touched(m)
    BY DEF Opened
  <2>. HIDE DEF m, o
  <2>. QED  BY <2>1, <2>2, TouchedIs
<1>. HIDE DEF o
<1>2. /\ service \in [Cases -> Records] /\ service' \in [Cases -> Records]
      /\ service'[c] = o /\ \A d \in Cases \ {c} : service'[d] = service[d]
  BY <1>0, <1>1 DEF ConsumerInv, ServiceInv, ServiceTypes
<1>3. MaxTouches[c] \in Nat \ {0}
  BY SessionAssumption
<1>4. ServiceInv'
  <2>1. ServiceTypes'
    BY <1>0, <1>1, <1>2, <1>3 DEF ConsumerInv, ServiceInv, ServiceTypes
  <2>2. ConfirmedIsWhatWasSubmitted'
    BY <1>0, <1>1, <1>2 DEF ConsumerInv, ServiceInv, ConfirmedIsWhatWasSubmitted
  <2>3. \A call \in late' : Signed(call, signed')
    BY <1>0 DEF ConsumerInv, ServiceInv
  <2>4. \A d \in Cases : service'[d].notice # None => service'[d].notice.case = d
    BY <1>1, <1>2 DEF ConsumerInv, ServiceInv
  <2>. QED  BY <2>1, <2>2, <2>3, <2>4 DEF ServiceInv
<1>5. /\ n \in Snapshots /\ n.id = c /\ n.facts = o.facts /\ n.confirmed = o.confirmed
      /\ n.stamp = o.stamp /\ Agrees(n, o)
  BY <1>1, SnapshotShows
<1>. HIDE DEF n
<1>6. SessionOK(ui, service) /\ ui \in Sessions /\ ui.case = None /\ ui.notice = None
      /\ ui.synced = None
  BY <1>0 DEF ConsumerInv, SessionInv, SessionOK, OfOneCase
<1>7. c # 0 /\ None \notin Nat
  BY SessionAssumption, AbsenceAssumption
<1>8. SessionOK(ui', service')
  <2>1. CASE ui' = StoreCase(ui, n)
    <3>1. /\ ui' \in Sessions /\ ui'.id = c /\ ui'.case = n /\ ui'.notice = None
          /\ ui'.synced = None
      BY <1>5, <1>6, <2>1 DEF StoreCase, Sessions
    <3>2. Coherent(ui', n, o) /\ FormCoherent(ui', o)
      BY <1>1, <1>5, <1>7, <3>1 DEF Coherent, FormCoherent, FormIs
    <3>. QED  BY <1>2, <1>5, <1>7, <3>1, <3>2 DEF SessionOK, OfOneCase
  <2>2. CASE ui' = [ui EXCEPT !.id = c]
    <3>1. /\ ui' \in Sessions /\ ui'.id = c /\ ui'.case = None /\ ui'.notice = None
          /\ ui'.synced = None
      BY <1>6, <2>2 DEF Sessions
    <3>2. FormCoherent(ui', o)
      BY <1>1, <1>7, <3>1 DEF FormCoherent, FormIs
    <3>. QED  BY <1>2, <1>7, <3>1, <3>2 DEF SessionOK, OfOneCase
  <2>3. CASE ui' = ui
    BY <1>0, <1>6, <2>3 DEF SessionOK
  <2>. QED  BY <1>5, <2>1, <2>2, <2>3 DEF StartCase, n, o
<1>9. Current(ui', service', faults'.missed)
  <2>1. ui' = StoreCase(ui, n) \/ ui' = [ui EXCEPT !.id = c] \/ ui' = ui
    BY DEF StartCase, n, o
  <2>2. ui'.notice = None /\ (ui'.case = None \/ (ui'.case = n /\ ui'.id = c))
    BY <1>5, <1>6, <2>1 DEF StoreCase, Sessions
  <2>. QED  BY <1>1, <1>2, <1>5, <2>2 DEF Current, CaseCurrent, DraftCurrent
<1>. QED  BY <1>0, <1>4, <1>8, <1>9, RerunKeeps

LEMMA StartUploadsKeeps ==
  ASSUME ConsumerInv, NEW files \in SUBSET Files, StartUploads(files)
  PROVE  ConsumerInv'
<1>1. /\ OnCasePage /\ UNCHANGED <<service, late, ui, screen, signed, faults>>
      /\ pc' = [at |-> "uploading", rest |-> files, latest |-> ui.case, failed |-> FALSE]
  BY DEF StartUploads
<1>2. pc' \in Scripts /\ pc'.at = "uploading" /\ pc'.latest = ui.case
  BY <1>1, OnPage DEF Scripts
<1>3. ServiceInv'
  BY <1>1, ServiceAlone DEF ConsumerInv
<1>4. SessionOK(ui, service) /\ UploadOK(ui, ui.case, service)
  BY <1>1, OnPage DEF SessionOK, UploadOK
<1>5. SessionInv'
  BY <1>1, <1>2, <1>4, OnPage DEF SessionInv, PageHasCase, FormShowsTheCase, OnCasePage
<1>6. HeardInv'
  BY <1>1, <1>2, OnPage DEF HeardInv, UploadsCurrent, Current
<1>. QED  BY <1>3, <1>5, <1>6 DEF ConsumerInv

\* During the uploads the session keeps the case from before; each answer is
\* coherent with it.
LEMMA UploadNextKeeps ==
  ASSUME ConsumerInv, FaultsOK, NEW f \in Files, UploadNext(f)
  PROVE  ConsumerInv'
<1>. DEFINE call == Call("upload", ui.id, f)
            n == Snapshot(ui.id, Outcome(call))
<1>1. /\ pc \in Scripts /\ pc.at = "uploading" /\ SessionOK(ui, service)
      /\ UploadOK(ui, pc.latest, service) /\ ui.id \in Cases /\ ui.id # 0 /\ ui.case # None
      /\ UploadsCurrent(ui, pc.latest, service[ui.id], faults.missed)
      /\ service \in [Cases -> Records]
  BY DEF UploadNext, ConsumerInv, SessionInv, UploadOK, SessionOK, OfOneCase, Sessions, HeardInv,
         ServiceInv, ServiceTypes
<1>2. call \in Calls /\ call.kind = "upload" /\ call.case = ui.id
  BY <1>1 DEF Calls, Call
<1>3. /\ UNCHANGED <<ui, screen, signed>>
      /\ \/ /\ Serve(call) /\ pc' = [pc EXCEPT !.rest = @ \ {f}, !.latest = n]
            /\ late' = late /\ faults' = Heard(Renewed(call))
         \/ /\ pc' = [pc EXCEPT !.rest = @ \ {f}, !.failed = TRUE]
            /\ Unanswered(call)
  BY DEF UploadNext, Unanswered
<1>. HIDE DEF call
<1>4. Signed(call, signed') /\ screen' \in {"down", "page", "unreadable"}
  BY <1>2, <1>3 DEF Signed, ConsumerInv, SessionInv
<1>5. CASE /\ Serve(call) /\ pc' = [pc EXCEPT !.rest = @ \ {f}, !.latest = n]
           /\ late' = late /\ faults' = Heard(Renewed(call))
  <2>. DEFINE w == StoreCase(ui, Snapshot(call.case, Outcome(call)))
              s == service[ui.id]
              o == service'[ui.id]
  <2>1. /\ ServiceInv' /\ SessionOK(ui, service') /\ SessionOK(w, service') /\ w.id = ui.id
        /\ w.case # None /\ Agrees(w.case, o) /\ o.alive
    BY <1>1, <1>2, <1>3, <1>4, <1>5, AnswerStored
  <2>2. w.case = n /\ w.form = ui.form /\ w.typed = ui.typed /\ w.synced = ui.synced
    BY <1>1, <1>2 DEF StoreCase, SessionOK, Sessions
  <2>3. s \in Records /\ o = Outcome(call) /\ OutcomeOK(call, s, o) /\ s.alive
    BY <1>1, <1>2, <1>3, <1>4, <1>5, ServeOK DEF ConsumerInv, Serve, Admitted
  <2>4. n.stamp = o.stamp
    BY <1>1, <2>3, SnapshotShows DEF OutcomeOK
  <2>5. ui.case.stamp \in Nat /\ ui.case.stamp <= s.stamp
    BY <1>1, <2>3 DEF SessionOK, Coherent, Sessions, Snapshots
  <2>6. faults'.missed = faults.missed \ {"case"}
    BY <1>2, <1>5, HeardIs DEF Renewed
  <2>. HIDE DEF w, n, s, o
  <2>7. n \in Snapshots /\ Coherent(w, n, o)
    BY <2>1, <2>2 DEF SessionOK, Sessions, o
  <2>8. UploadOK(ui, n, service')
    BY <1>1, <2>1, <2>2, <2>7 DEF UploadOK, Coherent, FormIs, o
  <2>9. pc' \in Scripts /\ pc'.at = "uploading" /\ pc'.latest = n
    BY <1>1, <1>5, <2>7 DEF Scripts
  <2>10. SessionInv'
    BY <1>3, <1>4, <2>1, <2>8, <2>9 DEF SessionInv, PageHasCase, FormShowsTheCase, OnCasePage
  <2>11. ui.case = n \/ ui.case.stamp = o.stamp => ui.case.stamp = s.stamp /\ o = s
    BY <1>2, <2>3, <2>4, <2>5 DEF OutcomeOK, Records
  <2>12. UploadsCurrent(ui, n, o, faults'.missed)
    <3>1. CaseCurrent(n, o, faults'.missed)
      BY <2>1, <2>2 DEF CaseCurrent
    <3>2. ui.case.stamp = s.stamp => DraftCurrent(ui, s, faults.missed)
      BY <1>1 DEF UploadsCurrent, s
    <3>. QED  BY <2>6, <2>11, <3>1, <3>2 DEF UploadsCurrent, DraftCurrent
  <2>13. HeardInv'
    BY <1>3, <2>9, <2>12 DEF HeardInv, o
  <2>. QED  BY <2>1, <2>10, <2>13 DEF ConsumerInv
<1>6. CASE pc' = [pc EXCEPT !.rest = @ \ {f}, !.failed = TRUE] /\ Unanswered(call)
  <2>1. pc' \in Scripts /\ pc'.at = "uploading" /\ pc'.latest = pc.latest
    BY <1>1, <1>6 DEF Scripts
  <2>2. CASE ServeUnheard(call)
    <3>1. Serve(call) /\ late' = late /\ faults' = [Missed EXCEPT !.lost = @ + 1]
      BY <2>2 DEF ServeUnheard
    <3>2. /\ ServiceInv' /\ service' \in [Cases -> Records]
          /\ \A c \in Cases : GoesOn(service[c], service'[c])
      BY <1>2, <1>3, <1>4, <3>1, ServeOK DEF ConsumerInv
    <3>3. SessionOK(ui, service') /\ UploadOK(ui, pc.latest, service')
      BY <1>1, <3>2, SessionGoesOn
    <3>4. faults'.missed = Missed.missed
      BY <3>1, MissedIs
    <3>5. UploadsCurrent(ui, pc.latest, service'[ui.id], Missed.missed)
      BY <1>1, MissedIs
    <3>6. SessionInv'
      BY <1>3, <1>4, <2>1, <3>3 DEF SessionInv, PageHasCase, FormShowsTheCase, OnCasePage
    <3>7. HeardInv'
      BY <1>3, <2>1, <3>4, <3>5 DEF HeardInv
    <3>. QED  BY <3>2, <3>6, <3>7 DEF ConsumerInv
  <2>3. CASE UNCHANGED service /\ (UNCHANGED <<late, faults>> \/ Lose(call))
    <3>1. \A d \in late' : d \in late \/ (d \in Calls /\ Signed(d, signed'))
      BY <1>2, <1>4, <2>3 DEF Lose
    <3>2. ServiceInv'
      BY <1>3, <2>3, <3>1, ServiceAlone DEF ConsumerInv
    <3>3. SessionInv'
      BY <1>1, <1>3, <1>4, <2>1, <2>3
         DEF SessionInv, PageHasCase, FormShowsTheCase, OnCasePage
    <3>4. faults'.missed = faults.missed
      BY <2>3 DEF Lose, FaultsOK
    <3>5. HeardInv'
      BY <1>1, <1>3, <2>1, <2>3, <3>4 DEF HeardInv
    <3>. QED  BY <3>2, <3>3, <3>5 DEF ConsumerInv
  <2>. QED  BY <1>6, <2>2, <2>3 DEF Unanswered
<1>. QED  BY <1>3, <1>5, <1>6

LEMMA FinishUploadsKeeps ==
  ASSUME ConsumerInv, FaultsOK, FinishUploads
  PROVE  ConsumerInv'
<1>. DEFINE c == pc.latest
            w == StoreCase(ui, c)
            s == service[ui.id]
<1>1. /\ pc.at = "uploading" /\ pc' = Rerun /\ ui' = DropDraft(w)
      /\ UNCHANGED <<service, late, screen, signed>> /\ faults' = Heard({"draft"})
  BY DEF FinishUploads, AfterUploads
<1>2. /\ SessionOK(ui, service) /\ c \in Snapshots /\ Coherent(ui, c, s) /\ ui.case # None
      /\ service \in [Cases -> Records] /\ screen \in {"down", "page", "unreadable"}
  BY <1>1 DEF ConsumerInv, SessionInv, UploadOK, ServiceInv, ServiceTypes
<1>3. /\ ui \in Sessions /\ OfOneCase(ui) /\ ui.id # 0 /\ ui.id \in Cases /\ c.id = ui.id
      /\ FormCoherent(ui, s)
  BY <1>2 DEF SessionOK, OfOneCase, Sessions, Coherent
<1>. HIDE DEF c, s
<1>4. /\ w \in Sessions /\ w.id = ui.id /\ w.case = c /\ w.notice = ui.notice
      /\ w.synced = ui.synced /\ w.form = ui.form /\ w.typed = ui.typed
  BY <1>2, <1>3 DEF StoreCase, Sessions
<1>. HIDE DEF w
<1>5. Coherent(w, c, s) /\ FormCoherent(w, s) /\ OfOneCase(w)
  BY <1>2, <1>3, <1>4 DEF Coherent, FormCoherent, FormIs, OfOneCase
<1>6. SessionOK(w, service)
  BY <1>4, <1>5 DEF SessionOK, s
<1>7. SessionOK(ui', service) /\ ui'.id = ui.id /\ ui'.case = c /\ ui'.notice = None
  BY <1>1, <1>2, <1>4, <1>6, DropDraftOK
<1>8. ServiceInv'
  BY <1>1, ServiceAlone DEF ConsumerInv
<1>9. CaseCurrent(c, s, faults.missed)
  BY <1>1 DEF ConsumerInv, HeardInv, UploadsCurrent, c, s
<1>10. Current(ui', service', faults'.missed)
  BY <1>1, <1>7, <1>9, HeardIs DEF Current, CaseCurrent, DraftCurrent, s
<1>. QED  BY <1>1, <1>2, <1>7, <1>8, <1>10, RerunKeeps

\* An interaction that ends the run: what was stored so far is what the
\* session knows of.
LEMMA InterruptionIs ==
  ASSUME ConsumerInv, FaultsOK
  PROVE  /\ Current(ui, service, AfterInterruption.missed)
         /\ AfterInterruption \in [lost : 0 .. MaxLost, restarts : 0 .. MaxRestarts,
                                  missed : SUBSET {"case", "draft"}]
<1>1. CASE pc.at = "uploading" /\ pc.latest # ui.case
  BY <1>1, MissedIs DEF AfterInterruption
<1>2. CASE pc.at = "uploading" /\ pc.latest = ui.case
  BY <1>2 DEF AfterInterruption, FaultsOK, ConsumerInv, HeardInv, UploadsCurrent, Current
<1>3. CASE pc.at # "uploading"
  BY <1>3 DEF AfterInterruption, FaultsOK, ConsumerInv, HeardInv
<1>. QED  BY <1>1, <1>2, <1>3

\* Any other interaction, StartNewAfterError, an interrupted upload, and the
\* way to the consumer page.
LEMMA NewRunKeeps ==
  ASSUME ConsumerInv, FaultsOK, pc' = Rerun, UNCHANGED <<service, late, screen, signed>>,
         ui' = ui \/ ui' = EmptySession, faults' = AfterInterruption
  PROVE  ConsumerInv'
<1>1. /\ ServiceInv' /\ service \in [Cases -> Records] /\ SessionOK(ui, service)
      /\ screen \in {"down", "page", "unreadable"}
  BY ServiceAlone DEF ConsumerInv, ServiceInv, ServiceTypes, SessionInv
<1>2. SessionOK(ui', service') /\ Current(ui', service', faults'.missed)
  BY <1>1, EmptyOK, InterruptionIs
<1>. QED  BY <1>1, <1>2, RerunKeeps

LEMMA RefreshKeeps ==
  ASSUME ConsumerInv, FaultsOK, Refresh
  PROVE  ConsumerInv'
<1>. DEFINE w == StoreCase(ui, Snapshot(ui.id, service[ui.id]))
<1>1. /\ OnCasePage /\ pc' = Rerun /\ UNCHANGED <<service, late, screen, signed>>
      /\ \/ UNCHANGED <<ui, faults>>
         \/ ui' = w /\ service[ui.id].alive /\ faults' = Heard({"case"})
  BY DEF Refresh
<1>2. ServiceInv'
  BY <1>1, ServiceAlone DEF ConsumerInv
<1>3. CASE UNCHANGED <<ui, faults>>
  <2>1. SessionOK(ui', service') /\ Current(ui', service', faults'.missed)
    BY <1>1, <1>3, OnPage
  <2>. QED  BY <1>1, <1>2, <2>1, OnPage, RerunKeeps
<1>4. CASE ui' = w /\ service[ui.id].alive /\ faults' = Heard({"case"})
  <2>1. /\ SessionOK(w, service) /\ w.id = ui.id /\ w.notice = ui.notice /\ w.picked = ui.picked
        /\ Agrees(w.case, service[ui.id])
    BY <1>1, <1>4, OnPage, StoreCaseOK
  <2>. HIDE DEF w
  <2>2. DraftCurrent(ui, service[ui.id], faults.missed) /\ faults'.missed = faults.missed \ {"case"}
    BY <1>1, <1>4, OnPage, HeardIs DEF Current
  <2>3. SessionOK(ui', service') /\ Current(ui', service', faults'.missed)
    BY <1>1, <1>4, <2>1, <2>2 DEF Current, CaseCurrent, DraftCurrent
  <2>. QED  BY <1>1, <1>2, <2>3, OnPage, RerunKeeps
<1>. QED  BY <1>1, <1>3, <1>4

\* A run that draws something else than the page of a case.
LEMMA OtherPageKeeps ==
  ASSUME ConsumerInv, FaultsOK, pc' \in Scripts, pc'.at = "idle",
         UNCHANGED <<service, late, signed>>, ui' = WithoutForm(ui),
         faults' = AfterInterruption,
         \/ screen' \in {"down", "unreadable"}
         \/ screen' = "page" /\ ui.id = 0
  PROVE  ConsumerInv'
<1>1. ServiceInv' /\ service \in [Cases -> Records] /\ SessionOK(ui, service)
  BY ServiceAlone DEF ConsumerInv, ServiceInv, ServiceTypes, SessionInv
<1>2. /\ SessionOK(ui', service') /\ ui'.id = ui.id /\ ui'.case = ui.case
      /\ ui'.notice = ui.notice /\ ui'.picked = ui.picked
  BY <1>1, WithoutFormOK
<1>3. SessionInv'
  BY <1>2 DEF SessionInv, PageHasCase, FormShowsTheCase, OnCasePage, HasCredentials
<1>4. Current(ui', service', faults'.missed)
  BY <1>2, InterruptionIs DEF Current, CaseCurrent, DraftCurrent
<1>5. HeardInv'
  BY <1>4 DEF HeardInv
<1>. QED  BY <1>1, <1>3, <1>5 DEF ConsumerInv

\* A run that draws the page of case u.case, with its widgets filled.
LEMMA CasePageKeeps ==
  ASSUME ConsumerInv, FaultsOK, pc' = Idle, UNCHANGED <<service, late, signed>>,
         NEW u, SessionOK(u, service), u.id \in Cases, u.case # None,
         NEW heard, Current(u, service, faults.missed \ heard),
         ShowCase(Sync(u), heard)
  PROVE  ConsumerInv'
<1>. DEFINE w == Sync(u)
<1>1. /\ ServiceInv /\ ServiceInv' /\ service \in [Cases -> Records] /\ screen' = "page"
  BY ServiceAlone DEF ConsumerInv, ServiceInv, ServiceTypes, ShowCase
<1>2. /\ SessionOK(w, service) /\ w.id = u.id /\ w.case = u.case /\ w.notice = u.notice
      /\ w.picked = u.picked /\ w.synced = w.case.stamp
      /\ w.form = FormOf(w.case) \/ w.typed
  BY <1>1, SyncOK
<1>3. ShowCase(w, heard)
  OBVIOUS
<1>. HIDE DEF w
<1>4. Current(w, service, faults.missed \ heard)
  BY <1>2 DEF Current, CaseCurrent, DraftCurrent
<1>5. /\ SessionOK(ui', service) /\ ui'.id = w.id /\ ui'.case = w.case
      /\ ui'.synced = w.synced /\ ui'.form = w.form /\ ui'.typed = w.typed
      /\ Current(ui', service, faults'.missed)
  BY <1>1, <1>2, <1>3, <1>4, ShowCaseOK
<1>6. pc' \in Scripts /\ pc'.at = "idle"
  BY DEF Idle, Rerun, Scripts
<1>7. SessionInv'
  BY <1>1, <1>2, <1>5, <1>6 DEF SessionInv, PageHasCase, FormShowsTheCase
<1>8. HeardInv'
  BY <1>5, <1>6 DEF HeardInv
<1>. QED  BY <1>1, <1>7, <1>8 DEF ConsumerInv

LEMMA RenderKeeps ==
  ASSUME ConsumerInv, FaultsOK, Render
  PROVE  ConsumerInv'
<1>1. /\ pc.at # "uploading" /\ pc' = Idle /\ pc' \in Scripts /\ pc'.at = "idle"
      /\ UNCHANGED <<service, late, signed>> /\ AfterInterruption = faults
  BY DEF Render, Idle, Rerun, Scripts, AfterInterruption
<1>2. /\ SessionOK(ui, service) /\ (ui.id # 0 => ui.id \in Cases)
      /\ Current(ui, service, faults.missed)
      /\ service \in [Cases -> Records]
  BY <1>1 DEF ConsumerInv, SessionInv, HeardInv, SessionOK, Sessions, ServiceInv, ServiceTypes
<1>3. CASE RenderUnavailable
  BY <1>1, <1>3, OtherPageKeeps DEF RenderUnavailable
<1>4. CASE RenderOnboarding
  BY <1>1, <1>4, OtherPageKeeps DEF RenderOnboarding, HasCredentials
<1>5. CASE RenderCase
  <2>1. Current(ui, service, faults.missed \ {})
    BY <1>2 DEF Current, CaseCurrent, DraftCurrent
  <2>. QED  BY <1>1, <1>2, <1>5, <2>1, CasePageKeeps DEF RenderCase, HasCredentials
<1>6. CASE RenderFetchedCase
  <2>. DEFINE w == StoreCase(ui, Snapshot(ui.id, service[ui.id]))
  <2>1. \/ service[ui.id].alive /\ ShowCase(Sync(w), {"case"})
        \/ screen' = "unreadable" /\ ui' = WithoutForm(ui) /\ UNCHANGED faults
    BY <1>6 DEF RenderFetchedCase
  <2>2. ui.id \in Cases
    BY <1>2, <1>6 DEF RenderFetchedCase, HasCredentials
  <2>3. CASE service[ui.id].alive /\ ShowCase(Sync(w), {"case"})
    <3>1. /\ SessionOK(w, service) /\ w.id = ui.id /\ w.notice = ui.notice
          /\ w.picked = ui.picked /\ w.case = Snapshot(ui.id, service[ui.id])
          /\ Agrees(w.case, service[ui.id])
      BY <1>2, <2>2, <2>3, StoreCaseOK
    <3>2. w.case # None
      BY <1>2, <2>2, <3>1, SnapshotShows, AbsenceAssumption
    <3>3. ShowCase(Sync(w), {"case"})
      BY <2>3
    <3>. HIDE DEF w
    <3>4. Current(w, service, faults.missed \ {"case"})
      BY <1>2, <2>3, <3>1 DEF Current, CaseCurrent, DraftCurrent
    <3>. QED  BY <1>1, <2>2, <3>1, <3>2, <3>3, <3>4, CasePageKeeps
  <2>4. CASE screen' = "unreadable" /\ ui' = WithoutForm(ui) /\ UNCHANGED faults
    BY <1>1, <2>4, OtherPageKeeps
  <2>. QED  BY <2>1, <2>3, <2>4
<1>. QED  BY <1>3, <1>4, <1>5, <1>6 DEF Render

-----------------------------------------------------------------------------
(* The steps of the service on its own. *)

\* Records that go on leave the session as it is: it misses what changes, or
\* its own record does not change.
LEMMA ServiceMovesKeeps ==
  ASSUME ConsumerInv, FaultsOK, ServiceInv', UNCHANGED <<ui, pc, screen>>,
         \A c \in Cases : GoesOn(service[c], service'[c]),
         \/ faults'.missed = Missed.missed
         \/ UNCHANGED faults /\ (ui.id # 0 => service'[ui.id] = service[ui.id])
  PROVE  ConsumerInv'
<1>1. service \in [Cases -> Records] /\ service' \in [Cases -> Records]
  BY DEF ConsumerInv, ServiceInv, ServiceTypes
<1>2. /\ SessionOK(ui, service) /\ (ui.id # 0 => ui.id \in Cases)
      /\ ui.id = 0 => ui.case = None /\ ui.notice = None
      /\ pc.at = "uploading" => ui.case # None
  BY DEF ConsumerInv, SessionInv, SessionOK, Sessions, OfOneCase, UploadOK
<1>3. /\ SessionOK(ui, service')
      /\ UploadOK(ui, pc.latest, service) => UploadOK(ui, pc.latest, service')
  BY <1>1, <1>2, SessionGoesOn
<1>4. SessionInv'
  BY <1>3 DEF ConsumerInv, SessionInv, PageHasCase, FormShowsTheCase, OnCasePage, HasCredentials
<1>5. CASE faults'.missed = Missed.missed
  <2>1. Current(ui, service', Missed.missed)
    BY MissedIs
  <2>2. pc.at = "uploading" => UploadsCurrent(ui, pc.latest, service'[ui.id], Missed.missed)
    BY <1>2, MissedIs
  <2>3. HeardInv'
    BY <1>5, <2>1, <2>2 DEF HeardInv
  <2>. QED  BY <1>4, <2>3 DEF ConsumerInv
<1>6. CASE UNCHANGED faults /\ (ui.id # 0 => service'[ui.id] = service[ui.id])
  <2>1. CASE ui.id # 0
    <3>1. HeardInv'
      BY <1>6, <2>1 DEF ConsumerInv, HeardInv, Current
    <3>. QED  BY <1>4, <3>1 DEF ConsumerInv
  <2>2. CASE ui.id = 0
    <3>1. HeardInv'
      BY <1>2, <2>2 DEF HeardInv, Current, DraftCurrent
    <3>. QED  BY <1>4, <3>1 DEF ConsumerInv
  <2>. QED  BY <2>1, <2>2
<1>. QED  BY <1>5, <1>6

LEMMA ServeLateKeeps ==
  ASSUME ConsumerInv, FaultsOK, ServeLate
  PROVE  ConsumerInv'
<1>1. PICK call \in late :
        /\ late' = late \ {call}
        /\ IF Admitted(call) THEN Serve(call) ELSE UNCHANGED service
        /\ faults' = IF Admitted(call) /\ call.case = ui.id THEN Missed ELSE faults
        /\ UNCHANGED <<ui, pc, screen, signed>>
  BY DEF ServeLate
<1>2. call \in Calls /\ Signed(call, signed')
  BY <1>1 DEF ConsumerInv, ServiceInv, ServiceTypes
<1>3. ui.id # 0 => ui.id \in Cases
  BY DEF ConsumerInv, SessionInv, SessionOK, Sessions
<1>4. CASE Serve(call)
  <2>1. ServiceInv' /\ \A c \in Cases : GoesOn(service[c], service'[c])
    BY <1>1, <1>2, <1>4, ServeOK DEF ConsumerInv
  <2>2. \/ faults' = Missed
        \/ UNCHANGED faults /\ (ui.id # 0 => service'[ui.id] = service[ui.id])
    BY <1>1, <1>3, <1>4 DEF Serve, ConsumerInv, ServiceInv, ServiceTypes
  <2>. QED  BY <1>1, <2>1, <2>2, ServiceMovesKeeps
<1>5. CASE UNCHANGED service /\ ~Admitted(call)
  <2>1. ServiceInv'
    BY <1>1, <1>5, ServiceAlone DEF ConsumerInv
  <2>2. \A c \in Cases : GoesOn(service[c], service'[c])
    BY <1>5 DEF GoesOn, ConsumerInv, ServiceInv, ServiceTypes, Records
  <2>. QED  BY <1>1, <1>5, <2>1, <2>2, ServiceMovesKeeps
<1>. QED  BY <1>1, <1>4, <1>5

LEMMA RestartServiceKeeps ==
  ASSUME ConsumerInv, FaultsOK, RestartService
  PROVE  ConsumerInv'
<1>1. /\ UNCHANGED <<late, ui, pc, screen, signed>>
      /\ service' = [c \in Cases |-> Forgotten(service[c])]
      /\ faults' = [Missed EXCEPT !.restarts = @ + 1]
  BY DEF RestartService
<1>2. service \in [Cases -> Records]
  BY DEF ConsumerInv, ServiceInv, ServiceTypes
<1>3. \A c \in Cases : /\ service'[c] \in Records
                       /\ ~service'[c].alive /\ ~service'[c].confirmed
                       /\ service'[c].notice = None
                       /\ service'[c].stamp = service[c].stamp
  BY <1>1, <1>2, ForgottenIs
<1>4. service' \in [Cases -> Records]
  <2>1. service' = [c \in Cases |-> service'[c]]
    BY <1>1
  <2>. QED  BY <1>3, <2>1
<1>5. ServiceInv'
  BY <1>1, <1>3, <1>4
     DEF ConsumerInv, ServiceInv, ServiceTypes, ConfirmedIsWhatWasSubmitted
<1>6. faults'.missed = Missed.missed
  BY <1>1, MissedIs
<1>7. \A c \in Cases : GoesOn(service[c], service'[c])
  BY <1>3 DEF GoesOn
<1>. QED  BY <1>1, <1>5, <1>6, <1>7, ServiceMovesKeeps

-----------------------------------------------------------------------------
(* The steps of the analyst's page. *)

LEMMA BlankIs ==
  /\ \A e \in {"none", "upload", "poll", "exception", "job"} :
       [Blank EXCEPT !.error = e] \in Drawings /\ [Blank EXCEPT !.error = e].report = NoJob
  /\ Blank \in Drawings /\ Blank.report = NoJob
  /\ [Blank EXCEPT !.up = FALSE] \in Drawings /\ [Blank EXCEPT !.up = FALSE].report = NoJob
BY DEF Blank, Drawings

\* What is drawn is drawn of the session.
LEMMA DrawKeeps ==
  ASSUME AnalystInv, Draw(session), UNCHANGED <<job, session, outages>>
  PROVE  AnalystInv'
<1>. DEFINE s == session
            e == IF s.report = NoJob /\ s.error # "none" THEN "job" ELSE "none"
            d == IF job[s.job] \in WithReport THEN s.job ELSE NoJob
<1>1. /\ s \in [job : Jobs \cup {NoJob}, report : Jobs \cup {NoJob},
                error : {"none", "failed", "load"}]
      /\ NoJob \notin Jobs
      /\ s.report # NoJob => /\ s.report = s.job /\ s.error = "none"
                             /\ outages = 0 => d = s.job
  BY PageAssumption DEF AnalystInv, AnalystTypeOK, PageIsAboutItsJob
<1>2. e \in {"none", "job"} /\ d \in Jobs \cup {NoJob}
  BY <1>1
<1>3. CASE /\ drawn' = [Drawn(s) EXCEPT !.error = e]
           /\ fragment' = IF Follows(s) THEN "on" ELSE "off"
  <2>1. CASE s.report = NoJob
    <3>1. Drawn(s) = Blank
      BY <2>1 DEF Drawn
    <3>. HIDE DEF e
    <3>2. drawn' \in Drawings /\ drawn'.report = NoJob
      <4>1. drawn' = [Blank EXCEPT !.error = e]
        BY <1>3, <3>1
      <4>. QED  BY <1>2, <4>1, BlankIs
    <3>3. fragment' \in {"on", "off"} /\ (fragment' = "on" => s.job # NoJob /\ s.error = "none")
      BY <1>3 DEF Follows
    <3>. QED  BY <1>1, <2>1, <3>2, <3>3 DEF AnalystInv, AnalystTypeOK, PageIsAboutItsJob
  <2>2. CASE s.report # NoJob
    <3>1. Drawn(s) = [Blank EXCEPT !.report = s.report, !.download = d]
      BY <2>2 DEF Drawn
    <3>. HIDE DEF e, d
    <3>2. /\ drawn' \in Drawings /\ drawn'.report = s.report /\ drawn'.download = d
      <4>1. drawn' = [[Blank EXCEPT !.report = s.report, !.download = d] EXCEPT !.error = e]
        BY <1>3, <3>1
      <4>2. drawn' = [up |-> TRUE, report |-> s.report, download |-> d, error |-> e]
        BY <4>1 DEF Blank
      <4>. QED  BY <1>1, <1>2, <4>2 DEF Drawings
    <3>3. fragment' = "off"
      BY <1>3, <2>2 DEF Follows
    <3>. QED  BY <1>1, <2>2, <3>2, <3>3 DEF AnalystInv, AnalystTypeOK, PageIsAboutItsJob
  <2>. QED  BY <2>1, <2>2
<1>4. CASE drawn' = [Blank EXCEPT !.up = FALSE] /\ fragment' = "off"
  <2>1. drawn' \in Drawings /\ drawn'.report = NoJob
    BY <1>4 DEF Blank, Drawings
  <2>. QED  BY <1>4, <2>1 DEF AnalystInv, AnalystTypeOK, PageIsAboutItsJob
<1>. QED  BY <1>3, <1>4 DEF Draw

LEMMA JobEndsKeeps ==
  ASSUME AnalystInv, NEW j \in Jobs, JobEnds(j)
  PROVE  AnalystInv'
<1>1. PICK end \in Endings : job' = [job EXCEPT ![j] = end]
  BY DEF JobEnds
<1>2. job[j] = "running" /\ UNCHANGED <<session, fragment, drawn, outages>>
  BY DEF JobEnds
<1>3. end \in ServiceStates /\ end # "forgotten"
  BY PageAssumption DEF ServiceStates, Ended
<1>4. session.report # NoJob => session.job # j
  BY <1>2 DEF AnalystInv, PageIsAboutItsJob, WithReport
<1>5. session.error = "failed" => session.job # j
  BY <1>2 DEF AnalystInv, PageIsAboutItsJob
<1>. QED  BY <1>1, <1>2, <1>3, <1>4, <1>5
             DEF AnalystInv, AnalystTypeOK, PageIsAboutItsJob

LEMMA ForgetJobsKeeps ==
  ASSUME AnalystInv, ForgetJobs
  PROVE  AnalystInv'
<1>1. /\ outages' = outages + 1 /\ outages < MaxOutages
      /\ job' = [j \in Jobs |-> IF job[j] = "unknown" THEN "unknown" ELSE "forgotten"]
      /\ UNCHANGED <<session, fragment, drawn>>
  BY DEF ForgetJobs
<1>2. outages' \in 0 .. MaxOutages /\ outages' # 0
  BY <1>1, PageAssumption DEF AnalystInv, AnalystTypeOK
<1>3. job' \in [Jobs -> ServiceStates]
  BY <1>1 DEF ServiceStates
<1>4. session.report # NoJob => job'[session.job] = "forgotten"
  BY <1>1 DEF AnalystInv, AnalystTypeOK, PageIsAboutItsJob, WithReport
<1>5. session.error = "failed" => job'[session.job] = "forgotten"
  BY <1>1 DEF AnalystInv, AnalystTypeOK, PageIsAboutItsJob
<1>. QED  BY <1>1, <1>2, <1>3, <1>4, <1>5
             DEF AnalystInv, AnalystTypeOK, PageIsAboutItsJob

LEMMA SubmitKeeps ==
  ASSUME AnalystInv, NEW j \in Jobs, Submit(j) \/ SubmitFails(j)
  PROVE  AnalystInv'
<1>0. /\ job[j] = "unknown" /\ "running" \in ServiceStates /\ NoJob \notin Jobs
  BY PageAssumption DEF Submit, SubmitFails, Fresh, ServiceStates
<1>1. CASE Submit(j)
  <2>1. /\ job' = [job EXCEPT ![j] = "running"] /\ drawn' = Blank /\ fragment' = "on"
        /\ session' = [job |-> j, report |-> NoJob, error |-> "none"] /\ UNCHANGED outages
    BY <1>1 DEF Submit, Uploaded
  <2>. QED  BY <1>0, <2>1, BlankIs DEF AnalystInv, AnalystTypeOK, PageIsAboutItsJob
<1>2. CASE SubmitFails(j)
  <2>1. /\ job' = job \/ job' = [job EXCEPT ![j] = "running"]
        /\ drawn' = [Blank EXCEPT !.error = "upload"] /\ fragment' = "off"
        /\ UNCHANGED <<session, outages>>
    BY <1>2 DEF SubmitFails
  <2>2. drawn' \in Drawings /\ drawn'.report = NoJob
    BY <2>1, BlankIs
  <2>3. session.report # NoJob => session.job # j
    BY <1>0 DEF AnalystInv, PageIsAboutItsJob, WithReport
  <2>4. session.error = "failed" => session.job # j
    BY <1>0 DEF AnalystInv, PageIsAboutItsJob
  <2>. QED  BY <1>0, <2>1, <2>2, <2>3, <2>4 DEF AnalystInv, AnalystTypeOK, PageIsAboutItsJob
<1>. QED  BY <1>1, <1>2

LEMMA PollKeeps ==
  ASSUME AnalystInv, PollState \/ PollUnanswered \/ FetchReport
  PROVE  AnalystInv'
<1>0. /\ fragment \in {"on", "fetching"} /\ UNCHANGED <<job, outages>>
      /\ session.job \in Jobs /\ session.report = NoJob /\ session.error = "none"
      /\ drawn.report = NoJob /\ drawn \in Drawings
      /\ session \in [job : Jobs \cup {NoJob}, report : Jobs \cup {NoJob},
                      error : {"none", "failed", "load"}]
  BY DEF PollState, PollUnanswered, FetchReport, AnalystInv, AnalystTypeOK
<1>1. CASE PollState
  <2>1. CASE UNCHANGED <<session, fragment>>
             /\ (drawn' = Blank \/ drawn' = [Blank EXCEPT !.error = "exception"])
    BY <1>0, <2>1, BlankIs DEF AnalystInv, AnalystTypeOK, PageIsAboutItsJob
  <2>2. CASE /\ job[session.job] = "failed" /\ session' = [session EXCEPT !.error = "failed"]
             /\ fragment' = "rerun" /\ UNCHANGED drawn
    BY <1>0, <2>2 DEF AnalystInv, AnalystTypeOK, PageIsAboutItsJob
  <2>3. CASE fragment' = "fetching" /\ UNCHANGED <<session, drawn>>
    BY <1>0, <2>3 DEF AnalystInv, AnalystTypeOK, PageIsAboutItsJob
  <2>. QED  BY <1>1, <2>1, <2>2, <2>3 DEF PollState
<1>2. CASE PollUnanswered
  <2>1. UNCHANGED <<session, fragment>> /\ drawn' = [Blank EXCEPT !.error = "poll"]
    BY <1>2 DEF PollUnanswered
  <2>. QED  BY <1>0, <2>1, BlankIs DEF AnalystInv, AnalystTypeOK, PageIsAboutItsJob
<1>3. CASE FetchReport
  <2>0. fragment' = "rerun" /\ UNCHANGED drawn
    BY <1>3 DEF FetchReport
  <2>1. CASE /\ job[session.job] \in WithReport
             /\ session' = [session EXCEPT !.report = session.job, !.error = "none"]
    BY <1>0, <2>0, <2>1 DEF AnalystInv, AnalystTypeOK, PageIsAboutItsJob
  <2>2. CASE session' = [session EXCEPT !.error = "load"]
    BY <1>0, <2>0, <2>2 DEF AnalystInv, AnalystTypeOK, PageIsAboutItsJob
  <2>. QED  BY <1>3, <2>1, <2>2 DEF FetchReport
<1>. QED  BY <1>1, <1>2, <1>3

-----------------------------------------------------------------------------
(* The browser session. *)

AppInv == ConsumerInv /\ FaultsOK /\ AudienceOK /\ AnalystInv

LEMMA InitEstablishes == AppInit => AppInv
<1>. SUFFICES ASSUME AppInit
              PROVE  AppInv
  OBVIOUS
<1>. USE DEF AppInit, Init
<1>1. NoCase \in Records /\ ~NoCase.confirmed /\ NoCase.notice = None /\ NoCase.stamp = 0
  BY SessionAssumption DEF NoCase, NoFacts, Facts, Records
<1>2. ServiceInv
  BY <1>1, SessionAssumption DEF ServiceInv, ServiceTypes, ConfirmedIsWhatWasSubmitted
<1>3. SessionOK(ui, service) /\ Current(ui, service, faults.missed)
  BY <1>2, EmptyOK DEF ServiceInv, ServiceTypes
<1>4. SessionInv /\ HeardInv
  BY <1>3 DEF SessionInv, HeardInv, Rerun, Scripts, PageHasCase, FormShowsTheCase,
              OnCasePage
<1>5. FaultsOK /\ AudienceOK
  BY SessionAssumption, AppAssumption DEF FaultsOK, AudienceOK, Rerun
<1>6. AnalystInv
  BY PageAssumption, BlankIs
     DEF AnalystInit, AnalystInv, AnalystTypeOK, PageIsAboutItsJob, ServiceStates
<1>. QED  BY <1>2, <1>4, <1>5, <1>6 DEF AppInv, ConsumerInv

\* The count of what is lost stays within its bound.
FaultsStep ==
  \/ UNCHANGED faults
  \/ \E what : faults' = Heard(what)
  \/ faults.lost < MaxLost /\ faults' = [faults EXCEPT !.lost = @ + 1]
  \/ faults.lost < MaxLost /\ faults' = [Missed EXCEPT !.lost = @ + 1]
  \/ faults' = Missed
  \/ faults' = AfterInterruption

LEMMA FaultsKept ==
  ASSUME ConsumerInv, FaultsOK, FaultsStep
  PROVE  FaultsOK'
<1>1. CASE faults' = AfterInterruption
  BY <1>1, InterruptionIs DEF FaultsOK
<1>2. CASE faults' = Missed
  BY <1>2, MissedIs DEF FaultsOK
<1>3. CASE \E what : faults' = Heard(what)
  BY <1>3, HeardIs DEF FaultsOK
<1>4. ASSUME NEW g \in [lost : 0 .. MaxLost, restarts : 0 .. MaxRestarts,
                       missed : SUBSET {"case", "draft"}],
             g.lost < MaxLost, faults' = [g EXCEPT !.lost = @ + 1]
      PROVE  FaultsOK'
  BY <1>4, SessionAssumption DEF FaultsOK
<1>5. CASE faults.lost < MaxLost /\ faults' = [Missed EXCEPT !.lost = @ + 1]
  BY <1>4, <1>5, MissedIs
<1>6. CASE faults.lost < MaxLost /\ faults' = [faults EXCEPT !.lost = @ + 1]
  BY <1>4, <1>6 DEF FaultsOK
<1>. QED  BY <1>1, <1>2, <1>3, <1>5, <1>6 DEF FaultsOK, FaultsStep

LEMMA ConsumerNextKeeps ==
  ASSUME ConsumerInv, FaultsOK, Next
  PROVE  ConsumerInv' /\ FaultsOK'
<1>1. ConsumerInv'
  <2>1. CASE StartNewAfterError \/ Visit \/ InterruptUploads
    BY <2>1, NewRunKeeps
       DEF StartNewAfterError, Visit, InterruptUploads, Reset, AfterInterruption
  <2>. QED  BY <2>1, StartCaseKeeps, SendMessageKeeps, SubmitFactsKeeps, PickAmountKeeps,
               UploadNextKeeps, StartUploadsKeeps, FinishUploadsKeeps, GenerateKeeps,
               RefreshKeeps, DeleteKeeps, RenderKeeps, ServeLateKeeps DEF Next
<1>2. FaultsStep
  <2>1. ASSUME NEW story \in Stories, SendMessage(story)
        PROVE  FaultsStep
    BY <2>1 DEF SendMessage, Request, Lose, ServeUnheard, FaultsStep
  <2>2. ASSUME NEW story \in Stories, NEW loss \in Losses, NEW tick \in BOOLEAN,
               SubmitFacts(story, loss, tick)
        PROVE  FaultsStep
    BY <2>2 DEF SubmitFacts, Request, Lose, ServeUnheard, FaultsStep
  <2>3. ASSUME NEW f \in Files, PickAmount(f)
        PROVE  FaultsStep
    BY <2>3 DEF PickAmount, Request, Lose, ServeUnheard, FaultsStep
  <2>4. CASE Generate
    BY <2>4 DEF Generate, Request, Lose, ServeUnheard, FaultsStep
  <2>5. CASE Delete
    BY <2>5 DEF Delete, Request, Lose, ServeUnheard, FaultsStep
  <2>6. CASE (\E f \in Files : UploadNext(f)) \/ (\E c \in Cases : StartCase(c))
    BY <2>6 DEF UploadNext, StartCase, Lose, ServeUnheard, FaultsStep
  <2>7. CASE \/ \E files \in SUBSET Files : StartUploads(files)
             \/ FinishUploads \/ InterruptUploads \/ Refresh \/ StartNewAfterError \/ Visit
             \/ ServeLate
    BY <2>7 DEF StartUploads, FinishUploads, InterruptUploads, Refresh, StartNewAfterError,
                Visit, ServeLate, FaultsStep
  <2>8. CASE Render
    BY <2>8 DEF Render, RenderUnavailable, RenderOnboarding, RenderCase, RenderFetchedCase,
                ShowCase, FaultsStep
  <2>. QED  BY <2>1, <2>2, <2>3, <2>4, <2>5, <2>6, <2>7, <2>8 DEF Next
<1>3. FaultsOK'
  BY <1>2, FaultsKept
<1>. QED  BY <1>1, <1>3

LEMMA ConsumerStutters ==
  ASSUME ConsumerInv, FaultsOK, UNCHANGED vars
  PROVE  ConsumerInv' /\ FaultsOK'
BY DEF vars, ConsumerInv, ServiceInv, ServiceTypes, ConfirmedIsWhatWasSubmitted, SessionInv,
       PageHasCase, FormShowsTheCase, OnCasePage, HasCredentials, HeardInv, FaultsOK

LEMMA AnalystStutters ==
  ASSUME AnalystInv, UNCHANGED analyst
  PROVE  AnalystInv'
BY DEF analyst, AnalystInv, AnalystTypeOK, PageIsAboutItsJob

LEMMA NextKeeps == AppInv /\ [AppNext]_appvars => AppInv'
<1>. SUFFICES ASSUME AppInv, [AppNext]_appvars
              PROVE  AppInv'
  OBVIOUS
<1>. USE DEF AppInv
<1>1. CASE ToConsumer
  <2>1. ConsumerInv'
    BY <1>1, NewRunKeeps DEF ToConsumer, AudienceOK, AfterInterruption
  <2>2. AudienceOK' /\ FaultsOK'
    BY <1>1, AppAssumption DEF ToConsumer, AudienceOK, FaultsOK, Rerun
  <2>3. AnalystInv'
    BY <1>1, BlankIs DEF ToConsumer, AnalystInv, AnalystTypeOK, PageIsAboutItsJob
  <2>. QED  BY <2>1, <2>2, <2>3
<1>2. CASE ToBusiness
  <2>1. ConsumerInv'
    BY <1>2, OtherPageKeeps DEF ToBusiness, Idle, Rerun, Scripts
  <2>2. AudienceOK' /\ FaultsOK'
    BY <1>2, AppAssumption, FaultsKept DEF ToBusiness, AudienceOK, Idle, Rerun, FaultsStep
  <2>3. AnalystInv'
    BY <1>2, DrawKeeps DEF ToBusiness
  <2>. QED  BY <2>1, <2>2, <2>3
<1>3. CASE audience = "consumer" /\ Next /\ UNCHANGED <<analyst, audience, switches>>
  BY <1>3, ConsumerNextKeeps, AnalystStutters DEF AudienceOK
<1>4. CASE audience = "business" /\ AnalystNext /\ UNCHANGED <<vars, audience, switches>>
  <2>1. AnalystInv'
    BY <1>4, SubmitKeeps, DrawKeeps, PollKeeps DEF AnalystNext, Interact, Follow, Redraw
  <2>2. AudienceOK'
    BY <1>4 DEF AudienceOK, vars
  <2>. QED  BY <1>4, <2>1, <2>2, ConsumerStutters
<1>5. CASE (\E j \in Jobs : JobEnds(j)) /\ UNCHANGED <<vars, audience, switches>>
  <2>1. AudienceOK'
    BY <1>5 DEF AudienceOK, vars
  <2>. QED  BY <1>5, <2>1, JobEndsKeeps, ConsumerStutters
<1>6. CASE RestartBackend /\ UNCHANGED <<audience, switches>>
  <2>1. ConsumerInv' /\ AnalystInv'
    BY <1>6, RestartServiceKeeps, ForgetJobsKeeps DEF RestartBackend
  <2>2. FaultsOK' /\ AudienceOK'
    <3>1. /\ faults.restarts < MaxRestarts /\ faults' = [Missed EXCEPT !.restarts = @ + 1]
          /\ pc' = pc
      BY <1>6 DEF RestartBackend, RestartService
    <3>2. FaultsOK'
      BY <3>1, MissedIs, SessionAssumption DEF FaultsOK
    <3>. QED  BY <1>6, <3>1, <3>2 DEF AudienceOK
  <2>. QED  BY <2>1, <2>2
<1>7. CASE UNCHANGED appvars
  <2>1. AudienceOK'
    BY <1>7 DEF appvars, vars, AudienceOK
  <2>. QED  BY <1>7, <2>1, ConsumerStutters, AnalystStutters DEF appvars
<1>. QED  BY <1>1, <1>2, <1>3, <1>4, <1>5, <1>6, <1>7 DEF AppNext, AppStep

\* The invariant holds in every reachable state.
THEOREM SessionCorrect == AppSpec => []AppInv
<1>1. AppInit => AppInv
  BY InitEstablishes
<1>2. AppInv /\ [AppNext]_appvars => AppInv'
  BY NextKeeps
<1>. QED  BY <1>1, <1>2, PTL DEF AppSpec

-----------------------------------------------------------------------------
(* What a person at the browser can rely on. *)

\* Both pages and the services behind them keep their types.
THEOREM AppTypesCorrect == AppSpec => []AppTypeOK
<1>1. AppInv => AppTypeOK
  <2>. SUFFICES ASSUME AppInv
                PROVE  AppTypeOK
    OBVIOUS
  <2>1. TypeOK
    <3>1. service \in [Cases -> Records] /\ \A c \in Cases : service[c].stamp <= MaxTouches[c]
      BY DEF AppInv, ConsumerInv, ServiceInv, ServiceTypes
    <3>2. ui \in Sessions /\ pc \in Scripts /\ screen \in {"down", "page", "unreadable"}
      BY DEF AppInv, ConsumerInv, SessionInv, SessionOK
    <3>3. FaultsOK
      BY DEF AppInv
    <3>. QED  BY <3>1, <3>2, <3>3 DEF TypeOK, Records, Sessions, Scripts, FaultsOK
  <2>. QED  BY <2>1 DEF AppTypeOK, AppInv, AnalystInv, AudienceOK
<1>. QED  BY <1>1, SessionCorrect, PTL

\* Whatever is lost, late or served twice, the facts the service takes for
\* confirmed were submitted with the box ticked (update_facts and add_message
\* in app/consumer/service.py, against the form of consumer_view.py).
THEOREM ConfirmedFactsWereSubmitted == AppSpec => []ConfirmedIsWhatWasSubmitted
<1>1. AppInv => ConfirmedIsWhatWasSubmitted
  BY DEF AppInv, ConsumerInv, ServiceInv
<1>. QED  BY <1>1, SessionCorrect, PTL

\* A form nobody typed into shows the case of the session: comparing the
\* version and the presence of the widgets (_sync_fact_widgets) is enough.
THEOREM FormIsNeverStale == AppSpec => []FormShowsTheCase
<1>1. AppInv => FormShowsTheCase
  BY DEF AppInv, ConsumerInv, SessionInv
<1>. QED  BY <1>1, SessionCorrect, PTL

\* Nothing of one case is left in a session that holds another
\* (_reset_case_state, _store_case).
THEOREM SessionHoldsOneCase == AppSpec => []SessionIsOfOneCase
<1>1. AppInv => SessionIsOfOneCase
  BY DEF AppInv, ConsumerInv, SessionInv, SessionOK, OfOneCase, SessionIsOfOneCase
<1>. QED  BY <1>1, SessionCorrect, PTL

\* What the page goes by is the record of the service, also after the answers
\* that carry no case, until the service changes the case unheard: by a request
\* served late or answered with an error all the same, a restart, or answers
\* that an interaction kept from the session.
THEOREM PageFollowsTheRecord == AppSpec => []SessionAgreesWithService
<1>1. AppInv => SessionAgreesWithService
  <2>. SUFFICES ASSUME AppInv, "case" \notin faults.missed, ui.case # None, pc.at # "uploading"
                PROVE  [ui.case EXCEPT !.stamp = 0]
                         = [Snapshot(ui.id, service[ui.id]) EXCEPT !.stamp = 0]
    BY DEF SessionAgreesWithService
  <2>. DEFINE c == ui.case
              s == service[ui.id]
              n == Snapshot(ui.id, s)
  <2>1. c \in Snapshots /\ c.id = ui.id /\ ui.id \in Cases /\ s \in Records
    BY DEF AppInv, ConsumerInv, SessionInv, SessionOK, OfOneCase, Sessions,
           ServiceInv, ServiceTypes
  <2>2. Agrees(c, s)
    BY DEF AppInv, ConsumerInv, HeardInv, Current, CaseCurrent
  <2>3. n \in Snapshots /\ n.id = ui.id /\ Agrees(n, s)
    BY <2>1, SnapshotShows
  <2>. HIDE DEF c, s, n
  <2>4. /\ c.facts = n.facts /\ c.confirmed = n.confirmed /\ c.docs = n.docs
        /\ c.ready = n.ready /\ c.notice_available = n.notice_available /\ c.id = n.id
    BY <2>1, <2>2, <2>3 DEF Agrees
  <2>5. [c EXCEPT !.stamp = 0] = [n EXCEPT !.stamp = 0]
    BY <2>1, <2>3, <2>4 DEF Snapshots
  <2>. QED  BY <2>5 DEF c, n, s
<1>. QED  BY <1>1, SessionCorrect, PTL

\* Unless the service changed the case unheard since the draft came, the draft
\* on the page is the one the service holds, also where an interaction ended
\* the uploads that drop it; but not where a documented amount was taken over
\* with it open.
THEOREM ShownDraftIsStored == AppSpec => []ShownDraftIsTheServices
<1>1. AppInv => ShownDraftIsTheServices
  <2>. SUFFICES ASSUME AppInv, "draft" \notin faults.missed, ui.notice # None,
                       pc.at # "uploading"
                PROVE  ui.notice = service[ui.id].notice \/ ui.picked
    BY DEF ShownDraftIsTheServices
  <2>. QED  BY DEF AppInv, ConsumerInv, HeardInv, Current, DraftCurrent
<1>. QED  BY <1>1, SessionCorrect, PTL

\* The button to generate a draft is enabled only for a case that the service
\* finds, and finds ready, unless it changed the case unheard: the page goes
\* by the readiness of the last snapshot (consumer_view.py:811), which is still
\* that of the record.
THEOREM OfferedCaseIsReady == AppSpec => []OfferedDraftIsReady
<1>1. AppInv => OfferedDraftIsReady
  <2>. SUFFICES ASSUME AppInv, "case" \notin faults.missed, OnCasePage, CanGenerate(ui.case)
                PROVE  Admitted(Call("notice", ui.id, None))
    BY DEF OfferedDraftIsReady
  <2>. DEFINE s == service[ui.id]
  <2>1. ui.case # None /\ ui.case.ready /\ Current(ui, service, faults.missed)
    BY OnPage DEF AppInv, CanGenerate
  <2>2. s.alive /\ Agrees(ui.case, s)
    BY <2>1 DEF Current, CaseCurrent
  <2>3. Snapshot(ui.id, s).ready = (s.confirmed /\ s.facts.story # None /\ Accepted(s) # {})
    BY DEF Snapshot
  <2>. QED  BY <2>1, <2>2, <2>3 DEF Admitted, Call, Agrees
<1>. QED  BY <1>1, SessionCorrect, PTL

\* Whatever the order of polls, uploads, reruns and restarts, the report, the
\* downloads and the error on the analyst's page are those of its job.
THEOREM AnalystSeesOneJob == AppSpec => []PageIsAboutItsJob
<1>1. AppInv => PageIsAboutItsJob
  BY DEF AppInv, AnalystInv
<1>. QED  BY <1>1, SessionCorrect, PTL
=============================================================================
