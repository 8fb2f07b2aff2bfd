----------------------------- MODULE TextService -----------------------------
(***************************************************************************)
(* What the service does to texts and to files: the analysis of a document *)
(* (DocumentAnalysis), the law and the notice (ConsumerNotice), the pinned *)
(* release of the law (CdcSnapshot), the history of runs (RunLog) and the  *)
(* replacement of a document in the vector store (ChunkStore).             *)
(*                                                                         *)
(* The parts share no state, but for the notice and its law, so what one   *)
(* does cannot break a property of another: a behaviour works on one part, *)
(* chosen at the start, and the others rest.                               *)
(***************************************************************************)
EXTENDS DocumentAnalysis, ConsumerNotice, RunLog, ChunkStore

CONSTANTS
  Parts,       \* the parts that an instance works on
  NoticePages  \* bound: the pages of the law that notices are drafted with

ASSUME PartsAssumption ==
  /\ Parts \subseteq {"analysis", "law", "notice", "release", "history", "store"}
  /\ NoticePages \subseteq Pages

VARIABLE part

analysis == vars
notice   == <<corpus, draft>>
service  == <<part, analysis, notice, law, log, store>>

\* Parts at rest.
NoAnalysis ==
  /\ doc = [pages |-> <<>>, marks |-> {}] /\ mode = "balanced"
  /\ gate = Unscanned /\ run = NotStarted
NoCorpus == corpus = [page |-> <<>>, at |-> "none", provisions |-> <<>>, chunks |-> <<>>]
NoNotice == draft = [at |-> "none"]
NoRelease == law = [server |-> Down]
NoStore == index = [chunk |-> [i \in AllIds |-> 0], broken |-> FALSE, searchable |-> FALSE,
                    lately |-> {}]
           /\ writer = [w \in Writers |-> [at |-> "idle", existing |-> {}]]

ServiceInit ==
  /\ part \in Parts
  /\ IF part = "analysis" THEN Init ELSE NoAnalysis
  /\ IF part \in {"law", "notice"} THEN CorpusInit ELSE NoCorpus
  /\ IF part = "notice" THEN corpus.page \in NoticePages /\ DraftInit ELSE NoNotice
  /\ IF part = "release" THEN LawInit ELSE NoRelease
  /\ LogInit
  /\ IF part = "store" THEN StoreInit ELSE NoStore

ServiceNext ==
  \/ part = "analysis" /\ Next /\ UNCHANGED <<part, notice, law, log, store>>
  \/ /\ part \in {"law", "notice"} /\ (LoadCorpus \/ IndexCorpus)
     /\ UNCHANGED <<part, analysis, draft, law, log, store>>
  \/ /\ part = "notice" /\ NoticeNext
     /\ UNCHANGED <<part, analysis, corpus, law, log, store>>
  \/ part = "release" /\ LawNext /\ UNCHANGED <<part, analysis, notice, log, store>>
  \/ part = "history" /\ RunEnds /\ UNCHANGED <<part, analysis, notice, law, store>>
  \/ part = "store" /\ StoreNext /\ UNCHANGED <<part, analysis, notice, law, log>>

ServiceSpec == ServiceInit /\ [][ServiceNext]_service
=============================================================================
