---------------------------- MODULE JobContract ----------------------------
(***************************************************************************)
(* What a client that polls an analysis may rely on: the job moves from    *)
(* queued to running to one final answer, stages that are settled stay     *)
(* settled, the report is there in the very moment the answer is, and the  *)
(* answer never changes.  Only a restart makes the service forget a job.   *)
(***************************************************************************)
CONSTANT Jobs

VARIABLES phase,    \* phase[j]: "unknown" | "queued" | "running" | "final"
          settled,  \* settled[j]: the stages shown as done, failed or skipped
          answer    \* answer[j]: the outcome shown and whether a report exists

vars == <<phase, settled, answer>>

NoAnswer == [outcome |-> "none", report |-> FALSE]

Init == /\ phase = [j \in Jobs |-> "unknown"]
        /\ settled = [j \in Jobs |-> {}]
        /\ answer = [j \in Jobs |-> NoAnswer]

Accept(j) == /\ phase[j] = "unknown"
             /\ phase' = [phase EXCEPT ![j] = "queued"]
             /\ UNCHANGED <<settled, answer>>

Start(j) == /\ phase[j] = "queued"
            /\ phase' = [phase EXCEPT ![j] = "running"]
            /\ UNCHANGED <<settled, answer>>

Settles(j) == /\ settled[j] \subseteq settled'[j]
              /\ \A k \in Jobs \ {j} : settled'[k] = settled[k]

Progress(j) == /\ phase[j] = "running"
               /\ Settles(j)
               /\ UNCHANGED <<phase, answer>>

\* A job without a report has failed, and only such a job.
Answer(j) == /\ phase[j] = "running"
             /\ phase' = [phase EXCEPT ![j] = "final"]
             /\ Settles(j)
             /\ \A k \in Jobs \ {j} : answer'[k] = answer[k]
             /\ answer'[j].outcome # "none"
             /\ answer'[j].report = (answer'[j].outcome # "failed")

Forget == /\ phase' = [j \in Jobs |-> "unknown"]
          /\ settled' = [j \in Jobs |-> {}]
          /\ answer' = [j \in Jobs |-> NoAnswer]

Next == \/ \E j \in Jobs : Accept(j) \/ Start(j) \/ Progress(j) \/ Answer(j)
        \/ Forget

Spec == Init /\ [][Next]_vars
=============================================================================
