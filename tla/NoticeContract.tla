--------------------------- MODULE NoticeContract ---------------------------
(***************************************************************************)
(* What a consumer case promises the person who opened it, without saying  *)
(* how: a draft notice is only ever written from material that the person  *)
(* reviewed, any change of the material withdraws both the review and the  *)
(* draft, and once the deletion of a case is acknowledged nothing of it    *)
(* can be searched any more.  ConsumerCase implements it when a case is    *)
(* driven by one request at a time.                                        *)
(***************************************************************************)
CONSTANT Cases

VARIABLES stage,     \* stage[c]: how far case c has come
          typed,     \* typed[c]: the facts of the case, as its form shows them
          given,     \* given[c]: the messages and documents handed in
          held       \* held[c]: text of case c is searchable in the index

material == <<typed, given>>
vars == <<stage, material, held>>

Live == {"open", "reviewed", "drafted"}

Stages == Live \cup {"absent", "withdrawn", "erased"}

Init == /\ stage = [c \in Cases |-> "absent"]
        /\ held = [c \in Cases |-> FALSE]

OnlyTypedOf(C) == \A d \in Cases \ C : typed'[d] = typed[d]

OnlyMaterialOf(C) == /\ OnlyTypedOf(C)
                     /\ \A d \in Cases \ C : given'[d] = given[d]

Open(c) == /\ stage[c] = "absent"
           /\ stage' = [stage EXCEPT ![c] = "open"]
           /\ OnlyMaterialOf({c})
           /\ UNCHANGED held

\* New or withdrawn material puts the case back before the review.
Revise(c) == /\ stage[c] \in Live
             /\ stage' = [stage EXCEPT ![c] = "open"]
             /\ OnlyMaterialOf({c})
             /\ UNCHANGED held

\* The person may correct the facts in the act of confirming them, but what
\* was handed in has to be there before.
Review(c) == /\ stage[c] \in Live
             /\ stage' = [stage EXCEPT ![c] = "reviewed"]
             /\ OnlyTypedOf({c})
             /\ UNCHANGED <<given, held>>

\* The text of reviewed material becomes searchable.
Index(c) == /\ stage[c] \in {"reviewed", "drafted"}
            /\ held' = [held EXCEPT ![c] = TRUE]
            /\ UNCHANGED <<stage, material>>

Draft(c) == /\ stage[c] \in {"reviewed", "drafted"}
            /\ held[c]
            /\ stage' = [stage EXCEPT ![c] = "drafted"]
            /\ UNCHANGED <<material, held>>

\* Cases are withdrawn one by one on request, or all at once by a restart,
\* which also forgets what they said.
Withdraw(C) == /\ C # {}
               /\ \A c \in C : stage[c] \in Live
               /\ stage' = [c \in Cases |-> IF c \in C THEN "withdrawn"
                                                       ELSE stage[c]]
               /\ OnlyMaterialOf(C)
               /\ UNCHANGED held

Purge(c) == /\ stage[c] = "withdrawn"
            /\ held' = [held EXCEPT ![c] = FALSE]
            /\ UNCHANGED <<stage, material>>

\* A case that holds nothing is erased as it is withdrawn.
Acknowledge(c) == /\ stage[c] \in Live \cup {"withdrawn"}
                  /\ ~held[c]
                  /\ stage' = [stage EXCEPT ![c] = "erased"]
                  /\ OnlyMaterialOf({c})
                  /\ UNCHANGED held

Next == \/ \E c \in Cases : \/ Open(c) \/ Revise(c) \/ Review(c)
                            \/ Index(c) \/ Draft(c)
                            \/ Purge(c) \/ Acknowledge(c)
        \/ \E C \in SUBSET Cases : Withdraw(C)

Spec == Init /\ [][Next]_vars
=============================================================================
