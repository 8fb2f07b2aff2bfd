--------------------------- MODULE MCStreamlitApp ---------------------------
(***************************************************************************)
(* A small browser session for TLC: two consumer cases, the first with     *)
(* room for a whole journey, and two analysis jobs.                        *)
(***************************************************************************)
EXTENDS StreamlitApp

OneAmount == [f \in Files |-> 1]

FirstCaseLonger == <<5, 1>>
=============================================================================
