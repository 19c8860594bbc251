------------------------------ MODULE MCBackground ------------------------------
(***************************************************************************)
(* Three parts that share no state: a behaviour runs one of them, so that  *)
(* their states add up instead of multiplying.  The configuration names    *)
(* the workers of one like those of another, which saves symmetries.       *)
(***************************************************************************)
EXTENDS Sessions, ClickPipeline, Reports, TLC

VARIABLE running

Init == SessionInit /\ ClickInit /\ ReportInit /\ running \in {"sessions", "clicks", "reports"}
Next ==
    \/ running = "sessions" /\ SessionNext /\ UNCHANGED <<clickVars, reportVars, running>>
    \/ running = "clicks" /\ ClickNext /\ UNCHANGED <<sessionVars, reportVars, running>>
    \/ running = "reports" /\ ReportNext /\ UNCHANGED <<sessionVars, clickVars, running>>
Spec == Init /\ [][Next]_<<sessionVars, clickVars, reportVars, running>>

Symmetric == Permutations(Clients) \cup Permutations(Requests) \cup Permutations(Tickers)
=============================================================================
