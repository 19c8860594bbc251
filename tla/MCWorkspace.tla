------------------------------ MODULE MCWorkspace ------------------------------
(* Small instances of Workspace: every table has room for one more row.     *)
EXTENDS Workspace, TLC
OneMore == [k \in Kinds |-> IF k \in {"member", "domain"} THEN 3 ELSE 2]
TwoDays == 1..2
Symmetric == Permutations(Users \ {Founder, Partner}) \cup Permutations(Requests)
=============================================================================
