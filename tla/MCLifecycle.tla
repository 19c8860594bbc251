------------------------------ MODULE MCLifecycle ------------------------------
(* Small instances of Lifecycle: three plans, the prices in order of tier.   *)
EXTENDS Lifecycle, TLC
CONSTANTS Pro, Business
ThreePlans == {Free, Pro, Business}
OnlyPro == {Pro}
InOrder == Free :> 0 @@ Pro :> 1 @@ Business :> 2
BusinessTrial == Free :> 0 @@ Pro :> 0 @@ Business :> 1
Symmetric == Permutations(Workspaces) \cup Permutations(Handlers)
=============================================================================
