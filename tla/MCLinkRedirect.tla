---------------------------- MODULE MCLinkRedirect ----------------------------
(* Small instances of LinkRedirect.                                        *)
EXTENDS LinkRedirect, TLC
Symmetric == Permutations(Editors) \cup Permutations(Requests)
=============================================================================
