------------------------------- MODULE MCSinks -------------------------------
(* Two paths, so that a second redirection could overwrite the stash, and *)
(* four calls: redirect, redirect, restore, and one more call after it.   *)
EXTENDS Sinks, TLC

CONSTANTS p1, p2

MCPaths == {p1, p2}

(* The two paths are interchangeable. *)
PathSymmetry == Permutations(MCPaths)

=============================================================================
