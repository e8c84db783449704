--------------------------- MODULE MCFbtPopulate ---------------------------
(* fbt_populate over every list of up to four entries built from two      *)
(* function names and three module names, with a 7-byte buffer, so that   *)
(* lines shorter than, exactly as long as, and longer than the buffer all *)
(* occur, alone and next to each other.                                   *)
EXTENDS FbtPopulate

CONSTANT vmlinux

MCFuncs == {<<"f">>, <<"f", "f">>}

MCMods == {vmlinux, <<"m">>, <<"m", "m">>}

MCEntries == {<<f, m>> : f \in MCFuncs, m \in MCMods}

MCLists == UNION {[1..k -> MCEntries] : k \in 0..4}

=============================================================================
