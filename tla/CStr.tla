-------------------------------- MODULE CStr --------------------------------
(***************************************************************************)
(* C strings as TLA+ strings.  The byte at C index i is Chr(s, i + 1);     *)
(* reading at or past the end gives "", the terminating NUL.               *)
(***************************************************************************)
EXTENDS Naturals, Sequences

Chr(s, i) == IF i \in 1 .. Len(s) THEN SubSeq(s, i, i) ELSE ""
=============================================================================
