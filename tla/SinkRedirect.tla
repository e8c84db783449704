---------------------------- MODULE SinkRedirect ----------------------------
(***************************************************************************)
(* What freopen() promises a D program (spec 4.5, "freopen"): the output   *)
(* stream is redirected to the file named, and freopen("") restores the   *)
(* original stdout; a restore before any redirection does nothing.  Any   *)
(* redirection or restore may fail: it then leaves the stream as it was,  *)
(* or, when what failed is its last step, the rebinding of the stream     *)
(* itself, the stream is lost and takes no further output.                *)
(***************************************************************************)
CONSTANTS
    Paths,      \* the files a freopen(path) may name
    Orig,       \* the file stdout is bound to when the consumer starts
    Lost,       \* the stream after a failed rebinding
    Restore,    \* the request freopen("")
    Other       \* the text of any other output action (sprintf, system)

VARIABLES
    sink,       \* the file the stream writes to
    saved,      \* whether the original stdout has been put aside
    asked       \* the request the D program made last

vars == <<sink, saved, asked>>

Init == sink = Orig /\ saved = FALSE /\ asked = Other

(* freopen(p): the stream moves to p, or stays, or is lost. *)
Redirect(p) ==
    /\ sink # Lost
    /\ asked' = p
    /\ \/ sink' \in {p, Lost} /\ saved' = TRUE
       \/ UNCHANGED <<sink, saved>>

(* freopen(""): back to the original stdout, once it has been put aside. *)
RestoreSink ==
    /\ sink # Lost
    /\ asked' = Restore
    /\ \/ saved /\ sink' \in {Orig, Lost} /\ UNCHANGED saved
       \/ UNCHANGED <<sink, saved>>

(* Output that is not a redirection leaves the stream alone. *)
Output ==
    /\ sink # Lost
    /\ asked' = Other
    /\ UNCHANGED <<sink, saved>>

Next == (\E p \in Paths : Redirect(p)) \/ RestoreSink \/ Output

Spec == Init /\ [][Next]_vars

=============================================================================
