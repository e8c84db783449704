---------------------------- MODULE FbtPopulate ----------------------------
(***************************************************************************)
(* fbt_populate() of the FBT provider (src/libdtrace/dt_prov_fbt.c): it   *)
(* reads the tracefs list of traceable functions with fgets() into a      *)
(* fixed buffer, one line per iteration.  A line is "funcname\n" or        *)
(* "funcname [modname]\n"; every line that fits the buffer yields an entry *)
(* and a return probe (n += 2); a line too long for the buffer is reported *)
(* and the rest of it is skipped by a do { fgets } while (no '\n') loop.   *)
(*                                                                         *)
(* The file is a sequence of one-letter characters.  The two dt_probe_new *)
(* calls are compiled out (#if 0); the variable names records the         *)
(* <<function, module>> pairs the loop computes for them, so that the      *)
(* parse the loop still performs is observable.                            *)
(***************************************************************************)
EXTENDS Naturals, Sequences, SequencesExt

CONSTANTS
    Lists,      \* the function lists the kernel may publish
    Ends,       \* subset of {"whole", "cut"}: the file ends with a newline or not
    BufSize,    \* sizeof(buf): fgets stores at most BufSize - 1 characters
    Default     \* the default module name "vmlinux", distinct from any parse

ASSUME BufSize >= 2 /\ Ends \subseteq {"whole", "cut"}

NL == "\n"

(* The tracefs contract: one entry <<function, module>> per line, written *)
(* "funcname" when the module is the default and "funcname [modname]"     *)
(* otherwise.  A "cut" file lacks the final newline.                      *)
Render(e) ==
    e[1] \o (IF e[2] = Default THEN <<>> ELSE <<" ", "[">> \o e[2] \o <<"]">>)
         \o <<NL>>

Text(list, end) ==
    LET t == FlattenSeq([i \in 1..Len(list) |-> Render(list[i])])
    IN  IF end = "cut" /\ t # <<>> THEN Front(t) ELSE t

VARIABLES
    list,       \* the entries the file lists
    file,       \* the contents of PROBE_LIST in this run
    pos,        \* the file offset of the FILE stream, 1-based
    buf,        \* the characters fgets last stored in buf (without the NUL)
    pc,         \* "open", "loop" (the while), "skip" (the do-while), "done"
    n,          \* the local counter n, returned at "done"
    names       \* the <<function, module>> pairs handed to dt_probe_new

vars == <<list, file, pos, buf, pc, n, names>>

\* Mutant: fgets stores BufSize characters, one too many for the NUL.
FgetsLenWide(s, p) ==
    LET rest == SubSeq(s, p, Len(s))
        nl   == SelectInSeq(rest, LAMBDA c : c = NL)
    IN  IF nl # 0 /\ nl <= BufSize THEN nl
        ELSE IF Len(rest) < BufSize THEN Len(rest) ELSE BufSize

(* fgets(buf, BufSize, f): the number of characters it reads from offset p *)
(* of file s: up to and including the first newline, at most BufSize - 1,  *)
(* and no more than remain.  0 means end of file: fgets returns NULL and   *)
(* leaves buf unchanged.                                                   *)
FgetsLen(s, p) ==
    LET rest == SubSeq(s, p, Len(s))
        nl   == SelectInSeq(rest, LAMBDA c : c = NL)
    IN  IF nl # 0 /\ nl <= BufSize - 1 THEN nl
        ELSE IF Len(rest) < BufSize - 1 THEN Len(rest) ELSE BufSize - 1

(* The characters fgets stores when it reads k > 0 characters. *)
Fgets(s, p, k) == SubSeq(s, p, p + k - 1)

HasNL(b) == \E i \in 1..Len(b) : b[i] = NL

\* Mutant: the ']' before the newline is kept in the module name.
ParseLineKeepBracket(b) ==
    LET t   == SubSeq(b, 1, Len(b) - 1)
        sp  == SelectInSeq(t, LAMBDA c : c = " ")
        m   == SubSeq(t, sp + 1, Len(t))
    IN  IF sp = 0 THEN <<t, Default>>
        ELSE <<SubSeq(t, 1, sp - 1),
               IF m # <<>> /\ Head(m) = "[" THEN Tail(m) ELSE m>>

(* The parse of one complete line b (ending in '\n'): cut the newline, cut *)
(* a ']' before it, split at the first ' ' and skip a '[' after it.  The   *)
(* module is Default when there is no space.                               *)
ParseLine(b) ==
    LET l   == SubSeq(b, 1, Len(b) - 1)
        t   == IF l # <<>> /\ Last(l) = "]" THEN Front(l) ELSE l
        sp  == SelectInSeq(t, LAMBDA c : c = " ")
        m   == SubSeq(t, sp + 1, Len(t))
    IN  IF sp = 0 THEN <<t, Default>>
        ELSE <<SubSeq(t, 1, sp - 1),
               IF m # <<>> /\ Head(m) = "[" THEN Tail(m) ELSE m>>

Init ==
    /\ list \in Lists
    /\ \E end \in Ends : file = Text(list, end)
    /\ pos = 1
    /\ buf = <<>>
    /\ pc = "open"
    /\ n = 0
    /\ names = <<>>

(* f = fopen(PROBE_LIST, "r"): when tracefs is not available the function *)
(* returns 0 at once.                                                      *)
OpenFail ==
    /\ pc = "open"
    /\ pc' = "done"
    /\ UNCHANGED <<list, file, pos, buf, n, names>>

Open ==
    /\ pc = "open"
    /\ pc' = "loop"
    /\ UNCHANGED <<list, file, pos, buf, n, names>>

(* The while condition fails: fgets returns NULL at end of file, the file *)
(* is closed and n returned.                                               *)
ReadEOF ==
    /\ pc = "loop"
    /\ FgetsLen(file, pos) = 0
    /\ pc' = "done"
    /\ UNCHANGED <<list, file, pos, buf, n, names>>

(* One iteration on a complete line: parse it and count two probes. *)
ReadLine ==
    /\ pc = "loop"
    /\ FgetsLen(file, pos) > 0
    /\ LET b == Fgets(file, pos, FgetsLen(file, pos))
       IN  /\ HasNL(b)
           /\ buf' = b
           /\ names' = Append(names, ParseLine(b))
    /\ pos' = pos + FgetsLen(file, pos)
    /\ n' = n + 2
    /\ UNCHANGED <<list, file, pc>>

(* One iteration on a line with no newline in buf: report it and enter the *)
(* skip loop.                                                              *)
ReadLong ==
    /\ pc = "loop"
    /\ FgetsLen(file, pos) > 0
    /\ buf' = Fgets(file, pos, FgetsLen(file, pos))
    /\ ~HasNL(buf')
    /\ pos' = pos + FgetsLen(file, pos)
    /\ pc' = "skip"
    /\ UNCHANGED <<list, file, n, names>>

\* Mutant: the loop condition is inverted (strchr(...) != NULL).
SkipReadInverted ==
    /\ pc = "skip"
    /\ LET k == FgetsLen(file, pos)
           b == IF k = 0 THEN buf ELSE Fgets(file, pos, k)
       IN  /\ buf' = b
           /\ pos' = pos + k
           /\ pc' = IF HasNL(b) THEN "skip" ELSE "loop"
    /\ UNCHANGED <<list, file, n, names>>

(* One pass of do fgets(buf, ...) while (strchr(buf, '\n') == NULL): the   *)
(* return value of fgets is not tested, so at end of file buf keeps its    *)
(* old contents and the condition is re-evaluated on them.                 *)
SkipRead ==
    /\ pc = "skip"
    /\ LET k == FgetsLen(file, pos)
           b == IF k = 0 THEN buf ELSE Fgets(file, pos, k)
       IN  /\ buf' = b
           /\ pos' = pos + k
           /\ pc' = IF HasNL(b) THEN "loop" ELSE "skip"
    /\ UNCHANGED <<list, file, n, names>>

Next ==
    \/ OpenFail \/ Open
    \/ ReadEOF \/ ReadLine \/ ReadLong
    \/ SkipRead

(* fbt_populate is plain sequential code run to completion by its caller: *)
(* every step it can take it eventually takes.                             *)
Spec == Init /\ [][Next]_vars /\ WF_vars(Next)

-----------------------------------------------------------------------------

TypeOK ==
    /\ pos \in 1..Len(file) + 1
    /\ Len(buf) <= BufSize - 1
    /\ pc \in {"open", "loop", "skip", "done"}
    /\ n \in Nat
    /\ n = 2 * Len(names)

(* An entry whose line, newline included, fits in BufSize - 1 characters. *)
Fits(e) == Len(Render(e)) <= BufSize - 1

(* Once the loop has read the whole list, the probes it created are       *)
(* exactly those of the entries whose line fits in buf, in file order,    *)
(* with the module the line names or vmlinux: a line too long is dropped  *)
(* whole, and what the skip loop discards is never taken for a line.      *)
PopulateListsFittingLines ==
    (pc = "done" /\ pos > Len(file)) => names = SelectSeq(list, Fits)

(* fbt_populate returns: from any state the loop reaches "done". *)
PopulateTerminates == <>(pc = "done")

=============================================================================
