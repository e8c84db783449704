------------------------------ MODULE PrintfPlan ------------------------------
(***************************************************************************)
(* The format plan compiler of libdtrace (src/libdtrace/dt_printf.c):      *)
(* dt_printf_create scans a format string into a list of argument          *)
(* descriptors; dt_printf_validate checks them against the argument types  *)
(* of printf() or printa() and materialises each conversion's printf(3)   *)
(* suffix; dtrace_printf_format pickles a plan back into a format string, *)
(* and dtrace_printf_create builds a plan from such a string without      *)
(* validation, taking each conversion's name as its printf(3) suffix.     *)
(*                                                                         *)
(* The scanner is a state machine over the characters of fmt: p is the     *)
(* position of the character last read (C's p), q the start of the next    *)
(* prefix.  Each step of fmt_switch is one action.  A compilation that     *)
(* validates is pickled, and the pickled string is given to               *)
(* dtrace_printf_create (gen 2), so that the two plans can be compared.   *)
(***************************************************************************)
EXTENDS Integers, Sequences, SequencesExt, TLC, CStr, PrintfDict

CONSTANTS
  Formats,        \* the format strings a D program may pass
  ArgLists,       \* the argument type lists that follow the format
  PtrWidth,       \* the width %? stands for: 16 on LP64, 8 otherwise
  MallocMayFail,  \* whether malloc may return NULL
  IoMayFail,      \* whether writing to the output stream may fail
  Trailers        \* record lists that may follow printf's in the clause

VARIABLES
  fmt,      \* pfv->pfv_format
  phase,    \* where the compilation is
  q, p,     \* the scanner's pointers, as positions in fmt
  dot,      \* a '.' has been seen in this conversion
  digits,   \* digit runs seen since the last '.'
  name,     \* the conversion name collected so far
  argv,     \* pfv->pfv_argv, the descriptors
  err,      \* the error the compilation ended with
  pflags,   \* DT_PRINTF_EXACTLEN (printf) or DT_PRINTF_AGGREGATION (printa)
  aggkind,  \* the aggregating function of printa: count or another
  args,     \* the argument types of the call
  dnp,      \* validate's cursor: the argument types not yet consumed
  vi,       \* validate's cursor: the descriptor being checked
  gen,      \* 1: compiling the source format; 2: compiling its pickle
  pickled,  \* the string dtrace_printf_format produced
  orig,     \* the validated plan of gen 1
  eng       \* dt_printf_format's locals when gen 1's plan is run

vars == <<fmt, phase, q, p, dot, digits, name, argv, err, pflags, aggkind,
          args, dnp, vi, gen, pickled, orig, eng>>
scanVars == <<q, p, dot, digits, name>>
callVars == <<pflags, aggkind, args, gen, pickled, orig, eng>>

Phases == {"scan", "switch", "trail", "created", "validate", "ready", "pickled", "error",
           "engine", "printed"}
Flags == {"ALT", "ZPAD", "LEFT", "SPOS", "DYNWIDTH", "DYNPREC", "GROUP", "SPACE",
          "AGG", "SIGNED"}

(* eng before dt_printf_format is called. *)
NoEngine == [recs |-> << >>, len |-> 0, naggs |-> 0, alen |-> 0, i |-> 0, cur |-> 0,
             nrem |-> 0, curagg |-> 0, used |-> << >>, ret |-> 0, err |-> "none"]

(* A fresh descriptor (malloc + memset) with the prefix s[q .. p - 1]. *)
NewDesc(pre, at) ==
  [prefix |-> pre, conv |-> "", flags |-> {}, width |-> 0, prec |-> 0, fmt |-> "",
   at |-> at, stop |-> at - 1]

Cur == argv[Len(argv)]
SetCur(d) == argv' = [argv EXCEPT ![Len(argv)] = d]

(* dt_printf_destroy and dt_printf_error: the plan is dropped. *)
Fail(e) ==
  /\ phase' = "error" /\ err' = e
  /\ UNCHANGED <<fmt, q, p, dot, digits, name, argv, dnp, vi, callVars>>

(* The first '%' at or after position i, or 0 (strchr). *)
RECURSIVE PercentFrom(_, _)
PercentFrom(s, i) ==
  IF i > Len(s) THEN 0 ELSE IF Chr(s, i) = "%" THEN i ELSE PercentFrom(s, i + 1)

(* The digit run at position i, accumulated into an int with n * 10 + c -  *)
(* '0' wrapping modulo 2^32 (hi and lo are its 16-bit halves); last is the *)
(* position of its last digit.                                             *)
DecDigits == "0123456789"
IsDigitChr(c) == \E d \in 1 .. 10 : c = Chr(DecDigits, d)
DigitVal(c) == CHOOSE d \in 0 .. 9 : c = Chr(DecDigits, d + 1)
RECURSIVE DigitScan(_, _, _, _)
DigitAdd(s, i, hi, lo) ==
  DigitScan(s, i + 1, (hi * 10 + lo \div 65536) % 65536, lo % 65536)
DigitScan(s, i, hi, lo) ==
  IF IsDigitChr(Chr(s, i)) THEN DigitAdd(s, i, hi, lo * 10 + DigitVal(Chr(s, i)))
  ELSE [last |-> i - 1, hi |-> hi, lo |-> lo]
Int32Of(r) == IF r.hi >= 32768 THEN (r.hi - 65536) * 65536 + r.lo ELSE r.hi * 65536 + r.lo

Init ==
  /\ fmt \in Formats
  /\ phase = "scan" /\ q = 1 /\ p = 0 /\ dot = 0 /\ digits = 0 /\ name = ""
  /\ argv = << >> /\ err = "none"
  /\ pflags = {} /\ aggkind = "none" /\ args = << >> /\ dnp = << >> /\ vi = 0
  /\ gen = 1 /\ pickled = "" /\ orig = << >> /\ eng = NoEngine

(***************************************************************************)
(* The for loop of dt_printf_create: p = strchr(q, '%').  A '%' opens a    *)
(* new descriptor, whose prefix is the text since q; none ends the loop.  *)
(***************************************************************************)
NextPercent ==
  /\ phase = "scan"
  /\ LET at == PercentFrom(fmt, q) IN
     IF at = 0
       THEN phase' = "trail" /\ UNCHANGED <<fmt, argv, err, scanVars, dnp, vi, callVars>>
       ELSE \/ MallocMayFail /\ Fail("NOMEM")
            \/ /\ argv' = Append(argv, NewDesc(SubSeq(fmt, q, at - 1), at))
               /\ p' = at /\ dot' = 0 /\ digits' = 0 /\ name' = ""
               /\ phase' = "switch"
               /\ UNCHANGED <<fmt, q, err, dnp, vi, callVars>>

(* Steps of fmt_switch on c = *++p that set a flag and read on. *)
C == Chr(fmt, p + 1)
FlagStep(set, clear) ==
  /\ SetCur([Cur EXCEPT !.flags = (@ \cup set) \ clear])
  /\ p' = p + 1
  /\ UNCHANGED <<fmt, phase, q, dot, digits, name, err, dnp, vi, callVars>>

(* '0' before any digit or '.': zero padding, which cancels '-'. *)
ZeroPad == phase = "switch" /\ C = "0" /\ dot = 0 /\ digits = 0 /\ FlagStep({"ZPAD"}, {"LEFT"})

(* A digit run: the width, or after a '.' the precision. *)
Digits ==
  /\ phase = "switch" /\ IsDigitChr(C) /\ ~(C = "0" /\ dot = 0 /\ digits = 0)
  /\ LET r == DigitScan(fmt, p + 1, 0, 0) IN
       /\ SetCur(IF dot # 0 THEN [Cur EXCEPT !.prec = Int32Of(r)]
                 ELSE [Cur EXCEPT !.width = Int32Of(r)])
       /\ p' = r.last
  /\ digits' = digits + 1
  /\ UNCHANGED <<fmt, phase, q, dot, name, err, dnp, vi, callVars>>

Alt   == phase = "switch" /\ C = "#" /\ FlagStep({"ALT"}, {})
Plus  == phase = "switch" /\ C = "+" /\ FlagStep({"SPOS"}, {})
Minus == phase = "switch" /\ C = "-" /\ FlagStep({"LEFT"}, {"ZPAD"})
AggMark == phase = "switch" /\ C = "@" /\ FlagStep({"AGG"}, {})
Group == phase = "switch" /\ C = "'" /\ FlagStep({"GROUP"}, {})
Space == phase = "switch" /\ C = " " /\ FlagStep({"SPACE"}, {})

(* '*': a dynamic width, or after a '.' a dynamic precision; twice fails. *)
Star ==
  /\ phase = "switch" /\ C = "*"
  /\ LET n == IF dot # 0 THEN "DYNPREC" ELSE "DYNWIDTH" IN
     IF n \in Cur.flags THEN Fail("COMPILER") ELSE FlagStep({n}, {})

(* '.': the precision follows; a second '.' fails. *)
Dot ==
  /\ phase = "switch" /\ C = "."
  /\ IF dot # 0 THEN Fail("COMPILER")
     ELSE /\ dot' = dot + 1 /\ digits' = 0 /\ p' = p + 1
          /\ UNCHANGED <<fmt, phase, q, name, argv, err, dnp, vi, callVars>>

(* '?': the width of a pointer in the data model. *)
Question ==
  /\ phase = "switch" /\ C = "?"
  /\ SetCur([Cur EXCEPT !.width = PtrWidth]) /\ p' = p + 1
  /\ UNCHANGED <<fmt, phase, q, dot, digits, name, err, dnp, vi, callVars>>

(* Mutant: the size modifiers are kept without the bound on name[8]. *)
SizeModUncapped ==
  /\ phase = "switch" /\ C \in {"h", "l", "L", "w"}
  /\ name' = name \o C
  /\ p' = p + 1
  /\ UNCHANGED <<fmt, phase, q, dot, digits, argv, err, dnp, vi, callVars>>

(* h, l, L and w are kept, up to the room left in name[8]. *)
SizeMod ==
  /\ phase = "switch" /\ C \in {"h", "l", "L", "w"}
  /\ name' = IF Len(name) < 6 THEN name \o C ELSE name
  /\ p' = p + 1
  /\ UNCHANGED <<fmt, phase, q, dot, digits, argv, err, dnp, vi, callVars>>

(* '$' (positional), NUL, and '%' after anything but '%' fail. *)
BadChar ==
  /\ phase = "switch"
  /\ \/ C \in {"$", ""}
     \/ C = "%" /\ Chr(fmt, p) # "%"
  /\ Fail("COMPILER")

(* Mutant: the next prefix starts at the conversion character. *)
ConcludeQ ==
  /\ phase = "switch"
  /\ C \notin {"0", "1", "2", "3", "4", "5", "6", "7", "8", "9", "#", "*", "+", "-",
               ".", "?", "@", "'", " ", "$", "", "h", "l", "L", "w"}
  /\ C = "%" => Chr(fmt, p) = "%"
  /\ IF name \o C \notin ConvNames THEN Fail("COMPILER")
     ELSE /\ SetCur([Cur EXCEPT !.conv = name \o C, !.stop = p + 1])
          /\ name' = name \o C /\ p' = p + 1 /\ q' = p + 1 /\ phase' = "scan"
          /\ UNCHANGED <<fmt, dot, digits, err, dnp, vi, callVars>>

(* Any other character ends the name, which is looked up in the          *)
(* dictionary; the loop then goes on after it (q = p + 1).               *)
Conclude ==
  /\ phase = "switch"
  /\ C \notin {"0", "1", "2", "3", "4", "5", "6", "7", "8", "9", "#", "*", "+", "-",
               ".", "?", "@", "'", " ", "$", "", "h", "l", "L", "w"}
  /\ C = "%" => Chr(fmt, p) = "%"
  /\ IF name \o C \notin ConvNames THEN Fail("COMPILER")
     ELSE /\ SetCur([Cur EXCEPT !.conv = name \o C, !.stop = p + 1])
          /\ name' = name \o C /\ p' = p + 1 /\ q' = p + 2 /\ phase' = "scan"
          /\ UNCHANGED <<fmt, dot, digits, err, dnp, vi, callVars>>

(* After the loop: trailing text, or an empty format, is a descriptor    *)
(* with no conversion.                                                   *)
Trail ==
  /\ phase = "trail"
  /\ IF Chr(fmt, q) # "" \/ fmt = ""
       THEN \/ MallocMayFail /\ Fail("NOMEM")
            \/ /\ argv' = Append(argv, NewDesc(SubSeq(fmt, q, Len(fmt)), Len(fmt) + 1))
               /\ phase' = "created"
               /\ UNCHANGED <<fmt, err, scanVars, dnp, vi, callVars>>
       ELSE phase' = "created" /\ UNCHANGED <<fmt, argv, err, scanVars, dnp, vi, callVars>>
(***************************************************************************)
(* dt_printf_validate(pfv, flags, ...): an empty format is refused; then   *)
(* each descriptor in turn consumes its arguments.  The value of an %@    *)
(* conversion is the aggregation's result: uint64_t for count(), else     *)
(* int64_t.  Errors are xyerror()s, which leave the compilation.          *)
(***************************************************************************)
Int64T  == [cls |-> "int", size |-> 8, signed |-> TRUE, name |-> "long",
            typedefs |-> {"int64_t"}]
UInt64T == [cls |-> "int", size |-> 8, signed |-> FALSE, name |-> "unsigned long",
            typedefs |-> {"uint64_t"}]
AggType == IF aggkind = "count" THEN UInt64T ELSE Int64T

(* The call: printf (exact length) or printa of count() or of another    *)
(* aggregating function, with its argument types.                        *)
Calls == ({{"EXACTLEN"}} \X {"none"}) \cup ({{"AGGREGATION"}} \X {"count", "other"})

ValidateBegin ==
  /\ phase = "created" /\ gen = 1
  /\ \E c \in Calls, l \in ArgLists :
       /\ pflags' = c[1] /\ aggkind' = c[2] /\ args' = l
       /\ IF fmt = "" THEN phase' = "error" /\ err' = "D_PRINTF_FMT_EMPTY"
                          /\ UNCHANGED <<dnp, vi>>
          ELSE phase' = "validate" /\ vi' = 1 /\ dnp' = l /\ UNCHANGED err
  /\ UNCHANGED <<fmt, scanVars, argv, gen, pickled, orig, eng>>

(* Mutant: a ".*" is not counted among the dynamic arguments. *)
DynCountNoPrec(d) == IF "DYNWIDTH" \in d.flags THEN 1 ELSE 0

(* The arguments a "*" and a ".*" take: the width's first. *)
DynCount(d) == (IF "DYNWIDTH" \in d.flags THEN 1 ELSE 0)
               + (IF "DYNPREC" \in d.flags THEN 1 ELSE 0)

(* The first of the k dynamic arguments that is missing or not an integer. *)
DynError(k, l) ==
  LET bad == {i \in 1 .. k : i > Len(l) \/ ~IsInteger(l[i])}
      first == CHOOSE i \in bad : \A j \in bad : i <= j
  IN IF bad = {} THEN "none"
     ELSE IF first > Len(l) THEN "D_PRINTF_DYN_PROTO" ELSE "D_PRINTF_DYN_TYPE"

(* The suffix validate writes for a conversion e and value type ty: "ll"  *)
(* (strcpy) for 8-byte integers, "L" for long double, then the output     *)
(* format (strcat); pfcheck_dint turns the last letter into 'u' for an    *)
(* unsigned value and otherwise sets DT_PFCONV_SIGNED.                    *)
SizedFmt(d, e, ty) ==
  (IF e.print \in {"sint", "uint", "dint"} /\ ty.size = 8 THEN "ll"
   ELSE IF e.print = "fp" /\ ty.size = 16 THEN "L" ELSE d.fmt) \o e.ofmt
Checked(d, e, ty) ==
  LET f == SizedFmt(d, e, ty) IN
  IF e.check # "dint" THEN [d EXCEPT !.fmt = f]
  ELSE IF ty.signed THEN [d EXCEPT !.fmt = f, !.flags = @ \cup {"SIGNED"}]
  ELSE [d EXCEPT !.fmt = SubSeq(f, 1, Len(f) - 1) \o "u"]

(* One descriptor, value type ty, arguments rest left after it. *)
ValidateValue(d, e, ty, rest) ==
  IF ~CheckOK(e.check, e.tstr, ty, FALSE) THEN Fail("D_PRINTF_ARG_TYPE")
  ELSE /\ argv' = [argv EXCEPT ![vi] = Checked(d, e, ty)]
       /\ dnp' = rest /\ vi' = vi + 1
       /\ UNCHANGED <<fmt, phase, scanVars, err, callVars>>

ValidateConv(d, e, rest) ==
  CASE "AGG" \in d.flags /\ "AGGREGATION" \notin pflags -> Fail("D_PRINTF_AGG_CONV")
    [] "AGG" \in d.flags -> ValidateValue(d, e, AggType, rest)
    [] rest = << >> -> Fail("D_PRINTF_ARG_PROTO")
    [] OTHER -> ValidateValue(d, e, Head(rest), Tail(rest))

ValidateDesc(d) ==
  CASE d.conv = "" ->
         vi' = vi + 1 /\ UNCHANGED <<fmt, phase, scanVars, argv, err, dnp, callVars>>
    [] Dict[d.conv].print = "pct" ->
         /\ argv' = [argv EXCEPT ![vi].fmt = @ \o Dict[d.conv].ofmt] /\ vi' = vi + 1
         /\ UNCHANGED <<fmt, phase, scanVars, err, dnp, callVars>>
    [] DynError(DynCount(d), dnp) # "none" -> Fail(DynError(DynCount(d), dnp))
    [] OTHER -> ValidateConv(d, Dict[d.conv], SubSeq(dnp, DynCount(d) + 1, Len(dnp)))

ValidateStep == phase = "validate" /\ vi <= Len(argv) /\ ValidateDesc(argv[vi])

(* After the last descriptor: printf's exact length. *)
ValidateEnd ==
  /\ phase = "validate" /\ vi > Len(argv)
  /\ IF "EXACTLEN" \in pflags /\ dnp # << >> THEN Fail("D_PRINTF_ARG_EXTRA")
     ELSE phase' = "ready" /\ UNCHANGED <<fmt, scanVars, argv, err, dnp, vi, callVars>>

(***************************************************************************)
(* dtrace_printf_format: each prefix, then for a conversion '%', the flags *)
(* in a fixed order, the width and precision when non-zero, and the       *)
(* conversion: its name when the output format is "s", else pfd_fmt.      *)
(***************************************************************************)
FlagText(fl) ==
  (IF "ALT" \in fl THEN "#" ELSE "") \o (IF "ZPAD" \in fl THEN "0" ELSE "")
  \o (IF "LEFT" \in fl THEN "-" ELSE "") \o (IF "SPOS" \in fl THEN "+" ELSE "")
  \o (IF "DYNWIDTH" \in fl THEN "*" ELSE "") \o (IF "DYNPREC" \in fl THEN ".*" ELSE "")
  \o (IF "GROUP" \in fl THEN "'" ELSE "") \o (IF "SPACE" \in fl THEN " " ELSE "")
  \o (IF "AGG" \in fl THEN "@" ELSE "")
ConvText(d) ==
  "%" \o FlagText(d.flags)
  \o (IF d.width # 0 THEN ToString(d.width) ELSE "")
  \o (IF d.prec # 0 THEN "." \o ToString(d.prec) ELSE "")
  \o (IF Dict[d.conv].ofmt = "s" THEN d.conv ELSE d.fmt)
DescText(d) == d.prefix \o (IF d.conv = "" THEN "" ELSE ConvText(d))
PickleOf(av) == FoldLeft(LAMBDA acc, d : acc \o DescText(d), "", av)

(* The buffer dtrace_printf_format allocates: strlen + 3 per descriptor + 1. *)
FormatLen == Len(fmt) + 3 * Len(argv) + 1

Pickle ==
  /\ phase = "ready" /\ gen = 1
  /\ pickled' = PickleOf(argv) /\ orig' = argv /\ phase' = "pickled"
  /\ UNCHANGED <<fmt, scanVars, argv, err, pflags, aggkind, args, dnp, vi, gen, eng>>

(* The pickled string handed to dtrace_printf_create. *)
Recompile ==
  /\ phase = "pickled"
  /\ fmt' = pickled /\ gen' = 2
  /\ phase' = "scan" /\ q' = 1 /\ p' = 0 /\ dot' = 0 /\ digits' = 0 /\ name' = ""
  /\ argv' = << >> /\ dnp' = << >> /\ vi' = 0
  /\ UNCHANGED <<err, pflags, aggkind, args, pickled, orig, eng>>

(***************************************************************************)
(* dtrace_printf_create, after dt_printf_create: each conversion's suffix  *)
(* is its own name (size modifiers included), or "s" when that is its     *)
(* output format.                                                          *)
(***************************************************************************)
CreatedFmt(d) ==
  IF d.conv = "" THEN d
  ELSE [d EXCEPT !.fmt = @ \o (IF Dict[d.conv].ofmt # "s" THEN d.conv ELSE Dict[d.conv].ofmt)]
PrintfCreate ==
  /\ phase = "created" /\ gen = 2
  /\ argv' = [i \in DOMAIN argv |-> CreatedFmt(argv[i])] /\ phase' = "ready"
  /\ UNCHANGED <<fmt, scanVars, err, dnp, vi, callVars>>

(***************************************************************************)
(* dt_printf_format(pfv, recs, nrecs, buf, len, aggsdata, naggvars): the   *)
(* run-time engine, on gen 1's validated plan.  printf and sprintf pass    *)
(* the records of the arguments and those of later actions; printa passes  *)
(* an aggregation's records and naggvars snapshots, the last record being *)
(* the aggregation's result.  A record is <<offset, size, alignment>>; the *)
(* values and the output text are not modelled: the realised format      *)
(* (flags, |width|, .prec, pfd_fmt) and the printer chosen by the record's *)
(* action only decide what is written, and any write may fail.            *)
(***************************************************************************)

(* The compiler lays each argument out at its alignment (dt_rec_add):     *)
(* strings byte-aligned, other values at their size, up to 8.            *)
ArgAlign(ty) == IF ty.cls = "string" THEN 1 ELSE IF ty.size >= 8 THEN 8 ELSE ty.size
AlignTo(off, a) == (off + a - 1) - ((off + a - 1) % a)
RECURSIVE LayoutFrom(_, _)
LayoutFrom(l, off) ==
  IF l = << >> THEN << >>
  ELSE << [off |-> AlignTo(off, ArgAlign(Head(l))), size |-> Head(l).size,
           align |-> ArgAlign(Head(l))] >>
       \o LayoutFrom(Tail(l), AlignTo(off, ArgAlign(Head(l))) + Head(l).size)
RecEnd(rs) == IF rs = << >> THEN 0 ELSE Last(rs).off + Last(rs).size

(* dt_aggid_add's records: one 8-byte word each, dtagd_size / 8 of them:  *)
(* one for count(), two for avg().                                        *)
AggWords == IF aggkind = "count" THEN 1 ELSE 2
AggRecs == [k \in 1 .. AggWords |-> [off |-> 8 * (k - 1), size |-> 8, align |-> 8]]

(* dtrace_sprintf: the strsize-byte scratch buffer cannot be allocated, *)
(* and the engine is not called.                                        *)
SprintfNoMem ==
  /\ phase = "ready" /\ gen = 1 /\ "EXACTLEN" \in pflags /\ MallocMayFail
  /\ eng' = [NoEngine EXCEPT !.err = "NOMEM", !.ret = -1] /\ phase' = "printed"
  /\ UNCHANGED <<fmt, scanVars, argv, err, dnp, vi, pflags, aggkind, args, gen,
                 pickled, orig>>

(* The call: printf and sprintf pass the argument records and those after *)
(* them; printa reserves its last record (aggrec), and starts curagg at 1  *)
(* when several snapshots are joined.                                     *)
EngineBegin ==
  /\ phase = "ready" /\ gen = 1
  /\ \/ /\ "EXACTLEN" \in pflags
        /\ \E t \in Trailers :
             /\ eng' = [NoEngine EXCEPT !.recs = LayoutFrom(args \o t, 0),
                          !.len = RecEnd(LayoutFrom(args \o t, 0)),
                          !.nrem = Len(args \o t), !.i = 1]
             /\ phase' = "engine"
     \/ /\ "AGGREGATION" \in pflags
        /\ \E na \in {1, 2} :
             eng' = IF AggWords = 0 THEN [NoEngine EXCEPT !.err = "DMISMATCH", !.ret = -1]
                    ELSE [NoEngine EXCEPT !.recs = AggRecs, !.len = 8 * AggWords,
                            !.naggs = na, !.alen = 8 * AggWords, !.nrem = AggWords - 1,
                            !.curagg = IF na > 1 THEN 1 ELSE 0, !.i = 1]
        /\ phase' = IF eng'.err = "none" THEN "engine" ELSE "printed"
  /\ UNCHANGED <<fmt, scanVars, argv, err, dnp, vi, pflags, aggkind, args, gen,
                 pickled, orig>>

(* return dt_set_errno(dtp, x): the engine ends with -1. *)
Stop(e, x) == [e EXCEPT !.err = x, !.ret = -1]

(* The bounds and alignment checks of a record against buf + len. *)
RecCheck(e, r) ==
  IF r.off + r.size > e.len THEN "DOFFSET"
  ELSE IF r.off % r.align # 0 THEN "DALIGN" ELSE "none"

(* Consuming the record at the cursor: recp++, nrecs--. *)
Consume(e) == [e EXCEPT !.cur = @ + 1, !.nrem = @ - 1]

(* dt_printf_getint on the record at the cursor. *)
GetInt(e) ==
  IF e.nrem = 0 THEN Stop(e, "DMISMATCH")
  ELSE IF RecCheck(e, e.recs[e.cur + 1]) # "none" THEN Stop(e, RecCheck(e, e.recs[e.cur + 1]))
  ELSE IF e.recs[e.cur + 1].size \notin {1, 2, 4, 8} THEN Stop(e, "DMISMATCH")
  ELSE Consume(e)

DynWidth(e, d) == IF "DYNWIDTH" \in d.flags THEN GetInt(e) ELSE e
DynPrec(e, d) == IF e.err = "none" /\ "DYNPREC" \in d.flags THEN GetInt(e) ELSE e

(* The value: %@ takes aggsdata[curagg]'s result, whose data is exactly  *)
(* the descriptor's size, and moves curagg on up to naggvars - 1; any     *)
(* other conversion takes the next record, after the nrecs test and the   *)
(* bounds and alignment checks.                                           *)
ValueRec(e, d) ==
  IF e.err # "none" THEN e
  ELSE IF "AGG" \in d.flags THEN
    IF e.naggs = 0 THEN Stop(e, "DMISMATCH")
    ELSE [e EXCEPT !.used = Append(@, e.curagg),
                   !.curagg = IF @ < e.naggs - 1 THEN @ + 1 ELSE @]
  ELSE IF e.nrem = 0 THEN Stop(e, "DMISMATCH")
  ELSE IF RecCheck(e, e.recs[e.cur + 1]) # "none" THEN Stop(e, RecCheck(e, e.recs[e.cur + 1]))
  ELSE Consume(e)

Advance(e) == IF e.err # "none" THEN e ELSE [e EXCEPT !.i = @ + 1]

(* One pass of the loop on descriptor d of argc: a plan that is a single  *)
(* prefix returns nrecs != 0 at once (i = 0 marks the return); another    *)
(* prefix, and %%, go on; a conversion takes its '*', '.*' and value.     *)
DescStep(e, d, argc) ==
  CASE d.conv = "" /\ argc = 1 -> [e EXCEPT !.ret = IF e.nrem # 0 THEN 1 ELSE 0, !.i = 0]
    [] d.conv = "" \/ Dict[d.conv].print = "pct" -> [e EXCEPT !.i = @ + 1]
    [] OTHER -> Advance(ValueRec(DynPrec(DynWidth(e, d), d), d))

(* A descriptor that writes (its prefix, %%, or a conversion) may fail. *)
Writes(d) == d.prefix # "" \/ d.conv # ""

EngineDesc ==
  /\ phase = "engine" /\ eng.i \in 1 .. Len(argv)
  /\ \/ /\ eng' = DescStep(eng, argv[eng.i], Len(argv))
        /\ phase' = IF eng'.err # "none" \/ eng'.i = 0 THEN "printed" ELSE "engine"
     \/ /\ IoMayFail /\ Writes(argv[eng.i])
        /\ eng' = Stop(eng, "IO") /\ phase' = "printed"
  /\ UNCHANGED <<fmt, scanVars, argv, err, dnp, vi, pflags, aggkind, args, gen,
                 pickled, orig>>

(* return (int)(recp - recs). *)
EngineEnd ==
  /\ phase = "engine" /\ eng.i > Len(argv)
  /\ eng' = [eng EXCEPT !.ret = eng.cur] /\ phase' = "printed"
  /\ UNCHANGED <<fmt, scanVars, argv, err, dnp, vi, pflags, aggkind, args, gen,
                 pickled, orig>>

Next ==
  \/ NextPercent \/ ZeroPad \/ Digits \/ Alt \/ Plus \/ Minus \/ AggMark \/ Group
  \/ Space \/ Star \/ Dot \/ Question \/ SizeMod \/ BadChar \/ Conclude \/ Trail
  \/ ValidateBegin \/ ValidateStep \/ ValidateEnd \/ Pickle \/ Recompile \/ PrintfCreate
  \/ SprintfNoMem \/ EngineBegin \/ EngineDesc \/ EngineEnd

Spec == Init /\ [][Next]_vars

TypeOK ==
  /\ phase \in Phases /\ gen \in {1, 2}
  /\ q \in 1 .. Len(fmt) + 1 /\ p \in 0 .. Len(fmt) + 1
  /\ \A i \in DOMAIN argv :
       /\ argv[i].conv \in ConvNames \cup {""}
       /\ argv[i].flags \subseteq Flags
       /\ argv[i].width \in Int /\ argv[i].prec \in Int
  /\ Len(name) <= 7
  /\ eng.cur + eng.nrem <= Len(eng.recs) /\ eng.curagg \in 0 .. 1

(***************************************************************************)
(* The plan covers the format: each descriptor's prefix followed by the   *)
(* text of its conversion, in order, is the format string again, with    *)
(* nothing dropped or read twice.  It is about dt_printf_create's loop    *)
(* (q = *p ? p + 1 : p), the prefix pointers and the trailing descriptor. *)
(***************************************************************************)
SourceText(av) ==
  FoldLeft(LAMBDA acc, d : acc \o d.prefix \o SubSeq(fmt, d.at, d.stop), "", av)
PlanTilesFormat ==
  phase \in {"created", "validate", "ready", "pickled"} => SourceText(argv) = fmt

(***************************************************************************)
(* Spec 4.4, validation: dt_printf_validate accepts exactly when the       *)
(* arguments match what the plan demands, in order: an integer for each   *)
(* "*" and ".*", then a value its conversion's check accepts (none for %@, *)
(* which needs printa and takes the aggregation's result, nor for %%);    *)
(* printf demands exactly as many arguments.  It is about the argument    *)
(* cursor of dt_printf_validate and its early exits.                      *)
(***************************************************************************)
Roles(d) ==
  IF d.conv = "" \/ Dict[d.conv].print = "pct" THEN << >>
  ELSE (IF "DYNWIDTH" \in d.flags THEN << "int" >> ELSE << >>)
       \o (IF "DYNPREC" \in d.flags THEN << "int" >> ELSE << >>)
       \o (IF "AGG" \in d.flags THEN << >> ELSE << d.conv >>)
Accepts(role, ty) ==
  IF role = "int" THEN IsInteger(ty) ELSE CheckOK(Dict[role].check, Dict[role].tstr, ty, FALSE)
AggConvsOK(av) ==
  \A i \in DOMAIN av :
    av[i].conv # "" /\ "AGG" \in av[i].flags =>
      /\ "AGGREGATION" \in pflags
      /\ CheckOK(Dict[av[i].conv].check, Dict[av[i].conv].tstr, AggType, FALSE)
DemandOK(demand) ==
  /\ Len(args) >= Len(demand)
  /\ "EXACTLEN" \in pflags => Len(args) = Len(demand)
  /\ \A i \in 1 .. Len(demand) : Accepts(demand[i], args[i])
ReferenceValid(av) ==
  fmt # "" /\ AggConvsOK(av) /\ DemandOK(FlattenSeq([i \in DOMAIN av |-> Roles(av[i])]))
ValidateVerdict ==
  /\ phase = "ready" => ReferenceValid(argv)
  /\ phase = "error" /\ err \notin {"COMPILER", "NOMEM"} => ~ReferenceValid(argv)

PickleFits == phase = "pickled" => Len(pickled) < FormatLen

(***************************************************************************)
(* Spec section 8, format round trip: the pickled format means the same  *)
(* plan.                                                                   *)
(* dtrace_printf_create accepts it, with the same prefixes, flags, widths  *)
(* and precisions, conversions of the same family and the same printf(3)  *)
(* suffixes (the sign of %d is carried by the suffix, not by SIGNED).     *)
(* It is about dtrace_printf_format's reassembly of what dt_printf_create *)
(* and dt_printf_validate built.                                          *)
(***************************************************************************)
PrintOf(d) ==
  IF d.conv = "" THEN "none"
  ELSE IF Dict[d.conv].print \in {"sint", "uint", "dint"} THEN "int"
  ELSE Dict[d.conv].print
SamePlan(a, b) ==
  /\ a.prefix = b.prefix /\ a.width = b.width /\ a.prec = b.prec
  /\ a.flags \ {"SIGNED"} = b.flags \ {"SIGNED"}
  /\ PrintOf(a) = PrintOf(b) /\ a.fmt = b.fmt
RoundTrip ==
  gen = 2 /\ phase \in {"ready", "error"} /\ err # "NOMEM" =>
    /\ phase = "ready" /\ Len(argv) = Len(orig)
    /\ \A i \in DOMAIN argv : SamePlan(argv[i], orig[i])

=============================================================================
