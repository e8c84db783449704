------------------------------ MODULE PrintfDict ------------------------------
(***************************************************************************)
(* The printf dictionary of libdtrace (src/libdtrace/dt_printf.c): the     *)
(* static table _dtrace_conversions, which dt_pfdict_create loads into a   *)
(* hash keyed by name, and the type predicates pfcheck_* that decide       *)
(* whether an argument of a D type may be printed by a conversion.         *)
(*                                                                         *)
(* A D type is abstracted to what the predicates read: its class (integer, *)
(* float, pointer, string, char or wchar_t array, stack, symbol address), *)
(* its size, its signedness, the name it resolves to, and the typedef      *)
(* names on its chain.                                                     *)
(***************************************************************************)
EXTENDS Naturals, Sequences, FiniteSets

(* _dtrace_conversions: name, output format, expected type, check, print. *)
ConvTable ==
  << <<"a", "s", "", "kaddr", "addr">>,  <<"A", "s", "", "uaddr", "uaddr">>,
     <<"c", "c", "", "csi", "sint">>,    <<"C", "s", "", "csi", "echr">>,
     <<"d", "d", "", "dint", "dint">>,   <<"e", "e", "", "fp", "fp">>,
     <<"E", "E", "", "fp", "fp">>,       <<"f", "f", "", "fp", "fp">>,
     <<"g", "g", "", "fp", "fp">>,       <<"G", "G", "", "fp", "fp">>,
     <<"hd", "d", "short", "type", "sint">>,
     <<"hi", "i", "short", "type", "sint">>,
     <<"ho", "o", "unsigned short", "type", "uint">>,
     <<"hu", "u", "unsigned short", "type", "uint">>,
     <<"hx", "x", "short", "xshort", "uint">>,
     <<"hX", "X", "short", "xshort", "uint">>,
     <<"i", "i", "", "dint", "dint">>,   <<"k", "s", "stack", "stack", "stack">>,
     <<"lc", "lc", "int", "type", "sint">>,
     <<"ld", "d", "long", "type", "sint">>,
     <<"li", "i", "long", "type", "sint">>,
     <<"lo", "o", "unsigned long", "type", "uint">>,
     <<"lu", "u", "unsigned long", "type", "uint">>,
     <<"ls", "ls", "", "wstr", "wstr">>,
     <<"lx", "x", "long", "xlong", "uint">>,
     <<"lX", "X", "long", "xlong", "uint">>,
     <<"lld", "d", "long long", "type", "sint">>,
     <<"lli", "i", "long long", "type", "sint">>,
     <<"llo", "o", "unsigned long long", "type", "uint">>,
     <<"llu", "u", "unsigned long long", "type", "uint">>,
     <<"llx", "x", "long long", "xlonglong", "uint">>,
     <<"llX", "X", "long long", "xlonglong", "uint">>,
     <<"Le", "e", "long double", "type", "fp">>,
     <<"LE", "E", "long double", "type", "fp">>,
     <<"Lf", "f", "long double", "type", "fp">>,
     <<"Lg", "g", "long double", "type", "fp">>,
     <<"LG", "G", "long double", "type", "fp">>,
     <<"o", "o", "", "xint", "uint">>,   <<"p", "x", "", "addr", "uint">>,
     <<"s", "s", "", "str", "cstr">>,    <<"S", "s", "", "str", "estr">>,
     <<"T", "s", "int64_t", "time", "time822">>,
     <<"u", "u", "", "xint", "uint">>,
     <<"wc", "wc", "int", "type", "sint">>,
     <<"ws", "ws", "", "wstr", "wstr">>,
     <<"x", "x", "", "xint", "uint">>,   <<"X", "X", "", "xint", "uint">>,
     <<"Y", "s", "int64_t", "time", "time">>,
     <<"%", "%", "void", "type", "pct">> >>

(* dt_pfdict_lookup: the entry of a conversion name. *)
ConvNames == {ConvTable[i][1] : i \in DOMAIN ConvTable}
Dict == [n \in ConvNames |->
           LET e == ConvTable[CHOOSE i \in DOMAIN ConvTable : ConvTable[i][1] = n]
           IN [name |-> n, ofmt |-> e[2], tstr |-> e[3], check |-> e[4], print |-> e[5]]]

(* The C types named by pfcheck_type entries, as ctf_type_compat sees them: *)
(* class, size and signedness must agree.                                 *)
TstrType ==
  [t \in {"short", "unsigned short", "int", "long", "unsigned long", "long long",
          "unsigned long long", "long double", "int64_t"} |->
     CASE t = "short" -> [cls |-> "int", size |-> 2, signed |-> TRUE]
       [] t = "unsigned short" -> [cls |-> "int", size |-> 2, signed |-> FALSE]
       [] t = "int" -> [cls |-> "int", size |-> 4, signed |-> TRUE]
       [] t \in {"long", "long long", "int64_t"} -> [cls |-> "int", size |-> 8, signed |-> TRUE]
       [] t \in {"unsigned long", "unsigned long long"} ->
            [cls |-> "int", size |-> 8, signed |-> FALSE]
       [] t = "long double" -> [cls |-> "fp", size |-> 16, signed |-> TRUE]]

IsInteger(ty) == ty.cls = "int"

(***************************************************************************)
(* pfcheck_*: whether an argument of type ty may be printed by a           *)
(* conversion with the given check.  target is whether the "target" macro *)
(* is set (a process is being traced), which pfcheck_uaddr consults.      *)
(***************************************************************************)
CheckOK(check, tstr, ty, target) ==
  CASE check = "addr"   -> ty.cls \in {"ptr", "int"}
    [] check = "kaddr"  -> ty.cls \in {"ptr", "int", "symaddr"}
    [] check = "uaddr"  -> ty.cls = "usymaddr" \/ (target /\ ty.cls \in {"ptr", "int"})
    [] check = "stack"  -> ty.cls = "stack"
    [] check = "time"   -> IsInteger(ty) /\ ty.size = 8
    [] check = "str"    -> ty.cls \in {"string", "chararr"}
    [] check = "wstr"   -> ty.cls = "wchararr"
    [] check = "csi"    -> IsInteger(ty) /\ ty.size <= 4
    [] check = "fp"     -> ty.cls = "fp"
    [] check \in {"xint", "dint"} -> IsInteger(ty)
    [] check = "xshort" -> ty.name \in {"short", "signed short", "unsigned short"}
    [] check = "xlong"  -> ty.name \in {"long", "signed long", "unsigned long"}
    [] check = "xlonglong" ->
         \/ ty.name \in {"long long", "signed long long", "unsigned long long"}
         \/ ty.typedefs \cap {"int64_t", "uint64_t"} # {}
    [] check = "type"   -> ty.cls \in {"int", "fp"}
                           /\ ty.size = TstrType[tstr].size
                           /\ ty.signed = TstrType[tstr].signed
                           /\ ty.cls = TstrType[tstr].cls
=============================================================================
