---------------------------- MODULE MCPrintfPlan ----------------------------
(***************************************************************************)
(* Model values for PrintfPlan: every format of up to three characters    *)
(* over an alphabet that reaches every case of fmt_switch, some longer     *)
(* formats of interest, and argument lists of a few D types.              *)
(***************************************************************************)
EXTENDS PrintfPlan

IntT    == [cls |-> "int", size |-> 4, signed |-> TRUE, name |-> "int", typedefs |-> {}]
UIntT   == [cls |-> "int", size |-> 4, signed |-> FALSE, name |-> "unsigned int",
            typedefs |-> {}]
StrT    == [cls |-> "string", size |-> 256, signed |-> FALSE, name |-> "string",
            typedefs |-> {}]
DblT    == [cls |-> "fp", size |-> 8, signed |-> TRUE, name |-> "double", typedefs |-> {}]

(* The characters formats are made of. *)
Alphabet == {"%", "d", "s", "l", "x", "-", "0", "5", ".", "*", "@", "?", "#", "$"}

(* The strings of length n over Alphabet. *)
RECURSIVE Words(_)
Words(n) == IF n = 0 THEN {""} ELSE {w \o c : w \in Words(n - 1), c \in Alphabet}

MCFormats ==
  Words(0) \cup Words(1) \cup Words(2) \cup Words(3)
  \cup {"a%d", "%d b", "%ld", "%lld", "%5.2x", "%%%d", "%-5s", "%*.*d",
        "%@d", "%@x", "%0#5x", "%lu", "%hd", "%+ 'd", "%3000000000d", "%?.*5d", "%lllllllld"}

(* The formats whose digit runs fit an int. *)
MCFormatsNoWrap == MCFormats \ {"%3000000000d"}

MCArgLists ==
  { << >>, << IntT >>, << Int64T >>, << UInt64T >>, << StrT >>,
    << IntT, IntT >>, << IntT, StrT >>, << IntT, IntT, UIntT >>, << IntT, Int64T >>, << DblT >> }

(* After printf's records: none, or the record of a later action. *)
MCTrailers == { << >>, << Int64T >> }
=============================================================================
