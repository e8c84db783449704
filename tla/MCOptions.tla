------------------------------ MODULE MCOptions ------------------------------
(* Arguments for the option registry: for each handler family, the       *)
(* arguments a caller passes, well formed or not.                          *)
EXTENDS Options

(* Decimal sizes and rates in range, one past UINT_MAX for strsize, a     *)
(* negative, trailing garbage, case variants, NULL and the empty string   *)
(* where the family gives it a meaning.                                   *)
MCArgsOf ==
  [size      |-> {NoArg, "4k", "2M", "8g", "-1", "12abc"},
   strsize   |-> {"256", "1k", "4g", "-5"},
   bufpolicy |-> {NoArg, "fill", "switch", "RING"},
   bufresize |-> {"manual", "auto", "none"},
   runtime   |-> {NoArg, "", "yes", "Off", "7", "-3"},
   rate      |-> {"10hz", "0hz", "5ms", "2min", "3x"},
   cflags    |-> {NoArg, "1"},
   invcflags |-> {NoArg},
   cpp_path  |-> {"/usr/bin/cpp"},
   libdir    |-> {"/usr/lib/dtrace"},
   core      |-> {NoArg},
   pcapsize  |-> {"70000"},
   agg |-> {NoArg}, dflags |-> {"x"}, droptags |-> {NoArg}, lazyload |-> {"1"},
   debug |-> {NoArg}, debug_assert |-> {"mutexes", "all"},
   ctypes |-> {"/tmp/c"}, dtypes |-> {NoArg},
   iregs |-> {"8"}, tregs |-> {"4x"}, tree |-> {"-1"},
   disasm |-> {"0"}, pgmax |-> {"-2"}, useruid |-> {"-1"},
   linkmode |-> {"Static"}, linktype |-> {"ELF"},
   evaltime |-> {"main"}, xlate |-> {"dynamic"}, stdc |-> {"s", "c"},
   ld_path |-> {"/bin/ld"}, ctfa_path |-> {NoArg}, module_path |-> {"/m"},
   procfs_path |-> {"/proc"}, syslibdir |-> {"/s"}, sysslice |-> {"d.slice"},
   amin |-> {"Stable/Stable/Common", "Stable/Common"},
   cpp_args |-> {"-C  -P"}, cpp_hdrs |-> {NoArg}, cpp_opts |-> {"X=1"},
   version |-> {"2.0", "2.5", "two"}, preallocate |-> {"1k", "x"}]

(* The environment: a flag option, whose handler refuses any value, and  *)
(* a run-time option, each set or unset.                                  *)
MCEnvOf == [cpp |-> {""}, bufsize |-> {"2M"}]

(* For the finding run: a size and a rate whose products wrap past 2^64. *)
WrapArgsOf  == [MCArgsOf EXCEPT !.size = {"16777217t", "4k"}, !.rate = {"300000000d", "5ms"}]
====
