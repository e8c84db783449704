------------------------------- MODULE Options -------------------------------
(***************************************************************************)
(* The option registry of libdtrace (src/libdtrace/dt_options.c):          *)
(* dtrace_setopt() dispatching through the compile-time, dynamic run-time  *)
(* and run-time tables to the option handlers, and dtrace_getopt().        *)
(*                                                                         *)
(* Modelled options: every handler of the three tables, each under one    *)
(* or two of the names that use it:                                        *)
(*   run-time:    bufsize (dt_opt_size), strsize (dt_opt_strsize),         *)
(*                bufpolicy, bufresize, cpu (dt_opt_runtime),              *)
(*                cleanrate (dt_opt_rate), pcapsize;                       *)
(*   dynamic:     quiet (dt_opt_runtime), switchrate (dt_opt_rate);        *)
(*   compile:     cpp, knodefs (dt_opt_cflags), kdefs (dt_opt_invcflags),  *)
(*                and one name for each other compile-time handler;        *)
(*   and a name in no table.                                               *)
(* An argument is a string or NoArg, the NULL pointer.  The compiler that  *)
(* opens and closes the pcb, and dtrace_go() that sets dt_active, are      *)
(* environment actions.  Settings that dtrace_open() chooses and no        *)
(* property compares are the value "default".                              *)
(***************************************************************************)
EXTENDS Integers, Sequences, OptionParse

CONSTANTS
  NoArg,          \* the NULL argument
  ArgsOf,         \* handler family -> the arguments a caller passes
  EnvOf,          \* option name -> the values its environment variable may have
  AtexitMayFail,  \* whether atexit() can fail
  MaxSets         \* bound on dtrace_setopt calls

(* The handler of each modelled name of _dtrace_ctoptions,                *)
(* _dtrace_drtoptions and _dtrace_rtoptions, in the order of the tables.  *)
CtOrder ==
  << "aggpercpu", "amin", "core", "cpp", "cppargs", "cpphdrs", "cpppath",
     "ctypes", "ctfpath", "debug", "debugassert", "define", "disasm",
     "droptags", "dtypes", "evaltime", "iregs", "kdefs", "knodefs", "late",
     "lazyload", "ldpath", "libdir", "linkmode", "linktype", "modpath",
     "pgmax", "preallocate", "procfspath", "stdc", "strip", "syslibdir",
     "sysslice", "tree", "tregs", "useruid", "version" >>
DrtOrder == << "quiet", "switchrate" >>
RtOrder  == << "bufsize", "bufpolicy", "bufresize", "cleanrate", "cpu",
               "pcapsize", "strsize" >>
TableOrder == CtOrder \o DrtOrder \o RtOrder

RtNames  == {RtOrder[i] : i \in DOMAIN RtOrder}
DrtNames == {DrtOrder[i] : i \in DOMAIN DrtOrder}
CtNames  == {CtOrder[i] : i \in DOMAIN CtOrder}
Gettable == RtNames \cup DrtNames

Handler ==
  [bufsize |-> "size", strsize |-> "strsize", bufpolicy |-> "bufpolicy",
   bufresize |-> "bufresize", cpu |-> "runtime", quiet |-> "runtime",
   cleanrate |-> "rate", switchrate |-> "rate", pcapsize |-> "pcapsize",
   cpp |-> "cflags", knodefs |-> "cflags", kdefs |-> "invcflags",
   aggpercpu |-> "agg", amin |-> "amin", core |-> "core",
   cppargs |-> "cpp_args", cpphdrs |-> "cpp_hdrs", cpppath |-> "cpp_path",
   ctypes |-> "ctypes", ctfpath |-> "ctfa_path", debug |-> "debug",
   debugassert |-> "debug_assert", define |-> "cpp_opts",
   disasm |-> "disasm", droptags |-> "droptags", dtypes |-> "dtypes",
   evaltime |-> "evaltime", iregs |-> "iregs", late |-> "xlate",
   lazyload |-> "lazyload", ldpath |-> "ld_path", libdir |-> "libdir",
   linkmode |-> "linkmode", linktype |-> "linktype",
   modpath |-> "module_path", pgmax |-> "pgmax",
   preallocate |-> "preallocate", procfspath |-> "procfs_path",
   stdc |-> "stdc", strip |-> "dflags", syslibdir |-> "syslibdir",
   sysslice |-> "sysslice", tree |-> "tree", tregs |-> "tregs",
   useruid |-> "useruid", version |-> "version"]

(* The o_option word of the table entries: a flag, or a cpp option. *)
CFlag   == [cpp |-> "C_CPP", knodefs |-> "C_KNODEF", kdefs |-> "C_KNODEF"]
AggFlag == [aggpercpu |-> "A_PERCPU"]
DFlag   == [strip |-> "D_STRIP"]
CppOpt  == [define |-> "-D"]
Names == DOMAIN Handler \cup {"nosuch"}

(* DTRACEOPT_BUFPOLICY_* and DTRACEOPT_BUFRESIZE_* of <dtrace.h>. *)
BufPolicies == [ring |-> W64(0), fill |-> W64(1), switch |-> W64(2)]
BufResizes  == [auto |-> W64(0), manual |-> W64(1)]

Results == {"OK", "BADOPTVAL", "BADOPTCTX", "BADOPTNAME", "ACTIVE",
            "NOMEM", "OVERFLOW", "CTF", "ATEXIT", "OPEN", "VERSINVAL",
            "VERSUNDEF"}
Unknown == << >>   \* no word: the spec gives no value

(* The handle's compile-time settings outside dt_options[] and dt_cflags. *)
ConfKeys == {"aggflags", "dflags", "droptags", "lazyload", "debug",
             "debugassert", "cdefs", "ddefs", "iregs", "tregs", "tree",
             "disasm", "pgmax", "useruid", "linkmode", "linktype",
             "evaltime", "xlate", "stdc", "ldpath", "ctfpath", "modpath",
             "procfspath", "sysslice", "amin", "version"}

VARIABLES
  options,      \* dtp->dt_options[], for the modelled slots
  ctfNelems,    \* the array length of the CTF type of D's "string"
  cflags,       \* dtp->dt_cflags
  pcbCflags,    \* dtp->dt_pcb->pcb_cflags
  pcbAmin,      \* dtp->dt_pcb->pcb_amin
  pcb,          \* dtp->dt_pcb != NULL
  active,       \* dtp->dt_active
  cppPath,      \* dtp->dt_cpp_path (and dt_cpp_argv[0], its basename)
  cppArgs,      \* the arguments dt_cpp_add_arg appended to dt_cpp_argv
  libPath,      \* dtp->dt_lib_path
  conf,         \* ConfKeys -> the setting
  coreEnabled,  \* the static counter "enabled" of dt_opt_core
  coreHandler,  \* whether atexit(dt_coredump) succeeded
  ret,          \* the value of the last handler (0 or dt_errno)
  nsets,        \* dtrace_setopt calls so far
  env,          \* the process environment: option name -> value
  envLeft,      \* the names dtrace_setoptenv has still to look up
  last,         \* history: the last call and the context it was made in
  expect,       \* history: the value the spec says getopt must return
  compileSaw    \* history: the compile inputs when the pcb was pushed

optVars == <<options, ctfNelems>>
ctVars  == <<cflags, pcbCflags, pcbAmin, cppPath, cppArgs, libPath, conf,
             coreEnabled, coreHandler>>
histVars == <<last, expect, compileSaw>>
vars == <<optVars, ctVars, pcb, active, ret, nsets, env, envLeft, histVars>>

AllArgs == UNION {ArgsOf[k] : k \in DOMAIN ArgsOf}
NoEnv == "unset"   \* getenv() returning NULL
EnvValues == UNION {EnvOf[n] : n \in DOMAIN EnvOf} \cup {NoEnv}

(* The inputs a compilation takes from the handle when its pcb is pushed. *)
CompileInputs ==
  [cflags |-> cflags, amin |-> conf.amin, cppPath |-> cppPath,
   cppArgs |-> cppArgs, stdc |-> conf.stdc, ldpath |-> conf.ldpath,
   ctfpath |-> conf.ctfpath, modpath |-> conf.modpath,
   procfspath |-> conf.procfspath]

TypeOK ==
  /\ DOMAIN options = Gettable /\ \A n \in Gettable : IsWord(options[n])
  /\ IsWord(ctfNelems)
  /\ cflags \subseteq {"C_CPP", "C_KNODEF", "C_EATTR"}
  /\ pcbCflags \subseteq {"C_CPP", "C_KNODEF", "C_EATTR"}
  /\ pcb \in BOOLEAN /\ active \in BOOLEAN
  /\ cppArgs \in Seq(STRING) /\ libPath \in Seq(AllArgs \cup {"default"})
  /\ DOMAIN conf = ConfKeys
  /\ coreEnabled \in 0 .. MaxSets + Len(TableOrder)
  /\ coreHandler \in BOOLEAN /\ ret \in Results /\ nsets \in 0 .. MaxSets
  /\ DOMAIN env = DOMAIN EnvOf /\ envLeft \in Seq(DOMAIN EnvOf)
  /\ DOMAIN expect = Gettable
  /\ \A n \in Gettable : expect[n] = Unknown \/ IsWord(expect[n])

(* A handle as dtrace_open() leaves it: every option DTRACEOPT_UNSET, no   *)
(* compilation open, tracing not active, the system library directory    *)
(* first on the library path, and no call made yet.  The string type's   *)
(* initial length is immaterial: only lengths set through strsize are    *)
(* compared with the option.  The environment is any the MC model allows; *)
(* dtrace_setoptenv walks it before any other call (spec 6: at init).    *)
Init ==
  /\ options = [n \in Gettable |-> OptUnset]
  /\ ctfNelems = W64(0)
  /\ cflags = {} /\ pcbCflags = {} /\ pcbAmin = "default"
  /\ pcb = FALSE /\ active = FALSE
  /\ cppPath = "cpp" /\ cppArgs = << >> /\ libPath = << "default" >>
  /\ conf = [k \in ConfKeys |->
               IF k \in {"aggflags", "dflags", "debugassert"} THEN {}
               ELSE IF k \in {"droptags", "lazyload", "debug"} THEN FALSE
               ELSE "default"]
  /\ coreEnabled = 0 /\ coreHandler = FALSE
  /\ ret = "OK" /\ nsets = 0
  /\ env \in {e \in [DOMAIN EnvOf -> EnvValues] :
                \A n \in DOMAIN EnvOf : e[n] \in EnvOf[n] \cup {NoEnv}}
  /\ envLeft = SelectSeq(TableOrder, LAMBDA n : n \in DOMAIN env)
  /\ last = [name |-> "none", arg |-> NoArg, pcb |-> FALSE, active |-> FALSE]
  /\ expect = options
  /\ compileSaw = CompileInputs

Fail(e) == ret' = e /\ UNCHANGED <<optVars, ctVars>>

Store(n, v) ==
  /\ options' = [options EXCEPT ![n] = v] /\ ret' = "OK"
  /\ UNCHANGED <<ctfNelems, ctVars>>

(* A parser's verdict v: store its value, or refuse with EDT_BADOPTVAL. *)
StoreVerdict(n, v) == IF v.ok THEN Store(n, v.val) ELSE Fail("BADOPTVAL")

(* dt_opt_size: NULL gives 0, else the verdict of dt_optval_parse. *)
SizeOutcomes(arg) ==
  IF arg = NoArg THEN {[ok |-> TRUE, val |-> W64(0)]} ELSE OptvalParse(arg)

OptSize(n, arg) == \E v \in SizeOutcomes(arg) : StoreVerdict(n, v)

(* (uint_t)dtp->dt_options[option]: the low 32 bits. *)
Low32(w) == [i \in 1 .. NLimbs |-> IF i <= 4 THEN w[i] ELSE 0]

(***************************************************************************)
(* dt_opt_strsize: dt_opt_size stores the new value; above UINT_MAX the    *)
(* saved value is put back (EOVERFLOW).  The CTF steps fail apart:         *)
(* ctf_array_info, or ctf_set_array, fails and the string type is as it   *)
(* was; or ctf_set_array succeeds and ctf_update fails, and the dynamic    *)
(* type keeps the new length.  Each puts the saved option back (EDT_CTF).  *)
(* Otherwise the string type is an array of (uint_t) strsize characters.   *)
(***************************************************************************)
OptStrsize(n, arg) ==
  \E v \in SizeOutcomes(arg) :
    CASE ~v.ok -> Fail("BADOPTVAL")
      [] AboveU32(v.val) -> Fail("OVERFLOW")
      [] OTHER -> \/ Fail("CTF")
                  \/ /\ ctfNelems' = Low32(v.val) /\ ret' = "CTF"
                     /\ UNCHANGED <<options, ctVars>>
                  \/ /\ options' = [options EXCEPT ![n] = v.val] /\ ret' = "OK"
                     /\ ctfNelems' = Low32(v.val) /\ UNCHANGED ctVars

(* dt_opt_bufpolicy: an exact match in _dtrace_bufpolicies. *)
OptBufpolicy(n, arg) ==
  IF arg # NoArg /\ arg \in DOMAIN BufPolicies
    THEN Store("bufpolicy", BufPolicies[arg]) ELSE Fail("BADOPTVAL")

(* Mutant: the resize policy is stored in the buffer policy's slot. *)
OptBufresizeSlot(n, arg) ==
  IF arg # NoArg /\ arg \in DOMAIN BufResizes
    THEN Store("bufpolicy", BufResizes[arg]) ELSE Fail("BADOPTVAL")

(* dt_opt_bufresize: an exact match in _dtrace_bufresize. *)
OptBufresize(n, arg) ==
  IF arg # NoArg /\ arg \in DOMAIN BufResizes
    THEN Store("bufresize", BufResizes[arg]) ELSE Fail("BADOPTVAL")

(* dt_opt_runtime and dt_opt_rate: NULL stores 0. *)
OptRuntime(n, arg) ==
  IF arg = NoArg THEN Store(n, W64(0)) ELSE StoreVerdict(n, RuntimeParse(arg))

OptRate(n, arg) ==
  IF arg = NoArg THEN Store(n, W64(0)) ELSE StoreVerdict(n, RateParse(arg))

(* dt_opt_cflags and dt_opt_invcflags: no argument; the flag goes to the  *)
(* open compilation's pcb_cflags, or else to the handle's dt_cflags.      *)
OptCflags(n, arg) ==
  IF arg # NoArg THEN Fail("BADOPTVAL")
  ELSE /\ IF pcb THEN pcbCflags' = pcbCflags \cup {CFlag[n]} /\ UNCHANGED cflags
                 ELSE cflags' = cflags \cup {CFlag[n]} /\ UNCHANGED pcbCflags
       /\ ret' = "OK"
       /\ UNCHANGED <<optVars, pcbAmin, cppPath, cppArgs, libPath, conf, coreEnabled,
                      coreHandler>>

OptInvcflags(n, arg) ==
  IF arg # NoArg THEN Fail("BADOPTVAL")
  ELSE /\ IF pcb THEN pcbCflags' = pcbCflags \ {CFlag[n]} /\ UNCHANGED cflags
                 ELSE cflags' = cflags \ {CFlag[n]} /\ UNCHANGED pcbCflags
       /\ ret' = "OK"
       /\ UNCHANGED <<optVars, pcbAmin, cppPath, cppArgs, libPath, conf, coreEnabled,
                      coreHandler>>

(* dt_opt_cpp_path: refused while a compilation is open; strdup may fail. *)
OptCppPath(n, arg) ==
  CASE arg = NoArg -> Fail("BADOPTVAL")
    [] pcb -> Fail("BADOPTCTX")
    [] OTHER -> \/ Fail("NOMEM")
                \/ /\ cppPath' = arg /\ ret' = "OK"
                   /\ UNCHANGED <<optVars, cflags, pcbCflags, pcbAmin, cppArgs, libPath,
                                 conf, coreEnabled, coreHandler>>

(* dt_opt_libdir: malloc and strdup may fail; the directory is appended  *)
(* to dt_lib_path.  There is no dt_pcb check.                             *)
OptLibdir(n, arg) ==
  IF arg = NoArg THEN Fail("BADOPTVAL")
  ELSE \/ Fail("NOMEM")
       \/ /\ libPath' = Append(libPath, arg) /\ ret' = "OK"
          /\ UNCHANGED <<optVars, cflags, pcbCflags, pcbAmin, cppPath, cppArgs,
                        conf, coreEnabled, coreHandler>>

(* dt_opt_core: "if (enabled++ || atexit(dt_coredump) == 0) return 0",    *)
(* else the errno of atexit.                                              *)
OptCore(n, arg) ==
  IF arg # NoArg THEN Fail("BADOPTVAL")
  ELSE /\ coreEnabled' = coreEnabled + 1
       /\ IF coreEnabled # 0 THEN ret' = "OK" /\ UNCHANGED coreHandler
          ELSE \/ coreHandler' = TRUE /\ ret' = "OK"
               \/ AtexitMayFail /\ ret' = "ATEXIT" /\ UNCHANGED coreHandler
       /\ UNCHANGED <<optVars, cflags, pcbCflags, pcbAmin, cppPath, cppArgs,
                      libPath, conf>>

(***************************************************************************)
(* The other compile-time handlers.  Each sets one setting of the handle  *)
(* (or of libdtrace), and most accept any context: only those that change *)
(* what the preprocessor or the linker is given check dt_pcb.             *)
(***************************************************************************)
SetConf(k, v) ==
  /\ conf' = [conf EXCEPT ![k] = v] /\ ret' = "OK"
  /\ UNCHANGED <<optVars, cflags, pcbCflags, pcbAmin, cppPath, cppArgs, libPath,
                 coreEnabled, coreHandler>>

(* dt_opt_agg and dt_opt_dflags: no argument; or the flag into the word. *)
(* Mutant: dt_opt_agg written like dt_opt_cflags, or-ing the flag into   *)
(* dt_cflags instead of dtat_flags.                                       *)
OptAggIntoCflags(n, arg) ==
  IF arg # NoArg THEN Fail("BADOPTVAL")
  ELSE /\ cflags' = cflags \cup {AggFlag[n]} /\ ret' = "OK"
       /\ UNCHANGED <<optVars, pcbCflags, pcbAmin, cppPath, cppArgs, libPath, conf,
                      coreEnabled, coreHandler>>

OptAgg(n, arg) ==
  IF arg # NoArg THEN Fail("BADOPTVAL")
  ELSE SetConf("aggflags", conf.aggflags \cup {AggFlag[n]})

OptDflags(n, arg) ==
  IF arg # NoArg THEN Fail("BADOPTVAL")
  ELSE SetConf("dflags", conf.dflags \cup {DFlag[n]})

(* dt_opt_droptags and dt_opt_lazyload ignore their argument. *)
OptDroptags(n, arg) == SetConf("droptags", TRUE)
OptLazyload(n, arg) == SetConf("lazyload", TRUE)

(* dt_opt_debug: _dtrace_debug = 1; dt_opt_debug_assert: only "mutexes". *)
OptDebug(n, arg) ==
  IF arg # NoArg THEN Fail("BADOPTVAL") ELSE SetConf("debug", TRUE)

OptDebugAssert(n, arg) ==
  IF arg # NoArg /\ arg = "mutexes"
    THEN SetConf("debugassert", conf.debugassert \cup {"MUTEXES"})
    ELSE Fail("BADOPTVAL")

(* dt_opt_ctypes and dt_opt_dtypes: open(arg, O_CREAT|O_WRONLY) may fail  *)
(* with its errno; else the old descriptor is closed and replaced.        *)
OptDefsFile(k, arg) ==
  IF arg = NoArg THEN Fail("BADOPTVAL")
  ELSE Fail("OPEN") \/ SetConf(k, arg)

OptCtypes(n, arg) == OptDefsFile("cdefs", arg)
OptDtypes(n, arg) == OptDefsFile("ddefs", arg)

(* The integer handlers: "arg == NULL || (n = atoi(arg)) <= 0", or < 0.   *)
OptPositive(k, arg) ==
  IF arg = NoArg \/ Atoi(arg) <= 0 THEN Fail("BADOPTVAL") ELSE SetConf(k, Atoi(arg))

OptNonNegative(k, arg) ==
  IF arg = NoArg \/ Atoi(arg) < 0 THEN Fail("BADOPTVAL") ELSE SetConf(k, Atoi(arg))

OptIregs(n, arg)  == OptPositive("iregs", arg)
OptTregs(n, arg)  == OptPositive("tregs", arg)
OptTree(n, arg)   == OptPositive("tree", arg)
OptDisasm(n, arg) == OptNonNegative("disasm", arg)
OptPgmax(n, arg)  == OptNonNegative("pgmax", arg)

(* dt_opt_useruid: n is a uid_t, so atoi's result is taken modulo 2^32    *)
(* (the low 32 bits of its 64-bit two's complement) and the test n < 0 is *)
(* never true.                                                             *)
UidOf(i) == IF i >= 0 THEN W64(i) ELSE Low32(Negate64(W64(-i)))

OptUseruid(n, arg) ==
  IF arg = NoArg THEN Fail("BADOPTVAL") ELSE SetConf("useruid", UidOf(Atoi(arg)))

(* The enumerated handlers: strcmp (strcasecmp for linktype) against the  *)
(* names each accepts.  stdc maps "a", "c" and "t" alike to DT_STDC_XA.   *)
LinkModes  == [kernel |-> "LINK_KERNEL", dynamic |-> "LINK_DYNAMIC", static |-> "LINK_STATIC"]
LinkTypes  == [elf |-> "LTYP_ELF", dof |-> "LTYP_DOF"]
EvalTimes  == [exec |-> "STOP_CREATE", preinit |-> "STOP_PREINIT",
               postinit |-> "STOP_POSTINIT", main |-> "STOP_MAIN"]
XlateModes == [dynamic |-> "XL_DYNAMIC", static |-> "XL_STATIC"]
StdcModes  == [a |-> "STDC_XA", c |-> "STDC_XA", t |-> "STDC_XA", s |-> "STDC_XS"]

OptEnum(k, modes, key) ==
  IF key \in DOMAIN modes THEN SetConf(k, modes[key]) ELSE Fail("BADOPTVAL")

OptLinkmode(n, arg) ==
  IF arg = NoArg THEN Fail("BADOPTVAL") ELSE OptEnum("linkmode", LinkModes, arg)
OptLinktype(n, arg) ==
  IF arg = NoArg THEN Fail("BADOPTVAL") ELSE OptEnum("linktype", LinkTypes, Lower(arg))
OptEvaltime(n, arg) ==
  IF arg = NoArg THEN Fail("BADOPTVAL") ELSE OptEnum("evaltime", EvalTimes, arg)
OptXlate(n, arg) ==
  IF arg = NoArg THEN Fail("BADOPTVAL") ELSE OptEnum("xlate", XlateModes, arg)

OptStdc(n, arg) ==
  CASE arg = NoArg -> Fail("BADOPTVAL")
    [] pcb -> Fail("BADOPTCTX")
    [] OTHER -> OptEnum("stdc", StdcModes, arg)

(* dt_opt_ld_path, dt_opt_ctfa_path, dt_opt_module_path and              *)
(* dt_opt_procfs_path: refused while a compilation is open; strdup may    *)
(* fail; the copy replaces the path.                                       *)
OptToolPath(k, arg) ==
  CASE arg = NoArg -> Fail("BADOPTVAL")
    [] pcb -> Fail("BADOPTCTX")
    [] OTHER -> Fail("NOMEM") \/ SetConf(k, arg)

OptLdPath(n, arg)     == OptToolPath("ldpath", arg)
OptCtfaPath(n, arg)   == OptToolPath("ctfpath", arg)
OptModulePath(n, arg) == OptToolPath("modpath", arg)
OptProcfsPath(n, arg) == OptToolPath("procfspath", arg)

(* dt_opt_syslibdir: the first directory of dt_lib_path, which           *)
(* dtrace_open put there, gets a copy of arg; no dt_pcb check.            *)
OptSyslibdir(n, arg) ==
  IF arg = NoArg THEN Fail("BADOPTVAL")
  ELSE \/ Fail("NOMEM")
       \/ /\ libPath' = [libPath EXCEPT ![1] = arg] /\ ret' = "OK"
          /\ UNCHANGED <<optVars, cflags, pcbCflags, pcbAmin, cppPath, cppArgs,
                         conf, coreEnabled, coreHandler>>

(* dt_opt_sysslice: asprintf(":/%s/") may fail. *)
OptSysslice(n, arg) ==
  IF arg = NoArg THEN Fail("BADOPTVAL")
  ELSE Fail("NOMEM") \/ SetConf("sysslice", ":/" \o arg \o "/")

(* dtrace_str2attr (dt_attr.c, not under src/): three fields separated by *)
(* '/', two stability names and a dependency class.                      *)
Stabilities == {"Internal", "Private", "Obsolete", "External", "Unstable",
                "Evolving", "Stable", "Standard"}
DepClasses  == {"Unknown", "CPU", "Platform", "Group", "ISA", "Common"}

RECURSIVE FieldEnd(_, _)
FieldEnd(s, i) == IF Chr(s, i) \notin {"/", ""} THEN FieldEnd(s, i + 1) ELSE i
Field1(s) == SubSeq(s, 1, FieldEnd(s, 1) - 1)
AfterField(s) == SubSeq(s, FieldEnd(s, 1) + 1, Len(s))
IsAttr(s) ==
  /\ Field1(s) \in Stabilities
  /\ Field1(AfterField(s)) \in Stabilities
  /\ AfterField(AfterField(s)) \in DepClasses

(* dt_opt_amin: the minimum and C_EATTR go to the open pcb, or else to   *)
(* the handle.                                                            *)
OptAmin(n, arg) ==
  IF arg = NoArg \/ ~IsAttr(arg) THEN Fail("BADOPTVAL")
  ELSE /\ IF pcb
            THEN /\ pcbCflags' = pcbCflags \cup {"C_EATTR"} /\ pcbAmin' = arg
                 /\ UNCHANGED <<cflags, conf>>
            ELSE /\ cflags' = cflags \cup {"C_EATTR"} /\ conf' = [conf EXCEPT !.amin = arg]
                 /\ UNCHANGED <<pcbCflags, pcbAmin>>
       /\ ret' = "OK"
       /\ UNCHANGED <<optVars, cppPath, cppArgs, libPath, coreEnabled, coreHandler>>

(* dt_cpp_add_arg(dtp, a) succeeding: a is appended to dt_cpp_argv. *)
AddCppArgs(as) ==
  /\ cppArgs' = cppArgs \o as
  /\ UNCHANGED <<optVars, cflags, pcbCflags, pcbAmin, cppPath, libPath, conf,
                 coreEnabled, coreHandler>>

(* dt_opt_cpp_args: strdup, then one dt_cpp_add_arg per blank-separated  *)
(* word; the k-th may fail, leaving the words before it added.            *)
OptCppArgs(n, arg) ==
  CASE arg = NoArg -> Fail("BADOPTVAL")
    [] pcb -> Fail("BADOPTCTX")
    [] OTHER ->
         \/ Fail("NOMEM")
         \/ \E k \in 0 .. Len(Tokens(arg)) :
              /\ AddCppArgs(SubSeq(Tokens(arg), 1, k))
              /\ ret' = IF k = Len(Tokens(arg)) THEN "OK" ELSE "NOMEM"

(* dt_opt_cpp_hdrs adds "-H"; dt_opt_cpp_opts adds the option and arg. *)
OptCppHdrs(n, arg) ==
  CASE arg # NoArg -> Fail("BADOPTVAL")
    [] pcb -> Fail("BADOPTCTX")
    [] OTHER -> Fail("NOMEM") \/ (AddCppArgs(<< "-H" >>) /\ ret' = "OK")

\* Mutant: define is accepted while a compilation is open.
OptCppOptsAnyCtx(n, arg) ==
  IF arg = NoArg THEN Fail("BADOPTVAL")
  ELSE Fail("NOMEM") \/ (AddCppArgs(<< CppOpt[n] \o arg >>) /\ ret' = "OK")

OptCppOpts(n, arg) ==
  CASE arg = NoArg -> Fail("BADOPTVAL")
    [] pcb -> Fail("BADOPTCTX")
    [] OTHER -> Fail("NOMEM") \/ (AddCppArgs(<< CppOpt[n] \o arg >>) /\ ret' = "OK")

(* dt_version_str2num and dt_version_defined (dt_version.c, not under   *)
(* src/): "major.minor" or "major.minor.micro" in decimal, and a version  *)
(* of the table of D versions, of which these are modelled.               *)
DefinedVersions == {"1.0", "1.1", "2.0"}

IsVersionStr(s) ==
  LET d1 == DigitRun(s, 1, 10)
      d2 == DigitRun(s, d1 + 2, 10)
      d3 == DigitRun(s, d1 + d2 + 3, 10)
  IN /\ d1 > 0 /\ Chr(s, d1 + 1) = "." /\ d2 > 0
     /\ \/ d1 + d2 + 1 = Len(s)
        \/ Chr(s, d1 + d2 + 2) = "." /\ d3 > 0 /\ d1 + d2 + d3 + 2 = Len(s)

(* dt_opt_version: dt_reduce(dtp, v) hides what later versions define. *)
OptVersion(n, arg) ==
  CASE arg = NoArg -> Fail("BADOPTVAL")
    [] ~IsVersionStr(arg) -> Fail("VERSINVAL")
    [] arg \notin DefinedVersions -> Fail("VERSUNDEF")
    [] OTHER -> SetConf("version", arg)

(* dt_opt_preallocate: the size is parsed; the allocation loop, halving   *)
(* until dt_zalloc succeeds, and the free leave no state behind.          *)
OptPreallocate(n, arg) ==
  IF arg = NoArg THEN Fail("BADOPTVAL")
  ELSE \E v \in OptvalParse(arg) :
         IF v.ok THEN Fail("OK") ELSE Fail("BADOPTVAL")

(* dt_opt_pcapsize: dt_opt_size, then DT_PCAP_DEF_PKTSIZE (1514, of      *)
(* dt_pcap.h) unless 0 < val <= 65535, rounded up to a multiple of 8.     *)
PcapDefault == 1514
PcapClamp(w) ==
  IF IsNeg64(w) \/ IsZero(w) \/ ~IsSmall(w) \/ SmallOf(w) > 65535
    THEN PcapDefault ELSE SmallOf(w)
RoundUp8(x) == ((x + 7) \div 8) * 8

OptPcapsize(n, arg) ==
  IF arg = NoArg THEN Store(n, W64(RoundUp8(PcapDefault)))
  ELSE \E v \in OptvalParse(arg) :
         IF v.ok THEN Store(n, W64(RoundUp8(PcapClamp(v.val)))) ELSE Fail("BADOPTVAL")

(* o_func(dtp, val, o_option) of the table entry of name n. *)
Invoke(n, arg) ==
  CASE Handler[n] = "size"         -> OptSize(n, arg)
    [] Handler[n] = "strsize"      -> OptStrsize(n, arg)
    [] Handler[n] = "bufpolicy"    -> OptBufpolicy(n, arg)
    [] Handler[n] = "bufresize"    -> OptBufresize(n, arg)
    [] Handler[n] = "runtime"      -> OptRuntime(n, arg)
    [] Handler[n] = "rate"         -> OptRate(n, arg)
    [] Handler[n] = "pcapsize"     -> OptPcapsize(n, arg)
    [] Handler[n] = "cflags"       -> OptCflags(n, arg)
    [] Handler[n] = "invcflags"    -> OptInvcflags(n, arg)
    [] Handler[n] = "cpp_path"     -> OptCppPath(n, arg)
    [] Handler[n] = "libdir"       -> OptLibdir(n, arg)
    [] Handler[n] = "core"         -> OptCore(n, arg)
    [] Handler[n] = "agg"          -> OptAgg(n, arg)
    [] Handler[n] = "dflags"       -> OptDflags(n, arg)
    [] Handler[n] = "droptags"     -> OptDroptags(n, arg)
    [] Handler[n] = "lazyload"     -> OptLazyload(n, arg)
    [] Handler[n] = "debug"        -> OptDebug(n, arg)
    [] Handler[n] = "debug_assert" -> OptDebugAssert(n, arg)
    [] Handler[n] = "ctypes"       -> OptCtypes(n, arg)
    [] Handler[n] = "dtypes"       -> OptDtypes(n, arg)
    [] Handler[n] = "iregs"        -> OptIregs(n, arg)
    [] Handler[n] = "tregs"        -> OptTregs(n, arg)
    [] Handler[n] = "tree"         -> OptTree(n, arg)
    [] Handler[n] = "disasm"       -> OptDisasm(n, arg)
    [] Handler[n] = "pgmax"        -> OptPgmax(n, arg)
    [] Handler[n] = "useruid"      -> OptUseruid(n, arg)
    [] Handler[n] = "linkmode"     -> OptLinkmode(n, arg)
    [] Handler[n] = "linktype"     -> OptLinktype(n, arg)
    [] Handler[n] = "evaltime"     -> OptEvaltime(n, arg)
    [] Handler[n] = "xlate"        -> OptXlate(n, arg)
    [] Handler[n] = "stdc"         -> OptStdc(n, arg)
    [] Handler[n] = "ld_path"      -> OptLdPath(n, arg)
    [] Handler[n] = "ctfa_path"    -> OptCtfaPath(n, arg)
    [] Handler[n] = "module_path"  -> OptModulePath(n, arg)
    [] Handler[n] = "procfs_path"  -> OptProcfsPath(n, arg)
    [] Handler[n] = "syslibdir"    -> OptSyslibdir(n, arg)
    [] Handler[n] = "sysslice"     -> OptSysslice(n, arg)
    [] Handler[n] = "amin"         -> OptAmin(n, arg)
    [] Handler[n] = "cpp_args"     -> OptCppArgs(n, arg)
    [] Handler[n] = "cpp_hdrs"     -> OptCppHdrs(n, arg)
    [] Handler[n] = "cpp_opts"     -> OptCppOpts(n, arg)
    [] Handler[n] = "version"      -> OptVersion(n, arg)
    [] Handler[n] = "preallocate"  -> OptPreallocate(n, arg)

(* Mutant: run-time options are set while tracing is active. *)
DispatchNoActive(n, arg) ==
  IF n \in DOMAIN Handler THEN Invoke(n, arg) ELSE Fail("BADOPTNAME")

(* dtrace_setopt's search: the compile-time table, then the dynamic       *)
(* run-time table, then the run-time table, where an active session      *)
(* gives EDT_ACTIVE; a name in none of them gives EDT_BADOPTNAME.  The   *)
(* tables share no name, so the order of the search does not matter.     *)
Dispatch(n, arg) ==
  CASE n \in RtNames /\ active -> Fail("ACTIVE")
    [] n \in DOMAIN Handler -> Invoke(n, arg)
    [] OTHER -> Fail("BADOPTNAME")

(* dtrace_getopt of a run-time or dynamic option. *)
GetOpt(n) == options[n]

(***************************************************************************)
(* What spec.md says an argument means (4.1 and 6), as a reference for the *)
(* handlers: a size is decimal digits and an optional k, m, g or t (either *)
(* case) standing for 1024^1 .. 1024^4; a rate is decimal digits and an    *)
(* optional unit, hz inverted to nanoseconds per tick; a boolean/value is  *)
(* a synonym, empty for unset, or a non-negative decimal.  A value that is *)
(* not a non-negative int64 is out of range and refused.  The reference    *)
(* computes exactly, and only then asks whether the value is in range.     *)
(***************************************************************************)
RECURSIVE DecLen(_, _)
DecLen(s, i) == IF Chr(s, i) \in {"0", "1", "2", "3", "4", "5", "6", "7", "8", "9"}
                  THEN 1 + DecLen(s, i + 1) ELSE 0

(* The exact value of the first n digits of s, forced digit by digit. *)
RECURSIVE DecValue(_, _, _)
DecStep(s, n, v) == IF \A i \in DOMAIN v : v[i] \in 0 .. LimbBase - 1 THEN DecValue(s, n - 1, v) ELSE v
DecValue(s, n, acc) ==
  IF n = 0 THEN acc
  ELSE DecStep(s, n, AddExact(MulExact(acc, << 10 >>), << DigitOf(Chr(s, Len(s) - n + 1), 10) >>))

(* The k decimal digits s starts with: their count, value, and the rest. *)
SplitAt(s, k) == [len |-> k, num |-> DecValue(SubSeq(s, 1, k), k, << 0 >>),
                  rest |-> SubSeq(s, k + 1, Len(s))]
Split(s) == SplitAt(s, DecLen(s, 1))

InRange(v) == Fits64(v) /\ ~IsNeg64(Trunc64(v))
Accept(v) == IF InRange(v) THEN [ok |-> TRUE, val |-> Trunc64(v)]
             ELSE [ok |-> FALSE, val |-> W64(0)]
Refuse == [ok |-> FALSE, val |-> W64(0)]

SizeUnits == [u \in {"", "k", "K", "m", "M", "g", "G", "t", "T"} |->
                CASE u = "" -> << 1 >> [] u \in {"k", "K"} -> W64(1024)
                  [] u \in {"m", "M"} -> W64(1048576)
                  [] u \in {"g", "G"} -> W64(1073741824)
                  [] u \in {"t", "T"} -> << 0, 0, 0, 0, 0, 1 >>]

SpecSizeOf(p) ==
  IF p.len > 0 /\ p.rest \in DOMAIN SizeUnits
    THEN Accept(MulExact(p.num, SizeUnits[p.rest])) ELSE Refuse
SpecSize(arg) == SpecSizeOf(Split(arg))

StrsizeOf(v) == IF v.ok /\ ~AboveU32(v.val) THEN v ELSE Refuse
SpecStrsize(arg) == StrsizeOf(SpecSize(arg))

SpecTrue  == {"yes", "enable", "enabled", "true", "on", "set"}
SpecFalse == {"no", "disable", "disabled", "false", "off", "unset"}

SpecRuntimeOf(arg, lower, p) ==
  CASE arg = "" \/ lower \in SpecFalse -> [ok |-> TRUE, val |-> OptUnset]
    [] lower \in SpecTrue -> [ok |-> TRUE, val |-> W64(1)]
    [] p.len > 0 /\ p.rest = "" -> Accept(p.num)
    [] OTHER -> Refuse
SpecRuntime(arg) == SpecRuntimeOf(arg, Lower(arg), Split(arg))

RateUnits == {"", "ns", "nsec", "us", "usec", "ms", "msec", "s", "sec",
              "m", "min", "h", "hour", "d", "day", "hz"}

NsPerUnit(u) ==
  CASE u \in {"", "ns", "nsec"} -> << 1 >>
    [] u \in {"us", "usec"} -> W64(1000) [] u \in {"ms", "msec"} -> W64(1000000)
    [] u \in {"s", "sec"} -> W64(NanoSec)
    [] u \in {"m", "min"} -> MulExact(W64(NanoSec), << 60 >>)
    [] u \in {"h", "hour"} -> MulExact(W64(NanoSec), W64(3600))
    [] u \in {"d", "day"} -> MulExact(W64(NanoSec), W64(86400))

(* Ticks of v per second as nanoseconds per tick; 0 for no ticks. *)
PerTick(v) ==
  IF ~IsZero(v) /\ Fits64(v) /\ IsSmall(Trunc64(v))
    THEN W64(NanoSec \div SmallOf(Trunc64(v))) ELSE << 0 >>

SpecRateOf(p, u) ==
  CASE p.len = 0 \/ u \notin RateUnits -> Refuse
    [] u = "hz" -> Accept(PerTick(p.num))
    [] OTHER -> Accept(MulExact(p.num, NsPerUnit(u)))
SpecRate(arg) == SpecRateOf(Split(arg), Lower(Split(arg).rest))

SpecVerdict(n, arg) ==
  CASE Handler[n] = "size"      -> SpecSize(arg)
    [] Handler[n] = "strsize"   -> SpecStrsize(arg)
    [] Handler[n] = "bufpolicy" -> IF arg \in DOMAIN BufPolicies
                                     THEN [ok |-> TRUE, val |-> BufPolicies[arg]] ELSE Refuse
    [] Handler[n] = "bufresize" -> IF arg \in DOMAIN BufResizes
                                     THEN [ok |-> TRUE, val |-> BufResizes[arg]] ELSE Refuse
    [] Handler[n] = "runtime"   -> SpecRuntime(arg)
    [] Handler[n] = "rate"      -> SpecRate(arg)

(* The options whose arguments the spec gives a meaning: pcapsize is not  *)
(* among them.                                                             *)
SpecNames == Gettable \ {"pcapsize"}

ArgsFor(n) == IF n \in DOMAIN Handler THEN ArgsOf[Handler[n]] ELSE {NoArg}

(* The value getopt must return after the call, by the reference: a set   *)
(* the spec accepts and that returned 0 stores its meaning; a refused set *)
(* changes nothing; NULL, and any argument of pcapsize, have no meaning   *)
(* the spec gives.                                                         *)
ExpectWith(n, arg, v) ==
  CASE n \notin Gettable -> expect
    [] arg = NoArg \/ n \notin SpecNames -> [expect EXCEPT ![n] = Unknown]
    [] ret' = "OK" /\ v.ok -> [expect EXCEPT ![n] = v.val]
    [] OTHER -> expect
ExpectAfter(n, arg) ==
  IF n \in SpecNames /\ arg # NoArg THEN ExpectWith(n, arg, SpecVerdict(n, arg))
  ELSE ExpectWith(n, arg, Refuse)

(* dtrace_setopt(dtp, n, arg) called by the consumer. *)
SetOpt(n, arg) ==
  /\ envLeft = << >> /\ nsets < MaxSets
  /\ Dispatch(n, arg)
  /\ nsets' = nsets + 1
  /\ last' = [name |-> n, arg |-> arg, pcb |-> pcb, active |-> active]
  /\ expect' = ExpectAfter(n, arg)
  /\ UNCHANGED <<pcb, active, env, envLeft, compileSaw>>

(***************************************************************************)
(* One iteration of the loops of dtrace_setoptenv, for option n, in table *)
(* order: dt_opt_getenv_prefix's malloc may fail (EDT_NOMEM, and the      *)
(* option is skipped); getenv(PREFIX + upper(n)) returns NULL, or the     *)
(* value, which goes straight to the handler, with no EDT_ACTIVE check   *)
(* and its result ignored.  Upper-casing is injective on option names, so *)
(* the environment is keyed by the name.                                  *)
(***************************************************************************)
EnvLookup(n) ==
  \/ Fail("NOMEM")
  \/ env[n] = NoEnv /\ UNCHANGED <<optVars, ctVars, ret>>
  \/ env[n] # NoEnv /\ Invoke(n, env[n])

EnvStep ==
  /\ envLeft # << >>
  /\ EnvLookup(Head(envLeft))
  /\ envLeft' = Tail(envLeft)
  /\ expect' = IF env[Head(envLeft)] = NoEnv THEN expect
               ELSE ExpectAfter(Head(envLeft), env[Head(envLeft)])
  /\ UNCHANGED <<pcb, active, nsets, env, last, compileSaw>>

(* The compiler opens a compilation: dt_pcb_push, with pcb_cflags and     *)
(* pcb_amin taken from the handle; and closes it.                         *)
CompileBegin ==
  /\ envLeft = << >> /\ ~pcb
  /\ pcb' = TRUE /\ pcbCflags' = cflags /\ pcbAmin' = conf.amin
  /\ compileSaw' = CompileInputs
  /\ UNCHANGED <<optVars, cflags, cppPath, cppArgs, libPath, conf, coreEnabled,
                 coreHandler, active, ret, nsets, env, envLeft, last, expect>>

CompileEnd ==
  /\ pcb /\ pcb' = FALSE
  /\ UNCHANGED <<optVars, ctVars, active, ret, nsets, env, envLeft, histVars>>

(* dtrace_go() succeeding: dt_active = 1. *)
Go ==
  /\ envLeft = << >> /\ ~active /\ active' = TRUE
  /\ UNCHANGED <<optVars, ctVars, pcb, ret, nsets, env, envLeft, histVars>>

Next ==
  \/ \E n \in Names : \E arg \in ArgsFor(n) : SetOpt(n, arg)
  \/ EnvStep \/ CompileBegin \/ CompileEnd \/ Go

Spec == Init /\ [][Next]_vars

(***************************************************************************)
(* Spec 4.1: a set of a run-time or dynamic option succeeds exactly when   *)
(* the argument means a value in range, except that run-time options are   *)
(* refused with EDT_ACTIVE during tracing and strsize may meet a CTF       *)
(* error.  It is about dtrace_setopt's dispatch and the parsers of         *)
(* dt_opt_size, dt_opt_runtime and dt_opt_rate.                            *)
(***************************************************************************)
OptionSetVerdict ==
  LET n == last.name
      a == last.arg
  IN n \in SpecNames /\ a # NoArg =>
       IF n \in RtNames /\ last.active THEN ret = "ACTIVE"
       ELSE IF SpecVerdict(n, a).ok
              THEN ret \in {"OK"} \cup (IF n = "strsize" THEN {"CTF"} ELSE {})
              ELSE ret # "OK"

(***************************************************************************)
(* Spec section 8, option round trip: after any sequence of sets, of any  *)
(* options, in any context, dtrace_getopt returns for each option the     *)
(* meaning of its last accepted argument.  It is about the slot each       *)
(* handler writes and the value it computes, and about the saved value    *)
(* each failing handler (dt_opt_strsize among them) puts back.            *)
(***************************************************************************)
OptionRoundTrip ==
  \A n \in Gettable : expect[n] # Unknown => GetOpt(n) = expect[n]

(***************************************************************************)
(* Spec 4.1's compile-time phase: options set while a compilation is open *)
(* do not change what that compilation was given.  The cflags and amin    *)
(* handlers write to the open pcb, and the handlers of the preprocessor's *)
(* command line (cpppath, cppargs, cpphdrs, define), of stdc and of the   *)
(* tool paths refuse with EDT_BADOPTCTX; so, from dt_pcb_push to          *)
(* dt_pcb_pop, the handle's flags, attribute minimum, cpp command line,   *)
(* C dialect and paths stay as the compilation saw them, and a flag set   *)
(* for one compilation does not leak into the next.                       *)
(***************************************************************************)
CompileContextIsolated == pcb => CompileInputs = compileSaw
=============================================================================
