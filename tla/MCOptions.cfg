\* Option registry: every modelled handler family, two calls of dtrace_setopt
\* interleaved with compilations and dtrace_go.
CONSTANTS
  NoArg = NoArg
  ArgsOf <- MCArgsOf
  EnvOf <- MCEnvOf
  AtexitMayFail = TRUE
  MaxSets = 2
SPECIFICATION Spec
INVARIANT TypeOK
INVARIANT OptionSetVerdict
INVARIANT OptionRoundTrip
INVARIANT CompileContextIsolated
