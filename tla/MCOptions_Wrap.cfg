\* dt_optval_parse on a size whose product with 1024^4 passes 2^64.
CONSTANTS
  NoArg = NoArg
  ArgsOf <- WrapArgsOf
  EnvOf <- MCEnvOf
  AtexitMayFail = FALSE
  MaxSets = 2
SPECIFICATION Spec
INVARIANT OptionSetVerdict
