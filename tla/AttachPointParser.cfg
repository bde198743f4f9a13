CONSTANTS
  Alphabet <- MC_Alphabet
  MaxLen = 4
  Params <- MC_Params
  ProbeList <- MC_ProbeList
  HasFentry = TRUE
  WildcardMatch <- MC_WildcardMatch
  Demangle <- MC_Demangle
  HasParam <- MC_HasParam
  PartVariant <- MC_PartVariant
  FuncModules <- MC_FuncModules
  Libs = {"libc"}
  PidExe = "/proc/1/exe"
  WatchpointBinary = ""
  APs <- MC_APs
  MaxAPs = 2
  IdxBits = 5
SPECIFICATION Spec
INVARIANTS TypeOK LexCorrect ParseCorrect
CHECK_DEADLOCK FALSE
