CONSTANTS
  ProbeList <- MC_ProbeList
  HasFentry = TRUE
  WildcardMatch <- MC_WildcardMatch
  Demangle <- MC_Demangle
  HasParam <- MC_HasParam
  PartVariant <- MC_PartVariant
  FuncModules <- MC_FuncModules
  Libs = {"libc"}
  PidExe = "/proc/1/exe"
  WatchpointBinary = ""
  APs <- MC_AritySpread
  MaxAPs = 2
  IdxBits = 5
SPECIFICATION Spec
INVARIANT ExpandedArityNotFatal
CHECK_DEADLOCK FALSE
