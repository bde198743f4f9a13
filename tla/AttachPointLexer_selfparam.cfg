CONSTANTS
  Alphabet <- MC_SelfAlphabet
  MaxLen = 2
  Params <- MC_SelfParams
SPECIFICATION Spec
PROPERTIES LexTerminates
CHECK_DEADLOCK FALSE
