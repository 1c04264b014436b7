CONSTANTS
  Byte = {"d", "n", "x"}
  DELIM = "d"
  NEWLINE = "n"
  Arguments <- CommandLines
  Input <- Inputs
  BUFFSIZE = 2
  MayFail = {"read", "write", "short", "close"}
SPECIFICATION FairSpec
INVARIANTS
  TypeOK
  OthersAreWhole
  ExitTellsFailure
PROPERTY Terminates
