CONSTANTS
  Asgn = {1}
  Client = {c1, c2}
  Nobody = nobody
  plain = plain
  denied = denied
  dir = dir
  File = {plain, denied, dir}
  Denied = {denied}
  Directory = {dir}
  Absent = absent
  Request <- Requests
  Mixed <- MixedParts
  MAXLENGTH = 5
  BUF_SIZE = 2
  INT_MAX = 3
  LONG_MAX = 31
  MaxRestarts = 0
SPECIFICATION Spec
INVARIANT ProperResponse
CHECK_DEADLOCK FALSE
