SPECIFICATION Spec
CONSTANTS
  Libraries <- OneFault
  NoFile = NoFile
  MaxSessions = 1
INVARIANT TruncateIsNoticed
CHECK_DEADLOCK FALSE
