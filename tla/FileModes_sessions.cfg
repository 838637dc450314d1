SPECIFICATION Spec
CONSTANTS
  Libraries <- TwoFaults
  NoFile = NoFile
  MaxSessions = 2
INVARIANTS
  CallsStartClean
  NoFalseAlarm
  FaultsAreNoticed
