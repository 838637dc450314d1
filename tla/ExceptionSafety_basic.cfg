SPECIFICATION SafetySpec
CONSTANTS
  Nodes = {1,2,3,4,5,6,7,8,9,10,11,12,13,14,15,16,17,18,19,20}
  Sizes = {1}
  Labels = {0}
  Never = 999
  MaxCount = 99
  MaxScopes = 2
  Kinds = {"list"}
  Populations = {2}
  Faults = {"none"}
INVARIANTS BasicForcesAll
CHECK_DEADLOCK FALSE
