CONSTANTS
  MaxTag = 3
  CallTags = {1, 2}
  MaxPort = 5
  MaxMappings = 3
  Files <- MCFiles
SPECIFICATION Spec
INVARIANTS OthersKept Placed Paired
PROPERTY IsRuleTable
