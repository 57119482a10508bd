SPECIFICATION FairSpec
CONSTANTS
  Link <- MCLink
  Configs <- MCConfigs
  MaxSeeds = 2
  WorkCount = 2
INVARIANTS TypeOK RulesClosed WorkersLast FieldsMatch
PROPERTY WalkEnds
\* The walk ends.
CHECK_DEADLOCK FALSE
