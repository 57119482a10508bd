SPECIFICATION Spec
CONSTANTS
  Link <- MCLink
  Configs <- MCConfigs
  MaxSeeds = 2
  WorkCount = 2
PROPERTY CellsSaved
\* The walk ends.
CHECK_DEADLOCK FALSE
