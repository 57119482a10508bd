SPECIFICATION Spec
CONSTANTS
  Link <- MCLink
  Configs <- MCNamed
  MaxSeeds = 2
  WorkCount = 2
INVARIANT SeedsGetTheirTask
\* The walk ends.
CHECK_DEADLOCK FALSE
