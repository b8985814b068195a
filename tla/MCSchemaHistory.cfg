CONSTANTS
  Started = {"base", "0001", "0058", "0119"}
  Targets = {"base", "0046", "0073"}
  Oddities <- MCOddities
  OldRights <- MCOldRights
  MaxDowngrades = 1
  MaxKilled = 1
SPECIFICATION Spec
INVARIANTS TypeOK ScriptsApply ShapeFollowsRevision RightsKept
PROPERTIES Recovers
