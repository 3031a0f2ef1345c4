SPECIFICATION Spec
CONSTANTS
  Configs <- SmallConfigs
  CommandLines <- SmallLines
INVARIANTS PlacementSound LoadsShaped CarvingExact RejectsOnlyInfeasible FlagsBind IgnoredCapsIgnored
CHECK_DEADLOCK FALSE
