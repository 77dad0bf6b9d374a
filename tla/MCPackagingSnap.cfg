CONSTANTS
  VariantFields <- Fields
  NoVariant = ""
  Built <- AllBuilt
  Configs <- Snaps
  ProjectName = "app"
  Tools <- AllTools
  MaxFaults = 0
SPECIFICATION Spec
INVARIANT EveryArchSnapped
