CONSTANTS
  VariantFields <- Fields
  NoVariant = ""
  Built <- AllBuilt
  Configs <- AllConfigs
  ProjectName = "app"
  Tools <- AllTools
  MaxFaults = 1
SPECIFICATION Spec
INVARIANTS RemovedIsBundled ReplacedStayOut EachBinaryArchivedOnce VariantsApart CataloguedOnce
PROPERTIES NothingOverwritten
