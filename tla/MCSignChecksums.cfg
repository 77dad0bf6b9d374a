CONSTANTS
  gpg = gpg
  cosign = cosign
  none = none
  Configs <- ThreeConfigs
  Nones <- JustNone
  Files <- OneFile
  Split = FALSE
  Limit = 2
SPECIFICATION FairSpec
INVARIANTS FilesWhole
PROPERTY Ends
CHECK_DEADLOCK FALSE
