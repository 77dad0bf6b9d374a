CONSTANTS
  gpg = gpg
  cosign = cosign
  none = none
  Configs <- ThreeConfigs
  Nones <- JustNone
  Files <- OneFile
  Split = FALSE
  Limit = 2
SPECIFICATION Spec
INVARIANTS SignaturesVerify
CHECK_DEADLOCK FALSE
