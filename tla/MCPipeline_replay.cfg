CONSTANTS
  Absent = Absent
  Broken = Broken
  CustomChecks <- OneCustom
  NumericChecks <- NoChecks
  OtherSlugs <- NoSlugs
  Manifests <- TwoLibraries
  CliProfiles <- AnyProfile
  IsCargo = FALSE
  Repository = "root"
  Trees <- OneTree
  DirtyTrees <- NoTree
  DossierIgnored = TRUE
  IdBefore <- IdOrder
  GitFails = FALSE
  LostReads = FALSE
  MaxRuns = 2
  MaxEdits = 1
  MaxFaults = 0
  MaxKills = 0
SPECIFICATION Spec
INVARIANTS
  ReplayIsFaithful
CHECK_DEADLOCK FALSE
