CONSTANTS
  Absent = Absent
  Broken = Broken
  CustomChecks <- OneCustom
  NumericChecks <- OneNumeric
  OtherSlugs <- Snapshot
  Manifests <- AnyProject
  CliProfiles <- AnyProfile
  IsCargo = TRUE
  Repository = "root"
  Trees <- TwoTrees
  DirtyTrees <- SecondTree
  DossierIgnored = TRUE
  IdBefore <- IdOrder
  GitFails = FALSE
  LostReads = FALSE
  MaxRuns = 2
  MaxEdits = 1
  MaxFaults = 1
  MaxKills = 1
SPECIFICATION Spec
CONSTRAINT
  SecondIsSmall
INVARIANTS
  PassIsEarned
  SealedIsComplete
  DossierSupportsVerdict
PROPERTIES
  OtherRunsStay
CHECK_DEADLOCK FALSE
