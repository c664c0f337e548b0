CONSTANTS
  Absent = Absent
  NoCandidate = NoCandidate
  Requests <- Invocations
  Inputs <- ToolInputs
  Pids = {1, 2}
  Decode <- AllBytes
  SizeLimit = 1
  ItemLimit = 3
  EvidenceName <- Names
  MaxReplacements = 1
  MaxFaults = 1
  MaxKills = 1
SPECIFICATION Spec
INVARIANTS
  ExportIsWhole
  NothingLeftBehind
  WorkRootIsOwn
  SealedIsJustified
  ImportIsHonest
PROPERTIES
  OutputIsItsMakers
