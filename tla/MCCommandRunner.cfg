CONSTANTS
  leader = leader
  helper = helper
  Proc = {leader, helper}
  Leader = leader
  Limit = 1
  PipeSize = 2
  MaxBytes = 2
  MaxFaults = 1
SPECIFICATION FairSpec
INVARIANTS
  TypeOK
  RecordMeansGroupIsDead
  RecordIsComplete
  ExitStatusIsTheChilds
PROPERTIES
  ExecuteReturns
  FullPipeIsDrained
