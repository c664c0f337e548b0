CONSTANTS
  e1 = e1
  e2 = e2
  l1 = l1
  b1 = b1
  b2 = b2
  k1 = k1
  c1 = c1
  Absent = Absent
  EvidenceIds = {e1}
  Attachments = {l1}
  Payloads = {b1}
  CheckIds = {k1}
  ClaimIds = {c1}
  SettableStates = {"aborted"}
  IsReplay = FALSE
  Plans <- OnePlan
  ClaimSets <- OneClaimSet
  Executions <- OneExecution
  Records <- LogRecord
  Rewrites = {}
  Strayable = {}
  ReadBefore <- InListingOrder
  MaxFinalize = 1
  MaxStrays = 0
  MaxFaults = 0
  MaxCrashes = 1
SPECIFICATION Spec
INVARIANTS
  NeverLooksFinal
