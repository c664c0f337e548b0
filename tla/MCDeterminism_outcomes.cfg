CONSTANTS
  h1 = h1
  h2 = h2
  h3 = h3
  EmptyHead = EmptyHead
  Unparseable = Unparseable
  NotYet = NotYet
  Captured <- Heads
  Observations <- Parsed
  Configurations <- AnyConfiguration
  MaxFaults = 1
SPECIFICATION Spec
INVARIANTS
  VerifiedIsEarned
  EvidenceSupportsOutcome
