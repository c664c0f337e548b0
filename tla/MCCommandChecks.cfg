CONSTANTS
  MantissaBits = 3
  ExponentBits = 2
  Nothing = Nothing
  Plain = Plain
  Broken = Broken
  Malformed = Malformed
  Projects <- AnyProject
  Openings <- SoundLines
  MaxFaults = 1
SPECIFICATION Spec
INVARIANTS
  NumericVerdictsAreRight
  VerdictsFollowFromOutput
  FinalizedLogsAreOwn
