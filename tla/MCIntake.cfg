CONSTANTS
  b = b
  s1 = s1
  s2 = s2
  Block <- MCBlock
  Unverified <- MCUnverified
  max_verification_batch = 1
CHECK_DEADLOCK FALSE
SPECIFICATION IntakeSpec
INVARIANTS
  FlushComplete
PROPERTIES
  FlushAndStopEnd
