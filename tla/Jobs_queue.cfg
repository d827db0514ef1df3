SPECIFICATION Spec
CONSTANTS
  Mails = {m1}
  NoKey = NoKey
  MaxAttempts = 2
  FaultKinds <- AllFaults
  MaxBucket = 1
  MaxInserts = 2
  MaxFaults = 2
INVARIANTS
  TypeOK
  EffectsBounded
  SettledHonestly
  OncePerInterval
PROPERTIES
  EventuallySettled
