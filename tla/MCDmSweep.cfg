SPECIFICATION Spec
CONSTANTS
  Campaign = {c1, c2}
  Limit = 1
  ScanFactor = 1
  Period = 1
  BackoffCap = 2
  Lease = 2
  Troubled = {c1}
  Archivable = {c1}
  Laggable = {c1}
  Forever = {}
  MaxInputs = 3
  MaxRetries = 2
INVARIANT TypeOK
PROPERTIES StrandedServed ServedOnceAwake
