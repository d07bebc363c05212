SPECIFICATION Spec
CONSTANTS
  Decisions = {d1, d2}
  Signals = {s1, s2, s3}
  Keys = {k1}
  Nobody = Nobody
  MaxFaults = 1
INVARIANTS
  TypeOK
  AuditsAgree
  LateRetryRecordsNothing
PROPERTIES
  SignalsAtMostOnce
SYMMETRY AllRequests
CHECK_DEADLOCK FALSE
