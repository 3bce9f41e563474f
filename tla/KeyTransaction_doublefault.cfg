CONSTANTS
  a = a
  b = b
  Identities <- MCIdentities
  Absent = Absent
  Foreign = Foreign
  Unknown = Unknown
  Missing <- MCNothingMissing
  DoubleFault = TRUE
SPECIFICATION Spec
INVARIANT SecondCrashKeepsRollback
