CONSTANTS
  a = a
  b = b
  Identities <- MCIdentities
  Absent = Absent
  Foreign = Foreign
  Unknown = Unknown
  Missing <- MCHostMissing
  DoubleFault = FALSE
SYMMETRY MCSymmetry
SPECIFICATION Spec
INVARIANTS JournalRecoverable IdentityIsDurable
PROPERTIES ForeignBytesKept KeepsPromises
