CONSTANTS
  d = d
  e = e
  m = m
  c1 = c1
  c2 = c2
  Documents <- MCDocuments
  Default = d
  Legacy = Legacy
  Migrated = m
  Corrupt <- MCCorrupt
  Invalid = Invalid
  Nothing = Nothing
  Intruders <- MCIntruders
SPECIFICATION Spec

PROPERTIES MissingIsFreshOnlyAtStart
