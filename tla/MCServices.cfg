CONSTANTS
  Cookies = {k1, k2}
  Accounts = {n1}
  None = None
  Documents = {default, edited, migrated}
  Default = default
  Legacy = legacy
  Migrated = migrated
  Corrupt = {cut, torn}
  Invalid = invalid
  Nothing = nothing
  Intruders = {edited, cut, torn, legacy, invalid, nothing}
  Profiles = {p, q}
  MaxSessions = 2
  MaxIds = 4
  MaxEpoch = 1
  MaxCookie = 2
  Aliases = {"a", "b"}
  Versions = {1}
  Settings = {"a", "b"}
  PortalCookies = {1, 2}
  MaxScope = 2
  MaxAuth = 1
  MaxRuns = 2
SPECIFICATION ServicesSpec
INVARIANTS RevokedForGood ProbesKeepOn
PROPERTIES DocumentIsSafe ImplementsRootStore HistoryHolds
PROPERTIES ConfigReplacedAsShown DiagnosisHolds
CHECK_DEADLOCK FALSE
