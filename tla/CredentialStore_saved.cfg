CONSTANTS
  Cookies = {k1, k2}
  Accounts = {n1}
  None = None
SPECIFICATION Spec
INVARIANTS SavedCookieSurvives
