SPECIFICATION AuthFairSpec
CONSTANTS
  a1 = a1
  a2 = a2
  t1 = t1
  t2 = t2
  t3 = t3
  p1 = p1
  p2 = p2
  lower = lower
  Upper = Upper
  NoOne = NoOne
  Workers = {t1, t2, t3}
  Accounts = {a1, a2}
  Spellings = {lower, Upper}
  normalised <- MCNormalised
  Passwords = {p1, p2}
  MAX_ATTEMPTS = 2
  Window = 2
  ResetLifetime = 1
INVARIANTS
  AuthTypeOK
  ThrottleBound
  OneAccountPerEmail
PROPERTIES
  LockoutEnds
CHECK_DEADLOCK FALSE
