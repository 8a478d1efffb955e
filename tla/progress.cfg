SPECIFICATION FairSpec
CONSTANTS
  b1 = b1
  b2 = b2
  t1 = t1
  t2 = t2
  t3 = t3
  m1 = m1
  home_win = home_win
  away_win = away_win
  draw = draw
  NoOne = NoOne
  Users <- MCUsers
  Active <- MCUsers
  Bets = {b1}
  Matches = {m1}
  Outcomes = {home_win, away_win}
  Workers = {t1, t2}
  InitFunds <- MCFunds
  StakeInputs = {0, 20, 50}
  MinStake = 1
  MaxStake = 3
  FeeConfig <- MCFees
  InitKickoff <- MCKickoff
  Cutoff = 1
  Horizon = 2
  DDLChecks = FALSE
  MaxCrashes = 1
PROPERTIES
  RequestsEnd
  PendingResolves
CHECK_DEADLOCK FALSE
