SPECIFICATION IngestSpec
CONSTANTS
  b1 = b1
  t1 = t1
  t2 = t2
  m1 = m1
  m2 = m2
  home_win = home_win
  away_win = away_win
  draw = draw
  NoOne = NoOne
  Users <- MCUsers
  Active <- MCUsers
  Bets = {b1}
  Matches = {m1}
  Outcomes = {home_win, away_win, draw}
  Workers = {t1, t2}
  InitFunds <- MCFunds
  StakeInputs = {20}
  MinStake = 1
  MaxStake = 3
  FeeConfig <- MCFees
  InitKickoff <- MCLater
  Cutoff = 0
  Horizon = 1
  DDLChecks = TRUE
  MaxCrashes = 0
  SportsProvider = "football_data_org"
  Reports <- MCMoved
  SyncEnabled = TRUE
  Seeded = {m1}
  MaxSyncs = 1
PROPERTIES
  AcceptedBeforeKickoff
CHECK_DEADLOCK FALSE
