SPECIFICATION IngestSpec
CONSTANTS
  b1 = b1
  t1 = t1
  t2 = t2
  m1 = m1
  m2 = m2
  home_win = home_win
  away_win = away_win
  draw = draw
  NoOne = NoOne
  Users <- MCUsers
  Active <- MCUsers
  Bets = {b1}
  Matches = {m1, m2}
  Outcomes = {home_win, draw}
  Workers = {t1, t2}
  InitFunds <- MCFunds
  StakeInputs = {15}
  MinStake = 1
  MaxStake = 3
  FeeConfig <- MCFees
  InitKickoff <- MCKickoff
  Cutoff = 0
  Horizon = 1
  DDLChecks = FALSE
  MaxCrashes = 0
  SportsProvider = "api_football"
  Reports <- MCReports
  SyncEnabled = TRUE
  Seeded = {m1}
  MaxSyncs = 2
SYMMETRY Symmetry
INVARIANTS
  IngestTypeOK
  MoneyTraced
  FullTimeResult
  IngestConsistent
PROPERTIES
  ConfirmationKept
  OnlyStaleSyncsRegress
CHECK_DEADLOCK FALSE
