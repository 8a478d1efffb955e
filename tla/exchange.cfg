SPECIFICATION ExchangeSpec
CONSTANTS
  b1 = b1
  t1 = t1
  t2 = t2
  m1 = m1
  d1 = d1
  d2 = d2
  w1 = w1
  w2 = w2
  home_win = home_win
  away_win = away_win
  draw = draw
  NoOne = NoOne
  Users <- TwoUsers
  Active <- TwoUsers
  Bets = {b1}
  Matches = {m1}
  Outcomes = {home_win, away_win}
  Workers = {t1, t2}
  InitFunds <- MCFunds
  StakeInputs = {20, 25}
  MinStake = 1
  MaxStake = 3
  FeeConfig <- MCFees
  InitKickoff <- MCKickoff
  Cutoff = 1
  Horizon = 1
  DDLChecks = TRUE
  MaxCrashes = 0
  Deposits = {}
  Withdrawals = {w1}
  Taken = {}
  DepositInputs = {}
  WithdrawalInputs = {0, 4, 25}
SYMMETRY Symmetry
PROPERTIES
  OnlyStaleHoldsDiverge
CHECK_DEADLOCK FALSE
