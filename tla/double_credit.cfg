SPECIFICATION ExchangeSpec
CONSTANTS
  b1 = b1
  t1 = t1
  t2 = t2
  m1 = m1
  d1 = d1
  d2 = d2
  w1 = w1
  w2 = w2
  home_win = home_win
  away_win = away_win
  draw = draw
  NoOne = NoOne
  Users <- OneUser
  Active <- OneUser
  Bets = {}
  Matches = {}
  Outcomes = {home_win, away_win, draw}
  Workers = {t1, t2}
  InitFunds <- MCFunds
  StakeInputs = {20}
  MinStake = 1
  MaxStake = 3
  FeeConfig <- MCFees
  InitKickoff <- MCKickoff
  Cutoff = 1
  Horizon = 0
  DDLChecks = FALSE
  MaxCrashes = 0
  Deposits = {d1}
  Withdrawals = {w1}
  Taken = {}
  DepositInputs = {20}
  WithdrawalInputs = {20}
INVARIANTS
  CreditedOnce
CHECK_DEADLOCK FALSE
