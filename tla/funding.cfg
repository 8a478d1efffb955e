SPECIFICATION ExchangeSpec
CONSTANTS
  b1 = b1
  t1 = t1
  t2 = t2
  m1 = m1
  d1 = d1
  d2 = d2
  w1 = w1
  w2 = w2
  home_win = home_win
  away_win = away_win
  draw = draw
  NoOne = NoOne
  Users <- OneUser
  Active <- OneUser
  Bets = {}
  Matches = {}
  Outcomes = {home_win, away_win, draw}
  Workers = {t1, t2}
  InitFunds <- MCFunds
  StakeInputs = {20}
  MinStake = 1
  MaxStake = 3
  FeeConfig <- MCFees
  InitKickoff <- MCKickoff
  Cutoff = 1
  Horizon = 0
  DDLChecks = FALSE
  MaxCrashes = 0
  Deposits = {d1}
  Withdrawals = {w1, w2}
  Taken = {d2}
  DepositInputs = {0, 20, 25}
  WithdrawalInputs = {0, 4, 15, 50}
SYMMETRY Symmetry
INVARIANTS
  FundingTypeOK
  OnlyApprovedPaid
  CompletedIsCredited
  DeadlockNeedsSharers
  ExchangeConsistent
PROPERTIES
  ShareProtects
CHECK_DEADLOCK FALSE
