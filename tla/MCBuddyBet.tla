----------------------------- MODULE MCBuddyBet -----------------------------
(* Small instances of BuddyBet for TLC. *)
EXTENDS Atomicity, TLC

CONSTANTS b1, b2, t1, t2, t3, m1, home_win, away_win, draw

MCUsers == 1..2

(* Balances in cents, stakes asked for in mills: 15 is a cent and a half,  *)
(* stored as 2.  Both users can fund two such bets, so settlements of two  *)
(* bets between them can meet; with MCScarce user 2 can fund a stake of 10 *)
(* only.                                                                   *)
MCFunds == [u \in MCUsers |-> 4]
MCScarce == [u \in MCUsers |-> IF u = 1 THEN 4 ELSE 1]

MCKickoff == [m \in Matches |-> 2]

(* 25% of a pool of 4 is 1; 25% of a stake of 2 is a half that rounds up;  *)
(* the winner rate doubles when the clock reaches 2.                       *)
MCFees ==
  {[fee_type |-> "WINNER_FEE", rate |-> 2500, effective_from |-> 0],
   [fee_type |-> "NO_WINNER_FEE", rate |-> 2500, effective_from |-> 0],
   [fee_type |-> "WINNER_FEE", rate |-> 5000, effective_from |-> 2]}

Symmetry == Permutations(Bets) \cup Permutations(Workers) \cup Permutations(Outcomes)
=============================================================================
