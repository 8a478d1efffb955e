----------------------------- MODULE MCExchange -----------------------------
(* Small instances of Exchange for TLC. *)
EXTENDS FundingConsistency, TLC

CONSTANTS b1, t1, t2, m1, d1, d2, w1, w2, home_win, away_win, draw

OneUser  == {1}
TwoUsers == {1, 2}

(* Enough for one bet or one withdrawal of 2 cents or more, not for both. *)
MCFunds == [u \in Users |-> 3]

MCKickoff == [m \in Matches |-> 2]

MCFees ==
  {[fee_type |-> "WINNER_FEE", rate |-> 2500, effective_from |-> 0],
   [fee_type |-> "NO_WINNER_FEE", rate |-> 2500, effective_from |-> 0]}

Symmetry == Permutations(Deposits) \cup Permutations(Withdrawals)
              \cup Permutations(Workers) \cup Permutations(Outcomes)
=============================================================================
