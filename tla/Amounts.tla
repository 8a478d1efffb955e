------------------------------ MODULE Amounts -------------------------------
(***************************************************************************)
(* The money arithmetic of the wallets and of settlement (decimal_utils.py *)
(* and the pure helpers of SettlementService).  Stored amounts are         *)
(* DECIMAL(15,2): whole cents.  Amounts clients ask for have any number of *)
(* decimals and are counted in mills, tenths of a cent: the code tells     *)
(* apart whether they are whole cents, and otherwise on which side of half *)
(* a cent the rest is.  Fee rates are DECIMAL(5,4) values, held as         *)
(* ten-thousandths: 0.1000 is 1000.                                        *)
(***************************************************************************)
EXTENDS Naturals

RateUnit == 10000

(* |n - m| *)
Distance(n, m) == IF n >= m THEN n - m ELSE m - n

(* Quantising the exact quotient n / d to a whole number, halves upwards. *)
round_half_up(n, d) == (2 * n + d) \div (2 * d)

(* A tenth of a cent is the unit of the amounts clients ask for. *)
Mills(cents) == 10 * cents

(* What a DECIMAL(15,2) column stores of an amount: PostgreSQL, too, rounds *)
(* halves up.                                                              *)
Stored(amount) == round_half_up(amount, 10)

(* Formatting an amount with two decimals (.2f) rounds halves to even. *)
Formatted(amount) ==
  IF amount % 20 = 5 THEN amount \div 10 ELSE Stored(amount)

(* A balance plus or minus an amount as asked, rounded to the cent. *)
safe_add(balance, amount)      == Stored(Mills(balance) + amount)
safe_subtract(balance, amount) == Stored(Mills(balance) - amount)

(* The half cent of an amount that has one counts as a cent where it is    *)
(* added and as nothing where it is subtracted.                            *)
HalfCent(amount) == IF amount % 10 = 5 THEN 1 ELSE 0

safe_multiply(value, rate) == round_half_up(value * rate, RateUnit)

(* The platform takes the rounded fee out of the pool, the winner the rest. *)
compute_winner_amounts(stake, rate) ==
  LET fee == safe_multiply(stake + stake, rate)
  IN  [payout |-> stake + stake - fee, fee |-> fee]

(* Fault: the refund is rounded on its own instead of taken as the rest. *)
refund_rounded_apart(stake, rate) ==
  [refund |-> safe_multiply(stake, RateUnit - rate), fee |-> safe_multiply(stake, rate)]

(* Each user pays a rounded fee out of the own stake and gets the rest back. *)
compute_no_winner_amounts(stake, rate) ==
  LET fee == safe_multiply(stake, rate)
  IN  [refund |-> stake - fee, fee |-> fee]

(* Which way a bet settles, from the match outcome and both predictions. *)
determine_path(outcome, creatorPrediction, opponentPrediction) ==
  CASE creatorPrediction = outcome  -> "creator_wins"
    [] creatorPrediction # outcome /\ opponentPrediction = outcome -> "opponent_wins"
    [] OTHER -> "no_winner"
=============================================================================
