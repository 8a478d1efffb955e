----------------------------- MODULE Atomicity ------------------------------
(***************************************************************************)
(* The betting core implements Escrow: read from the committed rows, every *)
(* step of every request is one operation of the escrow, or nothing.       *)
(***************************************************************************)
EXTENDS Consistency

Abs == INSTANCE Escrow WITH
  available <- Available,
  locked    <- Locked,
  house     <- platform,
  phase     <- [b \in Bets |-> bet[b].status],
  creator   <- [b \in Bets |-> bet[b].creator_id],
  opponent  <- [b \in Bets |-> bet[b].opponent_id],
  asked     <- [b \in Bets |-> bet[b].asked_stake],
  stake     <- [b \in Bets |-> bet[b].stake_amount]

(* Requests that lock, wait, read stale rows, fail half-way and are rolled *)
(* back still look as if each took effect in one instant, when it commits: *)
(* bet and balances change together, from the balances of that moment, and *)
(* a settlement, a void or an acceptance never starts from a bet that some *)
(* other request has moved on meanwhile.                                   *)
ImplementsEscrow == Abs!Spec
=============================================================================
