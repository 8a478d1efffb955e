---------------------------- MODULE Consistency -----------------------------
(***************************************************************************)
(* What every request in flight may rely on: the inductive invariant of    *)
(* the betting core.  A request works on rows it has locked and on facts   *)
(* it read before; these definitions say, for every place a request can be *)
(* at, which of those facts still hold when it takes its next step.        *)
(***************************************************************************)
EXTENDS BuddyBet

(* The types of the rows, the locks and the requests, whatever other       *)
(* services run beside the betting ones: their requests have labels of     *)
(* their own.                                                              *)
Typed ==
  /\ now \in Nat /\ crashes \in Nat /\ platform \in Nat
  /\ match \in [Matches -> Match]
  /\ bet \in [Bets -> Bet]
  /\ wallet \in [Users -> Wallet]
  /\ ledger \in [Bets -> [Users -> [EntryTypes -> Nat]]]
  /\ events \in [Bets -> [EventTypes -> Nat]]
  /\ betLock \in [Bets -> Null(Workers)]
  /\ walletLock \in [Users -> Null(Workers)]
  /\ matchLock \in [Matches -> Null(Workers)]
  /\ platformLock \in Null(Workers)
  /\ pc = [t \in Workers |-> pc[t]]
  /\ req \in [Workers -> Request]
  /\ snap \in [Workers -> [Users -> Wallet]]
  /\ psnap \in [Workers -> Nat]

(* A row a betting request locked for update has its committed content in  *)
(* the session that locked it, so writing back absolute values loses no    *)
(* other write.                                                            *)
SessionsFresh ==
  /\ \A u \in Users : walletLock[u] # NoOne /\ pc[walletLock[u]] \in PCs =>
       snap[walletLock[u]][u] = wallet[u]
  /\ platformLock # NoOne => psnap[platformLock] = platform

(* A bet row is complete for its status, and the parties differ. *)
RowOK(b) ==
  /\ bet[b].status = "none" => bet[b] = NoBet
  /\ bet[b].status # "none" =>
       bet[b].creator_id \in Users /\ bet[b].match_id \in Matches
         /\ bet[b].creator_prediction \in Outcomes
  /\ bet[b].status = "OPEN" => bet[b].opponent_id = NoOne
  /\ bet[b].status \in {"MATCHED", "PENDING_SETTLEMENT", "SETTLED"} =>
       bet[b].opponent_id # NoOne
  /\ bet[b].opponent_id # NoOne =>
       /\ bet[b].opponent_id # bet[b].creator_id
       /\ bet[b].opponent_prediction \in Outcomes
       /\ bet[b].opponent_prediction # bet[b].creator_prediction
  /\ bet[b].status \in {"OPEN", "MATCHED", "PENDING_SETTLEMENT"} => bet[b].platform_fee = 0
  /\ bet[b].status \in {"PENDING_SETTLEMENT", "SETTLED"} => match[bet[b].match_id].confirmed

(* The result of a match is set exactly when it is confirmed. *)
MatchOK(m) == match[m].confirmed <=> match[m].outcome # NoOne

(* Worker t holds the lock of u's wallet, which covers what t takes of it. *)
CanPay(t, u)     == walletLock[u] = t /\ Mills(snap[t][u].available) >= req[t].asked
CanRelease(t, u) == walletLock[u] = t /\ snap[t][u].locked >= req[t].stake

CreateOK(t) ==
  /\ req[t].user \in Users /\ req[t].bet \in Bets
  /\ req[t].match \in Matches /\ req[t].outcome \in Outcomes
  /\ bet[req[t].bet].status = "none"
  /\ req[t].stake = Stored(req[t].asked)
  /\ pc[t] = "create_commit" => CanPay(t, req[t].user)

AcceptOK(t) ==
  /\ req[t].user \in Users /\ req[t].bet \in Bets /\ req[t].outcome \in Outcomes
  /\ betLock[req[t].bet] = t
  /\ bet[req[t].bet].status = "OPEN"
  /\ req[t].user # bet[req[t].bet].creator_id
  /\ req[t].outcome # bet[req[t].bet].creator_prediction
  /\ req[t].stake = bet[req[t].bet].stake_amount
  /\ req[t].asked = Mills(req[t].stake)
  /\ pc[t] = "accept_commit" => CanPay(t, req[t].user)

CancelOK(t) ==
  /\ req[t].user \in Users /\ req[t].bet \in Bets
  /\ bet[req[t].bet].status # "none"
  /\ req[t].user = bet[req[t].bet].creator_id
  /\ req[t].stake = bet[req[t].bet].stake_amount
  /\ pc[t] = "cancel_bet" => CanRelease(t, req[t].user)

VoidOK(t) ==
  /\ req[t].bet \in Bets
  /\ betLock[req[t].bet] = t
  /\ bet[req[t].bet].status \in {"OPEN", "MATCHED"}
  /\ req[t].stake = bet[req[t].bet].stake_amount
  /\ pc[t] = "void_opponent" =>
       bet[req[t].bet].status = "MATCHED" /\ CanRelease(t, bet[req[t].bet].creator_id)
  /\ pc[t] = "void_commit" => \A u \in Refunded(req[t].bet) : CanRelease(t, u)

ConfirmOK(t) ==
  /\ req[t].match \in Matches /\ req[t].outcome \in Outcomes
  /\ matchLock[req[t].match] = t
  /\ ~match[req[t].match].confirmed
  /\ \A b \in req[t].todo : bet[b].status # "none" /\ bet[b].match_id = req[t].match
  /\ \A b \in req[t].cached :
       betLock[b] = t /\ bet[b].status = "MATCHED" /\ bet[b].match_id = req[t].match

SettleOK(t) ==
  /\ req[t].bet \in Bets /\ req[t].outcome \in Outcomes
  /\ betLock[req[t].bet] = t
  /\ bet[req[t].bet].status # "none"
  /\ bet[req[t].bet].opponent_id # NoOne
  /\ req[t].stake = bet[req[t].bet].stake_amount
  /\ req[t].winner_fee_rate \in 1..(RateUnit - 1)
  /\ req[t].no_winner_fee_rate \in 1..(RateUnit - 1)
  /\ pc[t] # "settle_wallet1" => walletLock[LockOrder(req[t].bet)[1]] = t
  /\ pc[t] \in {"settle_check", "settle_commit"} => walletLock[LockOrder(req[t].bet)[2]] = t
  /\ pc[t] = "settle_commit" => Covered(t) /\ platformLock = t

RequestOK(t) ==
  /\ pc[t] \in {"create_wallet", "create_commit"} => CreateOK(t)
  /\ pc[t] \in {"accept_wallet", "accept_commit"} => AcceptOK(t)
  /\ pc[t] \in {"cancel_wallet", "cancel_bet"} => CancelOK(t)
  /\ pc[t] \in {"void_creator", "void_opponent", "void_commit"} => VoidOK(t)
  /\ pc[t] \in {"confirm_scan", "confirm_rows"} => ConfirmOK(t)
  /\ pc[t] \in SettlePCs \ {"settle_next"} => SettleOK(t)

(* Two requests never create the same bet. *)
IdsDistinct ==
  \A t, o \in Workers :
    /\ t # o
    /\ pc[t] \in {"create_wallet", "create_commit"}
    /\ pc[o] \in {"create_wallet", "create_commit"}
    => req[t].bet # req[o].bet

(* The inductive invariant: whatever the other requests commit meanwhile,  *)
(* each request still finds the rows it locked or decided on as the rest   *)
(* of its transaction assumes them (fresh sessions, covered balances, a    *)
(* bet in the status it checked, an unconfirmed match while confirming).   *)
(* It holds beside the funding and the ingestion services too.             *)
Sound ==
  /\ Typed
  /\ SessionsFresh
  /\ IdsDistinct
  /\ \A b \in Bets : RowOK(b)
  /\ \A t \in Workers : RequestOK(t)

(* A settlement works on the outcome that is on its bet's match. *)
OutcomeKnown(t) ==
  pc[t] \in SettlePCs \ {"settle_next"} =>
    match[bet[req[t].bet].match_id].outcome = req[t].outcome

(* Without a provider sync only a confirmation writes results, and once. *)
Results ==
  /\ \A m \in Matches : MatchOK(m)
  /\ \A t \in Workers : OutcomeKnown(t)

(* The places at which a betting request holds a wallet or a bet row. *)
WalletHolders ==
  {"create_commit", "accept_commit", "cancel_bet", "void_opponent", "void_commit",
   "settle_wallet2", "settle_check", "settle_commit"}
BetHolders ==
  {"accept_wallet", "accept_commit", "void_creator", "void_opponent", "void_commit",
   "confirm_rows", "settle_wallet1", "settle_wallet2", "settle_check", "settle_commit"}

(* What a betting request holds when it waits: a settlement waiting for    *)
(* its second wallet only the lower one, a confirmation only bets of its   *)
(* own match and none that it still waits for.                             *)
LocksOK(t) ==
  pc[t] \in PCs =>
    /\ \A u \in Users : walletLock[u] = t =>
         /\ pc[t] \in WalletHolders
         /\ pc[t] = "settle_wallet2" => u = LockOrder(req[t].bet)[1]
    /\ \A b \in Bets : betLock[b] = t =>
         /\ pc[t] \in BetHolders
         /\ pc[t] = "confirm_rows" =>
              /\ bet[b].status # "none" /\ bet[b].match_id = req[t].match
              /\ b \notin req[t].todo
    /\ platformLock = t => pc[t] = "settle_commit"

LocksTaken == \A t \in Workers : LocksOK(t)

Consistent == TypeOK /\ Sound /\ Results /\ LocksTaken
=============================================================================
