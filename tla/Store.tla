------------------------------- MODULE Store --------------------------------
(***************************************************************************)
(* The PostgreSQL database behind the betting services, as the services    *)
(* see it through SQLAlchemy: committed rows, row locks held until the end *)
(* of a transaction, and one session per request.                          *)
(*                                                                         *)
(* A worker is one request in flight.  The row variables hold COMMITTED    *)
(* data.  A worker copies a wallet into its session when it locks the row  *)
(* (SELECT ... FOR UPDATE), computes on the copy, and the commit writes    *)
(* back absolute values, never increments; READ COMMITTED isolation shows  *)
(* nothing of a transaction to the others before that.  A rollback, or the *)
(* loss of the connection, only drops the worker's locks and its copies.   *)
(***************************************************************************)
EXTENDS Naturals, FiniteSets, Sums, Amounts

CONSTANTS
  Users,        \* user ids; ordered, as the UUIDs they stand for are
  Active,       \* the users whose account status is 'active'
  Bets,         \* bet ids that may be handed out
  Matches,      \* match ids
  Outcomes,     \* FootballOutcome: predictions and results
  Workers,      \* requests that can be in flight at the same time
  NoOne,        \* NULL
  InitFunds,    \* available_balance of every user at the start
  StakeInputs,  \* stakes clients ask for, in mills
  MinStake, MaxStake,       \* settings.min_stake_amount, max_stake_amount
  FeeConfig,    \* rows of fee_config
  InitKickoff,  \* kickoff_at of every match
  Cutoff,       \* settings.bet_creation_cutoff_minutes
  Horizon,      \* bound: the clock stops here
  DDLChecks,    \* the CHECKs of schema.sql are installed
  MaxCrashes    \* bound: requests lost to a crash or a dropped connection

FeeTypes == {"WINNER_FEE", "NO_WINNER_FEE"}

ASSUME ConstantsAssumption ==
  /\ Users \subseteq Nat /\ IsFiniteSet(Users) /\ Active \subseteq Users
  /\ IsFiniteSet(Bets)
  /\ NoOne \notin Users \cup Bets \cup Matches \cup Outcomes \cup Workers
  /\ InitFunds \in [Users -> Nat]
  /\ StakeInputs \subseteq Nat
  /\ MinStake \in Nat \ {0} /\ MaxStake \in Nat
  /\ FeeConfig \subseteq [fee_type : FeeTypes, rate : 1..(RateUnit - 1),
                          effective_from : Nat]
  /\ InitKickoff \in [Matches -> Nat]
  /\ Cutoff \in Nat /\ Horizon \in Nat /\ MaxCrashes \in Nat
  /\ DDLChecks \in BOOLEAN

BetStatus ==
  {"OPEN", "MATCHED", "PENDING_SETTLEMENT", "SETTLED", "CANCELLED", "VOIDED"}

(* Statuses in which stakes are still held for the bet. *)
LiveStatus == {"OPEN", "MATCHED", "PENDING_SETTLEMENT"}

SettlementOutcome == {"creator_wins", "opponent_wins", "no_winner", "voided"}

EntryTypes ==
  {"STAKE_LOCK", "STAKE_UNLOCK", "VOID_REFUND", "SETTLEMENT_DEDUCT",
   "PAYOUT_CREDIT", "FEE_DEDUCT", "REFUND_CREDIT"}

VARIABLES
  now,          \* the clock
  match,        \* matches rows; status "none" before the row is inserted
  bet,          \* bets rows; status "none" before the row is inserted
  wallet,       \* wallets rows
  platform,     \* balance of the platform account
  ledger,       \* ledger_entries: amount per bet, user and entry type
  events,       \* bet_events: number of rows per bet and event type
  betLock, walletLock, matchLock, platformLock,  \* owners of the row locks
  pc,           \* where every request stands
  req,          \* its parameters and what it has read
  snap,         \* the wallets of its session
  psnap,        \* the platform balance of its session
  crashes       \* requests lost so far

rows  == <<match, bet, wallet, platform, ledger, events>>
locks == <<betLock, walletLock, matchLock, platformLock>>
work  == <<pc, req, snap, psnap>>
vars  == <<now, rows, locks, work, crashes>>

Null(S) == S \cup {NoOne}

Wallet == [available : Nat, locked : Nat]

MatchStatus ==
  {"scheduled", "live", "completed", "postponed", "cancelled", "abandoned"}

Match == [status : MatchStatus \cup {"none"}, kickoff_at : Nat,
          outcome : Null(Outcomes), confirmed : BOOLEAN]

(* asked_stake is the stake as the client typed it, which the CREATED row  *)
(* of bet_events keeps in its payload; stake_amount is what the column of  *)
(* the bets row keeps of it.                                               *)
Bet == [status : BetStatus \cup {"none"}, match_id : Null(Matches),
        creator_id : Null(Users), opponent_id : Null(Users),
        creator_prediction : Null(Outcomes), opponent_prediction : Null(Outcomes),
        stake_amount : Nat, asked_stake : Nat, expires_at : Nat,
        settlement_outcome : Null(SettlementOutcome), winner_id : Null(Users),
        payout_amount : Nat, platform_fee : Nat, applied_fee_rate : Nat]

NoBet == [status |-> "none", match_id |-> NoOne,
          creator_id |-> NoOne, opponent_id |-> NoOne,
          creator_prediction |-> NoOne, opponent_prediction |-> NoOne,
          stake_amount |-> 0, asked_stake |-> 0, expires_at |-> 0,
          settlement_outcome |-> NoOne, winner_id |-> NoOne,
          payout_amount |-> 0, platform_fee |-> 0, applied_fee_rate |-> 0]

Request == [user : Null(Users), bet : Null(Bets), match : Null(Matches),
            outcome : Null(Outcomes), stake : Nat, asked : Nat, expires_at : Nat,
            winner_fee_rate : Nat, no_winner_fee_rate : Nat,
            todo : SUBSET Bets, cached : SUBSET Bets]

NoRequest == [user |-> NoOne, bet |-> NoOne, match |-> NoOne, outcome |-> NoOne,
              stake |-> 0, asked |-> 0, expires_at |-> 0,
              winner_fee_rate |-> 0, no_winner_fee_rate |-> 0,
              todo |-> {}, cached |-> {}]

NoWallets == [u \in Users |-> [available |-> 0, locked |-> 0]]

NoEntries == [e \in EntryTypes |-> 0]

-----------------------------------------------------------------------------
(* Row locks and sessions. *)

Released(lock, t) == [r \in DOMAIN lock |-> IF lock[r] = t THEN NoOne ELSE lock[r]]

(* End of a transaction: every row lock of the worker is released. *)
ReleaseAll(t) ==
  /\ betLock' = Released(betLock, t)
  /\ walletLock' = Released(walletLock, t)
  /\ matchLock' = Released(matchLock, t)
  /\ platformLock' = IF platformLock = t THEN NoOne ELSE platformLock

(* The session forgets the rows it loaded. *)
DropSession(t) ==
  /\ snap' = [snap EXCEPT ![t] = NoWallets]
  /\ psnap' = [psnap EXCEPT ![t] = 0]

(* The request is answered and its session closed. *)
Finish(t) ==
  /\ ReleaseAll(t)
  /\ DropSession(t)
  /\ pc' = [pc EXCEPT ![t] = "idle"]
  /\ req' = [req EXCEPT ![t] = NoRequest]

Goto(t, label) == pc' = [pc EXCEPT ![t] = label]

(* Fault: the wallet is loaded with a plain SELECT. *)
get_by_user_id(t, u) ==
  /\ snap' = [snap EXCEPT ![t][u] = wallet[u]]
  /\ UNCHANGED walletLock

(* WalletRepository.get_by_user_id_for_update: wait for the row, then load it. *)
get_by_user_id_for_update(t, u) ==
  /\ walletLock[u] = NoOne
  /\ walletLock' = [walletLock EXCEPT ![u] = t]
  /\ snap' = [snap EXCEPT ![t][u] = wallet[u]]

(* BetRepository.get_for_update: wait for the row lock. *)
get_for_update(t, b) ==
  /\ betLock[b] = NoOne
  /\ betLock' = [betLock EXCEPT ![b] = t]

-----------------------------------------------------------------------------
(* WalletService: the balances each operation computes from the loaded     *)
(* wallet w.  update_balances then stores them as absolute values.         *)
(* lock_stake rounds the two balances apart, for the amount as asked; the  *)
(* others get a stored amount s, which the rounding leaves alone.          *)

lock_stake(w, amount) == [available |-> safe_subtract(w.available, amount),
                          locked |-> safe_add(w.locked, amount)]
unlock_stake(w, s) == [available |-> w.available + s, locked |-> w.locked - s]
void_refund(w, s)  == [available |-> w.available + s, locked |-> w.locked - s]

(* transfer_locked_funds and _settle_no_winner: the stake is consumed and  *)
(* the share of this user (0 for the loser) becomes available.             *)
consume_stake(w, s, credit) ==
  [available |-> w.available + credit, locked |-> w.locked - s]

(* LedgerRepository.create_entry, for the entries of one user and bet: the *)
(* pair lock/unlock/refund writes, one per balance, has a single amount.   *)
create_entry(b, u, type, amount) == [ledger EXCEPT ![b][u][type] = @ + amount]

write_stake_lock(b, u, amount)   == create_entry(b, u, "STAKE_LOCK", amount)
write_stake_unlock(b, u, amount) == create_entry(b, u, "STAKE_UNLOCK", amount)

(* BetService._write_bet_event. *)
write_bet_event(b, type) == [events EXCEPT ![b][type] = @ + 1]

-----------------------------------------------------------------------------
(* FeeConfigRepository.get_active_rate: the newest row already effective. *)

EffectiveRows(type) ==
  {r \in FeeConfig : r.fee_type = type /\ r.effective_from <= now}

get_active_rate(type) ==
  (CHOOSE r \in EffectiveRows(type) :
     \A q \in EffectiveRows(type) : q.effective_from <= r.effective_from).rate

=============================================================================
