# Buddy Bet: a TLA+ verification project

Buddy Bet is a peer-to-peer football betting backend (FastAPI, SQLAlchemy async sessions,
PostgreSQL). One user offers a bet, another takes the opposite side, both stakes are locked, an
administrator confirms the result and the bets are paid out of the pool less a fee. Money comes in
through deposits (PayFast or by hand) and leaves through withdrawals. Fixtures and results come from a
sports data provider when an administrator asks for a sync.

These modules model how requests share the database: which rows a request locks and when, what it
remembers from an earlier read, what its commit writes. That is where the program is hard to test.
An abstract escrow says what the betting core promises, and the core is proved to implement it.

## 1. Inventory

### Components

| Component | State | Operations | Modelled in |
|---|---|---|---|
| `BetService` | `bets`, `bet_events` | create, accept, cancel | `BetService` |
| `WalletService`, `WalletRepository` | `wallets` (available, locked) | lock_stake, unlock_stake, void_refund, transfer_locked_funds, credit_deposit, hold / release / finalize withdrawal | `Store`, `Settlement`, `Funding` |
| `LedgerService` | `ledger_entries` | one writer per movement | `Store`, `AdminService`, `Settlement`, `Funding` |
| `AdminService` | bets, wallets | void_bet | `AdminService` |
| `MatchSettlementService` | `matches`, bets | confirm_and_settle, settle_single_bet | `Settlement` |
| `SettlementService` | bets, wallets, platform account | settle_bet (winner, no winner) | `Settlement`, `Amounts` |
| Fee configuration | `fee_config` | get_active_rate | `Store` |
| `decimal_utils` | none | rounding, addition, subtraction, multiplication | `Amounts` |
| Sessions and transactions | identity map, row locks | commit, rollback | `Store`, `BuddyBet` |
| `DepositService`, PayFast webhook | `deposit_requests` | create, initiate, complete, fail, notification | `Funding` |
| `WithdrawalService` | `withdrawal_requests` | create, approve, complete, reject, fail | `Funding` |
| `MatchSyncService` | `matches` | sync upcoming, results, live; upsert of a fixture | `MatchSync`, `Ingestion` |
| Providers, status mapper | none | fetch, filter, parse, map statuses, derive the outcome | `Providers` |
| `AuthService`, `LoginAttemptTracker` | `users`, failures in memory | register, login, forgot and reset password | `Auth` |
| Endpoints that change state | none | start a request | the step definitions (`BetServiceStep`, `AdminDeposits`, `SyncStep`, `AuthNext`, ...) |
| Read services and endpoints, schemas, frontend | none of their own | | not modelled |

### Interactions

Every request runs in one session with one transaction (`get_db`: commit at the end, rollback on
any exception), except `confirm_and_settle`, which commits several times on one session. Services
meet only in the database:

* `create_bet` and `accept_bet` lock a stake; `cancel_bet`, `void_bet` release it; settlement
  consumes it and credits winner and platform.
* Stakes and withdrawal holds share `wallets.locked_balance`.
* A confirmation moves the MATCHED bets of a match to PENDING_SETTLEMENT and then settles them one
  by one; `settle_single_bet` is the operators' retry.
* PayFast posts notifications, several times and late; an administrator may complete or fail the
  same deposit by hand.
* Syncs rewrite the `matches` rows that `create_bet` reads, `confirm_and_settle` locks and
  `settle_bet` takes the outcome from.
* Authentication shares no row with the rest but the wallet a registration creates.

### What is hard

* **Unlocked reads that decide.** `cancel_bet`, `complete_deposit`, `fail_deposit` and all four
  withdrawal actions check a status on a plain SELECT and later overwrite the row.
* **Absolute writes.** Balances are computed in Python and written back whole. Only the row lock
  taken before loading the wallet keeps two requests from overwriting each other.
* **Sessions that remember.** `expire_on_commit=False`, and no locking read uses
  `populate_existing`: a row already loaded keeps its old attributes after `SELECT ... FOR UPDATE`.
* **Waits-for cycles.** Settlement locks wallets in ascending order, `void_bet` in party order,
  `cancel_bet` locks the wallet before the bet, a withdrawal shares the wallet row through a foreign
  key before it wants it exclusively.
* **Reads long before writes.** A sync reads each match without a lock, computes the changed columns
  and keeps going; its UPDATE lands whenever the row is free, on whatever has been committed since.
* **A limit checked apart from the count.** `login` asks `is_locked`, reads the database, and only
  then records a failure.
* **Several commits in one request.** A crash between transaction A and the settlements leaves
  bets pending.
* **Rounding.** Fees are rounded half up; payouts plus fee must be the pool to the cent. Amounts that
  clients ask for may have any number of decimals, and `lock_stake` and `hold_withdrawal` round the two
  balances they change apart from each other.

The full list, each at its line and with the properties that watch it, is `hazards` in
`PROJECT.json`.

### What makes each part correct

Bets: one opponent, fixed terms, an audit trail that matches the status. Wallets: no money created
or lost (but for one rounding, section 5), every balance explained by the ledger, locked money exactly what live bets and open
withdrawals hold. Settlement: paid once, by the confirmed result, at the recorded rate, and
eventually. Funding: credited once, paid once and only when approved. Matches: a confirmation is final,
a terminal status stays, a stored result is the full-time one, nobody bets after kickoff.
Accounts: one per address, each with a wallet; a bounded number of guesses; a lockout that ends.
Everything: requests end.

## 2. Modules

```
Sums    Amounts
   \    /
    Store ------------------+------------- Providers
   /   |     \               |                |
BetService AdminService Settlement  Funding  MatchSync
   \   |     /               |                |
    BuddyBet ---------- Exchange        Ingestion (BuddyBet, MatchSync)
       |                     |                |
  Consistency ----- FundingConsistency  SyncConsistency      Auth --- MCAuth
       |                     |                |
   Atomicity            MCExchange       MCIngestion
 (Abs == INSTANCE Escrow) --- MCBuddyBet

ConsistencyProofs --+-- AuditProofs --+-- EscrowProofs (Atomicity) --+
                    |                 |                              +-- InTurnProofs
                    +-- MoneyProofs --+-- ExchangeProofs ------------+
                                      +-- IngestionProofs               AuthProofs (Auth)
```

**`Store`** is the database as the services see it. `match`, `bet`, `wallet`, `platform`, `ledger`,
`events` hold committed rows only. `betLock`, `walletLock`, `matchLock`, `platformLock` name the
request holding a row FOR UPDATE. A *worker* is a request in flight: `pc` says where it stands,
`req` what it was asked and has read, `snap` and `psnap` the wallets and the platform balance in its
session. A commit writes absolute values computed from `snap`. A rollback or a lost connection drops
locks and session and nothing else, because nothing uncommitted is in the rows. The ledger is kept
as one amount per bet, user and entry type: every entry the code writes adds to one of them.
`round_half_up` and `get_active_rate` keep their arithmetic; stored amounts are whole cents, rates
ten-thousandths.

**`Amounts`** is the arithmetic. What a client asks for is counted in *mills*, tenths of a cent: nothing
between the request and the wallet quantises it, so `create_bet` and `create_withdrawal` check and lock the
amount as it was typed (`asked`), while the columns keep it rounded (`Stored`), and a checkout page gets it
formatted with two decimals, halves to even (`Formatted`). `lock_stake` and `hold_withdrawal` are
`safe_subtract` on one balance and `safe_add` on the other. For an amount that ends in exactly half a cent
both round up, and the owner keeps a cent that was also locked: `HalfCent` is that cent. Everything later
works on the stored, whole amount.

**`BetService`, `AdminService`, `Settlement`** have one action per stretch of code between two
points where the request waits for a row or commits. A request refused before it holds anything is
not a step; one refused later is a rollback action (`LockStakeRefused`, `SettleFail`, ...).
`cancel_bet` keeps its unlocked read (`CancelRead`) apart from its UPDATE (`CancelCommit`).
`confirm_and_settle` is `ConfirmLock`, `ConfirmScan` (the SELECT's snapshot), `ConfirmRow` (waiting
for the rows, re-checking their status as PostgreSQL does), `ConfirmCommit`, and then the settlement
loop; `cached` is the set of bets whose old status the session still shows. That is why `settle_bet`
can pass its status check on a bet another request has settled, and why the conditional UPDATE
(`CanSettle`) matters. `DDLChecks` switches the CHECK constraints of `schema.sql` on; the ORM's own
models and the migrations do not create them.

**`BuddyBet`** composes the three with the clock, crashes and PostgreSQL's deadlock detector, and
states the properties of the betting core.

**`Funding`** models deposits, the PayFast webhook and withdrawals. `share` is the set of requests
holding a wallet FOR KEY SHARE, which the INSERT of a withdrawal takes through its foreign key;
`CreateWithdrawal` loads the wallet into `snap` before that, and `HoldWithdrawal` locks the row
without refreshing it. `payment` is PayFast's side: once it has decided, a notification may arrive
any number of times at any moment, or never. The payment id is named after its deposit; `Taken` are
ids already stored on older deposits, which an administrator may type by mistake.

**`Exchange`** composes betting and funding on the same wallets. Its betting steps are those of
`BuddyBet`, which must also wait for shared rows; its deadlock detector sees all requests.

**`Providers`** says what a raw fixture becomes: which reports each fetch returns, the two status
tables, the score each parser picks (API-Football's `fulltime or goals`, where 0 gives way like a
missing count) and `derive_outcome`. A fetch that fails is an empty answer, as in the clients.

**`MatchSync`** is a sync request: `SyncRead` (the plain SELECT of one fixture), `SyncFlush` (the
INSERT or the UPDATE of exactly the columns `_update_fixture` changed, which waits for the row),
`SyncDuplicate` (the unique `external_id` refuses the INSERT, and with it the whole transaction) and
`SyncCommit`. **`Ingestion`** composes it with the betting core. There the outcome a settlement finds
depends on its session: the confirming request still has its own match instance
(`SessionOutcome`), a retry reads the row. Lost requests are possible at every step. In `BuddyBet`
nobody else writes `matches`, so both readings agree and it keeps the simpler one.

**`Auth`** is the one server process of the Procfile: requests interleave where they await the
database, the tracker's methods are atomic. Times are ages that stop at the limit they are compared
with. `Restart` empties the tracker, as a restart of the process does.

**`Escrow`** is the abstract specification of the betting core: balances, the phase and the terms of
each bet, and six operations, each atomic. It has no requests, locks, sessions or stale reads.
It promises only what the code keeps: `Cancel` releases the creator's stake from a bet in any phase, and
`Open` locks the rounded stake and charges the creator that amount, less one cent if half a cent was asked.
**`Atomicity`** instantiates it with the committed rows; `ImplementsEscrow` is the refinement.

**`Consistency`**, **`FundingConsistency`** and **`SyncConsistency`** state the inductive invariants of
the betting core, of the exchange and of the ingestion; runs check them and the proof modules prove them.
The `MC` modules fix the constants of the runs. Definitions whose comment begins with *Fault:* are the
deliberate bugs of the mutation tests; no specification uses them.

## 3. Runs

Bounds that hold everywhere: the clock stops at `Horizon`, `MaxCrashes` limits lost requests, and
ids come from small sets. These bounds let the system come to rest, and so may a real system with no
requests, so deadlock (in TLC's sense) is not checked; that requests never get stuck is the liveness
property `RequestsEnd`.

| Run | Instance | Checks |
|---|---|---|
| `two_bets` | 2 users, 2 bets, 1 match, 2 workers | `TypeOK`, `MoneyTraced`, `LedgerReconciles`, `StakesBacked`, `PlatformEarnsFees`, `DeadlockNeedsVoidOrCancel`, `ImplementsEscrow` |
| `one_bet` | 1 bet, 3 workers, 1 crash, a user short of money | `Consistent`, `AuditExact`, `SettledByResult`, `TermsFixed` |
| `progress` | 1 bet, 2 workers, 1 crash, fair | `RequestsEnd`, `PendingResolves` |
| `funding` | 1 user, 1 deposit, 2 withdrawals, 1 taken reference, 2 workers | `FundingTypeOK`, `OnlyApprovedPaid`, `CompletedIsCredited`, `DeadlockNeedsSharers`, `ExchangeConsistent`, `ShareProtects` |
| `exchange` | 2 users, 1 bet, 1 withdrawal, 2 workers | `OnlyStaleHoldsDiverge` |
| `in_turn` | 2 users, bet, deposit, withdrawal, 1 worker | `CreditedOnce`, `HoldUsedOnce`, `LedgerExplains`, `LockedExact` |
| `sync` | 2 users, 1 bet, 2 matches (1 known at first), 2 syncs, 2 workers, API-Football | `IngestTypeOK`, `MoneyTraced`, `FullTimeResult`, `IngestConsistent`, `ConfirmationKept`, `OnlyStaleSyncsRegress` |
| `auth` | 3 workers, 2 accounts, 2 spellings of an address, limit 2, fair | `AuthTypeOK`, `ThrottleBound`, `OneAccountPerEmail`, `LockoutEnds` |
| `left_matched`, `no_winner_ddl`, `double_credit`, `moved_kickoff` | 1 or 2 of each, 2 workers | one property each, violated: see *Findings* |

Why these bounds are enough to be interesting. Two users and two bets suffice for two settlements
to want the same two wallets, in either party order, while a third kind of request interferes.
Three workers on one bet let a cancellation, an acceptance and a confirmation overlap. Stakes are
given in mills. 15, a cent and a half, is stored as 2, and 2 with a 25% rate gives a half cent on the
no-winner path and a whole one on the winner path; 10 and 24 (`one_bet`) are a whole cent and one rounded
down; 0 and 50 are outside the limits and must be refused; the rate changes at time 2, so two settlements
may use different rates. Kickoff at 2 with a cutoff of 1 makes creation, acceptance and expiry each
possible and impossible at some time. In `funding` withdrawals of 4, 15 and 50 mills are
rounded to nothing, leave a cent behind, and exceed the funds; a deposit of 25 is stored as 3 and charged
as 2, so its notification is refused and only an administrator can complete it; a completion
may name a taken reference, and two withdrawals of one user share the wallet row. In `exchange` and `in_turn` funds of 3 cents pay for a stake or a
withdrawal of 2 or 2.5 cents, not for both, unless a deposit arrives first. In `sync` one match is drawn at full time
and won after extra time, so the two scores disagree; the other is first unknown, then in play,
abandoned, or goalless at full time and won later, so that two syncs may insert it at once, lock the two rows in either order, or leave and
re-enter a terminal status. `moved_kickoff` uses Football-Data.org and a match brought forward by
two units (a unit is a minute, and a minute's difference is ignored). In `auth` the three requests
may all pass the check of an address one failure short of its limit, which reaches the bound
exactly.

Two properties have an exception clause, and TLC reaches both. `StakesBacked` holds unless some
bet's audit trail shows a cancellation that came too late; without the clause
(`LockedIsReserved`) TLC finds the late cancellation of section 5. `OnlyStaleHoldsDiverge` excepts
the commit of a withdrawal that read its wallet too early; `LedgerExplains` under two workers shows
that commit.

The cent of a half-cent amount is no exception clause but a term: `MoneyTraced`, `LedgerReconciles` and
`LedgerExplains` say exactly how much more there is than the books say (`Gain`, `StakeGain`, `HoldGain`), and
that it stays so whatever happens to the bet or the withdrawal later. They are equalities, so each also
shows that the cent is really made. `LedgerExplains` is checked for one request
at a time, so it is about the entries of each service and not about requests that overwrite each other;
that is what `LedgerReconciles` (betting) and `OnlyStaleHoldsDiverge` (with funding) are about.

`FullTimeResult` ties a stored result to one report that its match is over: for each side it uses the
full-time count, or the final one where the full-time count is 0 or missing. That a result is not made of a
match in play, of two reports, or of goals after full time for a side that had scored, is what it excludes.
That a full-time
0 gives way to a later goal is in section 5; the instance has such a match.

**Fairness.** `FairSpec` gives each worker strong fairness on its own steps: PostgreSQL queues the
waiters of a row lock, so a request whose row becomes free again and again eventually gets it, and a
request that has started is driven to its end by the event loop. The deadlock detector runs whenever
a cycle persists (weak fairness). `PendingResolves` also assumes that operators keep retrying
pending bets (`Retry`): no job in the repository does it, the list endpoint and the manual settle
endpoint are there for that purpose. Nothing is assumed there about users, the clock, crashes, or PayFast. `AuthFairSpec` assumes that time
passes and that a request which has begun goes on (weak fairness: the event loop); that clients stop
trying is not assumed.

## 4. Proofs

Checked by TLAPS for every value of the constants that satisfies the assumptions of the modules:

* `ConstantsAssumption`: finite sets of users and bets, users ordered as naturals, positive minimum
  stake, rates strictly between 0 and 1, stakes asked for in any number of mills, `NoOne` none of the ids. Any number of workers and matches.
* `FundingAssumption`: finitely many deposits and withdrawals, amounts asked for in any number of mills.
* `ProvidersAssumption`, `ReportsAssumption`, `SyncAssumption`: the three outcomes differ, a report has
  the shape of a provider's answer and its result is one of the outcomes of the instance. Any number of
  reports and syncs.
* `AuthAssumption`: finitely many requests in flight, an idempotent normalisation, positive limits.

Every safety property that a run checks is also a theorem:

| Theorem | Statement |
|---|---|
| `ConsistencyProofs!ConsistentAlways` | `Spec => []Consistent` |
| `ConsistencyProofs!TypeCorrect` | `Spec => []TypeOK` |
| `ConsistencyProofs!DeadlocksNeedVoidOrCancel` | `Spec => []DeadlockNeedsVoidOrCancel` |
| `MoneyProofs!MoneyIsTraced` | `Spec => []MoneyTraced` |
| `MoneyProofs!LedgerAlwaysReconciles` | `Spec => []LedgerReconciles` |
| `MoneyProofs!PlatformHoldsFees` | `Spec => []PlatformEarnsFees` |
| `AuditProofs!AuditAlwaysExact` | `Spec => []AuditExact` |
| `AuditProofs!TermsAlwaysFixed` | `Spec => TermsFixed` |
| `AuditProofs!AlwaysPaidByResult` | `Spec => []SettledByResult` |
| `EscrowProofs!EscrowImplemented` | `Spec => ImplementsEscrow` |
| `EscrowProofs!StakesAlwaysBacked` | `Spec => []StakesBacked` |
| `ExchangeProofs!ExchangeConsistentAlways` | `ExchangeSpec => []ExchangeConsistent` |
| `ExchangeProofs!FundingTypeCorrect` | `ExchangeSpec => []FundingTypeOK` |
| `ExchangeProofs!OnlyApprovedArePaid` | `ExchangeSpec => []OnlyApprovedPaid` |
| `ExchangeProofs!CompletedAreCredited` | `ExchangeSpec => []CompletedIsCredited` |
| `ExchangeProofs!SharesAlwaysProtect` | `ExchangeSpec => ShareProtects` |
| `ExchangeProofs!DeadlocksNeedSharers` | `ExchangeSpec => []DeadlockNeedsSharers` |
| `ExchangeProofs!StaleHoldsAloneDiverge` | `ExchangeSpec => OnlyStaleHoldsDiverge` |
| `InTurnProofs!CreditedOnceInTurn` | `ExchangeSpec /\ []RowsInTurn => []CreditedOnce` |
| `InTurnProofs!HoldUsedOnceInTurn` | `ExchangeSpec /\ []RowsInTurn => []HoldUsedOnce` |
| `InTurnProofs!LedgerExplainsUnlessStale` | `ExchangeSpec /\ []NoStaleHolds => []LedgerExplains` |
| `InTurnProofs!LockedExactInTurn` | `ExchangeSpec /\ []RowsInTurn /\ []NoStaleHolds => [](AllClean => LockedExact)` |
| `InTurnProofs!ExactAlone` | with one worker, `ExchangeSpec => [](CreditedOnce /\ HoldUsedOnce /\ LedgerExplains /\ LockedExact)` |
| `IngestionProofs!IngestConsistentAlways` | `IngestSpec => []IngestConsistent` |
| `IngestionProofs!IngestTypeCorrect` | `IngestSpec => []IngestTypeOK` |
| `IngestionProofs!AlwaysFullTime` | `IngestSpec => []FullTimeResult` |
| `IngestionProofs!ConfirmationsAlwaysKept` | `IngestSpec => ConfirmationKept` |
| `IngestionProofs!StaleSyncsAloneRegress` | `IngestSpec => OnlyStaleSyncsRegress` |
| `IngestionProofs!SyncsTraceMoney` | `IngestSpec => []MoneyTraced` |
| `AuthProofs!AuthTypeCorrect` | `AuthSpec => []AuthTypeOK` |
| `AuthProofs!ThrottleHolds` | `AuthSpec => []ThrottleBound` |
| `AuthProofs!AddressesUnique` | `AuthSpec => []OneAccountPerEmail` |

**The inductive invariant.** Hardly any of these is inductive by itself: a commit keeps the books only
if the balances in its session are current, the bet is still in the status it was checked in and the
wallets cover what is taken. `Consistent` states, for every place a request can be at, which of the
facts it read still hold. It has three parts. `Sound` is what holds in every composition: sessions are
fresh for locked wallets (`SessionsFresh`), rows are complete for their status (`RowOK`), requests still
find what they decided on (`RequestOK`), ids in flight are distinct (`IdsDistinct`). `Results` holds only
where nobody but a confirmation writes results: a match has an outcome exactly when confirmed, and the
outcome a settlement has read is still the one of its match. `LocksTaken` says where a request may hold
which lock. Nothing is said about the status of a bet being cancelled, because the code guarantees
nothing there.

**The argument** is rely/guarantee. A step keeps three guarantees towards the others (`Guarantees`): it
does not touch their sessions, does not take or drop their locks, and does not change rows they have
locked or the fixed terms of a bet. From these alone (lemma `Rely`) every other request's facts survive;
each action then only has to establish the facts of the request that moves. The compositions add to this
and repeat nothing: `FundGuarantees` keeps orders, shares, owners, amounts and approvals, `SyncGuarantees`
keeps sync sessions, and every betting step proved once in `ConsistencyProofs` is used in all three.
`MoneyProofs` shows that every commit is *balanced* (what wallets and platform gain and lose cancels out,
but for the cent of a half-cent stake) and *explained* (each wallet moves by its ledger entries and that
cent), using `Sound` for fresh sessions, `Amounts` for fee plus payout being the pool at any rate, and
`RoundedApart` for the two roundings of one amount: the locked balance grows by the stored amount, the
available one shrinks by it less `HalfCent`, and neither goes below zero. That a stored amount has no half
cent, so that an acceptance gains nothing, is `StoredCents`. Sums are written as cardinalities (`Sums`), so that the
effect of one update follows from the library's facts about finite sets instead of induction.

**Deadlocks.** In a waits-for cycle without `void_bet` and `cancel_bet` nobody waits for the platform row,
whose holder waits for nothing; two confirmations never meet on a bet, because each holds its match
(`ConfirmersApart`); so somebody waits for a wallet, and whoever holds one while waiting is a settlement at
its second wallet. Along such settlements the wallets ascend, and a finite set of users has a highest one
(`Highest`, `NoCircle`). With funding, whoever shares a wallet is a `create_withdrawal`, and a locked wallet
has no sharer but its holder (`ShareOK`), which leaves two sharers of one wallet as the only new cycle.

**The refinement** needs `Consistent` at every commit: sessions are fresh, so the absolute balances a
commit writes are the current ones plus or minus the stake (for a creation: the stake asked for, by
`RoundedApart`); the bet a void or an acceptance holds
locked is still in the status that was checked; and a settlement that read an old status from its
session is stopped by the conditional UPDATE. All other steps leave the mapped rows alone
(`EscrowStutters`); each commit is one operation (`CreateIsOpen`, `AcceptIsJoin`, `CancelIsCancel`,
`VoidIsVoid`, `ConfirmIsQueue`, `WinnerIsSettle`, `NoWinnerIsSettle`), and `PoolPaid` shows that
payouts and fee are the pool at any rate.

**The audit trail.** Every commit but a confirmation logs one event for one bet, and by `Consistent` it
starts from a status its event may follow (`CommitMoves`), so each trail grows along the transition
table (`TrailGrows`); a confirmation does the same for all bets it has locked. Only a cancellation may
come from any status. `TermsFixed` and `SettledByResult` use it to know that a settlement finds a bet
that was never settled. `SettledByResult` also needs that a confirmed match is never confirmed again,
that the outcome a settlement read is still the one of the match (both in `Consistent`), and that
rounding a fee is off by half a cent at most (`TwoHalfCents`).

**The stakes.** `StakesBacked` is proved on the escrow: every operation of it moves the locked balance of
a user by what the bet holds of him before and after (`OpenHolds`, `JoinHolds`, `EndHolds`,
`QueueHolds`), except a cancellation of a bet that is not open. If the trails are clean after a step
they were clean before it, and a cancellation that leaves them clean found an open bet
(`LoggedClean`). The refinement carries this over to the core.

**The throttle.** `ThrottleBound` is inductive with the types because it counts the logins that may
still add a failure (`LetIn`) with the failures themselves: a login enters only below the limit, a
failure trades one for the other, and time, success and lost requests only take away. For
`OneAccountPerEmail` the strengthening `RegistrationSound` adds that an address being inserted
belongs to no account and to no other insertion.

**Funding.** Deposits and withdrawals decide on plain reads, so `FundingSound` promises little about a
status. What survives is owner, amount, approval, the wallet that was locked before it was loaded, and for
`create_withdrawal` that its INSERT shares the wallet row to the end. `StaleHoldsAloneDiverge` follows
commit by commit (`Aligned`): balance and ledger sums move by the same amount, unless the hold was computed
from balances read before the INSERT.

**Taking turns.** `CreditedOnce`, `HoldUsedOnce`, `LedgerExplains` and `LockedExact` are what funding is
meant to guarantee, and with racing requests the code does not (section 5). `InTurnProofs` proves them for
any number of requests from two conditions on the history: `RowsInTurn`, no two requests in flight name the
same deposit or the same withdrawal, which a `SELECT ... FOR UPDATE` of that row at the start of a request
would enforce; and `NoStaleHolds`, no `create_withdrawal` is about to write balances that have changed since
it read them, which locking the wallet before loading it would enforce. The invariant (`TurnsKept`) adds that
the status a request decided on is still there. `LockedExact` combines the holds of withdrawals
(`FundingHolding`) with those of bets (`CleanHolds`), and like `StakesBacked` it excepts audit trails that
show a late cancellation. A single worker meets all conditions: `ExactAlone` states what the run `in_turn`
checks, for any number of users, bets, deposits and withdrawals.

**Ingestion.** A sync holds every row it has flushed, what it flushed are the columns its payload changes in
the row as it read it (`Columns`), and a row it inserts is still absent when it commits; rows never
disappear. A confirmation locks its match, so none commits between the flush and the commit of a sync on the
same row; the columns of an upsert never contain the confirmation, a result only if the row was read
unconfirmed, a status only if it was read unfinished (`UpdatedColumns`, `Overwritten`). That gives
`ConfirmationKept` and `OnlyStaleSyncsRegress`. `SyncsTraceMoney` holds because `MoneyProofs` never uses
`Results`: whatever outcome a settlement finds, it pays the pool. For `AlwaysFullTime` every outcome an upsert
writes comes from a payload, and a payload has an outcome only if its one report is finished
(`ParsedResult`).

**Only model-checked**: liveness (`RequestsEnd`, `PendingResolves`, `LockoutEnds`), which needs fairness and
ENABLED and is out of the prover's reach. The four violations are counterexamples of TLC.

## 5. Findings

1. `left_matched`: `accept_bet` does not look at the match. A bet accepted while the result is being
   confirmed, or afterwards and before kickoff, stays MATCHED on a match that cannot be confirmed
   again: it can still be voided, but never settled.
2. `no_winner_ddl`: the no-winner path stores a payout amount, which a CHECK of `schema.sql`
   forbids. On a database made from that file such a bet can never be settled.
3. `double_credit`: two completions of one deposit both credit the wallet; the unique provider
   reference does not prevent it.
4. `moved_kickoff`: a sync moves the kickoff of a match but not the expiry of its bets, so a bet on a
   match that was brought forward can be accepted after the kickoff.

Stated exactly, or bounded, by a passing property rather than a run of their own:

* Stakes and withdrawals are never quantised, and `lock_stake` (`wallet_service.py:90`) and
  `hold_withdrawal` (`wallet_service.py:457`) round the two balances apart. 100.00 becomes 90.00 and 10.01
  for a stake of 10.005: a cent from nowhere, in no ledger entry, against `BACKEND_DESIGN_SPEC.md:653`
  ("the sum of all user wallet balances ... plus the platform account balance must always equal the sum of
  all deposits minus all withdrawals") and `decimal_utils.py:7`, where the platform gets what is below a
  cent. `MoneyTraced` says that betting makes exactly this cent and no other, `LedgerReconciles` and
  `LedgerExplains` that exactly this much is unexplained.
* `_parse_fixture` (`api_football.py:314`) takes a full-time count of 0 for a missing one, against its
  comment "Prefer fulltime score; fall back to goals": 1-0 after extra time of a goalless match is stored
  as a home win. `FullTimeResult` bounds it: the final count stands in only for a side whose full-time
  count is 0 or missing, and only in a report of a finished match.
* `cancel_bet` (`bet_service.py:297`) decides on an unlocked read. A cancellation that overtakes an
  acceptance leaves the opponent's stake locked for a CANCELLED bet, against `schema.sql:272` and
  `bet_service.py:16` ("preventing all known races"). `StakesBacked` says that nothing else does.
* `create_withdrawal` (`withdrawal_service.py:109`) writes balances read before the lock; a deposit
  credited in between disappears from the balance. `OnlyStaleHoldsDiverge` says that nothing else
  separates a balance from its ledger, half cents apart.
* A sync that read a match before its result was confirmed overwrites the confirmed outcome, although
  `settlement_service.py:164` calls it "immutable once set"; bets settled by a retry are then paid on
  the other result. `OnlyStaleSyncsRegress` says that only such a sync does, `ConfirmationKept` that
  the confirmation itself survives, `MoneyTraced` that every pool is still paid out whole.

Also: withdrawal actions overwrite each other's status in the same way, so an
approval that read `pending` before a rejection committed revives a request whose hold is already
released (`in_turn.cfg` with two workers, property `HoldUsedOnce`, shows it), although
`withdrawal_service.py:15` says that no balance leaves "without a corresponding terminal state on the
withdrawal request". And `BACKEND_DESIGN_SPEC.md:1035` lets administrators void PENDING_SETTLEMENT bets;
`void_bet` accepts OPEN and MATCHED only, and the model follows the code. A withdrawal of less than
half a cent is stored as 0.00: without the CHECK of `schema.sql` on ledger amounts it is created, and no
action can end it, because the wallet operations refuse an amount of 0. A PayFast deposit of 10.005 is
stored as 10.01 and charged as 10.00, so its notification never matches the row.

What holds all the same: late cancellations and findings 1 and 2 never create or destroy
money (proved for the betting core, beside syncs too); and when requests about one row take turns every funding
property holds, repeated and late notifications included (proved; run `in_turn` for one worker).

## 6. What is left out, and why

* **Foreign-key share locks on matches.** The INSERT of a bet waits for a confirmation holding the
  match row. The model lets it go on, which only adds interleavings.
* **Amounts finer than a tenth of a cent.** The code compares an amount with whole cents and rounds it at
  half a cent, so what matters of its decimals is whether they are nothing, below, at or above half a
  cent; tenths of a cent have all four. The check of a balance against an amount as asked is exact in them.
* **`scripts/sync_matches.py all`** runs the three syncs one after the other in one session and one
  transaction; the model has each as a request of its own, as the endpoints and the other modes of the
  script do.
* **`wallets.version`** is incremented and never compared; it is not modelled.
* **Ledger snapshots** (`*_balance_after`), notes, references and log lines.
* **`client_reference`** only refuses a second INSERT; signature, merchant and amount checks and the
  age limit of a notification refuse without a state change and appear as a notification that never
  arrives.
* **Statuses no code sets**: `UNDER_REVIEW` and `ADMIN_OVERRIDE` events, `cancelled` deposits and
  `processing` withdrawals (kept in the types and guards). No job expires OPEN bets.
* **Bearer tokens, roles and the request rate limiter**: an authenticated or administrative request
  is simply one that arrives; tokens are stateless and the limiter is a library.
* **Of a match**: names, scores (the outcome stands for them) and `last_synced_at`. Scores and
  outcome are written together by the same branch.
* **Two deposits racing for one payment reference**: `funding` has the reference taken beforehand;
  the UNIQUE constraint decides at the commit in both cases.
* **Read endpoints, JSON schemas, pagination, configuration, the frontend**: no state of their own.

## 7. Plan

Done: the betting core with its proofs and its refinement, funding, ingestion, authentication, the
compositions `Exchange` and `Ingestion`, and proofs of every safety property the runs check. Worth doing
next, in this order:

1. An abstract specification of funding (a deposit is credited once, a hold is used once) and a proof that
   `Exchange` implements it when requests take turns, as `Escrow` is for the core.
2. More of the core's theorems beside funding and syncs: the audit trail and fixed terms are proved for the
   core alone (`ExchangeAudit` carries the trail over to the exchange).
3. The share lock on matches in `CreateBegin`, so that the interleavings are exact.
