---------------------------- MODULE EscrowProofs ----------------------------
(***************************************************************************)
(* The betting core implements Escrow, for any number of users, bets and   *)
(* requests in flight.  Only the seven commits write bets or balances, and *)
(* by Sound each of them still finds the bet in the status and the wallets *)
(* with the balances its transaction was computed from.                    *)
(***************************************************************************)
EXTENDS Atomicity, AuditProofs, MoneyProofs

(* A step that writes no row is no step of the escrow. *)
LEMMA EscrowStutters ==
  ASSUME UNCHANGED rows
  PROVE  UNCHANGED Abs!escrow
<1>1. bet' = bet /\ wallet' = wallet /\ platform' = platform BY DEF rows
<1>2. UNCHANGED Abs!balances BY <1>1 DEF Abs!balances, Available, Locked
<1>3. UNCHANGED Abs!terms BY <1>1 DEF Abs!terms
<1>4. UNCHANGED Abs!escrow BY <1>1, <1>2, <1>3 DEF Abs!escrow
<1> QED BY <1>4

(* The core starts where the escrow starts. *)
LEMMA InitEscrow == Init => Abs!Init
BY ConstantsAssumption DEF ConstantsAssumption, Init, InitRest, NoBet, Abs!Init, Available, Locked

(* The escrow counts as the core does. *)
LEMMA SameAmounts ==
  ASSUME NEW n \in Nat
  PROVE  Abs!Mills(n) = Mills(n) /\ Abs!Stored(n) = Stored(n) /\ Abs!HalfCent(n) = HalfCent(n)
BY DEF Mills, Stored, HalfCent, round_half_up,
       Abs!Mills, Abs!Stored, Abs!HalfCent, Abs!round_half_up

(* The balances of lock_stake, for a stake asked as s. *)
LEMMA LockBalances ==
  ASSUME wallet \in [Users -> Wallet], NEW u \in Users, NEW s \in Nat,
         Mills(wallet[u].available) >= s,
         wallet' = [wallet EXCEPT ![u] = lock_stake(wallet[u], s)],
         platform' = platform
  PROVE  Abs!Lock(u, Stored(s) - HalfCent(s), Stored(s))
<1> DEFINE w == wallet'
           n == Stored(s)
           p == Stored(s) - HalfCent(s)
<1>1. /\ wallet[u].available \in Nat /\ wallet[u].locked \in Nat
      /\ n \in Nat /\ p \in Int
  BY StoredAmount DEF Wallet
<1>2. /\ w[u].available = wallet[u].available - p /\ w[u].locked = wallet[u].locked + n
      /\ wallet[u].available >= p
  <2>1. w[u] = lock_stake(wallet[u], s) OBVIOUS
  <2>2. HalfCent(s) \in Nat BY StoredAmount
  <2> QED BY <1>1, <2>1, <2>2, RoundedApart DEF lock_stake
<1>3. \A v \in Users \ {u} : w[v] = wallet[v] OBVIOUS
<1> HIDE DEF w, n, p
<1> DEFINE A == Available'
           L == Locked'
<1>4. A = [v \in Users |-> w[v].available] /\ L = [v \in Users |-> w[v].locked]
  BY DEF Available, Locked, w
<1> HIDE DEF A, L
<1>5. A = [Available EXCEPT ![u] = Available[u] - p] BY <1>2, <1>3, <1>4 DEF Available
<1>6. L = [Locked EXCEPT ![u] = Locked[u] + n] BY <1>2, <1>3, <1>4 DEF Locked
<1>7. Available[u] >= p BY <1>2 DEF Available
<1>8. Abs!Lock(u, p, n) BY <1>5, <1>6, <1>7 DEF A, L, Abs!Lock
<1> QED BY <1>8 DEF p, n

(* The balances of unlock_stake and void_refund. *)
LEMMA ReleaseBalances ==
  ASSUME wallet \in [Users -> Wallet], NEW P \in SUBSET Users, NEW s \in Nat,
         \A u \in P : wallet[u].locked >= s,
         wallet' \in [Users -> Wallet],
         \A u \in Users : wallet'[u] = IF u \in P THEN void_refund(wallet[u], s) ELSE wallet[u],
         platform' = platform
  PROVE  Abs!Release(P, s)
<1> DEFINE w == wallet'
<1>1. /\ \A u \in P : w[u].available = wallet[u].available + s
                      /\ w[u].locked = wallet[u].locked - s
      /\ \A u \in Users \ P : w[u] = wallet[u]
  BY DEF void_refund
<1> HIDE DEF w
<1> DEFINE A == Available'
           L == Locked'
<1>2. A = [v \in Users |-> w[v].available] /\ L = [v \in Users |-> w[v].locked]
  BY DEF Available, Locked, w
<1> HIDE DEF A, L
<1>3. A = [u \in Users |-> IF u \in P THEN Available[u] + s ELSE Available[u]]
  BY <1>1, <1>2 DEF Available
<1>4. L = [u \in Users |-> IF u \in P THEN Locked[u] - s ELSE Locked[u]]
  BY <1>1, <1>2 DEF Locked
<1>5. \A u \in P : Locked[u] >= s BY DEF Locked
<1> QED BY <1>3, <1>4, <1>5 DEF A, L, Abs!Release

(* The commit of create_bet opens the escrow. *)
LEMMA CreateIsOpen ==
  ASSUME Sound, NEW t \in Workers, CreateCommit(t)
  PROVE  Abs!Next
<1>0. PICK u, b, s : u = req[t].user /\ b = req[t].bet /\ s = req[t].asked OBVIOUS
<1> DEFINE n == [NoBet EXCEPT !.status = "OPEN", !.match_id = req[t].match, !.creator_id = u,
                   !.creator_prediction = req[t].outcome, !.stake_amount = Stored(s),
                   !.asked_stake = s, !.expires_at = req[t].expires_at]
<1>1. /\ CreateOK(t) /\ CanPay(t, u) /\ u \in Users /\ b \in Bets /\ bet[b] = NoBet
      /\ pc[t] \in PCs
  BY <1>0 DEF CreateCommit, Sound, RequestOK, CreateOK, RowOK, PCs
<1>2. snap[t][u] = wallet[u] /\ Mills(wallet[u].available) >= s /\ wallet[u].available \in Nat
  BY <1>0, <1>1, HeldWallet DEF CanPay
<1>3. s \in Nat /\ s \in 0..Abs!Mills(Available[u])
  <2>1. s \in Nat BY <1>0, <1>1 DEF Sound, Typed, Request
  <2>2. Available[u] = wallet[u].available BY <1>1 DEF Available
  <2>3. Abs!Mills(Available[u]) = Mills(wallet[u].available) BY <1>2, <2>2, SameAmounts
  <2> QED BY <1>2, <2>1, <2>3, StoredCents
<1>4. /\ bet' = [bet EXCEPT ![b] = n] /\ platform' = platform
      /\ wallet' = [wallet EXCEPT ![u] = lock_stake(snap[t][u], s)]
  BY <1>0, <1>1 DEF CreateCommit, CreateOK
<1>5. bet \in [Bets -> Bet] /\ wallet \in [Users -> Wallet] BY <1>0 DEF Sound, Typed
<1>6. /\ n.status = "OPEN" /\ n.creator_id = u /\ n.opponent_id = NoOne
      /\ n.stake_amount = Stored(s) /\ n.asked_stake = s
  BY <1>0 DEF NoBet
<1> HIDE DEF n
<1>7. Abs!Lock(u, Stored(s) - HalfCent(s), Stored(s))
  BY <1>1, <1>2, <1>3, <1>4, <1>5, LockBalances
<1>8. Abs!Open(b, u, s)
  <2>1. bet'[b] = n /\ \A c \in Bets \ {b} : bet'[c] = bet[c] BY <1>1, <1>4, <1>5
  <2>2. Abs!Move(b, "OPEN") BY <1>6, <2>1 DEF Abs!Move
  <2>3. [c \in Bets |-> bet'[c].opponent_id] = [c \in Bets |-> bet[c].opponent_id]
    BY <1>1, <1>6, <2>1 DEF NoBet
  <2>4. [c \in Bets |-> bet'[c].creator_id]
          = [[c \in Bets |-> bet[c].creator_id] EXCEPT ![b] = u]
    BY <1>6, <2>1
  <2>5. [c \in Bets |-> bet'[c].stake_amount]
          = [[c \in Bets |-> bet[c].stake_amount] EXCEPT ![b] = Stored(s)]
    BY <1>6, <2>1
  <2>6. [c \in Bets |-> bet'[c].asked_stake]
          = [[c \in Bets |-> bet[c].asked_stake] EXCEPT ![b] = s]
    BY <1>6, <2>1
  <2>7. Abs!Stored(s) = Stored(s) /\ Abs!HalfCent(s) = HalfCent(s) BY <1>3, SameAmounts
  <2>8. [c \in Bets |-> bet[c].status][b] = "none" BY <1>1 DEF NoBet
  <2> QED BY <1>7, <2>2, <2>3, <2>4, <2>5, <2>6, <2>7, <2>8 DEF Abs!Open
<1>9. \E c \in Bets, v \in Users : \E a \in 0..Abs!Mills(Available[v]) : Abs!Open(c, v, a)
  BY <1>1, <1>3, <1>8
<1> QED BY <1>9 DEF Abs!Next

(* The commit of accept_bet joins it. *)
LEMMA AcceptIsJoin ==
  ASSUME Sound, NEW t \in Workers, AcceptCommit(t)
  PROVE  Abs!Next
<1>0. PICK u, b, s : u = req[t].user /\ b = req[t].bet /\ s = req[t].stake OBVIOUS
<1> DEFINE n == [bet[b] EXCEPT !.opponent_id = u, !.opponent_prediction = req[t].outcome,
                               !.status = "MATCHED"]
<1>1. AcceptOK(t) /\ CanPay(t, u) /\ u \in Users /\ b \in Bets /\ pc[t] \in PCs
  BY <1>0 DEF AcceptCommit, Sound, RequestOK, AcceptOK, PCs
<1>2. snap[t][u] = wallet[u] /\ Mills(wallet[u].available) >= req[t].asked
  BY <1>0, <1>1, HeldWallet DEF CanPay
<1>3. /\ bet[b].status = "OPEN" /\ u # bet[b].creator_id /\ s = bet[b].stake_amount /\ s \in Nat
      /\ req[t].asked = Mills(s)
  BY <1>0, <1>1 DEF AcceptOK, Sound, Typed, Request
<1>4. /\ bet' = [bet EXCEPT ![b] = n] /\ platform' = platform
      /\ wallet' = [wallet EXCEPT ![u] = lock_stake(snap[t][u], Mills(s))]
  BY <1>0, <1>1, <1>3 DEF AcceptCommit, Sound, Typed
<1>5. bet \in [Bets -> Bet] /\ wallet \in [Users -> Wallet] BY <1>0 DEF Sound, Typed
<1>6. n.status = "MATCHED" /\ n.opponent_id = u /\ n.creator_id = bet[b].creator_id
      /\ n.stake_amount = bet[b].stake_amount /\ n.asked_stake = bet[b].asked_stake
  BY <1>0, <1>1, <1>5 DEF Bet
<1> HIDE DEF n
<1>7. Abs!Lock(u, s, s)
  <2>1. Mills(s) \in Nat /\ Stored(Mills(s)) = s /\ HalfCent(Mills(s)) = 0 BY <1>3, StoredCents
  <2>2. Abs!Lock(u, Stored(Mills(s)) - HalfCent(Mills(s)), Stored(Mills(s)))
    BY <1>1, <1>2, <1>3, <1>4, <1>5, <2>1, LockBalances
  <2>3. s - 0 = s BY <1>3
  <2> QED BY <2>1, <2>2, <2>3
<1>8. Abs!Join(b, u)
  BY <1>1, <1>3, <1>4, <1>5, <1>6, <1>7 DEF Abs!Join, Abs!Move
<1>9. \E c \in Bets, v \in Users : Abs!Join(c, v) BY <1>1, <1>8
<1> QED BY <1>9 DEF Abs!Next

(* The commit of cancel_bet, late or not, cancels it. *)
LEMMA CancelIsCancel ==
  ASSUME Sound, NEW t \in Workers, CancelCommit(t)
  PROVE  Abs!Next
<1>0. PICK u, b, s : u = req[t].user /\ b = req[t].bet /\ s = req[t].stake OBVIOUS
<1> DEFINE n == [bet[b] EXCEPT !.status = "CANCELLED"]
<1>1. CancelOK(t) /\ CanRelease(t, u) /\ u \in Users /\ b \in Bets /\ pc[t] \in PCs
  BY <1>0 DEF CancelCommit, Sound, RequestOK, CancelOK, PCs
<1>2. snap[t][u] = wallet[u] /\ wallet[u].locked >= s /\ wallet[u] \in Wallet
  BY <1>0, <1>1, HeldWallet DEF CanRelease, Sound, Typed
<1>3. bet[b].status # "none" /\ u = bet[b].creator_id /\ s = bet[b].stake_amount /\ s \in Nat
  BY <1>0, <1>1 DEF CancelOK, Sound, Typed, Request
<1>4. /\ bet' = [bet EXCEPT ![b] = n] /\ platform' = platform
      /\ wallet' = [wallet EXCEPT ![u] = unlock_stake(snap[t][u], s)]
  BY <1>0, <1>1 DEF CancelCommit, Sound, Typed
<1>5. bet \in [Bets -> Bet] /\ wallet \in [Users -> Wallet] BY <1>0 DEF Sound, Typed
<1>6. n.status = "CANCELLED" /\ n.opponent_id = bet[b].opponent_id
      /\ n.creator_id = bet[b].creator_id /\ n.stake_amount = bet[b].stake_amount
      /\ n.asked_stake = bet[b].asked_stake
  BY <1>0, <1>1, <1>5 DEF Bet
<1>7. unlock_stake(snap[t][u], s) \in Wallet
  BY <1>0, <1>1, ReleasedWallet DEF CanRelease
<1> HIDE DEF n
<1>8. Abs!Release({u}, s)
  <2>1. wallet' \in [Users -> Wallet] BY <1>1, <1>4, <1>5, <1>7
  <2>2. \A v \in Users : wallet'[v] = IF v \in {u} THEN void_refund(wallet[v], s) ELSE wallet[v]
    BY <1>1, <1>2, <1>4, <1>5 DEF unlock_stake, void_refund
  <2> QED BY <1>1, <1>2, <1>3, <1>4, <1>5, <2>1, <2>2, ReleaseBalances
<1>9. Abs!Cancel(b)
  BY <1>1, <1>3, <1>4, <1>5, <1>6, <1>8 DEF Abs!Cancel, Abs!Move, Abs!terms
<1>10. \E c \in Bets : Abs!Void(c) \/ Abs!Cancel(c) BY <1>1, <1>9
<1> QED BY <1>10 DEF Abs!Next

(* The commit of void_bet: the parties it refunds are the escrow's. *)
LEMMA VoidIsVoid ==
  ASSUME Sound, NEW t \in Workers, VoidCommit(t)
  PROVE  Abs!Next
<1>0. PICK b, s, R : b = req[t].bet /\ s = req[t].stake /\ R = Refunded(req[t].bet) OBVIOUS
<1> DEFINE n == [bet[b] EXCEPT !.status = "VOIDED", !.settlement_outcome = "voided"]
<1>1. VoidOK(t) /\ b \in Bets /\ pc[t] \in PCs /\ \A u \in R : CanRelease(t, u)
  BY <1>0 DEF VoidCommit, Sound, RequestOK, VoidOK, PCs
<1>2. bet[b].status \in {"OPEN", "MATCHED"} /\ s = bet[b].stake_amount /\ s \in Nat
  BY <1>0, <1>1 DEF VoidOK, Sound, Typed, Request
<1>3. R \subseteq Users /\ R = Abs!Parties(b)
  <2>1. /\ bet[b].creator_id \in Users
        /\ bet[b].status = "OPEN" => bet[b].opponent_id = NoOne
        /\ bet[b].status = "MATCHED" => bet[b].opponent_id \in Users
    BY <1>0, <1>1, <1>2 DEF Sound, RowOK, Typed, Bet, Null
  <2>2. NoOne \notin Users BY ConstantsAssumption DEF ConstantsAssumption
  <2> QED BY <1>0, <1>1, <1>2, <2>1, <2>2 DEF Refunded, Abs!Parties
<1>4. \A u \in R : snap[t][u] = wallet[u] /\ wallet[u].locked >= s
  BY <1>0, <1>1, <1>3, HeldWallet DEF CanRelease
<1>5. /\ bet' = [bet EXCEPT ![b] = n] /\ platform' = platform
      /\ wallet' = [u \in Users |-> IF u \in R THEN void_refund(snap[t][u], s) ELSE wallet[u]]
  BY <1>0, <1>1 DEF VoidCommit, Sound, Typed
<1>6. bet \in [Bets -> Bet] /\ wallet \in [Users -> Wallet] BY <1>0 DEF Sound, Typed
<1>7. n.status = "VOIDED" /\ n.opponent_id = bet[b].opponent_id
      /\ n.creator_id = bet[b].creator_id /\ n.stake_amount = bet[b].stake_amount
      /\ n.asked_stake = bet[b].asked_stake
  BY <1>0, <1>1, <1>6 DEF Bet
<1>8. \A u \in R : void_refund(snap[t][u], s) \in Wallet
  BY <1>0, <1>1, <1>3, ReleasedWallet DEF CanRelease
<1> HIDE DEF n
<1>9. Abs!Release(R, s)
  <2>1. wallet' \in [Users -> Wallet] BY <1>5, <1>6, <1>8
  <2>2. \A u \in Users : wallet'[u] = IF u \in R THEN void_refund(wallet[u], s) ELSE wallet[u]
    BY <1>4, <1>5
  <2> QED BY <1>2, <1>3, <1>4, <1>5, <1>6, <2>1, <2>2, ReleaseBalances
<1>10. Abs!Void(b)
  BY <1>1, <1>2, <1>3, <1>5, <1>6, <1>7, <1>9 DEF Abs!Void, Abs!Move, Abs!terms
<1>11. \E c \in Bets : Abs!Void(c) \/ Abs!Cancel(c) BY <1>1, <1>10
<1> QED BY <1>11 DEF Abs!Next

(* The commit that confirms a result queues the matched bets it locked. *)
LEMMA ConfirmIsQueue ==
  ASSUME Sound, NEW t \in Workers, ConfirmCommit(t)
  PROVE  Abs!Next
<1>0. PICK C : C = req[t].cached OBVIOUS
<1>1. C \in SUBSET Bets /\ \A b \in C : bet[b].status = "MATCHED"
  BY <1>0 DEF ConfirmCommit, Sound, RequestOK, ConfirmOK, Typed, Request
<1>2. /\ bet' = [b \in Bets |-> IF b \in C
                   THEN [bet[b] EXCEPT !.status = "PENDING_SETTLEMENT"] ELSE bet[b]]
      /\ wallet' = wallet /\ platform' = platform
  BY <1>0 DEF ConfirmCommit
<1>3. bet \in [Bets -> Bet] BY DEF Sound, Typed
<1>4. \A b \in Bets :
        /\ bet'[b].status = IF b \in C THEN "PENDING_SETTLEMENT" ELSE bet[b].status
        /\ bet'[b].creator_id = bet[b].creator_id /\ bet'[b].opponent_id = bet[b].opponent_id
        /\ bet'[b].stake_amount = bet[b].stake_amount
        /\ bet'[b].asked_stake = bet[b].asked_stake
  BY <1>2, <1>3 DEF Bet
<1>5. UNCHANGED Abs!balances BY <1>2 DEF Abs!balances, Available, Locked
<1>6. UNCHANGED Abs!terms BY <1>4 DEF Abs!terms
<1>7. Abs!Queue(C) BY <1>1, <1>4, <1>5, <1>6 DEF Abs!Queue
<1>8. \E due \in SUBSET Bets : Abs!Queue(due) BY <1>1, <1>7
<1> QED BY <1>8 DEF Abs!Next

(* One bet gets a new status. *)
LEMMA StatusMoves ==
  ASSUME NEW b \in Bets, NEW to, bet'[b].status = to,
         \A c \in Bets \ {b} : bet'[c] = bet[c]
  PROVE  Abs!Move(b, to)
BY DEF Abs!Move

(* Settling bet b of stake s: both stakes are consumed, the users of paid  *)
(* get payout each, the platform the fee.                                  *)
PaysOut(b, s, paid, payout, fee) ==
  /\ Abs!Parties(b) \subseteq Users /\ paid \subseteq Abs!Parties(b)
  /\ \/ paid = Abs!Parties(b) /\ payout + payout + fee = s + s
     \/ (\E u \in Abs!Parties(b) : paid = {u}) /\ payout + fee = s + s
  /\ \A u \in Abs!Parties(b) : wallet[u].locked >= s
  /\ wallet' \in [Users -> Wallet]
  /\ \A u \in Users : wallet'[u] =
       IF u \in Abs!Parties(b)
       THEN consume_stake(wallet[u], s, IF u \in paid THEN payout ELSE 0)
       ELSE wallet[u]
  /\ platform' = platform + fee

(* Bet b is SETTLED, its terms and every other row as they were. *)
RowSettles(b) ==
  /\ bet'[b].status = "SETTLED" /\ bet'[b].creator_id = bet[b].creator_id
  /\ bet'[b].opponent_id = bet[b].opponent_id
  /\ bet'[b].stake_amount = bet[b].stake_amount
  /\ bet'[b].asked_stake = bet[b].asked_stake
  /\ \A c \in Bets \ {b} : bet'[c] = bet[c]

(* Such a commit is the escrow's Settle. *)
LEMMA PoolPaid ==
  ASSUME Sound, NEW b \in Bets, NEW s \in Nat, NEW paid \in SUBSET Users,
         NEW payout \in Nat, NEW fee \in Nat,
         bet[b].status = "PENDING_SETTLEMENT", s = bet[b].stake_amount,
         PaysOut(b, s, paid, payout, fee), RowSettles(b)
  PROVE  Abs!Next
<1>1. bet \in [Bets -> Bet] /\ wallet \in [Users -> Wallet] BY DEF Sound, Typed
<1>2. payout \in 0..(s + s) /\ fee \in 0..(s + s) BY DEF PaysOut
<1> DEFINE P == Abs!Parties(b)
           w == wallet'
<1>3. \A u \in Users :
        /\ w[u].available = IF u \in paid THEN wallet[u].available + payout
                                          ELSE wallet[u].available
        /\ w[u].locked = IF u \in P THEN wallet[u].locked - s ELSE wallet[u].locked
  <2> HIDE DEF P
  <2>1. paid \subseteq P BY DEF P, PaysOut
  <2>2. ASSUME NEW u \in Users PROVE wallet[u].available + 0 = wallet[u].available
    BY <1>1 DEF Wallet
  <2> QED BY <2>1, <2>2 DEF consume_stake, P, PaysOut
<1> HIDE DEF w
<1> DEFINE A == Available'
           L == Locked'
<1>4. A = [u \in Users |-> w[u].available] /\ L = [u \in Users |-> w[u].locked]
  BY DEF Available, Locked, w
<1> HIDE DEF A, L, P
<1>5. A = [u \in Users |-> IF u \in paid THEN Available[u] + payout ELSE Available[u]]
  BY <1>3, <1>4 DEF Available
<1>6. L = [u \in Users |-> IF u \in P THEN Locked[u] - s ELSE Locked[u]]
  BY <1>3, <1>4 DEF Locked
<1>7. \A u \in P : Locked[u] >= s BY DEF Locked, P, PaysOut
<1>8. Abs!Move(b, "SETTLED") BY StatusMoves DEF RowSettles
<1>9. platform' = platform + fee BY DEF PaysOut
<1>10. UNCHANGED Abs!terms
  <2>1. \A c \in Bets : /\ bet'[c].creator_id = bet[c].creator_id
                        /\ bet'[c].opponent_id = bet[c].opponent_id
                        /\ bet'[c].stake_amount = bet[c].stake_amount
                        /\ bet'[c].asked_stake = bet[c].asked_stake
    BY DEF RowSettles
  <2> QED BY <2>1 DEF Abs!terms
<1>11. [c \in Bets |-> bet[c].stake_amount][b] = s
       /\ [c \in Bets |-> bet[c].status][b] = "PENDING_SETTLEMENT"
  OBVIOUS
<1>12. Abs!Settle(b, paid, payout, fee)
  <2>1. /\ paid \subseteq P
        /\ \/ paid = P /\ payout + payout + fee = s + s
           \/ (\E u \in P : paid = {u}) /\ payout + fee = s + s
    BY DEF PaysOut, P
  <2> QED BY <1>5, <1>6, <1>7, <1>8, <1>9, <1>10, <1>11, <2>1 DEF A, L, P, Abs!Settle
<1>13. \E c \in Bets : \E q \in SUBSET Users,
          x, y \in 0..([e \in Bets |-> bet[e].stake_amount][c]
                         + [e \in Bets |-> bet[e].stake_amount][c]) : Abs!Settle(c, q, x, y)
  BY <1>2, <1>11, <1>12
<1> QED BY <1>13 DEF Abs!Next

(* The row the end of settle_bet writes. *)
LEMMA CompletedRow ==
  ASSUME Sound, NEW t \in Workers, NEW b \in Bets, b = req[t].bet,
         NEW winner, NEW payout, NEW fee, NEW rate,
         CompleteSettlement(t, winner, payout, fee, rate)
  PROVE  RowSettles(b)
<1> DEFINE n == [bet[b] EXCEPT !.status = "SETTLED",
                   !.settlement_outcome = Path(b, req[t].outcome), !.winner_id = winner,
                   !.payout_amount = payout, !.platform_fee = fee, !.applied_fee_rate = rate]
<1>1. bet \in [Bets -> Bet] BY DEF Sound, Typed
<1>2. bet' = [bet EXCEPT ![b] = n] BY <1>1 DEF CompleteSettlement
<1>3. /\ n.status = "SETTLED" /\ n.creator_id = bet[b].creator_id
      /\ n.opponent_id = bet[b].opponent_id /\ n.stake_amount = bet[b].stake_amount
      /\ n.asked_stake = bet[b].asked_stake
  BY <1>1 DEF Bet
<1> HIDE DEF n
<1> QED BY <1>1, <1>2, <1>3 DEF RowSettles

(* What the two settlement commits have in common. *)
LEMMA SettledRow ==
  ASSUME Sound, NEW t \in Workers, SettleWinner(t) \/ SettleNoWinner(t),
         NEW b, b = req[t].bet
  PROVE  /\ b \in Bets /\ bet[b].status = "PENDING_SETTLEMENT"
         /\ req[t].stake = bet[b].stake_amount
         /\ RowSettles(b)
         /\ wallet' \in [Users -> Wallet]
         /\ Abs!Parties(b) = {bet[b].creator_id, bet[b].opponent_id}
<1>1. pc[t] = "settle_commit" BY DEF SettleWinner, SettleNoWinner
<1>2. b \in Bets /\ bet[b].creator_id \in Users /\ bet[b].opponent_id \in Users
  BY <1>1, ReadyToSettle
<1>3. SettleOK(t) /\ req[t].stake = bet[b].stake_amount
  BY <1>1 DEF Sound, RequestOK, SettlePCs, SettleOK
<1>4. Sound' BY SettleWinnerStep, SettleNoWinnerStep
<1>5. wallet' \in [Users -> Wallet] BY <1>4 DEF Sound, Typed
<1>6. bet \in [Bets -> Bet] BY DEF Sound, Typed
<1>7. bet[b].status = "PENDING_SETTLEMENT"
  BY DEF SettleWinner, SettleNoWinner, CompleteSettlement, CanSettle
<1>8. RowSettles(b)
  <2>1. CASE SettleWinner(t)
    <3> DEFINE winner == IF Path(req[t].bet, req[t].outcome) = "creator_wins"
                         THEN bet[req[t].bet].creator_id ELSE bet[req[t].bet].opponent_id
               p == WinnerAmounts(t).payout
               f == WinnerAmounts(t).fee
    <3>1. CompleteSettlement(t, winner, p, f, req[t].winner_fee_rate)
      BY <2>1 DEF SettleWinner
    <3> HIDE DEF winner, p, f
    <3> QED BY <1>2, <3>1, CompletedRow
  <2>2. CASE SettleNoWinner(t)
    <3> DEFINE p == NoWinnerAmounts(t).refund
               f == NoWinnerAmounts(t).fee
    <3>1. CompleteSettlement(t, NoOne, p, f + f, req[t].no_winner_fee_rate)
      BY <2>2 DEF SettleNoWinner
    <3> HIDE DEF p, f
    <3> QED BY <1>2, <3>1, CompletedRow
  <2> QED BY <2>1, <2>2
<1>9. Abs!Parties(b) = {bet[b].creator_id, bet[b].opponent_id}
  BY <1>2, ConstantsAssumption DEF ConstantsAssumption, Abs!Parties
<1> QED BY <1>2, <1>3, <1>5, <1>7, <1>8, <1>9

(* One party predicted the result and gets the pool, less the fee. *)
LEMMA WinnerIsSettle ==
  ASSUME Sound, NEW t \in Workers, SettleWinner(t)
  PROVE  Abs!Next
<1>1. pc[t] = "settle_commit" /\ pc[t] \in PCs BY DEF SettleWinner, PCs, SettlePCs
<1>2. PICK b, s, p, f : /\ b = req[t].bet /\ s = req[t].stake
                        /\ p = WinnerAmounts(t).payout /\ f = WinnerAmounts(t).fee
  OBVIOUS
<1>3. s \in Nat /\ p \in Nat /\ f \in Nat /\ p + f = s + s BY <1>1, <1>2, AmountsExact
<1>4. PICK winner, loser :
        LET creatorWins == Path(b, req[t].outcome) = "creator_wins"
        IN  /\ winner = IF creatorWins THEN bet[b].creator_id ELSE bet[b].opponent_id
            /\ loser = IF creatorWins THEN bet[b].opponent_id ELSE bet[b].creator_id
  OBVIOUS
<1>5. /\ winner \in Users /\ loser \in Users /\ winner # loser
      /\ CanRelease(t, winner) /\ CanRelease(t, loser) /\ psnap[t] = platform
  BY <1>1, <1>2, <1>4, ReadyToSettle
<1>6. /\ b \in Bets /\ bet[b].status = "PENDING_SETTLEMENT" /\ s = bet[b].stake_amount
      /\ wallet' \in [Users -> Wallet] /\ Abs!Parties(b) = {winner, loser}
  BY <1>2, <1>4, SettledRow
<1>7. RowSettles(b) BY <1>2, SettledRow
<1>8. /\ wallet' = transfer_locked_funds(t, winner, loser, s, p) /\ platform' = platform + f
  BY <1>2, <1>4, <1>5 DEF SettleWinner, CompleteSettlement
<1>9. /\ snap[t][winner] = wallet[winner] /\ wallet[winner].locked >= s
      /\ snap[t][loser] = wallet[loser] /\ wallet[loser].locked >= s
  BY <1>1, <1>2, <1>5, HeldWallet DEF CanRelease
<1>10. \A u \in Users : wallet'[u] =
         IF u \in Abs!Parties(b)
         THEN consume_stake(wallet[u], s, IF u \in {winner} THEN p ELSE 0) ELSE wallet[u]
  BY <1>5, <1>6, <1>8, <1>9 DEF transfer_locked_funds, Sound, Typed
<1>11. PaysOut(b, s, {winner}, p, f)
  BY <1>3, <1>5, <1>6, <1>8, <1>9, <1>10 DEF PaysOut
<1> QED BY <1>3, <1>5, <1>6, <1>7, <1>11, PoolPaid

(* Nobody predicted it: each party gets the own stake, less the fee. *)
LEMMA NoWinnerIsSettle ==
  ASSUME Sound, NEW t \in Workers, SettleNoWinner(t)
  PROVE  Abs!Next
<1>1. pc[t] = "settle_commit" /\ pc[t] \in PCs BY DEF SettleNoWinner, PCs, SettlePCs
<1>2. PICK b, s, p, f, c, d :
        /\ b = req[t].bet /\ s = req[t].stake
        /\ p = NoWinnerAmounts(t).refund /\ f = NoWinnerAmounts(t).fee
        /\ c = bet[req[t].bet].creator_id /\ d = bet[req[t].bet].opponent_id
  OBVIOUS
<1>3. s \in Nat /\ p \in Nat /\ f \in Nat /\ p + f = s BY <1>1, <1>2, AmountsExact
<1>4. f + f \in Nat /\ p + p + (f + f) = s + s BY <1>3
<1>5. /\ c \in Users /\ d \in Users /\ c # d
      /\ CanRelease(t, c) /\ CanRelease(t, d) /\ psnap[t] = platform
  BY <1>1, <1>2, ReadyToSettle
<1>6. /\ b \in Bets /\ bet[b].status = "PENDING_SETTLEMENT" /\ s = bet[b].stake_amount
      /\ wallet' \in [Users -> Wallet] /\ Abs!Parties(b) = {c, d}
  BY <1>2, SettledRow
<1>7. RowSettles(b) BY <1>2, SettledRow
<1>8. /\ wallet' = settle_no_winner(t, c, d, s, p) /\ platform' = platform + (f + f)
  BY <1>2, <1>5 DEF SettleNoWinner, CompleteSettlement
<1>9. /\ snap[t][c] = wallet[c] /\ wallet[c].locked >= s
      /\ snap[t][d] = wallet[d] /\ wallet[d].locked >= s
  BY <1>1, <1>2, <1>5, HeldWallet DEF CanRelease
<1>10. \A u \in Users : wallet'[u] =
         IF u \in Abs!Parties(b)
         THEN consume_stake(wallet[u], s, IF u \in {c, d} THEN p ELSE 0) ELSE wallet[u]
  BY <1>5, <1>6, <1>8, <1>9 DEF settle_no_winner, Sound, Typed
<1>11. PaysOut(b, s, {c, d}, p, f + f)
  BY <1>4, <1>5, <1>6, <1>8, <1>9, <1>10 DEF PaysOut
<1> QED BY <1>3, <1>4, <1>5, <1>6, <1>7, <1>11, PoolPaid

(* Every step of the core is a step of the escrow, or none. *)
LEMMA NextEscrow == Sound /\ [Next]_vars => [Abs!Next]_(Abs!escrow)
<1> SUFFICES ASSUME Sound, [Next]_vars PROVE Abs!Next \/ UNCHANGED Abs!escrow
  OBVIOUS
<1>1. ASSUME UNCHANGED rows PROVE UNCHANGED Abs!escrow BY <1>1, EscrowStutters
<1>2. CASE Tick BY <1>1, <1>2 DEF Tick
<1>3. CASE UNCHANGED vars BY <1>1, <1>3 DEF vars
<1>4. ASSUME NEW t \in Workers, BetServiceStep(t) PROVE Abs!Next \/ UNCHANGED rows
  <2>1. CASE CreateCommit(t) BY <2>1, CreateIsOpen
  <2>2. CASE AcceptCommit(t) BY <2>2, AcceptIsJoin
  <2>3. CASE CancelCommit(t) BY <2>3, CancelIsCancel
  <2>4. ASSUME ~CreateCommit(t), ~AcceptCommit(t), ~CancelCommit(t) PROVE UNCHANGED rows
    BY <1>4, <2>4 DEF BetServiceStep, CreateBegin, AcceptLock, LockStake, LockStakeRefused,
       CancelRead, UnlockStake, UnlockStakeRefused
  <2> QED BY <2>1, <2>2, <2>3, <2>4
<1>5. ASSUME NEW t \in Workers, AdminServiceStep(t) PROVE Abs!Next \/ UNCHANGED rows
  <2>1. CASE VoidCommit(t) BY <2>1, VoidIsVoid
  <2>2. ASSUME ~VoidCommit(t) PROVE UNCHANGED rows
    BY <1>5, <2>2 DEF AdminServiceStep, VoidLock, VoidRefund, VoidRefundRefused
  <2> QED BY <2>1, <2>2
<1>6. ASSUME NEW t \in Workers, SettlementStep(t) PROVE Abs!Next \/ UNCHANGED rows
  <2>1. CASE ConfirmCommit(t) BY <2>1, ConfirmIsQueue
  <2>2. CASE SettleWinner(t) BY <2>2, WinnerIsSettle
  <2>3. CASE SettleNoWinner(t) BY <2>3, NoWinnerIsSettle
  <2>4. ASSUME ~ConfirmCommit(t), ~SettleWinner(t), ~SettleNoWinner(t) PROVE UNCHANGED rows
    BY <1>6, <2>4 DEF SettlementStep, ConfirmLock, ConfirmScan, ConfirmRow, SettleSingle,
       SettleLock, SettleLockOn, SettleRefused, SettleRefusedOn, SettleWallet,
       SettlePlatform, SettleFail
  <2> QED BY <2>1, <2>2, <2>3, <2>4
<1>7. ASSUME NEW t \in Workers, DeadlockAbort(t) \/ Crash(t) PROVE UNCHANGED rows
  BY <1>7 DEF DeadlockAbort, Crash
<1> QED BY <1>1, <1>2, <1>3, <1>4, <1>5, <1>6, <1>7 DEF Next, ServiceStep

(* Whatever requests run at the same time, wait, fail or crash, the bets   *)
(* and the balances change as if each operation happened at once: the core *)
(* implements the escrow.                                                  *)
THEOREM EscrowImplemented == Spec => ImplementsEscrow
<1>1. Init => Abs!Init BY InitEscrow
<1>2. Consistent /\ [Next]_vars => [Abs!Next]_(Abs!escrow) BY NextEscrow DEF Consistent
<1> QED BY <1>1, <1>2, ConsistentAlways, PTL DEF Spec, ImplementsEscrow, Abs!Spec

-----------------------------------------------------------------------------
(***************************************************************************)
(* Locked balances are what the live bets hold.  The argument is about the *)
(* escrow: each of its operations moves the locked balance of a user by    *)
(* what the bet holds of him before and after, and so does the core, which *)
(* implements it.  The exception is a cancellation of a bet that is no     *)
(* longer open, and that shows in the audit trail.                         *)
(***************************************************************************)
AllClean == \A b \in Bets : CleanTrail(b)

(* The locked balances move by what bet b holds, and no other bet changes. *)
HoldMoves(b) ==
  /\ \A u \in Users : wallet'[u].locked + Held(u, b) = wallet[u].locked + Held(u, b)'
  /\ \A c \in Bets \ {b}, u \in Users : Held(u, c)' = Held(u, c)

(* What a bet holds is an amount. *)
LEMMA HeldType ==
  ASSUME Typed
  PROVE  \A u \in Users, b \in Bets : Held(u, b) \in Nat
BY DEF Typed, Held, Bet

(* The locked balances move by what all bets hold. *)
HoldsMove == \A u \in Users : wallet'[u].locked + Reserved(u) = wallet[u].locked + Reserved(u)'

LEMMA ReservedType ==
  ASSUME Typed, Typed', NEW u \in Users
  PROVE  Reserved(u) \in Nat /\ Reserved(u)' \in Nat
<1>1. IsFiniteSet(Bets) BY ConstantsAssumption DEF ConstantsAssumption
<1>2. [c \in Bets |-> Held(u, c)] \in [Bets -> Nat] BY HeldType
<1>3. [c \in Bets |-> Held(u, c)'] \in [Bets -> Nat] BY DEF Typed, Held, Bet
<1>4. Reserved(u) \in Nat BY <1>1, <1>2, SumType DEF Reserved
<1>5. Sum([c \in Bets |-> Held(u, c)'], Bets) \in Nat BY <1>1, <1>3, SumType
<1> QED BY <1>4, <1>5 DEF Reserved

LEMMA HoldMovesSum ==
  ASSUME Typed, Typed', NEW b \in Bets, HoldMoves(b)
  PROVE  HoldsMove
<1> SUFFICES ASSUME NEW u \in Users
             PROVE  wallet'[u].locked + Reserved(u) = wallet[u].locked + Reserved(u)'
  BY DEF HoldsMove
<1> DEFINE f == [c \in Bets |-> Held(u, c)]
           g == [c \in Bets |-> Held(u, c)']
<1>1. IsFiniteSet(Bets) BY ConstantsAssumption DEF ConstantsAssumption
<1>2. \A c \in Bets : Held(u, c) \in Nat BY HeldType
<1>3. \A c \in Bets : Held(u, c)' \in Nat BY DEF Typed, Held, Bet
<1>4. f \in [Bets -> Nat] /\ g \in [Bets -> Nat] BY <1>2, <1>3
<1>5. \A c \in Bets \ {b} : g[c] = f[c] BY DEF HoldMoves
<1>6. Sum(f, Bets) \in Nat /\ Sum(g, Bets) \in Nat BY <1>1, <1>4, SumType
<1>7. Sum(g, Bets) + f[b] = Sum(f, Bets) + g[b] BY <1>1, <1>4, <1>5, SumUpdate
<1>8. wallet'[u].locked + f[b] = wallet[u].locked + g[b] BY DEF HoldMoves
<1>9. wallet[u].locked \in Nat /\ wallet'[u].locked \in Nat BY DEF Typed, Wallet
<1>10. f[b] \in Nat /\ g[b] \in Nat BY <1>4
<1>11. Reserved(u) = Sum(f, Bets) /\ Reserved(u)' = Sum(g, Bets) BY DEF Reserved
<1> HIDE DEF f, g
<1> QED BY <1>6, <1>7, <1>8, <1>9, <1>10, <1>11

(* Every operation of the escrow but a late cancellation moves the locked  *)
(* balances by what the bet holds.                                         *)
LEMMA OpenHolds ==
  ASSUME Sound, Sound', NEW b \in Bets, NEW u \in Users, NEW s \in Nat,
         Abs!Open(b, u, s)
  PROVE  HoldMoves(b)
<1>1. /\ bet \in [Bets -> Bet] /\ wallet \in [Users -> Wallet]
      /\ bet' \in [Bets -> Bet] /\ wallet' \in [Users -> Wallet]
  BY DEF Sound, Typed
<1>2. bet[b].status = "none" /\ bet'[b].status = "OPEN" /\ bet'[b].creator_id = u
        /\ bet'[b].stake_amount = Stored(s)
  <2>1. Abs!Stored(s) = Stored(s) BY SameAmounts
  <2> QED BY <2>1 DEF Abs!Open, Abs!Move
<1>3. bet'[b].opponent_id = NoOne BY <1>2 DEF Sound, RowOK
<1>4. \A c \in Bets \ {b} : /\ bet'[c].status = bet[c].status
                            /\ bet'[c].creator_id = bet[c].creator_id
                            /\ bet'[c].opponent_id = bet[c].opponent_id
                            /\ bet'[c].stake_amount = bet[c].stake_amount
  BY DEF Abs!Open, Abs!Move
<1>5. \A v \in Users : wallet'[v].locked = IF v = u THEN wallet[v].locked + Stored(s)
                                                    ELSE wallet[v].locked
  <2>1. Abs!Stored(s) = Stored(s) BY SameAmounts
  <2> QED BY <2>1 DEF Abs!Open, Abs!Lock, Locked
<1>6. Stored(s) \in Nat /\ \A v \in Users : v # NoOne /\ wallet[v].locked \in Nat
  BY <1>1, StoredAmount, ConstantsAssumption DEF ConstantsAssumption, Wallet
<1> QED BY <1>2, <1>3, <1>4, <1>5, <1>6 DEF HoldMoves, Held, Party, LiveStatus

LEMMA JoinHolds ==
  ASSUME Sound, Sound', NEW b \in Bets, NEW u \in Users, Abs!Join(b, u)
  PROVE  HoldMoves(b)
<1>1. /\ bet \in [Bets -> Bet] /\ wallet \in [Users -> Wallet]
      /\ bet' \in [Bets -> Bet] /\ wallet' \in [Users -> Wallet]
  BY DEF Sound, Typed
<1>2. /\ bet[b].status = "OPEN" /\ bet'[b].status = "MATCHED"
      /\ u # bet[b].creator_id /\ bet'[b].opponent_id = u
  BY DEF Abs!Join, Abs!Move
<1>3. bet[b].opponent_id = NoOne BY <1>2 DEF Sound, RowOK
<1>4. \A c \in Bets : /\ bet'[c].creator_id = bet[c].creator_id
                      /\ bet'[c].stake_amount = bet[c].stake_amount
  BY DEF Abs!Join
<1>5. \A c \in Bets \ {b} : /\ bet'[c].status = bet[c].status
                            /\ bet'[c].opponent_id = bet[c].opponent_id
  BY DEF Abs!Join, Abs!Move
<1>6. \A v \in Users : wallet'[v].locked = IF v = u THEN wallet[v].locked + bet[b].stake_amount
                                                    ELSE wallet[v].locked
  BY DEF Abs!Join, Abs!Lock, Locked
<1>7. \A v \in Users : v # NoOne /\ wallet[v].locked \in Nat
  BY <1>1, ConstantsAssumption DEF ConstantsAssumption, Wallet
<1>8. bet[b].stake_amount \in Nat BY <1>1 DEF Bet
<1> QED BY <1>2, <1>3, <1>4, <1>5, <1>6, <1>7, <1>8 DEF HoldMoves, Held, Party, LiveStatus

(* Settling, voiding or cancelling a live bet releases what it held. *)
LEMMA EndHolds ==
  ASSUME Sound, Sound', NEW b \in Bets, NEW to, to \notin LiveStatus,
         bet[b].status \in LiveStatus, Abs!Move(b, to), UNCHANGED Abs!terms,
         NEW P, P = {bet[b].creator_id, bet[b].opponent_id} \ {NoOne},
         \A u \in P : Locked[u] >= bet[b].stake_amount,
         Locked' = [u \in Users |-> IF u \in P THEN Locked[u] - bet[b].stake_amount
                                              ELSE Locked[u]]
  PROVE  HoldMoves(b)
<1>1. /\ bet \in [Bets -> Bet] /\ wallet \in [Users -> Wallet]
      /\ bet' \in [Bets -> Bet] /\ wallet' \in [Users -> Wallet]
  BY DEF Sound, Typed
<1>2. bet'[b].status = to /\ \A c \in Bets \ {b} : bet'[c].status = bet[c].status
  BY DEF Abs!Move
<1>3. \A c \in Bets : /\ bet'[c].creator_id = bet[c].creator_id
                      /\ bet'[c].opponent_id = bet[c].opponent_id
                      /\ bet'[c].stake_amount = bet[c].stake_amount
  BY DEF Abs!terms
<1>4. \A v \in Users : v # NoOne /\ wallet[v].locked \in Nat
  BY <1>1, ConstantsAssumption DEF ConstantsAssumption, Wallet
<1>5. \A v \in Users : Party(v, b) <=> v \in P BY <1>4 DEF Party
<1>6. \A v \in Users : wallet'[v].locked
                          = IF v \in P THEN wallet[v].locked - bet[b].stake_amount
                                       ELSE wallet[v].locked
  BY DEF Locked
<1>7. bet[b].stake_amount \in Nat BY <1>1 DEF Bet
<1>8. \A v \in Users : Held(v, b) = IF v \in P THEN bet[b].stake_amount ELSE 0
  BY <1>5 DEF Held
<1>9. \A v \in Users : Held(v, b)' = 0 BY <1>2 DEF Held
<1>10. \A v \in Users : wallet'[v].locked + Held(v, b) = wallet[v].locked + Held(v, b)'
  BY <1>4, <1>6, <1>7, <1>8, <1>9
<1>11. \A c \in Bets \ {b}, v \in Users : Held(v, c)' = Held(v, c)
  BY <1>2, <1>3 DEF Held, Party
<1> QED BY <1>10, <1>11 DEF HoldMoves

LEMMA QueueHolds ==
  ASSUME Sound, Sound', NEW due \in SUBSET Bets, Abs!Queue(due)
  PROVE  HoldsMove
<1>1. \A c \in Bets : /\ bet'[c].creator_id = bet[c].creator_id
                      /\ bet'[c].opponent_id = bet[c].opponent_id
                      /\ bet'[c].stake_amount = bet[c].stake_amount
  BY DEF Abs!Queue, Abs!terms
<1>2. \A c \in Bets : bet'[c].status \in LiveStatus <=> bet[c].status \in LiveStatus
  BY DEF Abs!Queue, LiveStatus
<1>3. \A u \in Users : wallet'[u].locked = wallet[u].locked
  BY DEF Abs!Queue, Abs!balances, Locked
<1>4. ASSUME NEW u \in Users PROVE Reserved(u)' = Reserved(u)
  <2>1. \A c \in Bets : Held(u, c)' = Held(u, c) BY <1>1, <1>2 DEF Held, Party
  <2> QED BY <2>1 DEF Reserved
<1> QED BY <1>3, <1>4 DEF HoldsMove

(* An operation of the escrow that cancels open bets only moves the locked *)
(* balances by what the bets hold.                                         *)
LEMMA EscrowHolds ==
  ASSUME Sound, Sound', Abs!Next,
         \A b \in Bets : Abs!Cancel(b) => bet[b].status = "OPEN"
  PROVE  HoldsMove
<1>0. Typed /\ Typed' /\ bet \in [Bets -> Bet] BY DEF Sound, Typed
<1>1. ASSUME NEW b \in Bets, NEW u \in Users, NEW s \in 0..Abs!Mills(Available[u]),
             Abs!Open(b, u, s)
      PROVE  HoldsMove
  <2>1. s \in Nat OBVIOUS
  <2> QED BY <1>0, <1>1, <2>1, OpenHolds, HoldMovesSum
<1>2. ASSUME NEW b \in Bets, NEW u \in Users, Abs!Join(b, u) PROVE HoldsMove
  BY <1>0, <1>2, JoinHolds, HoldMovesSum
<1>3. ASSUME NEW due \in SUBSET Bets, Abs!Queue(due) PROVE HoldsMove
  BY <1>3, QueueHolds
<1>4. ASSUME NEW b \in Bets, NEW paid, NEW payout, NEW fee, Abs!Settle(b, paid, payout, fee)
      PROVE  HoldsMove
  <2>1. HoldMoves(b)
    BY <1>4, EndHolds DEF Abs!Settle, Abs!Parties, LiveStatus
  <2> QED BY <1>0, <2>1, HoldMovesSum
<1>5. ASSUME NEW b \in Bets, Abs!Void(b) PROVE HoldsMove
  <2>1. HoldMoves(b)
    BY <1>5, EndHolds DEF Abs!Void, Abs!Release, Abs!Parties, LiveStatus
  <2> QED BY <1>0, <2>1, HoldMovesSum
<1>6. ASSUME NEW b \in Bets, Abs!Cancel(b) PROVE HoldsMove
  <2>1. bet[b].status = "OPEN" BY <1>6
  <2>2. bet[b].opponent_id = NoOne /\ bet[b].creator_id \in Users
    BY <2>1 DEF Sound, RowOK
  <2>3. {bet[b].creator_id} = {bet[b].creator_id, bet[b].opponent_id} \ {NoOne}
    BY <2>2, ConstantsAssumption DEF ConstantsAssumption
  <2>4. HoldMoves(b)
    BY <1>6, <2>1, <2>3, EndHolds DEF Abs!Cancel, Abs!Release, LiveStatus
  <2> QED BY <1>0, <2>4, HoldMovesSum
<1> QED BY <1>1, <1>2, <1>3, <1>4, <1>5, <1>6 DEF Abs!Next

-----------------------------------------------------------------------------
(* The trails before a step are clean if those after it are. *)
LEMMA CleanBefore ==
  ASSUME Sound, Sound', AllClean',
         \A b \in Bets : \A e \in EventTypes : events'[b][e] >= events[b][e]
  PROVE  AllClean
<1>1. /\ events \in [Bets -> [EventTypes -> Nat]]
      /\ events' \in [Bets -> [EventTypes -> Nat]]
  BY DEF Sound, Typed
<1> SUFFICES ASSUME NEW b \in Bets PROVE CleanTrail(b) BY DEF AllClean
<1>2. CleanTrail(b)' BY DEF AllClean
<1> QED BY <1>1, <1>2 DEF CleanTrail, EventTypes

(* A logged transition that leaves clean trails found clean trails, and if *)
(* it is a cancellation it found an open bet.                              *)
LEMMA LoggedClean ==
  ASSUME Sound, Sound', AuditExact, AllClean',
         NEW b \in Bets, NEW type \in EventTypes, NEW to,
         Follows(b, type, to), Logged(b, type, to)
  PROVE  AllClean /\ (to = "CANCELLED" => bet[b].status = "OPEN")
<1>1. /\ events \in [Bets -> [EventTypes -> Nat]] /\ bet \in [Bets -> Bet]
      /\ bet[b].status \in BetStatus \cup {"none"}
  BY DEF Sound, Typed, Bet
<1>2. \A c \in Bets : \A e \in EventTypes : events'[c][e] >= events[c][e]
  BY <1>1 DEF Logged
<1>3. AllClean BY <1>2, CleanBefore
<1>4. ASSUME to = "CANCELLED" PROVE bet[b].status = "OPEN"
  <2>1. type = "CANCELLED" /\ bet[b].status # "none" BY <1>4 DEF Follows
  <2>2. /\ events'[b]["CANCELLED"] = events[b]["CANCELLED"] + 1
        /\ events'[b]["MATCHED"] = events[b]["MATCHED"]
        /\ events'[b]["VOIDED"] = events[b]["VOIDED"]
    BY <1>1, <2>1 DEF Logged, EventTypes
  <2>3. CleanTrail(b)' BY DEF AllClean
  <2>4. events[b]["CANCELLED"] \in Nat BY <1>1 DEF EventTypes
  <2>5. events[b]["CANCELLED"] = 0 /\ events[b]["MATCHED"] = 0 /\ events[b]["VOIDED"] = 0
    BY <2>2, <2>3, <2>4 DEF CleanTrail
  <2>6. Audited(b) BY DEF AuditExact
  <2>7. CASE bet[b].status = "MATCHED" BY <2>5, <2>6, <2>7 DEF Audited, Trail
  <2>8. CASE bet[b].status = "PENDING_SETTLEMENT" BY <2>5, <2>6, <2>8 DEF Audited, Trail
  <2>9. CASE bet[b].status = "SETTLED" BY <2>5, <2>6, <2>9 DEF Audited, Trail
  <2>10. CASE bet[b].status = "VOIDED" BY <2>5, <2>6, <2>10 DEF Audited, Trail
  <2>11. CASE bet[b].status = "CANCELLED" BY <2>5, <2>6, <2>11 DEF Audited
  <2> QED BY <1>1, <2>1, <2>7, <2>8, <2>9, <2>10, <2>11 DEF BetStatus
<1> QED BY <1>3, <1>4

(* A step that leaves clean trails found clean trails, and moved the       *)
(* locked balances by what the bets hold.                                  *)
LEMMA CleanHolds ==
  ASSUME Sound, Sound', AuditExact, AllClean', [Next]_vars
  PROVE  AllClean /\ HoldsMove
<1>1. CASE UNCHANGED rows
  <2>1. bet' = bet /\ wallet' = wallet /\ events' = events BY <1>1 DEF rows
  <2>2. AllClean BY <2>1 DEF AllClean, CleanTrail
  <2> QED BY <2>1, <2>2 DEF HoldsMove, Reserved, Held, Party
<1>2. ASSUME NEW t \in Workers, ConfirmCommit(t) PROVE AllClean /\ HoldsMove
  <2>1. events \in [Bets -> [EventTypes -> Nat]] BY DEF Sound, Typed
  <2>2. \A b \in Bets : \A e \in EventTypes : events'[b][e] >= events[b][e]
    BY <1>2, <2>1 DEF ConfirmCommit
  <2>3. AllClean BY <2>2, CleanBefore
  <2>4. PICK C : C = req[t].cached OBVIOUS
  <2>5. C \in SUBSET Bets /\ \A b \in C : bet[b].status = "MATCHED"
    BY <1>2, <2>4 DEF ConfirmCommit, Sound, RequestOK, ConfirmOK, Typed, Request
  <2>6. bet \in [Bets -> Bet] /\ wallet' = wallet BY <1>2 DEF Sound, Typed, ConfirmCommit
  <2>7. \A c \in Bets : /\ bet'[c].creator_id = bet[c].creator_id
                        /\ bet'[c].opponent_id = bet[c].opponent_id
                        /\ bet'[c].stake_amount = bet[c].stake_amount
                        /\ bet'[c].status \in LiveStatus <=> bet[c].status \in LiveStatus
    BY <1>2, <2>4, <2>5, <2>6 DEF ConfirmCommit, Bet, LiveStatus
  <2>8. ASSUME NEW u \in Users PROVE Reserved(u)' = Reserved(u)
    <3>1. \A c \in Bets : Held(u, c)' = Held(u, c) BY <2>7 DEF Held, Party
    <3> QED BY <3>1 DEF Reserved
  <2> QED BY <2>3, <2>6, <2>8 DEF HoldsMove
<1>3. ASSUME NEW t \in Workers,
             \/ CreateCommit(t) \/ AcceptCommit(t) \/ CancelCommit(t) \/ VoidCommit(t)
             \/ SettleWinner(t) \/ SettleNoWinner(t)
      PROVE  AllClean /\ HoldsMove
  <2>1. PICK b \in Bets, type \in EventTypes, to \in BetStatus :
          Follows(b, type, to) /\ Logged(b, type, to)
    BY <1>3, CommitMoves
  <2>2. AllClean /\ (to = "CANCELLED" => bet[b].status = "OPEN")
    BY <2>1, LoggedClean
  <2>3. bet'[b].status # bet[b].status BY <2>1, <2>2 DEF Follows, Logged
  <2>4. ASSUME NEW c \in Bets, Abs!Cancel(c) PROVE bet[c].status = "OPEN"
    <3>1. bet'[c].status = "CANCELLED" /\ \A d \in Bets \ {c} : bet'[d].status = bet[d].status
      BY <2>4 DEF Abs!Cancel, Abs!Move
    <3>2. c = b BY <2>3, <3>1
    <3> QED BY <2>1, <2>2, <3>1, <3>2 DEF Logged
  <2>5. Abs!Next
    BY <1>3, CreateIsOpen, AcceptIsJoin, CancelIsCancel, VoidIsVoid, WinnerIsSettle,
       NoWinnerIsSettle
  <2> QED BY <2>2, <2>4, <2>5, EscrowHolds
<1> QED BY <1>1, <1>2, <1>3, RowsWritten

(* Every step keeps the stakes backed. *)
LEMMA NextKeepsStakes ==
  ASSUME Sound, Sound', AuditExact, StakesBacked, [Next]_vars
  PROVE  StakesBacked'
<1>1. SUFFICES ASSUME AllClean', NEW u \in Users PROVE wallet'[u].locked = Reserved(u)'
  BY DEF StakesBacked, AllClean, LockedIsReserved
<1>2. AllClean /\ HoldsMove BY <1>1, CleanHolds
<1>3. wallet[u].locked = Reserved(u) BY <1>2 DEF StakesBacked, AllClean, LockedIsReserved
<1>4. wallet'[u].locked + Reserved(u) = wallet[u].locked + Reserved(u)' BY <1>2 DEF HoldsMove
<1>5. Reserved(u) \in Nat /\ Reserved(u)' \in Nat BY ReservedType DEF Sound
<1>6. wallet'[u].locked \in Nat BY DEF Sound, Typed, Wallet
<1> QED BY <1>3, <1>4, <1>5, <1>6

(* For any number of users, bets, requests and crashes: as long as the     *)
(* audit trail shows no cancellation that came too late, every locked      *)
(* balance is exactly what the live bets of its owner hold.                *)
THEOREM StakesAlwaysBacked == Spec => []StakesBacked
<1>1. Init => StakesBacked
  <2> SUFFICES ASSUME Init, NEW u \in Users PROVE wallet[u].locked = Reserved(u)
    BY DEF StakesBacked, LockedIsReserved
  <2> DEFINE f == [b \in Bets |-> Held(u, b)]
  <2>1. \A b \in Bets : f[b] = 0 BY DEF Init, InitRest, NoBet, Held, LiveStatus
  <2>2. wallet[u].locked = 0 BY DEF Init, InitRest
  <2>3. Sum(f, Bets) = 0 BY <2>1, SumZero
  <2> QED BY <2>2, <2>3 DEF Reserved
<1>2. Consistent /\ AuditExact /\ StakesBacked /\ [Next]_vars => StakesBacked'
  BY NextConsistent, NextKeepsStakes DEF Consistent
<1> QED BY <1>1, <1>2, ConsistentAlways, AuditAlwaysExact, PTL DEF Spec
=============================================================================
