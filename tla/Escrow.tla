------------------------------- MODULE Escrow -------------------------------
(***************************************************************************)
(* What the betting core promises, without requests, sessions and locks: a *)
(* bet is a two-party escrow, and each operation on it happens at once, on *)
(* the balances of that moment.  A cancellation is promised less than the  *)
(* documentation says: it releases the creator's stake from any bet, open  *)
(* or not.  And the stake of a bet is the amount asked, rounded, of which  *)
(* the creator does not pay the last cent when it was half a cent.         *)
(***************************************************************************)
EXTENDS Naturals, Amounts

CONSTANTS Users, Bets, InitFunds, NoOne

VARIABLES
  available, locked,    \* the balances of every user
  house,                \* what the platform has earned
  phase,                \* where every bet stands
  creator, opponent,
  asked,                \* the stake the creator asked for, in mills
  stake                 \* the stake each party has in the bet

balances == <<available, locked, house>>
terms    == <<creator, opponent, asked, stake>>
escrow   == <<balances, phase, terms>>

Parties(b) == {creator[b], opponent[b]} \ {NoOne}

Init ==
  /\ available = InitFunds
  /\ locked = [u \in Users |-> 0]
  /\ house = 0
  /\ phase = [b \in Bets |-> "none"]
  /\ creator = [b \in Bets |-> NoOne]
  /\ opponent = [b \in Bets |-> NoOne]
  /\ asked = [b \in Bets |-> 0]
  /\ stake = [b \in Bets |-> 0]

Move(b, to) == phase' = [phase EXCEPT ![b] = to]

(* User u pays an amount, and amount s becomes locked. *)
Lock(u, paid, s) ==
  /\ available[u] >= paid
  /\ available' = [available EXCEPT ![u] = available[u] - paid]
  /\ locked' = [locked EXCEPT ![u] = locked[u] + s]
  /\ UNCHANGED house

(* Amount s of every user of P becomes available again. *)
Release(P, s) ==
  /\ \A u \in P : locked[u] >= s
  /\ available' = [u \in Users |-> IF u \in P THEN available[u] + s ELSE available[u]]
  /\ locked' = [u \in Users |-> IF u \in P THEN locked[u] - s ELSE locked[u]]
  /\ UNCHANGED house

Open(b, u, amount) ==
  /\ phase[b] = "none"
  /\ Lock(u, Stored(amount) - HalfCent(amount), Stored(amount))
  /\ Move(b, "OPEN")
  /\ creator' = [creator EXCEPT ![b] = u]
  /\ asked' = [asked EXCEPT ![b] = amount]
  /\ stake' = [stake EXCEPT ![b] = Stored(amount)]
  /\ UNCHANGED opponent

Join(b, u) ==
  /\ phase[b] = "OPEN"
  /\ u # creator[b]
  /\ Lock(u, stake[b], stake[b])
  /\ Move(b, "MATCHED")
  /\ opponent' = [opponent EXCEPT ![b] = u]
  /\ UNCHANGED <<creator, asked, stake>>

(* The result of a match is in: some of its bets are due. *)
Queue(due) ==
  /\ \A b \in due : phase[b] = "MATCHED"
  /\ phase' = [b \in Bets |-> IF b \in due THEN "PENDING_SETTLEMENT" ELSE phase[b]]
  /\ UNCHANGED <<balances, terms>>

(* The pool is paid out, the house keeping the fee: to one party, or to    *)
(* both in equal parts.                                                    *)
Settle(b, paid, payout, fee) ==
  /\ phase[b] = "PENDING_SETTLEMENT"
  /\ paid \subseteq Parties(b)
  /\ \/ paid = Parties(b) /\ payout + payout + fee = stake[b] + stake[b]
     \/ (\E u \in Parties(b) : paid = {u}) /\ payout + fee = stake[b] + stake[b]
  /\ \A u \in Parties(b) : locked[u] >= stake[b]
  /\ available' = [u \in Users |-> IF u \in paid THEN available[u] + payout ELSE available[u]]
  /\ locked' = [u \in Users |-> IF u \in Parties(b) THEN locked[u] - stake[b] ELSE locked[u]]
  /\ house' = house + fee
  /\ Move(b, "SETTLED")
  /\ UNCHANGED terms

Void(b) ==
  /\ phase[b] \in {"OPEN", "MATCHED"}
  /\ Release(Parties(b), stake[b])
  /\ Move(b, "VOIDED")
  /\ UNCHANGED terms

Cancel(b) ==
  /\ phase[b] # "none"
  /\ Release({creator[b]}, stake[b])
  /\ Move(b, "CANCELLED")
  /\ UNCHANGED terms

Next ==
  \/ \E b \in Bets, u \in Users : \E s \in 0..Mills(available[u]) : Open(b, u, s)
  \/ \E b \in Bets, u \in Users : Join(b, u)
  \/ \E due \in SUBSET Bets : Queue(due)
  \/ \E b \in Bets : \E paid \in SUBSET Users, payout, fee \in 0..(stake[b] + stake[b]) :
       Settle(b, paid, payout, fee)
  \/ \E b \in Bets : Void(b) \/ Cancel(b)

Spec == Init /\ [][Next]_escrow
=============================================================================
