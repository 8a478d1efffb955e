---------------------------- MODULE MoneyProofs -----------------------------
(***************************************************************************)
(* Money and ledger.  Only commits write wallets, the platform account or  *)
(* the ledger, and by Sound a commit computes on the committed rows.  Each *)
(* of them then moves money between the two balances of a user, or from a  *)
(* pool to its parties and the platform, and writes ledger entries for     *)
(* exactly what it moved, but for the cent that rounding leaves the        *)
(* creator of a bet whose stake ends in half a cent.                       *)
(***************************************************************************)
EXTENDS ConsistencyProofs

-----------------------------------------------------------------------------
(* Sums over a finite set. *)

(* The units of finitely many terms are finitely many. *)
LEMMA UnitsFinite ==
  ASSUME NEW S, IsFiniteSet(S), NEW f \in [S -> Nat]
  PROVE  IsFiniteSet(Units(f, S))
<1> DEFINE g == [x \in S |-> {x} \X (1..f[x])]
           T == {{x} \X (1..f[x]) : x \in S}
<1>1. g \in Surjection(S, T)
  BY DEF Surjection
<1>2. IsFiniteSet(T)
  BY <1>1, FS_Surjection
<1>3. ASSUME NEW x \in S PROVE IsFiniteSet({x} \X (1..f[x]))
  <2>1. IsFiniteSet({x}) BY FS_Singleton
  <2>2. IsFiniteSet(1..f[x]) BY FS_Interval
  <2> QED BY <2>1, <2>2, FS_Product
<1>4. \A U \in T : IsFiniteSet(U)
  BY <1>3
<1> QED BY <1>2, <1>4, FS_UNION DEF Units

(* A sum is a natural number. *)
LEMMA SumType ==
  ASSUME NEW S, IsFiniteSet(S), NEW f \in [S -> Nat]
  PROVE  Sum(f, S) \in Nat
BY UnitsFinite, FS_CardinalityType DEF Sum

(* Only the terms inside S count. *)
LEMMA SumSame ==
  ASSUME NEW S, NEW f, NEW g, \A x \in S : f[x] = g[x]
  PROVE  Sum(f, S) = Sum(g, S)
<1>1. Units(f, S) = Units(g, S) BY DEF Units
<1> QED BY <1>1 DEF Sum

(* A sum of zeroes is zero. *)
LEMMA SumZero ==
  ASSUME NEW S, NEW f, \A x \in S : f[x] = 0
  PROVE  Sum(f, S) = 0
<1>1. Units(f, S) = {} BY DEF Units
<1> QED BY <1>1, FS_EmptySet DEF Sum

(* One term can be split off. *)
LEMMA SumSplit ==
  ASSUME NEW S, IsFiniteSet(S), NEW f \in [S -> Nat], NEW x \in S
  PROVE  Sum(f, S) = Sum(f, S \ {x}) + f[x]
<1> DEFINE A == Units(f, S \ {x})
           B == {x} \X (1..f[x])
           h == [y \in S \ {x} |-> f[y]]
<1>1. Units(f, S) = A \cup B
  BY DEF Units
<1>2. A \cap B = {}
  BY DEF Units
<1>3. IsFiniteSet(A)
  <2>1. IsFiniteSet(S \ {x}) BY FS_RemoveElement
  <2>2. h \in [S \ {x} -> Nat] OBVIOUS
  <2>3. A = Units(h, S \ {x}) BY DEF Units
  <2> QED BY <2>1, <2>2, <2>3, UnitsFinite
<1>4. IsFiniteSet(B) /\ Cardinality(B) = f[x]
  <2>1. IsFiniteSet({x}) /\ Cardinality({x}) = 1 BY FS_Singleton
  <2>2. f[x] \in Nat OBVIOUS
  <2>3. IsFiniteSet(1..f[x]) /\ Cardinality(1..f[x]) = f[x] BY <2>2, FS_Interval
  <2>4. IsFiniteSet(B) /\ Cardinality(B) = 1 * Cardinality(1..f[x])
    BY <2>1, <2>3, FS_Product
  <2> QED BY <2>2, <2>3, <2>4
<1>5. Cardinality(A \cup B) = Cardinality(A) + Cardinality(B) - Cardinality(A \cap B)
  BY <1>3, <1>4, FS_Union
<1>6. Cardinality(A \cap B) = 0 BY <1>2, FS_EmptySet
<1>7. Cardinality(A) \in Nat BY <1>3, FS_CardinalityType
<1> QED BY <1>1, <1>4, <1>5, <1>6, <1>7 DEF Sum

(* Changing one term moves the sum by the change of that term. *)
LEMMA SumUpdate ==
  ASSUME NEW S, IsFiniteSet(S), NEW f \in [S -> Nat], NEW g \in [S -> Nat],
         NEW x \in S, \A y \in S \ {x} : g[y] = f[y]
  PROVE  Sum(g, S) + f[x] = Sum(f, S) + g[x]
<1>1. Sum(f, S \ {x}) = Sum(g, S \ {x}) BY SumSame
<1>2. Sum(f, S) = Sum(f, S \ {x}) + f[x] BY SumSplit
<1>3. Sum(g, S) = Sum(g, S \ {x}) + g[x] BY SumSplit
<1>4. Sum(f, S \ {x}) \in Nat
  <2> DEFINE h == [y \in S \ {x} |-> f[y]]
  <2>1. IsFiniteSet(S \ {x}) BY FS_RemoveElement
  <2>2. Sum(f, S \ {x}) = Sum(h, S \ {x}) BY SumSame
  <2> QED BY <2>1, <2>2, SumType
<1> QED BY <1>1, <1>2, <1>3, <1>4

(* Changing two terms moves the sum by both changes. *)
LEMMA SumUpdateTwo ==
  ASSUME NEW S, IsFiniteSet(S), NEW f \in [S -> Nat], NEW g \in [S -> Nat],
         NEW x \in S, NEW z \in S, x # z,
         \A y \in S \ {x, z} : g[y] = f[y]
  PROVE  Sum(g, S) + f[x] + f[z] = Sum(f, S) + g[x] + g[z]
<1> DEFINE h == [f EXCEPT ![x] = g[x]]
<1>1. h \in [S -> Nat] OBVIOUS
<1>2. h[x] = g[x] /\ h[z] = f[z] /\ \A y \in S \ {x} : h[y] = f[y] OBVIOUS
<1>3. \A y \in S \ {z} : g[y] = h[y] OBVIOUS
<1> HIDE DEF h
<1>4. Sum(h, S) + f[x] = Sum(f, S) + h[x] BY <1>1, <1>2, SumUpdate
<1>5. Sum(g, S) + h[z] = Sum(h, S) + g[z] BY <1>1, <1>3, SumUpdate
<1>6. Sum(f, S) \in Nat /\ Sum(g, S) \in Nat /\ Sum(h, S) \in Nat
  BY <1>1, SumType
<1> QED BY <1>2, <1>4, <1>5, <1>6

-----------------------------------------------------------------------------

(* The entries of a user that take from the locked balance, and those that *)
(* give to the available balance.                                          *)
Debits(l)  == l["STAKE_UNLOCK"] + l["VOID_REFUND"] + l["SETTLEMENT_DEDUCT"] + l["FEE_DEDUCT"]
Credits(l) == l["STAKE_UNLOCK"] + l["VOID_REFUND"] + l["PAYOUT_CREDIT"] + l["REFUND_CREDIT"]

(* What gave bet c its gain stays as it is. *)
GainKept(c) ==
  bet'[c].creator_id = bet[c].creator_id /\ bet'[c].asked_stake = bet[c].asked_stake

(* The entries written for bet b explain the balances that changed, and    *)
(* the gain of its creator.                                                *)
Explained(b) ==
  /\ \A c \in Bets \ {b} : ledger'[c] = ledger[c] /\ GainKept(c)
  /\ \A u \in Users :
       LET l == ledger[b][u]
           k == ledger'[b][u]
       IN  /\ wallet'[u].locked + Debits(k) + l["STAKE_LOCK"]
              = wallet[u].locked + Debits(l) + k["STAKE_LOCK"]
           /\ wallet'[u].available + Credits(l) + k["STAKE_LOCK"] + GainOf(u, b)
              = wallet[u].available + Credits(k) + l["STAKE_LOCK"] + GainOf(u, b)'

(* The two balances of u, together. *)
Worth(u) == wallet[u].available + wallet[u].locked

(* Only the wallets of u and v change, and what they lose together is what *)
(* the platform earns, the fee recorded on bet b, less the gain b brings.  *)
Balanced(u, v, b) ==
  /\ \A x \in Users \ {u, v} : wallet'[x] = wallet[x]
  /\ IF u = v THEN Worth(u)' + platform' + Gain(b) = Worth(u) + platform + Gain(b)'
              ELSE Worth(u)' + Worth(v)' + platform' + Gain(b)
                     = Worth(u) + Worth(v) + platform + Gain(b)'
  /\ \A c \in Bets \ {b} : bet'[c].platform_fee = bet[c].platform_fee /\ GainKept(c)
  /\ platform' + bet[b].platform_fee = platform + bet'[b].platform_fee

(* What a commit does to the money: nothing, or a balanced and explained   *)
(* move.                                                                   *)
MoneyMove ==
  \/ wallet' = wallet /\ platform' = platform /\ ledger' = ledger
     /\ \A c \in Bets : bet'[c].platform_fee = bet[c].platform_fee /\ GainKept(c)
  \/ \E u, v \in Users, b \in Bets : Balanced(u, v, b) /\ Explained(b)

(* Gains are amounts. *)
GainsTyped ==
  /\ \A c \in Bets : Gain(c) \in Nat
  /\ \A c \in Bets, u \in Users : GainOf(u, c) \in Nat
  /\ \A u \in Users : StakeGain(u) \in Nat

(* They are when the rows have their types, before and after a step. *)
LEMMA GainTypes == Typed => GainsTyped
<1> SUFFICES ASSUME Typed PROVE GainsTyped OBVIOUS
<1>1. \A c \in Bets : Gain(c) \in Nat
  <2>1. \A c \in Bets : bet[c].asked_stake \in Nat BY DEF Typed, Bet
  <2> QED BY <2>1, StoredAmount DEF Gain
<1>2. \A c \in Bets, u \in Users : GainOf(u, c) \in Nat BY <1>1 DEF GainOf
<1>3. ASSUME NEW u \in Users PROVE StakeGain(u) \in Nat
  <2> DEFINE F == [c \in Bets |-> GainOf(u, c)]
  <2>1. IsFiniteSet(Bets) BY ConstantsAssumption DEF ConstantsAssumption
  <2>2. F \in [Bets -> Nat] BY <1>2
  <2>3. Sum(F, Bets) \in Nat BY <2>1, <2>2, SumType
  <2> QED BY <2>3 DEF StakeGain
<1> QED BY <1>1, <1>2, <1>3 DEF GainsTyped

(* The same after a step. *)
LEMMA GainTypesNext == Typed' => GainsTyped'
BY GainTypes, PTL

(* When only bet b may bring a gain, it is what the gains grow by. *)
LEMMA GainsUpdate ==
  ASSUME Typed, Typed', NEW b \in Bets, \A c \in Bets \ {b} : GainKept(c)
  PROVE  /\ Sum([c \in Bets |-> Gain(c)'], Bets) + Gain(b)
            = Sum([c \in Bets |-> Gain(c)], Bets) + Gain(b)'
         /\ Sum([c \in Bets |-> Gain(c)], Bets) \in Nat
         /\ Sum([c \in Bets |-> Gain(c)'], Bets) \in Nat
         /\ \A u \in Users :
              StakeGain(u)' + GainOf(u, b) = StakeGain(u) + GainOf(u, b)'
<1>0. IsFiniteSet(Bets) BY ConstantsAssumption DEF ConstantsAssumption
<1>1. /\ \A c \in Bets : Gain(c) \in Nat
      /\ \A c \in Bets, u \in Users : GainOf(u, c) \in Nat
  BY GainTypes DEF GainsTyped
<1>2. /\ \A c \in Bets : Gain(c)' \in Nat
      /\ \A c \in Bets, u \in Users : GainOf(u, c)' \in Nat
  BY GainTypesNext DEF GainsTyped
<1>3. \A c \in Bets \ {b} : Gain(c)' = Gain(c) /\ \A u \in Users : GainOf(u, c)' = GainOf(u, c)
  BY DEF GainKept, Gain, GainOf
<1>4. /\ Sum([c \in Bets |-> Gain(c)'], Bets) + Gain(b)
         = Sum([c \in Bets |-> Gain(c)], Bets) + Gain(b)'
      /\ Sum([c \in Bets |-> Gain(c)], Bets) \in Nat
      /\ Sum([c \in Bets |-> Gain(c)'], Bets) \in Nat
  <2> DEFINE F == [c \in Bets |-> Gain(c)]
             G == [c \in Bets |-> Gain(c)']
  <2>1. F \in [Bets -> Nat] /\ G \in [Bets -> Nat] BY <1>1, <1>2
  <2>2. \A c \in Bets \ {b} : G[c] = F[c] BY <1>3
  <2>3. F[b] = Gain(b) /\ G[b] = Gain(b)' OBVIOUS
  <2> HIDE DEF F, G
  <2>4. Sum(G, Bets) + F[b] = Sum(F, Bets) + G[b] BY <1>0, <2>1, <2>2, SumUpdate
  <2>5. Sum(F, Bets) \in Nat /\ Sum(G, Bets) \in Nat BY <1>0, <2>1, SumType
  <2> QED BY <2>3, <2>4, <2>5 DEF F, G
<1>5. ASSUME NEW u \in Users
      PROVE  StakeGain(u)' + GainOf(u, b) = StakeGain(u) + GainOf(u, b)'
  <2> DEFINE F == [c \in Bets |-> GainOf(u, c)]
             G == [c \in Bets |-> GainOf(u, c)']
  <2>1. F \in [Bets -> Nat] /\ G \in [Bets -> Nat] BY <1>1, <1>2
  <2>2. \A c \in Bets \ {b} : G[c] = F[c] BY <1>3
  <2>3. F[b] = GainOf(u, b) /\ G[b] = GainOf(u, b)' OBVIOUS
  <2>4. StakeGain(u) = Sum(F, Bets) /\ StakeGain(u)' = Sum(G, Bets) BY DEF StakeGain
  <2> HIDE DEF F, G
  <2>5. Sum(G, Bets) + F[b] = Sum(F, Bets) + G[b] BY <1>0, <2>1, <2>2, SumUpdate
  <2> QED BY <2>3, <2>4, <2>5
<1> QED BY <1>4, <1>5

(* When no bet brings one, nobody's gain changes. *)
LEMMA GainsSame ==
  ASSUME \A c \in Bets : GainKept(c)
  PROVE  /\ \A u \in Users : StakeGain(u)' = StakeGain(u)
         /\ Sum([c \in Bets |-> Gain(c)'], Bets) = Sum([c \in Bets |-> Gain(c)], Bets)
<1>1. \A c \in Bets : Gain(c)' = Gain(c) /\ \A u \in Users : GainOf(u, c)' = GainOf(u, c)
  BY DEF GainKept, Gain, GainOf
<1>2. [c \in Bets |-> Gain(c)'] = [c \in Bets |-> Gain(c)] BY <1>1
<1>3. ASSUME NEW u \in Users PROVE StakeGain(u)' = StakeGain(u)
  <2>1. [c \in Bets |-> GainOf(u, c)'] = [c \in Bets |-> GainOf(u, c)] BY <1>1
  <2> QED BY <2>1 DEF StakeGain
<1> QED BY <1>2, <1>3

-----------------------------------------------------------------------------
(* Sums over the users, when the wallets of u and v change. *)
LEMMA BalancedKeepsMoney ==
  ASSUME Typed, Typed', NEW u \in Users, NEW v \in Users, NEW b \in Bets,
         Balanced(u, v, b), MoneyTraced
  PROVE  MoneyTraced'
<1> DEFINE A == Available
           L == Locked
           B == Available'
           M == Locked'
<1>1. IsFiniteSet(Users) BY ConstantsAssumption DEF ConstantsAssumption
<1>2. /\ A \in [Users -> Nat] /\ L \in [Users -> Nat]
      /\ B \in [Users -> Nat] /\ M \in [Users -> Nat]
  BY DEF Typed, Wallet, Available, Locked
<1>3. \A x \in Users : /\ A[x] = wallet[x].available /\ L[x] = wallet[x].locked
                       /\ B[x] = wallet'[x].available /\ M[x] = wallet'[x].locked
  BY DEF Available, Locked
<1>4. \A x \in Users \ {u, v} : B[x] = A[x] /\ M[x] = L[x]
  BY <1>3 DEF Balanced
<1>5. /\ platform \in Nat /\ platform' \in Nat
      /\ Sum(A, Users) + Sum(L, Users) + platform
         = Sum(InitFunds, Users) + Sum([c \in Bets |-> Gain(c)], Bets)
  BY DEF Typed, MoneyTraced, Wealth
<1>6. /\ Sum([c \in Bets |-> Gain(c)'], Bets) + Gain(b)
         = Sum([c \in Bets |-> Gain(c)], Bets) + Gain(b)'
      /\ Sum([c \in Bets |-> Gain(c)], Bets) \in Nat
      /\ Sum([c \in Bets |-> Gain(c)'], Bets) \in Nat
      /\ Gain(b) \in Nat /\ Gain(b)' \in Nat
  <2>1. \A c \in Bets \ {b} : GainKept(c) BY DEF Balanced
  <2>2. Gain(b) \in Nat BY GainTypes DEF GainsTyped
  <2>3. Gain(b)' \in Nat BY GainTypesNext DEF GainsTyped
  <2> QED BY <2>1, <2>2, <2>3, GainsUpdate
<1> HIDE DEF A, L, B, M
<1> DEFINE a == Sum(A, Users)
           l == Sum(L, Users)
           p == Sum(B, Users)
           q == Sum(M, Users)
           e == platform
           f == platform'
           g == Gain(b)
           h == Gain(b)'
           G == Sum([c \in Bets |-> Gain(c)], Bets)
           H == Sum([c \in Bets |-> Gain(c)'], Bets)
           i == Sum(InitFunds, Users)
           au == A[u]  lu == L[u]  bu == B[u]  mu == M[u]
           av == A[v]  lv == L[v]  bv == B[v]  mv == M[v]
<1>7. a \in Nat /\ l \in Nat /\ p \in Nat /\ q \in Nat /\ e \in Nat /\ f \in Nat
  BY <1>1, <1>2, <1>5, SumType
<1>8. /\ au \in Nat /\ lu \in Nat /\ bu \in Nat /\ mu \in Nat
      /\ av \in Nat /\ lv \in Nat /\ bv \in Nat /\ mv \in Nat
  BY <1>2
<1>9. g \in Nat /\ h \in Nat /\ G \in Nat /\ H \in Nat /\ H + g = G + h BY <1>6
<1>10. p + q + f + g = a + l + e + h
  <2>1. CASE u = v
    <3>1. \A x \in Users \ {u} : B[x] = A[x] /\ M[x] = L[x] BY <1>4, <2>1
    <3>2. p + au = a + bu BY <1>1, <1>2, <3>1, SumUpdate
    <3>3. q + lu = l + mu BY <1>1, <1>2, <3>1, SumUpdate
    <3>4. bu + mu + f + g = au + lu + e + h BY <1>3, <2>1 DEF Balanced, Worth
    <3> HIDE DEF a, l, p, q, e, f, g, h, au, lu, bu, mu
    <3> QED BY <1>7, <1>8, <1>9, <3>2, <3>3, <3>4
  <2>2. CASE u # v
    <3>1. \A x \in Users \ {u, v} : B[x] = A[x] BY <1>4
    <3>2. \A x \in Users \ {u, v} : M[x] = L[x] BY <1>4
    <3>3. p + au + av = a + bu + bv
      <4>1. A \in [Users -> Nat] /\ B \in [Users -> Nat] BY <1>2
      <4> QED BY <1>1, <2>2, <3>1, <4>1, SumUpdateTwo
    <3>4. q + lu + lv = l + mu + mv
      <4>1. L \in [Users -> Nat] /\ M \in [Users -> Nat] BY <1>2
      <4> QED BY <1>1, <2>2, <3>2, <4>1, SumUpdateTwo
    <3>5. bu + mu + (bv + mv) + f + g = au + lu + (av + lv) + e + h
      BY <1>3, <2>2 DEF Balanced, Worth
    <3> HIDE DEF a, l, p, q, e, f, g, h, au, lu, bu, mu, av, lv, bv, mv
    <3> QED BY <1>7, <1>8, <1>9, <3>3, <3>4, <3>5
  <2> QED BY <2>1, <2>2
<1>11. i \in Nat /\ a + l + e = i + G
  BY <1>1, <1>5, SumType, ConstantsAssumption DEF ConstantsAssumption
<1>12. p + q + f = i + H
  <2> HIDE DEF a, l, p, q, e, f, g, h, G, H, i
  <2> QED BY <1>7, <1>10, <1>9, <1>11
<1> QED BY <1>12 DEF MoneyTraced, Wealth, B, M

(* The platform's balance stays the sum of the recorded fees. *)
LEMMA BalancedKeepsFees ==
  ASSUME Typed, Typed', NEW u \in Users, NEW v \in Users, NEW b \in Bets,
         Balanced(u, v, b), PlatformEarnsFees
  PROVE  PlatformEarnsFees'
<1> USE ConstantsAssumption DEF ConstantsAssumption
<1> DEFINE F == [c \in Bets |-> bet[c].platform_fee]
           G == [c \in Bets |-> bet'[c].platform_fee]
<1>1. F \in [Bets -> Nat] /\ G \in [Bets -> Nat] BY DEF Typed, Bet
<1>2. \A c \in Bets \ {b} : G[c] = F[c] BY DEF Balanced
<1>3. platform \in Nat /\ platform' \in Nat /\ platform = Sum(F, Bets)
  BY DEF Typed, PlatformEarnsFees
<1>4. platform' + F[b] = platform + G[b] BY DEF Balanced
<1>5. platform' = Sum(G, Bets)
  <2> HIDE DEF F, G
  <2>1. Sum(G, Bets) + F[b] = Sum(F, Bets) + G[b] BY <1>1, <1>2, SumUpdate
  <2>2. Sum(F, Bets) \in Nat /\ Sum(G, Bets) \in Nat BY <1>1, SumType
  <2>3. F[b] \in Nat /\ G[b] \in Nat BY <1>1
  <2> QED BY <1>3, <1>4, <2>1, <2>2, <2>3
<1> QED BY <1>5 DEF PlatformEarnsFees

(* The sums of the ledger, when only the entries of bet b change. *)
LEMMA EntriesUpdate ==
  ASSUME Typed, Typed', NEW b \in Bets, \A c \in Bets \ {b} : ledger'[c] = ledger[c],
         NEW u \in Users, NEW type \in EntryTypes
  PROVE  /\ Sum(Entries(u, type), Bets) \in Nat /\ Sum(Entries(u, type)', Bets) \in Nat
         /\ ledger[b][u][type] \in Nat /\ ledger'[b][u][type] \in Nat
         /\ Sum(Entries(u, type)', Bets) + ledger[b][u][type]
            = Sum(Entries(u, type), Bets) + ledger'[b][u][type]
<1> USE ConstantsAssumption DEF ConstantsAssumption
<1> DEFINE F == Entries(u, type)
           G == Entries(u, type)'
<1>1. F \in [Bets -> Nat] /\ G \in [Bets -> Nat] BY DEF Typed, Entries
<1>2. F[b] = ledger[b][u][type] /\ G[b] = ledger'[b][u][type] BY DEF Entries
<1>3. \A c \in Bets \ {b} : G[c] = F[c] BY DEF Entries
<1>4. ledger[b][u][type] \in Nat /\ ledger'[b][u][type] \in Nat BY DEF Typed
<1> HIDE DEF F, G
<1>5. Sum(F, Bets) \in Nat /\ Sum(G, Bets) \in Nat BY <1>1, SumType
<1>6. Sum(G, Bets) + F[b] = Sum(F, Bets) + G[b] BY <1>1, <1>3, SumUpdate
<1> QED BY <1>2, <1>4, <1>5, <1>6 DEF F, G

(* Debits and credits are additive. *)
LEMMA EntryTotals ==
  ASSUME NEW S \in [EntryTypes -> Nat], NEW T \in [EntryTypes -> Nat],
         NEW l \in [EntryTypes -> Nat], NEW k \in [EntryTypes -> Nat],
         \A e \in EntryTypes : T[e] + l[e] = S[e] + k[e]
  PROVE  /\ Debits(S) \in Nat /\ Debits(T) \in Nat /\ Debits(l) \in Nat /\ Debits(k) \in Nat
         /\ Credits(S) \in Nat /\ Credits(T) \in Nat /\ Credits(l) \in Nat
         /\ Credits(k) \in Nat
         /\ Debits(T) + Debits(l) = Debits(S) + Debits(k)
         /\ Credits(T) + Credits(l) = Credits(S) + Credits(k)
<1>1. ASSUME NEW F \in [EntryTypes -> Nat] PROVE Debits(F) \in Nat /\ Credits(F) \in Nat
  BY DEF Debits, Credits, EntryTypes
<1>2. /\ T["STAKE_UNLOCK"] + l["STAKE_UNLOCK"] = S["STAKE_UNLOCK"] + k["STAKE_UNLOCK"]
      /\ T["VOID_REFUND"] + l["VOID_REFUND"] = S["VOID_REFUND"] + k["VOID_REFUND"]
      /\ T["SETTLEMENT_DEDUCT"] + l["SETTLEMENT_DEDUCT"]
         = S["SETTLEMENT_DEDUCT"] + k["SETTLEMENT_DEDUCT"]
      /\ T["FEE_DEDUCT"] + l["FEE_DEDUCT"] = S["FEE_DEDUCT"] + k["FEE_DEDUCT"]
      /\ T["PAYOUT_CREDIT"] + l["PAYOUT_CREDIT"] = S["PAYOUT_CREDIT"] + k["PAYOUT_CREDIT"]
      /\ T["REFUND_CREDIT"] + l["REFUND_CREDIT"] = S["REFUND_CREDIT"] + k["REFUND_CREDIT"]
  BY DEF EntryTypes
<1>3. Debits(T) + Debits(l) = Debits(S) + Debits(k)
  BY <1>2 DEF Debits, EntryTypes
<1>4. Credits(T) + Credits(l) = Credits(S) + Credits(k)
  BY <1>2 DEF Credits, EntryTypes
<1> QED BY <1>1, <1>3, <1>4

(* What the betting entries of u add up to. *)
BetLocks(u)   == Sum(Entries(u, "STAKE_LOCK"), Bets)
BetDebits(u)  == Sum(Entries(u, "STAKE_UNLOCK"), Bets) + Sum(Entries(u, "VOID_REFUND"), Bets)
                   + Sum(Entries(u, "SETTLEMENT_DEDUCT"), Bets)
                   + Sum(Entries(u, "FEE_DEDUCT"), Bets)
BetCredits(u) == Sum(Entries(u, "STAKE_UNLOCK"), Bets) + Sum(Entries(u, "VOID_REFUND"), Bets)
                   + Sum(Entries(u, "PAYOUT_CREDIT"), Bets)
                   + Sum(Entries(u, "REFUND_CREDIT"), Bets)

(* They are amounts. *)
LEMMA BetTotals ==
  ASSUME Typed, NEW u \in Users
  PROVE  /\ BetLocks(u) \in Nat /\ BetDebits(u) \in Nat /\ BetCredits(u) \in Nat
         /\ \A e \in EntryTypes : Sum(Entries(u, e), Bets) \in Nat
<1>1. IsFiniteSet(Bets) BY ConstantsAssumption DEF ConstantsAssumption
<1>2. ASSUME NEW e \in EntryTypes PROVE Sum(Entries(u, e), Bets) \in Nat
  <2>1. Entries(u, e) \in [Bets -> Nat] BY DEF Typed, Entries
  <2> QED BY <1>1, <2>1, SumType
<1> QED BY <1>2 DEF BetLocks, BetDebits, BetCredits, EntryTypes

(* An explained move changes the balances of u as it changes these sums. *)
LEMMA ExplainedMoves ==
  ASSUME Typed, Typed', NEW b \in Bets, Explained(b), NEW u \in Users
  PROVE  /\ BetLocks(u) \in Nat /\ BetDebits(u) \in Nat /\ BetCredits(u) \in Nat
         /\ BetLocks(u)' \in Nat /\ BetDebits(u)' \in Nat /\ BetCredits(u)' \in Nat
         /\ wallet'[u].locked + BetDebits(u)' + BetLocks(u)
            = wallet[u].locked + BetDebits(u) + BetLocks(u)'
         /\ wallet'[u].available + BetCredits(u) + BetLocks(u)' + StakeGain(u)
            = wallet[u].available + BetCredits(u)' + BetLocks(u) + StakeGain(u)'
<1> DEFINE S == [e \in EntryTypes |-> Sum(Entries(u, e), Bets)]
           T == [e \in EntryTypes |-> Sum(Entries(u, e)', Bets)]
           l == ledger[b][u]
           k == ledger'[b][u]
           x == wallet[u].locked
           y == wallet'[u].locked
           v == wallet[u].available
           w == wallet'[u].available
           g == GainOf(u, b)
           h == GainOf(u, b)'
           gs == StakeGain(u)
           gt == StakeGain(u)'
<1>0. /\ g \in Nat /\ h \in Nat /\ gs \in Nat /\ gt \in Nat /\ gt + g = gs + h
  <2>1. g \in Nat /\ gs \in Nat BY GainTypes DEF GainsTyped
  <2>2. h \in Nat /\ gt \in Nat BY GainTypesNext DEF GainsTyped
  <2>3. \A c \in Bets \ {b} : GainKept(c) BY DEF Explained
  <2> QED BY <2>1, <2>2, <2>3, GainsUpdate
<1>1. /\ S \in [EntryTypes -> Nat] /\ T \in [EntryTypes -> Nat]
      /\ l \in [EntryTypes -> Nat] /\ k \in [EntryTypes -> Nat]
      /\ \A e \in EntryTypes : T[e] + l[e] = S[e] + k[e]
  <2>1. l \in [EntryTypes -> Nat] /\ k \in [EntryTypes -> Nat] BY DEF Typed
  <2>2. \A e \in EntryTypes : /\ S[e] \in Nat /\ T[e] \in Nat
                              /\ T[e] + l[e] = S[e] + k[e]
    BY EntriesUpdate DEF Explained
  <2> QED BY <2>1, <2>2
<1>2. x \in Nat /\ y \in Nat /\ v \in Nat /\ w \in Nat BY DEF Typed, Wallet
<1>3. /\ y + Debits(k) + l["STAKE_LOCK"] = x + Debits(l) + k["STAKE_LOCK"]
      /\ w + Credits(l) + k["STAKE_LOCK"] + g = v + Credits(k) + l["STAKE_LOCK"] + h
  BY DEF Explained
<1>4. /\ BetLocks(u) = S["STAKE_LOCK"] /\ BetLocks(u)' = T["STAKE_LOCK"]
      /\ BetDebits(u) = Debits(S) /\ BetDebits(u)' = Debits(T)
      /\ BetCredits(u) = Credits(S) /\ BetCredits(u)' = Credits(T)
  BY DEF BetLocks, BetDebits, BetCredits, Debits, Credits, EntryTypes
<1> HIDE DEF S, T, l, k, x, y, v, w, g, h, gs, gt
<1> DEFINE ds == Debits(S)   dt == Debits(T)   dl == Debits(l)   dk == Debits(k)
           cs == Credits(S)  ct == Credits(T)  cl == Credits(l)  ck == Credits(k)
           s0 == S["STAKE_LOCK"]  t0 == T["STAKE_LOCK"]
           l0 == l["STAKE_LOCK"]  k0 == k["STAKE_LOCK"]
<1>5. /\ ds \in Nat /\ dt \in Nat /\ dl \in Nat /\ dk \in Nat
      /\ cs \in Nat /\ ct \in Nat /\ cl \in Nat /\ ck \in Nat
      /\ dt + dl = ds + dk /\ ct + cl = cs + ck
  BY <1>1, EntryTotals
<1>6. /\ s0 \in Nat /\ t0 \in Nat /\ l0 \in Nat /\ k0 \in Nat /\ t0 + l0 = s0 + k0
  BY <1>1 DEF EntryTypes
<1>7. y + dk + l0 = x + dl + k0 /\ w + cl + k0 + g = v + ck + l0 + h BY <1>3
<1>8. y + dt + s0 = x + ds + t0 /\ w + cs + t0 + gs = v + ct + s0 + gt
  <2> HIDE DEF ds, dt, dl, dk, cs, ct, cl, ck, s0, t0, l0, k0
  <2> QED BY <1>0, <1>2, <1>5, <1>6, <1>7
<1> QED BY <1>4, <1>5, <1>6, <1>8 DEF x, y, v, w, gs, gt

(* So it keeps ledger and balances in agreement. *)
LEMMA ExplainedKeepsLedger ==
  ASSUME Typed, Typed', NEW b \in Bets, Explained(b), LedgerReconciles
  PROVE  LedgerReconciles'
<1>1. ASSUME NEW u \in Users
      PROVE  /\ wallet'[u].locked + BetDebits(u)' = BetLocks(u)'
             /\ wallet'[u].available + BetLocks(u)' = InitFunds[u] + BetCredits(u)' + StakeGain(u)'
  <2> DEFINE x == wallet[u].locked
             y == wallet'[u].locked
             v == wallet[u].available
             w == wallet'[u].available
             f == InitFunds[u]
             dt == BetDebits(u)'
             t0 == BetLocks(u)'
             ct == BetCredits(u)'
             gt == StakeGain(u)'
  <2>1. /\ x \in Nat /\ y \in Nat /\ v \in Nat /\ w \in Nat /\ f \in Nat
    BY ConstantsAssumption DEF ConstantsAssumption, Typed, Wallet
  <2>2. x + BetDebits(u) = BetLocks(u) /\ v + BetLocks(u) = f + BetCredits(u) + StakeGain(u)
        /\ StakeGain(u) \in Nat
    <3>1. \A e \in EntryTypes : Sum(Entries(u, e), Bets) \in Nat BY BetTotals
    <3>2. StakeGain(u) \in Nat BY GainTypes DEF GainsTyped
    <3> QED BY <2>1, <3>1, <3>2
      DEF LedgerReconciles, BetDebits, BetLocks, BetCredits, EntryTypes
  <2>3. /\ BetLocks(u) \in Nat /\ BetDebits(u) \in Nat /\ BetCredits(u) \in Nat
        /\ t0 \in Nat /\ dt \in Nat /\ ct \in Nat
        /\ y + dt + BetLocks(u) = x + BetDebits(u) + t0
        /\ w + BetCredits(u) + t0 + StakeGain(u) = v + ct + BetLocks(u) + gt
    BY ExplainedMoves
  <2>4. gt \in Nat BY GainTypesNext DEF GainsTyped
  <2>5. y + dt = t0 /\ w + t0 = f + ct + gt
    <3> HIDE DEF x, y, v, w, f, dt, t0, ct, gt
    <3> QED BY <2>1, <2>2, <2>3, <2>4
  <2> QED BY <2>5
<1>2. ASSUME NEW u \in Users, NEW e \in EntryTypes PROVE Sum(Entries(u, e)', Bets) \in Nat
  <2>1. Entries(u, e)' \in [Bets -> Nat] BY DEF Typed, Entries
  <2> QED BY <2>1, SumType, ConstantsAssumption DEF ConstantsAssumption
<1>3. \A u \in Users : wallet'[u].locked \in Nat /\ wallet'[u].available \in Nat
                       /\ InitFunds[u] \in Nat
  BY ConstantsAssumption DEF ConstantsAssumption, Typed, Wallet
<1>4. \A u \in Users : StakeGain(u)' \in Nat BY GainTypesNext DEF GainsTyped
<1> QED BY <1>1, <1>2, <1>3, <1>4
  DEF LedgerReconciles, BetDebits, BetLocks, BetCredits, EntryTypes

-----------------------------------------------------------------------------
(* What the commits do to the money. *)

(* A stake asked as s moves from available to locked; what rounding leaves *)
(* available of it is the gain bet b brings u.                             *)
LEMMA LockMoves ==
  ASSUME Typed, Typed', NEW u \in Users, NEW b \in Bets, NEW s \in Nat,
         Mills(wallet[u].available) >= s,
         wallet' = [wallet EXCEPT ![u] = lock_stake(wallet[u], s)],
         ledger' = write_stake_lock(b, u, Stored(s)), platform' = platform,
         \A c \in Bets : bet'[c].platform_fee = bet[c].platform_fee,
         \A c \in Bets \ {b} : GainKept(c),
         Gain(b)' = Gain(b) + HalfCent(s), GainOf(u, b)' = GainOf(u, b) + HalfCent(s),
         \A x \in Users \ {u} : GainOf(x, b)' = GainOf(x, b)
  PROVE  MoneyMove
<1> DEFINE n == Stored(s)
           h == HalfCent(s)
<1>1. /\ wallet[u].available \in Nat /\ wallet[u].locked \in Nat /\ platform \in Nat
      /\ \A x \in Users : wallet[x].available \in Nat /\ wallet[x].locked \in Nat
      /\ ledger \in [Bets -> [Users -> [EntryTypes -> Nat]]]
  BY DEF Typed, Wallet
<1>2. n \in Nat /\ h \in Nat BY StoredAmount
<1>3. Gain(b) \in Nat /\ \A x \in Users : GainOf(x, b) \in Nat BY GainTypes DEF GainsTyped
<1>4. /\ wallet'[u].available = wallet[u].available - n + h
      /\ wallet'[u].locked = wallet[u].locked + n
      /\ n <= wallet[u].available + h
      /\ \A x \in Users \ {u} : wallet'[x] = wallet[x]
  <2>1. wallet'[u] = lock_stake(wallet[u], s) /\ \A x \in Users \ {u} : wallet'[x] = wallet[x]
    BY DEF Typed
  <2> QED BY <1>1, <2>1, RoundedApart DEF lock_stake
<1> HIDE DEF n, h
<1>5. /\ \A c \in Bets \ {b} : ledger'[c] = ledger[c]
      /\ \A x \in Users \ {u} : ledger'[b][x] = ledger[b][x]
      /\ ledger'[b][u] = [ledger[b][u] EXCEPT !["STAKE_LOCK"] = ledger[b][u]["STAKE_LOCK"] + n]
  BY <1>1 DEF write_stake_lock, create_entry, n
<1>6. Balanced(u, u, b)
  <2> DEFINE a == wallet[u].available
             l == wallet[u].locked
             g == Gain(b)
  <2>1. a \in Nat /\ l \in Nat /\ g \in Nat BY <1>1, <1>3
  <2>2. (a - n + h) + (l + n) + platform + g = a + l + platform + (g + h)
    <3> HIDE DEF a, l, g
    <3> QED BY <1>1, <1>2, <2>1
  <2>3. Worth(u)' + platform' + Gain(b) = Worth(u) + platform + Gain(b)'
    BY <1>4, <2>2 DEF Worth, h
  <2>4. platform' + bet[b].platform_fee = platform + bet'[b].platform_fee OBVIOUS
  <2> QED BY <1>4, <2>3, <2>4 DEF Balanced
<1>7. ASSUME NEW x \in Users
      PROVE  /\ wallet'[x].locked + Debits(ledger'[b][x]) + ledger[b][x]["STAKE_LOCK"]
                = wallet[x].locked + Debits(ledger[b][x]) + ledger'[b][x]["STAKE_LOCK"]
             /\ wallet'[x].available + Credits(ledger[b][x]) + ledger'[b][x]["STAKE_LOCK"]
                  + GainOf(x, b)
                = wallet[x].available + Credits(ledger'[b][x]) + ledger[b][x]["STAKE_LOCK"]
                  + GainOf(x, b)'
  <2>1. ledger[b][x] \in [EntryTypes -> Nat] BY <1>1
  <2>2. Debits(ledger'[b][x]) = Debits(ledger[b][x]) /\ Debits(ledger[b][x]) \in Nat
        /\ Credits(ledger'[b][x]) = Credits(ledger[b][x]) /\ Credits(ledger[b][x]) \in Nat
    BY <1>5, <2>1 DEF Debits, Credits, EntryTypes
  <2>3. ledger[b][x]["STAKE_LOCK"] \in Nat BY <2>1 DEF EntryTypes
  <2>4. CASE x = u
    <3>1. ledger'[b][u]["STAKE_LOCK"] = ledger[b][u]["STAKE_LOCK"] + n
      BY <1>5, <2>1, <2>4 DEF EntryTypes
    <3> DEFINE d == Debits(ledger[b][u])
               e == Credits(ledger[b][u])
               k == ledger[b][u]["STAKE_LOCK"]
               a == wallet[u].available
               l == wallet[u].locked
               g == GainOf(u, b)
    <3>2. d \in Nat /\ e \in Nat /\ k \in Nat /\ a \in Nat /\ l \in Nat /\ g \in Nat
      BY <1>1, <1>3, <2>2, <2>3, <2>4
    <3>3. /\ l + n + d + k = l + d + (k + n)
          /\ a - n + h + e + (k + n) + g = a + e + k + (g + h)
      <4> HIDE DEF d, e, k, a, l, g
      <4> QED BY <1>2, <3>2
    <3> QED BY <1>4, <2>2, <2>4, <3>1, <3>3 DEF h
  <2>5. CASE x # u BY <1>4, <1>5, <2>2, <2>5
  <2> QED BY <2>4, <2>5
<1>8. Explained(b) BY <1>5, <1>7 DEF Explained
<1> QED BY <1>6, <1>8 DEF MoneyMove

(* Stakes of one party (u = v) or of both move back to available. *)
LEMMA ReturnMoves ==
  ASSUME Typed, NEW u \in Users, NEW v \in Users, NEW b \in Bets, NEW s \in Nat,
         wallet[u].locked >= s, wallet[v].locked >= s,
         \A x \in {u, v} : /\ wallet'[x] = unlock_stake(wallet[x], s)
                           /\ Debits(ledger'[b][x]) = Debits(ledger[b][x]) + s
                           /\ Credits(ledger'[b][x]) = Credits(ledger[b][x]) + s
                           /\ ledger'[b][x]["STAKE_LOCK"] = ledger[b][x]["STAKE_LOCK"],
         \A x \in Users \ {u, v} : wallet'[x] = wallet[x] /\ ledger'[b][x] = ledger[b][x],
         \A c \in Bets \ {b} : ledger'[c] = ledger[c],
         platform' = platform,
         \A c \in Bets : bet'[c].platform_fee = bet[c].platform_fee /\ GainKept(c)
  PROVE  MoneyMove
<1>0. Gain(b)' = Gain(b) /\ \A x \in Users : GainOf(x, b)' = GainOf(x, b)
  BY DEF GainKept, Gain, GainOf
<1>1. /\ platform \in Nat
      /\ \A x \in Users : wallet[x].available \in Nat /\ wallet[x].locked \in Nat
      /\ ledger \in [Bets -> [Users -> [EntryTypes -> Nat]]]
  BY DEF Typed, Wallet
<1>2. \A x \in {u, v} : /\ wallet'[x].available = wallet[x].available + s
                         /\ wallet'[x].locked = wallet[x].locked - s
  BY DEF unlock_stake
<1>3. Balanced(u, v, b)
  <2>1. ASSUME NEW x \in {u, v}
        PROVE  wallet'[x].available + wallet'[x].locked = wallet[x].available + wallet[x].locked
    BY <1>1, <1>2
  <2>2. /\ Worth(u)' = Worth(u) /\ Worth(v)' = Worth(v) BY <2>1 DEF Worth
  <2>3. IF u = v THEN Worth(u)' + platform' + Gain(b) = Worth(u) + platform + Gain(b)'
                 ELSE Worth(u)' + Worth(v)' + platform' + Gain(b)
                        = Worth(u) + Worth(v) + platform + Gain(b)'
    BY <1>0, <2>2
  <2> QED BY <2>3 DEF Balanced
<1>4. ASSUME NEW x \in Users
      PROVE  /\ wallet'[x].locked + Debits(ledger'[b][x]) + ledger[b][x]["STAKE_LOCK"]
                = wallet[x].locked + Debits(ledger[b][x]) + ledger'[b][x]["STAKE_LOCK"]
             /\ wallet'[x].available + Credits(ledger[b][x]) + ledger'[b][x]["STAKE_LOCK"]
                  + GainOf(x, b)
                = wallet[x].available + Credits(ledger'[b][x]) + ledger[b][x]["STAKE_LOCK"]
                  + GainOf(x, b)'
  <2>1. ledger[b][x] \in [EntryTypes -> Nat] BY <1>1
  <2>2. Debits(ledger[b][x]) \in Nat /\ Credits(ledger[b][x]) \in Nat
        /\ ledger[b][x]["STAKE_LOCK"] \in Nat
    BY <2>1 DEF Debits, Credits, EntryTypes
  <2>3. CASE x \in {u, v}
    <3>1. /\ Debits(ledger'[b][x]) = Debits(ledger[b][x]) + s
          /\ Credits(ledger'[b][x]) = Credits(ledger[b][x]) + s
          /\ ledger'[b][x]["STAKE_LOCK"] = ledger[b][x]["STAKE_LOCK"]
      BY <2>3
    <3> DEFINE d == Debits(ledger[b][x])
               e == Credits(ledger[b][x])
               n == ledger[b][x]["STAKE_LOCK"]
    <3>2. /\ wallet[x].locked - s + (d + s) + n = wallet[x].locked + d + n
          /\ wallet[x].available + s + e + n = wallet[x].available + (e + s) + n
      <4> HIDE DEF d, e, n
      <4>1. d \in Nat /\ e \in Nat /\ n \in Nat BY <2>2 DEF d, e, n
      <4> QED BY <1>1, <4>1
    <3> QED BY <1>0, <1>2, <2>3, <3>1, <3>2
  <2>4. CASE x \notin {u, v} BY <1>0, <2>4
  <2> QED BY <2>3, <2>4
<1>5. Explained(b) BY <1>4 DEF Explained
<1> QED BY <1>3, <1>5 DEF MoneyMove

(* Two stakes taken and their sum handed out again change no total. *)
LEMMA PoolShared ==
  ASSUME NEW s \in Nat, NEW x \in Nat, NEW y \in Nat, NEW fee \in Nat, x + y + fee = s + s,
         NEW a \in Nat, NEW l \in Nat, NEW c \in Nat, NEW d \in Nat, NEW p \in Nat
  PROVE  a + x + (l - s) + (c + y + (d - s)) + (p + fee) = a + l + (c + d) + p
OBVIOUS

(* Both stakes are consumed: pu and pv go to the parties, the rest to the  *)
(* platform, as the fee recorded on the bet.                               *)
LEMMA SettleMoves ==
  ASSUME Typed, NEW u \in Users, NEW v \in Users, u # v, NEW b \in Bets, NEW s \in Nat,
         NEW pu \in Nat, NEW pv \in Nat, NEW fee \in Nat, pu + pv + fee = s + s,
         wallet[u].locked >= s, wallet[v].locked >= s,
         wallet'[u] = consume_stake(wallet[u], s, pu),
         wallet'[v] = consume_stake(wallet[v], s, pv),
         \A x \in Users \ {u, v} : wallet'[x] = wallet[x] /\ ledger'[b][x] = ledger[b][x],
         \A c \in Bets \ {b} : ledger'[c] = ledger[c] /\ bet'[c] = bet[c],
         platform' = platform + fee, bet[b].platform_fee = 0, bet'[b].platform_fee = fee,
         GainKept(b),
         /\ Debits(ledger'[b][u]) = Debits(ledger[b][u]) + s
         /\ Credits(ledger'[b][u]) = Credits(ledger[b][u]) + pu
         /\ ledger'[b][u]["STAKE_LOCK"] = ledger[b][u]["STAKE_LOCK"],
         /\ Debits(ledger'[b][v]) = Debits(ledger[b][v]) + s
         /\ Credits(ledger'[b][v]) = Credits(ledger[b][v]) + pv
         /\ ledger'[b][v]["STAKE_LOCK"] = ledger[b][v]["STAKE_LOCK"]
  PROVE  MoneyMove
<1>0. /\ Gain(b)' = Gain(b) /\ \A x \in Users : GainOf(x, b)' = GainOf(x, b)
      /\ \A c \in Bets : GainKept(c)
  BY DEF GainKept, Gain, GainOf
<1>1. /\ platform \in Nat
      /\ \A x \in Users : wallet[x].available \in Nat /\ wallet[x].locked \in Nat
      /\ ledger \in [Bets -> [Users -> [EntryTypes -> Nat]]]
  BY DEF Typed, Wallet
<1>2. /\ wallet'[u].available = wallet[u].available + pu /\ wallet'[u].locked = wallet[u].locked - s
      /\ wallet'[v].available = wallet[v].available + pv /\ wallet'[v].locked = wallet[v].locked - s
  BY DEF consume_stake
<1>3. Balanced(u, v, b)
  <2> DEFINE a == wallet[u].available
             l == wallet[u].locked
             c == wallet[v].available
             d == wallet[v].locked
             p == platform
  <2>1. a \in Nat /\ l \in Nat /\ c \in Nat /\ d \in Nat /\ p \in Nat BY <1>1
  <2>2. a + pu + (l - s) + (c + pv + (d - s)) + (p + fee) = a + l + (c + d) + p
    <3> HIDE DEF a, l, c, d, p
    <3> QED BY <2>1, PoolShared
  <2>3. Worth(u)' + Worth(v)' + platform' = Worth(u) + Worth(v) + platform
    BY <1>2, <2>2 DEF Worth
  <2>4. platform' + bet[b].platform_fee = platform + bet'[b].platform_fee BY <1>1
  <2>5. Worth(u)' + Worth(v)' + platform' + Gain(b) = Worth(u) + Worth(v) + platform + Gain(b)'
    BY <1>0, <2>3
  <2> QED BY <1>0, <2>4, <2>5 DEF Balanced
<1>4. ASSUME NEW x \in Users
      PROVE  /\ wallet'[x].locked + Debits(ledger'[b][x]) + ledger[b][x]["STAKE_LOCK"]
                = wallet[x].locked + Debits(ledger[b][x]) + ledger'[b][x]["STAKE_LOCK"]
             /\ wallet'[x].available + Credits(ledger[b][x]) + ledger'[b][x]["STAKE_LOCK"]
                  + GainOf(x, b)
                = wallet[x].available + Credits(ledger'[b][x]) + ledger[b][x]["STAKE_LOCK"]
                  + GainOf(x, b)'
  <2>1. ledger[b][x] \in [EntryTypes -> Nat] BY <1>1
  <2> DEFINE d == Debits(ledger[b][x])
             e == Credits(ledger[b][x])
             n == ledger[b][x]["STAKE_LOCK"]
  <2>2. d \in Nat /\ e \in Nat /\ n \in Nat BY <2>1 DEF Debits, Credits, EntryTypes
  <2>3. \A p \in Nat : /\ wallet[x].locked - s + (d + s) + n = wallet[x].locked + d + n
                       /\ wallet[x].available + p + e + n = wallet[x].available + (e + p) + n
    <3> HIDE DEF d, e, n
    <3> QED BY <1>1, <2>2
  <2>4. CASE x = u BY <1>0, <1>2, <2>3, <2>4
  <2>5. CASE x = v BY <1>0, <1>2, <2>3, <2>5
  <2>6. CASE x \notin {u, v} BY <1>0, <2>6
  <2> QED BY <2>4, <2>5, <2>6
<1>5. Explained(b) BY <1>0, <1>4 DEF Explained
<1> QED BY <1>3, <1>5 DEF MoneyMove

(* create_bet and accept_bet lock a stake; only the first may bring a gain. *)
LEMMA StakeCommitMoves ==
  ASSUME Sound, Typed', NEW t \in Workers, CreateCommit(t) \/ AcceptCommit(t)
  PROVE  MoneyMove
<1>0. /\ req[t].user \in Users /\ req[t].bet \in Bets /\ CanPay(t, req[t].user)
      /\ (CreateCommit(t) => bet[req[t].bet].status = "none")
      /\ (AcceptCommit(t) => req[t].asked = Mills(req[t].stake))
      /\ req[t].asked \in Nat /\ req[t].stake \in Nat
  BY DEF CreateCommit, AcceptCommit, Sound, Typed, Request, RequestOK, CreateOK, AcceptOK
<1> PICK u \in Users, b \in Bets, s \in Nat :
      u = req[t].user /\ b = req[t].bet /\ s = req[t].asked
  BY <1>0
<1>1. /\ CanPay(t, u) /\ (CreateCommit(t) => bet[b].status = "none")
      /\ (AcceptCommit(t) => s = Mills(req[t].stake))
  BY <1>0
<1>2. req[t].stake \in Nat BY <1>0
<1>3. snap[t][u] = wallet[u] /\ Mills(wallet[u].available) >= s
  <2>1. pc[t] \in PCs BY DEF CreateCommit, AcceptCommit, PCs
  <2> QED BY <1>1, <2>1, HeldWallet DEF CanPay
<1>4. /\ wallet' = [wallet EXCEPT ![u] = lock_stake(wallet[u], s)]
      /\ ledger' = write_stake_lock(b, u, Stored(s)) /\ platform' = platform
  BY <1>3 DEF CreateCommit, AcceptCommit
<1>5. /\ \A c \in Bets : bet'[c].platform_fee = bet[c].platform_fee
      /\ \A c \in Bets \ {b} : GainKept(c)
      /\ Gain(b)' = Gain(b) + HalfCent(s) /\ GainOf(u, b)' = GainOf(u, b) + HalfCent(s)
      /\ \A x \in Users \ {u} : GainOf(x, b)' = GainOf(x, b)
  <2>0. HalfCent(s) \in Nat BY <1>2, StoredAmount
  <2>1. CASE CreateCommit(t)
    <3> DEFINE n == [NoBet EXCEPT !.status = "OPEN",
                       !.match_id = req[t].match, !.creator_id = u,
                       !.creator_prediction = req[t].outcome, !.stake_amount = req[t].stake,
                       !.asked_stake = s, !.expires_at = req[t].expires_at]
    <3>1. bet[b] = NoBet BY <1>1, <2>1 DEF Sound, RowOK
    <3>2. /\ bet[b].platform_fee = 0 /\ bet[b].asked_stake = 0
          /\ n.platform_fee = 0 /\ n.asked_stake = s /\ n.creator_id = u
      BY <3>1 DEF NoBet
    <3>3. bet' = [bet EXCEPT ![b] = n] BY <2>1 DEF CreateCommit
    <3> HIDE DEF n
    <3>4. bet'[b] = n /\ \A c \in Bets \ {b} : bet'[c] = bet[c]
      BY <1>1, <3>3 DEF Sound, Typed
    <3>5. Gain(b) = 0 /\ \A x \in Users : GainOf(x, b) = 0
      <4>1. HalfCent(0) = 0 BY DEF HalfCent
      <4> QED BY <3>2, <4>1 DEF Gain, GainOf
    <3>6. Gain(b)' = HalfCent(s) /\ GainOf(u, b)' = HalfCent(s)
          /\ \A x \in Users \ {u} : GainOf(x, b)' = 0
      BY <3>2, <3>4 DEF Gain, GainOf
    <3>7. \A c \in Bets \ {b} : GainKept(c) BY <3>4 DEF GainKept
    <3> QED BY <1>1, <2>0, <3>2, <3>4, <3>5, <3>6, <3>7
  <2>2. CASE AcceptCommit(t)
    <3>1. bet' = [bet EXCEPT ![b] = [bet[b] EXCEPT !.opponent_id = u,
                    !.opponent_prediction = req[t].outcome, !.status = "MATCHED"]]
      BY <2>2 DEF AcceptCommit
    <3>2. bet[b] \in Bet /\ bet \in [Bets -> Bet] BY <1>1 DEF Sound, Typed
    <3>3. \A c \in Bets : bet'[c].platform_fee = bet[c].platform_fee /\ GainKept(c)
      BY <1>1, <3>1, <3>2 DEF Bet, GainKept
    <3>4. HalfCent(s) = 0 BY <1>1, <1>2, <2>2, StoredCents
    <3>5. Gain(b) \in Nat /\ \A x \in Users : GainOf(x, b) \in Nat
      BY <1>1, GainTypes DEF GainsTyped, Sound
    <3>6. Gain(b)' = Gain(b) /\ \A x \in Users : GainOf(x, b)' = GainOf(x, b)
      BY <1>1, <3>3 DEF GainKept, Gain, GainOf
    <3> QED BY <1>1, <3>3, <3>4, <3>5, <3>6
  <2> QED BY <2>1, <2>2
<1> QED BY <1>1, <1>2, <1>3, <1>4, <1>5, LockMoves DEF Sound

(* cancel_bet gives the creator's stake back. *)
LEMMA CancelMoves ==
  ASSUME Sound, NEW t \in Workers, CancelCommit(t)
  PROVE  MoneyMove
<1> DEFINE u == req[t].user
           b == req[t].bet
           s == req[t].stake
<1>1. u \in Users /\ b \in Bets /\ CanRelease(t, u)
  BY DEF CancelCommit, Sound, RequestOK, CancelOK
<1>2. s \in Nat BY DEF Sound, Typed, Request
<1>3. snap[t][u] = wallet[u] /\ wallet[u].locked >= s
  <2>1. pc[t] \in PCs BY DEF CancelCommit, PCs
  <2> QED BY <1>1, <2>1, HeldWallet DEF CanRelease
<1>4. /\ wallet' = [wallet EXCEPT ![u] = unlock_stake(wallet[u], s)]
      /\ ledger' = write_stake_unlock(b, u, s) /\ platform' = platform
      /\ bet' = [bet EXCEPT ![b] = [bet[b] EXCEPT !.status = "CANCELLED"]]
  BY <1>3 DEF CancelCommit
<1>5. \A c \in Bets : bet'[c].platform_fee = bet[c].platform_fee /\ GainKept(c)
  <2>1. bet[b] \in Bet /\ bet \in [Bets -> Bet] BY <1>1 DEF Sound, Typed
  <2> QED BY <1>1, <1>4, <2>1 DEF Bet, GainKept
<1>6. wallet'[u] = unlock_stake(wallet[u], s) /\ \A x \in Users \ {u} : wallet'[x] = wallet[x]
  BY <1>1, <1>4 DEF Sound, Typed
<1>7. /\ \A c \in Bets \ {b} : ledger'[c] = ledger[c]
      /\ \A x \in Users \ {u} : ledger'[b][x] = ledger[b][x]
      /\ ledger'[b][u] = [ledger[b][u] EXCEPT
                             !["STAKE_UNLOCK"] = ledger[b][u]["STAKE_UNLOCK"] + s]
  BY <1>1, <1>4 DEF write_stake_unlock, create_entry, Sound, Typed
<1>8. /\ Debits(ledger'[b][u]) = Debits(ledger[b][u]) + s
      /\ Credits(ledger'[b][u]) = Credits(ledger[b][u]) + s
      /\ ledger'[b][u]["STAKE_LOCK"] = ledger[b][u]["STAKE_LOCK"]
  <2>1. ledger[b][u] \in [EntryTypes -> Nat] BY <1>1 DEF Sound, Typed
  <2> QED BY <1>2, <1>7, <2>1 DEF Debits, Credits, EntryTypes
<1>9. /\ \A x \in {u, u} : /\ wallet'[x] = unlock_stake(wallet[x], s)
                            /\ Debits(ledger'[b][x]) = Debits(ledger[b][x]) + s
                            /\ Credits(ledger'[b][x]) = Credits(ledger[b][x]) + s
                            /\ ledger'[b][x]["STAKE_LOCK"] = ledger[b][x]["STAKE_LOCK"]
      /\ \A x \in Users \ {u, u} : wallet'[x] = wallet[x] /\ ledger'[b][x] = ledger[b][x]
      /\ \A c \in Bets \ {b} : ledger'[c] = ledger[c]
  BY <1>6, <1>7, <1>8
<1>10. platform' = platform BY <1>4
<1> HIDE DEF u, b, s
<1> QED BY <1>1, <1>2, <1>3, <1>5, <1>9, <1>10, ReturnMoves DEF Sound

(* void_bet gives the stake of every party back. *)
LEMMA VoidMoves ==
  ASSUME Sound, NEW t \in Workers, VoidCommit(t)
  PROVE  MoneyMove
<1> DEFINE b == req[t].bet
           s == req[t].stake
           R == Refunded(b)
           u == bet[b].creator_id
           v == IF bet[b].status = "MATCHED" THEN bet[b].opponent_id ELSE bet[b].creator_id
<1>1. b \in Bets /\ (\A x \in R : CanRelease(t, x)) /\ bet[b].status \in {"OPEN", "MATCHED"}
  BY DEF VoidCommit, Sound, RequestOK, VoidOK
<1>2. s \in Nat BY DEF Sound, Typed, Request
<1>3. u \in Users /\ v \in Users /\ R = {u, v}
  BY <1>1 DEF Sound, RowOK, Typed, Bet, Null, Refunded
<1>4. \A x \in {u, v} : snap[t][x] = wallet[x] /\ wallet[x].locked >= s
  <2>1. pc[t] \in PCs BY DEF VoidCommit, PCs
  <2> QED BY <1>1, <1>3, <2>1, HeldWallet DEF CanRelease
<1>5. /\ wallet' = [x \in Users |-> IF x \in R THEN void_refund(snap[t][x], s) ELSE wallet[x]]
      /\ ledger' = write_void_refund(b, R, s) /\ platform' = platform
      /\ bet' = [bet EXCEPT ![b] = [bet[b] EXCEPT !.status = "VOIDED",
                                                  !.settlement_outcome = "voided"]]
  BY DEF VoidCommit
<1>6. \A c \in Bets : bet'[c].platform_fee = bet[c].platform_fee /\ GainKept(c)
  <2>1. bet[b] \in Bet /\ bet \in [Bets -> Bet] BY <1>1 DEF Sound, Typed
  <2> QED BY <1>1, <1>5, <2>1 DEF Bet, GainKept
<1> HIDE DEF b, s, R, u, v
<1>7. /\ \A x \in {u, v} : wallet'[x] = unlock_stake(wallet[x], s)
      /\ \A x \in Users \ {u, v} : wallet'[x] = wallet[x]
  BY <1>3, <1>4, <1>5 DEF void_refund, unlock_stake
<1>8. /\ \A c \in Bets \ {b} : ledger'[c] = ledger[c]
      /\ \A x \in Users \ {u, v} : ledger'[b][x] = ledger[b][x]
      /\ \A x \in {u, v} : ledger'[b][x] = [ledger[b][x] EXCEPT
                                !["VOID_REFUND"] = ledger[b][x]["VOID_REFUND"] + s]
  BY <1>1, <1>3, <1>5 DEF write_void_refund, Sound, Typed
<1>9. \A x \in {u, v} : /\ Debits(ledger'[b][x]) = Debits(ledger[b][x]) + s
                         /\ Credits(ledger'[b][x]) = Credits(ledger[b][x]) + s
                         /\ ledger'[b][x]["STAKE_LOCK"] = ledger[b][x]["STAKE_LOCK"]
  <2>1. \A x \in {u, v} : ledger[b][x] \in [EntryTypes -> Nat]
    BY <1>1, <1>3 DEF Sound, Typed
  <2> QED BY <1>2, <1>8, <2>1 DEF Debits, Credits, EntryTypes
<1>10. /\ \A x \in {u, v} : /\ wallet'[x] = unlock_stake(wallet[x], s)
                             /\ Debits(ledger'[b][x]) = Debits(ledger[b][x]) + s
                             /\ Credits(ledger'[b][x]) = Credits(ledger[b][x]) + s
                             /\ ledger'[b][x]["STAKE_LOCK"] = ledger[b][x]["STAKE_LOCK"]
       /\ \A x \in Users \ {u, v} : wallet'[x] = wallet[x] /\ ledger'[b][x] = ledger[b][x]
       /\ \A c \in Bets \ {b} : ledger'[c] = ledger[c]
       /\ wallet[u].locked >= s /\ wallet[v].locked >= s
  BY <1>4, <1>7, <1>8, <1>9
<1>11. platform' = platform BY <1>5
<1> QED BY <1>1, <1>2, <1>3, <1>6, <1>10, <1>11, ReturnMoves DEF Sound

(* What both paths of a settlement have in common. *)
LEMMA SettledBet ==
  ASSUME Sound, NEW t \in Workers, pc[t] = "settle_commit",
         NEW winner, NEW payout, NEW fee, NEW rate,
         CompleteSettlement(t, winner, payout, fee, rate)
  PROVE  LET b == req[t].bet
         IN  /\ platform' = platform + fee
             /\ bet[b].platform_fee = 0 /\ bet'[b].platform_fee = fee
             /\ \A c \in Bets \ {b} : bet'[c] = bet[c]
             /\ GainKept(b)
<1> DEFINE b == req[t].bet
<1>1. b \in Bets /\ psnap[t] = platform BY ReadyToSettle
<1>2. bet[b].status = "PENDING_SETTLEMENT" BY DEF CompleteSettlement, CanSettle
<1>3. bet[b].platform_fee = 0 BY <1>1, <1>2 DEF Sound, RowOK
<1>4. platform' = platform + fee BY <1>1 DEF CompleteSettlement
<1>5. bet' = [bet EXCEPT ![b] = [bet[b] EXCEPT !.status = "SETTLED",
                !.settlement_outcome = Path(b, req[t].outcome), !.winner_id = winner,
                !.payout_amount = payout, !.platform_fee = fee, !.applied_fee_rate = rate]]
  BY DEF CompleteSettlement
<1>6. bet[b] \in Bet /\ bet \in [Bets -> Bet] BY <1>1 DEF Sound, Typed
<1>7. bet'[b].platform_fee = fee /\ GainKept(b) /\ \A c \in Bets \ {b} : bet'[c] = bet[c]
  BY <1>1, <1>5, <1>6 DEF Bet, GainKept
<1> QED BY <1>3, <1>4, <1>7

(* The pool goes to the winner and the platform. *)
LEMMA WinnerMoves ==
  ASSUME Sound, NEW t \in Workers, SettleWinner(t)
  PROVE  MoneyMove
<1> DEFINE b == req[t].bet
           creatorWins == Path(b, req[t].outcome) = "creator_wins"
           u == IF creatorWins THEN bet[b].creator_id ELSE bet[b].opponent_id
           v == IF creatorWins THEN bet[b].opponent_id ELSE bet[b].creator_id
           s == req[t].stake
           p == WinnerAmounts(t).payout
           f == WinnerAmounts(t).fee
<1>1. pc[t] = "settle_commit" BY DEF SettleWinner
<1>2. /\ b \in Bets /\ u \in Users /\ v \in Users /\ u # v
      /\ CanRelease(t, u) /\ CanRelease(t, v)
  BY <1>1, ReadyToSettle
<1>3. s \in Nat /\ p \in Nat /\ f \in Nat /\ p + f = s + s BY <1>1, AmountsExact
<1>4. /\ wallet' = transfer_locked_funds(t, u, v, s, p)
      /\ ledger' = write_settlement_winner(b, u, v, s, p)
      /\ CompleteSettlement(t, u, p, f, req[t].winner_fee_rate)
  BY DEF SettleWinner
<1> HIDE DEF u, v, p, f
<1>5. /\ snap[t][u] = wallet[u] /\ wallet[u].locked >= s
      /\ snap[t][v] = wallet[v] /\ wallet[v].locked >= s
  <2>1. pc[t] \in PCs BY <1>1 DEF PCs, SettlePCs
  <2> QED BY <1>2, <2>1, HeldWallet DEF CanRelease
<1>6. /\ wallet'[u] = consume_stake(wallet[u], s, p) /\ wallet'[v] = consume_stake(wallet[v], s, 0)
      /\ \A x \in Users \ {u, v} : wallet'[x] = wallet[x]
  BY <1>2, <1>4, <1>5 DEF transfer_locked_funds, Sound, Typed
<1>7. /\ platform' = platform + f /\ bet[b].platform_fee = 0 /\ bet'[b].platform_fee = f
      /\ GainKept(b) /\ \A c \in Bets \ {b} : bet'[c] = bet[c]
  BY <1>1, <1>4, SettledBet
<1>8. ledger \in [Bets -> [Users -> [EntryTypes -> Nat]]] BY DEF Sound, Typed
<1>9. /\ \A c \in Bets \ {b} : ledger'[c] = ledger[c]
      /\ \A x \in Users \ {u, v} : ledger'[b][x] = ledger[b][x]
      /\ ledger'[b][u] = [ledger[b][u] EXCEPT
            !["SETTLEMENT_DEDUCT"] = ledger[b][u]["SETTLEMENT_DEDUCT"] + s,
            !["PAYOUT_CREDIT"] = ledger[b][u]["PAYOUT_CREDIT"] + p]
      /\ ledger'[b][v] = [ledger[b][v] EXCEPT
            !["SETTLEMENT_DEDUCT"] = ledger[b][v]["SETTLEMENT_DEDUCT"] + s]
  BY <1>2, <1>4, <1>8 DEF write_settlement_winner
<1>10. /\ Debits(ledger'[b][u]) = Debits(ledger[b][u]) + s
       /\ Credits(ledger'[b][u]) = Credits(ledger[b][u]) + p
       /\ ledger'[b][u]["STAKE_LOCK"] = ledger[b][u]["STAKE_LOCK"]
  <2>1. ledger[b][u] \in [EntryTypes -> Nat] BY <1>2, <1>8
  <2> QED BY <1>3, <1>9, <2>1 DEF Debits, Credits, EntryTypes
<1>11. /\ Debits(ledger'[b][v]) = Debits(ledger[b][v]) + s
       /\ Credits(ledger'[b][v]) = Credits(ledger[b][v]) + 0
       /\ ledger'[b][v]["STAKE_LOCK"] = ledger[b][v]["STAKE_LOCK"]
  <2>1. ledger[b][v] \in [EntryTypes -> Nat] BY <1>2, <1>8
  <2> QED BY <1>3, <1>9, <2>1 DEF Debits, Credits, EntryTypes
<1> DEFINE z == 0
<1>12. /\ p + z + f = s + s /\ z \in Nat /\ wallet'[v] = consume_stake(wallet[v], s, z)
       /\ Credits(ledger'[b][v]) = Credits(ledger[b][v]) + z
  BY <1>3, <1>6, <1>11
<1>13. /\ wallet'[u] = consume_stake(wallet[u], s, p)
       /\ \A x \in Users \ {u, v} : wallet'[x] = wallet[x] /\ ledger'[b][x] = ledger[b][x]
       /\ \A c \in Bets \ {b} : ledger'[c] = ledger[c] /\ bet'[c] = bet[c]
       /\ Debits(ledger'[b][v]) = Debits(ledger[b][v]) + s
       /\ ledger'[b][v]["STAKE_LOCK"] = ledger[b][v]["STAKE_LOCK"]
  BY <1>6, <1>7, <1>9, <1>11
<1>14. /\ GainKept(b) /\ platform' = platform + f /\ bet[b].platform_fee = 0 /\ bet'[b].platform_fee = f
       /\ wallet[u].locked >= s /\ wallet[v].locked >= s
  BY <1>5, <1>7
<1>15. Typed BY DEF Sound
<1> HIDE DEF b, s, z
<1> QED BY <1>2, <1>3, <1>10, <1>12, <1>13, <1>14, <1>15, SettleMoves

(* Each party gets the own stake less the fee back. *)
LEMMA NoWinnerMoves ==
  ASSUME Sound, NEW t \in Workers, SettleNoWinner(t)
  PROVE  MoneyMove
<1> DEFINE b == req[t].bet
           u == bet[b].creator_id
           v == bet[b].opponent_id
           s == req[t].stake
           p == NoWinnerAmounts(t).refund
           f == NoWinnerAmounts(t).fee
<1>1. pc[t] = "settle_commit" BY DEF SettleNoWinner
<1>2. /\ b \in Bets /\ u \in Users /\ v \in Users /\ u # v
      /\ CanRelease(t, u) /\ CanRelease(t, v)
  BY <1>1, ReadyToSettle
<1>3. s \in Nat /\ p \in Nat /\ f \in Nat /\ p + f = s BY <1>1, AmountsExact
<1>4. /\ wallet' = settle_no_winner(t, u, v, s, p)
      /\ ledger' = write_settlement_no_winner(b, u, v, f, p)
      /\ CompleteSettlement(t, NoOne, p, f + f, req[t].no_winner_fee_rate)
  BY DEF SettleNoWinner
<1> HIDE DEF u, v, p, f
<1>5. /\ snap[t][u] = wallet[u] /\ wallet[u].locked >= s
      /\ snap[t][v] = wallet[v] /\ wallet[v].locked >= s
  <2>1. pc[t] \in PCs BY <1>1 DEF PCs, SettlePCs
  <2> QED BY <1>2, <2>1, HeldWallet DEF CanRelease
<1>6. /\ wallet'[u] = consume_stake(wallet[u], s, p) /\ wallet'[v] = consume_stake(wallet[v], s, p)
      /\ \A x \in Users \ {u, v} : wallet'[x] = wallet[x]
  BY <1>2, <1>4, <1>5 DEF settle_no_winner, Sound, Typed
<1>7. /\ platform' = platform + (f + f) /\ bet[b].platform_fee = 0
      /\ GainKept(b) /\ bet'[b].platform_fee = f + f /\ \A c \in Bets \ {b} : bet'[c] = bet[c]
  BY <1>1, <1>4, SettledBet
<1>8. ledger \in [Bets -> [Users -> [EntryTypes -> Nat]]] BY DEF Sound, Typed
<1>9. /\ \A c \in Bets \ {b} : ledger'[c] = ledger[c]
      /\ \A x \in Users \ {u, v} : ledger'[b][x] = ledger[b][x]
      /\ \A x \in {u, v} : ledger'[b][x] = [ledger[b][x] EXCEPT
            !["FEE_DEDUCT"] = ledger[b][x]["FEE_DEDUCT"] + f,
            !["SETTLEMENT_DEDUCT"] = ledger[b][x]["SETTLEMENT_DEDUCT"] + p,
            !["REFUND_CREDIT"] = ledger[b][x]["REFUND_CREDIT"] + p]
  BY <1>2, <1>4, <1>8 DEF write_settlement_no_winner
<1>10. ASSUME NEW x \in {u, v}
       PROVE  /\ Debits(ledger'[b][x]) = Debits(ledger[b][x]) + s
              /\ Credits(ledger'[b][x]) = Credits(ledger[b][x]) + p
              /\ ledger'[b][x]["STAKE_LOCK"] = ledger[b][x]["STAKE_LOCK"]
  <2>1. ledger[b][x] \in [EntryTypes -> Nat] BY <1>2, <1>8
  <2>2. Debits(ledger'[b][x]) = Debits(ledger[b][x]) + (p + f)
        /\ Credits(ledger'[b][x]) = Credits(ledger[b][x]) + p
    BY <1>3, <1>9, <2>1 DEF Debits, Credits, EntryTypes
  <2>3. ledger'[b][x]["STAKE_LOCK"] = ledger[b][x]["STAKE_LOCK"]
    BY <1>9, <2>1 DEF EntryTypes
  <2> QED BY <1>3, <2>2, <2>3
<1>11. p + p + (f + f) = s + s /\ f + f \in Nat BY <1>3
<1> HIDE DEF b, s
<1> QED BY <1>2, <1>3, <1>5, <1>6, <1>7, <1>9, <1>10, <1>11, SettleMoves DEF Sound

-----------------------------------------------------------------------------
(* A step that writes no row leaves the money alone. *)
LEMMA NoMove == UNCHANGED rows => MoneyMove
BY DEF rows, MoneyMove, GainKept

(* So does confirming a result. *)
LEMMA ConfirmMoves ==
  ASSUME Sound, NEW t \in Workers, ConfirmCommit(t)
  PROVE  MoneyMove
<1>1. wallet' = wallet /\ platform' = platform /\ ledger' = ledger
  BY DEF ConfirmCommit
<1>2. ASSUME NEW c \in Bets PROVE bet'[c].platform_fee = bet[c].platform_fee /\ GainKept(c)
  <2>1. bet[c] \in Bet BY DEF Sound, Typed
  <2>2. bet'[c] = [bet[c] EXCEPT !.status = "PENDING_SETTLEMENT"] \/ bet'[c] = bet[c]
    BY DEF ConfirmCommit
  <2> QED BY <2>1, <2>2 DEF Bet, GainKept
<1> QED BY <1>1, <1>2 DEF MoneyMove

(* A rollback and every step inside a transaction leave the money alone;   *)
(* all commits move it in a balanced way.                                  *)
LEMMA BettingMoves ==
  ASSUME Sound, Typed', NEW t \in Workers, BetServiceStep(t) \/ AdminServiceStep(t)
  PROVE  MoneyMove
<1>1. CASE BetServiceStep(t)
  BY <1>1, NoMove, StakeCommitMoves, CancelMoves
  DEF BetServiceStep, CreateBegin, AcceptLock, LockStake, LockStakeRefused, CancelRead,
      UnlockStake, UnlockStakeRefused
<1>2. CASE AdminServiceStep(t)
  BY <1>2, NoMove, VoidMoves DEF AdminServiceStep, VoidLock, VoidRefund, VoidRefundRefused
<1> QED BY <1>1, <1>2

(* The same for the settlements. *)
LEMMA ServiceMoves ==
  ASSUME Sound, Typed', NEW t \in Workers, ServiceStep(t)
  PROVE  MoneyMove
<1>1. CASE SettlementStep(t)
  BY <1>1, NoMove, ConfirmMoves, WinnerMoves, NoWinnerMoves
  DEF SettlementStep, ConfirmLock, ConfirmScan, ConfirmRow, SettleSingle, SettleLock,
      SettleLockOn, SettleRefused, SettleRefusedOn, SettleWallet, SettlePlatform, SettleFail
<1> QED BY <1>1, BettingMoves DEF ServiceStep

(* The same for every step of the core. *)
LEMMA NextMoves == Sound /\ Typed' /\ [Next]_vars => MoneyMove
<1> SUFFICES ASSUME Sound, Typed', [Next]_vars PROVE MoneyMove OBVIOUS
<1>1. ASSUME NEW t \in Workers, DeadlockAbort(t) \/ Crash(t) PROVE MoneyMove
  BY <1>1, NoMove DEF DeadlockAbort, Crash
<1> QED BY <1>1, NoMove, ServiceMoves DEF Next, Tick, vars

(* The three money properties, together. *)
MoneyRight == MoneyTraced /\ LedgerReconciles /\ PlatformEarnsFees

(* A balanced and explained move preserves them. *)
LEMMA MovesKeepMoney ==
  ASSUME Typed, Typed', MoneyMove, MoneyRight
  PROVE  MoneyRight'
<1>1. CASE \E u, v \in Users, b \in Bets : Balanced(u, v, b) /\ Explained(b)
  BY <1>1, BalancedKeepsMoney, BalancedKeepsFees, ExplainedKeepsLedger DEF MoneyRight
<1>2. CASE /\ wallet' = wallet /\ platform' = platform /\ ledger' = ledger
           /\ \A c \in Bets : bet'[c].platform_fee = bet[c].platform_fee /\ GainKept(c)
  <2>0. /\ \A u \in Users : StakeGain(u)' = StakeGain(u)
        /\ Sum([c \in Bets |-> Gain(c)'], Bets) = Sum([c \in Bets |-> Gain(c)], Bets)
    BY <1>2, GainsSame
  <2>1. MoneyTraced' BY <1>2, <2>0 DEF MoneyRight, MoneyTraced, Wealth, Available, Locked
  <2>2. LedgerReconciles' BY <1>2, <2>0 DEF MoneyRight, LedgerReconciles, Entries
  <2>3. PlatformEarnsFees'
    <3>1. [c \in Bets |-> bet'[c].platform_fee] = [c \in Bets |-> bet[c].platform_fee] BY <1>2
    <3> QED BY <1>2, <3>1 DEF MoneyRight, PlatformEarnsFees
  <2> QED BY <2>1, <2>2, <2>3 DEF MoneyRight
<1> QED BY <1>1, <1>2 DEF MoneyMove

(* Every step preserves them. *)
LEMMA NextMoneyRight == Consistent /\ MoneyRight /\ [Next]_vars => MoneyRight'
<1> SUFFICES ASSUME Consistent, MoneyRight, [Next]_vars PROVE MoneyRight' OBVIOUS
<1>1. Sound /\ Typed /\ Typed' BY NextConsistent DEF Consistent, Sound
<1> QED BY <1>1, NextMoves, MovesKeepMoney

(* They hold at the start: nothing is locked, earned or written. *)
LEMMA InitMoneyRight == InitRest => MoneyRight
<1> SUFFICES ASSUME InitRest PROVE MoneyRight OBVIOUS
<1>1. IsFiniteSet(Users) /\ InitFunds \in [Users -> Nat]
  BY ConstantsAssumption DEF ConstantsAssumption
<1>0. \A b \in Bets : Gain(b) = 0 /\ \A u \in Users : GainOf(u, b) = 0
  <2>1. \A b \in Bets : bet[b].asked_stake = 0 BY DEF InitRest, NoBet
  <2>2. HalfCent(0) = 0 BY DEF HalfCent
  <2> QED BY <2>1, <2>2 DEF Gain, GainOf
<1>2. MoneyTraced
  <2>1. Sum(Available, Users) = Sum(InitFunds, Users)
    <3>1. \A u \in Users : Available[u] = InitFunds[u] BY DEF InitRest, Available
    <3> QED BY <3>1, SumSame
  <2>2. Sum(Locked, Users) = 0
    <3>1. \A u \in Users : Locked[u] = 0 BY DEF InitRest, Locked
    <3> QED BY <3>1, SumZero
  <2>3. Sum(InitFunds, Users) \in Nat BY <1>1, SumType
  <2>4. platform = 0 BY DEF InitRest
  <2>5. Sum([b \in Bets |-> Gain(b)], Bets) = 0
    <3>1. \A b \in Bets : [c \in Bets |-> Gain(c)][b] = 0 BY <1>0
    <3> QED BY <3>1, SumZero
  <2> QED BY <2>1, <2>2, <2>3, <2>4, <2>5 DEF MoneyTraced, Wealth
<1>3. LedgerReconciles
  <2>1. ASSUME NEW u \in Users, NEW type \in EntryTypes PROVE Sum(Entries(u, type), Bets) = 0
    <3>1. \A b \in Bets : Entries(u, type)[b] = 0 BY DEF InitRest, Entries, NoEntries
    <3> QED BY <3>1, SumZero
  <2>2. ASSUME NEW u \in Users
        PROVE  wallet[u].locked = 0 /\ wallet[u].available = InitFunds[u] /\ InitFunds[u] \in Nat
    BY <1>1 DEF InitRest
  <2>3. ASSUME NEW u \in Users PROVE StakeGain(u) = 0
    <3>1. \A b \in Bets : [c \in Bets |-> GainOf(u, c)][b] = 0 BY <1>0
    <3> QED BY <3>1, SumZero DEF StakeGain
  <2> QED BY <2>1, <2>2, <2>3 DEF LedgerReconciles, EntryTypes
<1>4. PlatformEarnsFees
  <2>1. \A b \in Bets : [c \in Bets |-> bet[c].platform_fee][b] = 0 BY DEF InitRest, NoBet
  <2>2. Sum([c \in Bets |-> bet[c].platform_fee], Bets) = 0 BY <2>1, SumZero
  <2> QED BY <2>2 DEF PlatformEarnsFees, InitRest
<1> QED BY <1>2, <1>3, <1>4 DEF MoneyRight

(* The three properties are invariants. *)
LEMMA MoneyRightAlways == Spec => []MoneyRight
<1>1. Init => MoneyRight BY InitMoneyRight DEF Init
<1> QED BY <1>1, NextMoneyRight, ConsistentAlways, PTL DEF Spec

(* No interleaving of bets, cancellations, voids, settlements, crashes and *)
(* deadlock victims creates or destroys a cent, for stakes of any size,    *)
(* but for the one cent every bet created for a stake that ends in half a  *)
(* cent leaves its creator.                                                *)
THEOREM MoneyIsTraced == Spec => []MoneyTraced
<1>1. MoneyRight => MoneyTraced BY DEF MoneyRight
<1> QED BY <1>1, MoneyRightAlways, PTL

(* At every commit the ledger explains both balances of every wallet,      *)
(* except for those cents.                                                 *)
THEOREM LedgerAlwaysReconciles == Spec => []LedgerReconciles
<1>1. MoneyRight => LedgerReconciles BY DEF MoneyRight
<1> QED BY <1>1, MoneyRightAlways, PTL

(* The platform account holds exactly the fees recorded on the bets, even  *)
(* after a late cancellation has overwritten the status of a settled bet.  *)
THEOREM PlatformHoldsFees == Spec => []PlatformEarnsFees
<1>1. MoneyRight => PlatformEarnsFees BY DEF MoneyRight
<1> QED BY <1>1, MoneyRightAlways, PTL
=============================================================================
