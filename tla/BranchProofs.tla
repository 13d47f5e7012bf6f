---------------------------- MODULE BranchProofs ----------------------------
(***************************************************************************)
(* Proofs about Branch, for any borrowers, amounts, prices and growth of   *)
(* the rates: the books of a collateral branch add up.                     *)
(***************************************************************************)
EXTENDS Branch, Sums

-----------------------------------------------------------------------------
(***************************************************************************)
(* Arithmetic and conversions                                              *)
(***************************************************************************)

\* The smaller of two amounts.
LEMMA MinOfPair ==
  ASSUME NEW x \in Int, NEW y \in Int
  PROVE  MinOf(x, y) \in {x, y} /\ MinOf(x, y) <= x /\ MinOf(x, y) <= y
BY DEF MinOf

\* A part of x by a fraction of at most one.
LEMMA Fraction ==
  ASSUME NEW x \in Nat, NEW a \in Nat, NEW b \in Nat \ {0}, a <= b
  PROVE  (x * a) \div b \in 0..x /\ (a * x) \div b \in 0..x
<1>1. a * x <= b * x /\ a * x \in Nat
  BY ProductMonotone
<1>2. a * x = x * a /\ b * x \in Nat
  OBVIOUS
<1> DEFINE p == a * x
<1>3. p \in Nat /\ p < b * x + b
  BY <1>1, <1>2
<1> HIDE DEF p
<1>4. p \div b \in Nat /\ p \div b <= x
  BY <1>3, DivBounds, DivAtMost
<1> QED
  BY <1>2, <1>4 DEF p

\* Converting an amount between normalized and actual debt gives an amount.
LEMMA Conversions ==
  ASSUME NEW n \in Nat, NEW r \in Nat \ {0}
  PROVE  _actualDebt(n, r) \in Nat /\ NormDown(n, r) \in Nat /\ _normalizedDebt(n, r) \in Nat
<1>1. n * r \in Nat /\ n * RATE_PRECISION \in Nat
  BY UnitsAssumption
<1>2. _actualDebt(n, r) \in Nat /\ NormDown(n, r) \in Nat
  BY <1>1, DivBounds, UnitsAssumption DEF _actualDebt, NormDown
<1> QED
  BY <1>2 DEF _normalizedDebt

\* A part of an actual debt is no more, in normalized debt, than the debt it is part of.
LEMMA NormalizedPart ==
  ASSUME NEW n \in Nat, NEW r \in Nat \ {0}, NEW x \in Nat, x <= _actualDebt(n, r)
  PROVE  NormDown(x, r) <= n
<1> DEFINE a == _actualDebt(n, r)
<1>1. n * r \in Nat /\ a \in Nat /\ RATE_PRECISION * a <= n * r
  BY DivBounds, UnitsAssumption DEF _actualDebt
<1> HIDE DEF a
<1>2. x * RATE_PRECISION <= a * RATE_PRECISION /\ x * RATE_PRECISION \in Nat
  BY <1>1, ProductMonotone, UnitsAssumption DEF a
<1>3. a * RATE_PRECISION = RATE_PRECISION * a /\ n * r = r * n
  BY <1>1, UnitsAssumption
<1> DEFINE p == x * RATE_PRECISION
<1>4. p \in Nat /\ p < r * n + r
  <2>1. p <= r * n /\ r * n \in Nat /\ p \in Nat
    BY <1>1, <1>2, <1>3, UnitsAssumption
  <2> HIDE DEF p
  <2> QED
    BY <2>1
<1> HIDE DEF p
<1>5. p \div r <= n
  BY <1>4, DivAtMost
<1> QED
  BY <1>5 DEF p, NormDown

-----------------------------------------------------------------------------
(***************************************************************************)
(* The books                                                               *)
(***************************************************************************)

Statuses == {"nonExistent", "active", "closedByOwner", "closedByLiquidation", "closedByRedemption"}

Troves == [debt : Nat, coll : Nat, stake : Nat]

Snaps == [collateral : Nat, LUSDDebt : Nat]

RewardSums ==
  [L_Coll : Nat, L_LUSDDebt : Nat, collError : Nat, debtError : Nat, totalStakes : Nat,
   totalStakesSnapshot : Nat, totalCollateralSnapshot : Nat]

Balances == [debt : Nat, coll : Nat]

Coins == [supply : Nat, gas : Nat, deposits : Nat, pending : Nat, fees : Nat]

Rates == [BOOLEAN -> RATE_PRECISION..MaxRate]

Total(f) == SumFunctionOnSet(f, Borrowers)

CollOf(t) == [b \in Borrowers |-> t[b].coll]

StakeOf(t) == [b \in Borrowers |-> t[b].stake]

BothColl(pools) == pools[FALSE].coll + pools[TRUE].coll

CoinsOK(l) == l \in Coins /\ l.pending <= l.deposits /\ Circulating(l) >= 0

\* Troves, snapshots, running sums and surpluses: typed and adding up.
AccountsOK(t, sn, w, sp) ==
  /\ t \in [Borrowers -> Troves] /\ sn \in [Borrowers -> Snaps] /\ w \in RewardSums
  /\ w.totalStakes = Total(StakeOf(t))
  /\ \A b \in Borrowers : sn[b].collateral <= w.L_Coll /\ sn[b].LUSDDebt <= w.L_LUSDDebt
  /\ sp \in [coll : Nat, balances : [Borrowers -> Nat]]
  /\ sp.coll = Total(sp.balances)

OwnersOK(st, sh) == st \in [Borrowers -> Statuses] /\ sh \in [Borrowers -> BOOLEAN]

PoolsOK(pools, dflt) == pools \in [BOOLEAN -> Balances] /\ dflt \in Balances

\* The inductive invariant: the pools hold the collateral of the troves, the gas pool a
\* compensation for each active one.
BranchInv ==
  /\ OwnersOK(status, shielded) /\ isShutdown \in BOOLEAN
  /\ AccountsOK(trove, snap, rw, surplus)
  /\ PoolsOK(active, default)
  /\ BothColl(active) = Total(CollOf(trove))
  /\ rate \in Rates
  /\ CoinsOK(lusd)
  /\ lusd.gas = LUSD_GAS_COMPENSATION * Cardinality(Active)

\* The sums over borrowers are over a finite set.
LEMMA FiniteBorrowers == IsFiniteSet(Borrowers)
BY UnitsAssumption

\* An accumulated rate never divides by zero.
LEMMA RatesPositive ==
  ASSUME NEW r \in Rates, NEW s \in BOOLEAN
  PROVE  r[s] \in Nat \ {0} /\ r[s] >= RATE_PRECISION /\ r[s] <= MaxRate
BY UnitsAssumption DEF Rates

\* The sums over all troves are amounts.
LEMMA TotalsTyped ==
  ASSUME NEW t \in [Borrowers -> Troves]
  PROVE  Total(CollOf(t)) \in Nat /\ Total(StakeOf(t)) \in Nat
<1>1. \A b \in Borrowers : CollOf(t)[b] \in Nat /\ StakeOf(t)[b] \in Nat
  BY DEF CollOf, StakeOf, Troves
<1> QED
  BY <1>1, SumNat, UnitsAssumption DEF Total

\* One trove changes.
LEMMA TroveChange ==
  ASSUME NEW t \in [Borrowers -> Troves], NEW u \in [Borrowers -> Troves], NEW b \in Borrowers,
         \A c \in Borrowers \ {b} : u[c] = t[c]
  PROVE  /\ Total(CollOf(u)) = Total(CollOf(t)) - t[b].coll + u[b].coll
         /\ Total(StakeOf(u)) = Total(StakeOf(t)) - t[b].stake + u[b].stake
<1>2. /\ \A c \in Borrowers : CollOf(t)[c] \in Int /\ CollOf(u)[c] \in Int
      /\ \A c \in Borrowers : StakeOf(t)[c] \in Int /\ StakeOf(u)[c] \in Int
  BY DEF CollOf, StakeOf, Troves
<1>3. /\ \A c \in Borrowers \ {b} : CollOf(u)[c] = CollOf(t)[c]
      /\ \A c \in Borrowers \ {b} : StakeOf(u)[c] = StakeOf(t)[c]
  BY DEF CollOf, StakeOf
<1>4. Total(CollOf(u)) = Total(CollOf(t)) - CollOf(t)[b] + CollOf(u)[b]
  <2> DEFINE f == CollOf(t)
             g == CollOf(u)
  <2>1. /\ \A c \in Borrowers : f[c] \in Int /\ g[c] \in Int
        /\ \A c \in Borrowers \ {b} : g[c] = f[c]
    BY <1>2, <1>3
  <2> HIDE DEF f, g
  <2>2. SumFunctionOnSet(g, Borrowers) = SumFunctionOnSet(f, Borrowers) - f[b] + g[b]
    BY <2>1, SumUpdate, FiniteBorrowers
  <2> QED
    BY <2>2 DEF Total, f, g
<1>5. Total(StakeOf(u)) = Total(StakeOf(t)) - StakeOf(t)[b] + StakeOf(u)[b]
  <2> DEFINE f == StakeOf(t)
             g == StakeOf(u)
  <2>1. /\ \A c \in Borrowers : f[c] \in Int /\ g[c] \in Int
        /\ \A c \in Borrowers \ {b} : g[c] = f[c]
    BY <1>2, <1>3
  <2> HIDE DEF f, g
  <2>2. SumFunctionOnSet(g, Borrowers) = SumFunctionOnSet(f, Borrowers) - f[b] + g[b]
    BY <2>1, SumUpdate, FiniteBorrowers
  <2> QED
    BY <2>2 DEF Total, f, g
<1>6. /\ CollOf(t)[b] = t[b].coll /\ CollOf(u)[b] = u[b].coll
      /\ StakeOf(t)[b] = t[b].stake /\ StakeOf(u)[b] = u[b].stake
  BY DEF CollOf, StakeOf
<1> QED
  BY <1>4, <1>5, <1>6

\* So is what the two ActivePools hold together.
LEMMA BothTyped ==
  ASSUME NEW pools \in [BOOLEAN -> Balances]
  PROVE  BothColl(pools) \in Nat /\ \A s \in BOOLEAN : pools[s].debt \in Nat /\ pools[s].coll \in Nat
<1>1. \A s \in BOOLEAN : pools[s] \in Balances
  BY Zenon
<1>2. \A x \in Balances : x.debt \in Nat /\ x.coll \in Nat
  BY DEF Balances
<1>3. \A s \in BOOLEAN : pools[s].debt \in Nat /\ pools[s].coll \in Nat
  BY <1>1, <1>2, Zenon
<1> DEFINE x == pools[FALSE].coll
           y == pools[TRUE].coll
<1>4. x \in Nat /\ y \in Nat
  BY <1>3, Zenon
<1>5. BothColl(pools) = x + y
  BY Zenon DEF BothColl
<1> HIDE DEF x, y
<1> QED
  BY <1>3, <1>4, <1>5

\* Something is added to one of the active pools.
LEMMA PoolChange ==
  ASSUME NEW pools \in [BOOLEAN -> Balances], NEW s \in BOOLEAN, NEW debt \in Int, NEW coll \in Int
  PROVE  /\ pools[s] \in Balances /\ pools[~s] \in Balances
         /\ BothColl(pools) \in Nat
         /\ BothColl(AddToPool(pools, s, debt, coll)) = BothColl(pools) + coll
         /\ AddToPool(pools, s, debt, coll)[s] =
              [debt |-> pools[s].debt + debt, coll |-> pools[s].coll + coll]
         /\ AddToPool(pools, s, debt, coll)[~s] = pools[~s]
         /\ pools[s].debt + debt >= 0 /\ pools[s].coll + coll >= 0
              => AddToPool(pools, s, debt, coll) \in [BOOLEAN -> Balances]
<1> DEFINE new == [debt |-> pools[s].debt + debt, coll |-> pools[s].coll + coll]
           q == [pools EXCEPT ![s] = new]
           x == pools[s]
           y == pools[~s]
<1>1. AddToPool(pools, s, debt, coll) = q
  BY Zenon DEF AddToPool
<1>2. x \in Balances /\ y \in Balances
  BY Zenon
<1>3. q[s] = new /\ q[~s] = y /\ q = [z \in BOOLEAN |-> q[z]]
  BY Zenon
<1>4. new.coll = x.coll + coll /\ new.debt = x.debt + debt
  BY Zenon
<1>5. x.coll \in Nat /\ y.coll \in Nat /\ x.debt \in Nat
  BY <1>2 DEF Balances
<1>6. BothColl(pools) = x.coll + y.coll
  <2>1. CASE s = TRUE
    <3>1. BothColl(pools) = y.coll + x.coll
      BY <2>1, Zenon DEF BothColl
    <3> QED
      BY <1>5, <3>1
  <2>2. CASE s = FALSE
    BY <2>2, Zenon DEF BothColl
  <2> QED
    BY <2>1, <2>2, Zenon
<1>7. BothColl(q) = new.coll + y.coll
  <2> HIDE DEF q, new
  <2>1. CASE s = TRUE
    <3>1. BothColl(q) = y.coll + new.coll
      BY <1>3, <2>1, Zenon DEF BothColl
    <3>2. new.coll \in Int
      BY <1>4, <1>5
    <3> QED
      BY <1>5, <3>1, <3>2
  <2>2. CASE s = FALSE
    BY <1>3, <2>2, Zenon DEF BothColl
  <2> QED
    BY <2>1, <2>2, Zenon
<1>8. ASSUME x.debt + debt >= 0, x.coll + coll >= 0
      PROVE  q \in [BOOLEAN -> Balances]
  <2>1. new \in Balances
    BY <1>5, <1>8 DEF Balances
  <2> HIDE DEF new
  <2> QED
    BY <2>1, Zenon
<1> HIDE DEF q, new
<1>9. BothColl(q) = BothColl(pools) + coll /\ BothColl(pools) \in Nat
  BY <1>4, <1>5, <1>6, <1>7
<1>10. q[s] = [debt |-> pools[s].debt + debt, coll |-> pools[s].coll + coll]
  BY <1>3, Zenon DEF new
<1> QED
  BY <1>1, <1>2, <1>3, <1>8, <1>9, <1>10, Zenon

\* What a change of one ActivePool does to the two pools' collateral.
LEMMA PoolAfter ==
  ASSUME NEW pools \in [BOOLEAN -> Balances], NEW s \in BOOLEAN, NEW debt \in Int, NEW coll \in Int,
         pools[s].debt + debt >= 0, pools[s].coll + coll >= 0,
         NEW q, q = AddToPool(pools, s, debt, coll)
  PROVE  q \in [BOOLEAN -> Balances] /\ BothColl(q) = BothColl(pools) + coll
BY PoolChange, Zenon

\* One account of the CollSurplusPool changes.
LEMMA SurplusChange ==
  ASSUME NEW f \in [Borrowers -> Nat], NEW g \in [Borrowers -> Nat], NEW b \in Borrowers,
         \A c \in Borrowers \ {b} : g[c] = f[c]
  PROVE  /\ Total(g) = Total(f) - f[b] + g[b]
         /\ Total(f) \in Nat /\ f[b] <= Total(f)
<1>1. \A c \in Borrowers : f[c] \in Int /\ g[c] \in Int
  OBVIOUS
<1>2. Total(g) = Total(f) - f[b] + g[b]
  BY <1>1, SumUpdate, FiniteBorrowers DEF Total
<1>3. Total(f) \in Nat
  BY SumNat, FiniteBorrowers DEF Total
<1>4. Total(f) = f[b] + SumFunctionOnSet(f, Borrowers \ {b})
  BY <1>1, SumRemove, FiniteBorrowers DEF Total
<1>5. SumFunctionOnSet(f, Borrowers \ {b}) \in Nat
  <2>1. IsFiniteSet(Borrowers \ {b})
    BY FS_Subset, FiniteBorrowers
  <2> QED
    BY <2>1, SumNat
<1>6. f[b] <= Total(f)
  BY <1>3, <1>4, <1>5
<1> QED
  BY <1>2, <1>3, <1>6

\* b's account becomes new, with the snapshot sb; its stake in the total is that of trove[b].
LEMMA AccountChange ==
  ASSUME NEW t, NEW sn, NEW w, NEW sp, AccountsOK(t, sn, w, sp),
         NEW b \in Borrowers, t[b].stake = trove[b].stake,
         NEW new \in Troves, NEW sb \in Snaps,
         sb.collateral <= w.L_Coll, sb.LUSDDebt <= w.L_LUSDDebt
  PROVE  /\ AccountsOK([t EXCEPT ![b] = new], [sn EXCEPT ![b] = sb], SetStake(w, b, new.stake), sp)
         /\ Total(CollOf([t EXCEPT ![b] = new])) = Total(CollOf(t)) - t[b].coll + new.coll
<1> DEFINE u == [t EXCEPT ![b] = new]
           v == SetStake(w, b, new.stake)
           sm == [sn EXCEPT ![b] = sb]
<1>0. /\ t \in [Borrowers -> Troves] /\ sn \in [Borrowers -> Snaps] /\ w \in RewardSums
      /\ w.totalStakes = Total(StakeOf(t))
      /\ \A c \in Borrowers : sn[c].collateral <= w.L_Coll /\ sn[c].LUSDDebt <= w.L_LUSDDebt
  BY DEF AccountsOK
<1>1. /\ u \in [Borrowers -> Troves]
      /\ Total(CollOf(u)) = Total(CollOf(t)) - t[b].coll + new.coll
      /\ Total(StakeOf(u)) = Total(StakeOf(t)) - t[b].stake + new.stake
  <2>1. u \in [Borrowers -> Troves] /\ u[b] = new /\ \A c \in Borrowers \ {b} : u[c] = t[c]
    BY <1>0
  <2> HIDE DEF u
  <2> QED
    BY <1>0, <2>1, TroveChange
<1>2. Total(StakeOf(u)) \in Nat
  BY <1>1, TotalsTyped
<1> HIDE DEF u
<1>3. v = [w EXCEPT !.totalStakes = Total(StakeOf(u))]
  BY <1>0, <1>1 DEF SetStake
<1>4. /\ v \in RewardSums /\ v.totalStakes = Total(StakeOf(u))
      /\ v.L_Coll = w.L_Coll /\ v.L_LUSDDebt = w.L_LUSDDebt
  BY <1>0, <1>2, <1>3 DEF RewardSums
<1> HIDE DEF v
<1>5. /\ sm \in [Borrowers -> Snaps]
      /\ \A c \in Borrowers : sm[c].collateral <= v.L_Coll /\ sm[c].LUSDDebt <= v.L_LUSDDebt
  BY <1>0, <1>4
<1> HIDE DEF sm
<1>6. AccountsOK(u, sm, v, sp)
  BY <1>1, <1>4, <1>5 DEF AccountsOK
<1> QED
  BY <1>1, <1>6 DEF u, v, sm

-----------------------------------------------------------------------------
(***************************************************************************)
(* Rewards and interest                                                    *)
(***************************************************************************)

\* Pending rewards are amounts: no snapshot is above its running sum.
LEMMA PendingTyped ==
  ASSUME BranchInv, NEW b \in Borrowers
  PROVE  getPendingCollateralReward(b) \in Nat /\ getPendingLUSDDebtReward(b) \in Nat
<1>1. /\ trove[b].stake \in Nat /\ rw.L_Coll - snap[b].collateral \in Nat
      /\ rw.L_LUSDDebt - snap[b].LUSDDebt \in Nat
  BY DEF BranchInv, AccountsOK, Troves, Snaps, RewardSums
<1>2. /\ trove[b].stake * (rw.L_Coll - snap[b].collateral) \in Nat
      /\ trove[b].stake * (rw.L_LUSDDebt - snap[b].LUSDDebt) \in Nat
  BY <1>1
<1> QED
  BY <1>2, DivBounds, UnitsAssumption DEF getPendingCollateralReward, getPendingLUSDDebtReward

\* Applying a reward moves collateral to the trove and, as much, to a pool.
LEMMA AppliedFields ==
  ASSUME BranchInv, NEW b \in Borrowers, NEW s \in BOOLEAN, NEW r \in Rates, NEW t \in Troves,
         NEW pools, NEW dflt, PoolsOK(pools, dflt),
         NEW a, a = _applyPendingRewards(b, s, r, t, pools, dflt)
  PROVE  /\ a.trove \in Troves /\ a.trove.stake = t.stake /\ a.trove.debt >= t.debt
         /\ a.snap \in Snaps /\ a.snap.collateral <= rw.L_Coll
         /\ a.snap.LUSDDebt <= rw.L_LUSDDebt
         /\ a.pools \in [BOOLEAN -> Balances]
         /\ BothColl(a.pools) = BothColl(pools) - t.coll + a.trove.coll
         /\ a.default \in [debt : Int, coll : Int]
<1> DEFINE coll == getPendingCollateralReward(b)
           debt == getPendingLUSDDebtReward(b)
           norm == NormDown(debt, r[s])
<1>1. coll \in Nat /\ debt \in Nat
  BY PendingTyped
<1>2. norm \in Nat
  BY <1>1, Conversions, RatesPositive
<1>3. /\ snap[b] \in Snaps /\ snap[b].collateral <= rw.L_Coll /\ snap[b].LUSDDebt <= rw.L_LUSDDebt
      /\ rw.L_Coll \in Nat /\ rw.L_LUSDDebt \in Nat
  BY DEF BranchInv, AccountsOK, RewardSums
<1>4. pools \in [BOOLEAN -> Balances] /\ dflt \in Balances
  BY DEF PoolsOK
<1>5. CASE ~hasPendingRewards(b)
  <2>1. a = [trove |-> t, snap |-> snap[b], pools |-> pools, default |-> dflt]
    BY <1>5 DEF _applyPendingRewards
  <2>2. a.trove = t /\ a.snap = snap[b] /\ a.pools = pools /\ a.default = dflt
    BY <2>1
  <2>3. t.coll \in Int /\ t.debt \in Int /\ dflt \in [debt : Int, coll : Int]
    BY <1>4 DEF Balances, Troves
  <2>4. BothColl(pools) \in Nat
    BY <1>4, BothTyped
  <2> QED
    BY <1>3, <1>4, <2>2, <2>3, <2>4
<1>6. CASE hasPendingRewards(b)
  <2> DEFINE pl == AddToPool(pools, s, norm, coll)
             tr == [debt |-> t.debt + debt, coll |-> t.coll + coll, stake |-> t.stake]
             df == [debt |-> dflt.debt - debt, coll |-> dflt.coll - coll]
  <2>1. a = [trove |-> tr, snap |-> Current, pools |-> pl, default |-> df]
    BY <1>6, Zenon DEF _applyPendingRewards
  <2> HIDE DEF coll, debt, norm
  <2>2. /\ tr \in Troves /\ tr.stake = t.stake /\ tr.coll = t.coll + coll /\ tr.debt >= t.debt
        /\ t.coll \in Int
    BY <1>1 DEF Troves
  <2>3. Current \in Snaps /\ Current.collateral <= rw.L_Coll /\ Current.LUSDDebt <= rw.L_LUSDDebt
    BY <1>3 DEF Current, Snaps
  <2>4. pools[s].debt + norm >= 0 /\ pools[s].coll + coll >= 0
    <3> DEFINE x == pools[s]
    <3>1. x \in Balances
      BY <1>4, Zenon
    <3> HIDE DEF x
    <3>2. x.debt + norm >= 0 /\ x.coll + coll >= 0
      BY <1>1, <1>2, <3>1 DEF Balances
    <3> QED
      BY <3>2 DEF x
  <2>5. pl \in [BOOLEAN -> Balances] /\ BothColl(pl) = BothColl(pools) + coll /\ BothColl(pools) \in Int
    <3>1. norm \in Int /\ coll \in Int
      BY <1>1, <1>2
    <3>2. BothColl(pools) \in Nat
      BY <1>4, BothTyped
    <3>3. pl \in [BOOLEAN -> Balances] /\ BothColl(pl) = BothColl(pools) + coll
      BY <1>4, <2>4, <3>1, PoolChange, Zenon
    <3> QED
      BY <3>2, <3>3
  <2>6. df \in [debt : Int, coll : Int]
    BY <1>1, <1>4 DEF Balances
  <2> HIDE DEF pl, tr, df
  <2>7. a.trove = tr /\ a.snap = Current /\ a.pools = pl /\ a.default = df
    BY <2>1
  <2>8. BothColl(a.pools) = BothColl(pools) - t.coll + a.trove.coll
    BY <1>1, <2>2, <2>5, <2>7
  <2> QED
    BY <2>2, <2>3, <2>5, <2>6, <2>7, <2>8
<1> QED
  BY <1>5, <1>6

\* So is a new stake, wherever the assert of _computeNewStake holds.
LEMMA StakeTyped ==
  ASSUME BranchInv, CanComputeStake, NEW coll \in Nat
  PROVE  _computeNewStake(coll) \in Nat
<1>1. rw.totalCollateralSnapshot \in Nat /\ rw.totalStakesSnapshot \in Nat
  BY DEF BranchInv, AccountsOK, RewardSums
<1>2. coll * rw.totalStakesSnapshot \in Nat
  BY <1>1
<1> QED
  BY <1>1, <1>2, DivBounds DEF _computeNewStake

\* A drip promises coins and nothing else; what circulates stays.
LEMMA DripFields ==
  ASSUME BranchInv, NEW pools, NEW dflt, NEW l, PoolsOK(pools, dflt), CoinsOK(l),
         NEW d \in DripsFrom(pools, dflt, l)
  PROVE  /\ d.rate \in Rates /\ CoinsOK(d.lusd)
         /\ d.lusd.gas = l.gas /\ Circulating(d.lusd) = Circulating(l)
<1>1. CASE d = NoDripOf(l)
  <2>1. d.rate = rate /\ d.lusd = l
    BY <1>1 DEF NoDripOf
  <2> QED
    BY <2>1 DEF BranchInv
<1>2. ASSUME NEW g \in Growth, d = _drip(g, pools, dflt, l), l.deposits # 0
      PROVE  /\ d.rate \in Rates /\ CoinsOK(d.lusd)
             /\ d.lusd.gas = l.gas /\ Circulating(d.lusd) = Circulating(l)
  <2> DEFINE r == [s \in BOOLEAN |-> (rate[s] * g[s]) \div RATE_PRECISION]
             debt == getEntireSystemDebt(pools, dflt, r)
             currentSupply == l.supply + l.pending + l.fees
             interest == IF debt > currentSupply THEN debt - currentSupply ELSE 0
             toSP == (interest * spAllocFrac) \div DECIMAL_PRECISION
             deposits == l.deposits + toSP
             pending == l.pending + toSP
             fees == l.fees + interest - toSP
             m == [l EXCEPT !.deposits = deposits, !.pending = pending, !.fees = fees]
  <2>1. d = [rate |-> r, lusd |-> m]
    BY <1>2, Zenon DEF _drip
  <2>2. d.rate = r /\ d.lusd = m
    BY <2>1
  <2>3. \A s \in BOOLEAN : d.rate[s] <= MaxRate
    BY DEF DripsFrom
  <2>4. ASSUME NEW s \in BOOLEAN
        PROVE  r[s] \in RATE_PRECISION..MaxRate
    <3>1. rate[s] \in Nat /\ rate[s] >= RATE_PRECISION /\ g[s] \in Nat /\ g[s] >= RATE_PRECISION
      BY RatesPositive, UnitsAssumption DEF BranchInv
    <3> DEFINE x == rate[s]
               y == g[s]
               p == x * y
    <3>2. x \in Nat /\ y \in Nat /\ RATE_PRECISION <= x /\ RATE_PRECISION <= y
      BY <3>1
    <3> HIDE DEF x, y
    <3>3. RATE_PRECISION * y <= p /\ p \in Nat
      BY <3>2, ProductMonotone, UnitsAssumption
    <3>4. RATE_PRECISION * RATE_PRECISION <= y * RATE_PRECISION
      BY <3>2, ProductMonotone, UnitsAssumption
    <3>5. RATE_PRECISION * RATE_PRECISION <= p
      BY <3>2, <3>3, <3>4, UnitsAssumption
    <3> HIDE DEF p
    <3>6. RATE_PRECISION <= p \div RATE_PRECISION /\ p \div RATE_PRECISION \in Nat
      BY <3>3, <3>5, DivAtLeast, DivBounds, UnitsAssumption
    <3>7. r[s] = p \div RATE_PRECISION
      BY DEF p, x, y
    <3> QED
      BY <2>2, <2>3, <3>6, <3>7, UnitsAssumption
  <2>5. r \in Rates
    BY <2>4 DEF Rates
  <2> HIDE DEF r
  <2>6. debt \in Nat
    <3> DEFINE x == _actualDebt(pools[FALSE].debt, r[FALSE])
               y == _actualDebt(pools[TRUE].debt, r[TRUE])
    <3>1. /\ pools[FALSE].debt \in Nat /\ pools[TRUE].debt \in Nat /\ dflt.debt \in Nat
          /\ r[FALSE] \in Nat \ {0} /\ r[TRUE] \in Nat \ {0}
      BY <2>5, BothTyped, RatesPositive DEF PoolsOK, Balances
    <3>2. x \in Nat /\ y \in Nat
      BY <3>1, Conversions
    <3>3. debt = x + y + dflt.debt
      BY Zenon DEF getEntireSystemDebt
    <3> HIDE DEF x, y, debt
    <3> QED
      BY <3>1, <3>2, <3>3
  <2> HIDE DEF debt
  <2>7. l \in Coins /\ l.pending <= l.deposits /\ Circulating(l) >= 0
    BY DEF CoinsOK
  <2>8. interest \in Nat
    BY <2>6, <2>7 DEF Coins
  <2> HIDE DEF interest
  <2>9. toSP \in 0..interest
    BY <2>8, Fraction, UnitsAssumption
  <2> HIDE DEF toSP
  <2>10. /\ m \in Coins /\ m.supply = l.supply /\ m.gas = l.gas
         /\ m.deposits = l.deposits + toSP /\ m.pending = l.pending + toSP
    <3>1. deposits \in Nat /\ pending \in Nat /\ fees \in Nat
      BY <2>7, <2>8, <2>9 DEF Coins
    <3> HIDE DEF deposits, pending, fees
    <3>2. /\ m \in Coins /\ m.supply = l.supply /\ m.gas = l.gas
          /\ m.deposits = deposits /\ m.pending = pending
      BY <2>7, <3>1 DEF Coins
    <3> HIDE DEF m
    <3> QED
      BY <3>2 DEF deposits, pending
  <2> HIDE DEF m
  <2>11. m.pending <= m.deposits /\ Circulating(m) = Circulating(l)
    BY <2>7, <2>8, <2>9, <2>10 DEF Circulating, Coins
  <2> QED
    BY <2>2, <2>5, <2>7, <2>10, <2>11 DEF CoinsOK
<1>3. ASSUME NEW g \in Growth, d = _drip(g, pools, dflt, l), l.deposits = 0
      PROVE  d = NoDripOf(l)
  BY <1>3 DEF _drip
<1>4. d = NoDripOf(l) \/ \E g \in Growth : d = _drip(g, pools, dflt, l)
  BY DEF DripsFrom
<1> QED
  BY <1>1, <1>2, <1>3, <1>4

-----------------------------------------------------------------------------
(***************************************************************************)
(* The steps of borrowers and depositors                                   *)
(***************************************************************************)

ActiveIn(st) == {b \in Borrowers : st[b] = "active"}

\* There are finitely many active troves.
LEMMA ActiveCount ==
  ASSUME NEW st
  PROVE  IsFiniteSet(ActiveIn(st)) /\ Cardinality(ActiveIn(st)) \in Nat
BY FS_Subset, FS_CardinalityType, FiniteBorrowers DEF ActiveIn

\* One more trove is active.
LEMMA ActiveMore ==
  ASSUME NEW st, NEW su, NEW b \in Borrowers, \A c \in Borrowers \ {b} : su[c] = st[c],
         st[b] # "active", su[b] = "active"
  PROVE  Cardinality(ActiveIn(su)) = Cardinality(ActiveIn(st)) + 1
<1>1. ActiveIn(su) = ActiveIn(st) \cup {b} /\ b \notin ActiveIn(st)
  BY DEF ActiveIn
<1> QED
  BY <1>1, ActiveCount, FS_AddElement

\* One less.
LEMMA ActiveLess ==
  ASSUME NEW st, NEW su, NEW b \in Borrowers, \A c \in Borrowers \ {b} : su[c] = st[c],
         st[b] = "active", su[b] # "active"
  PROVE  Cardinality(ActiveIn(su)) = Cardinality(ActiveIn(st)) - 1
<1>1. ActiveIn(su) = ActiveIn(st) \ {b} /\ b \in ActiveIn(st)
  BY DEF ActiveIn
<1> QED
  BY <1>1, ActiveCount, FS_RemoveElement

\* Before the checks.
IntCoins == [supply : Int, gas : Int, deposits : Int, pending : Int, fees : Nat]

\* Coins are typed when the parts are and what circulates is not negative.
LEMMA CoinsEnough ==
  ASSUME NEW m \in IntCoins,
         m.gas >= 0, m.pending >= 0, m.pending <= m.deposits, Circulating(m) >= 0
  PROVE  CoinsOK(m)
<1>1. m.supply >= 0 /\ m.deposits >= 0
  BY DEF Circulating, IntCoins
<1> QED
  BY <1>1 DEF CoinsOK, Coins, IntCoins

\* A drip changes neither the gas pool nor what circulates.
LEMMA DripsOfBranch ==
  ASSUME BranchInv, NEW d \in Drips
  PROVE  /\ d.rate \in Rates /\ CoinsOK(d.lusd)
         /\ d.lusd.gas = lusd.gas /\ Circulating(d.lusd) = Circulating(lusd)
BY DripFields DEF Drips, BranchInv

\* openTrove keeps the books.
LEMMA OpenStep ==
  ASSUME BranchInv, NEW b \in Borrowers, NEW coll \in Colls, NEW amount \in Amounts,
         NEW shield \in BOOLEAN, NEW price \in Prices, NEW d \in Drips,
         openTrove(b, coll, amount, shield, price, d)
  PROVE  BranchInv'
<1> DEFINE debt == amount + LUSD_GAS_COMPENSATION
           n == _normalizedDebt(debt, d.rate[shield])
           stake == _computeNewStake(coll)
           new == [debt |-> trove[b].debt + n, coll |-> trove[b].coll + coll, stake |-> stake]
           supply == d.lusd.supply + debt
           gas == d.lusd.gas + LUSD_GAS_COMPENSATION
<1>1. /\ CanComputeStake /\ status[b] # "active"
      /\ status' = [status EXCEPT ![b] = "active"] /\ shielded' = [shielded EXCEPT ![b] = shield]
      /\ trove' = [trove EXCEPT ![b] = new] /\ snap' = [snap EXCEPT ![b] = Current]
      /\ rw' = SetStake(rw, b, stake) /\ active' = AddToPool(active, shield, n, coll)
      /\ lusd' = [d.lusd EXCEPT !.supply = supply, !.gas = gas] /\ rate' = d.rate
      /\ isShutdown' = isShutdown /\ default' = default /\ surplus' = surplus
  BY Zenon DEF openTrove
<1>2. /\ OwnersOK(status, shielded) /\ isShutdown \in BOOLEAN
      /\ AccountsOK(trove, snap, rw, surplus) /\ PoolsOK(active, default)
      /\ BothColl(active) = Total(CollOf(trove))
      /\ lusd.gas = LUSD_GAS_COMPENSATION * Cardinality(ActiveIn(status))
  BY DEF BranchInv, Active, ActiveIn
<1>3. d.rate \in Rates /\ CoinsOK(d.lusd) /\ d.lusd.gas = lusd.gas
  BY DripsOfBranch
<1>4. coll \in Nat /\ amount \in Nat /\ LUSD_GAS_COMPENSATION \in Nat
  BY InputsAssumption, UnitsAssumption
<1>5. n \in Nat /\ stake \in Nat /\ debt \in Nat
  BY <1>1, <1>3, <1>4, Conversions, RatesPositive, StakeTyped
<1> HIDE DEF n, stake
<1>6. new \in Troves /\ new.stake = stake /\ new.coll = trove[b].coll + coll
  <2>1. trove[b] \in Troves
    BY <1>2 DEF AccountsOK
  <2> QED
    BY <1>4, <1>5, <2>1 DEF Troves
<1> HIDE DEF new
<1>7. Current \in Snaps /\ Current.collateral <= rw.L_Coll /\ Current.LUSDDebt <= rw.L_LUSDDebt
  BY <1>2 DEF Current, Snaps, AccountsOK, RewardSums
<1>8. /\ AccountsOK(trove', snap', rw', surplus')
      /\ Total(CollOf(trove')) = Total(CollOf(trove)) - trove[b].coll + new.coll
  <2>1. /\ AccountsOK([trove EXCEPT ![b] = new], [snap EXCEPT ![b] = Current],
                       SetStake(rw, b, new.stake), surplus)
        /\ Total(CollOf([trove EXCEPT ![b] = new])) = Total(CollOf(trove)) - trove[b].coll + new.coll
    BY <1>2, <1>6, <1>7, AccountChange
  <2> QED
    BY <1>1, <1>6, <2>1, Zenon
<1>9. PoolsOK(active', default') /\ BothColl(active') = BothColl(active) + coll
  <2> DEFINE x == active[shield].debt
             y == active[shield].coll
  <2>1. active \in [BOOLEAN -> Balances] /\ x \in Nat /\ y \in Nat
    BY <1>2, BothTyped DEF PoolsOK
  <2> HIDE DEF x, y
  <2>2. x + n >= 0 /\ y + coll >= 0 /\ n \in Int /\ coll \in Int
    BY <1>4, <1>5, <2>1
  <2>3. active' \in [BOOLEAN -> Balances] /\ BothColl(active') = BothColl(active) + coll
    BY <1>1, <2>1, <2>2, PoolChange, Zenon DEF x, y
  <2> QED
    BY <1>1, <1>2, <2>3 DEF PoolsOK
<1>10. BothColl(active') = Total(CollOf(trove'))
  <2>1. trove[b].coll \in Int /\ Total(CollOf(trove)) \in Int
    BY <1>2, TotalsTyped DEF AccountsOK, Troves
  <2> QED
    BY <1>2, <1>4, <1>6, <1>8, <1>9, <2>1
<1>11. OwnersOK(status', shielded')
  BY <1>1, <1>2 DEF OwnersOK, Statuses
<1>12. Cardinality(ActiveIn(status')) = Cardinality(ActiveIn(status)) + 1
  <2>1. status'[b] = "active" /\ \A c \in Borrowers \ {b} : status'[c] = status[c]
    BY <1>1, <1>2 DEF OwnersOK
  <2> QED
    BY <1>1, <2>1, ActiveMore
<1>13. Cardinality(ActiveIn(status)) \in Nat
  BY ActiveCount
<1>14. /\ lusd' \in IntCoins
       /\ lusd'.supply = supply /\ lusd'.gas = gas /\ lusd'.deposits = d.lusd.deposits
       /\ lusd'.pending = d.lusd.pending
  <2>1. d.lusd \in Coins /\ supply \in Int /\ gas \in Int
    BY <1>3, <1>4, <1>5 DEF CoinsOK, Coins
  <2> DEFINE l == d.lusd
             m == [l EXCEPT !.supply = supply, !.gas = gas]
  <2> HIDE DEF supply, gas, l
  <2>2. /\ m \in IntCoins
        /\ m.supply = supply /\ m.gas = gas /\ m.deposits = l.deposits /\ m.pending = l.pending
    <3>1. l \in IntCoins
      BY <2>1 DEF Coins, IntCoins, l
    <3> QED
      BY <2>1, <3>1, Zenon DEF IntCoins
  <2>3. lusd' = m
    BY <1>1, Zenon DEF l
  <2> HIDE DEF m
  <2> QED
    BY <2>2, <2>3 DEF l
<1>15. CoinsOK(lusd') /\ lusd'.gas = LUSD_GAS_COMPENSATION * Cardinality(ActiveIn(status'))
  <2>1. lusd'.gas >= 0 /\ lusd'.pending >= 0 /\ lusd'.pending <= lusd'.deposits
    BY <1>3, <1>4, <1>14 DEF CoinsOK, Coins
  <2>2. Circulating(lusd') = Circulating(d.lusd) + amount
    BY <1>3, <1>4, <1>14 DEF CoinsOK, Coins, Circulating
  <2>3. Circulating(d.lusd) \in Int /\ Circulating(d.lusd) >= 0
    BY <1>3 DEF CoinsOK, Coins, Circulating
  <2>4. CoinsOK(lusd')
    BY <1>4, <1>14, <2>1, <2>2, <2>3, CoinsEnough
  <2>5. lusd'.gas = LUSD_GAS_COMPENSATION * Cardinality(ActiveIn(status)) + LUSD_GAS_COMPENSATION
    BY <1>2, <1>3, <1>14
  <2>6. lusd'.gas = LUSD_GAS_COMPENSATION * (Cardinality(ActiveIn(status)) + 1)
    BY <1>4, <1>13, <2>5
  <2> QED
    BY <1>12, <2>4, <2>6
<1> QED
  BY <1>1, <1>2, <1>3, <1>8, <1>9, <1>10, <1>11, <1>15 DEF BranchInv, Active, ActiveIn

\* claimCollateral keeps the books.
LEMMA ClaimStep ==
  ASSUME BranchInv, NEW b \in Borrowers, NEW d \in Drips, claimCollateral(b, d)
  PROVE  BranchInv'
<1> DEFINE bal == surplus.balances
           paid == [bal EXCEPT ![b] = 0]
<1>1. /\ surplus' = [coll |-> surplus.coll - bal[b], balances |-> paid]
      /\ rate' = d.rate /\ lusd' = d.lusd /\ status' = status /\ shielded' = shielded
      /\ isShutdown' = isShutdown /\ trove' = trove /\ snap' = snap /\ rw' = rw
      /\ active' = active /\ default' = default
  BY Zenon DEF claimCollateral, rewardVars
<1>2. d.rate \in Rates /\ CoinsOK(d.lusd) /\ d.lusd.gas = lusd.gas
  BY DripsOfBranch
<1>3. AccountsOK(trove, snap, rw, surplus)
  BY DEF BranchInv
<1>4. bal \in [Borrowers -> Nat] /\ surplus.coll = Total(bal)
  BY <1>3 DEF AccountsOK
<1>5. paid \in [Borrowers -> Nat] /\ paid[b] = 0 /\ \A c \in Borrowers \ {b} : paid[c] = bal[c]
  BY <1>4
<1> HIDE DEF paid, bal
<1>6. Total(paid) = Total(bal) - bal[b] + paid[b] /\ Total(bal) \in Nat /\ bal[b] <= Total(bal)
  BY <1>4, <1>5, SurplusChange
<1>7. surplus' \in [coll : Nat, balances : [Borrowers -> Nat]] /\ surplus'.coll = Total(surplus'.balances)
  <2> DEFINE x == surplus.coll - bal[b]
  <2>1. bal[b] \in Nat
    BY <1>4
  <2>2. x \in Nat /\ x = Total(paid)
    BY <1>4, <1>5, <1>6, <2>1
  <2> HIDE DEF x
  <2>3. surplus' = [coll |-> x, balances |-> paid]
    BY <1>1 DEF x
  <2> QED
    BY <1>5, <2>2, <2>3
<1>8. AccountsOK(trove', snap', rw', surplus')
  BY <1>1, <1>3, <1>7 DEF AccountsOK
<1> QED
  BY <1>1, <1>2, <1>8 DEF BranchInv, Active

\* The coins and the rates are all that a step changes.
LEMMA CoinsStep ==
  ASSUME BranchInv, rate' \in Rates, CoinsOK(lusd'), lusd'.gas = lusd.gas, isShutdown' \in BOOLEAN,
         UNCHANGED <<status, shielded, trove, rewardVars, poolVars>>
  PROVE  BranchInv'
BY DEF BranchInv, Active, rewardVars, poolVars

\* provideToSP keeps the books.
LEMMA ProvideStep ==
  ASSUME BranchInv, NEW amount \in Deposits, NEW d \in Drips, provideToSP(amount, d)
  PROVE  BranchInv'
<1> DEFINE l == d.lusd
           supply == l.supply + l.pending
           deposits == l.deposits + amount
<1>1. /\ Circulating(l) >= amount /\ rate' = d.rate /\ isShutdown' = isShutdown
      /\ lusd' = [l EXCEPT !.supply = supply, !.pending = 0, !.deposits = deposits]
      /\ UNCHANGED <<status, shielded, trove, rewardVars, poolVars>>
  BY Zenon DEF provideToSP
<1>2. d.rate \in Rates /\ CoinsOK(l) /\ l.gas = lusd.gas
  BY DripsOfBranch
<1> HIDE DEF l
<1>3. amount \in Nat /\ l \in Coins /\ supply \in Int /\ deposits \in Int
  BY <1>2, InputsAssumption DEF CoinsOK, Coins
<1>4. /\ lusd' \in IntCoins
      /\ lusd'.supply = supply /\ lusd'.gas = l.gas /\ lusd'.deposits = deposits /\ lusd'.pending = 0
  <2> DEFINE m == [l EXCEPT !.supply = supply, !.pending = 0, !.deposits = deposits]
  <2> HIDE DEF supply, deposits
  <2>1. /\ m \in IntCoins
        /\ m.supply = supply /\ m.gas = l.gas /\ m.deposits = deposits /\ m.pending = 0
    <3>1. l \in IntCoins /\ 0 \in Int
      BY <1>3 DEF Coins, IntCoins
    <3> QED
      BY <1>3, <3>1, Zenon DEF IntCoins
  <2>2. lusd' = m
    BY <1>1, Zenon
  <2> HIDE DEF m
  <2> QED
    BY <2>1, <2>2
<1>5. lusd'.gas >= 0 /\ lusd'.pending >= 0 /\ lusd'.pending <= lusd'.deposits /\ Circulating(lusd') >= 0
  BY <1>1, <1>2, <1>3, <1>4 DEF CoinsOK, Coins, Circulating
<1>6. CoinsOK(lusd')
  BY <1>4, <1>5, CoinsEnough
<1>7. isShutdown' \in BOOLEAN
  BY <1>1 DEF BranchInv
<1> QED
  BY <1>1, <1>2, <1>4, <1>6, <1>7, CoinsStep

\* withdrawFromSP keeps the books.
LEMMA WithdrawStep ==
  ASSUME BranchInv, NEW amount \in Deposits, NEW price \in Prices, NEW d \in Drips,
         withdrawFromSP(amount, price, d)
  PROVE  BranchInv'
<1> DEFINE l == d.lusd
           withdrawn == MinOf(amount, getMaxAmountToOffset(l))
           supply == l.supply + l.pending
           deposits == l.deposits - withdrawn
<1>1. /\ rate' = d.rate /\ isShutdown' = isShutdown
      /\ lusd' = [l EXCEPT !.supply = supply, !.pending = 0, !.deposits = deposits]
      /\ UNCHANGED <<status, shielded, trove, rewardVars, poolVars>>
  BY Zenon DEF withdrawFromSP
<1>2. d.rate \in Rates /\ CoinsOK(l) /\ l.gas = lusd.gas
  BY DripsOfBranch
<1> HIDE DEF l
<1>3. amount \in Nat /\ l \in Coins
  BY <1>2, InputsAssumption DEF CoinsOK
<1>4. withdrawn \in 0..l.deposits
  BY <1>3, UnitsAssumption DEF getMaxAmountToOffset, MinOf, Coins
<1> HIDE DEF withdrawn
<1>5. supply \in Int /\ deposits \in Int
  BY <1>3, <1>4 DEF Coins
<1>6. /\ lusd' \in IntCoins
      /\ lusd'.supply = supply /\ lusd'.gas = l.gas /\ lusd'.deposits = deposits /\ lusd'.pending = 0
  <2> DEFINE m == [l EXCEPT !.supply = supply, !.pending = 0, !.deposits = deposits]
  <2> HIDE DEF supply, deposits
  <2>1. /\ m \in IntCoins
        /\ m.supply = supply /\ m.gas = l.gas /\ m.deposits = deposits /\ m.pending = 0
    <3>1. l \in IntCoins /\ 0 \in Int
      BY <1>3 DEF Coins, IntCoins
    <3> QED
      BY <1>3, <1>5, <3>1, Zenon DEF IntCoins
  <2>2. lusd' = m
    BY <1>1, Zenon
  <2> HIDE DEF m
  <2> QED
    BY <2>1, <2>2
<1>7. lusd'.gas >= 0 /\ lusd'.pending >= 0 /\ lusd'.pending <= lusd'.deposits /\ Circulating(lusd') >= 0
  BY <1>2, <1>3, <1>4, <1>6 DEF CoinsOK, Coins, Circulating
<1>8. CoinsOK(lusd')
  BY <1>6, <1>7, CoinsEnough
<1>9. isShutdown' \in BOOLEAN
  BY <1>1 DEF BranchInv
<1> QED
  BY <1>1, <1>2, <1>6, <1>8, <1>9, CoinsStep

\* shutdown, shutdownFromOracleFailure and drip.
LEMMA DripStep ==
  ASSUME BranchInv, NEW d \in Drips, rate' = d.rate, lusd' = d.lusd, isShutdown' \in BOOLEAN,
         UNCHANGED <<status, shielded, trove, rewardVars, poolVars>>
  PROVE  BranchInv'
BY DripsOfBranch, CoinsStep

\* The default pool after a reward has been taken out, when it could be.
LEMMA DefaultTyped ==
  ASSUME NEW df \in [debt : Int, coll : Int], df.debt >= 0, df.coll >= 0
  PROVE  df \in Balances
BY DEF Balances

\* closeTrove keeps the books.
LEMMA CloseStep ==
  ASSUME BranchInv, NEW b \in Borrowers, NEW d \in Drips, closeTrove(b, d)
  PROVE  BranchInv'
<1> DEFINE s == shielded[b]
           a == _applyPendingRewards(b, s, d.rate, trove[b], active, default)
           t == a.trove
           r == d.rate[s]
           actual == _actualDebt(t.debt, r)
           n == Repaid(actual, r)
           new == [debt |-> 0, coll |-> 0, stake |-> 0]
           none == [collateral |-> 0, LUSDDebt |-> 0]
           l == d.lusd
           supply == l.supply - actual
           gas == l.gas - LUSD_GAS_COMPENSATION
           m == [l EXCEPT !.supply = supply, !.gas = gas]
<1>1. /\ status[b] = "active" /\ actual >= LUSD_GAS_COMPENSATION
      /\ Circulating(l) >= actual - LUSD_GAS_COMPENSATION
      /\ a.default.debt >= 0 /\ a.default.coll >= 0
      /\ a.pools[s].debt >= n /\ a.pools[s].coll >= t.coll
      /\ status' = [status EXCEPT ![b] = "closedByOwner"]
      /\ shielded' = [shielded EXCEPT ![b] = FALSE]
      /\ trove' = [trove EXCEPT ![b] = new] /\ snap' = [snap EXCEPT ![b] = none]
      /\ rw' = SetStake(rw, b, 0) /\ active' = AddToPool(a.pools, s, -n, -t.coll)
      /\ default' = a.default /\ lusd' = m /\ rate' = d.rate
      /\ isShutdown' = isShutdown /\ surplus' = surplus
  BY Zenon DEF closeTrove
<1>2. /\ OwnersOK(status, shielded) /\ isShutdown \in BOOLEAN
      /\ AccountsOK(trove, snap, rw, surplus) /\ PoolsOK(active, default)
      /\ BothColl(active) = Total(CollOf(trove))
      /\ lusd.gas = LUSD_GAS_COMPENSATION * Cardinality(ActiveIn(status))
  BY DEF BranchInv, Active, ActiveIn
<1>3. d.rate \in Rates /\ CoinsOK(l) /\ l.gas = lusd.gas
  BY DripsOfBranch
<1>4. s \in BOOLEAN /\ trove[b] \in Troves
  BY <1>2, Zenon DEF OwnersOK, AccountsOK
<1>5. r \in Nat \ {0} /\ LUSD_GAS_COMPENSATION \in Nat
  BY <1>3, <1>4, RatesPositive, UnitsAssumption
<1> HIDE DEF r, l
<1>6. /\ t \in Troves /\ t.stake = trove[b].stake /\ a.pools \in [BOOLEAN -> Balances]
      /\ BothColl(a.pools) = BothColl(active) - trove[b].coll + t.coll
      /\ a.default \in [debt : Int, coll : Int]
  <2>1. a = _applyPendingRewards(b, s, d.rate, trove[b], active, default)
    OBVIOUS
  <2> HIDE DEF a, s
  <2> QED
    BY <1>2, <1>3, <1>4, <2>1, AppliedFields
<1> HIDE DEF s, a, t
<1>7. t.debt \in Nat /\ t.coll \in Nat /\ trove[b].coll \in Nat
  BY <1>4, <1>6 DEF Troves
<1>8. actual \in Nat
  BY <1>5, <1>7, Conversions
<1> HIDE DEF actual
<1>9. n \in Nat
  <2>1. actual - LUSD_GAS_COMPENSATION \in Nat
    BY <1>1, <1>5, <1>8
  <2>2. /\ _normalizedDebt(actual - LUSD_GAS_COMPENSATION, r) \in Nat
        /\ _normalizedDebt(LUSD_GAS_COMPENSATION, r) \in Nat
    BY <1>5, <2>1, Conversions
  <2> QED
    BY <2>2 DEF Repaid
<1> HIDE DEF n
<1>10. /\ AccountsOK(trove', snap', rw', surplus')
       /\ Total(CollOf(trove')) = Total(CollOf(trove)) - trove[b].coll + 0
  <2>1. new \in Troves /\ new.stake = 0 /\ new.coll = 0
    BY DEF Troves
  <2>2. none \in Snaps /\ none.collateral <= rw.L_Coll /\ none.LUSDDebt <= rw.L_LUSDDebt
    BY <1>2 DEF Snaps, AccountsOK, RewardSums
  <2> HIDE DEF new, none
  <2>3. /\ AccountsOK([trove EXCEPT ![b] = new], [snap EXCEPT ![b] = none],
                       SetStake(rw, b, new.stake), surplus)
        /\ Total(CollOf([trove EXCEPT ![b] = new])) = Total(CollOf(trove)) - trove[b].coll + new.coll
    BY <1>2, <2>1, <2>2, AccountChange
  <2> QED
    BY <1>1, <2>1, <2>3, Zenon
<1>11. PoolsOK(active', default') /\ BothColl(active') = BothColl(a.pools) + -t.coll
  <2> DEFINE x == a.pools[s].debt
             y == a.pools[s].coll
  <2>1. x \in Nat /\ y \in Nat
    BY <1>4, <1>6, BothTyped DEF s
  <2>2. x >= n /\ y >= t.coll
    BY <1>1
  <2> HIDE DEF x, y
  <2> DEFINE dn == -n
             dc == -t.coll
  <2>3. x + dn >= 0 /\ y + dc >= 0 /\ dn \in Int /\ dc \in Int
    BY <1>7, <1>9, <2>1, <2>2
  <2>4. active' = AddToPool(a.pools, s, dn, dc)
    BY <1>1
  <2> HIDE DEF dn, dc
  <2>5. active' \in [BOOLEAN -> Balances] /\ BothColl(active') = BothColl(a.pools) + dc
    <3> DEFINE pools == a.pools
    <3>1. /\ pools \in [BOOLEAN -> Balances] /\ active' = AddToPool(pools, s, dn, dc)
          /\ pools[s].debt + dn >= 0 /\ pools[s].coll + dc >= 0
      BY <1>6, <2>3, <2>4, Zenon DEF x, y
    <3> HIDE DEF pools
    <3>2. active' \in [BOOLEAN -> Balances] /\ BothColl(active') = BothColl(pools) + dc
      BY <1>4, <2>3, <3>1, PoolAfter
    <3> QED
      BY <3>2, Zenon DEF pools
  <2>6. default' \in Balances
    BY <1>1, <1>6, DefaultTyped
  <2> QED
    BY <2>5, <2>6 DEF PoolsOK, dc
<1>12. BothColl(active') = Total(CollOf(trove'))
  <2>1. Total(CollOf(trove)) \in Int
    BY <1>2, TotalsTyped DEF AccountsOK
  <2> QED
    BY <1>2, <1>6, <1>7, <1>10, <1>11, <2>1
<1>13. OwnersOK(status', shielded')
  BY <1>1, <1>2 DEF OwnersOK, Statuses
<1>14. Cardinality(ActiveIn(status')) = Cardinality(ActiveIn(status)) - 1
  <2>1. status'[b] # "active" /\ \A c \in Borrowers \ {b} : status'[c] = status[c]
    BY <1>1, <1>2 DEF OwnersOK
  <2> QED
    BY <1>1, <2>1, ActiveLess
<1>15. Cardinality(ActiveIn(status)) \in Nat /\ Cardinality(ActiveIn(status')) \in Nat
  BY ActiveCount
<1>16. /\ lusd' \in IntCoins
       /\ lusd'.supply = supply /\ lusd'.gas = gas /\ lusd'.deposits = l.deposits
       /\ lusd'.pending = l.pending
  <2>1. l \in IntCoins /\ supply \in Int /\ gas \in Int
    BY <1>3, <1>5, <1>8 DEF CoinsOK, Coins, IntCoins
  <2> HIDE DEF supply, gas
  <2>2. m \in IntCoins /\ m.supply = supply /\ m.gas = gas /\ m.deposits = l.deposits /\ m.pending = l.pending
    BY <2>1, Zenon DEF IntCoins
  <2> HIDE DEF m
  <2> QED
    BY <1>1, <2>2
<1> HIDE DEF m
<1>17. lusd'.gas = LUSD_GAS_COMPENSATION * Cardinality(ActiveIn(status'))
  <2>1. lusd'.gas = LUSD_GAS_COMPENSATION * Cardinality(ActiveIn(status)) - LUSD_GAS_COMPENSATION
    BY <1>2, <1>3, <1>16
  <2>2. lusd'.gas = LUSD_GAS_COMPENSATION * (Cardinality(ActiveIn(status)) - 1)
    BY <1>5, <1>15, <2>1
  <2> QED
    BY <1>14, <2>2
<1>18. CoinsOK(lusd')
  <2>1. lusd'.gas >= 0
    BY <1>5, <1>15, <1>17
  <2>2. lusd'.pending >= 0 /\ lusd'.pending <= lusd'.deposits
    BY <1>3, <1>16 DEF CoinsOK, Coins
  <2>3. Circulating(lusd') >= 0
    BY <1>1, <1>3, <1>5, <1>8, <1>16 DEF CoinsOK, Coins, Circulating
  <2> QED
    BY <1>16, <2>1, <2>2, <2>3, CoinsEnough
<1> QED
  BY <1>1, <1>2, <1>3, <1>10, <1>11, <1>12, <1>13, <1>17, <1>18 DEF BranchInv, Active, ActiveIn

\* A toggle moves debt between the pools, and no collateral.
LEMMA ToggleFields ==
  ASSUME BranchInv, NEW b \in Borrowers, NEW s \in BOOLEAN, NEW r \in Rates,
         \A p \in BOOLEAN : ToggleShield(b, s, r).pools[p].debt >= 0
  PROVE  LET m == ToggleShield(b, s, r)
         IN /\ m.trove \in Troves /\ m.trove.stake = trove[b].stake /\ m.trove.coll = trove[b].coll
            /\ m.pools \in [BOOLEAN -> Balances] /\ BothColl(m.pools) = BothColl(active)
<1> DEFINE m == ToggleShield(b, s, r)
           o == ~s
           old == trove[b].debt
           n == (old * r[o]) \div r[s]
           t == [trove[b] EXCEPT !.debt = n]
           minus == -old
           first == AddToPool(active, o, minus, 0)
           second == AddToPool(first, s, n, 0)
<1>1. m = [trove |-> t, pools |-> second]
  BY Zenon DEF ToggleShield
<1>2. m.trove = t /\ m.pools = second
  <2> HIDE DEF t, second, m
  <2> QED
    BY <1>1
<1>3. trove[b] \in Troves /\ active \in [BOOLEAN -> Balances] /\ o \in BOOLEAN
  BY DEF BranchInv, AccountsOK, PoolsOK
<1>4. old \in Nat /\ r[o] \in Nat \ {0} /\ r[s] \in Nat \ {0}
  BY <1>3, RatesPositive DEF Troves
<1>5. n \in Nat
  <2> DEFINE x == r[o]
             y == r[s]
  <2>1. x \in Nat /\ y \in Nat \ {0}
    BY <1>4
  <2> HIDE DEF x, y, old
  <2>2. (old * x) \in Nat
    BY <1>4, <2>1
  <2>3. (old * x) \div y \in Nat
    BY <2>1, <2>2, DivBounds
  <2> QED
    BY <2>3 DEF x, y
<1> HIDE DEF n
<1>6. t \in Troves /\ t.stake = trove[b].stake /\ t.coll = trove[b].coll
  BY <1>3, <1>5 DEF Troves
<1> HIDE DEF t, o
<1>7. minus \in Int /\ 0 \in Int /\ n \in Int
  BY <1>4, <1>5
<1> HIDE DEF minus
<1>8. /\ BothColl(first) = BothColl(active) + 0
      /\ first[o] = [debt |-> active[o].debt + minus, coll |-> active[o].coll + 0]
      /\ active[o].debt + minus >= 0 /\ active[o].coll + 0 >= 0 => first \in [BOOLEAN -> Balances]
  BY <1>3, <1>7, PoolChange
<1>9. second[o] = first[o]
  <2>1. first = [p \in BOOLEAN |-> first[p]]
    BY <1>3, Zenon DEF AddToPool
  <2> HIDE DEF first
  <2> QED
    BY <2>1, Zenon DEF AddToPool, o
<1>10. first \in [BOOLEAN -> Balances]
  <2> DEFINE x == active[o].debt
             y == active[o].coll
  <2>1. x \in Nat /\ y \in Nat
    BY <1>3, BothTyped
  <2>2. first[o].debt >= 0
    BY <1>2, <1>3, <1>9, Zenon
  <2>3. first[o].debt = x + minus
    <3> HIDE DEF first
    <3> QED
      BY <1>8
  <2> HIDE DEF x, y
  <2>4. y + 0 >= 0 /\ x + minus >= 0
    BY <2>1, <2>2, <2>3
  <2> QED
    BY <1>8, <2>4, Zenon DEF x, y
<1> HIDE DEF first
<1>11. /\ BothColl(second) = BothColl(first) + 0
       /\ first[s].debt + n >= 0 /\ first[s].coll + 0 >= 0 => second \in [BOOLEAN -> Balances]
  BY <1>7, <1>10, PoolChange, Zenon
<1>12. second \in [BOOLEAN -> Balances]
  <2> DEFINE x == first[s].debt
             y == first[s].coll
  <2>1. x \in Nat /\ y \in Nat
    BY <1>10, BothTyped
  <2> HIDE DEF x, y
  <2>2. x + n >= 0 /\ y + 0 >= 0
    BY <1>5, <2>1
  <2> QED
    BY <1>11, <2>2, Zenon DEF x, y
<1>13. BothColl(second) = BothColl(active)
  <2>1. BothColl(active) \in Nat
    BY <1>3, BothTyped
  <2> QED
    BY <1>8, <1>11, <2>1
<1> HIDE DEF second, m
<1> QED
  BY <1>2, <1>6, <1>12, <1>13 DEF m

\* adjustTrove keeps the books, with and without a toggle.
LEMMA AdjustStep ==
  ASSUME BranchInv, NEW b \in Borrowers, NEW a \in Adjustments, NEW price \in Prices, NEW d \in Drips,
         adjustTrove(b, a, price, d)
  PROVE  BranchInv'
<1> DEFINE s == shielded[b] # a.toggle
           r == d.rate
           moved == IF a.toggle THEN ToggleShield(b, s, r)
                    ELSE [trove |-> trove[b], pools |-> active]
           applied == _applyPendingRewards(b, s, r, moved.trove, moved.pools, default)
           t == applied.trove
           actual == _actualDebt(t.debt, r[s])
           n == IF a.debt >= 0 THEN _normalizedDebt(a.debt, r[s]) ELSE -_normalizedDebt(-a.debt, r[s])
           coll == t.coll + a.coll
           stake == _computeNewStake(coll)
           debt == t.debt + n
           new == [debt |-> debt, coll |-> coll, stake |-> stake]
           dc == a.coll
           l == d.lusd
           supply == l.supply + a.debt
           m == [l EXCEPT !.supply = supply]
<1>1. /\ \A p \in BOOLEAN : moved.pools[p].debt >= 0
      /\ applied.default.debt >= 0 /\ applied.default.coll >= 0
      /\ coll >= 0 /\ CanComputeStake /\ debt >= 0
      /\ a.debt < 0 => Circulating(l) + a.debt >= 0
      /\ applied.pools[s].debt + n >= 0 /\ applied.pools[s].coll + dc >= 0
      /\ shielded' = [shielded EXCEPT ![b] = s]
      /\ trove' = [trove EXCEPT ![b] = new] /\ snap' = [snap EXCEPT ![b] = applied.snap]
      /\ rw' = SetStake(rw, b, stake) /\ active' = AddToPool(applied.pools, s, n, dc)
      /\ default' = applied.default /\ lusd' = m /\ rate' = r
      /\ status' = status /\ isShutdown' = isShutdown /\ surplus' = surplus
  BY Zenon DEF adjustTrove
<1>2. /\ OwnersOK(status, shielded) /\ isShutdown \in BOOLEAN
      /\ AccountsOK(trove, snap, rw, surplus) /\ PoolsOK(active, default)
      /\ BothColl(active) = Total(CollOf(trove))
      /\ lusd.gas = LUSD_GAS_COMPENSATION * Cardinality(Active)
  BY DEF BranchInv
<1>3. r \in Rates /\ CoinsOK(l) /\ l.gas = lusd.gas
  BY DripsOfBranch
<1>4. /\ s \in BOOLEAN /\ trove[b] \in Troves /\ default \in Balances
      /\ active \in [BOOLEAN -> Balances]
  BY <1>2, Zenon DEF AccountsOK, PoolsOK
<1>5. a.coll \in Int /\ a.debt \in Int /\ a.toggle \in BOOLEAN
  BY InputsAssumption
<1> HIDE DEF s, r, l
<1>6. /\ moved.trove \in Troves /\ moved.trove.stake = trove[b].stake
      /\ moved.trove.coll = trove[b].coll
      /\ moved.pools \in [BOOLEAN -> Balances] /\ BothColl(moved.pools) = BothColl(active)
  <2>1. CASE a.toggle
    <3>1. moved = ToggleShield(b, s, r)
      BY <2>1, Zenon
    <3>2. \A p \in BOOLEAN : ToggleShield(b, s, r).pools[p].debt >= 0
      BY <1>1, <3>1, Zenon
    <3> HIDE DEF moved
    <3> QED
      BY <1>3, <1>4, <3>1, <3>2, ToggleFields, Zenon
  <2>2. CASE ~a.toggle
    <3>1. moved = [trove |-> trove[b], pools |-> active]
      BY <2>2, Zenon
    <3> HIDE DEF moved
    <3>2. moved.trove = trove[b] /\ moved.pools = active
      BY <3>1, Zenon
    <3> QED
      BY <1>4, <3>2, Zenon
  <2> QED
    BY <2>1, <2>2
<1> HIDE DEF moved
<1>7. /\ t \in Troves /\ t.stake = trove[b].stake
      /\ applied.snap \in Snaps /\ applied.snap.collateral <= rw.L_Coll
      /\ applied.snap.LUSDDebt <= rw.L_LUSDDebt
      /\ applied.pools \in [BOOLEAN -> Balances]
      /\ BothColl(applied.pools) = BothColl(active) - trove[b].coll + t.coll
      /\ applied.default \in [debt : Int, coll : Int]
  <2> DEFINE pools == moved.pools
             mt == moved.trove
  <2>1. applied = _applyPendingRewards(b, s, r, mt, pools, default)
    OBVIOUS
  <2>2. PoolsOK(pools, default) /\ mt \in Troves /\ mt.stake = trove[b].stake /\ mt.coll = trove[b].coll
        /\ BothColl(pools) = BothColl(active)
    BY <1>4, <1>6, Zenon DEF PoolsOK
  <2> HIDE DEF applied, mt, pools
  <2>3. /\ applied.trove \in Troves /\ applied.trove.stake = mt.stake
        /\ applied.snap \in Snaps /\ applied.snap.collateral <= rw.L_Coll
        /\ applied.snap.LUSDDebt <= rw.L_LUSDDebt
        /\ applied.pools \in [BOOLEAN -> Balances]
        /\ BothColl(applied.pools) = BothColl(pools) - mt.coll + applied.trove.coll
        /\ applied.default \in [debt : Int, coll : Int]
    BY <1>3, <1>4, <2>1, <2>2, AppliedFields
  <2> QED
    BY <2>2, <2>3, Zenon
<1> HIDE DEF applied, t
<1>8. t.debt \in Nat /\ t.coll \in Nat /\ trove[b].coll \in Nat
  BY <1>4, <1>7 DEF Troves
<1>9. n \in Int
  <2> DEFINE x == r[s]
  <2>1. x \in Nat \ {0}
    BY <1>3, <1>4, RatesPositive
  <2> HIDE DEF x
  <2>2. CASE a.debt >= 0
    <3>1. a.debt \in Nat
      BY <1>5, <2>2
    <3>2. _normalizedDebt(a.debt, x) \in Nat
      BY <2>1, <3>1, Conversions
    <3> QED
      BY <2>2, <3>2 DEF x
  <2>3. CASE ~(a.debt >= 0)
    <3> DEFINE y == -a.debt
    <3>1. y \in Nat
      BY <1>5, <2>3
    <3> HIDE DEF y
    <3>2. _normalizedDebt(y, x) \in Nat
      BY <2>1, <3>1, Conversions
    <3>3. n = -_normalizedDebt(y, x)
      BY <2>3 DEF x, y
    <3> HIDE DEF n
    <3> QED
      BY <3>2, <3>3
  <2> QED
    BY <2>2, <2>3
<1> HIDE DEF n
<1>10. debt \in Nat /\ coll \in Nat
  BY <1>1, <1>5, <1>8, <1>9
<1>11. stake \in Nat
  <2> HIDE DEF coll
  <2> QED
    BY <1>1, <1>10, StakeTyped
<1> HIDE DEF stake, debt
<1>12. /\ AccountsOK(trove', snap', rw', surplus')
       /\ Total(CollOf(trove')) = Total(CollOf(trove)) - trove[b].coll + coll
  <2> HIDE DEF coll
  <2>1. new \in Troves /\ new.stake = stake /\ new.coll = coll
    BY <1>10, <1>11 DEF Troves
  <2> HIDE DEF new
  <2> DEFINE sn == applied.snap
  <2>2. sn \in Snaps /\ sn.collateral <= rw.L_Coll /\ sn.LUSDDebt <= rw.L_LUSDDebt
    BY <1>7
  <2> HIDE DEF sn
  <2>3. /\ AccountsOK([trove EXCEPT ![b] = new], [snap EXCEPT ![b] = sn],
                       SetStake(rw, b, new.stake), surplus)
        /\ Total(CollOf([trove EXCEPT ![b] = new])) = Total(CollOf(trove)) - trove[b].coll + new.coll
    BY <1>2, <2>1, <2>2, AccountChange
  <2> QED
    BY <1>1, <2>1, <2>3, Zenon DEF sn
<1>13. PoolsOK(active', default') /\ BothColl(active') = BothColl(applied.pools) + dc
  <2> DEFINE pools == applied.pools
  <2>1. /\ pools \in [BOOLEAN -> Balances] /\ active' = AddToPool(pools, s, n, dc)
        /\ pools[s].debt + n >= 0 /\ pools[s].coll + dc >= 0 /\ dc \in Int
    BY <1>1, <1>5, <1>7, Zenon
  <2> HIDE DEF pools, dc
  <2>2. active' \in [BOOLEAN -> Balances] /\ BothColl(active') = BothColl(pools) + dc
    BY <1>4, <1>9, <2>1, PoolAfter
  <2>3. default' \in Balances
    BY <1>1, <1>7, DefaultTyped
  <2> QED
    BY <2>2, <2>3 DEF PoolsOK, pools
<1>14. BothColl(active') = Total(CollOf(trove'))
  <2>1. Total(CollOf(trove)) \in Int
    BY <1>2, TotalsTyped DEF AccountsOK
  <2> QED
    BY <1>2, <1>5, <1>7, <1>8, <1>12, <1>13, <2>1
<1>15. OwnersOK(status', shielded')
  BY <1>1, <1>2, <1>4, Zenon DEF OwnersOK
<1>16. /\ lusd' \in IntCoins
       /\ lusd'.supply = supply /\ lusd'.gas = l.gas /\ lusd'.deposits = l.deposits
       /\ lusd'.pending = l.pending
  <2>1. l \in IntCoins /\ supply \in Int
    BY <1>3, <1>5 DEF CoinsOK, Coins, IntCoins
  <2> HIDE DEF supply
  <2>2. m \in IntCoins /\ m.supply = supply /\ m.gas = l.gas /\ m.deposits = l.deposits /\ m.pending = l.pending
    BY <2>1, Zenon DEF IntCoins
  <2> HIDE DEF m
  <2> QED
    BY <1>1, <2>2
<1> HIDE DEF m
<1>17. CoinsOK(lusd')
  <2>1. lusd'.gas >= 0 /\ lusd'.pending >= 0 /\ lusd'.pending <= lusd'.deposits
    BY <1>3, <1>16 DEF CoinsOK, Coins
  <2>2. Circulating(lusd') = Circulating(l) + a.debt /\ Circulating(l) \in Int /\ Circulating(l) >= 0
    BY <1>3, <1>5, <1>16 DEF CoinsOK, Coins, Circulating
  <2>3. Circulating(lusd') >= 0
    BY <1>1, <1>5, <2>2
  <2> QED
    BY <1>16, <2>1, <2>3, CoinsEnough
<1>18. lusd'.gas = LUSD_GAS_COMPENSATION * Cardinality(Active')
  <2>1. Active' = Active
    BY <1>1 DEF Active
  <2> QED
    BY <1>2, <1>3, <1>16, <2>1
<1> QED
  BY <1>1, <1>2, <1>3, <1>12, <1>13, <1>14, <1>15, <1>17, <1>18 DEF BranchInv

-----------------------------------------------------------------------------
(***************************************************************************)
(* Liquidations                                                            *)
(***************************************************************************)

\* What a liquidation takes from one trove: natural numbers, no more debt offset than there
\* are coins left for it, and all of the trove's collateral shared out.
LEMMA ValuesTyped ==
  ASSUME BranchInv, NEW b \in Borrowers, NEW left, NEW k, left[k] \in Nat, NEW r \in Rates,
         NEW price \in Nat \ {0}, NEW v, v = _liquidate(b, left[k], r, price)
  PROVE  /\ v.borrower = b
         /\ \A f \in LiquidationValues : v[f] \in Nat
         /\ v.actualDebtToOffset <= left[k]
         /\ v.collToSendToSP + v.collToRedistribute + v.collSurplus + v.collGasCompensation
              = trove[b].coll + v.pendingColl
<1> DEFINE s == shielded[b]
           pendingDebt == getPendingLUSDDebtReward(b)
           pendingColl == getPendingCollateralReward(b)
           debt == trove[b].debt + NormDown(pendingDebt, r[s])
           coll == trove[b].coll + pendingColl
           gas == coll \div PERCENT_DIVISOR
           rest == coll - gas
           pnorm == _normalizedDebt(pendingDebt, r[s])
           w == getCappedOffsetAndRedistributionVals(debt, _actualDebt(debt, r[s]), rest, left[k], r[s], price)
<1>1. v = [borrower |-> b, pendingDebt |-> pendingDebt, pendingColl |-> pendingColl,
           pendingNorm |-> pnorm,
           entireTroveDebt |-> debt, collGasCompensation |-> gas,
           actualDebtToOffset |-> w.actualDebtToOffset, debtToOffset |-> w.debtToOffset,
           collToSendToSP |-> w.collToSendToSP, debtToRedistribute |-> w.debtToRedistribute,
           collToRedistribute |-> w.collToRedistribute, collSurplus |-> w.collSurplus]
  BY Zenon DEF _liquidate
<1>2. trove[b] \in Troves /\ s \in BOOLEAN
  BY DEF BranchInv, AccountsOK, OwnersOK
<1>3. pendingDebt \in Nat /\ pendingColl \in Nat
  BY PendingTyped
<1>4. r[s] \in Nat \ {0}
  BY <1>2, RatesPositive
<1> HIDE DEF pendingDebt, pendingColl, s
<1>5. pnorm \in Nat /\ debt \in Nat
  <2> DEFINE q == r[s]
  <2>1. q \in Nat \ {0}
    BY <1>4
  <2> HIDE DEF q
  <2>2. NormDown(pendingDebt, q) \in Nat /\ _normalizedDebt(pendingDebt, q) \in Nat
    BY <1>3, <2>1, Conversions
  <2>3. trove[b].debt \in Nat
    BY <1>2 DEF Troves
  <2> QED
    BY <2>2, <2>3 DEF q
<1> HIDE DEF pnorm, debt
<1>6. coll \in Nat /\ coll = trove[b].coll + pendingColl /\ trove[b].coll \in Nat
  BY <1>2, <1>3 DEF Troves
<1> HIDE DEF coll
<1>7. gas \in Nat /\ rest \in Nat /\ coll = rest + gas
  <2>1. 1 \in Nat /\ 1 <= PERCENT_DIVISOR /\ PERCENT_DIVISOR \in Nat \ {0}
    BY UnitsAssumption
  <2>2. (coll * 1) \div PERCENT_DIVISOR \in 0..coll
    BY <1>6, <2>1, Fraction
  <2>3. coll * 1 = coll
    BY <1>6
  <2> QED
    BY <1>6, <2>2, <2>3
<1> HIDE DEF gas, rest
<1>8. /\ w.actualDebtToOffset \in Nat /\ w.actualDebtToOffset <= left[k]
      /\ w.debtToOffset \in Nat /\ w.collToSendToSP \in Nat /\ w.debtToRedistribute \in Nat
      /\ w.collToRedistribute \in Nat /\ w.collSurplus \in Nat
      /\ w.collToSendToSP + w.collToRedistribute + w.collSurplus = rest
  <2> DEFINE q == r[s]
             avail == left[k]
             actual == _actualDebt(debt, q)
             off == MinOf(actual, avail)
             rem == actual - off
             most == _maxPenaltyColl(off, LIQUIDATION_PENALTY, price)
             mostRedist == _maxPenaltyColl(rem, LIQUIDATION_PENALTY_REDIST, price)
             toSP == IF off = 0 THEN 0 ELSE MinOf((rest * off) \div actual, most)
             toRedist == IF rem = 0 THEN 0 ELSE MinOf(mostRedist, rest - toSP)
             norm == NormDown(off, q)
             redist == IF rem = 0 THEN 0 ELSE debt - norm
             surp == rest - toSP - toRedist
  <2>0. q \in Nat \ {0} /\ debt \in Nat /\ rest \in Nat /\ avail \in Nat
    BY <1>4, <1>5, <1>7
  <2>1. w = [actualDebtToOffset |-> off, debtToOffset |-> norm, collToSendToSP |-> toSP,
             debtToRedistribute |-> redist, collToRedistribute |-> toRedist, collSurplus |-> surp]
    BY Zenon DEF getCappedOffsetAndRedistributionVals
  <2> HIDE DEF q, avail, w
  <2>2. actual \in Nat
    BY <2>0, Conversions
  <2> HIDE DEF actual
  <2>3. off \in Nat /\ off <= actual /\ off <= avail
    BY <2>0, <2>2, MinOfPair
  <2> HIDE DEF off
  <2>4. rem \in Nat
    BY <2>2, <2>3
  <2> HIDE DEF rem
  <2>5. most \in Nat /\ mostRedist \in Nat
    <3>1. off * LIQUIDATION_PENALTY \in Nat /\ rem * LIQUIDATION_PENALTY_REDIST \in Nat
      BY <2>3, <2>4, PenaltiesAssumption
    <3> QED
      BY <3>1, DivBounds DEF _maxPenaltyColl
  <2> HIDE DEF most, mostRedist
  <2>6. toSP \in Nat /\ toSP <= rest
    <3>1. CASE off = 0
      BY <2>0, <3>1
    <3>2. CASE off # 0
      <4> DEFINE x == (rest * off) \div actual
      <4>1. x \in 0..rest
        BY <2>0, <2>2, <2>3, <3>2, Fraction
      <4> HIDE DEF x
      <4>2. MinOf(x, most) \in {x, most} /\ MinOf(x, most) <= x
        BY <2>5, <4>1, MinOfPair
      <4>3. toSP = MinOf(x, most)
        BY <3>2 DEF x
      <4> HIDE DEF toSP
      <4> QED
        BY <2>0, <2>5, <4>1, <4>2, <4>3
    <3> QED
      BY <3>1, <3>2
  <2> HIDE DEF toSP
  <2>7. toRedist \in Nat /\ toRedist <= rest - toSP
    <3>1. CASE rem = 0
      BY <2>0, <2>6, <3>1
    <3>2. CASE rem # 0
      <4> DEFINE y == rest - toSP
      <4>1. y \in Nat
        BY <2>0, <2>6
      <4> HIDE DEF y
      <4>2. MinOf(mostRedist, y) \in {mostRedist, y} /\ MinOf(mostRedist, y) <= y
        BY <2>5, <4>1, MinOfPair
      <4>3. toRedist = MinOf(mostRedist, y)
        BY <3>2 DEF y
      <4> HIDE DEF toRedist
      <4>4. toRedist \in Nat /\ toRedist <= y
        BY <2>5, <4>1, <4>2, <4>3
      <4> QED
        BY <4>4 DEF y
    <3> QED
      BY <3>1, <3>2
  <2> HIDE DEF toRedist
  <2>8. surp \in Nat /\ toSP + toRedist + surp = rest
    BY <2>0, <2>6, <2>7
  <2> HIDE DEF surp
  <2>9. norm \in Nat /\ norm <= debt
    BY <2>0, <2>3, Conversions, NormalizedPart DEF actual
  <2> HIDE DEF norm
  <2>10. redist \in Nat
    BY <2>0, <2>9
  <2> HIDE DEF redist
  <2>11. /\ w.actualDebtToOffset = off /\ w.debtToOffset = norm /\ w.collToSendToSP = toSP
         /\ w.debtToRedistribute = redist /\ w.collToRedistribute = toRedist /\ w.collSurplus = surp
    BY <2>1
  <2> QED
    BY <2>3, <2>6, <2>7, <2>8, <2>9, <2>10, <2>11 DEF avail
<1> HIDE DEF w
<1>9. /\ v.borrower = b /\ v.pendingDebt = pendingDebt /\ v.pendingColl = pendingColl
      /\ v.pendingNorm = pnorm /\ v.entireTroveDebt = debt /\ v.collGasCompensation = gas
      /\ v.actualDebtToOffset = w.actualDebtToOffset /\ v.debtToOffset = w.debtToOffset
      /\ v.collToSendToSP = w.collToSendToSP /\ v.debtToRedistribute = w.debtToRedistribute
      /\ v.collToRedistribute = w.collToRedistribute /\ v.collSurplus = w.collSurplus
  BY <1>1
<1>10. \A f \in LiquidationValues : v[f] \in Nat
  BY <1>3, <1>5, <1>7, <1>8, <1>9 DEF LiquidationValues
<1>11. v.collToSendToSP + v.collToRedistribute + v.collSurplus + v.collGasCompensation
         = trove[b].coll + v.pendingColl
  BY <1>6, <1>7, <1>8, <1>9
<1> QED
  BY <1>8, <1>9, <1>10, <1>11

\* left counts down the coins that are available for offsets.
IsLeft(left, seq, d, price, n) ==
  left = [k \in 0..n |->
            IF k = 0 THEN getMaxAmountToOffset(d.lusd)
            ELSE left[k - 1] - _liquidate(seq[k], left[k - 1], d.rate, price).actualDebtToOffset]

\* What is left for offsets is defined along the loop of a liquidation.
LEMMA LeftExists ==
  ASSUME NEW seq, NEW d, NEW price, NEW n \in Nat
  PROVE  \E left : IsLeft(left, seq, d, price, n)
<1> DEFINE T == {m \in 0..n : \E h : IsLeft(h, seq, d, price, m)}
           start == getMaxAmountToOffset(d.lusd)
           Step(x, k) == x - _liquidate(seq[k], x, d.rate, price).actualDebtToOffset
<1>1. 0 \in T
  <2> DEFINE h == [k \in 0..0 |-> start]
  <2>1. h = [k \in 0..0 |-> IF k = 0 THEN start ELSE Step(h[k - 1], k)]
    <3> HIDE DEF start, Step
    <3> QED
      OBVIOUS
  <2>2. IsLeft(h, seq, d, price, 0)
    <3> HIDE DEF h
    <3> QED
      BY <2>1, Zenon DEF IsLeft
  <2> QED
    BY <2>2
<1>2. ASSUME NEW m \in 0..n, m # n, m \in T
      PROVE  m + 1 \in T
  <2>1. PICK h : IsLeft(h, seq, d, price, m)
    BY <1>2
  <2>2. h = [k \in 0..m |-> IF k = 0 THEN start ELSE Step(h[k - 1], k)]
    BY <2>1, Zenon DEF IsLeft
  <2> HIDE DEF start, Step
  <2> DEFINE g == [k \in 0..m + 1 |-> IF k = m + 1 THEN Step(h[m], k) ELSE h[k]]
  <2>3. ASSUME NEW k \in 0..m + 1
        PROVE  g[k] = IF k = 0 THEN start ELSE Step(g[k - 1], k)
    <3>1. CASE k = m + 1
      <4>1. g[k] = Step(h[m], k) /\ k # 0 /\ k - 1 = m
        BY <3>1
      <4>2. g[m] = h[m]
        OBVIOUS
      <4> QED
        BY <4>1, <4>2
    <3>2. CASE k # m + 1
      <4>1. k \in 0..m /\ g[k] = h[k]
        BY <3>2
      <4>2. h[k] = IF k = 0 THEN start ELSE Step(h[k - 1], k)
        BY <2>2, <4>1
      <4>3. k # 0 => g[k - 1] = h[k - 1]
        BY <4>1
      <4> HIDE DEF g
      <4> QED
        BY <4>1, <4>2, <4>3
    <3> QED
      BY <3>1, <3>2
  <2>4. g = [k \in 0..m + 1 |-> IF k = 0 THEN start ELSE Step(g[k - 1], k)]
    <3>1. g = [k \in 0..m + 1 |-> g[k]]
      BY Zenon
    <3> HIDE DEF g
    <3> QED
      BY <2>3, <3>1
  <2> HIDE DEF g
  <2>5. IsLeft(g, seq, d, price, m + 1)
    BY <2>4, Zenon DEF IsLeft, start, Step
  <2>6. m + 1 \in 0..n
    BY <1>2
  <2> QED
    BY <2>5, <2>6
<1>3. \A m \in 0..n : m \in T
  <2> HIDE DEF T
  <2> QED
    BY <1>1, <1>2, UpToInduction
<1> QED
  BY <1>3

\* A liquidation goes through a borrower once.
LEMMA ArrayFacts ==
  ASSUME NEW seq \in Arrays
  PROVE  /\ Len(seq) \in Nat /\ DOMAIN seq = 1..Len(seq) /\ seq \in [1..Len(seq) -> Borrowers]
         /\ \A i, j \in 1..Len(seq) : seq[i] = seq[j] => i = j
         /\ IsFiniteSet(1..Len(seq)) /\ Cardinality({seq[k] : k \in 1..Len(seq)}) = Len(seq)
<1>1. PICK n \in 1..MaxBatch : seq \in Injection(1..n, Borrowers)
  BY DEF Arrays
<1>2. n \in Nat /\ seq \in [1..n -> Borrowers] /\ \A i, j \in 1..n : seq[i] = seq[j] => i = j
  BY <1>1, InputsAssumption DEF Injection, IsInjective
<1>3. seq \in Seq(Borrowers)
  BY <1>2
<1>4. Len(seq) = n
  BY <1>2, <1>3
<1> DEFINE T == {seq[k] : k \in 1..n}
<1>5. Cardinality(T) = n
  <2>1. seq \in Bijection(1..n, T)
    BY <1>2 DEF Bijection, Injection, Surjection, IsInjective
  <2>2. ExistsBijection(1..n, T)
    BY <2>1 DEF ExistsBijection
  <2> HIDE DEF T
  <2> QED
    BY <1>2, <2>2, FS_CountingElements
<1>6. IsFiniteSet(1..n)
  BY <1>2, FS_Interval
<1> QED
  BY <1>2, <1>4, <1>5, <1>6

\* The values L of the troves seq, with what was left for offsets at each.
FromLeft(L, left, seq, r, price) ==
  \A k \in 1..Len(seq) :
    left[k - 1] \in Nat /\ L[k] = _liquidate(seq[k], left[k - 1], r, price)

\* The loop of a liquidation goes through its troves with what is left for offsets.
LEMMA LiquidatedOneByOne ==
  ASSUME BranchInv, NEW seq \in Arrays, NEW d \in Drips, NEW price \in Prices,
         NEW L, L = Liquidated(seq, d, price)
  PROVE  DOMAIN L = 1..Len(seq) /\ \E left : FromLeft(L, left, seq, d.rate, price)
<1> DEFINE n == Len(seq)
           left == CHOOSE h : IsLeft(h, seq, d, price, n)
<1>1. n \in Nat /\ \A k \in 1..n : seq[k] \in Borrowers
  BY ArrayFacts
<1>2. L = [k \in 1..n |-> _liquidate(seq[k], left[k - 1], d.rate, price)]
  BY Zenon DEF Liquidated, IsLeft
<1> HIDE DEF n
<1>3. IsLeft(left, seq, d, price, n)
  BY <1>1, LeftExists
<1> HIDE DEF left
<1>4. left = [k \in 0..n |-> IF k = 0 THEN getMaxAmountToOffset(d.lusd)
                ELSE left[k - 1] - _liquidate(seq[k], left[k - 1], d.rate, price).actualDebtToOffset]
  BY <1>3, Zenon DEF IsLeft
<1>5. d.rate \in Rates /\ CoinsOK(d.lusd) /\ price \in Nat \ {0}
  BY DripsOfBranch, InputsAssumption
<1> DEFINE r == d.rate
<1>6. \A k \in 0..n : left[k] \in Nat
  <2> DEFINE T == {k \in 0..n : left[k] \in Nat}
  <2>1. 0 \in T
    <3>1. left[0] = getMaxAmountToOffset(d.lusd)
      BY <1>1, <1>4
    <3>2. getMaxAmountToOffset(d.lusd) \in Nat
      <4> DEFINE x == d.lusd.deposits
      <4>1. x \in Nat
        BY <1>5 DEF CoinsOK, Coins
      <4>2. MIN_LUSD_IN_SP \in Nat
        BY UnitsAssumption
      <4> HIDE DEF x
      <4>3. MinOf(MIN_LUSD_IN_SP, x) \in {MIN_LUSD_IN_SP, x} /\ MinOf(MIN_LUSD_IN_SP, x) <= x
        BY <4>1, <4>2, MinOfPair
      <4>4. x - MinOf(MIN_LUSD_IN_SP, x) \in Nat
        BY <4>1, <4>2, <4>3
      <4> QED
        BY <4>4 DEF getMaxAmountToOffset, x
    <3> QED
      BY <1>1, <3>1, <3>2
  <2>2. ASSUME NEW k \in 0..n, k # n, k \in T
        PROVE  k + 1 \in T
    <3>1. k + 1 \in 1..n /\ k + 1 \in 0..n /\ k + 1 # 0 /\ (k + 1) - 1 = k
      BY <1>1, <2>2
    <3> DEFINE v == _liquidate(seq[k + 1], left[k], r, price)
    <3>2. left[k + 1] = left[k] - v.actualDebtToOffset
      BY <1>4, <3>1
    <3>3. left[k] \in Nat /\ seq[k + 1] \in Borrowers
      BY <1>1, <2>2, <3>1
    <3> HIDE DEF r
    <3>4. r \in Rates
      BY <1>5 DEF r
    <3> DEFINE b == seq[k + 1]
    <3>5. v = _liquidate(b, left[k], r, price)
      OBVIOUS
    <3> HIDE DEF v, b
    <3>6. v.actualDebtToOffset <= left[k] /\ \A f \in LiquidationValues : v[f] \in Nat
      BY <1>5, <3>3, <3>4, <3>5, ValuesTyped DEF b
    <3>7. v.actualDebtToOffset \in Nat
      BY <3>6 DEF LiquidationValues
    <3>8. left[k + 1] \in Nat
      BY <3>2, <3>3, <3>6, <3>7
    <3> QED
      BY <3>1, <3>8
  <2>3. \A k \in 0..n : k \in T
    <3> HIDE DEF T
    <3> QED
      BY <1>1, <2>1, <2>2, UpToInduction
  <2> QED
    BY <2>3
<1>7. DOMAIN L = 1..n
  BY <1>2
<1>8. \A k \in 1..n : left[k - 1] \in Nat /\ L[k] = _liquidate(seq[k], left[k - 1], d.rate, price)
  <2> SUFFICES ASSUME NEW k \in 1..n
               PROVE  left[k - 1] \in Nat /\ L[k] = _liquidate(seq[k], left[k - 1], d.rate, price)
    OBVIOUS
  <2>1. k - 1 \in 0..n
    BY <1>1
  <2> QED
    BY <1>2, <1>6, <2>1, Zenon
<1>9. FromLeft(L, left, seq, d.rate, price)
  BY <1>8, Zenon DEF FromLeft, n
<1> QED
  BY <1>7, <1>9, Zenon DEF n

\* What the loop of a liquidation takes from each of its troves.
LEMMA LiquidatedValues ==
  ASSUME BranchInv, NEW seq \in Arrays, NEW d \in Drips, NEW price \in Prices,
         NEW L, L = Liquidated(seq, d, price)
  PROVE  /\ DOMAIN L = 1..Len(seq)
         /\ \A k \in 1..Len(seq) :
              /\ L[k].borrower = seq[k] /\ \A f \in LiquidationValues : L[k][f] \in Nat
              /\ L[k].collToSendToSP + L[k].collToRedistribute + L[k].collSurplus
                   + L[k].collGasCompensation = trove[seq[k]].coll + L[k].pendingColl
<1>1. DOMAIN L = 1..Len(seq) /\ \A k \in 1..Len(seq) : seq[k] \in Borrowers
  BY ArrayFacts, LiquidatedOneByOne
<1>2. PICK left : FromLeft(L, left, seq, d.rate, price)
  BY LiquidatedOneByOne
<1>3. d.rate \in Rates /\ price \in Nat \ {0}
  BY DripsOfBranch, InputsAssumption
<1>4. ASSUME NEW k \in 1..Len(seq)
      PROVE  /\ L[k].borrower = seq[k] /\ \A f \in LiquidationValues : L[k][f] \in Nat
             /\ L[k].collToSendToSP + L[k].collToRedistribute + L[k].collSurplus
                  + L[k].collGasCompensation = trove[seq[k]].coll + L[k].pendingColl
  <2> DEFINE i == k - 1
             b == seq[k]
             v == L[k]
             r == d.rate
  <2>1. v = _liquidate(b, left[i], r, price) /\ left[i] \in Nat /\ b \in Borrowers /\ r \in Rates
    <3>1. b \in Borrowers /\ r \in Rates
      BY <1>1, <1>3
    <3>2. v = _liquidate(b, left[i], r, price) /\ left[i] \in Nat
      BY <1>2, Zenon DEF FromLeft
    <3> QED
      BY <3>1, <3>2
  <2> HIDE DEF i, b, v, r
  <2>2. /\ v.borrower = b /\ \A f \in LiquidationValues : v[f] \in Nat
        /\ v.collToSendToSP + v.collToRedistribute + v.collSurplus + v.collGasCompensation
              = trove[b].coll + v.pendingColl
    BY <1>3, <2>1, ValuesTyped
  <2> QED
    BY <2>2 DEF b, v
<1> QED
  BY <1>1, <1>4

\* The liquidation of seq: the values L of its troves, the totals A and B of the two pools, the
\* owners gone and the surplus of each.
IsLiquidation(seq, d, price, L, A, B, gone, surp) ==
  /\ L = Liquidated(seq, d, price)
  /\ A = _addLiquidationValuesToTotals(L, FALSE)
  /\ B = _addLiquidationValuesToTotals(L, TRUE)
  /\ gone = {seq[k] : k \in 1..Len(seq)}
  /\ \A k \in 1..Len(seq) : surp[k] = L[k].collSurplus

\* Its totals: typed, and the collateral of its troves shared out.
LEMMA TotalsOfLiquidation ==
  ASSUME BranchInv, NEW seq \in Arrays, NEW d \in Drips, NEW price \in Prices,
         NEW L, NEW A, NEW B, NEW gone, NEW surp, IsLiquidation(seq, d, price, L, A, B, gone, surp)
  PROVE  /\ \A f \in LiquidationValues : A[f] \in Nat /\ B[f] \in Nat
         /\ A.collSurplus + B.collSurplus = SumFunctionOnSet(surp, 1..Len(seq))
         /\ (A.collToSendToSP + B.collToSendToSP) + (A.collToRedistribute + B.collToRedistribute)
              + (A.collSurplus + B.collSurplus) + (A.collGasCompensation + B.collGasCompensation)
              = SumFunctionOnSet(CollOf(trove), gone) + (A.pendingColl + B.pendingColl)
<1> DEFINE K == 1..Len(seq)
           V(f) == [k \in DOMAIN L |-> L[k][f]]
           Of(s) == {k \in DOMAIN L : shielded[L[k].borrower] = s}
           Sum(f) == SumFunctionOnSet(V(f), K)
<1>0. /\ L = Liquidated(seq, d, price) /\ A = _addLiquidationValuesToTotals(L, FALSE)
      /\ B = _addLiquidationValuesToTotals(L, TRUE) /\ gone = {seq[k] : k \in K}
      /\ \A k \in K : surp[k] = L[k].collSurplus
  BY DEF IsLiquidation
<1>1. /\ Len(seq) \in Nat /\ seq \in [K -> Borrowers] /\ IsFiniteSet(K)
      /\ \A i, j \in K : seq[i] = seq[j] => i = j
  BY ArrayFacts
<1>2. /\ DOMAIN L = K
      /\ \A k \in K :
           /\ L[k].borrower = seq[k] /\ \A f \in LiquidationValues : L[k][f] \in Nat
           /\ L[k].collToSendToSP + L[k].collToRedistribute + L[k].collSurplus
                + L[k].collGasCompensation = trove[seq[k]].coll + L[k].pendingColl
  BY <1>0, LiquidatedValues
<1> HIDE DEF K
<1>3. \A f \in LiquidationValues : \A k \in K : V(f)[k] = L[k][f] /\ V(f)[k] \in Nat
  BY <1>2
<1>4. \A f \in LiquidationValues :
        A[f] = SumFunctionOnSet(V(f), Of(FALSE)) /\ B[f] = SumFunctionOnSet(V(f), Of(TRUE))
  BY <1>0, Zenon DEF _addLiquidationValuesToTotals
<1>5. Of(FALSE) \in SUBSET K /\ Of(TRUE) = K \ Of(FALSE)
  <2>1. \A k \in K : shielded[L[k].borrower] \in BOOLEAN
    BY <1>1, <1>2 DEF BranchInv, OwnersOK
  <2> QED
    BY <1>2, <2>1, Zenon
<1>6. IsFiniteSet(Of(FALSE)) /\ IsFiniteSet(Of(TRUE))
  <2>1. Of(TRUE) \in SUBSET K
    BY <1>5, Zenon
  <2> HIDE DEF Of
  <2> QED
    BY <1>1, <1>5, <2>1, FS_Subset
<1> HIDE DEF Of
<1>7. ASSUME NEW f \in LiquidationValues
      PROVE  A[f] \in Nat /\ B[f] \in Nat /\ A[f] + B[f] = Sum(f)
  <2> DEFINE v == V(f)
             X == Of(FALSE)
             Y == Of(TRUE)
  <2>1. \A k \in K : v[k] \in Nat
    BY <1>3
  <2>2. /\ A[f] = SumFunctionOnSet(v, X) /\ B[f] = SumFunctionOnSet(v, Y)
        /\ X \in SUBSET K /\ Y = K \ X /\ IsFiniteSet(X) /\ IsFiniteSet(Y)
    BY <1>4, <1>5, <1>6, Zenon
  <2>3. Sum(f) = SumFunctionOnSet(v, K)
    OBVIOUS
  <2> HIDE DEF v, X, Y, Sum
  <2>4. A[f] \in Nat /\ B[f] \in Nat
    BY <2>1, <2>2, SumNat
  <2>5. SumFunctionOnSet(v, K) = SumFunctionOnSet(v, X) + SumFunctionOnSet(v, K \ X)
    BY <1>1, <2>1, <2>2, SumSplit
  <2> QED
    BY <2>2, <2>3, <2>4, <2>5
<1>8. {"collToSendToSP", "collToRedistribute", "collSurplus", "collGasCompensation", "pendingColl"}
        \subseteq LiquidationValues
  BY DEF LiquidationValues
<1>9. Sum("collToSendToSP") + Sum("collToRedistribute") + Sum("collSurplus")
        + Sum("collGasCompensation")
        = SumFunctionOnSet(CollOf(trove), {seq[k] : k \in K}) + Sum("pendingColl")
  <2> DEFINE a == V("collToSendToSP")
             b == V("collToRedistribute")
             c == V("collSurplus")
             e == V("collGasCompensation")
             p == V("pendingColl")
             q == [k \in K |-> trove[seq[k]].coll]
             x == [k \in K |-> a[k] + b[k]]
             y == [k \in K |-> x[k] + c[k]]
             z == [k \in K |-> y[k] + e[k]]
  <2>1. \A k \in K : /\ a[k] = L[k].collToSendToSP /\ b[k] = L[k].collToRedistribute
                     /\ c[k] = L[k].collSurplus /\ e[k] = L[k].collGasCompensation
                     /\ p[k] = L[k].pendingColl
    BY <1>2
  <2>2. \A k \in K : a[k] \in Nat /\ b[k] \in Nat /\ c[k] \in Nat /\ e[k] \in Nat /\ p[k] \in Nat
    BY <1>3, <1>8
  <2>3. /\ Sum("collToSendToSP") = SumFunctionOnSet(a, K)
        /\ Sum("collToRedistribute") = SumFunctionOnSet(b, K)
        /\ Sum("collSurplus") = SumFunctionOnSet(c, K)
        /\ Sum("collGasCompensation") = SumFunctionOnSet(e, K)
        /\ Sum("pendingColl") = SumFunctionOnSet(p, K)
    OBVIOUS
  <2> HIDE DEF a, b, c, e, p, Sum
  <2>4. \A k \in K : q[k] = CollOf(trove)[seq[k]] /\ CollOf(trove)[seq[k]] \in Int /\ q[k] \in Nat
    BY <1>1 DEF BranchInv, AccountsOK, Troves, CollOf
  <2>5. /\ \A k \in K : x[k] = a[k] + b[k] /\ x[k] \in Int
        /\ \A k \in K : y[k] = x[k] + c[k] /\ y[k] \in Int
        /\ \A k \in K : z[k] = y[k] + e[k]
    BY <2>2
  <2>6. \A k \in K : z[k] = q[k] + p[k]
    <3> TAKE k \in K
    <3>1. z[k] = a[k] + b[k] + c[k] + e[k] /\ q[k] = trove[seq[k]].coll
      BY <2>2
    <3>2. a[k] + b[k] + c[k] + e[k] = trove[seq[k]].coll + p[k]
      BY <1>2, <2>1
    <3> QED
      BY <3>1, <3>2
  <2> HIDE DEF x, y, z, q
  <2>7. /\ SumFunctionOnSet(x, K) = SumFunctionOnSet(a, K) + SumFunctionOnSet(b, K)
        /\ SumFunctionOnSet(y, K) = SumFunctionOnSet(x, K) + SumFunctionOnSet(c, K)
        /\ SumFunctionOnSet(z, K) = SumFunctionOnSet(y, K) + SumFunctionOnSet(e, K)
        /\ SumFunctionOnSet(z, K) = SumFunctionOnSet(q, K) + SumFunctionOnSet(p, K)
    <3>1. \A k \in K : a[k] \in Int /\ b[k] \in Int /\ c[k] \in Int /\ e[k] \in Int /\ p[k] \in Int
                      /\ q[k] \in Int
      BY <2>2, <2>4
    <3>2. SumFunctionOnSet(x, K) = SumFunctionOnSet(a, K) + SumFunctionOnSet(b, K)
      BY <1>1, <2>5, <3>1, SumAdd
    <3>3. SumFunctionOnSet(y, K) = SumFunctionOnSet(x, K) + SumFunctionOnSet(c, K)
      BY <1>1, <2>5, <3>1, SumAdd
    <3>4. SumFunctionOnSet(z, K) = SumFunctionOnSet(y, K) + SumFunctionOnSet(e, K)
      BY <1>1, <2>5, <3>1, SumAdd
    <3>5. SumFunctionOnSet(z, K) = SumFunctionOnSet(q, K) + SumFunctionOnSet(p, K)
      BY <1>1, <2>6, <3>1, SumAdd
    <3> QED
      BY <3>2, <3>3, <3>4, <3>5
  <2>8. SumFunctionOnSet(q, K) = SumFunctionOnSet(CollOf(trove), {seq[k] : k \in K})
    <3> DEFINE f == CollOf(trove)
    <3>1. \A k \in K : f[seq[k]] \in Int /\ q[k] = f[seq[k]]
      BY <2>4
    <3> HIDE DEF f
    <3>2. SumFunctionOnSet(q, K) = SumFunctionOnSet(f, {seq[k] : k \in K})
      BY <1>1, <3>1, SumReindex
    <3> QED
      BY <3>2 DEF f
  <2> QED
    BY <2>3, <2>7, <2>8
<1>10. SumFunctionOnSet(surp, K) = Sum("collSurplus")
  <2> DEFINE f == V("collSurplus")
  <2>1. \A k \in K : f[k] \in Int /\ surp[k] = f[k]
    BY <1>0, <1>3, <1>8
  <2> HIDE DEF f
  <2>2. SumFunctionOnSet(surp, K) = SumFunctionOnSet(f, K)
    BY <1>1, <2>1, SumSame
  <2> QED
    BY <2>2 DEF f
<1> HIDE DEF Sum, V
<1>11. \A f \in LiquidationValues : A[f] \in Nat /\ B[f] \in Nat
  BY <1>7
<1>12. /\ A.collToSendToSP + B.collToSendToSP = Sum("collToSendToSP")
       /\ A.collToRedistribute + B.collToRedistribute = Sum("collToRedistribute")
       /\ A.collSurplus + B.collSurplus = Sum("collSurplus")
       /\ A.collGasCompensation + B.collGasCompensation = Sum("collGasCompensation")
       /\ A.pendingColl + B.pendingColl = Sum("pendingColl")
  BY <1>7, <1>8
<1>13. /\ A.collSurplus + B.collSurplus = SumFunctionOnSet(surp, K)
       /\ (A.collToSendToSP + B.collToSendToSP) + (A.collToRedistribute + B.collToRedistribute)
            + (A.collSurplus + B.collSurplus) + (A.collGasCompensation + B.collGasCompensation)
            = SumFunctionOnSet(CollOf(trove), gone) + (A.pendingColl + B.pendingColl)
  BY <1>0, <1>9, <1>10, <1>12
<1> QED
  BY <1>11, <1>13 DEF K

\* What the stages of a settlement leave in a pool.
LEMMA PoolSettled ==
  ASSUME NEW x \in Balances, NEW t, \A f \in LiquidationValues : t[f] \in Nat,
         NEW y, y = sendSurplus(redistributeDebtAndColl(_moveOffsetCollAndDebt(
                      movePendingTroveRewardsToActivePool(x, t), t), t), t),
         NEW z, z = _sendGasCompensation(y, t)
  PROVE  /\ y.debt \in Int /\ y.coll \in Int
         /\ y.coll = x.coll + t.pendingColl - t.collToSendToSP - t.collToRedistribute - t.collSurplus
         /\ z.coll = y.coll - t.collGasCompensation
         /\ y.debt >= 0 /\ y.coll >= t.collGasCompensation => z \in Balances
<1>1. /\ x.debt \in Nat /\ x.coll \in Nat /\ t.pendingNorm \in Nat /\ t.pendingColl \in Nat
      /\ t.debtToOffset \in Nat /\ t.collToSendToSP \in Nat /\ t.debtToRedistribute \in Nat
      /\ t.collToRedistribute \in Nat /\ t.collSurplus \in Nat /\ t.collGasCompensation \in Nat
  BY DEF Balances, LiquidationValues
<1> DEFINE d1 == x.debt + t.pendingNorm
           c1 == x.coll + t.pendingColl
           d2 == d1 - t.debtToOffset
           c2 == c1 - t.collToSendToSP
           d3 == d2 - t.debtToRedistribute
           c3 == c2 - t.collToRedistribute
           p1 == movePendingTroveRewardsToActivePool(x, t)
           p2 == _moveOffsetCollAndDebt(p1, t)
           p3 == redistributeDebtAndColl(p2, t)
<1>2. d3 \in Int /\ c3 \in Int
  BY <1>1
<1>3. p1 = [debt |-> d1, coll |-> c1]
  BY DEF movePendingTroveRewardsToActivePool
<1> HIDE DEF p1, d1, c1
<1>4. p1.debt = d1 /\ p1.coll = c1
  BY <1>3
<1>5. p2 = [debt |-> d2, coll |-> c2]
  BY <1>4 DEF _moveOffsetCollAndDebt
<1> HIDE DEF p2, d2, c2
<1>6. p2.debt = d2 /\ p2.coll = c2
  BY <1>5
<1>7. p3 = [debt |-> d3, coll |-> c3]
  BY <1>6 DEF redistributeDebtAndColl
<1>8. c3 = x.coll + t.pendingColl - t.collToSendToSP - t.collToRedistribute
  BY <1>1 DEF c2, c1
<1> HIDE DEF p3, d3, c3
<1> DEFINE c4 == c3 - t.collSurplus
           c5 == c4 - t.collGasCompensation
<1>9. y = [debt |-> d3, coll |-> c4]
  <2>1. y = [p3 EXCEPT !.coll = p3.coll - t.collSurplus]
    BY Zenon DEF sendSurplus, p3, p2, p1
  <2>2. p3.coll = c3
    BY <1>7
  <2>3. y = [p3 EXCEPT !.coll = c4]
    BY <2>1, <2>2, Zenon
  <2> HIDE DEF c4
  <2> QED
    BY <1>7, <2>3
<1>10. c4 \in Int /\ c5 \in Int /\ c4 = c3 - t.collSurplus /\ c5 = c4 - t.collGasCompensation
       /\ (c4 >= t.collGasCompensation => c5 >= 0)
  BY <1>1, <1>2
<1> HIDE DEF c4
<1>11. z = [debt |-> d3, coll |-> c5]
  <2>1. z = [y EXCEPT !.coll = y.coll - t.collGasCompensation]
    BY Zenon DEF _sendGasCompensation
  <2>2. y.coll = c4
    BY <1>9
  <2>3. z = [y EXCEPT !.coll = c5]
    BY <2>1, <2>2, Zenon
  <2> HIDE DEF c5
  <2> QED
    BY <1>9, <2>3
<1> HIDE DEF c5
<1>12. y.debt = d3 /\ y.coll = c4 /\ z.debt = d3 /\ z.coll = c5
  BY <1>9, <1>11
<1>13. y.coll = x.coll + t.pendingColl - t.collToSendToSP - t.collToRedistribute - t.collSurplus
  BY <1>1, <1>2, <1>8, <1>10, <1>12
<1>14. ASSUME y.debt >= 0, y.coll >= t.collGasCompensation
       PROVE  z \in Balances
  <2>1. d3 \in Nat /\ c5 \in Nat
    BY <1>2, <1>10, <1>12, <1>14
  <2> QED
    BY <1>11, <2>1 DEF Balances
<1> QED
  BY <1>2, <1>10, <1>12, <1>13, <1>14

\* What a redistribution and the snapshots leave of the running sums.
LEMMA RewardsSettled ==
  ASSUME rw \in RewardSums, NEW debt \in Nat, NEW coll \in Nat, NEW stakes \in Nat,
         debt > 0 => stakes > 0,
         NEW pools, NEW dflt, NEW remainder, getEntireSystemColl(pools, dflt) - remainder \in Nat,
         NEW w, w = updateSystemSnapshots_excludeCollRemainder(
                      _redistributeActualDebtAndColl(debt, coll, stakes), pools, dflt, remainder)
  PROVE  /\ w \in RewardSums /\ w.totalStakes = stakes
         /\ w.L_Coll >= rw.L_Coll /\ w.L_LUSDDebt >= rw.L_LUSDDebt
<1> DEFINE v == _redistributeActualDebtAndColl(debt, coll, stakes)
           c == coll * DECIMAL_PRECISION + rw.collError
           n == debt * DECIMAL_PRECISION + rw.debtError
           q == getEntireSystemColl(pools, dflt) - remainder
<1>1. /\ v \in RewardSums /\ v.totalStakes = stakes
      /\ v.L_Coll >= rw.L_Coll /\ v.L_LUSDDebt >= rw.L_LUSDDebt
  <2>1. CASE debt = 0
    <3>1. v = [rw EXCEPT !.totalStakes = stakes]
      BY <2>1, Zenon DEF _redistributeActualDebtAndColl
    <3> QED
      BY <3>1 DEF RewardSums
  <2>2. CASE debt # 0
    <3> DEFINE lc == rw.L_Coll + c \div stakes
               ec == c % stakes
               ld == rw.L_LUSDDebt + n \div stakes
               ed == n % stakes
    <3>1. v = [rw EXCEPT !.totalStakes = stakes, !.L_Coll = lc, !.collError = ec,
                         !.L_LUSDDebt = ld, !.debtError = ed]
      BY <2>2, Zenon DEF _redistributeActualDebtAndColl
    <3>2. rw.L_Coll \in Nat /\ rw.L_LUSDDebt \in Nat /\ c \in Nat /\ n \in Nat
      BY UnitsAssumption DEF RewardSums
    <3> HIDE DEF c, n
    <3>3. stakes \in Nat \ {0}
      BY <2>2
    <3>4. c \div stakes \in Nat /\ n \div stakes \in Nat /\ ec \in Nat /\ ed \in Nat
      BY <3>2, <3>3, DivBounds
    <3>5. lc \in Nat /\ ld \in Nat /\ lc >= rw.L_Coll /\ ld >= rw.L_LUSDDebt
      BY <3>2, <3>4
    <3> HIDE DEF lc, ld, ec, ed, v
    <3> QED
      BY <3>1, <3>4, <3>5 DEF RewardSums
  <2> QED
    BY <2>1, <2>2
<1> HIDE DEF v
<1> DEFINE ts == v.totalStakes
<1>2. w = [v EXCEPT !.totalStakesSnapshot = ts, !.totalCollateralSnapshot = q]
  BY Zenon DEF updateSystemSnapshots_excludeCollRemainder, v
<1>3. q \in Nat /\ ts \in Nat
  BY <1>1
<1> HIDE DEF q, ts
<1>4. /\ w \in RewardSums /\ w.totalStakes = v.totalStakes /\ w.L_Coll = v.L_Coll
      /\ w.L_LUSDDebt = v.L_LUSDDebt
  BY <1>1, <1>2, <1>3 DEF RewardSums
<1> QED
  BY <1>1, <1>4

\* A total, of which the part of gone becomes zero.
LEMMA TotalWithout ==
  ASSUME NEW gone \in SUBSET Borrowers, NEW f, NEW g,
         \A b \in Borrowers : f[b] \in Int /\ g[b] \in Int,
         \A b \in gone : g[b] = 0, \A b \in Borrowers \ gone : g[b] = f[b]
  PROVE  Total(f) = SumFunctionOnSet(f, gone) + Total(g)
<1> DEFINE S(h, X) == SumFunctionOnSet(h, X)
<1>1. IsFiniteSet(gone) /\ IsFiniteSet(Borrowers \ gone)
  BY FiniteBorrowers, FS_Subset
<1>2. Total(f) = S(f, gone) + S(f, Borrowers \ gone)
  BY FiniteBorrowers, SumSplit DEF Total
<1>3. Total(g) = S(g, gone) + S(g, Borrowers \ gone)
  BY FiniteBorrowers, SumSplit DEF Total
<1>4. S(g, gone) = 0
  BY <1>1, SumZero
<1>5. S(g, Borrowers \ gone) = S(f, Borrowers \ gone)
  BY <1>1, SumSame
<1>6. S(f, Borrowers \ gone) \in Int
  BY <1>1, SumRemove
<1> HIDE DEF S
<1>7. Total(f) = S(f, gone) + Total(g)
  BY <1>2, <1>3, <1>4, <1>5, <1>6
<1> QED
  BY <1>7 DEF S

\* The troves in gone are closed.
LEMMA TrovesGone ==
  ASSUME NEW t \in [Borrowers -> Troves], NEW gone \in SUBSET Borrowers, NEW u,
         u = [b \in Borrowers |-> IF b \in gone THEN [debt |-> 0, coll |-> 0, stake |-> 0] ELSE t[b]]
  PROVE  /\ u \in [Borrowers -> Troves]
         /\ Total(CollOf(t)) = SumFunctionOnSet(CollOf(t), gone) + Total(CollOf(u))
         /\ Total(StakeOf(t)) = SumFunctionOnSet(StakeOf(t), gone) + Total(StakeOf(u))
<1>1. u \in [Borrowers -> Troves]
  BY DEF Troves
<1>3. /\ \A b \in Borrowers : CollOf(t)[b] \in Int /\ CollOf(u)[b] \in Int
      /\ \A b \in gone : CollOf(u)[b] = 0
      /\ \A b \in Borrowers \ gone : CollOf(u)[b] = CollOf(t)[b]
  BY DEF CollOf, Troves
<1>4. /\ \A b \in Borrowers : StakeOf(t)[b] \in Int /\ StakeOf(u)[b] \in Int
      /\ \A b \in gone : StakeOf(u)[b] = 0
      /\ \A b \in Borrowers \ gone : StakeOf(u)[b] = StakeOf(t)[b]
  BY DEF StakeOf, Troves
<1>5. Total(CollOf(t)) = SumFunctionOnSet(CollOf(t), gone) + Total(CollOf(u))
  <2> DEFINE f == CollOf(t)
             g == CollOf(u)
  <2>1. /\ \A b \in Borrowers : f[b] \in Int /\ g[b] \in Int
        /\ \A b \in gone : g[b] = 0
        /\ \A b \in Borrowers \ gone : g[b] = f[b]
    BY <1>3
  <2> HIDE DEF f, g
  <2>2. Total(f) = SumFunctionOnSet(f, gone) + Total(g)
    BY <2>1, TotalWithout
  <2> QED
    BY <2>2 DEF f, g
<1>6. Total(StakeOf(t)) = SumFunctionOnSet(StakeOf(t), gone) + Total(StakeOf(u))
  <2> DEFINE f == StakeOf(t)
             g == StakeOf(u)
  <2>1. /\ \A b \in Borrowers : f[b] \in Int /\ g[b] \in Int
        /\ \A b \in gone : g[b] = 0
        /\ \A b \in Borrowers \ gone : g[b] = f[b]
    BY <1>4
  <2> HIDE DEF f, g
  <2>2. Total(f) = SumFunctionOnSet(f, gone) + Total(g)
    BY <2>1, TotalWithout
  <2> QED
    BY <2>2 DEF f, g
<1> QED
  BY <1>1, <1>5, <1>6

\* The debt that a unit of stake has to bear is never taken back.
DebtSumGrows == rw'.L_LUSDDebt >= rw.L_LUSDDebt

\* The settlement of a liquidation keeps the books.
LEMMA SettleStep ==
  ASSUME BranchInv, NEW seq \in Arrays, NEW price \in Prices, NEW d \in Drips,
         \A k \in DOMAIN seq : status[seq[k]] = "active", Settle(seq, price, d)
  PROVE  BranchInv' /\ DebtSumGrows
<1> DEFINE L == Liquidated(seq, d, price)
           T == [s \in BOOLEAN |-> _addLiquidationValuesToTotals(L, s)]
           A == T[FALSE]
           B == T[TRUE]
           gone == {seq[k] : k \in DOMAIN seq}
           n == Len(seq)
           r == d.rate
           l == d.lusd
           offsetDebt == A.actualDebtToOffset + B.actualDebtToOffset
           redistDebt == _actualDebt(A.debtToRedistribute, r[FALSE])
                           + _actualDebt(B.debtToRedistribute, r[TRUE])
           redistColl == A.collToRedistribute + B.collToRedistribute
           surp == A.collSurplus + B.collSurplus
           gas == A.collGasCompensation + B.collGasCompensation
           stakes == rw.totalStakes - SumFunctionOnSet(StakeOf(trove), gone)
           pools == [s \in BOOLEAN |->
             sendSurplus(redistributeDebtAndColl(_moveOffsetCollAndDebt(
               movePendingTroveRewardsToActivePool(active[s], T[s]), T[s]), T[s]), T[s])]
           dd == default.debt - (A.pendingDebt + B.pendingDebt) + redistDebt
           dc == default.coll - (A.pendingColl + B.pendingColl) + redistColl
           dflt == [debt |-> dd, coll |-> dc]
           part == [b \in Borrowers |->
                      SumFunctionOnSet([k \in DOMAIN L |-> L[k].collSurplus],
                                       {k \in DOMAIN L : L[k].borrower = b})]
           bal == surplus.balances
<1>1. /\ A.pendingDebt + B.pendingDebt <= default.debt
      /\ A.pendingColl + B.pendingColl <= default.coll
      /\ offsetDebt > 0 => l.deposits - offsetDebt >= MIN_LUSD_IN_SP
      /\ redistDebt > 0 => stakes > 0
      /\ \A s \in BOOLEAN : pools[s].debt >= 0 /\ pools[s].coll >= T[s].collGasCompensation
  BY Zenon DEF Settle, StakeOf
<1>2. /\ status' = [b \in Borrowers |-> IF b \in gone THEN "closedByLiquidation" ELSE status[b]]
      /\ shielded' = [b \in Borrowers |-> shielded[b] /\ b \notin gone]
      /\ trove' = [b \in Borrowers |-> IF b \in gone THEN [debt |-> 0, coll |-> 0, stake |-> 0]
                                       ELSE trove[b]]
      /\ snap' = [b \in Borrowers |-> IF b \in gone THEN [collateral |-> 0, LUSDDebt |-> 0]
                                      ELSE snap[b]]
  BY Zenon DEF Settle
<1>3. /\ rw' = updateSystemSnapshots_excludeCollRemainder(
                 _redistributeActualDebtAndColl(redistDebt, redistColl, stakes), pools, dflt, gas)
      /\ active' = [s \in BOOLEAN |-> _sendGasCompensation(pools[s], T[s])]
      /\ default' = dflt
  BY Zenon DEF Settle, StakeOf
<1>4. /\ surplus' = [coll |-> surplus.coll + surp,
                     balances |-> [b \in Borrowers |-> bal[b] + part[b]]]
      /\ lusd' = [offset(l, offsetDebt) EXCEPT !.gas = @ - n * LUSD_GAS_COMPENSATION]
      /\ rate' = r /\ isShutdown' = isShutdown
  BY Zenon DEF Settle
<1>5. /\ OwnersOK(status, shielded) /\ isShutdown \in BOOLEAN
      /\ AccountsOK(trove, snap, rw, surplus) /\ PoolsOK(active, default)
      /\ BothColl(active) = Total(CollOf(trove))
      /\ lusd.gas = LUSD_GAS_COMPENSATION * Cardinality(ActiveIn(status))
  BY DEF BranchInv, Active, ActiveIn
<1>6. r \in Rates /\ CoinsOK(l) /\ l.gas = lusd.gas
  BY DripsOfBranch
<1>7. /\ n \in Nat /\ DOMAIN seq = 1..n /\ seq \in [1..n -> Borrowers] /\ IsFiniteSet(1..n)
      /\ gone \in SUBSET Borrowers /\ Cardinality(gone) = n /\ gone = {seq[k] : k \in 1..n}
  <2>1. /\ n \in Nat /\ DOMAIN seq = 1..n /\ seq \in [1..n -> Borrowers] /\ IsFiniteSet(1..n)
        /\ Cardinality({seq[k] : k \in 1..n}) = n
    BY ArrayFacts
  <2>2. gone = {seq[k] : k \in 1..n}
    BY <2>1, Zenon
  <2>3. gone \in SUBSET Borrowers
    BY <2>1, <2>2
  <2> HIDE DEF gone
  <2> QED
    BY <2>1, <2>2, <2>3
<1>8. A = _addLiquidationValuesToTotals(L, FALSE) /\ B = _addLiquidationValuesToTotals(L, TRUE)
  BY Zenon
<1>9. /\ \A f \in LiquidationValues : A[f] \in Nat /\ B[f] \in Nat
      /\ surp = SumFunctionOnSet([k \in DOMAIN L |-> L[k].collSurplus], 1..n)
      /\ (A.collToSendToSP + B.collToSendToSP) + (A.collToRedistribute + B.collToRedistribute)
           + (A.collSurplus + B.collSurplus) + (A.collGasCompensation + B.collGasCompensation)
           = SumFunctionOnSet(CollOf(trove), gone) + (A.pendingColl + B.pendingColl)
  <2> DEFINE M == L
             X == A
             Y == B
             f == [k \in DOMAIN L |-> L[k].collSurplus]
  <2>1. /\ M = Liquidated(seq, d, price) /\ X = _addLiquidationValuesToTotals(M, FALSE)
        /\ Y = _addLiquidationValuesToTotals(M, TRUE)
    BY <1>8, Zenon
  <2>2. gone = {seq[k] : k \in 1..Len(seq)}
    BY <1>7
  <2>3. \A k \in 1..Len(seq) : f[k] = M[k].collSurplus
    <3>1. DOMAIN M = 1..Len(seq)
      BY LiquidatedValues
    <3> QED
      BY <3>1
  <2> HIDE DEF M, X, Y, gone, f
  <2>4. IsLiquidation(seq, d, price, M, X, Y, gone, f)
    BY <2>1, <2>2, <2>3 DEF IsLiquidation
  <2>5. /\ \A v \in LiquidationValues : X[v] \in Nat /\ Y[v] \in Nat
        /\ X.collSurplus + Y.collSurplus = SumFunctionOnSet(f, 1..Len(seq))
        /\ (X.collToSendToSP + Y.collToSendToSP) + (X.collToRedistribute + Y.collToRedistribute)
             + (X.collSurplus + Y.collSurplus) + (X.collGasCompensation + Y.collGasCompensation)
             = SumFunctionOnSet(CollOf(trove), gone) + (X.pendingColl + Y.pendingColl)
    BY <2>4, TotalsOfLiquidation
  <2> QED
    BY <2>5, Zenon DEF M, X, Y, f
<1>10. /\ DOMAIN L = 1..n
       /\ \A k \in 1..n : L[k].borrower \in Borrowers /\ L[k].collSurplus \in Nat
  <2> DEFINE M == L
  <2>1. /\ DOMAIN M = 1..n
        /\ \A k \in 1..n : M[k].borrower = seq[k] /\ \A f \in LiquidationValues : M[k][f] \in Nat
    BY LiquidatedValues
  <2> HIDE DEF M, L, n
  <2>2. \A k \in 1..n : M[k].borrower \in Borrowers /\ M[k].collSurplus \in Nat
    BY <1>7, <2>1 DEF LiquidationValues
  <2> QED
    BY <2>1, <2>2 DEF M
<1>11. A.collToRedistribute \in Nat /\ B.collToRedistribute \in Nat /\ A.collSurplus \in Nat
       /\ B.collSurplus \in Nat /\ A.collGasCompensation \in Nat /\ B.collGasCompensation \in Nat
       /\ A.pendingDebt \in Nat /\ B.pendingDebt \in Nat /\ A.pendingColl \in Nat
       /\ B.pendingColl \in Nat /\ A.debtToRedistribute \in Nat /\ B.debtToRedistribute \in Nat
       /\ A.actualDebtToOffset \in Nat /\ B.actualDebtToOffset \in Nat
       /\ A.collToSendToSP \in Nat /\ B.collToSendToSP \in Nat
  <2> HIDE DEF A, B
  <2> QED
    BY <1>9 DEF LiquidationValues
<1> DEFINE x == pools[FALSE]
           y == pools[TRUE]
           gA == A.collGasCompensation
           gB == B.collGasCompensation
<1>12. /\ x.debt \in Int /\ x.coll \in Int /\ y.debt \in Int /\ y.coll \in Int
       /\ x.coll = active[FALSE].coll + A.pendingColl - A.collToSendToSP - A.collToRedistribute - A.collSurplus
       /\ y.coll = active[TRUE].coll + B.pendingColl - B.collToSendToSP - B.collToRedistribute - B.collSurplus
       /\ x.coll >= gA /\ y.coll >= gB
       /\ active'[FALSE].coll = x.coll - gA /\ active'[TRUE].coll = y.coll - gB
       /\ active'[FALSE] \in Balances /\ active'[TRUE] \in Balances
  <2> DEFINE p == active[FALSE]
             q == active[TRUE]
             v == active'[FALSE]
             w == active'[TRUE]
  <2>1. p \in Balances /\ q \in Balances
    BY <1>5, Zenon DEF PoolsOK
  <2>2. /\ x = sendSurplus(redistributeDebtAndColl(_moveOffsetCollAndDebt(
                  movePendingTroveRewardsToActivePool(p, A), A), A), A)
        /\ y = sendSurplus(redistributeDebtAndColl(_moveOffsetCollAndDebt(
                  movePendingTroveRewardsToActivePool(q, B), B), B), B)
    BY Zenon
  <2>3. x.debt >= 0 /\ x.coll >= gA /\ y.debt >= 0 /\ y.coll >= gB
    BY <1>1, Zenon
  <2>4. v = _sendGasCompensation(x, A) /\ w = _sendGasCompensation(y, B)
    BY <1>3, Zenon
  <2>5. \A f \in LiquidationValues : A[f] \in Nat
    BY <1>9
  <2>6. \A f \in LiquidationValues : B[f] \in Nat
    BY <1>9
  <2> HIDE DEF x, y, A, B, p, q, v, w
  <2>7. /\ x.debt \in Int /\ x.coll \in Int
        /\ x.coll = p.coll + A.pendingColl - A.collToSendToSP - A.collToRedistribute - A.collSurplus
        /\ v.coll = x.coll - gA /\ v \in Balances
    BY <2>1, <2>2, <2>3, <2>4, <2>5, PoolSettled
  <2>8. /\ y.debt \in Int /\ y.coll \in Int
        /\ y.coll = q.coll + B.pendingColl - B.collToSendToSP - B.collToRedistribute - B.collSurplus
        /\ w.coll = y.coll - gB /\ w \in Balances
    BY <2>1, <2>2, <2>3, <2>4, <2>6, PoolSettled
  <2> QED
    BY <2>3, <2>7, <2>8, Zenon DEF p, q, v, w
<1> HIDE DEF x, y, pools, A, B, T
<1>13. active' \in [BOOLEAN -> Balances]
  <2>1. DOMAIN active' = BOOLEAN /\ active' = [s \in BOOLEAN |-> active'[s]]
    BY <1>3, Zenon
  <2>2. \A s \in BOOLEAN : active'[s] \in Balances
    BY <1>12, Zenon
  <2> QED
    BY <2>1, <2>2, Zenon
<1>14. BothColl(active') = BothColl(active) - SumFunctionOnSet(CollOf(trove), gone)
  <2> DEFINE p == active[FALSE].coll
             q == active[TRUE].coll
             c == SumFunctionOnSet(CollOf(trove), gone)
             v == active'[FALSE].coll
             w == active'[TRUE].coll
  <2>1. p \in Nat /\ q \in Nat
    BY <1>5, BothTyped DEF PoolsOK
  <2>2. c \in Int
    <3> DEFINE f == CollOf(trove)
    <3>1. \A b \in Borrowers : f[b] \in Int
      BY <1>5 DEF AccountsOK, Troves, CollOf
    <3>2. IsFiniteSet(gone)
      BY <1>7, FiniteBorrowers, FS_Subset
    <3> HIDE DEF f, gone
    <3>3. SumFunctionOnSet(f, gone) \in Int
      BY <1>7, <3>1, <3>2, SumRemove
    <3> QED
      BY <3>3 DEF f
  <2>3. BothColl(active) = p + q /\ BothColl(active') = v + w
    BY Zenon DEF BothColl
  <2>4. /\ x.coll = p + A.pendingColl - A.collToSendToSP - A.collToRedistribute - A.collSurplus
        /\ y.coll = q + B.pendingColl - B.collToSendToSP - B.collToRedistribute - B.collSurplus
        /\ v = x.coll - gA /\ w = y.coll - gB
    BY <1>12, Zenon
  <2>5. (A.collToSendToSP + B.collToSendToSP) + (A.collToRedistribute + B.collToRedistribute)
           + (A.collSurplus + B.collSurplus) + (gA + gB)
           = c + (A.pendingColl + B.pendingColl)
    BY <1>9
  <2> HIDE DEF p, q, c, v, w
  <2>6. v + w = (p + q) - c
    BY <1>11, <2>1, <2>2, <2>4, <2>5
  <2> QED
    BY <2>3, <2>6 DEF c
<1>15. redistDebt \in Nat /\ redistColl \in Nat /\ surp \in Nat /\ gas \in Nat /\ offsetDebt \in Nat
  <2>1. r[FALSE] \in Nat \ {0} /\ r[TRUE] \in Nat \ {0}
    BY <1>6, RatesPositive
  <2>2. _actualDebt(A.debtToRedistribute, r[FALSE]) \in Nat
    BY <1>11, <2>1, Conversions
  <2>3. _actualDebt(B.debtToRedistribute, r[TRUE]) \in Nat
    BY <1>11, <2>1, Conversions
  <2> DEFINE u == _actualDebt(A.debtToRedistribute, r[FALSE])
             v == _actualDebt(B.debtToRedistribute, r[TRUE])
  <2>4. redistDebt = u + v /\ u \in Nat /\ v \in Nat
    BY <2>2, <2>3
  <2> HIDE DEF u, v, redistDebt
  <2> QED
    BY <1>11, <2>4
<1>16. gas = gA + gB /\ redistColl = A.collToRedistribute + B.collToRedistribute
  OBVIOUS
<1> HIDE DEF redistDebt, redistColl, surp, gas, offsetDebt
<1>17. dd \in Nat /\ dc \in Nat
  BY <1>1, <1>5, <1>11, <1>15 DEF PoolsOK, Balances
<1> HIDE DEF dd, dc
<1>18. dflt \in Balances /\ dflt.coll = dc
  BY <1>17 DEF Balances
<1>19. PoolsOK(active', default')
  BY <1>3, <1>13, <1>18 DEF PoolsOK
<1> HIDE DEF dflt
<1>20. /\ trove' \in [Borrowers -> Troves]
       /\ Total(CollOf(trove)) = SumFunctionOnSet(CollOf(trove), gone) + Total(CollOf(trove'))
       /\ Total(StakeOf(trove)) = SumFunctionOnSet(StakeOf(trove), gone) + Total(StakeOf(trove'))
  <2> HIDE DEF gone
  <2>1. trove \in [Borrowers -> Troves]
    BY <1>5 DEF AccountsOK
  <2> QED
    BY <1>2, <1>7, <2>1, TrovesGone
<1>21. stakes \in Nat /\ stakes = Total(StakeOf(trove'))
  <2> DEFINE z == SumFunctionOnSet(StakeOf(trove), gone)
             t == Total(StakeOf(trove'))
  <2>1. rw.totalStakes = z + t /\ t \in Nat
    BY <1>5, <1>20, TotalsTyped DEF AccountsOK
  <2>2. z \in Int
    <3> DEFINE f == StakeOf(trove)
    <3>1. \A b \in Borrowers : f[b] \in Int
      BY <1>5 DEF AccountsOK, Troves, StakeOf
    <3>2. IsFiniteSet(gone)
      BY <1>7, FiniteBorrowers, FS_Subset
    <3> HIDE DEF f, gone
    <3>3. SumFunctionOnSet(f, gone) \in Int
      BY <1>7, <3>1, <3>2, SumRemove
    <3> QED
      BY <3>3 DEF f
  <2>3. stakes = rw.totalStakes - z
    OBVIOUS
  <2> HIDE DEF z, t, stakes
  <2>4. stakes \in Nat /\ stakes = t
    BY <2>1, <2>2, <2>3
  <2> QED
    BY <2>4 DEF t
<1> HIDE DEF stakes
<1>22. BothColl(active') = Total(CollOf(trove'))
  <2> DEFINE z == SumFunctionOnSet(CollOf(trove), gone)
             t == Total(CollOf(trove'))
  <2>1. /\ BothColl(active') = BothColl(active) - z /\ BothColl(active) = Total(CollOf(trove))
        /\ Total(CollOf(trove)) = z + t
    BY <1>5, <1>14, <1>20
  <2>2. t \in Nat /\ Total(CollOf(trove)) \in Nat
    BY <1>5, <1>20, TotalsTyped DEF AccountsOK
  <2>3. BothColl(active') \in Nat
    BY <1>13, BothTyped
  <2> HIDE DEF z, t
  <2>4. z \in Int
    <3> DEFINE f == CollOf(trove)
    <3>1. \A b \in Borrowers : f[b] \in Int
      BY <1>5 DEF AccountsOK, Troves, CollOf
    <3>2. IsFiniteSet(gone)
      BY <1>7, FiniteBorrowers, FS_Subset
    <3> HIDE DEF f, gone
    <3>3. SumFunctionOnSet(f, gone) \in Int
      BY <1>7, <3>1, <3>2, SumRemove
    <3> QED
      BY <3>3 DEF f, z
  <2>5. BothColl(active') = t
    BY <2>1, <2>2, <2>4
  <2> QED
    BY <2>5 DEF t
<1>23. /\ rw' \in RewardSums /\ rw'.totalStakes = stakes
       /\ rw'.L_Coll >= rw.L_Coll /\ rw'.L_LUSDDebt >= rw.L_LUSDDebt
  <2>1. rw \in RewardSums
    BY <1>5 DEF AccountsOK
  <2>2. getEntireSystemColl(pools, dflt) - gas \in Nat
    <3>1. getEntireSystemColl(pools, dflt) = x.coll + y.coll + dc
      BY <1>18, Zenon DEF getEntireSystemColl, x, y
    <3> DEFINE p == x.coll
               q == y.coll
    <3>2. p \in Int /\ q \in Int /\ p >= gA /\ q >= gB /\ gA \in Nat /\ gB \in Nat
      BY <1>11, <1>12, Zenon
    <3> HIDE DEF p, q, gA, gB
    <3>3. p + q + dc - (gA + gB) \in Nat
      BY <1>17, <3>2
    <3>4. gas = gA + gB
      BY <1>16, Zenon DEF gA, gB
    <3>5. getEntireSystemColl(pools, dflt) = p + q + dc
      BY <3>1, Zenon DEF p, q
    <3> QED
      BY <1>17, <3>2, <3>3, <3>4, <3>5
  <2>3. redistDebt > 0 => stakes > 0
    BY <1>1 DEF stakes
  <2> QED
    BY <1>3, <1>15, <1>21, <2>1, <2>2, <2>3, RewardsSettled
<1>24. /\ snap' \in [Borrowers -> Snaps]
       /\ \A b \in Borrowers : snap'[b].collateral <= rw'.L_Coll /\ snap'[b].LUSDDebt <= rw'.L_LUSDDebt
  <2> DEFINE none == [collateral |-> 0, LUSDDebt |-> 0]
  <2>1. none \in Snaps /\ none.collateral = 0 /\ none.LUSDDebt = 0
    BY DEF Snaps
  <2>2. snap' = [b \in Borrowers |-> IF b \in gone THEN none ELSE snap[b]]
    BY <1>2
  <2> HIDE DEF none, gone
  <2>3. /\ rw'.L_Coll \in Nat /\ rw'.L_LUSDDebt \in Nat /\ rw.L_Coll \in Nat /\ rw.L_LUSDDebt \in Nat
    BY <1>5, <1>23 DEF AccountsOK, RewardSums
  <2>4. snap \in [Borrowers -> Snaps]
        /\ \A b \in Borrowers : snap[b].collateral <= rw.L_Coll /\ snap[b].LUSDDebt <= rw.L_LUSDDebt
    BY <1>5 DEF AccountsOK
  <2>5. ASSUME NEW b \in Borrowers
        PROVE  /\ snap'[b] \in Snaps
               /\ snap'[b].collateral <= rw'.L_Coll /\ snap'[b].LUSDDebt <= rw'.L_LUSDDebt
    <3>1. CASE b \in gone
      <4>1. snap'[b] = none
        BY <2>2, <3>1
      <4> QED
        BY <2>1, <2>3, <4>1
    <3>2. CASE b \notin gone
      <4>1. snap'[b] = snap[b]
        BY <2>2, <3>2
      <4>2. snap[b] \in Snaps /\ snap[b].collateral \in Nat /\ snap[b].LUSDDebt \in Nat
        BY <2>4 DEF Snaps
      <4> QED
        BY <1>23, <2>3, <2>4, <4>1, <4>2
    <3> QED
      BY <3>1, <3>2
  <2> QED
    BY <2>2, <2>5
<1>25. /\ surplus' \in [coll : Nat, balances : [Borrowers -> Nat]]
       /\ surplus'.coll = Total(surplus'.balances)
  <2> DEFINE new == [b \in Borrowers |-> bal[b] + part[b]]
             coll == surplus.coll + surp
             g == [k \in DOMAIN L |-> L[k].collSurplus]
             key == [k \in DOMAIN L |-> L[k].borrower]
  <2>1. bal \in [Borrowers -> Nat] /\ surplus.coll = Total(bal)
    BY <1>5 DEF AccountsOK
  <2>2. surplus' = [coll |-> coll, balances |-> new]
    BY <1>4
  <2> HIDE DEF L
  <2>3. \A k \in 1..n : key[k] = L[k].borrower /\ key[k] \in Borrowers /\ g[k] \in Nat
    BY <1>10
  <2>4. \A b \in Borrowers : part[b] = SumFunctionOnSet(g, {k \in 1..n : key[k] = b})
    <3> TAKE b \in Borrowers
    <3>1. part[b] = SumFunctionOnSet(g, {k \in DOMAIN L : L[k].borrower = b})
      BY Zenon
    <3>2. {k \in DOMAIN L : L[k].borrower = b} = {k \in 1..n : key[k] = b}
      BY <1>10, <2>3
    <3> QED
      BY <3>1, <3>2
  <2>5. surp = SumFunctionOnSet(g, 1..n)
    BY <1>9
  <2> HIDE DEF g, key, part, bal, n
  <2>6. \A b \in Borrowers : part[b] \in Nat
    <3> TAKE b \in Borrowers
    <3> DEFINE X == {k \in 1..n : key[k] = b}
    <3>1. IsFiniteSet(X) /\ \A k \in X : g[k] \in Nat
      BY <1>7, <2>3, FS_Subset
    <3>2. part[b] = SumFunctionOnSet(g, X)
      BY <2>4
    <3> HIDE DEF X
    <3> QED
      BY <3>1, <3>2, SumNat
  <2>7. Total(part) = surp
    <3> DEFINE K == 1..n
    <3>1. \A k \in K : key[k] \in Borrowers /\ g[k] \in Int
      BY <2>3
    <3>2. IsFiniteSet(K) /\ surp = SumFunctionOnSet(g, K) /\ IsPartition(part, g, key, K, Borrowers)
      BY <1>7, <2>4, <2>5, Zenon DEF IsPartition
    <3> HIDE DEF K
    <3>3. SumFunctionOnSet(part, Borrowers) = SumFunctionOnSet(g, K)
      BY <3>1, <3>2, FiniteBorrowers, SumByKey
    <3> QED
      BY <3>2, <3>3 DEF Total
  <2>8. /\ \A b \in Borrowers : bal[b] \in Int /\ part[b] \in Int /\ new[b] = bal[b] + part[b]
        /\ new \in [Borrowers -> Nat]
    BY <2>1, <2>6
  <2> HIDE DEF new
  <2>9. Total(new) = Total(bal) + Total(part)
    BY <2>8, FiniteBorrowers, SumAdd DEF Total
  <2>10. Total(bal) \in Nat
    BY <2>1, FiniteBorrowers, SumNat DEF Total
  <2>11. coll \in Nat /\ coll = Total(new)
    BY <1>15, <2>1, <2>7, <2>9, <2>10
  <2> HIDE DEF coll
  <2> QED
    BY <2>2, <2>8, <2>11
<1>26. AccountsOK(trove', snap', rw', surplus')
  BY <1>20, <1>21, <1>23, <1>24, <1>25 DEF AccountsOK
<1>27. OwnersOK(status', shielded')
  <2>1. status \in [Borrowers -> Statuses] /\ shielded \in [Borrowers -> BOOLEAN]
    BY <1>5 DEF OwnersOK
  <2> HIDE DEF gone
  <2>2. status' \in [Borrowers -> Statuses]
    BY <1>2, <2>1 DEF Statuses
  <2>3. shielded' \in [Borrowers -> BOOLEAN]
    BY <1>2, <2>1, Zenon
  <2> QED
    BY <2>2, <2>3 DEF OwnersOK
<1>28. Cardinality(ActiveIn(status')) = Cardinality(ActiveIn(status)) - n
  <2> DEFINE X == ActiveIn(status)
             Y == ActiveIn(status')
  <2>1. gone \in SUBSET X
    BY <1>7 DEF ActiveIn
  <2>2. Y = X \ gone
    <3> HIDE DEF gone
    <3> QED
      BY <1>2 DEF ActiveIn
  <2>3. IsFiniteSet(X) /\ IsFiniteSet(Y) /\ Cardinality(X) \in Nat
    BY ActiveCount
  <2> HIDE DEF X, Y, gone
  <2>4. X \cap gone = gone
    BY <2>1
  <2>5. Cardinality(X \ gone) = Cardinality(X) - Cardinality(X \cap gone)
    BY <2>1, <2>3, FS_Difference, FS_Subset
  <2> QED
    BY <1>7, <2>2, <2>4, <2>5 DEF X, Y
<1>29. Cardinality(ActiveIn(status)) \in Nat /\ Cardinality(ActiveIn(status')) \in Nat
  BY ActiveCount
<1> DEFINE supply == l.supply + l.pending - offsetDebt
           deposits == l.deposits - offsetDebt
           burned == l.gas - n * LUSD_GAS_COMPENSATION
           m == offset(l, offsetDebt)
           o == [m EXCEPT !.gas = m.gas - n * LUSD_GAS_COMPENSATION]
<1>30. LUSD_GAS_COMPENSATION \in Nat
  BY UnitsAssumption
<1>31. l.supply \in Nat /\ l.gas \in Nat /\ l.deposits \in Nat /\ l.pending \in Nat
       /\ l.pending <= l.deposits /\ l.supply - l.gas - (l.deposits - l.pending) >= 0
  BY <1>6 DEF CoinsOK, Coins, Circulating
<1>32. supply \in Int /\ deposits \in Nat /\ burned \in Int
  <2>1. deposits >= 0
    <3>1. CASE offsetDebt > 0
      <4>1. deposits >= MIN_LUSD_IN_SP
        BY <1>1, <3>1
      <4>2. MIN_LUSD_IN_SP \in Nat
        BY UnitsAssumption
      <4> QED
        BY <1>15, <1>31, <4>1, <4>2
    <3>2. CASE ~(offsetDebt > 0)
      BY <1>15, <1>31, <3>2
    <3> QED
      BY <3>1, <3>2
  <2>2. n * LUSD_GAS_COMPENSATION \in Nat
    BY <1>7, <1>30
  <2>3. burned \in Int
    BY <1>31, <2>2
  <2>4. supply \in Int
    BY <1>15, <1>31
  <2>5. deposits \in Nat
    BY <1>15, <1>31, <2>1
  <2> QED
    BY <2>3, <2>4, <2>5
<1>33. /\ lusd' \in IntCoins
       /\ lusd'.supply = supply /\ lusd'.gas = burned /\ lusd'.deposits = deposits
       /\ lusd'.pending = 0
  <2>1. l \in IntCoins /\ supply \in Int /\ deposits \in Int /\ burned \in Int /\ 0 \in Int
    BY <1>6, <1>32 DEF CoinsOK, Coins, IntCoins
  <2>2. m = [l EXCEPT !.supply = supply, !.pending = 0, !.deposits = deposits]
    BY Zenon DEF offset
  <2>3. lusd' = o
    BY <1>4
  <2> HIDE DEF supply, deposits, m
  <2>4. /\ m \in IntCoins /\ m.supply = supply /\ m.gas = l.gas /\ m.deposits = deposits
        /\ m.pending = 0
    BY <2>1, <2>2, Zenon DEF IntCoins
  <2>5. o = [m EXCEPT !.gas = burned]
    BY <2>4, Zenon
  <2> HIDE DEF burned, o
  <2>6. /\ o \in IntCoins /\ o.supply = m.supply /\ o.gas = burned /\ o.deposits = m.deposits
        /\ o.pending = m.pending
    BY <2>1, <2>4, <2>5, Zenon DEF IntCoins
  <2> QED
    BY <2>3, <2>4, <2>6
<1> HIDE DEF m, o
<1>34. lusd'.gas = LUSD_GAS_COMPENSATION * Cardinality(ActiveIn(status'))
  <2> DEFINE c == Cardinality(ActiveIn(status))
             e == Cardinality(ActiveIn(status'))
             q == LUSD_GAS_COMPENSATION
             g == lusd'.gas
  <2>1. g = q * c - n * q /\ e = c - n /\ q \in Nat /\ c \in Nat /\ n \in Nat
    BY <1>5, <1>6, <1>7, <1>28, <1>29, <1>30, <1>33
  <2> HIDE DEF c, e, q, n, g
  <2>2. q * c - n * q = q * (c - n)
    BY <2>1
  <2>3. g = q * e
    BY <2>1, <2>2
  <2> QED
    BY <2>3 DEF c, e, q, g
<1>35. CoinsOK(lusd')
  <2>1. lusd'.gas >= 0
    <3> DEFINE e == Cardinality(ActiveIn(status'))
    <3>1. e \in Nat /\ lusd'.gas = LUSD_GAS_COMPENSATION * e
      BY <1>29, <1>34
    <3> HIDE DEF e
    <3> QED
      BY <1>30, <3>1
  <2>2. lusd'.pending >= 0 /\ lusd'.pending <= lusd'.deposits
    BY <1>32, <1>33
  <2>3. Circulating(lusd') >= 0
    <3> DEFINE q == n * LUSD_GAS_COMPENSATION
    <3>1. q \in Nat
      BY <1>7, <1>30
    <3>2. lusd'.gas = l.gas - q
      BY <1>33
    <3> HIDE DEF q, burned
    <3> QED
      BY <1>15, <1>31, <1>33, <3>1, <3>2 DEF Circulating
  <2> QED
    BY <1>33, <2>1, <2>2, <2>3, CoinsEnough
<1> QED
  BY <1>4, <1>5, <1>6, <1>19, <1>22, <1>23, <1>26, <1>27, <1>34, <1>35
     DEF BranchInv, Active, ActiveIn, DebtSumGrows

\* Both entry points of Liquidations keep the books.
LEMMA LiquidationStep ==
  ASSUME BranchInv, NEW seq \in Arrays, NEW price \in Prices, NEW d \in Drips,
         batchLiquidate(seq, price, d) \/ \E n \in 1..MaxBatch : liquidateTroves(n, seq, price, d)
  PROVE  BranchInv' /\ DebtSumGrows
<1>1. CASE batchLiquidate(seq, price, d)
  BY <1>1, SettleStep, Zenon DEF batchLiquidate
<1>2. ASSUME NEW n \in 1..MaxBatch, liquidateTroves(n, seq, price, d)
      PROVE  BranchInv' /\ DebtSumGrows
  <2> DEFINE done(k) == {seq[i] : i \in 1..k}
  <2>1. /\ \A k \in DOMAIN seq : seq[k] \in NextLiquidatable(done(k - 1), d.rate, price)
        /\ Settle(seq, price, d)
    BY <1>2, Zenon DEF liquidateTroves
  <2>2. ASSUME NEW k \in DOMAIN seq
        PROVE  status[seq[k]] = "active"
    <3> DEFINE S == done(k - 1)
    <3>1. seq[k] \in NextLiquidatable(S, d.rate, price)
      BY <2>1
    <3> HIDE DEF S
    <3>2. seq[k] \in NextLiquidatableIn(FALSE, S, d.rate, price)
            \/ seq[k] \in NextLiquidatableIn(TRUE, S, d.rate, price)
      BY <3>1, Zenon DEF NextLiquidatable
    <3>3. seq[k] \in ListOf(FALSE) \/ seq[k] \in ListOf(TRUE)
      BY <3>2, Zenon DEF NextLiquidatableIn, getLast
    <3> QED
      BY <3>3, Zenon DEF ListOf, Active
  <2> QED
    BY <2>1, <2>2, SettleStep, Zenon
<1> QED
  BY <1>1, <1>2

-----------------------------------------------------------------------------
(***************************************************************************)
(* Redemptions                                                             *)
(***************************************************************************)

LoopFields ==
  {"left", "cursor", "running", "ok", "status", "shielded", "trove", "snap", "rw", "active",
   "default", "surplus", "closed", "LUSDToRedeem", "collDrawn"}

Both(f) == f[FALSE] + f[TRUE]

\* What belongs to owner c is the same in E and in L.
SameOwner(E, L, c) ==
  /\ E.trove[c] = L.trove[c] /\ E.status[c] = L.status[c] /\ E.snap[c] = L.snap[c]
  /\ E.surplus.balances[c] = L.surplus.balances[c]

\* The trove of c is active and as it was before the loop.
Fresh(L, c) ==
  /\ L.trove[c] = trove[c] /\ L.status[c] = "active" /\ L.snap[c] = snap[c]
  /\ L.surplus.balances[c] = surplus.balances[c]

\* The loop has not reached the troves from its cursors on.
Untouched(L, order) ==
  \A s \in BOOLEAN : L.cursor[s] # 0 =>
    /\ L.cursor[s] \in DOMAIN order[s]
    /\ \A i \in DOMAIN order[s] : i >= L.cursor[s] => Fresh(L, order[s][i])

\* The books in the loop: what is drawn has left the troves and not yet the pools.
LoopBooks(L) ==
  /\ OwnersOK(L.status, L.shielded)
  /\ AccountsOK(L.trove, L.snap, L.rw, L.surplus) /\ PoolsOK(L.active, L.default)
  /\ L.rw.L_Coll = rw.L_Coll /\ L.rw.L_LUSDDebt = rw.L_LUSDDebt
  /\ L.LUSDToRedeem \in [BOOLEAN -> Nat] /\ L.collDrawn \in [BOOLEAN -> Nat]
  /\ BothColl(L.active) = Total(CollOf(L.trove)) + Both(L.collDrawn)
  /\ L.closed \in Nat
  /\ Cardinality(ActiveIn(L.status)) + L.closed = Cardinality(ActiveIn(status))

LoopTyped(L, p) ==
  /\ LoopBooks(L)
  /\ L.left \in Nat /\ L.left + Both(L.LUSDToRedeem) = p.amount
  /\ L.cursor \in [BOOLEAN -> Nat]

LoopOK(L, order, p) == LoopTyped(L, p) /\ (L.running => Untouched(L, order))

LoopInv(L, order, p) == DOMAIN L = LoopFields /\ (L.ok => LoopOK(L, order, p))

\* A total per list, over the two lists.
LEMMA BothNat ==
  ASSUME NEW f \in [BOOLEAN -> Nat]
  PROVE  Both(f) \in Nat /\ Both(f) \in Int /\ f[FALSE] \in Nat /\ f[TRUE] \in Nat
<1> DEFINE x == f[FALSE]
           y == f[TRUE]
<1>1. x \in Nat /\ y \in Nat /\ Both(f) = x + y
  BY Zenon DEF Both
<1> HIDE DEF x, y
<1>2. Both(f) \in Nat /\ Both(f) \in Int
  BY <1>1
<1> QED
  BY <1>1, <1>2 DEF x, y

\* One entry grows.
LEMMA BothChange ==
  ASSUME NEW f \in [BOOLEAN -> Nat], NEW s \in BOOLEAN, NEW x \in Nat
  PROVE  /\ [f EXCEPT ![s] = @ + x] \in [BOOLEAN -> Nat]
         /\ Both([f EXCEPT ![s] = @ + x]) = Both(f) + x
<1> DEFINE new == f[s] + x
           y == f[s]
           z == f[~s]
           g == [f EXCEPT ![s] = new]
<1>1. y \in Nat /\ z \in Nat
  BY Zenon
<1>2. new = y + x
  BY Zenon
<1> HIDE DEF y
<1>3. new \in Nat
  BY <1>1, <1>2
<1> HIDE DEF new
<1>4. g \in [BOOLEAN -> Nat] /\ g[s] = new /\ g[~s] = z
  BY <1>3, Zenon
<1> HIDE DEF g, z
<1>5. CASE s = TRUE
  <2>1. Both(g) = z + new /\ Both(f) = z + y
    BY <1>4, <1>5, Zenon DEF Both, y, z
  <2>2. Both(g) = Both(f) + x
    BY <1>1, <1>2, <1>3, <2>1
  <2> QED
    BY <1>4, <2>2, Zenon DEF g, new
<1>6. CASE s = FALSE
  <2>1. Both(g) = new + z /\ Both(f) = y + z
    BY <1>4, <1>6, Zenon DEF Both, y, z
  <2>2. Both(g) = Both(f) + x
    BY <1>1, <1>2, <1>3, <2>1
  <2> QED
    BY <1>4, <2>2, Zenon DEF g, new
<1> QED
  BY <1>5, <1>6, Zenon

\* A list in the order the loop walks it.
LEMMA OrderFacts ==
  ASSUME BranchInv, NEW order \in Orders, NEW s \in BOOLEAN
  PROVE  /\ Len(order[s]) \in Nat /\ DOMAIN order[s] = 1..Len(order[s])
         /\ \A i \in 1..Len(order[s]) :
              order[s][i] \in Borrowers /\ status[order[s][i]] = "active" /\ shielded[order[s][i]] = s
         /\ \A i, j \in 1..Len(order[s]) : order[s][i] = order[s][j] => i = j
<1>1. order[s] \in OrdersOf(s)
  BY Zenon DEF Orders
<1> DEFINE q == order[s]
           n == Cardinality(ListOf(s))
<1>2. /\ q \in [1..n -> ListOf(s)]
      /\ \A i, j \in 1..n : i # j => q[i] # q[j]
  BY <1>1, Zenon DEF OrdersOf, SetToSeqs
<1>3. n \in Nat
  <2>1. ListOf(s) \subseteq Borrowers
    BY DEF ListOf, Active
  <2> QED
    BY <2>1, FS_Subset, FS_CardinalityType, FiniteBorrowers
<1> HIDE DEF q, n
<1>4. Len(q) = n /\ DOMAIN q = 1..n
  BY <1>2, <1>3
<1>5. \A b \in ListOf(s) : b \in Borrowers /\ status[b] = "active" /\ shielded[b] = s
  BY Zenon DEF ListOf, Active
<1> HIDE DEF n
<1>6. \A i \in 1..n : q[i] \in Borrowers /\ status[q[i]] = "active" /\ shielded[q[i]] = s
  BY <1>2, <1>5
<1> QED
  BY <1>2, <1>3, <1>4, <1>6 DEF q

\* The cursor of a list starts in it or nowhere.
LEMMA SeedTyped ==
  ASSUME NEW q, NEW n \in Nat, DOMAIN q = 1..n, NEW s, NEW hint, NEW price
  PROVE  Seed(q, s, hint, price) = 0 \/ Seed(q, s, hint, price) \in DOMAIN q
<1> DEFINE icr(k) == getCurrentICR(q[k], rate, price)
           valid == {i \in DOMAIN q : q[i] = hint /\ _validateFirstHint(q, i, s, price)}
           candidates == {i \in DOMAIN q : IF isShutdown THEN s => icr(i) > 0 ELSE icr(i) >= MCR}
           first == CHOOSE i \in candidates : \A j \in candidates : i <= j
<1>1. Seed(q, s, hint, price) =
        IF valid # {} THEN CHOOSE i \in valid : TRUE
        ELSE IF candidates = {} \/ ~Eligible(s, icr(first)) THEN 0 ELSE first
  BY Zenon DEF Seed
<1>2. valid # {} => (CHOOSE i \in valid : TRUE) \in DOMAIN q
  <2>1. valid \subseteq DOMAIN q
    BY Zenon
  <2> HIDE DEF valid
  <2> QED
    BY <2>1
<1>3. candidates # {} => first \in DOMAIN q
  <2>1. candidates \subseteq DOMAIN q /\ candidates \in SUBSET Nat
    OBVIOUS
  <2> HIDE DEF candidates
  <2>2. candidates # {} => \E i \in candidates : \A j \in candidates : i <= j
    BY <2>1, LeastNat
  <2> QED
    BY <2>1, <2>2
<1> HIDE DEF valid, candidates, first
<1> QED
  BY <1>1, <1>2, <1>3

\* A redeemer's request.
Asked(p) ==
  /\ p.amount \in Nat /\ p.price \in Nat \ {0}
  /\ p.redemptionRate \in 0..DECIMAL_PRECISION /\ p.discount \in 0..DECIMAL_PRECISION - 1

\* What is taken from a trove is no more than what is left to redeem.
LEMMA LotTyped ==
  ASSUME BranchInv, NEW t \in Troves, NEW s \in BOOLEAN, NEW left \in Nat, NEW p, Asked(p),
         _actualDebt(t.debt, rate[s]) >= LUSD_GAS_COMPENSATION
  PROVE  /\ LotOf(t, s, left, p).LUSD \in Nat /\ LotOf(t, s, left, p).LUSD <= left
         /\ LotOf(t, s, left, p).coll \in Nat
<1> DEFINE q == rate[s]
           D == DECIMAL_PRECISION
           owed == _actualDebt(t.debt, q) - LUSD_GAS_COMPENSATION
           want == MinOf(left, owed)
           share == D - p.discount
           rev == (want * D * D) \div (share * p.price)
           gross == IF isShutdown THEN rev ELSE (want * D) \div p.price
           fee == IF isShutdown THEN 0 ELSE (p.redemptionRate * gross) \div D
           worth == (t.coll * share * p.price) \div (D * D)
           lot == LotOf(t, s, left, p)
<1>1. lot = IF isShutdown /\ gross > t.coll THEN [LUSD |-> worth, coll |-> t.coll]
            ELSE [LUSD |-> want, coll |-> gross - fee]
  BY Zenon DEF LotOf
<1>2. q \in Nat \ {0} /\ _actualDebt(t.debt, q) >= LUSD_GAS_COMPENSATION
  BY RatesPositive DEF BranchInv
<1> HIDE DEF q, lot
<1>3. owed \in Nat
  <2>1. t.debt \in Nat
    BY DEF Troves
  <2>2. _actualDebt(t.debt, q) \in Nat
    BY <1>2, <2>1, Conversions
  <2> QED
    BY <1>2, <2>2, UnitsAssumption
<1> HIDE DEF owed
<1>4. want \in Nat /\ want <= left
  BY <1>3, MinOfPair
<1> HIDE DEF want
<1>5. share \in Nat \ {0} /\ D \in Nat \ {0} /\ p.price \in Nat \ {0} /\ t.coll \in Nat
  BY UnitsAssumption DEF Asked, Troves
<1> HIDE DEF share, D
<1> DEFINE m == share * p.price
           e == D * D
<1>6. m \in Nat \ {0} /\ e \in Nat \ {0}
  BY <1>5
<1>7. want * D * D = want * e /\ t.coll * share * p.price = t.coll * m
  BY <1>4, <1>5
<1> HIDE DEF m, e
<1>8. want * e \in Nat /\ t.coll * m \in Nat
  BY <1>4, <1>5, <1>6
<1>9. rev = (want * e) \div m /\ worth = (t.coll * m) \div e
  BY <1>7 DEF m, e
<1>10. rev \in Nat /\ m * rev <= want * e /\ worth \in Nat
  BY <1>6, <1>8, <1>9, DivBounds
<1> HIDE DEF rev, worth
<1>11. ASSUME isShutdown, rev > t.coll
       PROVE  worth <= want
  <2>1. t.coll * m <= rev * m
    BY <1>5, <1>6, <1>10, <1>11, ProductMonotone
  <2>2. rev * m = m * rev /\ want * e = e * want
    BY <1>4, <1>6, <1>10
  <2> DEFINE x == t.coll * m
             y == rev * m
             z == e * want
  <2>3. x \in Nat /\ x <= z /\ z \in Nat
    <3>1. x <= y /\ y <= z /\ x \in Nat /\ z \in Nat
      BY <1>8, <1>10, <2>1, <2>2
    <3>2. y \in Nat
      BY <1>6, <1>10
    <3> HIDE DEF x, y, z
    <3> QED
      BY <3>1, <3>2
  <2> HIDE DEF x
  <2>4. x < e * want + e
    BY <1>6, <2>3
  <2>5. x \div e <= want
    BY <1>4, <1>6, <2>3, <2>4, DivAtMost
  <2> QED
    BY <1>9, <2>5 DEF x
<1>12. (want * D) \div p.price \in Nat
  <2>1. want * D \in Nat
    BY <1>4, <1>5
  <2> QED
    BY <1>5, <2>1, DivBounds
<1>13. gross \in Nat
  BY <1>10, <1>12
<1>14. CASE isShutdown /\ gross > t.coll
  <2>1. lot.LUSD = worth /\ lot.coll = t.coll
    BY <1>1, <1>14
  <2> QED
    <3>1. isShutdown /\ rev > t.coll
      BY <1>14
    <3>2. worth <= want
      BY <1>11, <3>1
    <3> HIDE DEF gross
    <3> QED
      BY <1>4, <1>5, <1>10, <2>1, <3>2 DEF lot
<1>15. CASE ~(isShutdown /\ gross > t.coll)
  <2>0. gross - fee \in Nat
    <3>1. p.redemptionRate \in Nat /\ p.redemptionRate <= D
      BY <1>5 DEF Asked, D
    <3> HIDE DEF gross
    <3>2. (p.redemptionRate * gross) \div D \in 0..gross
      BY <1>5, <1>13, <3>1, Fraction
    <3> QED
      BY <1>13, <3>2
  <2> HIDE DEF fee
  <2>1. lot.LUSD = want /\ lot.coll = gross - fee
    BY <1>1, <1>15
  <2> QED
    BY <1>4, <2>0, <2>1 DEF lot
<1> QED
  BY <1>14, <1>15

\* Everything but the books is as it was.
SameRest(A, L) ==
  /\ A.left = L.left /\ A.cursor = L.cursor /\ A.running = L.running /\ A.status = L.status
  /\ A.shielded = L.shielded /\ A.rw = L.rw /\ A.surplus = L.surplus /\ A.closed = L.closed
  /\ A.LUSDToRedeem = L.LUSDToRedeem /\ A.collDrawn = L.collDrawn

AppliedOk(L, a) == L.ok /\ a.default.debt >= 0 /\ a.default.coll >= 0

\* The loop's fields once pending rewards are applied.
LEMMA AppliedShape ==
  ASSUME NEW L, DOMAIN L = LoopFields, NEW b, NEW s, NEW A, A = Applied(L, b, s),
         NEW a, a = _applyPendingRewards(b, s, rate, trove[b], L.active, L.default)
  PROVE  /\ DOMAIN A = LoopFields /\ SameRest(A, L)
         /\ A.trove = [L.trove EXCEPT ![b] = a.trove] /\ A.snap = [L.snap EXCEPT ![b] = a.snap]
         /\ A.active = a.pools /\ A.default = a.default
<1> DEFINE t == [L.trove EXCEPT ![b] = a.trove]
           sn == [L.snap EXCEPT ![b] = a.snap]
           pl == a.pools
           df == a.default
           k == L.ok /\ a.default.debt >= 0 /\ a.default.coll >= 0
<1>1. A = [L EXCEPT !.trove = t, !.snap = sn, !.active = pl, !.default = df, !.ok = k]
  BY Zenon DEF Applied
<1> HIDE DEF t, sn, pl, df, k
<1>2. /\ DOMAIN A = LoopFields
      /\ A.trove = t /\ A.snap = sn /\ A.active = pl /\ A.default = df
  BY <1>1 DEF LoopFields
<1>3. SameRest(A, L)
  BY <1>1 DEF LoopFields, SameRest
<1> QED
  BY <1>2, <1>3, Zenon DEF t, sn, pl, df

\* When that does not revert.
LEMMA AppliedOkIs ==
  ASSUME NEW L, DOMAIN L = LoopFields, NEW b, NEW s,
         NEW a, a = _applyPendingRewards(b, s, rate, trove[b], L.active, L.default)
  PROVE  Applied(L, b, s).ok = AppliedOk(L, a)
<1> DEFINE A == Applied(L, b, s)
           t == [L.trove EXCEPT ![b] = a.trove]
           sn == [L.snap EXCEPT ![b] = a.snap]
           pl == a.pools
           df == a.default
           k == AppliedOk(L, a)
<1>1. A = [L EXCEPT !.trove = t, !.snap = sn, !.active = pl, !.default = df, !.ok = k]
  BY Zenon DEF Applied, AppliedOk
<1> HIDE DEF A, t, sn, pl, df, k
<1>2. A.ok = k
  BY <1>1 DEF LoopFields
<1> QED
  BY <1>2 DEF A, k

\* Where it does not revert, the DefaultPool had the rewards.
LEMMA AppliedCovered ==
  ASSUME NEW L, DOMAIN L = LoopFields, NEW b, NEW s, Applied(L, b, s).ok,
         NEW a, a = _applyPendingRewards(b, s, rate, trove[b], L.active, L.default)
  PROVE  L.ok /\ a.default.debt >= 0 /\ a.default.coll >= 0
<1>1. Applied(L, b, s).ok = AppliedOk(L, a)
  BY AppliedOkIs, Zenon
<1> QED
  BY <1>1, Zenon DEF AppliedOk

\* b's account becomes new, with the stake it had.
LEMMA AccountSameStake ==
  ASSUME NEW t, NEW sn, NEW w, NEW sp, AccountsOK(t, sn, w, sp),
         NEW b \in Borrowers, t[b].stake = trove[b].stake,
         NEW new \in Troves, new.stake = trove[b].stake, NEW sb \in Snaps,
         sb.collateral <= w.L_Coll, sb.LUSDDebt <= w.L_LUSDDebt
  PROVE  /\ AccountsOK([t EXCEPT ![b] = new], [sn EXCEPT ![b] = sb], w, sp)
         /\ Total(CollOf([t EXCEPT ![b] = new])) = Total(CollOf(t)) - t[b].coll + new.coll
<1>1. SetStake(w, b, new.stake) = w
  <2>1. w \in RewardSums /\ trove[b].stake \in Int
    BY DEF AccountsOK, Troves
  <2>2. w.totalStakes - trove[b].stake + new.stake = w.totalStakes
    BY <2>1 DEF RewardSums
  <2>3. [w EXCEPT !.totalStakes = w.totalStakes] = w
    BY <2>1 DEF RewardSums
  <2> QED
    BY <2>2, <2>3, Zenon DEF SetStake
<1> QED
  BY <1>1, AccountChange

\* What holds once b's pending rewards are applied, and before.
OnceApplied(A, L, b) ==
  /\ LoopBooks(A) /\ A.trove[b] \in Troves /\ A.trove[b].stake = trove[b].stake
  /\ \A c \in Borrowers \ {b} : SameOwner(A, L, c)

CanApply(A, L, b, s) ==
  /\ DOMAIN L = LoopFields /\ LoopBooks(L) /\ b \in Borrowers /\ s \in BOOLEAN
  /\ L.trove[b] = trove[b] /\ A = Applied(L, b, s)

\* Applying b's pending rewards keeps the books.
LEMMA AppliedLoop ==
  ASSUME BranchInv, NEW L, NEW b, NEW s, NEW A, CanApply(A, L, b, s), A.ok
  PROVE  OnceApplied(A, L, b)
<1> USE DEF CanApply
<1> DEFINE a == _applyPendingRewards(b, s, rate, trove[b], L.active, L.default)
<1>1. /\ DOMAIN A = LoopFields /\ SameRest(A, L)
      /\ A.trove = [L.trove EXCEPT ![b] = a.trove] /\ A.snap = [L.snap EXCEPT ![b] = a.snap]
      /\ A.active = a.pools /\ A.default = a.default
      /\ a.default.debt >= 0 /\ a.default.coll >= 0
  <2>1. a = _applyPendingRewards(b, s, rate, trove[b], L.active, L.default)
    OBVIOUS
  <2> HIDE DEF a
  <2>2. a.default.debt >= 0 /\ a.default.coll >= 0
    BY <2>1, AppliedCovered
  <2>3. /\ DOMAIN A = LoopFields /\ SameRest(A, L)
        /\ A.trove = [L.trove EXCEPT ![b] = a.trove] /\ A.snap = [L.snap EXCEPT ![b] = a.snap]
        /\ A.active = a.pools /\ A.default = a.default
    BY <2>1, AppliedShape
  <2> QED
    BY <2>2, <2>3, Zenon
<1>2. /\ AccountsOK(L.trove, L.snap, L.rw, L.surplus) /\ PoolsOK(L.active, L.default)
      /\ L.rw.L_Coll = rw.L_Coll /\ L.rw.L_LUSDDebt = rw.L_LUSDDebt
      /\ BothColl(L.active) = Total(CollOf(L.trove)) + Both(L.collDrawn)
      /\ L.collDrawn \in [BOOLEAN -> Nat]
  BY DEF LoopBooks
<1>3. trove[b] \in Troves /\ rate \in Rates
  BY DEF BranchInv, AccountsOK
<1>4. /\ a.trove \in Troves /\ a.trove.stake = trove[b].stake
      /\ a.snap \in Snaps /\ a.snap.collateral <= rw.L_Coll /\ a.snap.LUSDDebt <= rw.L_LUSDDebt
      /\ a.pools \in [BOOLEAN -> Balances]
      /\ BothColl(a.pools) = BothColl(L.active) - trove[b].coll + a.trove.coll
      /\ a.default \in [debt : Int, coll : Int]
  <2>1. a = _applyPendingRewards(b, s, rate, trove[b], L.active, L.default)
    OBVIOUS
  <2> HIDE DEF a
  <2> QED
    BY <1>2, <1>3, <2>1, AppliedFields
<1> HIDE DEF a
<1>5. /\ AccountsOK(A.trove, A.snap, L.rw, L.surplus)
      /\ Total(CollOf(A.trove)) = Total(CollOf(L.trove)) - L.trove[b].coll + a.trove.coll
  <2> DEFINE t == L.trove
             sn == L.snap
             w == L.rw
             sp == L.surplus
             new == a.trove
             sb == a.snap
  <2>1. /\ AccountsOK(t, sn, w, sp) /\ t[b].stake = trove[b].stake /\ new \in Troves
        /\ new.stake = trove[b].stake /\ sb \in Snaps
        /\ sb.collateral <= w.L_Coll /\ sb.LUSDDebt <= w.L_LUSDDebt
    BY <1>2, <1>4
  <2>2. A.trove = [t EXCEPT ![b] = new] /\ A.snap = [sn EXCEPT ![b] = sb]
    BY <1>1
  <2> HIDE DEF t, sn, w, sp, new, sb
  <2>3. /\ AccountsOK([t EXCEPT ![b] = new], [sn EXCEPT ![b] = sb], w, sp)
        /\ Total(CollOf([t EXCEPT ![b] = new])) = Total(CollOf(t)) - t[b].coll + new.coll
    BY <2>1, AccountSameStake
  <2>4. /\ AccountsOK(A.trove, A.snap, w, sp)
        /\ Total(CollOf(A.trove)) = Total(CollOf(t)) - t[b].coll + new.coll
    BY <2>2, <2>3, Zenon
  <2> QED
    BY <2>4, Zenon DEF t, w, sp, new
<1>6. PoolsOK(A.active, A.default)
  <2>1. a.default \in Balances
    BY <1>1, <1>4, DefaultTyped
  <2> QED
    BY <1>1, <1>4, <2>1 DEF PoolsOK
<1>7. BothColl(A.active) = Total(CollOf(A.trove)) + Both(L.collDrawn)
  <2>1. trove[b].coll \in Int /\ a.trove.coll \in Int /\ L.trove[b].coll = trove[b].coll
    BY <1>3, <1>4 DEF Troves
  <2>2. Total(CollOf(L.trove)) \in Int
    BY <1>2, TotalsTyped DEF AccountsOK
  <2>3. Both(L.collDrawn) \in Int
    BY <1>2, Zenon, BothNat
  <2>4. BothColl(A.active) = BothColl(a.pools)
    BY <1>1, Zenon
  <2> QED
    BY <1>2, <1>4, <1>5, <2>1, <2>2, <2>3, <2>4
<1>8. A.trove[b] = a.trove /\ \A c \in Borrowers \ {b} : SameOwner(A, L, c)
  <2>1. /\ A.trove[b] = a.trove
        /\ \A c \in Borrowers \ {b} : A.trove[c] = L.trove[c] /\ A.snap[c] = L.snap[c]
    BY <1>1, <1>2 DEF AccountsOK
  <2> QED
    BY <1>1, <2>1, Zenon DEF SameOwner, SameRest
<1>9. LoopBooks(A)
  BY <1>1, <1>2, <1>5, <1>6, <1>7 DEF LoopBooks, SameRest
<1> QED
  BY <1>4, <1>8, <1>9 DEF OnceApplied

\* What the loop counts is as it was.
SameWork(C, A) ==
  /\ C.left = A.left /\ C.cursor = A.cursor /\ C.running = A.running
  /\ C.LUSDToRedeem = A.LUSDToRedeem /\ C.collDrawn = A.collDrawn

\* All but coll has left trove b, and, where the trove has left too, coll its pool.
Taken(C, A, b, coll) ==
  /\ DOMAIN C = LoopFields /\ SameWork(C, A)
  /\ OwnersOK(C.status, C.shielded)
  /\ AccountsOK(C.trove, C.snap, C.rw, C.surplus) /\ PoolsOK(C.active, C.default)
  /\ C.rw.L_Coll = rw.L_Coll /\ C.rw.L_LUSDDebt = rw.L_LUSDDebt
  /\ BothColl(C.active) - Total(CollOf(C.trove))
       = BothColl(A.active) - Total(CollOf(A.trove)) + A.trove[b].coll - coll
  /\ C.closed \in Nat
  /\ Cardinality(ActiveIn(C.status)) + C.closed = Cardinality(ActiveIn(status))
  /\ \A c \in Borrowers \ {b} : SameOwner(C, A, c)

NoTrove == [debt |-> 0, coll |-> 0, stake |-> 0]

NoSnap == [collateral |-> 0, LUSDDebt |-> 0]

\* The loop's fields once a trove is closed.
IsClosed(C, A, b, s, coll, n) ==
  /\ DOMAIN C = LoopFields /\ SameWork(C, A)
  /\ C.status = [A.status EXCEPT ![b] = "closedByRedemption"]
  /\ C.shielded = [A.shielded EXCEPT ![b] = FALSE]
  /\ C.trove = [A.trove EXCEPT ![b] = NoTrove] /\ C.snap = [A.snap EXCEPT ![b] = NoSnap]
  /\ C.rw = SetStake(A.rw, b, 0) /\ C.active = AddToPool(A.active, s, -n, -coll)
  /\ C.surplus = [coll |-> A.surplus.coll + coll,
           balances |-> [A.surplus.balances EXCEPT ![b] = @ + coll]]
  /\ C.closed = A.closed + 1 /\ C.default = A.default

\* Closing a trove changes just those fields.
LEMMA ClosedShape ==
  ASSUME NEW A, DOMAIN A = LoopFields, NEW b, NEW s, NEW coll,
         NEW C, C = ClosedByRedemption(A, b, s, coll), NEW n, n = NormDown(LUSD_GAS_COMPENSATION, rate[s])
  PROVE  IsClosed(C, A, b, s, coll, n)
<1> DEFINE st == [A.status EXCEPT ![b] = "closedByRedemption"]
           sh == [A.shielded EXCEPT ![b] = FALSE]
           t == [A.trove EXCEPT ![b] = NoTrove]
           sn == [A.snap EXCEPT ![b] = NoSnap]
           w == SetStake(A.rw, b, 0)
           nn == NormDown(LUSD_GAS_COMPENSATION, rate[s])
           pl == AddToPool(A.active, s, -nn, -coll)
           sp == [coll |-> A.surplus.coll + coll,
                  balances |-> [A.surplus.balances EXCEPT ![b] = A.surplus.balances[b] + coll]]
           m == A.closed + 1
           k == A.ok /\ A.active[s].debt >= nn /\ A.active[s].coll >= coll /\ MoreThan(A.closed + 1)
<1>1. C = [A EXCEPT !.status = st, !.shielded = sh, !.trove = t, !.snap = sn, !.rw = w,
                    !.active = pl, !.surplus = sp, !.closed = m, !.ok = k]
  BY Zenon DEF ClosedByRedemption, NoTrove, NoSnap
<1> HIDE DEF st, sh, t, sn, w, pl, sp, m, k
<1>2. /\ DOMAIN C = LoopFields /\ C.status = st /\ C.shielded = sh /\ C.trove = t
      /\ C.snap = sn
  BY <1>1 DEF LoopFields
<1>3. C.rw = w /\ C.active = pl /\ C.surplus = sp /\ C.closed = m
  BY <1>1 DEF LoopFields
<1>4. C.default = A.default /\ SameWork(C, A)
  BY <1>1 DEF LoopFields, SameWork
<1> QED
  BY <1>2, <1>3, <1>4, ZenonT(30) DEF IsClosed, st, sh, t, sn, w, nn, pl, sp, m

ClosedOk(A, s, n, coll) ==
  A.ok /\ A.active[s].debt >= n /\ A.active[s].coll >= coll /\ MoreThan(A.closed + 1)

\* Where closing a trove does not revert, its pool had what is taken from it.
LEMMA ClosedCovered ==
  ASSUME NEW A, DOMAIN A = LoopFields, NEW b, NEW s, NEW coll, ClosedByRedemption(A, b, s, coll).ok,
         NEW n, n = NormDown(LUSD_GAS_COMPENSATION, rate[s])
  PROVE  A.ok /\ A.active[s].debt >= n /\ A.active[s].coll >= coll
<1> DEFINE C == ClosedByRedemption(A, b, s, coll)
           st == [A.status EXCEPT ![b] = "closedByRedemption"]
           sh == [A.shielded EXCEPT ![b] = FALSE]
           t == [A.trove EXCEPT ![b] = NoTrove]
           sn == [A.snap EXCEPT ![b] = NoSnap]
           w == SetStake(A.rw, b, 0)
           nn == NormDown(LUSD_GAS_COMPENSATION, rate[s])
           pl == AddToPool(A.active, s, -nn, -coll)
           sp == [coll |-> A.surplus.coll + coll,
                  balances |-> [A.surplus.balances EXCEPT ![b] = A.surplus.balances[b] + coll]]
           m == A.closed + 1
           k == ClosedOk(A, s, nn, coll)
<1>1. C = [A EXCEPT !.status = st, !.shielded = sh, !.trove = t, !.snap = sn, !.rw = w,
                    !.active = pl, !.surplus = sp, !.closed = m, !.ok = k]
  BY ZenonT(30) DEF ClosedByRedemption, NoTrove, NoSnap, ClosedOk
<1>2. C.ok
  OBVIOUS
<1> HIDE DEF C, st, sh, t, sn, w, pl, sp, m, k
<1>3. C.ok = k
  BY <1>1 DEF LoopFields
<1>4. k
  BY <1>2, <1>3, Zenon
<1> QED
  BY <1>4, Zenon DEF k, ClosedOk, nn

\* And once it keeps a part.
IsPartly(C, A, b, debt, coll, stake) ==
  /\ DOMAIN C = LoopFields /\ SameWork(C, A)
  /\ C.trove = [A.trove EXCEPT ![b] = [debt |-> debt, coll |-> coll, stake |-> stake]]
  /\ C.rw = SetStake(A.rw, b, stake)
  /\ C.status = A.status /\ C.shielded = A.shielded /\ C.snap = A.snap
  /\ C.active = A.active /\ C.default = A.default /\ C.surplus = A.surplus
  /\ C.closed = A.closed

\* Redeeming a part of a trove changes just those fields.
LEMMA PartlyShape ==
  ASSUME NEW A, DOMAIN A = LoopFields, NEW b, NEW debt, NEW coll,
         NEW C, C = PartlyRedeemed(A, b, debt, coll), NEW stake, stake = _computeNewStake(coll)
  PROVE  IsPartly(C, A, b, debt, coll, stake)
<1> DEFINE t == [A.trove EXCEPT ![b] = [debt |-> debt, coll |-> coll, stake |-> stake]]
           w == SetStake(A.rw, b, stake)
           k == A.ok /\ CanComputeStake
<1>1. C = [A EXCEPT !.trove = t, !.rw = w, !.ok = k]
  BY Zenon DEF PartlyRedeemed
<1> HIDE DEF t, w, k
<1>2. /\ DOMAIN C = LoopFields /\ C.trove = t /\ C.rw = w
      /\ C.status = A.status /\ C.shielded = A.shielded /\ C.snap = A.snap
  BY <1>1 DEF LoopFields
<1>3. /\ C.active = A.active /\ C.default = A.default /\ C.surplus = A.surplus
      /\ C.closed = A.closed /\ SameWork(C, A)
  BY <1>1 DEF LoopFields, SameWork
<1> QED
  BY <1>2, <1>3, Zenon DEF IsPartly, t, w

\* Where that does not revert, nothing before it did.
LEMMA PartlyCovered ==
  ASSUME NEW A, DOMAIN A = LoopFields, NEW b, NEW debt, NEW coll, PartlyRedeemed(A, b, debt, coll).ok
  PROVE  A.ok /\ CanComputeStake
<1> DEFINE C == PartlyRedeemed(A, b, debt, coll)
           stake == _computeNewStake(coll)
           t == [A.trove EXCEPT ![b] = [debt |-> debt, coll |-> coll, stake |-> stake]]
           w == SetStake(A.rw, b, stake)
           k == A.ok /\ CanComputeStake
<1>1. C = [A EXCEPT !.trove = t, !.rw = w, !.ok = k]
  BY Zenon DEF PartlyRedeemed
<1>2. C.ok
  OBVIOUS
<1> HIDE DEF C, t, w, k
<1>3. C.ok = k
  BY <1>1 DEF LoopFields
<1>4. k
  BY <1>2, <1>3, Zenon
<1> QED
  BY <1>4, Zenon DEF k

\* A trove that the loop is at, its rewards applied.
AtTrove(A, b) ==
  /\ DOMAIN A = LoopFields /\ LoopBooks(A)
  /\ A.trove[b] \in Troves /\ A.trove[b].stake = trove[b].stake /\ A.status[b] = "active"

\* The surplus pool takes coll for b.
LEMMA SurplusGrows ==
  ASSUME NEW sp \in [coll : Nat, balances : [Borrowers -> Nat]], sp.coll = Total(sp.balances),
         NEW b \in Borrowers, NEW coll \in Nat,
         NEW sq, sq = [coll |-> sp.coll + coll, balances |-> [sp.balances EXCEPT ![b] = @ + coll]]
  PROVE  sq \in [coll : Nat, balances : [Borrowers -> Nat]] /\ sq.coll = Total(sq.balances)
<1> DEFINE f == sp.balances
           new == f[b] + coll
           g == [f EXCEPT ![b] = new]
           x == sp.coll + coll
<1>1. f \in [Borrowers -> Nat] /\ sp.coll = Total(f) /\ sq = [coll |-> x, balances |-> g]
  OBVIOUS
<1> HIDE DEF f
<1>2. new \in Nat /\ f[b] \in Nat
  BY <1>1
<1>3. g \in [Borrowers -> Nat] /\ g[b] = new /\ \A c \in Borrowers \ {b} : g[c] = f[c]
  <2> HIDE DEF new
  <2> QED
    BY <1>1, <1>2
<1> HIDE DEF g
<1>4. Total(g) = Total(f) - f[b] + g[b] /\ Total(f) \in Nat
  BY <1>1, <1>3, SurplusChange
<1>5. x \in Nat /\ x = Total(g)
  BY <1>1, <1>2, <1>3, <1>4
<1> HIDE DEF x
<1> QED
  BY <1>1, <1>3, <1>5

\* Closing a trove keeps the books of the loop.
LEMMA ClosedLoop ==
  ASSUME BranchInv, NEW A, NEW b \in Borrowers, NEW s \in BOOLEAN, AtTrove(A, b), NEW coll \in Nat,
         NEW C, C = ClosedByRedemption(A, b, s, coll), C.ok
  PROVE  Taken(C, A, b, coll)
<1> DEFINE n == NormDown(LUSD_GAS_COMPENSATION, rate[s])
<1>1. /\ DOMAIN C = LoopFields /\ SameWork(C, A)
      /\ C.status = [A.status EXCEPT ![b] = "closedByRedemption"]
      /\ C.shielded = [A.shielded EXCEPT ![b] = FALSE]
      /\ C.trove = [A.trove EXCEPT ![b] = NoTrove] /\ C.snap = [A.snap EXCEPT ![b] = NoSnap]
      /\ C.rw = SetStake(A.rw, b, 0) /\ C.active = AddToPool(A.active, s, -n, -coll)
      /\ C.surplus = [coll |-> A.surplus.coll + coll,
                      balances |-> [A.surplus.balances EXCEPT ![b] = @ + coll]]
      /\ C.closed = A.closed + 1 /\ C.default = A.default
  <2>1. n = NormDown(LUSD_GAS_COMPENSATION, rate[s])
    OBVIOUS
  <2> HIDE DEF n
  <2> QED
    <3>1. IsClosed(C, A, b, s, coll, n)
      BY <2>1, ClosedShape DEF AtTrove
    <3> QED
      BY <3>1, Zenon DEF IsClosed
<1>2. A.active[s].debt >= n /\ A.active[s].coll >= coll
  <2>1. n = NormDown(LUSD_GAS_COMPENSATION, rate[s])
    OBVIOUS
  <2> HIDE DEF n
  <2> QED
    BY <2>1, ClosedCovered DEF AtTrove
<1>3. /\ OwnersOK(A.status, A.shielded)
      /\ AccountsOK(A.trove, A.snap, A.rw, A.surplus) /\ PoolsOK(A.active, A.default)
      /\ A.rw.L_Coll = rw.L_Coll /\ A.rw.L_LUSDDebt = rw.L_LUSDDebt
      /\ A.closed \in Nat
      /\ Cardinality(ActiveIn(A.status)) + A.closed = Cardinality(ActiveIn(status))
      /\ A.trove[b] \in Troves /\ A.trove[b].stake = trove[b].stake /\ A.status[b] = "active"
  BY DEF AtTrove, LoopBooks
<1>4. n \in Nat
  <2> DEFINE q == rate[s]
  <2>1. q \in Nat \ {0} /\ LUSD_GAS_COMPENSATION \in Nat
    BY RatesPositive, UnitsAssumption DEF BranchInv
  <2> HIDE DEF q
  <2>2. NormDown(LUSD_GAS_COMPENSATION, q) \in Nat
    BY <2>1, Conversions
  <2> QED
    BY <2>2 DEF q
<1> HIDE DEF n
<1>5. /\ AccountsOK(C.trove, C.snap, C.rw, A.surplus)
      /\ Total(CollOf(C.trove)) = Total(CollOf(A.trove)) - A.trove[b].coll + 0
  <2> DEFINE t == A.trove
             sn == A.snap
             w == A.rw
             sp == A.surplus
  <2>1. NoTrove \in Troves /\ NoTrove.stake = 0 /\ NoTrove.coll = 0
    BY DEF Troves, NoTrove
  <2>2. /\ AccountsOK(t, sn, w, sp) /\ t[b].stake = trove[b].stake
        /\ NoSnap \in Snaps /\ NoSnap.collateral <= w.L_Coll /\ NoSnap.LUSDDebt <= w.L_LUSDDebt
    BY <1>3 DEF Snaps, NoSnap, AccountsOK, RewardSums
  <2>3. C.trove = [t EXCEPT ![b] = NoTrove] /\ C.snap = [sn EXCEPT ![b] = NoSnap] /\ C.rw = SetStake(w, b, 0)
    BY <1>1
  <2> HIDE DEF t, sn, w, sp
  <2>4. /\ AccountsOK([t EXCEPT ![b] = NoTrove], [sn EXCEPT ![b] = NoSnap], SetStake(w, b, NoTrove.stake), sp)
        /\ Total(CollOf([t EXCEPT ![b] = NoTrove])) = Total(CollOf(t)) - t[b].coll + NoTrove.coll
    BY <2>1, <2>2, AccountChange
  <2>5. AccountsOK(C.trove, C.snap, C.rw, sp) /\ Total(CollOf(C.trove)) = Total(CollOf(t)) - t[b].coll + 0
    BY <2>1, <2>3, <2>4, Zenon
  <2> QED
    BY <2>5, Zenon DEF t, sp
<1>6. AccountsOK(C.trove, C.snap, C.rw, C.surplus)
  <2> DEFINE sp == A.surplus
  <2>1. sp \in [coll : Nat, balances : [Borrowers -> Nat]] /\ sp.coll = Total(sp.balances)
    BY <1>3 DEF AccountsOK
  <2>2. C.surplus = [coll |-> sp.coll + coll, balances |-> [sp.balances EXCEPT ![b] = @ + coll]]
    BY <1>1
  <2> HIDE DEF sp
  <2>3. C.surplus \in [coll : Nat, balances : [Borrowers -> Nat]] /\ C.surplus.coll = Total(C.surplus.balances)
    BY <2>1, <2>2, SurplusGrows
  <2> QED
    BY <1>5, <2>3, Zenon DEF AccountsOK
<1>7. C.rw.L_Coll = rw.L_Coll /\ C.rw.L_LUSDDebt = rw.L_LUSDDebt
  <2>1. A.rw \in RewardSums
    BY <1>3 DEF AccountsOK
  <2> DEFINE w == A.rw
             x == w.totalStakes - trove[b].stake + 0
  <2>2. C.rw = [w EXCEPT !.totalStakes = x]
    BY <1>1, Zenon DEF SetStake
  <2> HIDE DEF x, w
  <2>3. C.rw.L_Coll = w.L_Coll /\ C.rw.L_LUSDDebt = w.L_LUSDDebt
    BY <2>1, <2>2 DEF RewardSums, w
  <2> QED
    BY <1>3, <2>3, Zenon DEF w
<1>8. PoolsOK(C.active, C.default) /\ BothColl(C.active) = BothColl(A.active) + -coll
      /\ BothColl(A.active) \in Int
  <2> DEFINE pools == A.active
             x == pools[s].debt
             y == pools[s].coll
             dn == -n
             dc == -coll
  <2>1. pools \in [BOOLEAN -> Balances] /\ x >= n /\ y >= coll
    BY <1>2, <1>3 DEF PoolsOK
  <2>2. C.active = AddToPool(pools, s, dn, dc)
    BY <1>1
  <2> HIDE DEF pools
  <2>3. x \in Nat /\ y \in Nat /\ BothColl(pools) \in Int
    BY <2>1, BothTyped
  <2> HIDE DEF x, y
  <2>4. x + dn >= 0 /\ y + dc >= 0 /\ dn \in Int /\ dc \in Int
    BY <1>4, <2>1, <2>3
  <2> HIDE DEF dn, dc
  <2>5. C.active \in [BOOLEAN -> Balances] /\ BothColl(C.active) = BothColl(pools) + dc
    BY <2>1, <2>2, <2>4, PoolAfter DEF x, y
  <2>6. C.default \in Balances
    BY <1>1, <1>3 DEF PoolsOK
  <2> QED
    BY <2>3, <2>5, <2>6 DEF PoolsOK, pools, dc
<1>9. BothColl(C.active) - Total(CollOf(C.trove))
        = BothColl(A.active) - Total(CollOf(A.trove)) + A.trove[b].coll - coll
  <2>1. Total(CollOf(A.trove)) \in Int
    BY <1>3, TotalsTyped DEF AccountsOK
  <2>2. A.trove[b].coll \in Int
    BY <1>3 DEF Troves
  <2> QED
    BY <1>5, <1>8, <2>1, <2>2
<1>10. OwnersOK(C.status, C.shielded)
  BY <1>1, <1>3 DEF OwnersOK, Statuses
<1>11. /\ C.status[b] # "active"
       /\ \A c \in Borrowers \ {b} : C.trove[c] = A.trove[c] /\ C.status[c] = A.status[c]
  BY <1>1, <1>3 DEF OwnersOK, AccountsOK
<1>13. \A c \in Borrowers \ {b} : SameOwner(C, A, c)
  <2>1. \A c \in Borrowers \ {b} : C.snap[c] = A.snap[c]
    BY <1>1, <1>3 DEF AccountsOK
  <2> DEFINE f == A.surplus.balances
             v == f[b] + coll
  <2>2. C.surplus.balances = [f EXCEPT ![b] = v]
    BY <1>1
  <2>3. f \in [Borrowers -> Nat]
    BY <1>3 DEF AccountsOK
  <2> HIDE DEF f, v
  <2>4. \A c \in Borrowers \ {b} : C.surplus.balances[c] = f[c]
    BY <2>2, <2>3
  <2> QED
    BY <1>11, <2>1, <2>4, Zenon DEF SameOwner, f
<1>12. C.closed \in Nat /\ Cardinality(ActiveIn(C.status)) + C.closed = Cardinality(ActiveIn(status))
  <2>1. Cardinality(ActiveIn(C.status)) = Cardinality(ActiveIn(A.status)) - 1
    BY <1>3, <1>11, ActiveLess
  <2>2. Cardinality(ActiveIn(A.status)) \in Nat
    BY ActiveCount
  <2> QED
    BY <1>1, <1>3, <2>1, <2>2
<1> QED
  BY <1>1, <1>6, <1>7, <1>8, <1>9, <1>10, <1>12, <1>13 DEF Taken

\* Redeeming a part of a trove keeps the books of the loop.
LEMMA PartlyLoop ==
  ASSUME BranchInv, NEW A, NEW b \in Borrowers, AtTrove(A, b), NEW debt \in Nat, NEW coll \in Nat,
         NEW C, C = PartlyRedeemed(A, b, debt, coll), C.ok
  PROVE  Taken(C, A, b, coll)
<1> DEFINE stake == _computeNewStake(coll)
           new == [debt |-> debt, coll |-> coll, stake |-> stake]
<1>1. /\ DOMAIN C = LoopFields /\ SameWork(C, A)
      /\ C.trove = [A.trove EXCEPT ![b] = new] /\ C.rw = SetStake(A.rw, b, stake)
      /\ C.status = A.status /\ C.shielded = A.shielded /\ C.snap = A.snap
      /\ C.active = A.active /\ C.default = A.default /\ C.surplus = A.surplus
      /\ C.closed = A.closed
  <2>1. stake = _computeNewStake(coll)
    OBVIOUS
  <2> HIDE DEF stake
  <2> QED
    <3>1. IsPartly(C, A, b, debt, coll, stake)
      BY <2>1, PartlyShape DEF AtTrove
    <3> QED
      BY <3>1, Zenon DEF IsPartly
<1>2. stake \in Nat
  <2>1. CanComputeStake
    BY PartlyCovered DEF AtTrove
  <2> QED
    BY <2>1, StakeTyped
<1>3. /\ OwnersOK(A.status, A.shielded)
      /\ AccountsOK(A.trove, A.snap, A.rw, A.surplus) /\ PoolsOK(A.active, A.default)
      /\ A.rw.L_Coll = rw.L_Coll /\ A.rw.L_LUSDDebt = rw.L_LUSDDebt
      /\ A.closed \in Nat
      /\ Cardinality(ActiveIn(A.status)) + A.closed = Cardinality(ActiveIn(status))
      /\ A.trove[b] \in Troves /\ A.trove[b].stake = trove[b].stake /\ A.status[b] = "active"
  BY DEF AtTrove, LoopBooks
<1> HIDE DEF stake
<1>4. new \in Troves /\ new.stake = stake /\ new.coll = coll
  BY <1>2 DEF Troves
<1> HIDE DEF new
<1>5. /\ AccountsOK(C.trove, C.snap, C.rw, C.surplus)
      /\ Total(CollOf(C.trove)) = Total(CollOf(A.trove)) - A.trove[b].coll + coll
  <2> DEFINE t == A.trove
             sn == A.snap
             w == A.rw
             sp == A.surplus
             sb == sn[b]
  <2>1. /\ AccountsOK(t, sn, w, sp) /\ t[b].stake = trove[b].stake
        /\ sb \in Snaps /\ sb.collateral <= w.L_Coll /\ sb.LUSDDebt <= w.L_LUSDDebt
        /\ sn = [sn EXCEPT ![b] = sb]
    BY <1>3 DEF AccountsOK
  <2>2. C.trove = [t EXCEPT ![b] = new] /\ C.snap = sn /\ C.rw = SetStake(w, b, new.stake) /\ C.surplus = sp
    BY <1>1, <1>4
  <2> HIDE DEF t, sn, w, sp, sb
  <2>3. /\ AccountsOK([t EXCEPT ![b] = new], [sn EXCEPT ![b] = sb], SetStake(w, b, new.stake), sp)
        /\ Total(CollOf([t EXCEPT ![b] = new])) = Total(CollOf(t)) - t[b].coll + new.coll
    BY <1>4, <2>1, AccountChange
  <2>4. /\ AccountsOK(C.trove, C.snap, C.rw, C.surplus)
        /\ Total(CollOf(C.trove)) = Total(CollOf(t)) - t[b].coll + coll
    BY <1>4, <2>1, <2>2, <2>3, Zenon
  <2> QED
    BY <2>4, Zenon DEF t
<1>7. C.rw.L_Coll = rw.L_Coll /\ C.rw.L_LUSDDebt = rw.L_LUSDDebt
  <2>1. A.rw \in RewardSums
    BY <1>3 DEF AccountsOK
  <2> DEFINE w == A.rw
             x == w.totalStakes - trove[b].stake + stake
  <2>2. C.rw = [w EXCEPT !.totalStakes = x]
    BY <1>1, Zenon DEF SetStake
  <2> HIDE DEF x, w
  <2>3. C.rw.L_Coll = w.L_Coll /\ C.rw.L_LUSDDebt = w.L_LUSDDebt
    BY <2>1, <2>2 DEF RewardSums, w
  <2> QED
    BY <1>3, <2>3, Zenon DEF w
<1>8. BothColl(C.active) - Total(CollOf(C.trove))
        = BothColl(A.active) - Total(CollOf(A.trove)) + A.trove[b].coll - coll
  <2>1. Total(CollOf(A.trove)) \in Int
    BY <1>3, TotalsTyped DEF AccountsOK
  <2>2. A.trove[b].coll \in Int
    BY <1>3 DEF Troves
  <2>3. BothColl(A.active) \in Int /\ BothColl(C.active) = BothColl(A.active)
    BY <1>1, <1>3, BothTyped DEF PoolsOK
  <2> QED
    BY <1>5, <2>1, <2>2, <2>3
<1>9. \A c \in Borrowers \ {b} : SameOwner(C, A, c)
  <2>1. \A c \in Borrowers \ {b} : C.trove[c] = A.trove[c]
    BY <1>1, <1>3 DEF AccountsOK
  <2> QED
    BY <1>1, <2>1, Zenon DEF SameOwner
<1> QED
  BY <1>1, <1>3, <1>5, <1>7, <1>8, <1>9 DEF Taken

\* The loop's fields once the lot is counted and the cursor moved.
IsCounted(E, C, s, x, y, last) ==
  /\ DOMAIN E = LoopFields
  /\ E.left = C.left - x
  /\ E.LUSDToRedeem = [C.LUSDToRedeem EXCEPT ![s] = @ + x]
  /\ E.collDrawn = [C.collDrawn EXCEPT ![s] = @ + y]
  /\ E.cursor = [C.cursor EXCEPT ![s] = IF @ = last THEN 0 ELSE @ + 1]
  /\ E.running = C.running /\ E.status = C.status /\ E.shielded = C.shielded
  /\ E.trove = C.trove /\ E.snap = C.snap /\ E.rw = C.rw /\ E.active = C.active
  /\ E.default = C.default /\ E.surplus = C.surplus /\ E.closed = C.closed

\* Counting a lot changes just those fields.
LEMMA CountedShape ==
  ASSUME NEW C, DOMAIN C = LoopFields, NEW s, NEW lot, NEW last,
         NEW D, D = Advanced(C, s, lot, last)
  PROVE  IsCounted(D, C, s, lot.LUSD, lot.coll, last) /\ D.ok = C.ok
<1> DEFINE left == C.left - lot.LUSD
           red == [C.LUSDToRedeem EXCEPT ![s] = C.LUSDToRedeem[s] + lot.LUSD]
           drawn == [C.collDrawn EXCEPT ![s] = C.collDrawn[s] + lot.coll]
           cur == [C.cursor EXCEPT ![s] = IF C.cursor[s] = last THEN 0 ELSE C.cursor[s] + 1]
<1>1. D = [C EXCEPT !.left = left, !.LUSDToRedeem = red, !.collDrawn = drawn, !.cursor = cur]
  BY Zenon DEF Advanced
<1> HIDE DEF left, red, drawn, cur
<1>2. /\ DOMAIN D = LoopFields /\ D.ok = C.ok
      /\ D.left = left /\ D.LUSDToRedeem = red /\ D.collDrawn = drawn /\ D.cursor = cur
  BY <1>1 DEF LoopFields
<1>3. /\ D.running = C.running /\ D.status = C.status /\ D.shielded = C.shielded
      /\ D.trove = C.trove /\ D.snap = C.snap /\ D.rw = C.rw /\ D.active = C.active
      /\ D.default = C.default /\ D.surplus = C.surplus /\ D.closed = C.closed
  BY <1>1 DEF LoopFields
<1> QED
  BY <1>2, <1>3, Zenon DEF IsCounted, left, red, drawn, cur

\* From L to E a lot of x for y is taken from trove b: A with its rewards applied, C taken.
IsLotOf(E, C, A, L, b, s, coll, x, y, last) ==
  /\ SameRest(A, L) /\ LoopBooks(A) /\ A.trove[b] \in Troves
  /\ \A c \in Borrowers \ {b} : SameOwner(A, L, c)
  /\ coll \in Nat /\ Taken(C, A, b, coll)
  /\ x \in Nat /\ x <= L.left /\ y \in Nat /\ y = A.trove[b].coll - coll
  /\ IsCounted(E, C, s, x, y, last)

\* Counting the lot restores the invariant of the loop.
LEMMA CountedLoop ==
  ASSUME BranchInv, NEW order \in Orders, NEW p, NEW L, LoopOK(L, order, p), L.running,
         NEW s \in BOOLEAN, L.cursor[s] # 0, NEW b, b = order[s][L.cursor[s]],
         NEW A, NEW C, NEW E, NEW coll, NEW x, NEW y, IsLotOf(E, C, A, L, b, s, coll, x, y, Len(order[s]))
  PROVE  LoopOK(E, order, p)
<1>0. /\ SameRest(A, L) /\ LoopBooks(A) /\ A.trove[b] \in Troves
      /\ \A c \in Borrowers \ {b} : SameOwner(A, L, c)
      /\ coll \in Nat /\ Taken(C, A, b, coll)
      /\ x \in Nat /\ x <= L.left /\ y \in Nat /\ y = A.trove[b].coll - coll
      /\ IsCounted(E, C, s, x, y, Len(order[s]))
  BY Zenon DEF IsLotOf
<1> DEFINE n == Len(order[s])
           c == L.cursor[s]
<1>20. x \in Nat /\ y \in Nat /\ coll \in Nat
  BY <1>0, Zenon
<1>1. /\ L.left \in Nat /\ L.left + Both(L.LUSDToRedeem) = p.amount /\ L.cursor \in [BOOLEAN -> Nat]
      /\ Untouched(L, order)
  BY DEF LoopOK, LoopTyped
<1>2. /\ A.left = L.left /\ A.cursor = L.cursor /\ A.running = L.running /\ A.status = L.status
      /\ A.LUSDToRedeem = L.LUSDToRedeem /\ A.collDrawn = L.collDrawn
  BY <1>0, Zenon DEF SameRest
<1>3. /\ A.LUSDToRedeem \in [BOOLEAN -> Nat] /\ A.collDrawn \in [BOOLEAN -> Nat]
      /\ BothColl(A.active) = Total(CollOf(A.trove)) + Both(A.collDrawn)
      /\ PoolsOK(A.active, A.default) /\ AccountsOK(A.trove, A.snap, A.rw, A.surplus)
  BY <1>0, Zenon DEF LoopBooks
<1>4. /\ SameWork(C, A) /\ OwnersOK(C.status, C.shielded)
      /\ AccountsOK(C.trove, C.snap, C.rw, C.surplus) /\ PoolsOK(C.active, C.default)
      /\ C.rw.L_Coll = rw.L_Coll /\ C.rw.L_LUSDDebt = rw.L_LUSDDebt
      /\ C.closed \in Nat
      /\ Cardinality(ActiveIn(C.status)) + C.closed = Cardinality(ActiveIn(status))
      /\ \A d \in Borrowers \ {b} : SameOwner(C, A, d)
  BY <1>0, Zenon DEF Taken
<1>5. BothColl(C.active) - Total(CollOf(C.trove))
        = BothColl(A.active) - Total(CollOf(A.trove)) + A.trove[b].coll - coll
  BY <1>0, Zenon DEF Taken
<1>6. /\ C.left = L.left /\ C.cursor = L.cursor /\ C.running = L.running
      /\ C.LUSDToRedeem = L.LUSDToRedeem /\ C.collDrawn = L.collDrawn
  BY <1>2, <1>4, Zenon DEF SameWork
<1>7. /\ E.left = L.left - x
      /\ E.LUSDToRedeem = [L.LUSDToRedeem EXCEPT ![s] = @ + x]
      /\ E.collDrawn = [L.collDrawn EXCEPT ![s] = @ + y]
      /\ E.cursor = [L.cursor EXCEPT ![s] = IF @ = n THEN 0 ELSE @ + 1]
      /\ E.status = C.status /\ E.shielded = C.shielded
      /\ E.trove = C.trove /\ E.snap = C.snap /\ E.rw = C.rw /\ E.active = C.active
      /\ E.default = C.default /\ E.surplus = C.surplus /\ E.closed = C.closed
  BY <1>0, <1>6, Zenon DEF IsCounted
<1>8. /\ E.LUSDToRedeem \in [BOOLEAN -> Nat] /\ Both(E.LUSDToRedeem) = Both(L.LUSDToRedeem) + x
      /\ E.collDrawn \in [BOOLEAN -> Nat] /\ Both(E.collDrawn) = Both(L.collDrawn) + y
      /\ Both(L.LUSDToRedeem) \in Int /\ Both(L.collDrawn) \in Int
  <2> DEFINE f == L.LUSDToRedeem
             g == L.collDrawn
  <2>1. f \in [BOOLEAN -> Nat] /\ g \in [BOOLEAN -> Nat]
    BY <1>2, <1>3
  <2>2. E.LUSDToRedeem = [f EXCEPT ![s] = @ + x] /\ E.collDrawn = [g EXCEPT ![s] = @ + y]
    BY <1>7
  <2> HIDE DEF f, g
  <2>3. /\ [f EXCEPT ![s] = @ + x] \in [BOOLEAN -> Nat] /\ Both([f EXCEPT ![s] = @ + x]) = Both(f) + x
        /\ [g EXCEPT ![s] = @ + y] \in [BOOLEAN -> Nat] /\ Both([g EXCEPT ![s] = @ + y]) = Both(g) + y
    BY <1>20, <2>1, BothChange, Zenon
  <2>4. Both(f) \in Int /\ Both(g) \in Int
    BY <2>1, BothNat, Zenon
  <2> QED
    BY <2>2, <2>3, <2>4, Zenon DEF f, g
<1>9. E.left \in Nat /\ E.left + Both(E.LUSDToRedeem) = p.amount
  <2> DEFINE f == Both(L.LUSDToRedeem)
             g == Both(E.LUSDToRedeem)
             l == L.left
             m == E.left
  <2>1. l \in Nat /\ l + f = p.amount /\ m = l - x /\ g = f + x /\ f \in Int /\ x <= l
    BY <1>0, <1>1, <1>7, <1>8, Zenon
  <2> HIDE DEF f, g, l, m
  <2>2. m \in Nat /\ m + g = p.amount
    BY <1>20, <2>1
  <2> QED
    BY <2>2, Zenon DEF g, m
<1>10. BothColl(E.active) = Total(CollOf(E.trove)) + Both(E.collDrawn)
  <2>1. Total(CollOf(A.trove)) \in Int /\ Total(CollOf(C.trove)) \in Int
    BY <1>3, <1>4, TotalsTyped DEF AccountsOK
  <2>2. BothColl(A.active) \in Int /\ BothColl(C.active) \in Int
    BY <1>3, <1>4, BothTyped DEF PoolsOK
  <2>3. A.trove[b].coll \in Int
    <3>1. A.trove[b] \in Troves
      BY <1>0, Zenon
    <3> QED
      BY <3>1 DEF Troves
  <2>4. BothColl(C.active) = Total(CollOf(C.trove)) + Both(E.collDrawn)
    <3> DEFINE a == BothColl(A.active)
               at == Total(CollOf(A.trove))
               e == BothColl(C.active)
               et == Total(CollOf(C.trove))
               f == Both(L.collDrawn)
               g == Both(E.collDrawn)
               t == A.trove[b].coll
    <3>1. /\ a \in Int /\ at \in Int /\ e \in Int /\ et \in Int /\ f \in Int /\ t \in Int
          /\ a = at + f /\ e - et = a - at + t - coll /\ y = t - coll /\ g = f + y
      BY <1>0, <1>2, <1>3, <1>5, <1>8, <2>1, <2>2, <2>3, Zenon
    <3> HIDE DEF a, at, e, et, f, g, t
    <3>2. e = et + g
      BY <1>20, <3>1
    <3> QED
      BY <3>2, Zenon DEF e, et, g
  <2> QED
    BY <1>7, <2>4, Zenon
<1>11. LoopBooks(E)
  BY <1>4, <1>7, <1>8, <1>10, Zenon DEF LoopBooks
<1>12. /\ n \in Nat /\ DOMAIN order[s] = 1..n
       /\ \A i, j \in 1..n : order[s][i] = order[s][j] => i = j
  BY OrderFacts
<1>13. c \in 1..n /\ b = order[s][c] /\ shielded[b] = s
  <2>1. c \in DOMAIN order[s]
    BY <1>1 DEF Untouched
  <2> QED
    BY <1>12, <2>1, OrderFacts
<1>14. E.cursor \in [BOOLEAN -> Nat] /\ E.cursor[~s] = L.cursor[~s]
       /\ E.cursor[s] = IF c = n THEN 0 ELSE c + 1
  <2> DEFINE new == IF c = n THEN 0 ELSE c + 1
  <2>1. new \in Nat
    BY <1>12, <1>13
  <2>2. E.cursor = [L.cursor EXCEPT ![s] = new]
    BY <1>7
  <2> HIDE DEF new
  <2>3. E.cursor \in [BOOLEAN -> Nat] /\ E.cursor[~s] = L.cursor[~s] /\ E.cursor[s] = new
    BY <1>1, <2>1, <2>2, Zenon
  <2> QED
    BY <2>3 DEF new
<1> HIDE DEF c, n
<1>15. \A d \in Borrowers \ {b} : SameOwner(E, L, d)
  <2>1. ASSUME NEW d \in Borrowers \ {b}
        PROVE  SameOwner(E, L, d)
    <3>1. SameOwner(C, A, d) /\ SameOwner(A, L, d)
      BY <1>0, <1>4, Zenon
    <3> QED
      BY <1>7, <3>1, Zenon DEF SameOwner
  <2> QED
    BY <2>1
<1>16. Untouched(E, order)
  <2>1. SUFFICES ASSUME NEW z \in BOOLEAN, E.cursor[z] # 0
                 PROVE  /\ E.cursor[z] \in DOMAIN order[z]
                        /\ \A i \in DOMAIN order[z] : i >= E.cursor[z] => Fresh(E, order[z][i])
    BY DEF Untouched
  <2>2. ASSUME NEW d \in Borrowers, d # b, Fresh(L, d)
        PROVE  Fresh(E, d)
    BY <1>15, <2>2, Zenon DEF Fresh, SameOwner
  <2>3. CASE z = s
    <3>1. E.cursor[z] = c + 1 /\ c # n
      BY <1>14, <2>1, <2>3
    <3>2. c + 1 \in 1..n
      BY <1>12, <1>13, <3>1
    <3>3. ASSUME NEW i \in DOMAIN order[z], i >= c + 1
          PROVE  Fresh(E, order[z][i])
      <4>1. i \in 1..n /\ i >= c /\ i # c
        BY <1>12, <1>13, <2>3, <3>3
      <4>2. order[s][i] # b
        BY <1>12, <1>13, <4>1
      <4>3. order[s][i] \in Borrowers
        BY <4>1, OrderFacts DEF n
      <4>4. Fresh(L, order[s][i])
        BY <1>1, <1>12, <4>1 DEF Untouched, c
      <4> QED
        BY <2>2, <2>3, <4>2, <4>3, <4>4
    <3> QED
      BY <1>12, <2>3, <3>1, <3>2, <3>3
  <2>4. CASE z # s
    <3>1. z = ~s
      BY <2>4
    <3>2. E.cursor[z] = L.cursor[z]
      BY <1>14, <3>1, Zenon
    <3>3. L.cursor[z] \in DOMAIN order[z]
      BY <1>1, <2>1, <3>2 DEF Untouched
    <3>4. ASSUME NEW i \in DOMAIN order[z], i >= E.cursor[z]
          PROVE  Fresh(E, order[z][i])
      <4>1. order[z][i] \in Borrowers /\ shielded[order[z][i]] = z
        BY OrderFacts
      <4>2. order[z][i] # b
        BY <1>13, <2>4, <4>1, Zenon
      <4>3. Fresh(L, order[z][i])
        BY <1>1, <2>1, <3>2, <3>4 DEF Untouched
      <4> QED
        BY <2>2, <4>1, <4>2, <4>3
    <3> QED
      BY <3>2, <3>3, <3>4, Zenon
  <2> QED
    BY <2>3, <2>4
<1> QED
  BY <1>9, <1>11, <1>14, <1>16, Zenon DEF LoopOK, LoopTyped

\* A loop that stops.
LEMMA StoppedLoop ==
  ASSUME NEW A, DOMAIN A = LoopFields, NEW p, NEW order, A.ok => LoopTyped(A, p),
         NEW E, E = [A EXCEPT !.running = FALSE]
  PROVE  LoopInv(E, order, p)
<1>1. DOMAIN E = LoopFields /\ E.ok = A.ok /\ E.running = FALSE
  BY DEF LoopFields
<1>2. /\ E.left = A.left /\ E.cursor = A.cursor /\ E.status = A.status /\ E.shielded = A.shielded
      /\ E.trove = A.trove /\ E.snap = A.snap /\ E.rw = A.rw
  BY DEF LoopFields
<1>3. /\ E.active = A.active /\ E.default = A.default
      /\ E.surplus = A.surplus /\ E.closed = A.closed
      /\ E.LUSDToRedeem = A.LUSDToRedeem /\ E.collDrawn = A.collDrawn
  BY DEF LoopFields
<1>4. ASSUME E.ok
      PROVE  LoopOK(E, order, p)
  <2>1. LoopTyped(A, p)
    BY <1>1, <1>4, Zenon
  <2>2. LoopBooks(E)
    BY <1>2, <1>3, <2>1, Zenon DEF LoopBooks, LoopTyped
  <2> QED
    BY <1>1, <1>2, <1>3, <2>1, <2>2, Zenon DEF LoopOK, LoopTyped
<1> QED
  BY <1>1, <1>4, Zenon DEF LoopInv

\* One trove is redeemed.
LEMMA RedeemedTrove ==
  ASSUME BranchInv, NEW order \in Orders, NEW p, Asked(p), NEW L, DOMAIN L = LoopFields,
         LoopOK(L, order, p), L.running, NEW s \in BOOLEAN, L.cursor[s] # 0,
         NEW b, b = order[s][L.cursor[s]],
         NEW E, E = _redeemCollateralFromTrove(Applied(L, b, s), b, s, Len(order[s]), p)
  PROVE  LoopInv(E, order, p)
<1> DEFINE A == Applied(L, b, s)
           t == A.trove[b]
           lot == LotOf(t, s, A.left, p)
           x == lot.LUSD
           y == lot.coll
           newDebt == t.debt - NormalizedLot(x, rate[s])
           newColl == t.coll - y
           closes == _actualDebt(newDebt, rate[s]) <= LUSD_GAS_COMPENSATION
           C == IF closes THEN ClosedByRedemption(A, b, s, newColl)
                ELSE PartlyRedeemed(A, b, newDebt, newColl)
           last == Len(order[s])
           D == Advanced(C, s, lot, last)
           k == /\ D.ok /\ _actualDebt(t.debt, rate[s]) >= LUSD_GAS_COMPENSATION
                /\ newDebt >= 0 /\ newColl >= 0
<1>1. E = IF ~closes /\ Cancelled(newDebt, s, p) THEN [A EXCEPT !.running = FALSE]
          ELSE [D EXCEPT !.ok = k]
  BY Zenon DEF _redeemCollateralFromTrove
<1>2. LoopTyped(L, p) /\ Untouched(L, order) /\ LoopBooks(L)
  BY DEF LoopOK, LoopTyped
<1>3. b \in Borrowers /\ L.trove[b] = trove[b] /\ L.status[b] = "active"
  <2>1. L.cursor[s] \in DOMAIN order[s] /\ L.cursor[s] >= L.cursor[s]
    BY <1>2 DEF Untouched, LoopTyped
  <2>2. L.trove[b] = trove[b] /\ L.status[b] = "active"
    BY <1>2, <2>1 DEF Untouched, Fresh
  <2> QED
    BY <2>1, <2>2, OrderFacts
<1>4. DOMAIN A = LoopFields /\ SameRest(A, L)
  <2>1. A = Applied(L, b, s)
    OBVIOUS
  <2> HIDE DEF A
  <2> QED
    BY <2>1, AppliedShape
<1>5. ASSUME A.ok
      PROVE  /\ LoopBooks(A) /\ t \in Troves /\ t.stake = trove[b].stake
             /\ \A c \in Borrowers \ {b} : SameOwner(A, L, c)
  <2>1. CanApply(A, L, b, s)
    BY <1>2, <1>3, Zenon DEF CanApply
  <2> HIDE DEF A
  <2>2. OnceApplied(A, L, b)
    BY <1>5, <2>1, AppliedLoop
  <2> QED
    BY <2>2, Zenon DEF OnceApplied
<1> HIDE DEF A
<1>6. A.ok => LoopTyped(A, p)
  BY <1>2, <1>4, <1>5, Zenon DEF SameRest, LoopTyped
<1>7. CASE ~closes /\ Cancelled(newDebt, s, p)
  <2>1. E = [A EXCEPT !.running = FALSE]
    BY <1>1, <1>7, Zenon
  <2> QED
    BY <1>4, <1>6, <2>1, StoppedLoop
<1>8. CASE ~(~closes /\ Cancelled(newDebt, s, p))
  <2>1. E = [D EXCEPT !.ok = k]
    BY <1>1, <1>8, Zenon
  <2>2. DOMAIN C = LoopFields
    <3>1. DOMAIN ClosedByRedemption(A, b, s, newColl) = LoopFields
      <4> HIDE DEF newColl
      <4>1. IsClosed(ClosedByRedemption(A, b, s, newColl), A, b, s, newColl,
                     NormDown(LUSD_GAS_COMPENSATION, rate[s]))
        BY <1>4, ClosedShape
      <4> QED
        BY <4>1 DEF IsClosed
    <3>2. DOMAIN PartlyRedeemed(A, b, newDebt, newColl) = LoopFields
      <4> HIDE DEF newColl, newDebt
      <4>1. IsPartly(PartlyRedeemed(A, b, newDebt, newColl), A, b, newDebt, newColl,
                     _computeNewStake(newColl))
        BY <1>4, PartlyShape
      <4> QED
        BY <4>1 DEF IsPartly
    <3> QED
      BY <3>1, <3>2, Zenon
  <2>3. IsCounted(E, C, s, x, y, last) /\ E.ok = k /\ D.ok = C.ok
    <3> HIDE DEF C, lot, last, k
    <3>1. IsCounted(D, C, s, x, y, last) /\ D.ok = C.ok
      BY <2>2, CountedShape
    <3> HIDE DEF D, x, y
    <3>2. DOMAIN D = LoopFields
      BY <3>1, Zenon DEF IsCounted
    <3>3. E.ok = k
      BY <2>1, <3>2 DEF LoopFields
    <3>4. /\ DOMAIN E = LoopFields /\ E.left = D.left /\ E.LUSDToRedeem = D.LUSDToRedeem
          /\ E.collDrawn = D.collDrawn /\ E.cursor = D.cursor /\ E.running = D.running
          /\ E.status = D.status /\ E.shielded = D.shielded
      BY <2>1, <3>2 DEF LoopFields
    <3>5. /\ E.trove = D.trove /\ E.snap = D.snap /\ E.rw = D.rw /\ E.active = D.active
          /\ E.default = D.default /\ E.surplus = D.surplus /\ E.closed = D.closed
      BY <2>1, <3>2 DEF LoopFields
    <3> QED
      BY <3>1, <3>3, <3>4, <3>5, ZenonT(30) DEF IsCounted
  <2>4. ASSUME k
        PROVE  LoopOK(E, order, p)
    <3>1. C.ok /\ _actualDebt(t.debt, rate[s]) >= LUSD_GAS_COMPENSATION /\ newDebt >= 0 /\ newColl >= 0
      BY <2>3, <2>4, Zenon
    <3>2. A.ok
      <4> HIDE DEF newColl, newDebt
      <4>1. CASE closes
        BY <1>4, <3>1, <4>1, ClosedCovered
      <4>2. CASE ~closes
        BY <1>4, <3>1, <4>2, PartlyCovered
      <4> QED
        BY <4>1, <4>2, Zenon
    <3>3. /\ LoopBooks(A) /\ t \in Troves /\ t.stake = trove[b].stake
          /\ \A c \in Borrowers \ {b} : SameOwner(A, L, c)
      BY <1>5, <3>2
    <3>4. A.left = L.left /\ L.left \in Nat /\ A.status[b] = "active"
      BY <1>2, <1>3, <1>4, Zenon DEF SameRest, LoopTyped
    <3>5. x \in Nat /\ x <= L.left /\ y \in Nat
      <4> DEFINE left == A.left
      <4>1. left \in Nat /\ left = L.left
        BY <3>4
      <4> HIDE DEF left, t
      <4>2. LotOf(t, s, left, p).LUSD \in Nat /\ LotOf(t, s, left, p).LUSD <= left /\ LotOf(t, s, left, p).coll \in Nat
        BY <3>1, <3>3, <4>1, LotTyped
      <4> QED
        BY <4>1, <4>2, Zenon DEF left
    <3>6. newDebt \in Nat /\ newColl \in Nat /\ y = t.coll - newColl
      <4> DEFINE q == rate[s]
      <4>1. q \in Nat \ {0}
        BY RatesPositive DEF BranchInv
      <4> HIDE DEF q
      <4>2. NormalizedLot(x, q) \in Nat
        <5> HIDE DEF t
        <5>1. NormDown(x, q) \in Nat
          BY <3>5, <4>1, Conversions
        <5> QED
          BY <5>1 DEF NormalizedLot
      <4>3. t.debt \in Nat /\ t.coll \in Nat
        BY <3>3 DEF Troves
      <4> HIDE DEF t, x, y
      <4>4. newDebt = t.debt - NormalizedLot(x, q)
        BY Zenon DEF q
      <4> HIDE DEF newDebt
      <4> QED
        BY <3>1, <3>5, <4>2, <4>3, <4>4
    <3>7. AtTrove(A, b)
      BY <1>4, <3>3, <3>4, Zenon DEF AtTrove
    <3>8. Taken(C, A, b, newColl)
      <4> HIDE DEF newDebt, newColl
      <4>1. CASE closes
        <5>1. C = ClosedByRedemption(A, b, s, newColl)
          BY <4>1, Zenon
        <5> HIDE DEF C
        <5> QED
          BY <1>3, <3>1, <3>6, <3>7, <5>1, ClosedLoop
      <4>2. CASE ~closes
        <5>1. C = PartlyRedeemed(A, b, newDebt, newColl)
          BY <4>2, Zenon
        <5> HIDE DEF C
        <5> QED
          BY <1>3, <3>1, <3>6, <3>7, <5>1, PartlyLoop
      <4> QED
        BY <4>1, <4>2, Zenon
    <3>9. y = A.trove[b].coll - newColl /\ A.trove[b] \in Troves
      BY <3>3, <3>6
    <3> HIDE DEF C, x, y, newColl, t
    <3> QED
      <4>1. IsLotOf(E, C, A, L, b, s, newColl, x, y, Len(order[s]))
        BY <1>4, <2>3, <3>3, <3>5, <3>6, <3>8, <3>9, Zenon DEF last, IsLotOf
      <4> QED
        BY <4>1, CountedLoop
  <2>5. DOMAIN E = LoopFields
    BY <2>3, Zenon DEF IsCounted
  <2>6. E.ok => LoopOK(E, order, p)
    <3> HIDE DEF k
    <3> QED
      BY <2>3, <2>4, Zenon
  <2> QED
    BY <2>5, <2>6 DEF LoopInv
<1> QED
  BY <1>7, <1>8, Zenon

\* An iteration stops the loop, or redeems the trove at one of the cursors.
LEMMA IterateCases ==
  ASSUME NEW order, NEW p, NEW L, NEW E, E = Iterate(L, order, p)
  PROVE  \/ E = [L EXCEPT !.running = FALSE]
         \/ /\ L.running /\ L.ok
            /\ \E s \in BOOLEAN : \E b :
                 /\ L.cursor[s] # 0 /\ b = order[s][L.cursor[s]]
                 /\ E = _redeemCollateralFromTrove(Applied(L, b, s), b, s, Len(order[s]), p)
<1> DEFINE icr(z) == getCurrentICR(order[z][L.cursor[z]], rate, p.price)
           candidates == {z \in BOOLEAN : L.cursor[z] # 0 /\ Eligible(z, icr(z)) /\ icr(z) # MaxUint}
           s == FALSE \notin candidates \/ (TRUE \in candidates /\ icr(TRUE) < icr(FALSE))
           b == order[s][L.cursor[s]]
           stops == ~L.running \/ ~L.ok \/ L.left = 0 \/ candidates = {}
<1>1. E = IF stops THEN [L EXCEPT !.running = FALSE]
          ELSE _redeemCollateralFromTrove(Applied(L, b, s), b, s, Len(order[s]), p)
  BY Zenon DEF Iterate
<1>3. CASE stops
  BY <1>1, <1>3, Zenon
<1>4. CASE ~stops
  <2>1. E = _redeemCollateralFromTrove(Applied(L, b, s), b, s, Len(order[s]), p)
    BY <1>1, <1>4, Zenon
  <2>2. L.running /\ L.ok /\ candidates # {}
    BY <1>4, Zenon
  <2>3. candidates \subseteq BOOLEAN /\ \A z \in candidates : L.cursor[z] # 0
    BY Zenon
  <2> DEFINE lower == icr(TRUE) < icr(FALSE)
  <2>4. s = (FALSE \notin candidates \/ (TRUE \in candidates /\ lower)) /\ s \in BOOLEAN
    BY Zenon
  <2> HIDE DEF candidates, lower, s
  <2>5. s \in candidates
    <3>1. CASE FALSE \notin candidates
      <4>1. TRUE \in candidates
        BY <2>2, <2>3, <3>1, Zenon
      <4>2. s = TRUE
        BY <2>4, <3>1, Zenon
      <4> QED
        BY <4>1, <4>2, Zenon
    <3>2. CASE FALSE \in candidates
      <4>1. CASE TRUE \in candidates /\ lower
        <5>1. s = TRUE
          BY <2>4, <4>1, Zenon
        <5> QED
          BY <4>1, <5>1, Zenon
      <4>2. CASE ~(TRUE \in candidates /\ lower)
        <5>1. s = FALSE
          BY <2>4, <3>2, <4>2, Zenon
        <5> QED
          BY <3>2, <5>1, Zenon
      <4> QED
        BY <4>1, <4>2, Zenon
    <3> QED
      BY <3>1, <3>2, Zenon
  <2>6. s \in BOOLEAN /\ L.cursor[s] # 0 /\ b = order[s][L.cursor[s]]
    BY <2>3, <2>5, Zenon
  <2> HIDE DEF b
  <2> QED
    BY <2>1, <2>2, <2>6, Zenon
<1> QED
  BY <1>3, <1>4, Zenon

\* One iteration keeps the invariant of the loop.
LEMMA IterateStep ==
  ASSUME BranchInv, NEW order \in Orders, NEW p, Asked(p), NEW L, LoopInv(L, order, p),
         NEW E, E = Iterate(L, order, p)
  PROVE  LoopInv(E, order, p)
<1>1. DOMAIN L = LoopFields /\ (L.ok => LoopOK(L, order, p))
  BY DEF LoopInv
<1>2. CASE E = [L EXCEPT !.running = FALSE]
  <2>1. L.ok => LoopTyped(L, p)
    BY <1>1, Zenon DEF LoopOK
  <2> QED
    BY <1>1, <1>2, <2>1, StoppedLoop
<1>3. CASE E # [L EXCEPT !.running = FALSE]
  <2>1. /\ L.running /\ L.ok
        /\ \E s \in BOOLEAN : \E b :
             /\ L.cursor[s] # 0 /\ b = order[s][L.cursor[s]]
             /\ E = _redeemCollateralFromTrove(Applied(L, b, s), b, s, Len(order[s]), p)
    BY <1>3, IterateCases
  <2>s. PICK s \in BOOLEAN : \E b :
          /\ L.cursor[s] # 0 /\ b = order[s][L.cursor[s]]
          /\ E = _redeemCollateralFromTrove(Applied(L, b, s), b, s, Len(order[s]), p)
    BY <2>1, Zenon
  <2>2. PICK b :
          /\ L.cursor[s] # 0 /\ b = order[s][L.cursor[s]]
          /\ E = _redeemCollateralFromTrove(Applied(L, b, s), b, s, Len(order[s]), p)
    BY <2>s, Zenon
  <2>3. LoopOK(L, order, p)
    BY <1>1, <2>1, Zenon
  <2> QED
    BY <1>1, <2>1, <2>2, <2>3, RedeemedTrove
<1> QED
  BY <1>2, <1>3

\* The loop starts with the invariant.
LEMMA LoopStarts ==
  ASSUME BranchInv, NEW order \in Orders, NEW p, Asked(p), NEW L, L = LoopStart(order, p)
  PROVE  LoopInv(L, order, p)
<1> DEFINE zero == [s \in BOOLEAN |-> 0]
           cur == [s \in BOOLEAN |-> Seed(order[s], s, p.hint, p.price)]
<1>1. L = [left |-> p.amount, cursor |-> cur,
           running |-> TRUE, ok |-> TRUE,
           status |-> status, shielded |-> shielded, trove |-> trove, snap |-> snap, rw |-> rw,
           active |-> active, default |-> default, surplus |-> surplus, closed |-> 0,
           LUSDToRedeem |-> zero, collDrawn |-> zero]
  BY Zenon DEF LoopStart
<1>2. zero \in [BOOLEAN -> Nat] /\ Both(zero) = 0
  <2>1. zero \in [BOOLEAN -> Nat] /\ zero[TRUE] = 0 /\ zero[FALSE] = 0
    OBVIOUS
  <2> HIDE DEF zero
  <2> QED
    BY <2>1 DEF Both
<1>3. ASSUME NEW s \in BOOLEAN
      PROVE  cur[s] = 0 \/ cur[s] \in DOMAIN order[s]
  <2> DEFINE q == order[s]
             n == Len(q)
  <2>1. n \in Nat /\ DOMAIN q = 1..n
    BY OrderFacts
  <2>2. cur[s] = Seed(q, s, p.hint, p.price)
    BY Zenon
  <2> HIDE DEF q, n
  <2>3. Seed(q, s, p.hint, p.price) = 0 \/ Seed(q, s, p.hint, p.price) \in DOMAIN q
    BY <2>1, SeedTyped
  <2> QED
    BY <2>2, <2>3, Zenon DEF q
<1>4. cur \in [BOOLEAN -> Nat]
  <2>1. ASSUME NEW s \in BOOLEAN
        PROVE  cur[s] \in Nat
    <3>1. Len(order[s]) \in Nat /\ DOMAIN order[s] = 1..Len(order[s])
      BY OrderFacts
    <3> HIDE DEF cur
    <3> QED
      BY <1>3, <3>1
  <2>2. cur = [s \in BOOLEAN |-> cur[s]]
    BY Zenon
  <2> HIDE DEF cur
  <2> QED
    BY <2>1, <2>2, Zenon
<1> HIDE DEF zero, cur
<1>5. /\ DOMAIN L = LoopFields /\ L.left = p.amount /\ L.cursor = cur /\ L.status = status
      /\ L.shielded = shielded /\ L.trove = trove /\ L.snap = snap /\ L.rw = rw
  BY <1>1 DEF LoopFields
<1>6. /\ L.active = active /\ L.default = default /\ L.surplus = surplus /\ L.closed = 0
      /\ L.LUSDToRedeem = zero /\ L.collDrawn = zero
  BY <1>1
<1>7. LoopBooks(L)
  <2>1. /\ OwnersOK(status, shielded) /\ AccountsOK(trove, snap, rw, surplus)
        /\ PoolsOK(active, default) /\ BothColl(active) = Total(CollOf(trove))
    BY DEF BranchInv
  <2>2. Total(CollOf(trove)) + 0 = Total(CollOf(trove))
    BY <2>1, TotalsTyped DEF AccountsOK
  <2>3. Cardinality(ActiveIn(status)) + 0 = Cardinality(ActiveIn(status)) /\ 0 \in Nat
    BY ActiveCount
  <2> QED
    BY <1>2, <1>5, <1>6, <2>1, <2>2, <2>3, Zenon DEF LoopBooks
<1>8. Untouched(L, order)
  <2>1. ASSUME NEW s \in BOOLEAN, NEW i \in DOMAIN order[s]
        PROVE  status[order[s][i]] = "active"
    BY OrderFacts
  <2> QED
    BY <1>3, <1>5, <1>6, <2>1, Zenon DEF Untouched, Fresh
<1>9. LoopTyped(L, p)
  <2>1. p.amount \in Nat /\ p.amount + 0 = p.amount
    BY DEF Asked
  <2> QED
    BY <1>2, <1>4, <1>5, <1>6, <1>7, <2>1, Zenon DEF LoopTyped
<1> QED
  BY <1>5, <1>8, <1>9, Zenon DEF LoopInv, LoopOK

\* The states of the loop, one after the other.
IsLoop(h, order, p, n) ==
  h = [i \in 0..n |-> IF i = 0 THEN LoopStart(order, p) ELSE Iterate(h[i - 1], order, p)]

\* The loop of a redemption is defined at every iteration.
LEMMA LoopExists ==
  ASSUME NEW order, NEW p, NEW n \in Nat
  PROVE  \E h : IsLoop(h, order, p, n)
<1> DEFINE T == {m \in 0..n : \E h : IsLoop(h, order, p, m)}
           start == LoopStart(order, p)
           Step(x) == Iterate(x, order, p)
<1>1. 0 \in T
  <2> DEFINE h == [k \in 0..0 |-> start]
  <2>1. h = [k \in 0..0 |-> IF k = 0 THEN start ELSE Step(h[k - 1])]
    <3> HIDE DEF start, Step
    <3> QED
      OBVIOUS
  <2>2. IsLoop(h, order, p, 0)
    <3> HIDE DEF h
    <3> QED
      BY <2>1, Zenon DEF IsLoop
  <2> QED
    BY <2>2
<1>2. ASSUME NEW m \in 0..n, m # n, m \in T
      PROVE  m + 1 \in T
  <2>1. PICK h : IsLoop(h, order, p, m)
    BY <1>2
  <2>2. h = [k \in 0..m |-> IF k = 0 THEN start ELSE Step(h[k - 1])]
    BY <2>1, Zenon DEF IsLoop
  <2> HIDE DEF start, Step
  <2> DEFINE g == [k \in 0..m + 1 |-> IF k = m + 1 THEN Step(h[m]) ELSE h[k]]
  <2>3. ASSUME NEW k \in 0..m + 1
        PROVE  g[k] = IF k = 0 THEN start ELSE Step(g[k - 1])
    <3>1. CASE k = m + 1
      <4>1. g[k] = Step(h[m]) /\ k # 0 /\ k - 1 = m
        BY <3>1
      <4>2. g[m] = h[m]
        OBVIOUS
      <4> QED
        BY <4>1, <4>2
    <3>2. CASE k # m + 1
      <4>1. k \in 0..m /\ g[k] = h[k]
        BY <3>2
      <4>2. h[k] = IF k = 0 THEN start ELSE Step(h[k - 1])
        BY <2>2, <4>1
      <4>3. k # 0 => g[k - 1] = h[k - 1]
        BY <4>1
      <4> HIDE DEF g
      <4> QED
        BY <4>1, <4>2, <4>3
    <3> QED
      BY <3>1, <3>2
  <2>4. g = [k \in 0..m + 1 |-> IF k = 0 THEN start ELSE Step(g[k - 1])]
    <3>1. g = [k \in 0..m + 1 |-> g[k]]
      BY Zenon
    <3> HIDE DEF g
    <3> QED
      BY <2>3, <3>1
  <2> HIDE DEF g
  <2>5. IsLoop(g, order, p, m + 1)
    BY <2>4, Zenon DEF IsLoop, start, Step
  <2>6. m + 1 \in 0..n
    BY <1>2
  <2> QED
    BY <2>5, <2>6
<1>3. \A m \in 0..n : m \in T
  <2> HIDE DEF T
  <2> QED
    BY <1>1, <1>2, UpToInduction
<1> QED
  BY <1>3

\* The loop of a redemption ends with the invariant.
LEMMA LoopEnds ==
  ASSUME BranchInv, NEW order \in Orders, NEW p, Asked(p), p.maxIterations \in Nat,
         NEW L, L = _runRedemptionLoop(order, p)
  PROVE  LoopInv(L, order, p)
<1> DEFINE n == MinOf(p.maxIterations, Cardinality(Active))
           h == CHOOSE g : IsLoop(g, order, p, n)
<1>1. L = h[n]
  BY Zenon DEF _runRedemptionLoop, Repeated, IsLoop
<1>2. n \in Nat
  <2>1. Cardinality(Active) \in Nat
    BY ActiveCount DEF Active, ActiveIn
  <2> QED
    BY <2>1, MinOfPair
<1> HIDE DEF n
<1>3. IsLoop(h, order, p, n)
  BY <1>2, LoopExists
<1> HIDE DEF h
<1>4. h = [i \in 0..n |-> IF i = 0 THEN LoopStart(order, p) ELSE Iterate(h[i - 1], order, p)]
  BY <1>3, Zenon DEF IsLoop
<1> DEFINE T == {i \in 0..n : LoopInv(h[i], order, p)}
<1>5. 0 \in T
  <2>1. h[0] = LoopStart(order, p) /\ 0 \in 0..n
    BY <1>2, <1>4
  <2> QED
    BY <2>1, LoopStarts
<1>6. ASSUME NEW m \in 0..n, m # n, m \in T
      PROVE  m + 1 \in T
  <2>1. m + 1 \in 0..n /\ m + 1 # 0 /\ m + 1 - 1 = m
    BY <1>2, <1>6
  <2>2. h[m + 1] = Iterate(h[m], order, p)
    BY <1>4, <2>1
  <2>3. LoopInv(h[m], order, p)
    BY <1>6
  <2>4. LoopInv(h[m + 1], order, p)
    BY <2>2, <2>3, IterateStep
  <2> QED
    BY <2>1, <2>4
<1>7. n \in T
  <2> HIDE DEF T
  <2>1. \A m \in 0..n : m \in T
    BY <1>2, <1>5, <1>6, UpToInduction
  <2> QED
    BY <1>2, <2>1
<1> QED
  BY <1>1, <1>7

\* A list from which nothing was redeemed has totals of zero.
LEMMA FinalizedAs ==
  ASSUME BranchInv, NEW L, LoopBooks(L), NoneForNothing(L), NEW s \in BOOLEAN
  PROVE  _finalizeRedemption(L)[s] =
           [debt |-> L.active[s].debt - NormDown(L.LUSDToRedeem[s], rate[s]),
            coll |-> L.active[s].coll - L.collDrawn[s]]
<1> DEFINE a == L.active[s]
           x == L.LUSDToRedeem[s]
           y == L.collDrawn[s]
           q == rate[s]
<1>1. a \in Balances /\ x \in Nat /\ y \in Nat /\ (x = 0 => y = 0)
  BY DEF LoopBooks, PoolsOK, NoneForNothing
<1>2. q \in Nat \ {0}
  BY RatesPositive DEF BranchInv
<1>3. _finalizeRedemption(L)[s] =
        IF x > 0 THEN [debt |-> a.debt - NormDown(x, q), coll |-> a.coll - y] ELSE a
  BY Zenon DEF _finalizeRedemption
<1> HIDE DEF a, x, y, q
<1>4. CASE x > 0
  BY <1>3, <1>4, Zenon DEF a, x, y, q
<1>5. CASE ~(x > 0)
  <2>1. x = 0 /\ y = 0
    BY <1>1, <1>5
  <2>2. NormDown(x, q) = 0
    BY <1>2, <2>1, UnitsAssumption DEF NormDown
  <2>3. a.debt - NormDown(x, q) = a.debt /\ a.coll - y = a.coll
    BY <1>1, <2>1, <2>2 DEF Balances
  <2>4. a = [debt |-> a.debt, coll |-> a.coll]
    BY <1>1 DEF Balances
  <2>5. _finalizeRedemption(L)[s] = a
    BY <1>3, <1>5, Zenon
  <2> QED
    BY <2>3, <2>4, <2>5, Zenon DEF a, x, y, q
<1> QED
  BY <1>4, <1>5

\* The pools after the loop's totals have left them.
LEMMA Finalized ==
  ASSUME BranchInv, NEW L, LoopBooks(L), NoneForNothing(L),
         NEW pools, pools = _finalizeRedemption(L),
         \A s \in BOOLEAN : pools[s].debt >= 0 /\ pools[s].coll >= 0
  PROVE  pools \in [BOOLEAN -> Balances] /\ BothColl(pools) = Total(CollOf(L.trove))
<1> DEFINE a == L.active
           f == L.collDrawn
           g == L.LUSDToRedeem
           Debt(s) == a[s].debt - NormDown(g[s], rate[s])
           Coll(s) == a[s].coll - f[s]
<1>1. /\ \A s \in BOOLEAN : pools[s] = [debt |-> Debt(s), coll |-> Coll(s)]
      /\ pools = [s \in BOOLEAN |-> pools[s]]
  <2>1. ASSUME NEW s \in BOOLEAN
        PROVE  pools[s] = [debt |-> Debt(s), coll |-> Coll(s)]
    BY FinalizedAs, Zenon
  <2>2. pools = [s \in BOOLEAN |-> pools[s]]
    BY Zenon DEF _finalizeRedemption
  <2> QED
    BY <2>1, <2>2
<1>2. /\ a \in [BOOLEAN -> Balances] /\ f \in [BOOLEAN -> Nat] /\ g \in [BOOLEAN -> Nat]
      /\ BothColl(a) = Total(CollOf(L.trove)) + Both(f)
      /\ L.trove \in [Borrowers -> Troves]
  BY DEF LoopBooks, PoolsOK, AccountsOK
<1> HIDE DEF a, f, g
<1>3. ASSUME NEW s \in BOOLEAN
      PROVE  /\ pools[s] \in Balances /\ pools[s].coll = a[s].coll - f[s]
             /\ a[s].coll \in Nat /\ f[s] \in Nat
  <2> DEFINE q == rate[s]
             x == g[s]
             y == f[s]
             u == a[s].debt
             v == a[s].coll
  <2>1. q \in Nat \ {0} /\ x \in Nat /\ y \in Nat /\ u \in Nat /\ v \in Nat
    BY <1>2, RatesPositive, BothTyped DEF BranchInv
  <2>2. pools[s] = [debt |-> u - NormDown(x, q), coll |-> v - y]
    BY <1>1, Zenon
  <2>3. pools[s].debt >= 0 /\ pools[s].coll >= 0
    OBVIOUS
  <2> HIDE DEF q, x, y, u, v
  <2>4. NormDown(x, q) \in Nat
    BY <2>1, Conversions
  <2> DEFINE o == pools[s]
             z == NormDown(x, q)
  <2>5. o = [debt |-> u - z, coll |-> v - y] /\ o.debt >= 0 /\ o.coll >= 0 /\ z \in Nat
    BY <2>2, <2>3, <2>4
  <2> HIDE DEF o, z
  <2>6. o \in Balances /\ o.coll = v - y
    BY <2>1, <2>5 DEF Balances
  <2> QED
    BY <2>1, <2>6, Zenon DEF o, v, y
<1>4. pools \in [BOOLEAN -> Balances]
  <2>1. pools = [s \in BOOLEAN |-> pools[s]]
    BY <1>1, Zenon
  <2> QED
    BY <1>3, <2>1, Zenon
<1>5. BothColl(pools) = BothColl(a) - Both(f)
  <2> DEFINE x == a[FALSE].coll
             y == a[TRUE].coll
             u == f[FALSE]
             v == f[TRUE]
  <2>1. /\ BothColl(a) = x + y /\ Both(f) = u + v /\ BothColl(pools) = (x - u) + (y - v)
        /\ x \in Nat /\ y \in Nat /\ u \in Nat /\ v \in Nat
    BY <1>3, Zenon DEF BothColl, Both
  <2> HIDE DEF x, y, u, v
  <2> QED
    BY <2>1
<1>6. Total(CollOf(L.trove)) \in Nat /\ Both(f) \in Nat
  BY <1>2, TotalsTyped, BothNat
<1> QED
  BY <1>2, <1>4, <1>5, <1>6

\* What a redeemer may ask for, before or after a shutdown.
LEMMA AskedOfBranch ==
  ASSUME NEW p \in RedemptionsAsked
  PROVE  Asked(p) /\ p.maxIterations \in Nat
<1>1. p.maxIterations \in {1, Cardinality(Borrowers)} /\ p.amount \in Redeemed /\ p.price \in Prices
  BY DEF RedemptionsAsked
<1>2. Cardinality(Borrowers) \in Nat
  BY FS_CardinalityType, FiniteBorrowers
<1>3. /\ RedemptionRates \subseteq 0..DECIMAL_PRECISION /\ Discounts \subseteq 0..DECIMAL_PRECISION - 1
      /\ Redeemed \subseteq Nat /\ Prices \subseteq Nat \ {0}
  BY InputsAssumption
<1>4. 0 \in 0..DECIMAL_PRECISION /\ 0 \in 0..DECIMAL_PRECISION - 1
  BY UnitsAssumption
<1>5. p.redemptionRate \in 0..DECIMAL_PRECISION
  <2>1. p.redemptionRate \in IF isShutdown THEN {0} ELSE RedemptionRates
    BY DEF RedemptionsAsked
  <2> QED
    BY <1>3, <1>4, <2>1, Zenon
<1>6. p.discount \in 0..DECIMAL_PRECISION - 1
  <2>1. p.discount \in IF isShutdown THEN Discounts ELSE {0}
    BY DEF RedemptionsAsked
  <2> QED
    BY <1>3, <1>4, <2>1, Zenon
<1>7. p.amount \in Nat /\ p.price \in Nat \ {0}
  BY <1>1, <1>3, Zenon
<1>8. p.maxIterations \in Nat
  BY <1>1, <1>2
<1> QED
  BY <1>5, <1>6, <1>7, <1>8, Zenon DEF Asked

\* l is left of the coins when burned are burned, and the gas of closed troves, count staying.
IsBurn(l, burned, gas, closed, count) ==
  /\ burned \in Nat /\ closed \in Nat /\ count \in Nat
  /\ burned <= Circulating(lusd) /\ count + closed = Cardinality(ActiveIn(status))
  /\ gas = closed * LUSD_GAS_COMPENSATION
  /\ l = [lusd EXCEPT !.supply = @ - burned - gas, !.gas = @ - gas]

\* The coins after a redemption has burned its part and the closed troves their compensations.
LEMMA BurnedCoins ==
  ASSUME BranchInv, NEW l, NEW burned, NEW gas, NEW closed, NEW count, IsBurn(l, burned, gas, closed, count)
  PROVE  CoinsOK(l) /\ l.gas = LUSD_GAS_COMPENSATION * count
<1>0. /\ burned \in Nat /\ closed \in Nat /\ count \in Nat
      /\ burned <= Circulating(lusd) /\ count + closed = Cardinality(ActiveIn(status))
      /\ gas = closed * LUSD_GAS_COMPENSATION
      /\ l = [lusd EXCEPT !.supply = @ - burned - gas, !.gas = @ - gas]
  BY Zenon DEF IsBurn
<1> DEFINE supply == lusd.supply - burned - gas
           rest == lusd.gas - gas
<1>1. CoinsOK(lusd) /\ lusd.gas = LUSD_GAS_COMPENSATION * Cardinality(ActiveIn(status))
  BY DEF BranchInv, Active, ActiveIn
<1>2. lusd \in Coins /\ lusd.pending <= lusd.deposits
  BY <1>1 DEF CoinsOK
<1>3. LUSD_GAS_COMPENSATION \in Nat
  BY UnitsAssumption
<1>4. gas \in Nat
  BY <1>0, <1>3
<1>5. rest = LUSD_GAS_COMPENSATION * count
  <2>1. LUSD_GAS_COMPENSATION * (count + closed) = LUSD_GAS_COMPENSATION * count + closed * LUSD_GAS_COMPENSATION
    BY <1>0, <1>3
  <2>2. LUSD_GAS_COMPENSATION * count \in Nat
    BY <1>0, <1>3
  <2> DEFINE a == LUSD_GAS_COMPENSATION * count
             b == LUSD_GAS_COMPENSATION * (count + closed)
  <2>3. a \in Nat /\ b = a + gas /\ lusd.gas = b
    BY <1>0, <1>1, <2>1, <2>2
  <2> HIDE DEF a, b
  <2>4. rest = a
    BY <1>4, <2>3
  <2> QED
    BY <2>4 DEF a
<1>6. l = [lusd EXCEPT !.supply = supply, !.gas = rest]
  BY <1>0, Zenon
<1>7. supply \in Int /\ rest \in Int /\ rest >= 0
  <2>1. LUSD_GAS_COMPENSATION * count \in Nat
    BY <1>0, <1>3
  <2>2. supply \in Int
    BY <1>0, <1>2, <1>4 DEF Coins
  <2> QED
    BY <1>5, <2>1, <2>2
<1>8. Circulating(lusd) = lusd.supply - lusd.gas - (lusd.deposits - lusd.pending)
  BY DEF Circulating
<1>9. /\ l \in IntCoins /\ l.supply = supply /\ l.gas = rest
      /\ l.deposits = lusd.deposits /\ l.pending = lusd.pending
  <2>1. lusd \in IntCoins
    BY <1>2 DEF Coins, IntCoins
  <2> HIDE DEF supply, rest
  <2> QED
    BY <1>6, <1>7, <2>1, Zenon DEF IntCoins
<1>10. Circulating(l) >= 0
  <2>1. Circulating(l) = supply - rest - (lusd.deposits - lusd.pending)
    BY <1>9, Zenon DEF Circulating
  <2>2. /\ lusd.supply \in Int /\ lusd.gas \in Int /\ lusd.deposits \in Int /\ lusd.pending \in Int
    BY <1>2 DEF Coins
  <2> QED
    BY <1>0, <1>4, <1>8, <2>1, <2>2
<1>11. l.gas >= 0 /\ l.pending >= 0 /\ l.pending <= l.deposits
  BY <1>2, <1>7, <1>9 DEF Coins
<1>12. CoinsOK(l)
  BY <1>9, <1>10, <1>11, CoinsEnough
<1> QED
  BY <1>5, <1>9, <1>12

\* redeemCollateral keeps the books.
LEMMA RedeemStep ==
  ASSUME BranchInv, NEW order \in Orders, NEW p \in RedemptionsAsked, redeemCollateral(order, p)
  PROVE  BranchInv'
<1> DEFINE L == _runRedemptionLoop(order, p)
           pools == _finalizeRedemption(L)
           burned == L.LUSDToRedeem[FALSE] + L.LUSDToRedeem[TRUE]
           gas == L.closed * LUSD_GAS_COMPENSATION
           l == [lusd EXCEPT !.supply = @ - burned - gas, !.gas = @ - gas]
<1>1. /\ Circulating(lusd) >= p.amount /\ L.ok /\ NoneForNothing(L)
      /\ \A s \in BOOLEAN : pools[s].debt >= 0 /\ pools[s].coll >= 0
      /\ status' = L.status /\ shielded' = L.shielded
      /\ trove' = L.trove /\ snap' = L.snap /\ rw' = L.rw
      /\ active' = pools /\ default' = L.default /\ surplus' = L.surplus
      /\ isShutdown' = isShutdown
  BY Zenon DEF redeemCollateral, CanRedeem
<1>2. \E d \in IF isShutdown THEN {NoDripOf(l)} ELSE DripsFrom(pools, L.default, l) :
        rate' = d.rate /\ lusd' = d.lusd
  BY Zenon DEF redeemCollateral
<1>3. Asked(p) /\ p.maxIterations \in Nat
  BY AskedOfBranch
<1>4. LoopInv(L, order, p)
  <2>1. L = _runRedemptionLoop(order, p)
    OBVIOUS
  <2> HIDE DEF L
  <2> QED
    BY <1>3, <2>1, LoopEnds
<1> HIDE DEF L
<1>5. LoopBooks(L) /\ L.left \in Nat /\ L.left + Both(L.LUSDToRedeem) = p.amount
  BY <1>1, <1>4, Zenon DEF LoopInv, LoopOK, LoopTyped
<1>6. pools \in [BOOLEAN -> Balances] /\ BothColl(pools) = Total(CollOf(L.trove))
  <2>1. pools = _finalizeRedemption(L)
    OBVIOUS
  <2> HIDE DEF pools
  <2> QED
    BY <1>1, <1>5, <2>1, Finalized
<1> HIDE DEF pools
<1>7. /\ OwnersOK(L.status, L.shielded) /\ AccountsOK(L.trove, L.snap, L.rw, L.surplus)
      /\ PoolsOK(L.active, L.default) /\ L.closed \in Nat
      /\ Cardinality(ActiveIn(L.status)) + L.closed = Cardinality(ActiveIn(status))
      /\ L.LUSDToRedeem \in [BOOLEAN -> Nat]
  BY <1>5, Zenon DEF LoopBooks
<1>8. PoolsOK(pools, L.default)
  BY <1>6, <1>7, Zenon DEF PoolsOK
<1>9. burned \in Nat /\ burned <= Circulating(lusd)
  <2>1. burned = Both(L.LUSDToRedeem) /\ Both(L.LUSDToRedeem) \in Nat
    BY <1>7, BothNat, Zenon DEF Both
  <2>2. Circulating(lusd) \in Int
    BY DEF BranchInv, CoinsOK, Coins, Circulating
  <2>3. p.amount \in Nat
    BY <1>3 DEF Asked
  <2> HIDE DEF burned
  <2> QED
    BY <1>1, <1>5, <2>1, <2>2, <2>3
<1> HIDE DEF burned
<1>10. CoinsOK(l) /\ l.gas = LUSD_GAS_COMPENSATION * Cardinality(ActiveIn(L.status))
  <2> DEFINE closed == L.closed
             count == Cardinality(ActiveIn(L.status))
  <2>1. count \in Nat
    BY ActiveCount
  <2>2. closed \in Nat /\ count + closed = Cardinality(ActiveIn(status))
    BY <1>7
  <2>3. gas = closed * LUSD_GAS_COMPENSATION /\ l = [lusd EXCEPT !.supply = @ - burned - gas, !.gas = @ - gas]
    OBVIOUS
  <2> HIDE DEF closed, count, gas, l
  <2>4. CoinsOK(l) /\ l.gas = LUSD_GAS_COMPENSATION * count
    <3>1. IsBurn(l, burned, gas, closed, count)
      BY <1>9, <2>1, <2>2, <2>3, Zenon DEF IsBurn
    <3> QED
      BY <3>1, BurnedCoins
  <2> QED
    BY <2>4 DEF count
<1> HIDE DEF l
<1>11. PICK d \in IF isShutdown THEN {NoDripOf(l)} ELSE DripsFrom(pools, L.default, l) :
         rate' = d.rate /\ lusd' = d.lusd
  BY <1>2, Zenon
<1>12. d.rate \in Rates /\ CoinsOK(d.lusd) /\ d.lusd.gas = l.gas
  <2>1. CASE isShutdown
    <3>1. d = NoDripOf(l)
      BY <2>1, Zenon
    <3>2. d.rate = rate /\ d.lusd = l
      BY <3>1 DEF NoDripOf
    <3> QED
      BY <1>10, <3>2 DEF BranchInv
  <2>2. CASE ~isShutdown
    <3>1. d \in DripsFrom(pools, L.default, l)
      BY <2>2, Zenon
    <3> QED
      BY <1>8, <1>10, <3>1, DripFields
  <2> QED
    BY <2>1, <2>2, Zenon
<1>13. isShutdown' \in BOOLEAN
  BY <1>1 DEF BranchInv
<1>14. lusd'.gas = LUSD_GAS_COMPENSATION * Cardinality(ActiveIn(status'))
  BY <1>1, <1>10, <1>11, <1>12, Zenon
<1> QED
  BY <1>1, <1>6, <1>7, <1>8, <1>11, <1>12, <1>13, <1>14, Zenon DEF BranchInv, Active, ActiveIn

-----------------------------------------------------------------------------
(***************************************************************************)
(* The theorems                                                            *)
(***************************************************************************)

\* A new branch has empty books.
LEMMA BranchStarts == BranchInit => BranchInv
<1> SUFFICES ASSUME BranchInit
             PROVE  BranchInv
  OBVIOUS
<1> DEFINE zero == [b \in Borrowers |-> 0]
           zeroPool == [debt |-> 0, coll |-> 0]
<1>1. /\ status = [b \in Borrowers |-> "nonExistent"] /\ shielded = [b \in Borrowers |-> FALSE]
      /\ isShutdown = FALSE
      /\ trove = [b \in Borrowers |-> NoTrove] /\ snap = [b \in Borrowers |-> NoSnap]
      /\ rw = [L_Coll |-> 0, L_LUSDDebt |-> 0, collError |-> 0, debtError |-> 0,
               totalStakes |-> 0, totalStakesSnapshot |-> 0, totalCollateralSnapshot |-> 0]
      /\ active = [s \in BOOLEAN |-> zeroPool] /\ default = zeroPool
      /\ surplus = [coll |-> 0, balances |-> zero]
      /\ rate = [s \in BOOLEAN |-> RATE_PRECISION]
      /\ lusd = [supply |-> 0, gas |-> 0, deposits |-> 0, pending |-> 0, fees |-> 0]
  BY Zenon DEF BranchInit, LedgerInit, NoTrove, NoSnap
<1>2. OwnersOK(status, shielded) /\ isShutdown \in BOOLEAN
  BY <1>1 DEF OwnersOK, Statuses
<1>3. NoTrove \in Troves /\ NoTrove.coll = 0 /\ NoTrove.stake = 0 /\ NoSnap \in Snaps
  BY DEF NoTrove, NoSnap, Troves, Snaps
<1>4. Total(CollOf(trove)) = 0 /\ Total(StakeOf(trove)) = 0 /\ Total(zero) = 0
  <2>1. \A b \in Borrowers : CollOf(trove)[b] = 0 /\ StakeOf(trove)[b] = 0 /\ zero[b] = 0
    BY <1>1, <1>3 DEF CollOf, StakeOf
  <2> HIDE DEF zero
  <2> QED
    BY <2>1, SumZero, FiniteBorrowers DEF Total
<1>5. AccountsOK(trove, snap, rw, surplus)
  <2>1. trove \in [Borrowers -> Troves] /\ snap \in [Borrowers -> Snaps]
    BY <1>1, <1>3, Zenon
  <2>2. rw \in RewardSums /\ rw.totalStakes = 0 /\ rw.L_Coll = 0 /\ rw.L_LUSDDebt = 0
    BY <1>1 DEF RewardSums
  <2>3. \A b \in Borrowers : snap[b].collateral = 0 /\ snap[b].LUSDDebt = 0
    BY <1>1 DEF NoSnap
  <2>4. zero \in [Borrowers -> Nat]
    OBVIOUS
  <2> HIDE DEF zero
  <2>5. /\ surplus \in [coll : Nat, balances : [Borrowers -> Nat]]
        /\ surplus.coll = 0 /\ surplus.balances = zero
    BY <1>1, <2>4
  <2> QED
    BY <1>4, <2>1, <2>2, <2>3, <2>5 DEF AccountsOK
<1>6. PoolsOK(active, default) /\ BothColl(active) = 0
  <2>1. zeroPool \in Balances /\ zeroPool.coll = 0
    BY DEF Balances
  <2> HIDE DEF zeroPool
  <2>2. active \in [BOOLEAN -> Balances] /\ active[TRUE] = zeroPool /\ active[FALSE] = zeroPool
    BY <1>1, <2>1
  <2> QED
    BY <1>1, <2>1, <2>2 DEF PoolsOK, BothColl
<1>7. rate \in Rates
  BY <1>1, UnitsAssumption DEF Rates
<1>8. CoinsOK(lusd) /\ lusd.gas = 0
  BY <1>1 DEF CoinsOK, Coins, Circulating
<1>9. LUSD_GAS_COMPENSATION * Cardinality(Active) = 0
  <2>1. Active = {}
    BY <1>1 DEF Active
  <2> QED
    BY <2>1, FS_EmptySet, UnitsAssumption
<1> QED
  BY <1>2, <1>4, <1>5, <1>6, <1>7, <1>8, <1>9 DEF BranchInv

\* Every transaction keeps the books.
LEMMA BranchSteps == BranchInv /\ [BranchNext]_branchVars => BranchInv'
<1> SUFFICES ASSUME BranchInv, [BranchNext]_branchVars
             PROVE  BranchInv'
  OBVIOUS
<1>1. CASE Open
  BY <1>1, OpenStep DEF Open
<1>2. CASE Adjust
  BY <1>2, AdjustStep DEF Adjust
<1>3. CASE Close
  BY <1>3, CloseStep DEF Close
<1>4. CASE Claim
  BY <1>4, ClaimStep DEF Claim
<1>5. CASE BatchLiquidate
  BY <1>5, LiquidationStep DEF BatchLiquidate
<1>6. CASE LiquidateTroves
  BY <1>6, LiquidationStep DEF LiquidateTroves
<1>7. CASE Provide
  BY <1>7, ProvideStep DEF Provide
<1>8. CASE Withdraw
  BY <1>8, WithdrawStep DEF Withdraw
<1>9. CASE Redeem
  BY <1>9, RedeemStep DEF Redeem
<1>10. CASE Shutdown
  <2>1. PICK d \in Drips : shutdownFromOracleFailure(d) \/ \E price \in Prices : shutdown(price, d)
    BY <1>10 DEF Shutdown
  <2>2. /\ rate' = d.rate /\ lusd' = d.lusd /\ isShutdown' = TRUE
        /\ UNCHANGED <<status, shielded, trove, rewardVars, poolVars>>
    BY <2>1, Zenon DEF shutdownFromOracleFailure, shutdown
  <2> QED
    BY <2>2, DripStep
<1>11. CASE Drip
  <2>1. PICK d \in Drips : drip(d)
    BY <1>11 DEF Drip
  <2>2. /\ rate' = d.rate /\ lusd' = d.lusd /\ isShutdown' = isShutdown /\ isShutdown \in BOOLEAN
        /\ UNCHANGED <<status, shielded, trove, rewardVars, poolVars>>
    BY <2>1 DEF drip, BranchInv
  <2> QED
    BY <2>2, DripStep
<1>12. CASE UNCHANGED branchVars
  BY <1>12 DEF branchVars, ledgerVars, rewardVars, poolVars, BranchInv, Active
<1> QED
  BY <1>1, <1>2, <1>3, <1>4, <1>5, <1>6, <1>7, <1>8, <1>9, <1>10, <1>11, <1>12 DEF BranchNext

\* So they are kept in every state.
LEMMA BranchInvariant == BranchSpec => []BranchInv
BY BranchStarts, BranchSteps, PTL DEF BranchSpec

\* Whatever transactions a branch goes through, at any price and rate, no balance of its
\* books falls below zero, and a promise to the StabilityPool never exceeds its deposits.
THEOREM BranchIsTyped == BranchSpec => []BranchTypeOK
<1>1. BranchInv => BranchTypeOK
  <2> SUFFICES ASSUME BranchInv
               PROVE  BranchTypeOK
    OBVIOUS
  <2>1. \A f \in DOMAIN rw : rw[f] \in Nat
    BY DEF BranchInv, AccountsOK, RewardSums
  <2>2. \A f \in DOMAIN lusd : lusd[f] \in Nat
    BY DEF BranchInv, CoinsOK, Coins
  <2> QED
    BY <2>1, <2>2 DEF BranchTypeOK, Amount, BranchInv, OwnersOK, Statuses, AccountsOK, Troves, Snaps,
       PoolsOK, Balances, Rates, CoinsOK
<1> QED
  BY <1>1, BranchInvariant, PTL

\* totalStakes, which openings, adjustments, liquidations and redemptions adjust by
\* differences, is the sum of the stakes (Rewards.sol).
THEOREM StakesTotal == BranchSpec => []StakesAddUp
<1>1. BranchInv => StakesAddUp
  BY Zenon DEF StakesAddUp, SumOver, BranchInv, AccountsOK, Total, StakeOf
<1> QED
  BY <1>1, BranchInvariant, PTL

\* The ActivePools together hold the collateral of the troves, no more and no less, through
\* toggles, applied rewards, liquidations and the loop of a redemption (ActivePool.sol).
THEOREM CollateralIsHeld == BranchSpec => []CollateralAddsUp
<1>1. BranchInv => CollateralAddsUp
  BY Zenon DEF CollateralAddsUp, SumOver, BranchInv, BothColl, Total, CollOf
<1> QED
  BY <1>1, BranchInvariant, PTL

\* The CollSurplusPool holds what former owners may claim, and the gas pool a compensation
\* for each active trove (CollSurplusPool.sol, GasPool.sol).
THEOREM SidePoolsAreBacked == BranchSpec => []SidePoolsBacked
<1>1. BranchInv => SidePoolsBacked
  <2> SUFFICES ASSUME BranchInv
               PROVE  SidePoolsBacked
    OBVIOUS
  <2> DEFINE bal == surplus.balances
  <2>1. surplus.coll = Total(bal) /\ bal \in [Borrowers -> Nat]
    BY DEF BranchInv, AccountsOK
  <2>2. bal = [b \in Borrowers |-> bal[b]]
    BY <2>1
  <2>3. surplus.coll = SumFunctionOnSet([b \in Borrowers |-> surplus.balances[b]], Borrowers)
    BY <2>1, <2>2, Zenon DEF Total
  <2> QED
    BY <2>3, Zenon DEF SidePoolsBacked, SumOver, BranchInv
<1> QED
  BY <1>1, BranchInvariant, PTL

=============================================================================
