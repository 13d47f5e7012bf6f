------------------------------ MODULE PoolProofs ------------------------------
(***************************************************************************)
(* Proofs about the pools of Branch: DefaultCoversCollateral, the          *)
(* DefaultPool against the rewards the troves have not applied, and        *)
(* DebtAddsUp and DebtTracked, the debt of each ActivePool against the     *)
(* debt of its troves.                                                     *)
(***************************************************************************)
EXTENDS RedemptionProofs

-----------------------------------------------------------------------------
(***************************************************************************)
(* What the DefaultPool owes                                               *)
(***************************************************************************)

\* The collateral owed to each trove since its snapshot, in units of 1 / DECIMAL_PRECISION.
OwedOf(t, sn, w) == [b \in Borrowers |-> t[b].stake * (w.L_Coll - sn[b].collateral)]

\* The DefaultPool holds what is owed, and what the last redistribution could not divide.
Covered(dflt, t, sn, w) ==
  dflt.coll * DECIMAL_PRECISION >= Total(OwedOf(t, sn, w)) + w.collError

\* The inductive invariant of DefaultCoversCollateral.
CoverInv == BranchInv /\ Covered(default, trove, snap, rw)

\* One summand changes.
LEMMA TotalChange ==
  ASSUME NEW f, NEW g, NEW b \in Borrowers,
         \A c \in Borrowers : f[c] \in Int /\ g[c] \in Int,
         \A c \in Borrowers \ {b} : g[c] = f[c]
  PROVE  Total(g) = Total(f) - f[b] + g[b]
BY SumUpdate, FiniteBorrowers DEF Total

\* What is owed is never below zero.
LEMMA OwedTyped ==
  ASSUME NEW t, NEW sn, NEW w, NEW sp, AccountsOK(t, sn, w, sp)
  PROVE  /\ \A b \in Borrowers : OwedOf(t, sn, w)[b] \in Nat
         /\ Total(OwedOf(t, sn, w)) \in Nat /\ w.collError \in Nat
<1>1. /\ \A b \in Borrowers : t[b].stake \in Nat /\ w.L_Coll - sn[b].collateral \in Nat
      /\ w.collError \in Nat
  BY DEF AccountsOK, Troves, Snaps, RewardSums
<1>2. ASSUME NEW b \in Borrowers
      PROVE  OwedOf(t, sn, w)[b] \in Nat
  <2> DEFINE x == t[b].stake
             y == w.L_Coll - sn[b].collateral
  <2>1. OwedOf(t, sn, w)[b] = x * y
    BY DEF OwedOf
  <2>2. x \in Nat /\ y \in Nat
    BY <1>1
  <2> HIDE DEF x, y
  <2>3. x * y \in Nat
    BY <2>2
  <2> QED
    BY <2>1, <2>3
<1> QED
  BY <1>1, <1>2, SumNat, FiniteBorrowers DEF Total

\* The books t, sn, w become u, sm, v by a change of b's account, to which nothing is owed then.
Repaying(t, sn, w, u, sm, v, b) ==
  /\ b \in Borrowers /\ v.L_Coll = w.L_Coll /\ v.collError = w.collError
  /\ \A c \in Borrowers \ {b} : u[c] = t[c] /\ sm[c] = sn[c]
  /\ u[b].stake = 0 \/ sm[b].collateral = w.L_Coll

\* From dflt to e the DefaultPool pays no more than n, in the same units.
PaysAtMost(dflt, e, n) ==
  dflt.coll \in Int /\ e.coll \in Int /\ (dflt.coll - e.coll) * DECIMAL_PRECISION <= n

\* A DefaultPool that pays b no more than it owes b still covers what it owes.
LEMMA CoverChange ==
  ASSUME NEW t, NEW sn, NEW w, NEW sp, AccountsOK(t, sn, w, sp),
         NEW u, NEW sm, NEW v, NEW sq, AccountsOK(u, sm, v, sq),
         NEW b, Repaying(t, sn, w, u, sm, v, b),
         NEW dflt, NEW e, PaysAtMost(dflt, e, OwedOf(t, sn, w)[b]), Covered(dflt, t, sn, w)
  PROVE  Covered(e, u, sm, v)
<1> DEFINE f == OwedOf(t, sn, w)
           g == OwedOf(u, sm, v)
           had == dflt.coll
           has == e.coll
<1>1. (\A c \in Borrowers : f[c] \in Nat) /\ Total(f) \in Nat /\ w.collError \in Nat
  BY OwedTyped
<1>2. (\A c \in Borrowers : g[c] \in Nat) /\ Total(g) \in Nat
  BY OwedTyped
<1>3. b \in Borrowers /\ \A c \in Borrowers \ {b} : g[c] = f[c]
  BY DEF OwedOf, Repaying
<1>4. g[b] = 0
  <2> DEFINE i == u[b].stake
             j == v.L_Coll - sm[b].collateral
  <2>1. g[b] = i * j
    BY <1>3 DEF OwedOf
  <2>2. i \in Nat /\ j \in Nat
    BY <1>3 DEF AccountsOK, Troves, Snaps, RewardSums
  <2>3. i = 0 \/ j = 0
    <3>1. v.L_Coll = w.L_Coll /\ (u[b].stake = 0 \/ sm[b].collateral = w.L_Coll)
      BY Zenon DEF Repaying
    <3>2. v.L_Coll \in Nat
      BY DEF AccountsOK, RewardSums
    <3> QED
      BY <3>1, <3>2
  <2> HIDE DEF i, j
  <2> QED
    BY <2>1, <2>2, <2>3
<1>5. had * DECIMAL_PRECISION >= Total(f) + w.collError /\ (had - has) * DECIMAL_PRECISION <= f[b]
  BY DEF Covered, PaysAtMost
<1> HIDE DEF f, g, had, has
<1>6. Total(g) = Total(f) - f[b] + g[b]
  <2>1. \A c \in Borrowers : f[c] \in Int /\ g[c] \in Int
    BY <1>1, <1>2
  <2> QED
    BY <1>3, <2>1, TotalChange
<1>7. had \in Int /\ has \in Int /\ DECIMAL_PRECISION \in Nat /\ f[b] \in Nat
  <2>1. had \in Int /\ has \in Int
    BY DEF had, has, PaysAtMost
  <2> QED
    BY <1>1, <1>3, <2>1, UnitsAssumption
<1>8. (had - has) * DECIMAL_PRECISION = had * DECIMAL_PRECISION - has * DECIMAL_PRECISION
  BY <1>7
<1> DEFINE i == had * DECIMAL_PRECISION
           j == has * DECIMAL_PRECISION
<1>9. i \in Int /\ j \in Int
  BY <1>7
<1> HIDE DEF i, j
<1>10. i >= Total(f) + w.collError /\ i - j <= f[b]
  BY <1>5, <1>8 DEF i, j
<1>11. j >= Total(g) + w.collError
  BY <1>1, <1>4, <1>6, <1>7, <1>9, <1>10
<1>12. v.collError = w.collError
  BY DEF Repaying
<1> QED
  BY <1>11, <1>12 DEF Covered, g, has, j

\* A pool that pays nothing.
LEMMA PaysNothing ==
  ASSUME CoverInv, NEW b \in Borrowers
  PROVE  PaysAtMost(default, default, OwedOf(trove, snap, rw)[b])
<1>1. default.coll \in Nat
  BY DEF CoverInv, BranchInv, PoolsOK, Balances
<1>2. OwedOf(trove, snap, rw)[b] \in Nat
  BY OwedTyped DEF CoverInv, BranchInv
<1>3. (default.coll - default.coll) * DECIMAL_PRECISION = 0
  BY <1>1, UnitsAssumption
<1> QED
  BY <1>1, <1>2, <1>3 DEF PaysAtMost

\* Applying the rewards of b takes no more from the DefaultPool than it owes b, and nothing is
\* owed then.
LEMMA AppliedOwed ==
  ASSUME BranchInv, NEW b \in Borrowers, status[b] = "active", NEW s, NEW r, NEW t, NEW pools,
         NEW dflt \in Balances, NEW a, a = _applyPendingRewards(b, s, r, t, pools, dflt)
  PROVE  /\ a.snap.collateral = rw.L_Coll
         /\ PaysAtMost(dflt, a.default, OwedOf(trove, snap, rw)[b])
<1> DEFINE coll == getPendingCollateralReward(b)
           debt == getPendingLUSDDebtReward(b)
           owed == OwedOf(trove, snap, rw)[b]
<1>1. coll \in Nat
  BY PendingTyped
<1>2. owed \in Nat
  BY OwedTyped DEF BranchInv
<1>3. dflt.coll \in Nat /\ DECIMAL_PRECISION \in Nat \ {0}
  BY UnitsAssumption DEF Balances
<1>4. snap[b].collateral <= rw.L_Coll /\ snap[b].collateral \in Nat /\ rw.L_Coll \in Nat
  BY DEF BranchInv, AccountsOK, Snaps, RewardSums
<1>5. CASE ~hasPendingRewards(b)
  <2>1. a.snap = snap[b] /\ a.default = dflt
    BY <1>5 DEF _applyPendingRewards
  <2>2. snap[b].collateral = rw.L_Coll
    BY <1>4, <1>5 DEF hasPendingRewards
  <2>3. (dflt.coll - dflt.coll) * DECIMAL_PRECISION = 0
    BY <1>3
  <2> HIDE DEF owed
  <2>4. (dflt.coll - a.default.coll) * DECIMAL_PRECISION <= owed
    BY <1>2, <2>1, <2>3
  <2> QED
    BY <1>3, <2>1, <2>2, <2>4 DEF owed, PaysAtMost
<1>6. CASE hasPendingRewards(b)
  <2> DEFINE tr == [debt |-> t.debt + debt, coll |-> t.coll + coll, stake |-> t.stake]
             pl == AddToPool(pools, s, NormDown(debt, r[s]), coll)
             df == [debt |-> dflt.debt - debt, coll |-> dflt.coll - coll]
  <2>1. a = [trove |-> tr, snap |-> Current, pools |-> pl, default |-> df]
    BY <1>6, Zenon DEF _applyPendingRewards
  <2>2. coll = owed \div DECIMAL_PRECISION
    BY DEF getPendingCollateralReward, OwedOf
  <2> HIDE DEF owed, coll, debt, tr, pl
  <2>3. a.snap = Current /\ a.default.coll = dflt.coll - coll
    BY <2>1
  <2>4. DECIMAL_PRECISION * coll <= owed
    BY <1>2, <1>3, <2>2, DivBounds
  <2>5. (dflt.coll - a.default.coll) * DECIMAL_PRECISION = DECIMAL_PRECISION * coll
    BY <1>1, <1>3, <2>3
  <2>6. (dflt.coll - a.default.coll) * DECIMAL_PRECISION <= owed
    BY <2>4, <2>5
  <2> QED
    BY <1>1, <1>3, <2>3, <2>6 DEF Current, owed, PaysAtMost
<1> QED
  BY <1>5, <1>6

\* A stake enters or leaves the total; the running sums stay.
LEMMA StakeSet ==
  ASSUME NEW w \in RewardSums, NEW b, NEW new
  PROVE  /\ SetStake(w, b, new).L_Coll = w.L_Coll
         /\ SetStake(w, b, new).collError = w.collError
         /\ SetStake(w, b, new).L_LUSDDebt = w.L_LUSDDebt
<1> DEFINE n == w.totalStakes - trove[b].stake + new
<1>1. SetStake(w, b, new) = [w EXCEPT !.totalStakes = n]
  BY Zenon DEF SetStake
<1> HIDE DEF n
<1> QED
  BY <1>1 DEF RewardSums

\* A transaction that changes the account of b.
LEMMA AccountCovered ==
  ASSUME CoverInv, BranchInv', NEW b \in Borrowers, NEW new, NEW sb, NEW stake,
         trove' = [trove EXCEPT ![b] = new], snap' = [snap EXCEPT ![b] = sb],
         rw' = SetStake(rw, b, stake), new.stake = 0 \/ sb.collateral = rw.L_Coll,
         PaysAtMost(default, default', OwedOf(trove, snap, rw)[b])
  PROVE  Covered(default, trove, snap, rw)'
<1>1. /\ AccountsOK(trove, snap, rw, surplus) /\ AccountsOK(trove', snap', rw', surplus')
      /\ Covered(default, trove, snap, rw)
  BY DEF CoverInv, BranchInv
<1>2. /\ trove \in [Borrowers -> Troves] /\ snap \in [Borrowers -> Snaps] /\ rw \in RewardSums
  BY <1>1 DEF AccountsOK
<1>3. rw'.L_Coll = rw.L_Coll /\ rw'.collError = rw.collError
  BY <1>2, StakeSet
<1>4. Repaying(trove, snap, rw, trove', snap', rw', b)
  BY <1>2, <1>3 DEF Repaying
<1>5. Covered(default', trove', snap', rw')
  BY <1>1, <1>4, CoverChange
<1> QED
  BY <1>5 DEF Covered, OwedOf, Total

\* openTrove takes the running sums as they are: nothing is owed to the new trove.
LEMMA OpenCovered ==
  ASSUME CoverInv, BranchInv', NEW b \in Borrowers, NEW coll \in Colls, NEW amount \in Amounts,
         NEW shield \in BOOLEAN, NEW price \in Prices, NEW d \in Drips,
         openTrove(b, coll, amount, shield, price, d)
  PROVE  Covered(default, trove, snap, rw)'
<1> DEFINE n == _normalizedDebt(amount + LUSD_GAS_COMPENSATION, d.rate[shield])
           stake == _computeNewStake(coll)
           new == [debt |-> trove[b].debt + n, coll |-> trove[b].coll + coll, stake |-> stake]
<1>1. /\ trove' = [trove EXCEPT ![b] = new] /\ snap' = [snap EXCEPT ![b] = Current]
      /\ rw' = SetStake(rw, b, stake) /\ default' = default
  BY Zenon DEF openTrove
<1>2. Current.collateral = rw.L_Coll
  BY DEF Current
<1>3. PaysAtMost(default, default, OwedOf(trove, snap, rw)[b])
  BY PaysNothing
<1> HIDE DEF new, stake
<1> QED
  BY <1>1, <1>2, <1>3, AccountCovered

\* adjustTrove applies the rewards first.
LEMMA AdjustCovered ==
  ASSUME CoverInv, BranchInv', NEW b \in Borrowers, NEW a \in Adjustments, NEW price \in Prices,
         NEW d \in Drips, adjustTrove(b, a, price, d)
  PROVE  Covered(default, trove, snap, rw)'
<1> DEFINE s == shielded[b] # a.toggle
           r == d.rate
           moved == IF a.toggle THEN ToggleShield(b, s, r) ELSE [trove |-> trove[b], pools |-> active]
           applied == _applyPendingRewards(b, s, r, moved.trove, moved.pools, default)
           t == applied.trove
           n == IF a.debt >= 0 THEN _normalizedDebt(a.debt, r[s]) ELSE -_normalizedDebt(-a.debt, r[s])
           coll == t.coll + a.coll
           stake == _computeNewStake(coll)
           new == [debt |-> t.debt + n, coll |-> coll, stake |-> stake]
<1>1. /\ status[b] = "active"
      /\ trove' = [trove EXCEPT ![b] = new] /\ snap' = [snap EXCEPT ![b] = applied.snap]
      /\ rw' = SetStake(rw, b, stake) /\ default' = applied.default
  BY Zenon DEF adjustTrove
<1>2. /\ applied.snap.collateral = rw.L_Coll
      /\ PaysAtMost(default, applied.default, OwedOf(trove, snap, rw)[b])
  <2> DEFINE x == moved.trove
             pools == moved.pools
  <2>1. applied = _applyPendingRewards(b, s, r, x, pools, default)
    OBVIOUS
  <2>2. BranchInv /\ default \in Balances
    BY DEF CoverInv, BranchInv, PoolsOK
  <2> HIDE DEF applied, s, r, x, pools
  <2> QED
    BY <1>1, <2>1, <2>2, AppliedOwed
<1> HIDE DEF applied, new, stake
<1> QED
  BY <1>1, <1>2, AccountCovered

\* So does closeTrove, which leaves no stake.
LEMMA CloseCovered ==
  ASSUME CoverInv, BranchInv', NEW b \in Borrowers, NEW d \in Drips, closeTrove(b, d)
  PROVE  Covered(default, trove, snap, rw)'
<1> DEFINE s == shielded[b]
           r == d.rate
           applied == _applyPendingRewards(b, s, r, trove[b], active, default)
<1>1. /\ status[b] = "active"
      /\ trove' = [trove EXCEPT ![b] = NoTrove] /\ snap' = [snap EXCEPT ![b] = NoSnap]
      /\ rw' = SetStake(rw, b, 0) /\ default' = applied.default
  BY Zenon DEF closeTrove, NoTrove, NoSnap
<1>2. PaysAtMost(default, applied.default, OwedOf(trove, snap, rw)[b])
  <2> DEFINE x == trove[b]
             pools == active
  <2>1. applied = _applyPendingRewards(b, s, r, x, pools, default)
    OBVIOUS
  <2>2. BranchInv /\ default \in Balances
    BY DEF CoverInv, BranchInv, PoolsOK
  <2> HIDE DEF applied, s, r, x, pools
  <2> QED
    BY <1>1, <2>1, <2>2, AppliedOwed
<1>3. NoTrove.stake = 0
  BY DEF NoTrove
<1> HIDE DEF applied
<1> QED
  BY <1>1, <1>2, <1>3, AccountCovered

\* The DefaultPool in the loop of a redemption.
LoopCovered(L) == Covered(L.default, L.trove, L.snap, L.rw)

\* The loop's fields once the rewards of b are applied.
LEMMA AppliedIs ==
  ASSUME NEW L, NEW b, NEW s, NEW A, CanApply(A, L, b, s),
         NEW a, a = _applyPendingRewards(b, s, rate, trove[b], L.active, L.default)
  PROVE  /\ DOMAIN A = LoopFields /\ SameRest(A, L)
         /\ A.trove = [L.trove EXCEPT ![b] = a.trove] /\ A.snap = [L.snap EXCEPT ![b] = a.snap]
         /\ A.active = a.pools /\ A.default = a.default
<1> USE DEF CanApply
<1> QED
  BY AppliedShape

\* The rewards of the trove at the cursor are applied.
LEMMA AppliedIsCovered ==
  ASSUME BranchInv, NEW L, NEW b, NEW s, NEW A, AtFresh(A, L, b, s), LoopCovered(L)
  PROVE  LoopCovered(A) /\ A.snap[b].collateral = rw.L_Coll
<1> DEFINE a == _applyPendingRewards(b, s, rate, trove[b], L.active, L.default)
<1>1. CanApply(A, L, b, s) /\ Starting(L, b)
  BY Zenon DEF AtFresh
<1>2. /\ DOMAIN L = LoopFields /\ LoopBooks(L) /\ b \in Borrowers /\ s \in BOOLEAN
      /\ A = Applied(L, b, s)
  BY <1>1, Zenon DEF CanApply
<1>3. LoopBooks(A)
  BY AtFreshFacts
<1>4. /\ A.trove = [L.trove EXCEPT ![b] = a.trove] /\ A.snap = [L.snap EXCEPT ![b] = a.snap]
      /\ A.default = a.default /\ A.rw = L.rw
  <2>1. a = _applyPendingRewards(b, s, rate, trove[b], L.active, L.default)
    OBVIOUS
  <2> HIDE DEF a
  <2>2. /\ DOMAIN A = LoopFields /\ SameRest(A, L)
        /\ A.trove = [L.trove EXCEPT ![b] = a.trove] /\ A.snap = [L.snap EXCEPT ![b] = a.snap]
        /\ A.active = a.pools /\ A.default = a.default
    BY <1>1, <2>1, AppliedIs
  <2> QED
    BY <2>2, Zenon DEF SameRest
<1>5. /\ AccountsOK(L.trove, L.snap, L.rw, L.surplus) /\ L.default \in Balances
      /\ L.rw.L_Coll = rw.L_Coll /\ AccountsOK(A.trove, A.snap, A.rw, A.surplus)
  BY <1>2, <1>3 DEF LoopBooks, PoolsOK
<1>6. L.trove \in [Borrowers -> Troves] /\ L.snap \in [Borrowers -> Snaps]
  BY <1>5 DEF AccountsOK
<1>7. status[b] = "active" /\ L.trove[b] = trove[b] /\ L.snap[b] = snap[b]
  BY <1>1, Zenon DEF Starting, Fresh
<1>8. /\ a.snap.collateral = rw.L_Coll
      /\ PaysAtMost(L.default, a.default, OwedOf(trove, snap, rw)[b])
  <2> DEFINE x == trove[b]
             pools == L.active
             dflt == L.default
             r == rate
  <2>1. a = _applyPendingRewards(b, s, r, x, pools, dflt) /\ dflt \in Balances
    BY <1>5
  <2> HIDE DEF a, x, pools, dflt, r
  <2>2. /\ a.snap.collateral = rw.L_Coll
        /\ PaysAtMost(dflt, a.default, OwedOf(trove, snap, rw)[b])
    BY <1>2, <1>7, <2>1, AppliedOwed
  <2> QED
    BY <2>2 DEF dflt
<1>9. OwedOf(L.trove, L.snap, L.rw)[b] = OwedOf(trove, snap, rw)[b]
  BY <1>2, <1>5, <1>7 DEF OwedOf
<1> HIDE DEF a
<1>10. A.snap[b].collateral = rw.L_Coll /\ Repaying(L.trove, L.snap, L.rw, A.trove, A.snap, A.rw, b)
  <2>1. A.snap[b] = a.snap /\ \A c \in Borrowers \ {b} : A.trove[c] = L.trove[c] /\ A.snap[c] = L.snap[c]
    BY <1>2, <1>4, <1>6
  <2> QED
    BY <1>2, <1>4, <1>5, <1>8, <2>1, Zenon DEF Repaying
<1>11. PaysAtMost(L.default, A.default, OwedOf(L.trove, L.snap, L.rw)[b])
  BY <1>4, <1>8, <1>9, Zenon
<1>12. Covered(L.default, L.trove, L.snap, L.rw)
  BY DEF LoopCovered
<1>13. Covered(A.default, A.trove, A.snap, A.rw)
  BY <1>5, <1>10, <1>11, <1>12, CoverChange
<1> QED
  BY <1>10, <1>13 DEF LoopCovered

\* The trove is redeemed, in part or as a whole.
LEMMA RedeemedIsCovered ==
  ASSUME BranchInv, NEW L, NEW b, NEW s, NEW A, AtFresh(A, L, b, s), LoopCovered(A),
         A.snap[b].collateral = rw.L_Coll, NEW p, NEW E, NEW C, NEW last,
         IsRedeemed(E, C, A, b, s, p, last), LoopBooks(E)
  PROVE  LoopCovered(E)
<1> DEFINE coll == CollLeft(A, b, s, p)
           debt == DebtLeft(A, b, s, p)
           stake == _computeNewStake(coll)
           kept == [debt |-> debt, coll |-> coll, stake |-> stake]
<1>1. /\ b \in Borrowers /\ LoopBooks(A)
  BY AtFreshFacts
<1>2. /\ AccountsOK(A.trove, A.snap, A.rw, A.surplus) /\ A.default \in Balances
      /\ A.rw.L_Coll = rw.L_Coll /\ AccountsOK(E.trove, E.snap, E.rw, E.surplus)
      /\ A.trove \in [Borrowers -> Troves] /\ A.snap \in [Borrowers -> Snaps]
      /\ A.rw \in RewardSums
  BY <1>1 DEF LoopBooks, PoolsOK, AccountsOK
<1>3. /\ IsCounted(E, C, s, Lot(A, b, s, p).LUSD, Lot(A, b, s, p).coll, last)
      /\ \/ IsClosed(C, A, b, s, coll, NormDown(LUSD_GAS_COMPENSATION, rate[s]))
         \/ IsPartly(C, A, b, debt, coll, stake)
  BY Zenon DEF IsRedeemed
<1>4. E.trove = C.trove /\ E.snap = C.snap /\ E.rw = C.rw /\ E.default = C.default
  BY <1>3, Zenon DEF IsCounted
<1>5. \/ /\ E.trove = [A.trove EXCEPT ![b] = NoTrove] /\ E.snap = [A.snap EXCEPT ![b] = NoSnap]
         /\ E.rw = SetStake(A.rw, b, 0) /\ E.default = A.default
      \/ /\ E.trove = [A.trove EXCEPT ![b] = kept] /\ E.snap = A.snap
         /\ E.rw = SetStake(A.rw, b, stake) /\ E.default = A.default
  BY <1>3, <1>4, Zenon DEF IsClosed, IsPartly
<1> HIDE DEF coll, debt, stake, kept
<1>6. E.rw.L_Coll = A.rw.L_Coll /\ E.rw.collError = A.rw.collError /\ E.default = A.default
  BY <1>2, <1>5, StakeSet
<1>7. /\ \A c \in Borrowers \ {b} : E.trove[c] = A.trove[c] /\ E.snap[c] = A.snap[c]
      /\ E.trove[b].stake = 0 \/ E.snap[b].collateral = A.rw.L_Coll
  <2>1. CASE E.trove = [A.trove EXCEPT ![b] = NoTrove] /\ E.snap = [A.snap EXCEPT ![b] = NoSnap]
    BY <1>1, <1>2, <2>1 DEF NoTrove
  <2>2. CASE E.trove = [A.trove EXCEPT ![b] = kept] /\ E.snap = A.snap
    BY <1>1, <1>2, <2>2
  <2> QED
    BY <1>5, <2>1, <2>2, Zenon
<1>8. Repaying(A.trove, A.snap, A.rw, E.trove, E.snap, E.rw, b)
  BY <1>1, <1>6, <1>7, Zenon DEF Repaying
<1>9. PaysAtMost(A.default, E.default, OwedOf(A.trove, A.snap, A.rw)[b])
  <2> DEFINE x == A.default.coll
             owed == OwedOf(A.trove, A.snap, A.rw)[b]
  <2>1. x \in Nat
    BY <1>2 DEF Balances
  <2>2. owed \in Nat
    BY <1>1, <1>2, OwedTyped
  <2> HIDE DEF x, owed
  <2>3. (x - x) * DECIMAL_PRECISION <= owed /\ x \in Int
    BY <2>1, <2>2, UnitsAssumption
  <2>4. E.default.coll = x
    BY <1>6 DEF x
  <2> QED
    BY <2>3, <2>4 DEF PaysAtMost, owed, x
<1>10. Covered(A.default, A.trove, A.snap, A.rw)
  BY DEF LoopCovered
<1>11. Covered(E.default, E.trove, E.snap, E.rw)
  BY <1>2, <1>8, <1>9, <1>10, CoverChange
<1> QED
  BY <1>11 DEF LoopCovered

\* The states h of a loop that ends in L after n iterations.
Unfolds(h, n, order, p, L) ==
  /\ n \in Nat /\ n <= Cardinality(Active) /\ L = h[n] /\ h[0] = LoopStart(order, p)
  /\ \A m \in 0..n : m # n => h[m + 1] = Iterate(h[m], order, p)
  /\ \A m \in 0..n : LoopInv(h[m], order, p)

\* The loop of a redemption goes through such states.
LEMMA LoopUnfolds ==
  ASSUME BranchInv, NEW order \in Orders, NEW p, Asked(p), p.maxIterations \in Nat,
         NEW L, L = _runRedemptionLoop(order, p)
  PROVE  \E h, n : Unfolds(h, n, order, p, L)
<1> DEFINE n == MinOf(p.maxIterations, Cardinality(Active))
           h == CHOOSE g : IsLoop(g, order, p, n)
<1>1. L = h[n]
  BY Zenon DEF _runRedemptionLoop, Repeated, IsLoop
<1>2. n \in Nat /\ n <= Cardinality(Active)
  <2>1. Cardinality(Active) \in Nat
    BY ActiveCount DEF Active, ActiveIn
  <2> QED
    BY <2>1, MinOfPair
<1> HIDE DEF n
<1>3. IsLoop(h, order, p, n)
  BY <1>2, LoopExists
<1> HIDE DEF h
<1>4. h = [i \in 0..n |-> IF i = 0 THEN LoopStart(order, p) ELSE Iterate(h[i - 1], order, p)]
  BY <1>3, Zenon DEF IsLoop
<1>5. h[0] = LoopStart(order, p)
  BY <1>2, <1>4
<1>6. ASSUME NEW m \in 0..n, m # n
      PROVE  h[m + 1] = Iterate(h[m], order, p)
  <2>1. m + 1 \in 0..n /\ m + 1 # 0 /\ m + 1 - 1 = m
    BY <1>2, <1>6
  <2> QED
    BY <1>4, <2>1
<1> DEFINE T == {i \in 0..n : LoopInv(h[i], order, p)}
<1>7. 0 \in T
  BY <1>2, <1>5, LoopStarts
<1>8. ASSUME NEW m \in 0..n, m # n, m \in T
      PROVE  m + 1 \in T
  <2>1. LoopInv(h[m], order, p) /\ m + 1 \in 0..n
    BY <1>2, <1>8
  <2>2. h[m + 1] = Iterate(h[m], order, p)
    BY <1>6, <1>8
  <2>3. LoopInv(h[m + 1], order, p)
    BY <2>1, <2>2, IterateStep
  <2> QED
    BY <2>1, <2>3
<1>9. \A m \in 0..n : m \in T
  <2> HIDE DEF T
  <2> QED
    BY <1>2, <1>7, <1>8, UpToInduction
<1> QED
  BY <1>1, <1>2, <1>5, <1>6, <1>9 DEF Unfolds

\* An iteration that does not revert stops, or comes to a fresh trove b of list s, whose rewards
\* are applied in A, and leaves the trove so or redeems it.
Visits(E, L, A, b, s, p, last) ==
  /\ AtFresh(A, L, b, s)
  /\ \/ E = [A EXCEPT !.running = FALSE]
     \/ \E C : IsRedeemed(E, C, A, b, s, p, last)

\* What an iteration does, when nothing reverts.
LEMMA IterateVisits ==
  ASSUME BranchInv, NEW order \in Orders, NEW p, NEW L, LoopInv(L, order, p),
         NEW E, E = Iterate(L, order, p), E.ok
  PROVE  /\ L.ok
         /\ \/ E = [L EXCEPT !.running = FALSE]
            \/ \E A, b, s, last : Visits(E, L, A, b, s, p, last)
<1>1. DOMAIN L = LoopFields /\ (L.ok => LoopOK(L, order, p))
  BY Zenon DEF LoopInv
<1>2. CASE E = [L EXCEPT !.running = FALSE]
  <2>1. E.ok = L.ok
    BY <1>1, <1>2 DEF LoopFields
  <2> QED
    BY <1>2, <2>1, Zenon
<1>3. CASE E # [L EXCEPT !.running = FALSE]
  <2>1. /\ L.running /\ L.ok
        /\ \E s \in BOOLEAN : \E b :
             /\ L.cursor[s] # 0 /\ b = order[s][L.cursor[s]]
             /\ E = _redeemCollateralFromTrove(Applied(L, b, s), b, s, Len(order[s]), p)
    BY <1>3, IterateCases
  <2>s. PICK s \in BOOLEAN : \E b :
          /\ L.cursor[s] # 0 /\ b = order[s][L.cursor[s]]
          /\ E = _redeemCollateralFromTrove(Applied(L, b, s), b, s, Len(order[s]), p)
    BY <2>1, Zenon
  <2>2. PICK b :
          /\ L.cursor[s] # 0 /\ b = order[s][L.cursor[s]]
          /\ E = _redeemCollateralFromTrove(Applied(L, b, s), b, s, Len(order[s]), p)
    BY <2>s, Zenon
  <2>3. LoopOK(L, order, p)
    BY <1>1, <2>1, Zenon
  <2> DEFINE A == Applied(L, b, s)
             last == Len(order[s])
  <2>4. DOMAIN A = LoopFields
    BY <1>1 DEF Applied
  <2>5. A = Applied(L, b, s) /\ E = _redeemCollateralFromTrove(A, b, s, last, p)
    BY <2>2
  <2> HIDE DEF A, last
  <2>6. \/ E = [A EXCEPT !.running = FALSE] /\ A.ok
        \/ \E C : IsRedeemed(E, C, A, b, s, p, last)
    BY <2>4, <2>5, RedeemedCases
  <2>7. A.ok
    BY <2>6, Zenon DEF IsRedeemed
  <2>8. AtFresh(A, L, b, s)
    BY <1>1, <2>1, <2>2, <2>3, <2>5, <2>7, AtCursor
  <2>9. Visits(E, L, A, b, s, p, last)
    BY <2>6, <2>8, Zenon DEF Visits
  <2> QED
    BY <2>1, <2>9, Zenon
<1> QED
  BY <1>2, <1>3, Zenon

\* A loop that stops keeps the books as they are.
LEMMA StoppedBooks ==
  ASSUME NEW A, DOMAIN A = LoopFields, NEW E, E = [A EXCEPT !.running = FALSE]
  PROVE  /\ E.trove = A.trove /\ E.snap = A.snap /\ E.rw = A.rw /\ E.default = A.default
         /\ E.active = A.active /\ E.status = A.status /\ E.shielded = A.shielded
         /\ E.LUSDToRedeem = A.LUSDToRedeem
BY DEF LoopFields

\* One iteration leaves the DefaultPool enough.
LEMMA IterateIsCovered ==
  ASSUME BranchInv, NEW order \in Orders, NEW p, NEW L, LoopInv(L, order, p), L.ok => LoopCovered(L),
         NEW E, E = Iterate(L, order, p), LoopInv(E, order, p), E.ok
  PROVE  LoopCovered(E)
<1>1. /\ L.ok
      /\ \/ E = [L EXCEPT !.running = FALSE]
         \/ \E A, b, s, last : Visits(E, L, A, b, s, p, last)
  BY IterateVisits
<1>2. DOMAIN L = LoopFields /\ LoopCovered(L) /\ LoopBooks(E)
  BY <1>1, Zenon DEF LoopInv, LoopOK, LoopTyped
<1>3. CASE E = [L EXCEPT !.running = FALSE]
  <2>1. E.trove = L.trove /\ E.snap = L.snap /\ E.rw = L.rw /\ E.default = L.default
    BY <1>2, <1>3, StoppedBooks
  <2> QED
    BY <1>2, <2>1, Zenon DEF LoopCovered
<1>4. ASSUME NEW A, NEW b, NEW s, NEW last, Visits(E, L, A, b, s, p, last)
      PROVE  LoopCovered(E)
  <2>1. AtFresh(A, L, b, s)
    BY <1>4, Zenon DEF Visits
  <2>2. LoopCovered(A) /\ A.snap[b].collateral = rw.L_Coll
    BY <1>2, <2>1, AppliedIsCovered
  <2>3. DOMAIN A = LoopFields
    BY <2>1, AtFreshFacts
  <2>4. CASE E = [A EXCEPT !.running = FALSE]
    <3>1. E.trove = A.trove /\ E.snap = A.snap /\ E.rw = A.rw /\ E.default = A.default
      BY <2>3, <2>4, StoppedBooks
    <3> QED
      BY <2>2, <3>1, Zenon DEF LoopCovered
  <2>5. ASSUME NEW C, IsRedeemed(E, C, A, b, s, p, last)
        PROVE  LoopCovered(E)
    BY <1>2, <2>1, <2>2, <2>5, RedeemedIsCovered
  <2> QED
    BY <1>4, <2>4, <2>5, Zenon DEF Visits
<1> QED
  BY <1>1, <1>3, <1>4, Zenon

\* So does a redemption.
LEMMA RedeemCovered ==
  ASSUME CoverInv, NEW order \in Orders, NEW p \in RedemptionsAsked, redeemCollateral(order, p)
  PROVE  Covered(default, trove, snap, rw)'
<1> DEFINE L == _runRedemptionLoop(order, p)
<1>1. L.ok /\ trove' = L.trove /\ snap' = L.snap /\ rw' = L.rw /\ default' = L.default
  BY Zenon DEF redeemCollateral
<1>2. BranchInv /\ Covered(default, trove, snap, rw)
  BY DEF CoverInv
<1>3. Asked(p) /\ p.maxIterations \in Nat
  BY <1>2, AskedOfBranch
<1>4. \E h, n : Unfolds(h, n, order, p, L)
  <2>1. L = _runRedemptionLoop(order, p)
    OBVIOUS
  <2> HIDE DEF L
  <2> QED
    BY <1>2, <1>3, <2>1, LoopUnfolds
<1> HIDE DEF L
<1>5. PICK h, n : Unfolds(h, n, order, p, L)
  BY <1>4
<1>6. /\ n \in Nat /\ L = h[n] /\ h[0] = LoopStart(order, p)
      /\ \A m \in 0..n : m # n => h[m + 1] = Iterate(h[m], order, p)
      /\ \A m \in 0..n : LoopInv(h[m], order, p)
  BY <1>5 DEF Unfolds
<1> DEFINE T == {m \in 0..n : h[m].ok => LoopCovered(h[m])}
<1>7. 0 \in T
  <2> DEFINE L0 == h[0]
  <2>1. L0 = LoopStart(order, p)
    BY <1>6
  <2>2. L0.trove = trove /\ L0.snap = snap /\ L0.rw = rw /\ L0.default = default
    BY <2>1 DEF LoopStart
  <2> HIDE DEF L0
  <2>3. LoopCovered(L0)
    BY <1>2, <2>2, Zenon DEF LoopCovered
  <2> QED
    BY <1>6, <2>3 DEF L0
<1>8. ASSUME NEW m \in 0..n, m # n, m \in T
      PROVE  m + 1 \in T
  <2> DEFINE X == h[m]
             Y == h[m + 1]
  <2>1. m + 1 \in 0..n
    BY <1>6, <1>8
  <2>2. /\ Y = Iterate(X, order, p) /\ LoopInv(X, order, p) /\ LoopInv(Y, order, p)
        /\ X.ok => LoopCovered(X)
    BY <1>6, <1>8, <2>1
  <2> HIDE DEF X, Y
  <2>3. Y.ok => LoopCovered(Y)
    BY <1>2, <2>2, IterateIsCovered
  <2> QED
    BY <2>1, <2>3 DEF Y
<1>9. \A m \in 0..n : m \in T
  <2> HIDE DEF T
  <2> QED
    BY <1>6, <1>7, <1>8, UpToInduction
<1>10. LoopCovered(L)
  BY <1>1, <1>6, <1>9
<1>11. Covered(default', trove', snap', rw')
  BY <1>1, <1>10, Zenon DEF LoopCovered
<1> QED
  BY <1>11 DEF Covered, OwedOf, Total

\* The pending collateral of the liquidated troves is what the DefaultPool owes them, or less.
LEMMA PendingOfLiquidation ==
  ASSUME BranchInv, NEW seq \in Arrays, NEW d \in Drips, NEW price \in Prices,
         NEW L, NEW A, NEW B, NEW gone, NEW surp, IsLiquidation(seq, d, price, L, A, B, gone, surp)
  PROVE  DECIMAL_PRECISION * (A.pendingColl + B.pendingColl)
           <= SumFunctionOnSet(OwedOf(trove, snap, rw), gone)
<1> DEFINE K == 1..Len(seq)
           V == [k \in DOMAIN L |-> L[k].pendingColl]
           Of(s) == {k \in DOMAIN L : shielded[L[k].borrower] = s}
           owed == OwedOf(trove, snap, rw)
           X == [k \in K |-> owed[seq[k]]]
<1>0. /\ L = Liquidated(seq, d, price) /\ A = _addLiquidationValuesToTotals(L, FALSE)
      /\ B = _addLiquidationValuesToTotals(L, TRUE) /\ gone = {seq[k] : k \in K}
  BY DEF IsLiquidation
<1>1. /\ Len(seq) \in Nat /\ seq \in [K -> Borrowers] /\ IsFiniteSet(K)
      /\ \A i, j \in K : seq[i] = seq[j] => i = j
  BY ArrayFacts
<1>2. DOMAIN L = K /\ \A k \in K : L[k].borrower = seq[k] /\ L[k].pendingColl \in Nat
  <2>1. /\ DOMAIN L = K
        /\ \A k \in K : L[k].borrower = seq[k] /\ \A f \in LiquidationValues : L[k][f] \in Nat
    BY <1>0, LiquidatedValues
  <2> QED
    BY <2>1 DEF LiquidationValues
<1>3. ASSUME NEW k \in K
      PROVE  L[k].pendingColl = getPendingCollateralReward(seq[k])
  <2> DEFINE left == CHOOSE h : IsLeft(h, seq, d, price, Len(seq))
  <2>1. L = [j \in 1..Len(seq) |-> _liquidate(seq[j], left[j - 1], d.rate, price)]
    BY <1>0, Zenon DEF Liquidated, IsLeft
  <2> HIDE DEF left
  <2> DEFINE b == seq[k]
             y == left[k - 1]
             r == d.rate
  <2>2. L[k] = _liquidate(b, y, r, price)
    BY <2>1
  <2> HIDE DEF b, y, r
  <2>3. _liquidate(b, y, r, price).pendingColl = getPendingCollateralReward(b)
    BY DEF _liquidate
  <2> QED
    BY <2>2, <2>3 DEF b
<1> HIDE DEF K
<1>4. A.pendingColl = SumFunctionOnSet(V, Of(FALSE)) /\ B.pendingColl = SumFunctionOnSet(V, Of(TRUE))
  BY <1>0, Zenon DEF _addLiquidationValuesToTotals, LiquidationValues
<1>5. Of(FALSE) \in SUBSET K /\ Of(TRUE) = K \ Of(FALSE)
  <2>1. \A k \in K : shielded[L[k].borrower] \in BOOLEAN
    BY <1>1, <1>2 DEF BranchInv, OwnersOK
  <2> QED
    BY <1>2, <2>1, Zenon
<1>6. \A k \in K : V[k] \in Nat /\ X[k] \in Nat /\ DECIMAL_PRECISION * V[k] <= X[k]
  <2> SUFFICES ASSUME NEW k \in K
               PROVE  V[k] \in Nat /\ X[k] \in Nat /\ DECIMAL_PRECISION * V[k] <= X[k]
    OBVIOUS
  <2> DEFINE b == seq[k]
             n == getPendingCollateralReward(b)
             m == owed[b]
  <2>1. V[k] = n /\ X[k] = m /\ b \in Borrowers
    BY <1>1, <1>2, <1>3
  <2>2. m \in Nat
    BY <2>1, OwedTyped DEF BranchInv
  <2>3. n = 0 \/ n = m \div DECIMAL_PRECISION
    BY <2>1 DEF getPendingCollateralReward, OwedOf
  <2> HIDE DEF n, m, V, X
  <2>4. n \in Nat /\ DECIMAL_PRECISION * n <= m
    BY <2>2, <2>3, DivBounds, UnitsAssumption
  <2> QED
    BY <2>1, <2>2, <2>4
<1>7. SumFunctionOnSet(X, K) = SumFunctionOnSet(owed, gone)
  <2> HIDE DEF owed
  <2>0. \A k \in K : X[k] = owed[seq[k]]
    OBVIOUS
  <2>1. \A k \in K : owed[seq[k]] \in Int /\ X[k] = owed[seq[k]]
    <3> HIDE DEF X
    <3>1. \A k \in K : X[k] \in Nat
      BY <1>6
    <3> QED
      BY <2>0, <3>1
  <2>2. \A i, j \in K : seq[i] = seq[j] => i = j
    BY <1>1
  <2> HIDE DEF X
  <2>3. SumFunctionOnSet(X, K) = SumFunctionOnSet(owed, {seq[k] : k \in K})
    BY <1>1, <2>1, <2>2, SumReindex
  <2> QED
    BY <1>0, <2>3
<1>8. A.pendingColl + B.pendingColl = SumFunctionOnSet(V, K)
  <2>1. \A k \in K : V[k] \in Int
    BY <1>6
  <2> DEFINE O == Of(FALSE)
  <2>2. O \in SUBSET K /\ A.pendingColl = SumFunctionOnSet(V, O)
        /\ B.pendingColl = SumFunctionOnSet(V, K \ O)
    BY <1>4, <1>5, Zenon
  <2> HIDE DEF V, O
  <2> QED
    BY <1>1, <2>1, <2>2, SumSplit
<1>9. DECIMAL_PRECISION * SumFunctionOnSet(V, K) <= SumFunctionOnSet(X, K)
  <2>1. \A k \in K : X[k] \in Int /\ V[k] \in Int /\ DECIMAL_PRECISION * V[k] <= X[k]
    BY <1>6
  <2>2. DECIMAL_PRECISION \in Int
    BY UnitsAssumption
  <2> HIDE DEF V, X
  <2> QED
    BY <1>1, <2>1, <2>2, SumMonotone
<1> HIDE DEF V, X, owed
<1> QED
  BY <1>7, <1>8, <1>9 DEF owed

\* A redistribution shares out what it gets and what was left over, and keeps the rest.
LEMMA SharedOut ==
  ASSUME rw \in RewardSums, NEW debt, NEW coll \in Nat, NEW stakes \in Nat,
         debt # 0 => stakes > 0, NEW pools, NEW dflt, NEW remainder,
         NEW w, w = updateSystemSnapshots_excludeCollRemainder(
                      _redistributeActualDebtAndColl(debt, coll, stakes), pools, dflt, remainder)
  PROVE  \E q \in Nat : /\ w.L_Coll = rw.L_Coll + q
                        /\ q * stakes + w.collError <= coll * DECIMAL_PRECISION + rw.collError
<1> DEFINE v == _redistributeActualDebtAndColl(debt, coll, stakes)
           c == coll * DECIMAL_PRECISION + rw.collError
           n == debt * DECIMAL_PRECISION + rw.debtError
<1>0. coll * DECIMAL_PRECISION \in Nat /\ rw.collError \in Nat /\ rw.L_Coll \in Nat
  BY UnitsAssumption DEF RewardSums
<1>1. w.L_Coll = v.L_Coll /\ w.collError = v.collError /\ v.totalStakes = stakes
  <2>1. DOMAIN v = DOMAIN rw /\ v.totalStakes = stakes
    BY DEF _redistributeActualDebtAndColl, RewardSums
  <2> DEFINE x == getEntireSystemColl(pools, dflt) - remainder
             y == v.totalStakes
  <2>2. w = [v EXCEPT !.totalStakesSnapshot = y, !.totalCollateralSnapshot = x]
    BY Zenon DEF updateSystemSnapshots_excludeCollRemainder
  <2> HIDE DEF v, x, y
  <2> QED
    BY <2>1, <2>2 DEF RewardSums
<1>2. CASE debt = 0
  <2>1. v = [rw EXCEPT !.totalStakes = stakes]
    BY <1>2, Zenon DEF _redistributeActualDebtAndColl
  <2>2. v.L_Coll = rw.L_Coll /\ v.collError = rw.collError
    BY <2>1 DEF RewardSums
  <2> HIDE DEF v
  <2>3. w.L_Coll = rw.L_Coll + 0 /\ 0 * stakes + w.collError <= coll * DECIMAL_PRECISION + rw.collError
    BY <1>0, <1>1, <2>2
  <2> QED
    BY <2>3
<1>3. CASE debt # 0
  <2> DEFINE q == c \div stakes
             lc == rw.L_Coll + q
             ec == c % stakes
             ld == rw.L_LUSDDebt + n \div stakes
             ed == n % stakes
  <2>1. v = [rw EXCEPT !.totalStakes = stakes, !.L_Coll = lc, !.collError = ec,
                       !.L_LUSDDebt = ld, !.debtError = ed]
    BY <1>3, Zenon DEF _redistributeActualDebtAndColl
  <2>2. c \in Nat /\ stakes \in Nat \ {0}
    BY <1>0, <1>3
  <2> HIDE DEF c
  <2>3. q \in Nat /\ q * stakes + ec = c
    BY <2>2
  <2> HIDE DEF q, ec, ld, ed, v
  <2>4. v.L_Coll = lc /\ v.collError = ec
    BY <2>1 DEF RewardSums
  <2>5. w.L_Coll = rw.L_Coll + q /\ q * stakes + w.collError <= c
    BY <1>1, <2>2, <2>3, <2>4
  <2> QED
    BY <2>3, <2>5 DEF c
<1> QED
  BY <1>2, <1>3

\* A liquidation takes from the DefaultPool what was pending, and adds what it redistributes.
LEMMA SettleCovered ==
  ASSUME CoverInv, BranchInv', NEW seq \in Arrays, NEW price \in Prices, NEW d \in Drips,
         Settle(seq, price, d)
  PROVE  Covered(default, trove, snap, rw)'
<1> DEFINE L == Liquidated(seq, d, price)
           T == [s \in BOOLEAN |-> _addLiquidationValuesToTotals(L, s)]
           A == T[FALSE]
           B == T[TRUE]
           gone == {seq[k] : k \in DOMAIN seq}
           r == d.rate
           redistDebt == _actualDebt(A.debtToRedistribute, r[FALSE])
                           + _actualDebt(B.debtToRedistribute, r[TRUE])
           redistColl == A.collToRedistribute + B.collToRedistribute
           pending == A.pendingColl + B.pendingColl
           gas == A.collGasCompensation + B.collGasCompensation
           stakes == rw.totalStakes - SumFunctionOnSet(StakeOf(trove), gone)
           pools == [s \in BOOLEAN |->
             sendSurplus(redistributeDebtAndColl(_moveOffsetCollAndDebt(
               movePendingTroveRewardsToActivePool(active[s], T[s]), T[s]), T[s]), T[s])]
           dflt == [debt |-> default.debt - (A.pendingDebt + B.pendingDebt) + redistDebt,
                    coll |-> default.coll - pending + redistColl]
           surp == [k \in DOMAIN L |-> L[k].collSurplus]
           f == OwedOf(trove, snap, rw)
           g == OwedOf(trove', snap', rw')
           rest == [b \in Borrowers |-> IF b \in gone THEN 0 ELSE f[b]]
           st == StakeOf(trove')
<1>1. redistDebt > 0 => stakes > 0
  BY Zenon DEF Settle, StakeOf
<1>2. /\ trove' = [b \in Borrowers |-> IF b \in gone THEN [debt |-> 0, coll |-> 0, stake |-> 0]
                                       ELSE trove[b]]
      /\ snap' = [b \in Borrowers |-> IF b \in gone THEN [collateral |-> 0, LUSDDebt |-> 0]
                                      ELSE snap[b]]
  BY Zenon DEF Settle
<1>3. /\ rw' = updateSystemSnapshots_excludeCollRemainder(
                 _redistributeActualDebtAndColl(redistDebt, redistColl, stakes), pools, dflt, gas)
      /\ default' = dflt
  BY Zenon DEF Settle, StakeOf
<1>4. /\ BranchInv /\ Covered(default, trove, snap, rw) /\ AccountsOK(trove, snap, rw, surplus)
      /\ AccountsOK(trove', snap', rw', surplus') /\ default.coll \in Nat
      /\ trove \in [Borrowers -> Troves] /\ rw \in RewardSums
      /\ rw.totalStakes = Total(StakeOf(trove))
  BY DEF CoverInv, BranchInv, AccountsOK, PoolsOK, Balances
<1>5. gone \in SUBSET Borrowers /\ gone = {seq[k] : k \in 1..Len(seq)}
  <2>1. DOMAIN seq = 1..Len(seq) /\ seq \in [1..Len(seq) -> Borrowers]
    BY ArrayFacts
  <2> QED
    BY <2>1
<1>6. IsLiquidation(seq, d, price, L, A, B, gone, surp)
  <2>1. A = _addLiquidationValuesToTotals(L, FALSE) /\ B = _addLiquidationValuesToTotals(L, TRUE)
    BY Zenon
  <2>2. \A k \in 1..Len(seq) : surp[k] = L[k].collSurplus
    <3>1. DOMAIN L = 1..Len(seq)
      BY <1>4, LiquidatedValues
    <3> QED
      BY <3>1
  <2> HIDE DEF A, B, gone, surp
  <2> QED
    BY <1>5, <2>1, <2>2 DEF IsLiquidation
<1> HIDE DEF L, A, B, T, surp, gone
<1>7. /\ \A x \in LiquidationValues : A[x] \in Nat /\ B[x] \in Nat
      /\ DECIMAL_PRECISION * pending <= SumFunctionOnSet(f, gone)
  BY <1>4, <1>6, TotalsOfLiquidation, PendingOfLiquidation
<1>8. pending \in Nat /\ redistColl \in Nat
  BY <1>7 DEF LiquidationValues
<1>9. redistDebt \in Nat
  <2>1. A.debtToRedistribute \in Nat /\ B.debtToRedistribute \in Nat
    BY <1>7 DEF LiquidationValues
  <2>2. r \in Rates
    BY <1>4, DripsOfBranch
  <2> HIDE DEF r
  <2> DEFINE x == r[FALSE]
             y == r[TRUE]
             m == A.debtToRedistribute
             n == B.debtToRedistribute
  <2>3. x \in Nat \ {0} /\ y \in Nat \ {0}
    BY <2>2, RatesPositive
  <2> HIDE DEF x, y, m, n
  <2>4. _actualDebt(m, x) \in Nat /\ _actualDebt(n, y) \in Nat
    BY <2>1, <2>3, Conversions DEF m, n
  <2>5. redistDebt = _actualDebt(m, x) + _actualDebt(n, y)
    BY Zenon DEF x, y, m, n
  <2> HIDE DEF redistDebt
  <2> QED
    BY <2>4, <2>5
<1>10. /\ Total(StakeOf(trove)) = SumFunctionOnSet(StakeOf(trove), gone) + Total(st)
       /\ Total(st) \in Nat /\ trove' \in [Borrowers -> Troves]
  <2>1. trove' \in [Borrowers -> Troves]
    BY <1>4 DEF AccountsOK
  <2> QED
    BY <1>2, <1>4, <1>5, <2>1, TrovesGone, TotalsTyped
<1>11. stakes = Total(st)
  <2> DEFINE x == SumFunctionOnSet(StakeOf(trove), gone)
  <2>1. x \in Int
    <3>1. IsFiniteSet(gone)
      BY <1>5, FiniteBorrowers, FS_Subset
    <3>2. \A b \in gone : StakeOf(trove)[b] \in Nat
      BY <1>4, <1>5 DEF StakeOf, Troves
    <3> DEFINE y == StakeOf(trove)
    <3> HIDE DEF y
    <3>3. SumFunctionOnSet(y, gone) \in Nat
      BY <3>1, <3>2, SumNat DEF y
    <3> QED
      BY <3>3 DEF y
  <2> HIDE DEF x, st
  <2> QED
    BY <1>4, <1>10, <2>1 DEF x
<1> HIDE DEF redistDebt, redistColl, pending, gas, stakes, pools
<1>12. PICK q \in Nat :
         /\ rw'.L_Coll = rw.L_Coll + q
         /\ q * stakes + rw'.collError <= redistColl * DECIMAL_PRECISION + rw.collError
  <2>1. stakes \in Nat /\ (redistDebt # 0 => stakes > 0)
    BY <1>1, <1>9, <1>10, <1>11
  <2> DEFINE w == rw'
  <2>2. w = updateSystemSnapshots_excludeCollRemainder(
                 _redistributeActualDebtAndColl(redistDebt, redistColl, stakes), pools, dflt, gas)
    BY <1>3
  <2> HIDE DEF w, dflt
  <2>3. \E q \in Nat : /\ w.L_Coll = rw.L_Coll + q
                       /\ q * stakes + w.collError <= redistColl * DECIMAL_PRECISION + rw.collError
    BY <1>4, <1>8, <2>1, <2>2, SharedOut
  <2> QED
    BY <2>3 DEF w
<1>13. /\ \A b \in Borrowers : f[b] \in Nat /\ rest[b] \in Nat /\ st[b] \in Nat
       /\ Total(f) \in Nat /\ rw.collError \in Nat /\ rw'.collError \in Nat
  <2>1. /\ (\A b \in Borrowers : f[b] \in Nat) /\ Total(f) \in Nat /\ rw.collError \in Nat
        /\ rw'.collError \in Nat
    BY <1>4, OwedTyped
  <2>2. \A b \in Borrowers : st[b] \in Nat
    BY <1>10 DEF StakeOf, Troves
  <2> HIDE DEF f, st
  <2> QED
    BY <2>1, <2>2
<1>14. Total(f) = SumFunctionOnSet(f, gone) + Total(rest)
  <2>1. /\ \A b \in Borrowers : f[b] \in Int /\ rest[b] \in Int
        /\ \A b \in gone : rest[b] = 0
        /\ \A b \in Borrowers \ gone : rest[b] = f[b]
    <3> HIDE DEF f
    <3> QED
      BY <1>5, <1>13
  <2> HIDE DEF f, rest
  <2> QED
    BY <1>5, <2>1, TotalWithout
<1>15. \A b \in Borrowers : g[b] = rest[b] + q * st[b]
  <2> SUFFICES ASSUME NEW b \in Borrowers
               PROVE  g[b] = rest[b] + q * st[b]
    OBVIOUS
  <2>1. CASE b \in gone
    <3>1. trove'[b].stake = 0 /\ snap'[b].collateral = 0 /\ rest[b] = 0
      BY <1>2, <2>1
    <3>2. g[b] = 0 * (rw'.L_Coll - snap'[b].collateral) /\ st[b] = 0
      BY <3>1 DEF OwedOf, StakeOf
    <3>3. rw'.L_Coll - snap'[b].collateral \in Int
      BY <1>4 DEF AccountsOK, Snaps, RewardSums
    <3>4. g[b] = 0
      BY <3>2, <3>3
    <3> HIDE DEF g, rest, st
    <3> QED
      BY <3>1, <3>2, <3>4
  <2>2. CASE b \notin gone
    <3> DEFINE x == trove[b].stake
               y == rw.L_Coll - snap[b].collateral
    <3>1. trove'[b].stake = x /\ snap'[b] = snap[b] /\ rest[b] = f[b]
      BY <1>2, <2>2
    <3>2. x \in Int /\ y \in Int /\ rw.L_Coll \in Int /\ snap[b].collateral \in Int
      BY <1>4 DEF AccountsOK, Troves, Snaps, RewardSums
    <3>3. rw'.L_Coll - snap'[b].collateral = y + q
      BY <1>12, <3>1, <3>2
    <3>4. g[b] = x * (y + q) /\ f[b] = x * y /\ st[b] = x
      BY <3>1, <3>3 DEF OwedOf, StakeOf
    <3> HIDE DEF x, y, g, f, st, rest
    <3>5. x * (y + q) = x * y + q * x
      BY <3>2
    <3> QED
      BY <3>1, <3>4, <3>5
  <2> QED
    BY <2>1, <2>2
<1>16. Total(g) = Total(rest) + q * Total(st)
  <2>1. \A b \in Borrowers : rest[b] \in Int /\ st[b] \in Int /\ g[b] = rest[b] + q * st[b]
    BY <1>13, <1>15
  <2>2. q \in Int
    OBVIOUS
  <2> HIDE DEF rest, st, g
  <2>3. SumFunctionOnSet(g, Borrowers)
          = SumFunctionOnSet(rest, Borrowers) + q * SumFunctionOnSet(st, Borrowers)
    BY <2>1, <2>2, FiniteBorrowers, SumLinear
  <2> QED
    BY <2>3 DEF Total
<1>17. default'.coll = default.coll - pending + redistColl
  <2>1. dflt.coll = default.coll - pending + redistColl
    OBVIOUS
  <2> HIDE DEF dflt
  <2> QED
    BY <1>3, <2>1
<1>18. default'.coll * DECIMAL_PRECISION >= Total(g) + rw'.collError
  <2> DEFINE D == DECIMAL_PRECISION
             x == default.coll
             owed == SumFunctionOnSet(f, gone)
             i == x * D
             j == D * pending
             k == redistColl * D
             m == q * stakes
  <2>1. i >= Total(f) + rw.collError /\ j <= owed /\ m + rw'.collError <= k + rw.collError
    BY <1>4, <1>7, <1>12 DEF Covered
  <2>2. Total(f) = owed + Total(rest) /\ Total(g) = Total(rest) + m
    BY <1>11, <1>14, <1>16
  <2>3. Total(rest) \in Nat
    <3>1. \A b \in Borrowers : rest[b] \in Nat
      BY <1>13
    <3> HIDE DEF rest
    <3> QED
      BY <3>1, SumNat, FiniteBorrowers DEF Total
  <2>4. D \in Nat /\ x \in Nat
    BY <1>4, UnitsAssumption
  <2>5. default'.coll * D = i - j + k
    <3> HIDE DEF D, x
    <3>1. (x - pending + redistColl) * D = x * D - D * pending + redistColl * D
      BY <1>8, <2>4
    <3>2. default'.coll = x - pending + redistColl
      BY <1>17 DEF x
    <3> QED
      BY <3>1, <3>2
  <2>6. i \in Int /\ j \in Int /\ k \in Int /\ m \in Int
    BY <1>8, <1>10, <1>11, <2>4
  <2>7. owed \in Int
    <3> HIDE DEF owed, f, rest
    <3>1. IsFiniteSet(gone) /\ \A b \in gone : f[b] \in Nat
      BY <1>5, <1>13, FiniteBorrowers, FS_Subset
    <3> QED
      BY <3>1, SumNat DEF owed
  <2> HIDE DEF D, x, owed, i, j, k, m, f, g, rest
  <2>8. i - j + k >= Total(g) + rw'.collError
    BY <1>13, <2>1, <2>2, <2>3, <2>6, <2>7
  <2> QED
    BY <2>5, <2>8 DEF D
<1>19. Covered(default', trove', snap', rw')
  BY <1>18 DEF Covered
<1> QED
  BY <1>19 DEF Covered, OwedOf, Total

\* Every transaction leaves the DefaultPool enough.
LEMMA CoverSteps == CoverInv /\ [BranchNext]_branchVars => CoverInv'
<1> SUFFICES ASSUME CoverInv, [BranchNext]_branchVars
             PROVE  CoverInv'
  OBVIOUS
<1>1. BranchInv /\ BranchInv'
  BY BranchSteps DEF CoverInv
<1> SUFFICES Covered(default, trove, snap, rw)'
  BY <1>1 DEF CoverInv
<1>2. CASE Open
  BY <1>1, <1>2, OpenCovered DEF Open
<1>3. CASE Adjust
  BY <1>1, <1>3, AdjustCovered DEF Adjust
<1>4. CASE Close
  BY <1>1, <1>4, CloseCovered DEF Close
<1>5. CASE BatchLiquidate \/ LiquidateTroves
  <2>1. \E seq \in Arrays, price \in Prices, d \in Drips : Settle(seq, price, d)
    BY <1>5, Zenon DEF BatchLiquidate, LiquidateTroves, batchLiquidate, liquidateTroves
  <2> QED
    BY <1>1, <2>1, SettleCovered
<1>6. CASE Redeem
  BY <1>6, RedeemCovered DEF Redeem
<1>7. CASE UNCHANGED <<default, trove, snap, rw>>
  <2>1. Covered(default, trove, snap, rw)
    BY DEF CoverInv
  <2> QED
    BY <1>7, <2>1 DEF Covered, OwedOf, Total
<1>8. CASE Claim \/ Provide \/ Withdraw \/ Shutdown \/ Drip \/ UNCHANGED branchVars
  <2>1. UNCHANGED <<default, trove, snap, rw>>
    BY <1>8 DEF Claim, Provide, Withdraw, Shutdown, Drip, claimCollateral, provideToSP,
       withdrawFromSP, shutdown, shutdownFromOracleFailure, drip, branchVars, ledgerVars,
       rewardVars, poolVars
  <2> QED
    BY <1>7, <2>1
<1> QED
  BY <1>2, <1>3, <1>4, <1>5, <1>6, <1>8 DEF BranchNext

\* Whatever redistributions, openings, adjustments, closures and redemptions came before, the
\* DefaultPool can pay the pending collateral of all active troves (Rewards.sol): rounding is
\* always on its side.
THEOREM PendingIsHeld == BranchSpec => []DefaultCoversCollateral
<1>1. BranchInit => CoverInv
  <2> SUFFICES ASSUME BranchInit
               PROVE  CoverInv
    OBVIOUS
  <2> DEFINE f == OwedOf(trove, snap, rw)
  <2>1. BranchInv
    BY BranchStarts
  <2>2. /\ \A b \in Borrowers : trove[b].stake = 0 /\ snap[b].collateral = 0
        /\ rw.L_Coll = 0 /\ rw.collError = 0 /\ default.coll = 0
    BY DEF BranchInit, LedgerInit
  <2>3. \A b \in Borrowers : f[b] = 0
    BY <2>2 DEF OwedOf
  <2> HIDE DEF f
  <2>4. Total(f) = 0
    BY <2>3, SumZero, FiniteBorrowers DEF Total
  <2>5. Covered(default, trove, snap, rw)
    BY <2>2, <2>4, UnitsAssumption DEF Covered, f
  <2> QED
    BY <2>1, <2>5 DEF CoverInv
<1>2. CoverInv => DefaultCoversCollateral
  <2> SUFFICES ASSUME CoverInv
               PROVE  DefaultCoversCollateral
    OBVIOUS
  <2> DEFINE f == OwedOf(trove, snap, rw)
             g == [b \in Borrowers |-> getPendingCollateralReward(b)]
             pending == SumFunctionOnSet(g, Active)
  <2>1. /\ BranchInv /\ Covered(default, trove, snap, rw) /\ AccountsOK(trove, snap, rw, surplus)
        /\ default.coll \in Nat
    BY DEF CoverInv, BranchInv, PoolsOK, Balances
  <2>2. (\A b \in Borrowers : f[b] \in Nat) /\ Total(f) \in Nat /\ rw.collError \in Nat
    BY <2>1, OwedTyped
  <2>3. ASSUME NEW b \in Borrowers
        PROVE  g[b] \in Nat /\ DECIMAL_PRECISION * g[b] <= f[b]
    <3> DEFINE n == g[b]
               m == f[b]
    <3>1. n = 0 \/ n = m \div DECIMAL_PRECISION
      BY DEF getPendingCollateralReward, OwedOf
    <3>2. m \in Nat
      BY <2>2
    <3> HIDE DEF n, m
    <3>3. n \in Nat /\ DECIMAL_PRECISION * n <= m
      BY <3>1, <3>2, DivBounds, UnitsAssumption
    <3> QED
      BY <3>3 DEF n, m
  <2>4. Active \in SUBSET Borrowers /\ IsFiniteSet(Active) /\ IsFiniteSet(Borrowers \ Active)
    BY FiniteBorrowers, FS_Subset DEF Active
  <2> HIDE DEF f, g
  <2>5. DECIMAL_PRECISION * pending <= SumFunctionOnSet(f, Active) /\ pending \in Nat
    <3>1. \A b \in Active : f[b] \in Int /\ g[b] \in Int /\ DECIMAL_PRECISION * g[b] <= f[b]
      BY <2>2, <2>3, <2>4
    <3>2. \A b \in Active : g[b] \in Nat
      BY <2>3, <2>4
    <3>3. DECIMAL_PRECISION \in Int
      BY UnitsAssumption
    <3>4. DECIMAL_PRECISION * SumFunctionOnSet(g, Active) <= SumFunctionOnSet(f, Active)
      BY <2>4, <3>1, <3>3, SumMonotone
    <3>5. SumFunctionOnSet(g, Active) \in Nat
      BY <2>4, <3>2, SumNat
    <3> QED
      BY <3>4, <3>5
  <2>6. SumFunctionOnSet(f, Active) <= Total(f) /\ SumFunctionOnSet(f, Active) \in Nat
    <3>1. Total(f) = SumFunctionOnSet(f, Active) + SumFunctionOnSet(f, Borrowers \ Active)
      <4>1. \A b \in Borrowers : f[b] \in Int
        BY <2>2
      <4> QED
        BY <2>4, <4>1, FiniteBorrowers, SumSplit DEF Total
    <3>2. SumFunctionOnSet(f, Active) \in Nat /\ SumFunctionOnSet(f, Borrowers \ Active) \in Nat
      BY <2>2, <2>4, SumNat
    <3> QED
      BY <3>1, <3>2
  <2>7. default.coll * DECIMAL_PRECISION >= Total(f) + rw.collError
    BY <2>1 DEF Covered, f
  <2> DEFINE x == default.coll
             D == DECIMAL_PRECISION
  <2>8. x \in Nat /\ D \in Nat \ {0} /\ x * D >= Total(f) + rw.collError
    BY <2>1, <2>7, UnitsAssumption
  <2> HIDE DEF x, pending
  <2>9. D * pending <= D * x
    <3>1. D * pending <= x * D
      <4> DEFINE i == x * D
                 j == D * pending
      <4>1. i \in Nat /\ j \in Nat
        BY <2>5, <2>8
      <4>2. j <= SumFunctionOnSet(f, Active) /\ i >= Total(f) + rw.collError
        BY <2>5, <2>8
      <4> HIDE DEF i, j
      <4>3. j <= i
        BY <2>2, <2>6, <4>1, <4>2
      <4> QED
        BY <4>3 DEF i, j
    <3> QED
      BY <2>5, <2>8, <3>1
  <2> HIDE DEF D
  <2>10. pending <= x
    BY <2>5, <2>8, <2>9, CancelFactor
  <2>11. SumOver(getPendingCollateralReward, Active) = pending
    BY Zenon DEF SumOver, pending, g
  <2> QED
    BY <2>5, <2>8, <2>10, <2>11 DEF DefaultCoversCollateral, x
<1> QED
  BY <1>1, <1>2, CoverSteps, PTL DEF BranchSpec

-----------------------------------------------------------------------------
(***************************************************************************)
(* The debt of the troves and of their pools                               *)
(***************************************************************************)

\* The debt n of a trove in pool s, as a debt of pool z.
DebtIn(n, s, z) == IF s = z THEN n ELSE 0

DebtOf(t, sh, z) == [b \in Borrowers |-> DebtIn(t[b].debt, sh[b], z)]

\* What pool z records beyond the debt of its troves.
Gap(pools, t, sh, z) == pools[z].debt - Total(DebtOf(t, sh, z))

\* The part of the gap that a single trove, of debt n in pool s, has to do with.
Own(pools, n, s, z) == pools[z].debt - DebtIn(n, s, z)

\* Pools with a debt, which may be below zero in the middle of a transaction.
IntPools(pools) ==
  pools = [z \in BOOLEAN |-> pools[z]] /\ \A z \in BOOLEAN : pools[z].debt \in Int

\* The debt of a trove in a pool is that debt or nothing.
LEMMA DebtInTyped ==
  ASSUME NEW n \in Int, NEW s \in BOOLEAN, NEW z \in BOOLEAN
  PROVE  DebtIn(n, s, z) \in Int /\ DebtIn(0, s, z) = 0 /\ DebtIn(n, s, z) \in {0, n}
<1>1. CASE s = z
  BY <1>1 DEF DebtIn
<1>2. CASE s # z
  BY <1>2 DEF DebtIn
<1> QED
  BY <1>1, <1>2, Zenon

\* The debts of the troves of a pool, and the gap.
LEMMA GapTyped ==
  ASSUME NEW t \in [Borrowers -> Troves], NEW sh \in [Borrowers -> BOOLEAN], NEW z \in BOOLEAN,
         NEW pools, IntPools(pools)
  PROVE  /\ \A b \in Borrowers : t[b].debt \in Nat /\ DebtOf(t, sh, z)[b] \in Nat
         /\ Total(DebtOf(t, sh, z)) \in Nat /\ pools[z].debt \in Int /\ Gap(pools, t, sh, z) \in Int
<1> DEFINE f == DebtOf(t, sh, z)
<1>1. \A b \in Borrowers : t[b].debt \in Nat /\ sh[b] \in BOOLEAN
  BY DEF Troves
<1>2. ASSUME NEW b \in Borrowers
      PROVE  f[b] \in Nat
  <2> DEFINE n == t[b].debt
             s == sh[b]
  <2>1. n \in Nat /\ s \in BOOLEAN
    BY <1>1
  <2>2. f[b] = DebtIn(n, s, z)
    BY Zenon DEF DebtOf
  <2> HIDE DEF n, s, f
  <2>3. DebtIn(n, s, z) \in {0, n}
    BY <2>1, DebtInTyped
  <2> QED
    BY <2>1, <2>2, <2>3
<1>3. Total(f) \in Nat
  <2> HIDE DEF f
  <2> QED
    BY <1>2, SumNat, FiniteBorrowers DEF Total
<1> HIDE DEF f
<1>4. pools[z].debt \in Int
  BY Zenon DEF IntPools
<1> DEFINE x == pools[z].debt
<1>5. Gap(pools, t, sh, z) = x - Total(f)
  BY Zenon DEF Gap, f
<1> HIDE DEF x
<1>6. x - Total(f) \in Int
  BY <1>3, <1>4 DEF x
<1> QED
  BY <1>1, <1>2, <1>3, <1>4, <1>5, <1>6, Zenon DEF f

\* Where one trove changes, the gap changes by that trove's part of it.
LEMMA GapChange ==
  ASSUME NEW t \in [Borrowers -> Troves], NEW u \in [Borrowers -> Troves],
         NEW sh \in [Borrowers -> BOOLEAN], NEW sj \in [Borrowers -> BOOLEAN],
         NEW p, IntPools(p), NEW q, IntPools(q), NEW b \in Borrowers, NEW z \in BOOLEAN,
         \A c \in Borrowers \ {b} : u[c] = t[c] /\ sj[c] = sh[c]
  PROVE  Gap(q, u, sj, z) - Gap(p, t, sh, z)
           = Own(q, u[b].debt, sj[b], z) - Own(p, t[b].debt, sh[b], z)
<1> DEFINE f == DebtOf(t, sh, z)
           g == DebtOf(u, sj, z)
<1>1. \A c \in Borrowers : f[c] \in Nat /\ g[c] \in Nat
  BY GapTyped
<1>2. Total(f) \in Nat /\ Total(g) \in Nat /\ p[z].debt \in Int /\ q[z].debt \in Int
  BY GapTyped
<1>3. \A c \in Borrowers \ {b} : g[c] = f[c]
  BY Zenon DEF DebtOf
<1>4. f[b] = DebtIn(t[b].debt, sh[b], z) /\ g[b] = DebtIn(u[b].debt, sj[b], z)
  BY Zenon DEF DebtOf
<1> HIDE DEF f, g
<1>5. Total(g) = Total(f) - f[b] + g[b]
  <2>1. \A c \in Borrowers : f[c] \in Int /\ g[c] \in Int
    BY <1>1
  <2> QED
    BY <1>3, <2>1, TotalChange
<1> DEFINE x == p[z].debt
           y == q[z].debt
           i == f[b]
           j == g[b]
<1>6. /\ Gap(q, u, sj, z) = y - Total(g) /\ Gap(p, t, sh, z) = x - Total(f)
      /\ Own(q, u[b].debt, sj[b], z) = y - j /\ Own(p, t[b].debt, sh[b], z) = x - i
  BY <1>4, Zenon DEF Gap, Own, f, g
<1>7. i \in Int /\ j \in Int /\ x \in Int /\ y \in Int /\ Total(g) = Total(f) - i + j
  BY <1>1, <1>2, <1>5
<1> HIDE DEF x, y, i, j
<1>8. (y - Total(g)) - (x - Total(f)) = (y - j) - (x - i)
  BY <1>2, <1>7
<1> QED
  BY <1>6, <1>8

\* Pool s gets debt n, and a trove there owes now what owed debt: the pool gets e more.
Exchanged(p, q, s, n, coll, debt, now, e) ==
  q = AddToPool(p, s, n, coll) /\ e = (n + debt) - now

\* The trove's part of the gap of pool z grows by that.
OwnGrows(p, q, s, z, debt, now, e) ==
  IntPools(q) /\ Own(q, now, s, z) = Own(p, debt, s, z) + DebtIn(e, s, z)

LEMMA AddOwn ==
  ASSUME NEW p, IntPools(p), NEW s \in BOOLEAN, NEW z \in BOOLEAN, NEW n \in Int,
         NEW coll, NEW q, NEW debt \in Int, NEW now \in Int, NEW e,
         Exchanged(p, q, s, n, coll, debt, now, e)
  PROVE  OwnGrows(p, q, s, z, debt, now, e)
<1> DEFINE x == p[z].debt
           i == p[s].debt + n
           j == p[s].coll + coll
           new == [debt |-> i, coll |-> j]
<1>0. p = [y \in BOOLEAN |-> p[y]] /\ \A y \in BOOLEAN : p[y].debt \in Int
  BY Zenon DEF IntPools
<1>1. q = [p EXCEPT ![s] = new]
  BY Zenon DEF Exchanged, AddToPool
<1>2. x \in Int /\ i \in Int
  <2> DEFINE k == p[s].debt
  <2>1. k \in Int /\ x \in Int
    BY <1>0, Zenon
  <2> HIDE DEF k, x
  <2>2. k + n \in Int
    BY <2>1
  <2> QED
    BY <2>1, <2>2 DEF k
<1>3. new.debt = i
  BY Zenon
<1> HIDE DEF new
<1>4. q = [y \in BOOLEAN |-> q[y]] /\ q[s] = new /\ \A y \in BOOLEAN : y # s => q[y] = p[y]
  BY <1>0, <1>1, Zenon
<1>5. \A y \in BOOLEAN : q[y].debt \in Int
  BY <1>0, <1>2, <1>3, <1>4, Zenon
<1>6. CASE s = z
  <2>1. q[z].debt = x + n
    BY <1>3, <1>4, <1>6, Zenon
  <2>2. /\ Own(q, now, s, z) = q[z].debt - now /\ Own(p, debt, s, z) = x - debt
        /\ DebtIn(e, s, z) = e
    BY <1>6, Zenon DEF Own, DebtIn
  <2> HIDE DEF x
  <2>3. Own(q, now, s, z) = Own(p, debt, s, z) + DebtIn(e, s, z)
    BY <1>2, <2>1, <2>2 DEF Exchanged
  <2> QED
    BY <1>4, <1>5, <2>3, Zenon DEF OwnGrows, IntPools, x
<1>7. CASE s # z
  <2>1. q[z].debt = x
    BY <1>4, <1>7, Zenon
  <2>2. /\ Own(q, now, s, z) = q[z].debt - 0 /\ Own(p, debt, s, z) = x - 0
        /\ DebtIn(e, s, z) = 0
    BY <1>7, Zenon DEF Own, DebtIn
  <2> HIDE DEF x
  <2>3. Own(q, now, s, z) = Own(p, debt, s, z) + DebtIn(e, s, z)
    BY <1>2, <2>1, <2>2 DEF Exchanged
  <2> QED
    BY <1>4, <1>5, <2>3, Zenon DEF OwnGrows, IntPools, x
<1> QED
  BY <1>6, <1>7, Zenon

-----------------------------------------------------------------------------
(***************************************************************************)
(* What a conversion may be off by                                         *)
(***************************************************************************)

\* x is no further from y than n.
Near(x, y, n) == y - n <= x /\ x <= y + n

\* What a trove's part of a transaction may be off by, in the pool whose rate is q.
Step(q) == IF q = RATE_PRECISION THEN 0 ELSE 1

\* An amount is the whole part of a quotient.
LEMMA WholePart ==
  ASSUME NEW a \in Nat, NEW r \in Nat \ {0}, NEW n, n = a \div r
  PROVE  n \in Nat /\ n * r <= a /\ a < n * r + r
<1>1. n \in Nat /\ r * n <= a /\ a < r * n + r
  BY DivBounds, DivAbove
<1>2. n * r = r * n
  BY <1>1
<1> QED
  BY <1>1, <1>2

\* Products compare as their factors do.
LEMMA FactorsCompare ==
  ASSUME NEW m \in Int, NEW n \in Int, NEW r \in Nat \ {0}
  PROVE  (m * r < n * r + r => m <= n) /\ (m * r < n * r + 2 * r => m <= n + 1)
<1>1. ASSUME NEW k \in Int, k >= n + 1
      PROVE  k * r >= n * r + r
  <2>1. (k - n - 1) * r >= 0
    BY <1>1
  <2>2. (k - n - 1) * r = k * r - n * r - r
    OBVIOUS
  <2> DEFINE x == k * r
             y == n * r
  <2>3. x \in Int /\ y \in Int
    OBVIOUS
  <2> HIDE DEF x, y
  <2> QED
    BY <2>1, <2>2, <2>3 DEF x, y
<1>2. m * r < n * r + r => m <= n
  <2> DEFINE x == m * r
             y == n * r
  <2>1. m >= n + 1 => x >= y + r
    BY <1>1
  <2>2. x \in Int /\ y \in Int
    OBVIOUS
  <2> HIDE DEF x, y
  <2>3. x < y + r => m <= n
    BY <2>1, <2>2
  <2> QED
    BY <2>3 DEF x, y
<1>3. m * r < n * r + 2 * r => m <= n + 1
  <2> DEFINE x == (m - 1) * r
             y == n * r
             w == m * r
  <2>1. m - 1 >= n + 1 => x >= y + r
    BY <1>1
  <2>2. x = w - r
    OBVIOUS
  <2>3. x \in Int /\ y \in Int /\ w \in Int
    OBVIOUS
  <2> HIDE DEF x, y, w
  <2>4. w < y + 2 * r => m <= n + 1
    BY <2>1, <2>2, <2>3
  <2> QED
    BY <2>4 DEF y, w
<1> QED
  BY <1>2, <1>3

\* Taking a debt for a normalized one, and back, at the first rate.
LEMMA AtFirstRate ==
  ASSUME NEW x \in Nat
  PROVE  /\ NormDown(x, RATE_PRECISION) = x /\ _actualDebt(x, RATE_PRECISION) = x
         /\ _normalizedDebt(x, RATE_PRECISION) = x /\ NormalizedLot(x, RATE_PRECISION) = x
<1> DEFINE R == RATE_PRECISION
           n == (x * R) \div R
<1>1. R \in Nat \ {0} /\ x * R \in Nat
  BY UnitsAssumption
<1>2. n \in Nat /\ n * R <= x * R /\ x * R < n * R + R
  BY <1>1, WholePart
<1>3. n = x
  <2> HIDE DEF n
  <2>1. x <= n
    BY <1>1, <1>2, FactorsCompare
  <2>2. n * R < x * R + R
    BY <1>1, <1>2
  <2>3. n <= x
    BY <1>1, <1>2, <2>2, FactorsCompare
  <2> QED
    BY <1>2, <2>1, <2>3
<1>4. NormDown(x, R) = x /\ _actualDebt(x, R) = x
  BY <1>3 DEF NormDown, _actualDebt
<1>5. _normalizedDebt(x, R) = x /\ NormalizedLot(x, R) = x
  BY <1>4 DEF _normalizedDebt, NormalizedLot
<1> QED
  BY <1>4, <1>5

\* What the conversions lose or add.
LEMMA Converted ==
  ASSUME NEW x \in Nat, NEW r \in Nat \ {0}, RATE_PRECISION <= r
  PROVE  /\ NormDown(x, r) \in Nat /\ _normalizedDebt(x, r) \in Nat /\ _actualDebt(x, r) \in Nat
         /\ NormDown(x, r) * r <= x * RATE_PRECISION
         /\ x * RATE_PRECISION < NormDown(x, r) * r + r
         /\ x * RATE_PRECISION <= _normalizedDebt(x, r) * r
         /\ _normalizedDebt(x, r) * r < x * RATE_PRECISION + r
         /\ _actualDebt(x, r) * RATE_PRECISION <= x * r
         /\ x * r < _actualDebt(x, r) * RATE_PRECISION + r
<1> DEFINE R == RATE_PRECISION
           a == x * R
           n == NormDown(x, r)
           v == _actualDebt(n, r)
           m == _normalizedDebt(x, r)
<1>1. R \in Nat \ {0} /\ R <= r /\ a \in Nat
  BY UnitsAssumption
<1>2. n \in Nat /\ n * r <= a /\ a < n * r + r
  <2>1. n = a \div r
    BY DEF NormDown
  <2> HIDE DEF n, a
  <2> QED
    BY <1>1, <2>1, WholePart
<1>3. _actualDebt(x, r) \in Nat /\ _actualDebt(x, r) * R <= x * r /\ x * r < _actualDebt(x, r) * R + r
  <2> DEFINE w == _actualDebt(x, r)
             y == x * r
  <2>1. w = y \div R /\ y \in Nat
    BY DEF _actualDebt
  <2> HIDE DEF w, y
  <2>2. w \in Nat /\ w * R <= y /\ y < w * R + R
    BY <1>1, <2>1, WholePart
  <2> DEFINE z == w * R
  <2>3. z \in Nat
    BY <1>1, <2>2
  <2> HIDE DEF z
  <2>4. y < z + r
    BY <1>1, <2>1, <2>2, <2>3 DEF z
  <2> QED
    BY <2>2, <2>4 DEF w, y, z
<1>4. v \in Nat /\ v * R <= n * r /\ n * r < v * R + R
  <2> DEFINE y == n * r
  <2>1. v = y \div R /\ y \in Nat
    BY <1>2 DEF _actualDebt
  <2> HIDE DEF v, y
  <2>2. v \in Nat /\ v * R <= y /\ y < v * R + R
    BY <1>1, <2>1, WholePart
  <2> QED
    BY <2>2 DEF y
<1>5. m = IF v < x THEN n + 1 ELSE n
  BY DEF _normalizedDebt
<1>6. m \in Nat /\ a <= m * r /\ m * r < a + r
  <2> DEFINE y == n * r
             z == v * R
  <2>1. y \in Nat /\ z \in Nat /\ y <= a /\ a < y + r /\ z <= y /\ y < z + R
    BY <1>1, <1>2, <1>4
  <2> HIDE DEF v, n, m
  <2>2. CASE v < x
    <3>1. m = n + 1 /\ m * r = y + r
      BY <1>2, <1>5, <2>2
    <3>2. y < a
      <4>1. (v + 1) * R <= x * R
        BY <1>1, <1>4, <2>2, ProductMonotone
      <4>2. (v + 1) * R = z + R
        BY <1>1, <1>4
      <4> HIDE DEF y, z
      <4> QED
        BY <1>1, <2>1, <4>1, <4>2 DEF a
    <3> HIDE DEF y, z, a
    <3> QED
      BY <1>1, <1>2, <2>1, <3>1, <3>2
  <2>3. CASE ~(v < x)
    <3>1. m = n
      BY <1>5, <2>3
    <3>2. x * R <= v * R
      BY <1>1, <1>4, <2>3, ProductMonotone
    <3> HIDE DEF z
    <3>3. a <= y
      BY <1>1, <2>1, <3>2 DEF a, z
    <3> HIDE DEF a
    <3> QED
      BY <1>1, <1>2, <2>1, <3>1, <3>3 DEF y
  <2> QED
    BY <2>2, <2>3
<1> HIDE DEF n, m
<1> QED
  BY <1>2, <1>3, <1>6 DEF n, m

\* What closeTrove takes out of the pool is the trove's debt, or one more.
LEMMA RepaidNear ==
  ASSUME NEW n \in Nat, NEW r \in Nat \ {0}, RATE_PRECISION <= r,
         NEW a, a = _actualDebt(n, r), LUSD_GAS_COMPENSATION <= a
  PROVE  Repaid(a, r) \in Nat /\ n <= Repaid(a, r) /\ Repaid(a, r) <= n + Step(r)
<1> DEFINE R == RATE_PRECISION
           g == LUSD_GAS_COMPENSATION
           c == a - g
           i == _normalizedDebt(c, r)
           j == _normalizedDebt(g, r)
<1>0. a \in Nat
  BY Converted
<1>1. R \in Nat \ {0} /\ R <= r /\ g \in Nat /\ a \in Nat /\ c \in Nat
  BY <1>0, UnitsAssumption
<1>2. Repaid(a, r) = i + j
  BY Zenon DEF Repaid
<1>3. a * R <= n * r /\ n * r < a * R + r
  BY Converted
<1> HIDE DEF c
<1>4. i \in Nat /\ c * R <= i * r /\ i * r < c * R + r
  BY <1>1, Converted
<1>5. j \in Nat /\ g * R <= j * r /\ j * r < g * R + r
  BY <1>1, Converted
<1>6. a * R = c * R + g * R /\ (i + j) * r = i * r + j * r
  BY <1>1, <1>4, <1>5 DEF c
<1> HIDE DEF i, j
<1> DEFINE p == a * R
           w == n * r
           x == c * R
           y == g * R
           k == (i + j) * r
           ir == i * r
           jr == j * r
<1>7. p \in Int /\ w \in Int /\ x \in Int /\ y \in Int /\ k \in Int /\ ir \in Int /\ jr \in Int
  BY <1>1, <1>4, <1>5
<1>8. /\ p <= w /\ w < p + r /\ x <= ir /\ ir < x + r /\ y <= jr /\ jr < y + r
      /\ p = x + y /\ k = ir + jr
  BY <1>3, <1>4, <1>5, <1>6
<1> HIDE DEF p, w, x, y, k, ir, jr
<1>9. w < k + r /\ k < w + 2 * r
  BY <1>7, <1>8
<1>10. n <= i + j /\ i + j <= n + 1
  BY <1>4, <1>5, <1>9, FactorsCompare DEF w, k
<1>11. CASE r = R
  <2>1. a = n /\ i = c /\ j = g
    BY <1>1, <1>11, AtFirstRate DEF i, j
  <2>2. i + j = n
    BY <1>1, <2>1 DEF c
  <2> QED
    BY <1>2, <1>4, <1>5, <1>11, <2>2 DEF Step
<1>12. CASE r # R
  BY <1>2, <1>4, <1>5, <1>10, <1>12 DEF Step
<1> QED
  BY <1>11, <1>12

\* What offsetting the whole of a debt takes out of the pool is that debt, or one less.
LEMMA OffsetNear ==
  ASSUME NEW n \in Nat, NEW r \in Nat \ {0}, RATE_PRECISION <= r
  PROVE  /\ NormDown(_actualDebt(n, r), r) \in Nat
         /\ NormDown(_actualDebt(n, r), r) <= n /\ n <= NormDown(_actualDebt(n, r), r) + Step(r)
<1> DEFINE R == RATE_PRECISION
           a == _actualDebt(n, r)
           m == NormDown(a, r)
<1>1. R \in Nat \ {0} /\ a \in Nat /\ a * R <= n * r /\ n * r < a * R + r
  BY UnitsAssumption, Converted
<1> HIDE DEF a
<1>2. m \in Nat /\ m * r <= a * R /\ a * R < m * r + r
  BY <1>1, Converted
<1>3. m <= n
  BY <1>1, <1>2, NormalizedPart DEF a
<1> HIDE DEF m
<1>4. n <= m + 1
  <2> DEFINE p == a * R
             w == n * r
             k == m * r
  <2>1. p \in Int /\ w \in Int /\ k \in Int
    BY <1>1, <1>2
  <2>2. w < p + r /\ p < k + r
    BY <1>1, <1>2
  <2> HIDE DEF p, w, k
  <2>3. w < k + 2 * r
    BY <2>1, <2>2
  <2> QED
    BY <1>2, <2>3, FactorsCompare DEF w, k
<1>5. CASE r = R
  <2>1. a = n /\ m = a
    BY <1>1, <1>5, AtFirstRate DEF a, m
  <2>2. m \in Nat /\ m <= n /\ n <= m + Step(r)
    BY <1>2, <1>5, <2>1 DEF Step
  <2> QED
    BY <2>2 DEF a, m
<1>6. CASE r # R
  <2>1. m \in Nat /\ m <= n /\ n <= m + Step(r)
    BY <1>2, <1>3, <1>4, <1>6 DEF Step
  <2> QED
    BY <2>1 DEF a, m
<1> QED
  BY <1>5, <1>6

\* A lot in normalized debt is the lot, or up to one more.
LEMMA LotNear ==
  ASSUME NEW x \in Nat, NEW r \in Nat \ {0}, RATE_PRECISION <= r, NEW m, m = NormalizedLot(x, r)
  PROVE  /\ m \in Nat /\ x * RATE_PRECISION <= m * r
         /\ m * r <= x * RATE_PRECISION + Step(r) * r
<1> DEFINE R == RATE_PRECISION
           n == NormDown(x, r)
<1>1. R \in Nat \ {0} /\ m \in Nat /\ x * R <= m * r
  BY UnitsAssumption, LotCovered
<1>2. n \in Nat /\ n * r <= x * R
  BY Converted
<1>3. m = n \/ m = n + 1
  BY DEF NormalizedLot
<1> HIDE DEF n
<1>4. m * r <= x * R + r
  <2> DEFINE p == n * r
             y == x * R
  <2>1. p \in Nat /\ y \in Nat /\ p <= y
    BY <1>1, <1>2
  <2>2. m * r = p \/ m * r = p + r
    BY <1>2, <1>3
  <2> HIDE DEF p, y
  <2>3. m * r <= y + r
    BY <2>1, <2>2
  <2> QED
    BY <2>3 DEF y
<1>5. CASE r = R
  <2>1. m = x /\ Step(r) = 0
    BY <1>5, AtFirstRate DEF Step
  <2>2. m * r <= x * R + 0 * r
    BY <1>1, <1>5, <2>1
  <2> QED
    BY <1>1, <2>1, <2>2
<1>6. CASE r # R
  <2>1. Step(r) = 1
    BY <1>6 DEF Step
  <2>2. 1 * r = r
    OBVIOUS
  <2> QED
    BY <1>1, <1>4, <2>1, <2>2
<1> QED
  BY <1>5, <1>6

\* What is left of a debt at the closing is the gas compensation, or one off.
LEMMA ClosedNear ==
  ASSUME NEW n \in Nat, NEW r \in Nat \ {0}, RATE_PRECISION <= r, NEW x \in Nat,
         x + LUSD_GAS_COMPENSATION <= _actualDebt(n, r),
         NEW m, m = NormalizedLot(x, r), m <= n, _actualDebt(n - m, r) <= LUSD_GAS_COMPENSATION
  PROVE  Near(n - m, NormDown(LUSD_GAS_COMPENSATION, r), Step(r))
<1> DEFINE R == RATE_PRECISION
           g == LUSD_GAS_COMPENSATION
           c == NormDown(g, r)
           a == _actualDebt(n, r)
           o == n - m
           v == _actualDebt(o, r)
<1>1. R \in Nat \ {0} /\ R <= r /\ g \in Nat
  BY UnitsAssumption
<1>2. a \in Nat /\ a * R <= n * r
  BY Converted
<1>3. m \in Nat /\ m * r <= x * R + Step(r) * r
  BY LotNear
<1>4. o \in Nat
  BY <1>3
<1>5. c \in Nat /\ c * r <= g * R /\ g * R < c * r + r
  BY <1>1, Converted
<1> HIDE DEF c, a
<1>6. v \in Nat /\ o * r < v * R + r
  <2> HIDE DEF o
  <2> QED
    BY <1>4, Converted
<1> DEFINE nr == n * r
           mr == m * r
           cr == c * r
           og == o * r
           xR == x * R
           gR == g * R
<1>7. /\ nr \in Int /\ mr \in Int /\ cr \in Int /\ og \in Int /\ xR \in Int /\ gR \in Int
      /\ og = nr - mr
  BY <1>1, <1>3, <1>4, <1>5
<1>8. xR + gR <= nr
  <2>1. (x + g) * R <= a * R
    BY <1>1, <1>2, ProductMonotone DEF a
  <2>2. (x + g) * R = xR + gR
    BY <1>1
  <2> DEFINE aR == a * R
  <2>3. aR \in Int
    BY <1>1, <1>2
  <2>4. xR + gR <= aR /\ aR <= nr
    BY <1>2, <2>1, <2>2
  <2> HIDE DEF aR, xR, gR, nr
  <2> QED
    BY <1>7, <2>3, <2>4
<1>9. og < gR + r
  <2>1. v * R <= g * R
    BY <1>1, <1>6, ProductMonotone DEF v
  <2> DEFINE vR == v * R
  <2>2. vR \in Int
    BY <1>1, <1>6
  <2>3. vR <= gR /\ og < vR + r
    BY <1>6, <2>1
  <2> HIDE DEF vR, gR, og
  <2> QED
    BY <1>7, <2>2, <2>3
<1>10. CASE r # R
  <2>1. Step(r) = 1 /\ 1 * r = r
    BY <1>10 DEF Step
  <2>2. mr <= xR + r
    BY <1>3, <2>1
  <2>3. cr <= gR /\ gR < cr + r
    BY <1>5
  <2> HIDE DEF nr, mr, cr, og, xR, gR
  <2>4. cr < og + 2 * r /\ og < cr + 2 * r
    BY <1>7, <1>8, <1>9, <2>2, <2>3
  <2>5. c <= o + 1 /\ o <= c + 1
    <3> HIDE DEF o
    <3> QED
      BY <1>4, <1>5, <2>4, FactorsCompare DEF cr, og
  <2>6. Near(o, c, 1)
    BY <1>4, <1>5, <2>5 DEF Near
  <2> QED
    BY <2>1, <2>6 DEF c
<1>11. CASE r = R
  <2>1. Step(r) = 0 /\ c = g /\ m = x /\ a = n /\ v = o
    BY <1>1, <1>4, <1>11, AtFirstRate DEF Step, c, a
  <2>2. x + g <= n /\ v <= g
    BY <2>1 DEF a
  <2>3. o = g
    BY <1>1, <2>1, <2>2
  <2>4. Near(o, c, 0)
    BY <1>1, <2>1, <2>3 DEF Near
  <2> QED
    BY <2>1, <2>4 DEF c
<1> QED
  BY <1>10, <1>11

-----------------------------------------------------------------------------
(***************************************************************************)
(* The steps of borrowers                                                  *)
(***************************************************************************)

\* What a transaction may be off by, in the pool whose rate is q.
Slack(q) == IF q = RATE_PRECISION THEN 0 ELSE TroveRounding

\* At such a rate a pending debt is the same in either unit, if there is one at all.
Plain(q) == q = RATE_PRECISION \/ rw.L_LUSDDebt = 0

\* The step keeps the gap of pool z.
Drift(z) ==
  Plain(rate'[z]) =>
    Near(Gap(active', trove', shielded', z), Gap(active, trove, shielded, z), Slack(rate'[z]))

\* The bound is for two units per trove.
LEMMA SlackTyped ==
  ASSUME NEW q
  PROVE  /\ Cardinality(Borrowers) \in Nat /\ Slack(q) \in Nat /\ Step(q) \in 0..1
         /\ Slack(q) = 2 * Cardinality(Borrowers) * Step(q)
         /\ Borrowers # {} => Step(q) <= Slack(q)
<1>1. Cardinality(Borrowers) \in Nat
  BY FiniteBorrowers, FS_CardinalityType
<1>2. Borrowers # {} => Cardinality(Borrowers) > 0
  BY <1>1, FiniteBorrowers, FS_EmptySet
<1> QED
  BY <1>1, <1>2 DEF Slack, Step, TroveRounding

\* The part of the gap around a trove is a number.
LEMMA OwnTyped ==
  ASSUME NEW p, IntPools(p), NEW n \in Int, NEW s \in BOOLEAN, NEW z \in BOOLEAN
  PROVE  Own(p, n, s, z) \in Int
<1> DEFINE x == p[z].debt
           i == DebtIn(n, s, z)
<1>1. x \in Int
  BY Zenon DEF IntPools
<1>2. i \in Int
  BY DebtInTyped
<1>3. Own(p, n, s, z) = x - i
  BY DEF Own
<1> HIDE DEF x, i
<1> QED
  BY <1>1, <1>2, <1>3

\* The pools of a branch have a debt.
LEMMA PoolsHaveDebt ==
  ASSUME NEW p \in [BOOLEAN -> Balances]
  PROVE  IntPools(p)
<1>1. \A x \in Balances : x.debt \in Int
  BY DEF Balances
<1>2. p = [z \in BOOLEAN |-> p[z]] /\ \A z \in BOOLEAN : p[z] \in Balances
  BY Zenon
<1> QED
  BY <1>1, <1>2, Zenon DEF IntPools

\* Where nothing else happens to the gap of pool z than a part of a trove.
LEMMA SmallDrift ==
  ASSUME NEW t \in [Borrowers -> Troves], NEW u \in [Borrowers -> Troves],
         NEW sh \in [Borrowers -> BOOLEAN], NEW sj \in [Borrowers -> BOOLEAN],
         NEW p, IntPools(p), NEW q, IntPools(q), NEW b \in Borrowers, NEW z \in BOOLEAN,
         \A c \in Borrowers \ {b} : u[c] = t[c] /\ sj[c] = sh[c],
         NEW r, NEW k \in Int, Near(k, 0, Step(r)),
         Own(q, u[b].debt, sj[b], z) = Own(p, t[b].debt, sh[b], z) + k
  PROVE  Near(Gap(q, u, sj, z), Gap(p, t, sh, z), Slack(r))
<1> DEFINE x == Gap(q, u, sj, z)
           y == Gap(p, t, sh, z)
           i == Own(q, u[b].debt, sj[b], z)
           j == Own(p, t[b].debt, sh[b], z)
<1>1. x - y = i - j
  BY GapChange
<1>2. x \in Int /\ y \in Int
  BY GapTyped
<1>3. i \in Int /\ j \in Int
  <2>1. t[b].debt \in Int /\ u[b].debt \in Int /\ sh[b] \in BOOLEAN /\ sj[b] \in BOOLEAN
    BY DEF Troves
  <2> QED
    BY <2>1, OwnTyped
<1>4. i = j + k
  OBVIOUS
<1>5. Step(r) \in Nat /\ Slack(r) \in Nat /\ Step(r) <= Slack(r)
  BY SlackTyped
<1> HIDE DEF x, y, i, j
<1>6. x - y = k
  BY <1>1, <1>2, <1>3, <1>4
<1>7. Near(x, y, Slack(r))
  BY <1>2, <1>5, <1>6 DEF Near
<1> QED
  BY <1>7 DEF x, y

\* Without debt it does not matter where a trove is.
LEMMA OwnNothing ==
  ASSUME NEW p, NEW s \in BOOLEAN, NEW o \in BOOLEAN, NEW z \in BOOLEAN
  PROVE  Own(p, 0, s, z) = Own(p, 0, o, z)
BY Zenon DEF Own, DebtIn

\* At a plain rate a pending debt is the same in both units.
LEMMA PlainPending ==
  ASSUME BranchInv, NEW b \in Borrowers, NEW q \in Nat \ {0}, Plain(q),
         NEW n, n = getPendingLUSDDebtReward(b)
  PROVE  n \in Nat /\ NormDown(n, q) = n /\ _normalizedDebt(n, q) = n
<1>1. n \in Nat
  BY PendingTyped
<1>2. CASE q = RATE_PRECISION
  BY <1>1, <1>2, AtFirstRate
<1>3. CASE rw.L_LUSDDebt = 0
  <2> DEFINE x == trove[b].stake
             y == rw.L_LUSDDebt - snap[b].LUSDDebt
  <2>1. x \in Nat /\ y = 0
    BY <1>3 DEF BranchInv, AccountsOK, Troves, Snaps, RewardSums
  <2>2. n = 0 \/ n = (x * y) \div DECIMAL_PRECISION
    BY DEF getPendingLUSDDebtReward
  <2> HIDE DEF x, y
  <2>3. x * y = 0
    BY <2>1
  <2>4. n = 0
    BY <2>2, <2>3, UnitsAssumption
  <2>5. NormDown(0, q) = 0
    BY UnitsAssumption DEF NormDown
  <2>6. _actualDebt(0, q) = 0
    BY UnitsAssumption DEF _actualDebt
  <2>7. _normalizedDebt(0, q) = 0
    BY <2>5, <2>6 DEF _normalizedDebt
  <2> QED
    BY <2>4, <2>5, <2>7
<1> QED
  BY <1>1, <1>2, <1>3 DEF Plain

\* Applying rewards gives a trove and its pool the same.
LEMMA AppliedOwn ==
  ASSUME BranchInv, NEW b \in Borrowers, NEW s \in BOOLEAN, NEW z \in BOOLEAN, NEW r \in Rates,
         Plain(r[z]), NEW t \in Troves, NEW pools, IntPools(pools), NEW dflt,
         NEW a, a = _applyPendingRewards(b, s, r, t, pools, dflt)
  PROVE  /\ IntPools(a.pools) /\ a.trove.debt \in Nat
         /\ Own(a.pools, a.trove.debt, s, z) = Own(pools, t.debt, s, z)
<1> DEFINE coll == getPendingCollateralReward(b)
           debt == getPendingLUSDDebtReward(b)
           d == t.debt
           n == NormDown(debt, r[s])
<1>1. coll \in Nat /\ debt \in Nat /\ d \in Nat
  BY PendingTyped DEF Troves
<1>2. CASE ~hasPendingRewards(b)
  <2>1. a.trove = t /\ a.pools = pools
    BY <1>2 DEF _applyPendingRewards
  <2> QED
    BY <1>1, <2>1
<1>3. CASE hasPendingRewards(b)
  <2> DEFINE tr == [debt |-> t.debt + debt, coll |-> t.coll + coll, stake |-> t.stake]
             pl == AddToPool(pools, s, n, coll)
             df == [debt |-> dflt.debt - debt, coll |-> dflt.coll - coll]
  <2>1. a = [trove |-> tr, snap |-> Current, pools |-> pl, default |-> df]
    BY <1>3, Zenon DEF _applyPendingRewards
  <2>2. a.trove.debt = d + debt /\ a.pools = pl
    BY <2>1
  <2>3. n \in Nat
    BY <1>1, Converted, RatesPositive
  <2>4. DebtIn(n - debt, s, z) = 0
    <3>1. CASE s = z
      <4>1. r[z] \in Nat \ {0} /\ Plain(r[s])
        BY <3>1, RatesPositive
      <4>2. n = debt
        BY <3>1, <4>1, PlainPending
      <4> HIDE DEF n, debt
      <4> QED
        BY <1>1, <4>2, DebtInTyped
    <3>2. CASE s # z
      BY <3>2 DEF DebtIn
    <3> QED
      BY <3>1, <3>2
  <2> HIDE DEF coll, debt, n, d
  <2>5. n \in Int /\ debt \in Int /\ d \in Int
    BY <1>1, <2>3
  <2> DEFINE now == d + debt
             e == n - debt
  <2>6. IntPools(pl) /\ Own(pl, now, s, z) = Own(pools, d, s, z) + DebtIn(e, s, z)
    <3>1. now \in Int /\ e = (n + d) - now
      BY <2>5
    <3>2. pl = AddToPool(pools, s, n, coll)
      OBVIOUS
    <3> HIDE DEF now, e, pl
    <3>3. Exchanged(pools, pl, s, n, coll, d, now, e)
      BY <3>1, <3>2, Zenon DEF Exchanged
    <3>4. OwnGrows(pools, pl, s, z, d, now, e)
      BY <2>5, <3>1, <3>3, AddOwn
    <3> QED
      BY <3>4, Zenon DEF OwnGrows
  <2>7. Own(pools, d, s, z) \in Int
    BY <2>5, OwnTyped
  <2>8. Own(pl, d + debt, s, z) = Own(pools, d, s, z)
    BY <2>4, <2>6, <2>7
  <2>9. d + debt \in Nat
    BY <1>1
  <2> QED
    BY <2>2, <2>6, <2>8, <2>9 DEF d
<1> QED
  BY <1>2, <1>3

\* An owner without an active trove has no debt on the books.
Cleared(st, t) == \A b \in Borrowers : st[b] # "active" => t[b].debt = 0

\* What the proofs below use of the books, before a step and after it.
LEMMA BooksTyped ==
  ASSUME BranchInv
  PROVE  /\ trove \in [Borrowers -> Troves] /\ shielded \in [Borrowers -> BOOLEAN]
         /\ active \in [BOOLEAN -> Balances] /\ IntPools(active) /\ default \in Balances
         /\ status \in [Borrowers -> Statuses]
<1>1. active \in [BOOLEAN -> Balances]
  BY DEF BranchInv, PoolsOK
<1> QED
  BY <1>1, PoolsHaveDebt DEF BranchInv, AccountsOK, OwnersOK, PoolsOK

\* A step that touches one trove, with k to say what its part of the gap changes by.
LEMMA DriftBy ==
  ASSUME BranchInv, BranchInv', NEW b \in Borrowers, NEW z \in BOOLEAN,
         \A c \in Borrowers \ {b} : trove'[c] = trove[c] /\ shielded'[c] = shielded[c],
         NEW k \in Int, Near(k, 0, Step(rate'[z])),
         Own(active', trove'[b].debt, shielded'[b], z)
           = Own(active, trove[b].debt, shielded[b], z) + k
  PROVE  Drift(z)
<1> DEFINE u == trove'
           sj == shielded'
           q == active'
           r == rate'[z]
           t == trove
           sh == shielded
           p == active
<1>1. t \in [Borrowers -> Troves] /\ sh \in [Borrowers -> BOOLEAN] /\ IntPools(p)
  BY BooksTyped
<1>2. u \in [Borrowers -> Troves] /\ sj \in [Borrowers -> BOOLEAN] /\ IntPools(q)
  <2>1. active' \in [BOOLEAN -> Balances]
    BY DEF BranchInv, PoolsOK
  <2>2. trove' \in [Borrowers -> Troves] /\ shielded' \in [Borrowers -> BOOLEAN]
    BY DEF BranchInv, AccountsOK, OwnersOK
  <2> QED
    BY <2>1, <2>2, PoolsHaveDebt
<1>3. /\ \A c \in Borrowers \ {b} : u[c] = t[c] /\ sj[c] = sh[c]
      /\ Near(k, 0, Step(r))
      /\ Own(q, u[b].debt, sj[b], z) = Own(p, t[b].debt, sh[b], z) + k
  OBVIOUS
<1>4. Near(Gap(q, u, sj, z), Gap(p, t, sh, z), Slack(r)) => Drift(z)
  BY Zenon DEF Drift
<1> HIDE DEF u, sj, q, r, t, sh, p
<1>5. Near(Gap(q, u, sj, z), Gap(p, t, sh, z), Slack(r))
  BY <1>1, <1>2, <1>3, SmallDrift
<1> QED
  BY <1>4, <1>5, Zenon

\* A pool gets debt n with a trove of it, which nothing else has to do with.
LEMMA SameOwn ==
  ASSUME NEW p, IntPools(p), NEW s \in BOOLEAN, NEW z \in BOOLEAN, NEW n \in Int,
         NEW coll, NEW q, NEW debt \in Int, NEW now \in Int,
         Exchanged(p, q, s, n, coll, debt, now, 0)
  PROVE  IntPools(q) /\ Own(q, now, s, z) = Own(p, debt, s, z)
<1> DEFINE x == Own(p, debt, s, z)
           y == Own(q, now, s, z)
<1>1. OwnGrows(p, q, s, z, debt, now, 0)
  BY AddOwn
<1>2. DebtIn(0, s, z) = 0
  BY DEF DebtIn
<1>3. IntPools(q) /\ y = x + 0
  BY <1>1, <1>2, Zenon DEF OwnGrows
<1>4. x \in Int
  BY OwnTyped
<1> HIDE DEF x, y
<1>5. y = x
  BY <1>3, <1>4
<1> QED
  BY <1>3, <1>5 DEF x, y

\* Nothing is within any bound of nothing.
LEMMA NearNothing ==
  ASSUME NEW q
  PROVE  Near(0, 0, Step(q))
BY SlackTyped DEF Near

\* openTrove gives a trove and its pool the same debt.
LEMMA OpenDrift ==
  ASSUME BranchInv, BranchInv', Cleared(status, trove), NEW b \in Borrowers, NEW coll \in Colls,
         NEW amount \in Amounts, NEW shield \in BOOLEAN, NEW price \in Prices, NEW d \in Drips,
         openTrove(b, coll, amount, shield, price, d), NEW z \in BOOLEAN
  PROVE  Cleared(status', trove') /\ Drift(z)
<1> DEFINE n == _normalizedDebt(amount + LUSD_GAS_COMPENSATION, d.rate[shield])
           stake == _computeNewStake(coll)
           new == [debt |-> trove[b].debt + n, coll |-> trove[b].coll + coll, stake |-> stake]
<1>1. /\ status' = [status EXCEPT ![b] = "active"] /\ shielded' = [shielded EXCEPT ![b] = shield]
      /\ trove' = [trove EXCEPT ![b] = new] /\ active' = AddToPool(active, shield, n, coll)
      /\ status[b] # "active"
  BY Zenon DEF openTrove
<1>2. /\ trove \in [Borrowers -> Troves] /\ shielded \in [Borrowers -> BOOLEAN]
      /\ IntPools(active) /\ status \in [Borrowers -> Statuses]
  BY BooksTyped
<1>3. /\ trove' \in [Borrowers -> Troves] /\ shielded' \in [Borrowers -> BOOLEAN]
      /\ IntPools(active')
  <2>1. active' \in [BOOLEAN -> Balances]
    BY DEF BranchInv, PoolsOK
  <2> QED
    BY <2>1, PoolsHaveDebt DEF BranchInv, AccountsOK, OwnersOK
<1>4. trove[b].debt = 0 /\ n \in Nat
  <2>1. amount + LUSD_GAS_COMPENSATION \in Nat
    BY InputsAssumption, UnitsAssumption
  <2>2. d.rate[shield] \in Nat \ {0}
    BY DripsOfBranch, RatesPositive
  <2>3. n \in Nat
    BY <2>1, <2>2, Conversions
  <2> QED
    BY <1>1, <2>3 DEF Cleared
<1>5. new.debt = 0 + n
  BY <1>4
<1> HIDE DEF n, new
<1>6. /\ trove'[b] = new /\ shielded'[b] = shield /\ status'[b] = "active"
      /\ \A c \in Borrowers \ {b} :
           trove'[c] = trove[c] /\ shielded'[c] = shielded[c] /\ status'[c] = status[c]
  BY <1>1, <1>2
<1>7. Cleared(status', trove')
  BY <1>6, Zenon DEF Cleared
<1>8. Own(active', trove'[b].debt, shielded'[b], z)
        = Own(active, trove[b].debt, shielded[b], z) + 0
  <2> DEFINE p == active
             q == active'
             x == Own(p, 0, shield, z)
  <2>1. q = AddToPool(p, shield, n, coll) /\ IntPools(p)
    BY <1>1, <1>2
  <2>2. 0 \in Int /\ n \in Int
    BY <1>4
  <2>3. x = Own(active, trove[b].debt, shielded[b], z)
    <3>1. shielded[b] \in BOOLEAN
      BY <1>2
    <3> QED
      BY <1>4, <3>1, OwnNothing
  <2>4. Own(active', trove'[b].debt, shielded'[b], z) = Own(q, n, shield, z)
    <3>1. new.debt = n
      BY <1>4, <1>5
    <3>2. trove'[b].debt = n
      BY <1>6, <3>1, Zenon
    <3> QED
      BY <1>6, <3>2, Zenon
  <2> HIDE DEF p, q
  <2>5. Own(q, n, shield, z) = x
    <3> DEFINE before == 0
    <3>1. Exchanged(p, q, shield, n, coll, before, n, 0) /\ before \in Int
      BY <2>1, <2>2 DEF Exchanged
    <3> HIDE DEF before, x
    <3>2. Own(q, n, shield, z) = Own(p, before, shield, z)
      BY <2>1, <2>2, <3>1, SameOwn
    <3> QED
      BY <3>2, Zenon DEF x, before
  <2>6. x \in Int
    BY <2>1, <2>2, OwnTyped
  <2> HIDE DEF x
  <2>7. x = x + 0
    BY <2>6
  <2> QED
    BY <2>3, <2>4, <2>5, <2>7, Zenon
<1>9. 0 \in Int /\ Near(0, 0, Step(rate'[z]))
  BY NearNothing
<1>10. Drift(z)
  BY <1>6, <1>8, <1>9, DriftBy
<1> QED
  BY <1>7, <1>10

\* Toggling a shield takes the debt out of one pool and puts the new one into the other.
LEMMA ToggleOwn ==
  ASSUME BranchInv, NEW b \in Borrowers, NEW s \in BOOLEAN, NEW r \in Rates,
         NEW m, m = ToggleShield(b, s, r), NEW z \in BOOLEAN
  PROVE  /\ IntPools(m.pools) /\ m.trove \in Troves
         /\ \A i \in BOOLEAN :
              i # s => Own(m.pools, m.trove.debt, s, z) = Own(active, trove[b].debt, i, z)
<1> DEFINE o == ~s
           old == trove[b].debt
           n == (old * r[o]) \div r[s]
           minus == -old
           first == AddToPool(active, o, minus, 0)
           second == AddToPool(first, s, n, 0)
           t == [trove[b] EXCEPT !.debt = n]
<1>1. m = [trove |-> t, pools |-> second]
  BY Zenon DEF ToggleShield
<1>2. trove[b] \in Troves /\ IntPools(active)
  BY BooksTyped
<1>3. old \in Nat /\ n \in Nat
  <2>1. r[o] \in Nat \ {0} /\ r[s] \in Nat \ {0}
    BY RatesPositive
  <2> DEFINE x == r[o]
             y == r[s]
  <2>2. old \in Nat /\ x \in Nat /\ y \in Nat \ {0} /\ n = (old * x) \div y
    BY <1>2, <2>1 DEF Troves
  <2> HIDE DEF x, y, old, n
  <2>3. old * x \in Nat
    BY <2>2
  <2> QED
    BY <2>2, <2>3, DivBounds
<1> HIDE DEF n
<1>4. t \in Troves /\ t.debt = n
  BY <1>2, <1>3 DEF Troves
<1> HIDE DEF t, second, first
<1>5. m.trove = t /\ m.pools = second
  BY <1>1
<1> HIDE DEF old
<1>6. minus \in Int /\ old \in Int /\ n \in Int /\ 0 \in Int
  BY <1>3
<1> HIDE DEF o
<1>7. o \in BOOLEAN
  BY DEF o
<1>8. IntPools(first) /\ Own(first, 0, o, z) = Own(active, old, o, z)
  <2>1. Exchanged(active, first, o, minus, 0, old, 0, 0)
    BY <1>6 DEF Exchanged, first
  <2> QED
    BY <1>2, <1>6, <1>7, <2>1, SameOwn
<1> HIDE DEF minus
<1>9. IntPools(second) /\ Own(second, n, s, z) = Own(first, 0, s, z)
  <2>1. Exchanged(first, second, s, n, 0, 0, n, 0)
    BY <1>6 DEF Exchanged, second
  <2> QED
    BY <1>6, <1>8, <2>1, SameOwn
<1>10. Own(first, 0, s, z) = Own(first, 0, o, z)
  BY <1>7, OwnNothing
<1>11. Own(second, n, s, z) = Own(active, old, o, z)
  BY <1>6, <1>8, <1>9, <1>10
<1>12. \A i \in BOOLEAN : i # s => i = o
  BY <1>7 DEF o
<1> QED
  BY <1>4, <1>5, <1>9, <1>11, <1>12, Zenon DEF old

\* adjustTrove gives and takes the same in a trove and in its pool.
LEMMA AdjustDrift ==
  ASSUME BranchInv, BranchInv', Cleared(status, trove), NEW b \in Borrowers,
         NEW a \in Adjustments, NEW price \in Prices, NEW d \in Drips,
         adjustTrove(b, a, price, d), NEW z \in BOOLEAN
  PROVE  Cleared(status', trove') /\ Drift(z)
<1> DEFINE s == shielded[b] # a.toggle
           r == d.rate
           moved == IF a.toggle THEN ToggleShield(b, s, r) ELSE [trove |-> trove[b], pools |-> active]
           x == moved.trove
           pools == moved.pools
           applied == _applyPendingRewards(b, s, r, x, pools, default)
           t == applied.trove
           n == IF a.debt >= 0 THEN _normalizedDebt(a.debt, r[s]) ELSE -_normalizedDebt(-a.debt, r[s])
           stake == _computeNewStake(t.coll + a.coll)
           new == [debt |-> t.debt + n, coll |-> t.coll + a.coll, stake |-> stake]
<1>1. /\ status[b] = "active" /\ status' = status /\ shielded' = [shielded EXCEPT ![b] = s]
      /\ trove' = [trove EXCEPT ![b] = new] /\ rate' = r
      /\ active' = AddToPool(applied.pools, s, n, a.coll)
  BY Zenon DEF adjustTrove
<1>2. /\ trove \in [Borrowers -> Troves] /\ shielded \in [Borrowers -> BOOLEAN]
      /\ IntPools(active) /\ trove[b] \in Troves /\ shielded[b] \in BOOLEAN
  BY BooksTyped
<1>3. r \in Rates /\ s \in BOOLEAN /\ a.toggle \in BOOLEAN /\ a.debt \in Int
  BY DripsOfBranch, InputsAssumption
<1>4. n \in Int
  <2> DEFINE q == r[s]
             v == a.debt
  <2>1. q \in Nat \ {0} /\ v \in Int
    BY <1>3, RatesPositive
  <2>2. n = IF v >= 0 THEN _normalizedDebt(v, q) ELSE -_normalizedDebt(-v, q)
    OBVIOUS
  <2> HIDE DEF q, v, n
  <2>3. CASE v >= 0
    <3>1. v \in Nat
      BY <2>1, <2>3
    <3> QED
      BY <2>1, <2>2, <2>3, <3>1, Conversions
  <2>4. CASE ~(v >= 0)
    <3> DEFINE y == -v
    <3>1. y \in Nat
      BY <2>1, <2>4
    <3>2. n = -_normalizedDebt(y, q)
      BY <2>2, <2>4
    <3> HIDE DEF y
    <3>3. _normalizedDebt(y, q) \in Nat
      BY <2>1, <3>1, Conversions
    <3> QED
      BY <3>2, <3>3
  <2> QED
    BY <2>3, <2>4
<1>5. /\ IntPools(pools) /\ x \in Troves
      /\ Own(pools, x.debt, s, z) = Own(active, trove[b].debt, shielded[b], z)
  <2>1. CASE a.toggle
    <3>1. moved = ToggleShield(b, s, r)
      BY <2>1
    <3>2. shielded[b] # s
      BY <1>2, <1>3, <2>1
    <3> HIDE DEF moved, s, r
    <3>3. /\ IntPools(moved.pools) /\ moved.trove \in Troves
          /\ \A i \in BOOLEAN : i # s =>
               Own(moved.pools, moved.trove.debt, s, z) = Own(active, trove[b].debt, i, z)
      BY <1>3, <3>1, ToggleOwn
    <3> QED
      BY <1>2, <3>2, <3>3, Zenon
  <2>2. CASE ~a.toggle
    <3>1. moved = [trove |-> trove[b], pools |-> active]
      BY <2>2
    <3>2. x = trove[b] /\ pools = active
      BY <3>1
    <3>3. s = shielded[b]
      BY <1>2, <1>3, <2>2
    <3> HIDE DEF x, pools, s
    <3> QED
      BY <1>2, <3>2, <3>3
  <2> QED
    BY <2>1, <2>2
<1> HIDE DEF n, x, pools, r, s
<1>6. ASSUME Plain(rate'[z])
      PROVE  Drift(z)
  <2>1. /\ IntPools(applied.pools) /\ t.debt \in Nat
        /\ Own(applied.pools, t.debt, s, z) = Own(pools, x.debt, s, z)
    <3>1. Plain(r[z])
      BY <1>1, <1>6
    <3> HIDE DEF applied
    <3>2. applied = _applyPendingRewards(b, s, r, x, pools, default)
      BY DEF applied
    <3> QED
      BY <1>3, <1>5, <3>1, <3>2, AppliedOwn
  <2> DEFINE ap == applied.pools
             q == active'
             v == t.debt
             coll == a.coll
  <2>2. IntPools(ap) /\ v \in Int /\ q = AddToPool(ap, s, n, coll)
    BY <1>1, <2>1
  <2>6. new.debt = v + n
    OBVIOUS
  <2> HIDE DEF new
  <2>7. trove'[b] = new /\ shielded'[b] = s
    BY <1>1, <1>2
  <2>8. \A c \in Borrowers \ {b} : trove'[c] = trove[c] /\ shielded'[c] = shielded[c]
    BY <1>1, <1>2
  <2>9. Own(active', trove'[b].debt, shielded'[b], z) = Own(q, v + n, s, z)
    BY <2>6, <2>7
  <2>10. Own(ap, v, s, z) = Own(active, trove[b].debt, shielded[b], z)
    BY <1>5, <2>1
  <2> HIDE DEF ap, q, v, coll
  <2> DEFINE now == v + n
  <2>11. Own(q, now, s, z) = Own(ap, v, s, z)
    <3>1. now \in Int /\ s \in BOOLEAN /\ n \in Int
      BY <1>3, <1>4, <2>2
    <3>2. Exchanged(ap, q, s, n, coll, v, now, 0)
      BY <2>2, <3>1 DEF Exchanged
    <3> HIDE DEF now
    <3> QED
      BY <2>2, <3>1, <3>2, SameOwn
  <2> DEFINE w == Own(ap, v, s, z)
  <2>12. w \in Int
    BY <1>3, <2>2, OwnTyped
  <2> HIDE DEF w
  <2>13. w = w + 0
    BY <2>12
  <2>14. Own(active', trove'[b].debt, shielded'[b], z)
           = Own(active, trove[b].debt, shielded[b], z) + 0
    BY <2>9, <2>10, <2>11, <2>13, Zenon DEF w
  <2>15. 0 \in Int /\ Near(0, 0, Step(rate'[z]))
    BY NearNothing
  <2> QED
    BY <1>3, <2>8, <2>14, <2>15, DriftBy
<1>7. Drift(z)
  BY <1>6 DEF Drift
<1>8. Cleared(status', trove')
  BY <1>1, <1>2 DEF Cleared
<1> QED
  BY <1>7, <1>8

\* closeTrove takes from the pool what the trove owes, or one more.
LEMMA CloseDrift ==
  ASSUME BranchInv, BranchInv', Cleared(status, trove), NEW b \in Borrowers, NEW d \in Drips,
         closeTrove(b, d), NEW z \in BOOLEAN
  PROVE  Cleared(status', trove') /\ Drift(z)
<1> DEFINE s == shielded[b]
           r == d.rate
           x == trove[b]
           pools == active
           applied == _applyPendingRewards(b, s, r, x, pools, default)
           t == applied.trove
           actual == _actualDebt(t.debt, r[s])
           n == Repaid(actual, r[s])
           coll == -t.coll
           minus == -n
<1>1. /\ status' = [status EXCEPT ![b] = "closedByOwner"]
      /\ shielded' = [shielded EXCEPT ![b] = FALSE]
      /\ trove' = [trove EXCEPT ![b] = [debt |-> 0, coll |-> 0, stake |-> 0]] /\ rate' = r
      /\ active' = AddToPool(applied.pools, s, minus, coll)
      /\ actual >= LUSD_GAS_COMPENSATION
  BY Zenon DEF closeTrove
<1>2. /\ trove \in [Borrowers -> Troves] /\ shielded \in [Borrowers -> BOOLEAN]
      /\ IntPools(active) /\ trove[b] \in Troves /\ shielded[b] \in BOOLEAN
      /\ status \in [Borrowers -> Statuses]
  BY BooksTyped
<1>3. r \in Rates /\ s \in BOOLEAN /\ x \in Troves /\ IntPools(pools)
  BY <1>2, DripsOfBranch
<1>4. /\ trove'[b].debt = 0 /\ shielded'[b] = FALSE /\ status'[b] = "closedByOwner"
      /\ \A c \in Borrowers \ {b} :
           trove'[c] = trove[c] /\ shielded'[c] = shielded[c] /\ status'[c] = status[c]
  BY <1>1, <1>2
<1>5. Cleared(status', trove')
  BY <1>4, Zenon DEF Cleared
<1>6. ASSUME Plain(rate'[z])
      PROVE  Drift(z)
  <2>1. /\ IntPools(applied.pools) /\ t.debt \in Nat
        /\ Own(applied.pools, t.debt, s, z) = Own(pools, x.debt, s, z)
    <3>1. Plain(r[z])
      BY <1>1, <1>6
    <3> HIDE DEF applied, s, r, x, pools
    <3>2. applied = _applyPendingRewards(b, s, r, x, pools, default)
      BY DEF applied
    <3> QED
      BY <1>3, <3>1, <3>2, AppliedOwn
  <2> DEFINE ap == applied.pools
             q == active'
             v == t.debt
             e == v - n
             w == Own(ap, v, s, z)
             y == r[s]
  <2>2. IntPools(ap) /\ v \in Nat /\ q = AddToPool(ap, s, minus, coll)
    BY <1>1, <2>1
  <2>3. y \in Nat \ {0} /\ RATE_PRECISION <= y
    BY <1>3, RatesPositive
  <2>4. actual = _actualDebt(v, y) /\ n = Repaid(actual, y) /\ LUSD_GAS_COMPENSATION <= actual
    <3>1. actual = _actualDebt(v, y) /\ n = Repaid(actual, y)
      OBVIOUS
    <3> HIDE DEF actual, n
    <3>2. actual \in Nat
      BY <2>2, <2>3, <3>1, Converted DEF y, v
    <3> QED
      BY <1>1, <3>1, <3>2, UnitsAssumption DEF actual
  <2>5. w = Own(active, trove[b].debt, shielded[b], z)
    BY <2>1
  <2>6. Own(active', trove'[b].debt, shielded'[b], z) = Own(q, 0, FALSE, z)
    BY <1>4
  <2>7. z = s => y = rate'[z]
    BY <1>1
  <2> HIDE DEF ap, q, v, n, actual, coll, y, s, r, x, pools, applied, w
  <2>8. n \in Nat /\ v <= n /\ n <= v + Step(y)
    BY <2>2, <2>3, <2>4, RepaidNear
  <2>9. e \in Int
    BY <2>2, <2>8
  <2>10. s \in BOOLEAN /\ n \in Int /\ v \in Int
    BY <1>3, <2>2, <2>8
  <2>11. IntPools(q) /\ Own(q, 0, s, z) = w + DebtIn(e, s, z)
    <3>1. Exchanged(ap, q, s, minus, coll, v, 0, e) /\ minus \in Int /\ 0 \in Int
      BY <2>2, <2>10 DEF Exchanged
    <3> HIDE DEF minus, e
    <3>2. OwnGrows(ap, q, s, z, v, 0, e)
      BY <2>2, <2>10, <3>1, AddOwn
    <3> QED
      BY <3>2, Zenon DEF OwnGrows, w
  <2> HIDE DEF e, minus
  <2>12. Own(q, 0, FALSE, z) = Own(q, 0, s, z)
    BY <1>3, OwnNothing
  <2>13. Own(active', trove'[b].debt, shielded'[b], z)
           = Own(active, trove[b].debt, shielded[b], z) + DebtIn(e, s, z)
    BY <2>5, <2>6, <2>11, <2>12, Zenon
  <2> DEFINE k == DebtIn(e, s, z)
  <2>14. k \in Int /\ Near(k, 0, Step(rate'[z]))
    <3>1. Step(y) \in 0..1
      BY SlackTyped
    <3>2. Near(e, 0, Step(y))
      BY <2>10, <2>8, <3>1 DEF Near, e
    <3>3. CASE s = z
      <4>1. k = e
        BY <3>3, Zenon DEF DebtIn
      <4> QED
        BY <2>7, <2>9, <3>2, <3>3, <4>1, Zenon
    <3>4. CASE s # z
      <4>1. k = 0
        BY <3>4, Zenon DEF DebtIn
      <4>2. Near(0, 0, Step(rate'[z])) /\ 0 \in Int
        BY NearNothing
      <4> QED
        BY <4>1, <4>2, Zenon
    <3> QED
      BY <3>3, <3>4, Zenon
  <2>15. Own(active', trove'[b].debt, shielded'[b], z)
           = Own(active, trove[b].debt, shielded[b], z) + k
    BY <2>13
  <2>16. \A c \in Borrowers \ {b} : trove'[c] = trove[c] /\ shielded'[c] = shielded[c]
    BY <1>4
  <2> HIDE DEF k
  <2> QED
    BY <2>14, <2>15, <2>16, DriftBy
<1>7. Drift(z)
  BY <1>6 DEF Drift
<1> QED
  BY <1>5, <1>7

-----------------------------------------------------------------------------
(***************************************************************************)
(* The debt that a liquidation moves                                       *)
(***************************************************************************)

\* A sum of zeros and ones is no more than there are of them.
LEMMA SumCount ==
  ASSUME NEW S, IsFiniteSet(S), NEW f, \A s \in S : f[s] \in 0..1
  PROVE  SumFunctionOnSet(f, S) \in 0..Cardinality(S)
<1> DEFINE F(X) == SumFunctionOnSet(f, X)
           C(X) == Cardinality(X)
           T == {X \in SUBSET S : F(X) <= C(X)}
<1>1. ASSUME NEW Y \in SUBSET S, \A X \in SUBSET Y : X # Y => X \in T
      PROVE  Y \in T
  <2>1. CASE Y = {}
    BY <2>1, SumEmpty, FS_EmptySet
  <2>2. CASE Y # {}
    <3>1. PICK y \in Y : TRUE
      BY <2>2
    <3>2. IsFiniteSet(Y) /\ IsFiniteSet(Y \ {y}) /\ C(Y) \in Nat /\ C(Y \ {y}) = C(Y) - 1
      BY <3>1, FS_Subset, FS_RemoveElement, FS_CardinalityType
    <3>3. F(Y) = f[y] + F(Y \ {y}) /\ F(Y \ {y}) \in Int
      BY <3>1, <3>2, SumRemove
    <3>4. f[y] \in 0..1 /\ Y \ {y} \in T
      BY <1>1, <3>1
    <3> HIDE DEF F, C
    <3>5. F(Y) <= C(Y)
      BY <3>2, <3>3, <3>4
    <3> QED
      BY <3>5
  <2> QED
    BY <2>1, <2>2
<1>2. S \in T
  <2> HIDE DEF T
  <2> QED
    BY <1>1, SubsetInduction
<1>3. F(S) \in Nat /\ C(S) \in Nat
  BY SumNat, FS_CardinalityType
<1> HIDE DEF F, C
<1>4. F(S) \in 0..C(S)
  BY <1>2, <1>3
<1> QED
  BY <1>4 DEF F, C

\* What of the debt of a liquidated trove stays in its pool.
Remainder(debt, v) == debt + v.pendingNorm - v.debtToOffset - v.debtToRedistribute

\* A liquidation takes from the pool all the debt of a trove, or one less.
LEMMA LiquidatedDebt ==
  ASSUME BranchInv, NEW b \in Borrowers, NEW left, NEW k, left[k] \in Nat, NEW r \in Rates,
         NEW price, NEW s, s = shielded[b], Plain(r[s]),
         NEW v, v = _liquidate(b, left[k], r, price)
  PROVE  Remainder(trove[b].debt, v) \in 0..Step(r[s])
<1> DEFINE pendingDebt == getPendingLUSDDebtReward(b)
           pendingColl == getPendingCollateralReward(b)
           debt == trove[b].debt + NormDown(pendingDebt, r[s])
           coll == trove[b].coll + pendingColl
           gas == coll \div PERCENT_DIVISOR
           pnorm == _normalizedDebt(pendingDebt, r[s])
           w == getCappedOffsetAndRedistributionVals(debt, _actualDebt(debt, r[s]), coll - gas,
                                                     left[k], r[s], price)
<1>1. v = [borrower |-> b, pendingDebt |-> pendingDebt, pendingColl |-> pendingColl,
           pendingNorm |-> pnorm,
           entireTroveDebt |-> debt, collGasCompensation |-> gas,
           actualDebtToOffset |-> w.actualDebtToOffset, debtToOffset |-> w.debtToOffset,
           collToSendToSP |-> w.collToSendToSP, debtToRedistribute |-> w.debtToRedistribute,
           collToRedistribute |-> w.collToRedistribute, collSurplus |-> w.collSurplus]
  BY Zenon DEF _liquidate
<1> DEFINE q == r[s]
           n == trove[b].debt
           avail == left[k]
           rest == coll - gas
<1>2. n \in Nat /\ q \in Nat \ {0} /\ RATE_PRECISION <= q /\ avail \in Nat
  <2>1. trove[b] \in Troves /\ s \in BOOLEAN
    BY BooksTyped
  <2> QED
    BY <2>1, RatesPositive DEF Troves
<1>3. pendingDebt \in Nat /\ NormDown(pendingDebt, q) = pendingDebt /\ pnorm = pendingDebt
  BY <1>2, PlainPending
<1>4. debt \in Nat /\ n + pnorm = debt
  BY <1>2, <1>3
<1> HIDE DEF pendingDebt, pendingColl, pnorm, n, debt, coll, gas
<1> DEFINE actual == _actualDebt(debt, q)
           off == MinOf(actual, avail)
           rem == actual - off
           most == _maxPenaltyColl(off, LIQUIDATION_PENALTY, price)
           mostRedist == _maxPenaltyColl(rem, LIQUIDATION_PENALTY_REDIST, price)
           toSP == IF off = 0 THEN 0 ELSE MinOf((rest * off) \div actual, most)
           toRedist == IF rem = 0 THEN 0 ELSE MinOf(mostRedist, rest - toSP)
           norm == NormDown(off, q)
           redist == IF rem = 0 THEN 0 ELSE debt - norm
           surp == rest - toSP - toRedist
<1>5. w = [actualDebtToOffset |-> off, debtToOffset |-> norm, collToSendToSP |-> toSP,
           debtToRedistribute |-> redist, collToRedistribute |-> toRedist, collSurplus |-> surp]
  BY Zenon DEF getCappedOffsetAndRedistributionVals
<1> HIDE DEF surp, toRedist, toSP, most, mostRedist, rest, w
<1>6. w.debtToOffset = norm /\ w.debtToRedistribute = redist
  BY <1>5
<1>7. v.pendingNorm = pnorm /\ v.debtToOffset = norm /\ v.debtToRedistribute = redist
  BY <1>1, <1>6
<1>8. Step(q) \in 0..1
  BY SlackTyped
<1>9. norm \in Int /\ redist \in Int /\ debt - norm - redist \in 0..Step(q)
  <2> HIDE DEF q, avail
  <2>1. actual \in Nat /\ NormDown(actual, q) \in Nat /\ NormDown(actual, q) <= debt
        /\ debt <= NormDown(actual, q) + Step(q)
    BY <1>2, <1>4, OffsetNear, Converted
  <2> HIDE DEF actual
  <2>2. off \in Nat /\ off <= actual
    BY <1>2, <2>1, MinOfPair
  <2>3. CASE rem = 0
    <3>1. off = actual /\ redist = 0
      BY <2>1, <2>2, <2>3
    <3>2. norm = NormDown(actual, q)
      BY <3>1
    <3> HIDE DEF norm, redist
    <3> QED
      BY <1>4, <1>8, <2>1, <3>1, <3>2
  <2>4. CASE rem # 0
    <3>1. norm \in Nat
      <4> HIDE DEF off
      <4> QED
        BY <1>2, <2>2, Converted
    <3>2. redist = debt - norm
      BY <2>4
    <3> HIDE DEF norm, redist
    <3> QED
      BY <1>4, <1>8, <3>1, <3>2
  <2> QED
    BY <2>3, <2>4
<1> HIDE DEF norm, redist
<1>10. Remainder(n, v) = debt - norm - redist
  <2>1. Remainder(n, v) = (n + pnorm) - norm - redist
    BY <1>2, <1>3, <1>7, <1>9 DEF Remainder
  <2> QED
    BY <1>4, <2>1
<1> QED
  BY <1>9, <1>10 DEF n, q

\* The elements with an index in K.
Indexed(q, K) == {q[k] : k \in K}

\* Where the elements outside a part have nothing, the sum is that of the part.
LEMMA SumOfPart ==
  ASSUME NEW K, IsFiniteSet(K), NEW q, NEW f, \A i, j \in K : q[i] = q[j] => i = j,
         \A k \in K : f[q[k]] \in Int, NEW X \in SUBSET K, \A k \in K \ X : f[q[k]] = 0,
         NEW g, \A k \in X : g[k] = f[q[k]]
  PROVE  SumFunctionOnSet(f, Indexed(q, K)) = SumFunctionOnSet(g, X)
<1> DEFINE h == [k \in K |-> f[q[k]]]
           S(Y) == SumFunctionOnSet(h, Y)
<1>1. \A k \in K : f[q[k]] \in Int /\ h[k] = f[q[k]]
  OBVIOUS
<1>2. IsFiniteSet(X) /\ IsFiniteSet(K \ X)
  BY FS_Subset
<1> HIDE DEF h
<1>3. S(K) = SumFunctionOnSet(f, Indexed(q, K))
  <2>1. S(K) = SumFunctionOnSet(f, {q[k] : k \in K})
    BY <1>1, SumReindex
  <2> QED
    BY <2>1, Zenon DEF Indexed
<1>4. \A k \in K : h[k] \in Int
  BY <1>1
<1>5. S(K) = S(X) + S(K \ X)
  BY <1>4, SumSplit
<1>6. S(K \ X) = 0
  BY <1>1, <1>2, SumZero
<1>7. SumFunctionOnSet(g, X) = S(X) /\ S(X) \in Int
  BY <1>1, <1>2, <1>4, SumSame, SumRemove
<1> HIDE DEF S
<1>8. S(K) = S(X)
  BY <1>5, <1>6, <1>7
<1> QED
  BY <1>3, <1>7, <1>8

\* X has the places of the array where it has troves of pool z.
OfPool(X, seq, z) ==
  X \in SUBSET (1..Len(seq)) /\ \A k \in 1..Len(seq) : k \in X <=> shielded[seq[k]] = z

\* The part of the debt of the liquidated troves that comes from pool z, along the array.
LEMMA DebtOfGone ==
  ASSUME BranchInv, NEW seq \in Arrays, NEW z \in BOOLEAN,
         NEW X, OfPool(X, seq, z),
         NEW g, \A k \in X : g[k] = trove[seq[k]].debt
  PROVE  /\ IsFiniteSet(X) /\ Cardinality(X) \in Nat /\ Cardinality(X) <= Cardinality(Borrowers)
         /\ SumFunctionOnSet(DebtOf(trove, shielded, z), {seq[k] : k \in 1..Len(seq)})
              = SumFunctionOnSet(g, X)
<1> DEFINE K == 1..Len(seq)
           f == DebtOf(trove, shielded, z)
           gone == {seq[k] : k \in K}
<1>1. /\ Len(seq) \in Nat /\ seq \in [K -> Borrowers] /\ IsFiniteSet(K)
      /\ \A i, j \in K : seq[i] = seq[j] => i = j
      /\ Cardinality(gone) = Len(seq)
  BY ArrayFacts
<1>0. X \in SUBSET K
  BY DEF OfPool
<1>2. /\ trove \in [Borrowers -> Troves] /\ shielded \in [Borrowers -> BOOLEAN]
      /\ IntPools(active)
  BY BooksTyped
<1>3. \A b \in Borrowers : f[b] \in Nat /\ f[b] = DebtIn(trove[b].debt, shielded[b], z)
  <2>1. \A b \in Borrowers : f[b] = DebtIn(trove[b].debt, shielded[b], z)
    BY Zenon DEF DebtOf
  <2> QED
    BY <1>2, <2>1, GapTyped
<1> HIDE DEF f
<1>4. Cardinality(K) = Len(seq)
  <2> DEFINE n == Len(seq)
  <2>1. n \in Nat
    BY <1>1
  <2> HIDE DEF n
  <2>2. Cardinality(1..n) = n
    BY <2>1, FS_Interval
  <2> QED
    BY <2>2 DEF n
<1>5. IsFiniteSet(X) /\ Cardinality(X) \in Nat /\ Cardinality(X) <= Cardinality(Borrowers)
  <2>1. gone \in SUBSET Borrowers
    BY <1>1
  <2> HIDE DEF K, gone
  <2>2. Cardinality(gone) <= Cardinality(Borrowers) /\ Cardinality(Borrowers) \in Nat
    BY <2>1, FiniteBorrowers, FS_Subset, FS_CardinalityType
  <2>3. IsFiniteSet(X) /\ Cardinality(X) \in Nat /\ Cardinality(X) <= Cardinality(K)
    BY <1>0, <1>1, FS_Subset, FS_CardinalityType
  <2> DEFINE i == Cardinality(X)
             j == Cardinality(K)
             k == Cardinality(gone)
             l == Cardinality(Borrowers)
  <2>4. i \in Nat /\ i <= j /\ j = k /\ k \in Nat /\ k <= l /\ l \in Nat
    BY <1>1, <1>4, <2>2, <2>3
  <2> HIDE DEF i, j, k, l
  <2>5. i <= l
    BY <2>4
  <2> QED
    BY <2>3, <2>5 DEF i, l
<1>6. ASSUME NEW k \in K
      PROVE  f[seq[k]] \in Int /\ f[seq[k]] = IF k \in X THEN trove[seq[k]].debt ELSE 0
  <2>1. seq[k] \in Borrowers
    BY <1>1
  <2>2. f[seq[k]] = IF k \in X THEN trove[seq[k]].debt ELSE 0
    BY <1>3, <2>1, Zenon DEF DebtIn, OfPool
  <2> QED
    BY <1>3, <2>1, <2>2
<1>7. X \in SUBSET K /\ IsFiniteSet(K) /\ \A k \in X : g[k] = trove[seq[k]].debt
  BY <1>0, <1>1
<1> HIDE DEF K
<1>8. /\ \A k \in K : f[seq[k]] \in Int
      /\ \A k \in K \ X : f[seq[k]] = 0
      /\ \A k \in X : g[k] = f[seq[k]]
  BY <1>6, <1>7, Zenon
<1>9. \A i, j \in K : seq[i] = seq[j] => i = j
  BY <1>1
<1>10. SumFunctionOnSet(f, gone) = SumFunctionOnSet(g, X)
  <2>1. X \in SUBSET K /\ IsFiniteSet(K)
    BY <1>7
  <2>2. SumFunctionOnSet(f, Indexed(seq, K)) = SumFunctionOnSet(g, X)
    BY <1>8, <1>9, <2>1, SumOfPart
  <2> QED
    BY <2>2, Zenon DEF Indexed
<1> QED
  BY <1>5, <1>10 DEF f, K

\* The debt of the liquidated troves of pool z leaves that pool, up to one per trove.
LEMMA RemaindersOfLiquidation ==
  ASSUME BranchInv, NEW seq \in Arrays, NEW d \in Drips, NEW price \in Prices,
         NEW L, L = Liquidated(seq, d, price), NEW z \in BOOLEAN, Plain(d.rate[z]),
         NEW T, T = _addLiquidationValuesToTotals(L, z),
         NEW gone, gone = {seq[k] : k \in 1..Len(seq)},
         NEW f, f = DebtOf(trove, shielded, z)
  PROVE  /\ T.pendingNorm \in Nat /\ T.debtToOffset \in Nat /\ T.debtToRedistribute \in Nat
         /\ SumFunctionOnSet(f, gone) \in Int
         /\ SumFunctionOnSet(f, gone) + T.pendingNorm - T.debtToOffset - T.debtToRedistribute
              \in 0..Slack(d.rate[z])
<1> DEFINE K == 1..Len(seq)
           X == {k \in K : shielded[seq[k]] = z}
           V(i) == [k \in DOMAIN L |-> L[k][i]]
           a == V("pendingNorm")
           b == V("debtToOffset")
           c == V("debtToRedistribute")
           g == [k \in K |-> trove[seq[k]].debt]
           e == [k \in K |-> Remainder(trove[seq[k]].debt, L[k])]
           x == [k \in K |-> g[k] + a[k]]
           y == [k \in K |-> e[k] + b[k]]
           u == Step(d.rate[z])
<1>1. /\ Len(seq) \in Nat /\ seq \in [K -> Borrowers]
  BY ArrayFacts
<1>2. /\ DOMAIN L = K
      /\ \A k \in K : L[k].borrower = seq[k] /\ \A i \in LiquidationValues : L[k][i] \in Nat
  BY LiquidatedValues
<1>3. PICK left : FromLeft(L, left, seq, d.rate, price)
  BY LiquidatedOneByOne
<1>4. {"pendingNorm", "debtToOffset", "debtToRedistribute"} \subseteq LiquidationValues
  BY DEF LiquidationValues
<1>5. \A k \in K : /\ a[k] = L[k].pendingNorm /\ b[k] = L[k].debtToOffset
                   /\ c[k] = L[k].debtToRedistribute
                   /\ a[k] \in Nat /\ b[k] \in Nat /\ c[k] \in Nat
  BY <1>2, <1>4
<1>6. /\ T.pendingNorm = SumFunctionOnSet(a, X) /\ T.debtToOffset = SumFunctionOnSet(b, X)
      /\ T.debtToRedistribute = SumFunctionOnSet(c, X)
  <2>1. \A i \in LiquidationValues :
          T[i] = SumFunctionOnSet(V(i), {k \in DOMAIN L : shielded[L[k].borrower] = z})
    BY Zenon DEF _addLiquidationValuesToTotals
  <2>2. {k \in DOMAIN L : shielded[L[k].borrower] = z} = X
    BY <1>2
  <2> HIDE DEF X, V
  <2>3. \A i \in LiquidationValues : T[i] = SumFunctionOnSet(V(i), X)
    BY <2>1, <2>2, Zenon
  <2> QED
    BY <1>4, <2>3
<1> HIDE DEF a, b, c, V
<1>7. \A k \in K : g[k] \in Nat /\ g[k] = trove[seq[k]].debt
  BY <1>1, BooksTyped DEF Troves
<1>8. \A k \in X : e[k] \in 0..u
  <2> SUFFICES ASSUME NEW k \in X
               PROVE  e[k] \in 0..u
    OBVIOUS
  <2> DEFINE o == seq[k]
             s == shielded[o]
             r == d.rate
             i == k - 1
             v == L[k]
  <2>1. o \in Borrowers /\ s = z /\ k \in K
    BY <1>1
  <2>2. v = _liquidate(o, left[i], r, price) /\ left[i] \in Nat
    BY <1>3, Zenon DEF FromLeft
  <2>3. e[k] = Remainder(trove[o].debt, v)
    OBVIOUS
  <2>4. r \in Rates
    BY DripsOfBranch
  <2>5. Plain(r[s]) /\ u = Step(r[s])
    BY <2>1
  <2> HIDE DEF o, r, i, v, e, u
  <2>6. Remainder(trove[o].debt, v) \in 0..Step(r[s])
    BY <2>1, <2>2, <2>4, <2>5, LiquidatedDebt
  <2> QED
    BY <2>3, <2>5, <2>6
<1>9. u \in 0..1
  BY SlackTyped
<1>10. \A k \in X : /\ k \in K /\ e[k] \in Int /\ x[k] = g[k] + a[k] /\ y[k] = e[k] + b[k]
                    /\ x[k] = y[k] + c[k]
  <2> SUFFICES ASSUME NEW k \in X
               PROVE  /\ k \in K /\ e[k] \in Int /\ x[k] = g[k] + a[k] /\ y[k] = e[k] + b[k]
                      /\ x[k] = y[k] + c[k]
    OBVIOUS
  <2>1. k \in K /\ e[k] = Remainder(trove[seq[k]].debt, L[k]) /\ e[k] \in Int
    BY <1>8, <1>9
  <2>2. e[k] = g[k] + a[k] - b[k] - c[k]
    <3>1. e[k] = g[k] + L[k].pendingNorm - L[k].debtToOffset - L[k].debtToRedistribute
      BY <1>7, <2>1, Zenon DEF Remainder
    <3> QED
      BY <1>5, <2>1, <3>1, Zenon
  <2>3. x[k] = g[k] + a[k] /\ y[k] = e[k] + b[k]
    BY <2>1, Zenon
  <2>4. g[k] \in Nat /\ a[k] \in Nat /\ b[k] \in Nat /\ c[k] \in Nat
    BY <1>5, <1>7, <2>1
  <2> HIDE DEF x, y, e, g
  <2> QED
    BY <2>1, <2>2, <2>3, <2>4
<1>11. /\ IsFiniteSet(X) /\ Cardinality(X) \in Nat /\ Cardinality(X) <= Cardinality(Borrowers)
       /\ SumFunctionOnSet(f, gone) = SumFunctionOnSet(g, X)
  <2>1. \A k \in X : g[k] = trove[seq[k]].debt
    BY <1>7
  <2>2. OfPool(X, seq, z)
    BY Zenon DEF OfPool
  <2> HIDE DEF g, X
  <2> QED
    BY <2>1, <2>2, DebtOfGone
<1>12. \A k \in X : /\ g[k] \in Int /\ a[k] \in Int /\ b[k] \in Int /\ c[k] \in Int
                    /\ x[k] \in Int /\ y[k] \in Int
  <2> HIDE DEF x, y, e, g
  <2> QED
    BY <1>5, <1>7, <1>10
<1> HIDE DEF X, e, g, x, y, K
<1> DEFINE S(h) == SumFunctionOnSet(h, X)
<1>13. S(x) = S(g) + S(a)
  BY <1>10, <1>11, <1>12, SumAdd
<1>14. S(y) = S(e) + S(b)
  BY <1>10, <1>11, <1>12, SumAdd
<1>15. S(x) = S(y) + S(c)
  BY <1>10, <1>11, <1>12, SumAdd
<1>16. S(g) \in Int /\ S(e) \in Int
  BY <1>10, <1>11, <1>12, SumRemove
<1>17. S(a) \in Nat /\ S(b) \in Nat /\ S(c) \in Nat
  <2>1. \A k \in X : a[k] \in Nat /\ b[k] \in Nat /\ c[k] \in Nat
    BY <1>5, <1>10
  <2> QED
    BY <1>11, <2>1, SumNat
<1>18. S(e) \in 0..Slack(d.rate[z])
  <2>1. Slack(d.rate[z]) = 2 * Cardinality(Borrowers) * u /\ Cardinality(Borrowers) \in Nat
    BY SlackTyped
  <2> HIDE DEF u
  <2>2. CASE u = 0
    <3>1. \A k \in X : e[k] = 0
      BY <1>8, <2>2
    <3>2. S(e) = 0
      BY <1>11, <3>1, SumZero
    <3> QED
      BY <2>1, <2>2, <3>2
  <2>3. CASE u = 1
    <3>1. \A k \in X : e[k] \in 0..1
      BY <1>8, <2>3
    <3>2. S(e) \in 0..Cardinality(X)
      BY <1>11, <3>1, SumCount
    <3> HIDE DEF S
    <3> QED
      BY <1>11, <2>1, <2>3, <3>2
  <2> QED
    BY <1>9, <2>2, <2>3
<1>19. /\ T.pendingNorm = S(a) /\ T.debtToOffset = S(b) /\ T.debtToRedistribute = S(c)
       /\ SumFunctionOnSet(f, gone) = S(g)
  BY <1>6, <1>11
<1> HIDE DEF S, u
<1>20. S(g) + S(a) - S(b) - S(c) = S(e)
  BY <1>13, <1>14, <1>15, <1>16, <1>17
<1> QED
  BY <1>16, <1>17, <1>18, <1>19, <1>20

\* What a settlement does with the debt of a pool.
LEMMA DebtSettled ==
  ASSUME NEW x, NEW t, NEW y, y = _sendGasCompensation(sendSurplus(redistributeDebtAndColl(
           _moveOffsetCollAndDebt(movePendingTroveRewardsToActivePool(x, t), t), t), t), t)
  PROVE  y.debt = (x.debt + t.pendingNorm) - t.debtToOffset - t.debtToRedistribute
<1> DEFINE d1 == x.debt + t.pendingNorm
           c1 == x.coll + t.pendingColl
           d2 == d1 - t.debtToOffset
           c2 == c1 - t.collToSendToSP
           d3 == d2 - t.debtToRedistribute
           c3 == c2 - t.collToRedistribute
           p1 == movePendingTroveRewardsToActivePool(x, t)
           p2 == _moveOffsetCollAndDebt(p1, t)
           p3 == redistributeDebtAndColl(p2, t)
           p4 == sendSurplus(p3, t)
           c4 == p3.coll - t.collSurplus
           c5 == p4.coll - t.collGasCompensation
<1>1. p1 = [debt |-> d1, coll |-> c1]
  BY Zenon DEF movePendingTroveRewardsToActivePool
<1>2. y = _sendGasCompensation(p4, t)
  BY Zenon
<1> HIDE DEF p1
<1>3. p1.debt = d1 /\ p1.coll = c1
  BY <1>1, Zenon
<1> HIDE DEF d1, c1
<1>4. p2 = [debt |-> d2, coll |-> c2]
  BY <1>3, Zenon DEF _moveOffsetCollAndDebt
<1> HIDE DEF p2
<1>5. p2.debt = d2 /\ p2.coll = c2
  BY <1>4, Zenon
<1> HIDE DEF d2, c2
<1>6. p3 = [debt |-> d3, coll |-> c3]
  BY <1>5, Zenon DEF redistributeDebtAndColl
<1> HIDE DEF p3, d3, c3
<1>7. p4 = [p3 EXCEPT !.coll = c4]
  BY Zenon DEF sendSurplus
<1> HIDE DEF p4, c4
<1>8. p4 = [debt |-> d3, coll |-> c4]
  BY <1>6, <1>7
<1>9. y = [p4 EXCEPT !.coll = c5]
  BY <1>2, Zenon DEF _sendGasCompensation
<1> HIDE DEF c5
<1>10. y.debt = d3
  BY <1>8, <1>9
<1> QED
  BY <1>10, Zenon DEF d3, d2, d1

\* A liquidation takes from each pool what its troves owed, up to one per trove.
LEMMA SettleDrift ==
  ASSUME BranchInv, BranchInv', Cleared(status, trove), NEW seq \in Arrays, NEW price \in Prices,
         NEW d \in Drips, Settle(seq, price, d), NEW z \in BOOLEAN
  PROVE  Cleared(status', trove') /\ Drift(z)
<1> DEFINE L == Liquidated(seq, d, price)
           T == [s \in BOOLEAN |-> _addLiquidationValuesToTotals(L, s)]
           gone == {seq[k] : k \in DOMAIN seq}
           pools == [s \in BOOLEAN |->
             sendSurplus(redistributeDebtAndColl(_moveOffsetCollAndDebt(
               movePendingTroveRewardsToActivePool(active[s], T[s]), T[s]), T[s]), T[s])]
           f == DebtOf(trove, shielded, z)
           g == DebtOf(trove', shielded', z)
           sent == [s \in BOOLEAN |-> _sendGasCompensation(pools[s], T[s])]
           x == active[z]
           t == T[z]
           y == active'[z]
<1>1. /\ status' = [b \in Borrowers |-> IF b \in gone THEN "closedByLiquidation" ELSE status[b]]
      /\ shielded' = [b \in Borrowers |-> shielded[b] /\ b \notin gone]
      /\ trove' = [b \in Borrowers |-> IF b \in gone THEN [debt |-> 0, coll |-> 0, stake |-> 0]
                                       ELSE trove[b]]
      /\ active' = sent
      /\ rate' = d.rate
  BY Zenon DEF Settle
<1>2. gone \in SUBSET Borrowers /\ gone = {seq[k] : k \in 1..Len(seq)}
  <2>1. DOMAIN seq = 1..Len(seq) /\ seq \in [1..Len(seq) -> Borrowers]
    BY ArrayFacts
  <2> QED
    BY <2>1
<1>3. t = _addLiquidationValuesToTotals(L, z)
  BY Zenon
<1>4. y = _sendGasCompensation(sendSurplus(redistributeDebtAndColl(_moveOffsetCollAndDebt(
            movePendingTroveRewardsToActivePool(x, t), t), t), t), t)
  BY <1>1, Zenon
<1> HIDE DEF sent, pools, T, L, gone, t, x, y
<1>5. y.debt = (x.debt + t.pendingNorm) - t.debtToOffset - t.debtToRedistribute
  BY <1>4, DebtSettled
<1>6. ASSUME NEW b \in Borrowers
      PROVE  /\ b \in gone => trove'[b].debt = 0 /\ status'[b] # "active"
             /\ b \notin gone => /\ trove'[b] = trove[b] /\ status'[b] = status[b]
                                 /\ shielded'[b] = shielded[b]
  <2>1. shielded[b] \in BOOLEAN
    BY BooksTyped
  <2> QED
    BY <1>1, <2>1
<1>7. Cleared(status', trove')
  BY <1>6 DEF Cleared
<1>8. /\ trove \in [Borrowers -> Troves] /\ shielded \in [Borrowers -> BOOLEAN]
      /\ IntPools(active)
      /\ trove' \in [Borrowers -> Troves] /\ shielded' \in [Borrowers -> BOOLEAN]
      /\ IntPools(active')
  <2>1. active' \in [BOOLEAN -> Balances]
    BY DEF BranchInv, PoolsOK
  <2> QED
    BY <2>1, BooksTyped, PoolsHaveDebt DEF BranchInv, AccountsOK, OwnersOK
<1>9. /\ (\A b \in Borrowers : f[b] \in Nat /\ g[b] \in Nat)
      /\ Total(f) \in Nat /\ Total(g) \in Nat /\ x.debt \in Int /\ y.debt \in Int
      /\ Gap(active, trove, shielded, z) \in Int
  BY <1>8, GapTyped DEF x, y
<1>10. ASSUME NEW b \in Borrowers
       PROVE  /\ b \in gone => g[b] = 0
              /\ b \notin gone => g[b] = f[b]
  <2>1. /\ f[b] = DebtIn(trove[b].debt, shielded[b], z)
        /\ g[b] = DebtIn(trove'[b].debt, shielded'[b], z)
    BY Zenon DEF DebtOf
  <2>2. b \in gone => g[b] = 0
    <3> SUFFICES ASSUME b \in gone
                 PROVE  g[b] = 0
      OBVIOUS
    <3>1. trove'[b].debt = 0
      BY <1>6
    <3>2. g[b] = DebtIn(0, shielded'[b], z)
      BY <2>1, <3>1, Zenon
    <3>3. \A s : DebtIn(0, s, z) = 0
      BY DEF DebtIn
    <3> QED
      BY <3>2, <3>3, Zenon
  <2>3. b \notin gone => g[b] = f[b]
    BY <1>6, <2>1, Zenon
  <2> QED
    BY <2>2, <2>3, Zenon
<1> HIDE DEF f, g
<1>11. Total(f) = SumFunctionOnSet(f, gone) + Total(g)
  <2>1. /\ \A b \in Borrowers : f[b] \in Int /\ g[b] \in Int
        /\ \A b \in gone : g[b] = 0
        /\ \A b \in Borrowers \ gone : g[b] = f[b]
    BY <1>2, <1>9, <1>10
  <2> QED
    BY <1>2, <2>1, TotalWithout
<1>12. ASSUME Plain(rate'[z])
       PROVE  Near(Gap(active', trove', shielded', z), Gap(active, trove, shielded, z),
                   Slack(rate'[z]))
  <2> DEFINE s == SumFunctionOnSet(f, gone)
             u == Slack(d.rate[z])
  <2>1. /\ t.pendingNorm \in Nat /\ t.debtToOffset \in Nat /\ t.debtToRedistribute \in Nat
        /\ s \in Int /\ s + t.pendingNorm - t.debtToOffset - t.debtToRedistribute \in 0..u
    <3>1. Plain(d.rate[z])
      BY <1>1, <1>12
    <3> QED
      BY <1>2, <1>3, <3>1, RemaindersOfLiquidation DEF L, f
  <2>2. u \in Nat /\ u = Slack(rate'[z])
    BY <1>1, SlackTyped
  <2>3. /\ Gap(active', trove', shielded', z) = y.debt - Total(g)
        /\ Gap(active, trove, shielded, z) = x.debt - Total(f)
    BY Zenon DEF Gap, x, y, f, g
  <2> HIDE DEF s, u
  <2> DEFINE i == y.debt - Total(g)
             j == x.debt - Total(f)
  <2>4. i - j = s + t.pendingNorm - t.debtToOffset - t.debtToRedistribute
    BY <1>5, <1>9, <1>11, <2>1 DEF s
  <2>5. i \in Int /\ j \in Int
    BY <1>9
  <2> HIDE DEF i, j
  <2>6. Near(i, j, u)
    BY <2>1, <2>2, <2>4, <2>5 DEF Near
  <2> QED
    BY <2>2, <2>3, <2>6 DEF i, j
<1> QED
  BY <1>7, <1>12 DEF Drift

-----------------------------------------------------------------------------
(***************************************************************************)
(* The debt that a redemption moves                                        *)
(***************************************************************************)

\* The smaller of two amounts.
LEMMA SmallerOf ==
  ASSUME NEW i \in Int, NEW j \in Int, NEW n, n = MinOf(i, j)
  PROVE  n \in {i, j} /\ n <= i /\ n <= j /\ MinOf(n, j) = n
BY DEF MinOf

\* What is taken from a trove leaves the gas compensation in it.
LEMMA LotLeaves ==
  ASSUME BranchInv, NEW t \in Troves, NEW s \in BOOLEAN, NEW left \in Nat, NEW p, Asked(p),
         _actualDebt(t.debt, rate[s]) >= LUSD_GAS_COMPENSATION,
         NEW x, x = LotOf(t, s, left, p).LUSD
  PROVE  x \in Nat /\ x + LUSD_GAS_COMPENSATION <= _actualDebt(t.debt, rate[s])
<1> DEFINE q == rate[s]
           a == _actualDebt(t.debt, rate[s])
           owed == a - LUSD_GAS_COMPENSATION
           want == MinOf(left, owed)
<1>1. a \in Nat /\ owed \in Nat /\ LUSD_GAS_COMPENSATION \in Nat
  <2>1. q \in Nat \ {0} /\ t.debt \in Nat
    BY RatesPositive DEF BranchInv, Troves
  <2> HIDE DEF q
  <2>2. _actualDebt(t.debt, q) \in Nat
    BY <2>1, Conversions
  <2>3. a \in Nat
    BY <2>2 DEF q
  <2> HIDE DEF a
  <2> QED
    BY <2>3, UnitsAssumption DEF a
<1>2. LotOf(t, s, want, p) = LotOf(t, s, left, p)
  <2>1. MinOf(want, owed) = want
    <3> DEFINE o == owed
    <3>1. o \in Int /\ want = MinOf(left, o)
      BY <1>1
    <3> HIDE DEF o
    <3> QED
      BY <3>1, SmallerOf DEF o
  <2> QED
    BY <2>1, Zenon DEF LotOf
<1>3. want \in Nat /\ want <= owed
  <2> DEFINE o == owed
  <2>1. o \in Nat /\ want = MinOf(left, o)
    BY <1>1
  <2> HIDE DEF o
  <2>2. want \in {left, o} /\ want <= o
    BY <2>1, SmallerOf
  <2> QED
    BY <2>1, <2>2 DEF o
<1> HIDE DEF want
<1>4. LotOf(t, s, want, p).LUSD \in Nat /\ LotOf(t, s, want, p).LUSD <= want
  BY <1>3, LotTyped
<1>5. x \in Nat /\ x <= want
  BY <1>2, <1>4
<1> HIDE DEF a
<1> QED
  BY <1>1, <1>3, <1>5 DEF a

\* A trove in pool s gives up debt m, and the pool does not.
LEMMA LessOwn ==
  ASSUME NEW p, IntPools(p), NEW s \in BOOLEAN, NEW z \in BOOLEAN, NEW m \in Int, NEW debt \in Int
  PROVE  Own(p, debt, s, z) = Own(p, debt + m, s, z) + DebtIn(m, s, z)
<1> DEFINE x == p[z].debt
<1>1. x \in Int
  BY Zenon DEF IntPools
<1>2. \A n : Own(p, n, s, z) = x - DebtIn(n, s, z)
  BY DEF Own
<1> HIDE DEF x
<1>3. CASE s = z
  <2>1. \A n : DebtIn(n, s, z) = n
    BY <1>3, Zenon DEF DebtIn
  <2>2. Own(p, debt, s, z) = x - debt /\ Own(p, debt + m, s, z) = x - (debt + m)
        /\ DebtIn(m, s, z) = m
    BY <1>2, <2>1, Zenon
  <2> QED
    BY <1>1, <2>2
<1>4. CASE s # z
  <2>1. \A n : DebtIn(n, s, z) = 0
    BY <1>4, Zenon DEF DebtIn
  <2> DEFINE i == DebtIn(debt, s, z)
             j == DebtIn(debt + m, s, z)
             k == DebtIn(m, s, z)
  <2>2. i = 0 /\ j = 0 /\ k = 0 /\ Own(p, debt, s, z) = x - i /\ Own(p, debt + m, s, z) = x - j
    BY <1>2, <2>1, Zenon
  <2> HIDE DEF i, j, k
  <2>3. Own(p, debt, s, z) = Own(p, debt + m, s, z) + k
    BY <1>1, <2>2
  <2> QED
    BY <2>3 DEF k
<1> QED
  BY <1>3, <1>4

\* What is in one product, and nearly what is in another.
LEMMA NearProducts ==
  ASSUME NEW x \in Int, NEW m \in Int, NEW o \in Int, NEW r \in Nat \ {0}, NEW u \in Nat,
         x <= m * r, m * r <= x + u * r, Near(o, 0, u)
  PROVE  Near(m * r, x, 2 * (u * r)) /\ Near((m + o) * r, x, 2 * (u * r))
<1>1. -u <= o /\ o <= u
  BY DEF Near
<1>2. (u - o) * r \in Nat /\ (u + o) * r \in Nat
  <2>1. u - o \in Nat /\ u + o \in Nat
    BY <1>1
  <2>2. \A k \in Nat : k * r \in Nat
    OBVIOUS
  <2> QED
    BY <2>1, <2>2
<1>3. (u - o) * r = u * r - o * r /\ (u + o) * r = u * r + o * r /\ (m + o) * r = m * r + o * r
  OBVIOUS
<1> DEFINE w == u * r
           y == m * r
           v == o * r
<1>4. w \in Nat /\ y \in Int /\ v \in Int /\ -w <= v /\ v <= w /\ x <= y /\ y <= x + w
      /\ (m + o) * r = y + v
  BY <1>2, <1>3
<1> HIDE DEF w, y, v
<1>5. Near(y, x, 2 * w) /\ Near(y + v, x, 2 * w)
  BY <1>4 DEF Near
<1> QED
  BY <1>4, <1>5 DEF w, y

\* What is left of the debt of a redeemed trove, before a shutdown and after it.
LEMMA LotDebts ==
  ASSUME BranchInv, NEW p, Asked(p), NEW A, NEW b, NEW s \in BOOLEAN,
         A.trove[b] \in Troves, A.left \in Nat,
         NEW E, NEW C, NEW last, IsRedeemed(E, C, A, b, s, p, last),
         NEW x, x = Lot(A, b, s, p).LUSD, NEW m, m = NormalizedLot(x, rate[s]),
         NEW debt, debt = DebtLeft(A, b, s, p)
  PROVE  /\ x \in Nat /\ m \in Nat /\ debt \in Nat /\ A.trove[b].debt = debt + m
         /\ x * RATE_PRECISION <= m * rate[s]
         /\ m * rate[s] <= x * RATE_PRECISION + Step(rate[s]) * rate[s]
         /\ Closes(A, b, s, p) =>
              Near(debt, NormDown(LUSD_GAS_COMPENSATION, rate[s]), Step(rate[s]))
<1> DEFINE t == A.trove[b]
           left == A.left
           q == rate[s]
           n == t.debt
<1>1. /\ t \in Troves /\ left \in Nat /\ _actualDebt(t.debt, rate[s]) >= LUSD_GAS_COMPENSATION
      /\ debt >= 0
  BY Zenon DEF IsRedeemed
<1>2. x = LotOf(t, s, left, p).LUSD /\ debt = t.debt - m
  BY Zenon DEF Lot, DebtLeft
<1>3. q \in Nat \ {0} /\ RATE_PRECISION <= q
  BY RatesPositive, UnitsAssumption DEF BranchInv
<1>4. x \in Nat /\ x + LUSD_GAS_COMPENSATION <= _actualDebt(t.debt, rate[s])
  <2> HIDE DEF t, left
  <2> QED
    BY <1>1, <1>2, LotLeaves
<1>5. n \in Nat
  BY <1>1 DEF Troves
<1>6. m = NormalizedLot(x, q) /\ debt = n - m /\ x + LUSD_GAS_COMPENSATION <= _actualDebt(n, q)
  BY <1>2, <1>4
<1>7. Closes(A, b, s, p) => _actualDebt(debt, q) <= LUSD_GAS_COMPENSATION
  BY Zenon DEF Closes
<1> HIDE DEF t, q, n
<1>8. /\ m \in Nat /\ x * RATE_PRECISION <= m * q
      /\ m * q <= x * RATE_PRECISION + Step(q) * q
  BY <1>3, <1>4, <1>6, LotNear
<1>9. debt \in Nat /\ n = debt + m /\ m <= n
  BY <1>1, <1>5, <1>6, <1>8
<1>10. ASSUME Closes(A, b, s, p)
       PROVE  Near(debt, NormDown(LUSD_GAS_COMPENSATION, q), Step(q))
  <2>1. _actualDebt(n - m, q) <= LUSD_GAS_COMPENSATION
    BY <1>6, <1>7, <1>10, Zenon
  <2>2. Near(n - m, NormDown(LUSD_GAS_COMPENSATION, q), Step(q))
    BY <1>3, <1>4, <1>5, <1>6, <1>9, <2>1, ClosedNear
  <2> QED
    BY <1>6, <2>2, Zenon
<1> QED
  BY <1>4, <1>8, <1>9, <1>10 DEF q, n, t

\* From A to E a lot of x is counted, and b's part of the gap of pool z grows by e.
LotEffect(E, A, b, s, z, e, x) ==
  /\ e \in Int /\ x \in Nat
  /\ Near(e * rate[s], x * RATE_PRECISION, 2 * (Step(rate[s]) * rate[s]))
  /\ E.LUSDToRedeem = [A.LUSDToRedeem EXCEPT ![s] = A.LUSDToRedeem[s] + x]
  /\ Own(E.active, E.trove[b].debt, E.shielded[b], z)
       = Own(A.active, A.trove[b].debt, s, z) + DebtIn(e, s, z)

HasEffect(E, A, b, s, z, x) == \E e : LotEffect(E, A, b, s, z, e, x)

\* A closed trove owes nothing.
ClosedHome(E, A, b) ==
  /\ E.trove[b].debt = 0 /\ E.status = [A.status EXCEPT ![b] = "closedByRedemption"]
  /\ E.shielded = [A.shielded EXCEPT ![b] = FALSE]

\* The lot that closes a trove.
LEMMA ClosedEffect ==
  ASSUME BranchInv, NEW A, NEW b \in Borrowers, NEW s \in BOOLEAN, NEW z \in BOOLEAN,
         A.trove \in [Borrowers -> Troves], A.shielded \in [Borrowers -> BOOLEAN],
         IntPools(A.active), NEW E, NEW C, NEW last, NEW x \in Nat, NEW y, NEW coll,
         IsCounted(E, C, s, x, y, last),
         NEW n \in Int, IsClosed(C, A, b, s, coll, n), NEW m \in Nat, NEW debt \in Nat,
         A.trove[b].debt = debt + m, x * RATE_PRECISION <= m * rate[s],
         m * rate[s] <= x * RATE_PRECISION + Step(rate[s]) * rate[s],
         Near(debt, n, Step(rate[s]))
  PROVE  ClosedHome(E, A, b) /\ HasEffect(E, A, b, s, z, x)
<1> DEFINE q == E.active
           o == debt - n
           e == m + o
           r == rate[s]
           d == A.trove[b].debt
<1>1. /\ E.status = [A.status EXCEPT ![b] = "closedByRedemption"]
      /\ E.shielded = [A.shielded EXCEPT ![b] = FALSE]
      /\ E.trove = [A.trove EXCEPT ![b] = NoTrove]
      /\ q = AddToPool(A.active, s, -n, -coll)
      /\ E.LUSDToRedeem = [A.LUSDToRedeem EXCEPT ![s] = A.LUSDToRedeem[s] + x]
  BY Zenon DEF IsCounted, IsClosed, SameWork
<1>2. E.trove[b] = NoTrove /\ E.trove[b].debt = 0
  <2>1. E.trove[b] = NoTrove
    BY <1>1
  <2> QED
    BY <2>1 DEF NoTrove
<1>3. E.shielded[b] \in BOOLEAN
  <2>1. E.shielded[b] = FALSE
    BY <1>1, Zenon
  <2> QED
    BY <2>1
<1>4. o \in Int /\ e \in Int /\ d \in Int /\ -d \in Int /\ -n \in Int /\ d = debt + m
  BY DEF Troves
<1>5. Near(o, 0, Step(r))
  <2>1. Step(r) \in Nat
    BY SlackTyped
  <2> DEFINE u == Step(r)
  <2>2. u \in Nat /\ Near(debt, n, u)
    BY <2>1
  <2> HIDE DEF u
  <2>3. Near(o, 0, u)
    BY <2>2 DEF Near
  <2> QED
    BY <2>3 DEF u
<1>6. Near(e * r, x * RATE_PRECISION, 2 * (Step(r) * r))
  <2> DEFINE u == Step(r)
             w == x * RATE_PRECISION
  <2>1. r \in Nat \ {0} /\ u \in Nat /\ w \in Int
    BY RatesPositive, SlackTyped, UnitsAssumption DEF BranchInv
  <2>2. w <= m * r /\ m * r <= w + u * r /\ Near(o, 0, u)
    BY <1>5
  <2> HIDE DEF u, w, o, r
  <2>3. Near((m + o) * r, w, 2 * (u * r))
    <3>1. o \in Int /\ m \in Int
      BY <1>4
    <3> QED
      BY <2>1, <2>2, <3>1, NearProducts
  <2> QED
    BY <2>3 DEF u, w
<1>7. Own(q, 0, s, z) = Own(A.active, d, s, z) + DebtIn(e, s, z)
  <2> DEFINE i == -n
             c == -coll
             pl == A.active
  <2>1. /\ IntPools(pl) /\ q = AddToPool(pl, s, i, c) /\ i = -n /\ n \in Int /\ d \in Int
        /\ e = d - n
    BY <1>1, <1>4
  <2> HIDE DEF q, pl, d, i, c, e
  <2>2. Exchanged(pl, q, s, i, c, d, 0, e) /\ i \in Int /\ 0 \in Int
    BY <2>1 DEF Exchanged
  <2>3. OwnGrows(pl, q, s, z, d, 0, e)
    BY <2>1, <2>2, AddOwn
  <2> QED
    BY <2>3, Zenon DEF OwnGrows, pl
<1>8. Own(q, 0, E.shielded[b], z) = Own(q, 0, s, z)
  BY <1>3, OwnNothing
<1> HIDE DEF q, e, r, d
<1>9. Own(E.active, E.trove[b].debt, E.shielded[b], z)
        = Own(A.active, A.trove[b].debt, s, z) + DebtIn(e, s, z)
  BY <1>2, <1>7, <1>8, Zenon DEF q, d
<1>10. LotEffect(E, A, b, s, z, e, x)
  BY <1>1, <1>4, <1>6, <1>9, Zenon DEF LotEffect, r
<1> QED
  BY <1>1, <1>2, <1>10, Zenon DEF ClosedHome, HasEffect

\* The lot of a trove that keeps a debt.
LEMMA PartlyEffect ==
  ASSUME BranchInv, NEW A, NEW b \in Borrowers, NEW s \in BOOLEAN, NEW z \in BOOLEAN,
         A.trove \in [Borrowers -> Troves], A.shielded \in [Borrowers -> BOOLEAN],
         IntPools(A.active), NEW E, NEW C, NEW last, NEW x \in Nat, NEW y, NEW coll, NEW stake,
         IsCounted(E, C, s, x, y, last), NEW m \in Nat, NEW debt \in Nat,
         IsPartly(C, A, b, debt, coll, stake), A.shielded[b] = s,
         A.trove[b].debt = debt + m, x * RATE_PRECISION <= m * rate[s],
         m * rate[s] <= x * RATE_PRECISION + Step(rate[s]) * rate[s]
  PROVE  /\ E.status = A.status /\ E.shielded = A.shielded
         /\ HasEffect(E, A, b, s, z, x)
<1> DEFINE r == rate[s]
           pl == A.active
           new == [debt |-> debt, coll |-> coll, stake |-> stake]
<1>1. /\ E.status = A.status /\ E.shielded = A.shielded /\ E.active = A.active
      /\ E.trove = [A.trove EXCEPT ![b] = new]
      /\ E.LUSDToRedeem = [A.LUSDToRedeem EXCEPT ![s] = A.LUSDToRedeem[s] + x]
  BY Zenon DEF IsCounted, IsPartly, SameWork
<1>2. E.trove[b].debt = debt
  <2>1. E.trove[b] = new
    <3> HIDE DEF new
    <3>1. E.trove = [A.trove EXCEPT ![b] = new]
      BY <1>1
    <3>2. DOMAIN A.trove = Borrowers
      BY Zenon
    <3> QED
      BY <3>1, <3>2, Zenon
  <2>2. new.debt = debt
    BY Zenon
  <2> HIDE DEF new
  <2> QED
    BY <2>1, <2>2, Zenon
<1>3. Near(m * r, x * RATE_PRECISION, 2 * (Step(r) * r))
  <2> DEFINE u == Step(r)
             w == x * RATE_PRECISION
             o == 0
  <2>1. r \in Nat \ {0} /\ u \in Nat /\ w \in Int
    BY RatesPositive, SlackTyped, UnitsAssumption DEF BranchInv
  <2>2. w <= m * r /\ m * r <= w + u * r /\ Near(o, 0, u) /\ o \in Int /\ m \in Int
    BY <2>1 DEF Near
  <2> HIDE DEF u, w, o, r
  <2>3. Near(m * r, w, 2 * (u * r))
    BY <2>1, <2>2, NearProducts
  <2> QED
    BY <2>3 DEF u, w
<1>4. Own(pl, debt, s, z) = Own(pl, debt + m, s, z) + DebtIn(m, s, z)
  <2>1. IntPools(pl) /\ debt \in Int /\ m \in Int
    OBVIOUS
  <2> HIDE DEF pl
  <2> QED
    BY <2>1, LessOwn
<1>5. Own(E.active, E.trove[b].debt, E.shielded[b], z)
        = Own(A.active, A.trove[b].debt, s, z) + DebtIn(m, s, z)
  BY <1>1, <1>2, <1>4, Zenon DEF pl
<1>6. m \in Int
  OBVIOUS
<1>7. LotEffect(E, A, b, s, z, m, x)
  BY <1>1, <1>3, <1>5, <1>6, Zenon DEF LotEffect, r
<1> QED
  BY <1>1, <1>7, Zenon DEF HasEffect

\* The active troves of the loop are in the pools that they were in.
AtHome(L) == \A c \in Borrowers : L.status[c] = "active" => L.shielded[c] = shielded[c]

Kept(L) == Cleared(L.status, L.trove) /\ AtHome(L)

\* By how much the loop has moved the gap of pool z.
Gained(L, z) == Gap(L.active, L.trove, L.shielded, z) - Gap(active, trove, shielded, z)

\* After k lots the gap is what the pool has yet to lose, or so.
Tally(L, z, k) ==
  /\ Kept(L)
  /\ Plain(rate[z]) =>
       Near(Gained(L, z) * rate[z], L.LUSDToRedeem[z] * RATE_PRECISION,
            k * (2 * (Step(rate[z]) * rate[z])))

\* What belongs to owner c is where it was.
SameHome(E, A, c) == E.trove[c] = A.trove[c] /\ E.shielded[c] = A.shielded[c]

\* The books of the loop are typed.
LEMMA LoopIsTyped ==
  ASSUME BranchInv, NEW L, LoopBooks(L), NEW z \in BOOLEAN
  PROVE  /\ L.trove \in [Borrowers -> Troves] /\ L.shielded \in [Borrowers -> BOOLEAN]
         /\ L.status \in [Borrowers -> Statuses]
         /\ IntPools(L.active) /\ Gained(L, z) \in Int /\ L.LUSDToRedeem \in [BOOLEAN -> Nat]
         /\ Gap(L.active, L.trove, L.shielded, z) \in Int
         /\ Gap(active, trove, shielded, z) \in Int
<1>1. /\ L.trove \in [Borrowers -> Troves] /\ L.shielded \in [Borrowers -> BOOLEAN]
      /\ L.active \in [BOOLEAN -> Balances] /\ L.LUSDToRedeem \in [BOOLEAN -> Nat]
      /\ L.status \in [Borrowers -> Statuses]
  BY Zenon DEF LoopBooks, AccountsOK, OwnersOK, PoolsOK
<1>2. IntPools(L.active)
  <2> DEFINE p == L.active
  <2>1. p \in [BOOLEAN -> Balances]
    BY <1>1
  <2> HIDE DEF p
  <2>2. IntPools(p)
    BY <2>1, PoolsHaveDebt
  <2> QED
    BY <2>2 DEF p
<1>3. Gap(L.active, L.trove, L.shielded, z) \in Int
  <2> DEFINE p == L.active
             t == L.trove
             sh == L.shielded
  <2>1. t \in [Borrowers -> Troves] /\ sh \in [Borrowers -> BOOLEAN] /\ IntPools(p)
    BY <1>1, <1>2
  <2> HIDE DEF p, t, sh
  <2>2. Gap(p, t, sh, z) \in Int
    BY <2>1, GapTyped
  <2> QED
    BY <2>2 DEF p, t, sh
<1>4. Gap(active, trove, shielded, z) \in Int
  BY BooksTyped, GapTyped
<1>5. Gained(L, z) \in Int
  <2> DEFINE i == Gap(L.active, L.trove, L.shielded, z)
             j == Gap(active, trove, shielded, z)
  <2>1. Gained(L, z) = i - j
    BY DEF Gained
  <2>2. i \in Int /\ j \in Int
    BY <1>3, <1>4
  <2> HIDE DEF i, j
  <2> QED
    BY <2>1, <2>2
<1> QED
  BY <1>1, <1>2, <1>3, <1>4, <1>5, Zenon

\* The loop goes from X to Y, and only b's part of the gap changes, by e.
Moves(X, Y, b, s, z, e) ==
  /\ \A c \in Borrowers \ {b} : SameHome(Y, X, c)
  /\ Own(Y.active, Y.trove[b].debt, Y.shielded[b], z)
       = Own(X.active, X.trove[b].debt, X.shielded[b], z) + DebtIn(e, s, z)

\* Then the whole gap changes by what that is in pool z.
LEMMA GainedBy ==
  ASSUME BranchInv, NEW X, LoopBooks(X), NEW Y, LoopBooks(Y), NEW b \in Borrowers,
         NEW s \in BOOLEAN, NEW z \in BOOLEAN, NEW e \in Int, Moves(X, Y, b, s, z, e)
  PROVE  Gained(Y, z) = Gained(X, z) + DebtIn(e, s, z) /\ DebtIn(e, s, z) \in Int
<1> DEFINE t == X.trove
           sh == X.shielded
           p == X.active
           u == Y.trove
           sj == Y.shielded
           q == Y.active
           k == DebtIn(e, s, z)
<1>1. /\ t \in [Borrowers -> Troves] /\ sh \in [Borrowers -> BOOLEAN] /\ IntPools(p)
      /\ u \in [Borrowers -> Troves] /\ sj \in [Borrowers -> BOOLEAN] /\ IntPools(q)
  BY LoopIsTyped, Zenon
<1>2. \A c \in Borrowers \ {b} : u[c] = t[c] /\ sj[c] = sh[c]
  BY Zenon DEF Moves, SameHome
<1>3. Own(q, u[b].debt, sj[b], z) = Own(p, t[b].debt, sh[b], z) + k
  BY Zenon DEF Moves
<1>4. /\ Gained(Y, z) = Gap(q, u, sj, z) - Gap(active, trove, shielded, z)
      /\ Gained(X, z) = Gap(p, t, sh, z) - Gap(active, trove, shielded, z)
  BY Zenon DEF Gained
<1>5. k \in Int
  BY DebtInTyped
<1> HIDE DEF t, sh, p, u, sj, q, k
<1>6. Gap(q, u, sj, z) - Gap(p, t, sh, z) = Own(q, u[b].debt, sj[b], z) - Own(p, t[b].debt, sh[b], z)
  BY <1>1, <1>2, GapChange
<1>7. Gap(q, u, sj, z) \in Int /\ Gap(p, t, sh, z) \in Int /\ Gap(active, trove, shielded, z) \in Int
  BY <1>1, BooksTyped, GapTyped
<1>8. Own(q, u[b].debt, sj[b], z) \in Int /\ Own(p, t[b].debt, sh[b], z) \in Int
  <2>1. t[b].debt \in Int /\ u[b].debt \in Int /\ sh[b] \in BOOLEAN /\ sj[b] \in BOOLEAN
    BY <1>1 DEF Troves
  <2> QED
    BY <1>1, <2>1, OwnTyped
<1> DEFINE g == Gap(q, u, sj, z)
           h == Gap(p, t, sh, z)
           w == Gap(active, trove, shielded, z)
           i == Own(q, u[b].debt, sj[b], z)
           j == Own(p, t[b].debt, sh[b], z)
<1>9. /\ g \in Int /\ h \in Int /\ w \in Int /\ i \in Int /\ j \in Int /\ g - h = i - j /\ i = j + k
      /\ Gained(Y, z) = g - w /\ Gained(X, z) = h - w
  BY <1>3, <1>4, <1>6, <1>7, <1>8
<1> HIDE DEF g, h, w, i, j
<1>10. Gained(Y, z) = Gained(X, z) + k
  BY <1>5, <1>9
<1> QED
  BY <1>5, <1>10 DEF k

\* One more lot.
LEMMA OneMoreLot ==
  ASSUME NEW g \in Int, NEW e \in Int, NEW r \in Int, NEW w \in Int, NEW y \in Int,
         NEW k \in Nat, NEW v \in Nat, Near(g * r, w, k * v)
  PROVE  /\ Near(g * r, w, (k + 1) * v)
         /\ Near(e * r, y, v) => Near((g + e) * r, w + y, (k + 1) * v)
<1> DEFINE i == g * r
           j == e * r
           n == k * v
<1>1. i \in Int /\ j \in Int /\ n \in Int /\ Near(i, w, n)
  OBVIOUS
<1>2. (g + e) * r = i + j /\ (k + 1) * v = n + v
  OBVIOUS
<1> HIDE DEF i, j, n
<1>3. Near(i, w, n + v)
  BY <1>1 DEF Near
<1>4. ASSUME Near(j, y, v)
      PROVE  Near(i + j, w + y, n + v)
  BY <1>1, <1>4 DEF Near
<1> QED
  BY <1>2, <1>3, <1>4, Zenon DEF i, j

\* A lot is counted.
LEMMA LotTally ==
  ASSUME BranchInv, NEW A, LoopBooks(A), NEW E, LoopBooks(E), Kept(E), NEW b \in Borrowers,
         NEW s \in BOOLEAN, NEW z \in BOOLEAN, NEW k \in Nat, Tally(A, z, k),
         NEW e, NEW x, LotEffect(E, A, b, s, z, e, x), Moves(A, E, b, s, z, e)
  PROVE  Tally(E, z, k + 1)
<1> DEFINE r == rate[z]
           g == Gained(A, z)
           f == Gained(E, z)
           m == A.LUSDToRedeem[z]
           n == E.LUSDToRedeem[z]
           v == 2 * (Step(r) * r)
           R == RATE_PRECISION
<1> SUFFICES ASSUME Plain(rate[z])
             PROVE  Near(f * r, n * R, (k + 1) * v)
  BY Zenon DEF Tally
<1>1. Near(g * r, m * R, k * v)
  BY Zenon DEF Tally
<1>2. /\ e \in Int /\ x \in Nat
      /\ Near(e * rate[s], x * R, 2 * (Step(rate[s]) * rate[s]))
      /\ E.LUSDToRedeem = [A.LUSDToRedeem EXCEPT ![s] = A.LUSDToRedeem[s] + x]
  BY Zenon DEF LotEffect
<1>3. f = g + DebtIn(e, s, z) /\ DebtIn(e, s, z) \in Int
  BY <1>2, GainedBy
<1>4. g \in Int /\ A.LUSDToRedeem \in [BOOLEAN -> Nat] /\ m \in Nat
  <2>1. g \in Int /\ A.LUSDToRedeem \in [BOOLEAN -> Nat]
    BY LoopIsTyped
  <2> QED
    BY <2>1, Zenon
<1>5. r \in Nat /\ Step(r) \in Nat /\ R \in Nat
  BY RatesPositive, SlackTyped, UnitsAssumption DEF BranchInv
<1>6. v \in Nat /\ m * R \in Int /\ x * R \in Int
  <2>1. \A i, j \in Nat : i * j \in Nat /\ 2 * (i * j) \in Nat
    OBVIOUS
  <2> QED
    BY <1>2, <1>4, <1>5, <2>1
<1>7. CASE s = z
  <2>1. DebtIn(e, s, z) = e /\ n = m + x /\ Near(e * r, x * R, v)
    <3>1. DebtIn(e, s, z) = e
      BY <1>7, Zenon DEF DebtIn
    <3>2. n = m + x
      BY <1>2, <1>4, <1>7, Zenon
    <3>3. Near(e * r, x * R, v)
      BY <1>2, <1>7, Zenon
    <3> QED
      BY <3>1, <3>2, <3>3, Zenon
  <2>2. f = g + e
    BY <1>3, <2>1, Zenon
  <2> HIDE DEF f, g, r, m, n, v, R
  <2>3. n * R = m * R + x * R
    BY <1>2, <1>4, <1>5, <2>1
  <2> DEFINE w == m * R
             y == x * R
  <2>4. w \in Int /\ y \in Int /\ Near(g * r, w, k * v) /\ Near(e * r, y, v) /\ r \in Int
    BY <1>1, <1>5, <1>6, <2>1
  <2> HIDE DEF w, y
  <2>5. Near((g + e) * r, w + y, (k + 1) * v)
    BY <1>2, <1>4, <1>6, <2>4, OneMoreLot
  <2> QED
    BY <2>2, <2>3, <2>5, Zenon DEF w, y
<1>8. CASE s # z
  <2>1. DebtIn(e, s, z) = 0 /\ n = m
    <3>1. DebtIn(e, s, z) = 0
      BY <1>8, Zenon DEF DebtIn
    <3>2. n = m
      BY <1>2, <1>4, <1>8, Zenon
    <3> QED
      BY <3>1, <3>2, Zenon
  <2> HIDE DEF f, g, r, m, n, v, R
  <2>2. f = g
    <3> DEFINE i == DebtIn(e, s, z)
    <3>1. f = g + i /\ i = 0
      BY <1>3, <2>1, Zenon
    <3> HIDE DEF i
    <3> QED
      BY <1>4, <3>1
  <2> DEFINE w == m * R
  <2>3. w \in Int /\ Near(g * r, w, k * v) /\ r \in Int
    BY <1>1, <1>5, <1>6
  <2> HIDE DEF w
  <2>4. Near(g * r, w, (k + 1) * v)
    BY <1>2, <1>4, <1>6, <2>3, OneMoreLot
  <2> QED
    BY <2>1, <2>2, <2>4, Zenon DEF w
<1> QED
  BY <1>7, <1>8, Zenon

\* Where the owner of an active trove is.
LEMMA HomeOf ==
  ASSUME NEW L, Kept(L), NEW b \in Borrowers, L.status[b] = "active"
  PROVE  L.shielded[b] = shielded[b]
BY Zenon DEF Kept, AtHome

\* Applying rewards moves no gap.
LEMMA AppliedTally ==
  ASSUME BranchInv, NEW L, NEW b, NEW s, NEW A, AtFresh(A, L, b, s), NEW z \in BOOLEAN,
         NEW k, Tally(L, z, k)
  PROVE  Tally(A, z, k) /\ A.status[b] = "active" /\ A.shielded[b] = s
<1> DEFINE a == _applyPendingRewards(b, s, rate, trove[b], L.active, L.default)
<1>1. CanApply(A, L, b, s) /\ Starting(L, b) /\ shielded[b] = s
  BY Zenon DEF AtFresh
<1>2. /\ LoopBooks(L) /\ b \in Borrowers /\ s \in BOOLEAN /\ LoopBooks(A)
      /\ \A c \in Borrowers \ {b} : SameOwner(A, L, c)
  BY <1>1, AtFreshFacts, Zenon DEF CanApply
<1>3. /\ A.trove = [L.trove EXCEPT ![b] = a.trove] /\ A.active = a.pools
      /\ A.status = L.status /\ A.shielded = L.shielded /\ A.LUSDToRedeem = L.LUSDToRedeem
  <2>1. a = _applyPendingRewards(b, s, rate, trove[b], L.active, L.default)
    OBVIOUS
  <2> HIDE DEF a
  <2>2. /\ DOMAIN A = LoopFields /\ SameRest(A, L)
        /\ A.trove = [L.trove EXCEPT ![b] = a.trove] /\ A.snap = [L.snap EXCEPT ![b] = a.snap]
        /\ A.active = a.pools /\ A.default = a.default
    BY <1>1, <2>1, AppliedIs
  <2> QED
    BY <2>2, Zenon DEF SameRest
<1>4. L.status[b] = "active" /\ L.trove[b] = trove[b]
  BY <1>1, Zenon DEF Starting, Fresh
<1>5. L.shielded[b] = s /\ A.shielded[b] = s /\ A.status[b] = "active"
  <2>1. Kept(L)
    BY Zenon DEF Tally
  <2>2. L.shielded[b] = shielded[b]
    BY <1>2, <1>4, <2>1, HomeOf, Zenon
  <2>3. L.shielded[b] = s
    BY <1>1, <2>2, Zenon
  <2>4. A.shielded[b] = s
    BY <1>3, <2>3, Zenon
  <2> QED
    BY <1>3, <1>4, <2>3, <2>4, Zenon
<1>6. L.trove \in [Borrowers -> Troves]
  BY <1>2, LoopIsTyped
<1>7. A.trove[b] = a.trove /\ \A c \in Borrowers \ {b} : A.trove[c] = L.trove[c]
  <2> DEFINE new == a.trove
  <2>1. A.trove = [L.trove EXCEPT ![b] = new]
    BY <1>3
  <2> HIDE DEF a, new
  <2>2. A.trove[b] = new
    BY <1>2, <1>6, <2>1, Zenon
  <2>3. \A c \in Borrowers \ {b} : A.trove[c] = L.trove[c]
    BY <1>2, Zenon DEF SameOwner
  <2> QED
    BY <2>2, <2>3 DEF new
<1>8. Kept(A)
  <2>1. Kept(L)
    BY Zenon DEF Tally
  <2>2. ASSUME NEW c \in Borrowers, A.status[c] # "active"
        PROVE  A.trove[c].debt = 0
    <3>1. c # b
      BY <1>5, <2>2, Zenon
    <3>2. A.trove[c] = L.trove[c]
      BY <1>7, <3>1, Zenon
    <3>3. L.trove[c].debt = 0
      BY <1>3, <2>1, <2>2, Zenon DEF Kept, Cleared
    <3> QED
      BY <3>2, <3>3, Zenon
  <2>3. AtHome(A)
    BY <1>3, <2>1, Zenon DEF Kept, AtHome
  <2> QED
    BY <2>2, <2>3, Zenon DEF Kept, Cleared
<1>9. ASSUME Plain(rate[z])
      PROVE  Gained(A, z) = Gained(L, z)
  <2>1. Own(a.pools, a.trove.debt, s, z) = Own(L.active, trove[b].debt, s, z)
    <3> DEFINE t == trove[b]
               pools == L.active
               dflt == L.default
               r == rate
    <3>1. /\ a = _applyPendingRewards(b, s, r, t, pools, dflt)
          /\ IntPools(pools) /\ r \in Rates /\ Plain(r[z]) /\ t \in Troves
      <4>1. IntPools(pools)
        BY <1>2, LoopIsTyped
      <4>2. r \in Rates /\ t \in Troves
        BY <1>2, Zenon DEF BranchInv, AccountsOK
      <4> QED
        BY <1>9, <4>1, <4>2
    <3> HIDE DEF a, t, pools, dflt, r
    <3>2. Own(a.pools, a.trove.debt, s, z) = Own(pools, t.debt, s, z)
      BY <1>2, <3>1, AppliedOwn
    <3> QED
      BY <3>2 DEF t, pools
  <2>2. Own(A.active, A.trove[b].debt, A.shielded[b], z) = Own(L.active, L.trove[b].debt, L.shielded[b], z)
    BY <1>3, <1>4, <1>5, <1>7, <2>1, Zenon
  <2>3. DebtIn(0, s, z) = 0 /\ Own(L.active, L.trove[b].debt, L.shielded[b], z) \in Int
    <3>1. DebtIn(0, s, z) = 0
      BY Zenon DEF DebtIn
    <3>2. IntPools(L.active) /\ L.trove[b].debt \in Int /\ L.shielded[b] \in BOOLEAN
      <4>1. IntPools(L.active) /\ L.shielded \in [Borrowers -> BOOLEAN]
        BY <1>2, LoopIsTyped
      <4>2. L.trove[b] \in Troves
        BY <1>2, <1>6, Zenon
      <4>3. \A t \in Troves : t.debt \in Int
        BY DEF Troves
      <4> QED
        BY <1>2, <4>1, <4>2, <4>3, Zenon
    <3>3. Own(L.active, L.trove[b].debt, L.shielded[b], z) \in Int
      BY <3>2, OwnTyped
    <3> QED
      BY <3>1, <3>3, Zenon
  <2> DEFINE i == Own(A.active, A.trove[b].debt, A.shielded[b], z)
             j == Own(L.active, L.trove[b].debt, L.shielded[b], z)
             o == DebtIn(0, s, z)
  <2>4. i = j /\ j \in Int /\ o = 0
    BY <2>2, <2>3, Zenon
  <2> HIDE DEF i, j, o
  <2>5. i = j + o
    BY <2>4
  <2>6. Moves(L, A, b, s, z, 0)
    <3>1. \A c \in Borrowers \ {b} : SameHome(A, L, c)
      BY <1>3, <1>7, Zenon DEF SameHome
    <3> QED
      BY <2>5, <3>1, Zenon DEF Moves, i, j, o
  <2>7. Gained(A, z) = Gained(L, z) + DebtIn(0, s, z)
    <3>1. \A e \in Int : Moves(L, A, b, s, z, e) => Gained(A, z) = Gained(L, z) + DebtIn(e, s, z)
      BY <1>2, GainedBy
    <3>2. 0 \in Int
      OBVIOUS
    <3> QED
      BY <2>6, <3>1, <3>2, Zenon
  <2>8. Gained(L, z) \in Int
    BY <1>2, LoopIsTyped
  <2> DEFINE f == Gained(A, z)
             g == Gained(L, z)
  <2>9. f = g + o /\ g \in Int
    BY <2>7, <2>8, Zenon DEF o
  <2> HIDE DEF f, g
  <2>10. f = g
    BY <2>4, <2>9
  <2> QED
    BY <2>10 DEF f, g
<1>10. Tally(A, z, k)
  BY <1>3, <1>8, <1>9, Zenon DEF Tally
<1> QED
  BY <1>5, <1>10, Zenon

Home(A, b, s) == A.status[b] = "active" /\ A.shielded[b] = s

\* A trove is redeemed, in part or as a whole.
LEMMA RedeemedTally ==
  ASSUME BranchInv, NEW p, Asked(p), NEW L, NEW b, NEW s, NEW A, AtFresh(A, L, b, s), Home(A, b, s),
         NEW z \in BOOLEAN, NEW k \in Nat, Tally(A, z, k), NEW E, NEW C, NEW last,
         IsRedeemed(E, C, A, b, s, p, last), LoopBooks(E)
  PROVE  Tally(E, z, k + 1)
<1> DEFINE x == Lot(A, b, s, p).LUSD
           y == Lot(A, b, s, p).coll
           m == NormalizedLot(x, rate[s])
           debt == DebtLeft(A, b, s, p)
           coll == CollLeft(A, b, s, p)
           stake == _computeNewStake(coll)
           n == NormDown(LUSD_GAS_COMPENSATION, rate[s])
<1>1. /\ b \in Borrowers /\ s \in BOOLEAN /\ LoopBooks(A) /\ A.trove[b] \in Troves /\ A.left \in Nat
      /\ \A c \in Borrowers \ {b} : SameOwner(A, L, c)
  BY AtFreshFacts, Zenon
<1>2. /\ A.trove \in [Borrowers -> Troves] /\ A.shielded \in [Borrowers -> BOOLEAN]
      /\ A.status \in [Borrowers -> Statuses] /\ IntPools(A.active)
  BY <1>1, LoopIsTyped, Zenon
<1>3. /\ x \in Nat /\ m \in Nat /\ debt \in Nat /\ A.trove[b].debt = debt + m
      /\ x * RATE_PRECISION <= m * rate[s]
      /\ m * rate[s] <= x * RATE_PRECISION + Step(rate[s]) * rate[s]
      /\ Closes(A, b, s, p) => Near(debt, n, Step(rate[s]))
  <2>1. x = Lot(A, b, s, p).LUSD /\ m = NormalizedLot(x, rate[s]) /\ debt = DebtLeft(A, b, s, p)
    OBVIOUS
  <2> HIDE DEF x, m, debt
  <2> QED
    BY <1>1, <2>1, LotDebts
<1>4. /\ IsCounted(E, C, s, x, y, last)
      /\ \/ Closes(A, b, s, p) /\ IsClosed(C, A, b, s, coll, n)
         \/ IsPartly(C, A, b, debt, coll, stake)
  BY Zenon DEF IsRedeemed
<1>5. n \in Int
  <2> DEFINE q == rate[s]
  <2>1. q \in Nat \ {0} /\ LUSD_GAS_COMPENSATION \in Nat
    BY <1>1, RatesPositive, UnitsAssumption DEF BranchInv
  <2> HIDE DEF q
  <2>2. NormDown(LUSD_GAS_COMPENSATION, q) \in Nat
    BY <2>1, Conversions
  <2>3. n \in Nat
    BY <2>2, Zenon DEF q
  <2> HIDE DEF n
  <2> QED
    BY <2>3
<1>6. \A c \in Borrowers \ {b} : SameOwner(E, A, c)
  <2>1. \A c \in Borrowers \ {b} : SameOwner(E, L, c)
    BY OthersSame, Zenon
  <2> QED
    BY <1>1, <2>1, Zenon DEF SameOwner
<1>7. A.shielded[b] = s /\ A.status[b] = "active" /\ Kept(A)
  BY Zenon DEF Home, Tally
<1> HIDE DEF x, y, m, debt, coll, stake, n
<1>8. CASE Closes(A, b, s, p) /\ IsClosed(C, A, b, s, coll, n)
  <2>1. Near(debt, n, Step(rate[s]))
    BY <1>3, <1>8, Zenon
  <2>0. ClosedHome(E, A, b) /\ HasEffect(E, A, b, s, z, x)
    <3>1. /\ b \in Borrowers /\ s \in BOOLEAN /\ A.trove \in [Borrowers -> Troves]
          /\ A.shielded \in [Borrowers -> BOOLEAN] /\ IntPools(A.active)
      BY <1>1, <1>2, Zenon
    <3>2. /\ x \in Nat /\ m \in Nat /\ debt \in Nat /\ n \in Int
          /\ A.trove[b].debt = debt + m /\ Near(debt, n, Step(rate[s]))
          /\ x * RATE_PRECISION <= m * rate[s]
          /\ m * rate[s] <= x * RATE_PRECISION + Step(rate[s]) * rate[s]
      BY <1>3, <1>5, <2>1, Zenon
    <3>3. IsCounted(E, C, s, x, y, last) /\ IsClosed(C, A, b, s, coll, n)
      BY <1>4, <1>8, Zenon
    <3> QED
      BY <3>1, <3>2, <3>3, ClosedEffect
  <2>2. /\ E.trove[b].debt = 0 /\ E.status = [A.status EXCEPT ![b] = "closedByRedemption"]
        /\ E.shielded = [A.shielded EXCEPT ![b] = FALSE]
        /\ \E e : LotEffect(E, A, b, s, z, e, x)
    BY <2>0, Zenon DEF ClosedHome, HasEffect
  <2>3. PICK e : LotEffect(E, A, b, s, z, e, x)
    BY <2>2, Zenon
  <2>4. \A c \in Borrowers \ {b} : E.shielded[c] = A.shielded[c] /\ E.status[c] = A.status[c]
    BY <1>1, <1>2, <2>2, Zenon
  <2>5. E.status[b] # "active"
    <3>1. E.status[b] = "closedByRedemption"
      BY <1>1, <1>2, <2>2, Zenon
    <3> QED
      BY <3>1
  <2>6. Kept(E)
    <3>1. ASSUME NEW c \in Borrowers, E.status[c] # "active"
          PROVE  E.trove[c].debt = 0
      <4>1. CASE c = b
        BY <2>2, <4>1, Zenon
      <4>2. CASE c # b
        <5>1. E.trove[c] = A.trove[c] /\ E.status[c] = A.status[c]
          BY <1>6, <4>2, Zenon DEF SameOwner
        <5>2. A.trove[c].debt = 0
          BY <1>7, <3>1, <5>1, Zenon DEF Kept, Cleared
        <5> QED
          BY <5>1, <5>2, Zenon
      <4> QED
        BY <4>1, <4>2, Zenon
    <3>2. ASSUME NEW c \in Borrowers, E.status[c] = "active"
          PROVE  E.shielded[c] = shielded[c]
      <4>1. c # b
        BY <2>5, <3>2, Zenon
      <4>2. E.shielded[c] = A.shielded[c] /\ A.status[c] = "active"
        BY <2>4, <3>2, <4>1, Zenon
      <4>3. A.shielded[c] = shielded[c]
        BY <1>7, <4>2, Zenon DEF Kept, AtHome
      <4> QED
        BY <4>2, <4>3, Zenon
    <3> QED
      BY <3>1, <3>2, Zenon DEF Kept, Cleared, AtHome
  <2>7. Moves(A, E, b, s, z, e)
    <3>1. \A c \in Borrowers \ {b} : SameHome(E, A, c)
      BY <1>6, <2>4, Zenon DEF SameHome, SameOwner
    <3>2. Own(E.active, E.trove[b].debt, E.shielded[b], z)
            = Own(A.active, A.trove[b].debt, s, z) + DebtIn(e, s, z)
      BY <2>3, Zenon DEF LotEffect
    <3>3. Own(A.active, A.trove[b].debt, A.shielded[b], z) = Own(A.active, A.trove[b].debt, s, z)
      BY <1>7, Zenon
    <3> QED
      BY <3>1, <3>2, <3>3, Zenon DEF Moves
  <2> QED
    BY <1>1, <2>3, <2>6, <2>7, LotTally, Zenon
<1>9. CASE IsPartly(C, A, b, debt, coll, stake)
  <2>1. /\ E.status = A.status /\ E.shielded = A.shielded
        /\ HasEffect(E, A, b, s, z, x)
    BY <1>1, <1>2, <1>3, <1>4, <1>7, <1>9, PartlyEffect, Zenon
  <2>2. PICK e : LotEffect(E, A, b, s, z, e, x)
    BY <2>1, Zenon DEF HasEffect
  <2>3. Kept(E)
    <3>1. ASSUME NEW c \in Borrowers, E.status[c] # "active"
          PROVE  E.trove[c].debt = 0
      <4>1. c # b /\ A.status[c] # "active"
        BY <1>7, <2>1, <3>1, Zenon
      <4>2. E.trove[c] = A.trove[c]
        BY <1>6, <4>1, Zenon DEF SameOwner
      <4>3. A.trove[c].debt = 0
        BY <1>7, <4>1, Zenon DEF Kept, Cleared
      <4> QED
        BY <4>2, <4>3, Zenon
    <3>2. AtHome(E)
      BY <1>7, <2>1, Zenon DEF Kept, AtHome
    <3> QED
      BY <3>1, <3>2, Zenon DEF Kept, Cleared
  <2>4. Moves(A, E, b, s, z, e)
    <3>1. \A c \in Borrowers \ {b} : SameHome(E, A, c)
      BY <1>6, <2>1, Zenon DEF SameHome, SameOwner
    <3>2. Own(E.active, E.trove[b].debt, E.shielded[b], z)
            = Own(A.active, A.trove[b].debt, s, z) + DebtIn(e, s, z)
      BY <2>2, Zenon DEF LotEffect
    <3>3. Own(A.active, A.trove[b].debt, A.shielded[b], z) = Own(A.active, A.trove[b].debt, s, z)
      BY <1>7, Zenon
    <3> QED
      BY <3>1, <3>2, <3>3, Zenon DEF Moves
  <2> QED
    BY <1>1, <2>2, <2>3, <2>4, LotTally, Zenon
<1> QED
  BY <1>4, <1>8, <1>9, Zenon

\* The bound only grows.
LEMMA TallyGrows ==
  ASSUME BranchInv, NEW L, LoopBooks(L), NEW z \in BOOLEAN, NEW k \in Nat, Tally(L, z, k)
  PROVE  Tally(L, z, k + 1)
<1> DEFINE r == rate[z]
           g == Gained(L, z)
           v == 2 * (Step(r) * r)
           w == L.LUSDToRedeem[z] * RATE_PRECISION
<1> SUFFICES ASSUME Plain(rate[z])
             PROVE  Near(g * r, w, (k + 1) * v)
  BY Zenon DEF Tally
<1>1. Near(g * r, w, k * v)
  BY Zenon DEF Tally
<1>2. g \in Int
  BY LoopIsTyped
<1>3. r \in Nat /\ v \in Nat
  <2>1. r \in Nat /\ Step(r) \in Nat
    BY RatesPositive, SlackTyped DEF BranchInv
  <2>2. \A i, j \in Nat : 2 * (i * j) \in Nat
    OBVIOUS
  <2> QED
    BY <2>1, <2>2
<1>4. w \in Int
  <2> DEFINE n == L.LUSDToRedeem[z]
  <2>1. n \in Nat
    <3>1. L.LUSDToRedeem \in [BOOLEAN -> Nat]
      BY LoopIsTyped, Zenon
    <3> QED
      BY <3>1, Zenon
  <2> HIDE DEF n
  <2>2. n * RATE_PRECISION \in Int
    BY <2>1, UnitsAssumption
  <2> QED
    BY <2>2 DEF n
<1> HIDE DEF r, g, v, w
<1>5. r \in Int /\ 0 \in Int
  BY <1>3
<1> QED
  <2>1. \A e \in Int : Near(g * r, w, (k + 1) * v)
    BY <1>1, <1>2, <1>3, <1>4, <1>5, OneMoreLot
  <2> QED
    BY <1>5, <2>1

\* A loop that stops moves no gap.
LEMMA StoppedTally ==
  ASSUME NEW A, DOMAIN A = LoopFields, NEW E, E = [A EXCEPT !.running = FALSE],
         NEW z, NEW k, Tally(A, z, k)
  PROVE  Tally(E, z, k)
<1>1. /\ E.trove = A.trove /\ E.active = A.active /\ E.status = A.status
      /\ E.shielded = A.shielded /\ E.LUSDToRedeem = A.LUSDToRedeem
  BY StoppedBooks
<1>2. Kept(E) <=> Kept(A)
  BY <1>1, Zenon DEF Kept, Cleared, AtHome
<1>3. Gained(E, z) = Gained(A, z)
  BY <1>1, Zenon DEF Gained
<1> QED
  BY <1>1, <1>2, <1>3, Zenon DEF Tally

\* One iteration.
LEMMA IterateTally ==
  ASSUME BranchInv, NEW order \in Orders, NEW p, Asked(p), NEW L, LoopInv(L, order, p),
         NEW z \in BOOLEAN, NEW k \in Nat, L.ok => Tally(L, z, k),
         NEW E, E = Iterate(L, order, p), LoopInv(E, order, p), E.ok
  PROVE  Tally(E, z, k + 1)
<1>1. /\ L.ok
      /\ \/ E = [L EXCEPT !.running = FALSE]
         \/ \E A, b, s, last : Visits(E, L, A, b, s, p, last)
  BY IterateVisits
<1>2. DOMAIN L = LoopFields /\ Tally(L, z, k) /\ LoopBooks(E)
  BY <1>1, Zenon DEF LoopInv, LoopOK, LoopTyped
<1>3. Tally(E, z, k) => Tally(E, z, k + 1)
  BY <1>2, TallyGrows
<1>4. CASE E = [L EXCEPT !.running = FALSE]
  <2>1. Tally(E, z, k)
    BY <1>2, <1>4, StoppedTally
  <2> QED
    BY <1>3, <2>1, Zenon
<1>5. ASSUME NEW A, NEW b, NEW s, NEW last, Visits(E, L, A, b, s, p, last)
      PROVE  Tally(E, z, k + 1)
  <2>1. AtFresh(A, L, b, s)
    BY <1>5, Zenon DEF Visits
  <2>2. Tally(A, z, k) /\ Home(A, b, s)
    <3>1. Tally(A, z, k) /\ A.status[b] = "active" /\ A.shielded[b] = s
      BY <1>2, <2>1, AppliedTally
    <3> QED
      BY <3>1, Zenon DEF Home
  <2>3. DOMAIN A = LoopFields
    BY <2>1, AtFreshFacts
  <2>4. CASE E = [A EXCEPT !.running = FALSE]
    <3>1. Tally(E, z, k)
      BY <2>2, <2>3, <2>4, StoppedTally
    <3> QED
      BY <1>3, <3>1, Zenon
  <2>5. ASSUME NEW C, IsRedeemed(E, C, A, b, s, p, last)
        PROVE  Tally(E, z, k + 1)
    BY <1>2, <2>1, <2>2, <2>5, RedeemedTally
  <2> QED
    BY <1>5, <2>4, <2>5, Zenon DEF Visits
<1> QED
  BY <1>1, <1>4, <1>5, Zenon

\* A drip lowers no rate.
LEMMA RatesGrow ==
  ASSUME BranchInv, NEW pools, NEW dflt, NEW l, NEW d \in DripsFrom(pools, dflt, l),
         NEW s \in BOOLEAN
  PROVE  rate[s] <= d.rate[s]
<1>0. rate[s] \in Nat /\ RATE_PRECISION <= rate[s]
  BY RatesPositive, UnitsAssumption DEF BranchInv
<1>1. CASE d = NoDripOf(l)
  <2>1. d.rate = rate
    BY <1>1 DEF NoDripOf
  <2> QED
    BY <1>0, <2>1
<1>2. ASSUME NEW g \in Growth, d = _drip(g, pools, dflt, l), l.deposits # 0
      PROVE  rate[s] <= d.rate[s]
  <2> DEFINE r == [z \in BOOLEAN |-> (rate[z] * g[z]) \div RATE_PRECISION]
             debt == getEntireSystemDebt(pools, dflt, r)
             currentSupply == l.supply + l.pending + l.fees
             interest == IF debt > currentSupply THEN debt - currentSupply ELSE 0
             toSP == (interest * spAllocFrac) \div DECIMAL_PRECISION
             m == [l EXCEPT !.deposits = l.deposits + toSP, !.pending = l.pending + toSP,
                            !.fees = l.fees + interest - toSP]
  <2>1. d = [rate |-> r, lusd |-> m]
    BY <1>2, Zenon DEF _drip
  <2> HIDE DEF m
  <2>2. d.rate = r
    BY <2>1, Zenon
  <2> DEFINE x == rate[s]
             y == g[s]
             R == RATE_PRECISION
  <2>3. d.rate[s] = (x * y) \div R
    BY <2>2, Zenon
  <2>4. x \in Nat /\ y \in Nat /\ R \in Nat \ {0} /\ R <= y
    BY <1>0, UnitsAssumption
  <2> HIDE DEF x, y, R
  <2>5. x * R <= x * y /\ x * y \in Nat
    <3>1. R * x <= y * x /\ y * x \in Nat
      BY <2>4, ProductMonotone
    <3> QED
      BY <2>4, <3>1
  <2> DEFINE p == x * y
  <2>6. p \in Nat /\ x * R <= p
    BY <2>5
  <2> HIDE DEF p
  <2>7. x <= p \div R
    BY <2>4, <2>6, DivAtLeast
  <2> QED
    BY <2>3, <2>7, Zenon DEF x, p
<1>3. ASSUME NEW g \in Growth, d = _drip(g, pools, dflt, l), l.deposits = 0
      PROVE  d = NoDripOf(l)
  BY <1>3 DEF _drip
<1>4. d = NoDripOf(l) \/ \E g \in Growth : d = _drip(g, pools, dflt, l)
  BY DEF DripsFrom
<1> QED
  BY <1>1, <1>2, <1>3, <1>4

\* So the rounding of a pool only grows, and a rate that has not grown had not before.
LEMMA SlackGrows ==
  ASSUME NEW q \in Nat, NEW r \in Nat, RATE_PRECISION <= q, q <= r
  PROVE  /\ Step(q) <= Step(r) /\ Slack(q) \in Nat /\ Slack(r) \in Nat /\ Slack(q) <= Slack(r)
         /\ Plain(r) => Plain(q)
<1>1. r = RATE_PRECISION => q = RATE_PRECISION
  BY UnitsAssumption
<1>2. Slack(q) \in Nat /\ Slack(r) \in Nat /\ TroveRounding \in Nat
  <2>1. Cardinality(Borrowers) \in Nat
    BY FiniteBorrowers, FS_CardinalityType
  <2> QED
    BY <2>1, SlackTyped DEF TroveRounding
<1>3. Step(q) <= Step(r)
  BY <1>1 DEF Step
<1>4. Slack(q) <= Slack(r)
  BY <1>1, <1>2 DEF Slack
<1> QED
  BY <1>1, <1>2, <1>3, <1>4 DEF Plain

\* The loop starts with no gap moved.
LEMMA TallyStarts ==
  ASSUME BranchInv, Cleared(status, trove), NEW order, NEW p, NEW L, L = LoopStart(order, p),
         NEW z \in BOOLEAN
  PROVE  Tally(L, z, 0)
<1> DEFINE zero == [s \in BOOLEAN |-> 0]
<1>1. /\ L.trove = trove /\ L.active = active /\ L.status = status /\ L.shielded = shielded
      /\ L.LUSDToRedeem = zero
  BY DEF LoopStart
<1>2. L.LUSDToRedeem[z] = 0
  <2>1. zero[z] = 0
    BY Zenon
  <2> HIDE DEF zero
  <2> QED
    BY <1>1, <2>1, Zenon
<1>3. Kept(L)
  BY <1>1, Zenon DEF Kept, AtHome
<1>4. Gained(L, z) = 0
  <2>1. Gained(L, z) = Gap(active, trove, shielded, z) - Gap(active, trove, shielded, z)
    BY <1>1, Zenon DEF Gained
  <2> DEFINE g == Gap(active, trove, shielded, z)
  <2>2. g \in Int
    BY BooksTyped, GapTyped
  <2>3. Gained(L, z) = g - g
    BY <2>1
  <2> HIDE DEF g
  <2> QED
    BY <2>2, <2>3
<1>5. Near(Gained(L, z) * rate[z], L.LUSDToRedeem[z] * RATE_PRECISION,
           0 * (2 * (Step(rate[z]) * rate[z])))
  <2> DEFINE r == rate[z]
             u == Step(r)
             v == 2 * (u * r)
  <2>1. r \in Nat /\ u \in Nat
    BY RatesPositive, SlackTyped DEF BranchInv
  <2> HIDE DEF r, u
  <2>2. v \in Nat
    <3>1. u * r \in Nat
      BY <2>1
    <3> QED
      BY <3>1
  <2> HIDE DEF v
  <2>3. Near(0 * r, 0 * RATE_PRECISION, 0 * v)
    BY <2>1, <2>2, UnitsAssumption DEF Near
  <2> QED
    BY <1>2, <1>4, <2>3, Zenon DEF v, u, r
<1> QED
  BY <1>3, <1>5, Zenon DEF Tally

\* The whole loop.
LEMMA LoopTally ==
  ASSUME BranchInv, Cleared(status, trove), NEW order \in Orders, NEW p, Asked(p),
         p.maxIterations \in Nat, NEW L, L = _runRedemptionLoop(order, p), L.ok, NEW z \in BOOLEAN
  PROVE  LoopBooks(L) /\ \E n \in Nat : n <= Cardinality(Active) /\ Tally(L, z, n)
<1>1. \E h, n : Unfolds(h, n, order, p, L)
  BY LoopUnfolds
<1>2. PICK h, n : Unfolds(h, n, order, p, L)
  BY <1>1
<1>3. /\ n \in Nat /\ n <= Cardinality(Active) /\ L = h[n] /\ h[0] = LoopStart(order, p)
      /\ \A m \in 0..n : m # n => h[m + 1] = Iterate(h[m], order, p)
      /\ \A m \in 0..n : LoopInv(h[m], order, p)
  BY <1>2 DEF Unfolds
<1> DEFINE T == {m \in 0..n : h[m].ok => Tally(h[m], z, m)}
<1>4. 0 \in T
  <2> DEFINE L0 == h[0]
  <2>1. L0 = LoopStart(order, p)
    BY <1>3
  <2> HIDE DEF L0
  <2>2. Tally(L0, z, 0)
    BY <2>1, TallyStarts
  <2> QED
    BY <1>3, <2>2 DEF L0
<1>5. ASSUME NEW m \in 0..n, m # n, m \in T
      PROVE  m + 1 \in T
  <2> DEFINE X == h[m]
             Y == h[m + 1]
  <2>1. m + 1 \in 0..n /\ m \in Nat
    BY <1>3, <1>5
  <2>2. /\ Y = Iterate(X, order, p) /\ LoopInv(X, order, p) /\ LoopInv(Y, order, p)
        /\ X.ok => Tally(X, z, m)
    BY <1>3, <1>5, <2>1
  <2> HIDE DEF X, Y
  <2>3. Y.ok => Tally(Y, z, m + 1)
    BY <2>1, <2>2, IterateTally
  <2> QED
    BY <2>1, <2>3 DEF Y
<1>6. \A m \in 0..n : m \in T
  <2> HIDE DEF T
  <2> QED
    BY <1>3, <1>4, <1>5, UpToInduction
<1>7. Tally(L, z, n) /\ LoopInv(L, order, p)
  BY <1>3, <1>6
<1>8. LoopBooks(L)
  BY <1>7, Zenon DEF LoopInv, LoopOK, LoopTyped
<1> QED
  BY <1>3, <1>7, <1>8, Zenon

\* What a pool is off by, once it loses what the loop counted: two units per lot.
LEMMA TallyClosed ==
  ASSUME NEW f \in Int, NEW x \in Nat, NEW r \in Nat \ {0}, NEW u \in 0..1, NEW n \in Nat,
         NEW c \in Nat, n <= c, Near(f * r, x * RATE_PRECISION, n * (2 * (u * r))),
         NEW m, m = NormDown(x, r)
  PROVE  m \in Nat /\ Near(f - m, 0, 2 * c * u)
<1> DEFINE a == x * RATE_PRECISION
           k == 2 * n * u
<1>1. a \in Nat /\ m = a \div r
  <2>1. a \in Nat
    BY UnitsAssumption
  <2> QED
    BY <2>1 DEF NormDown
<1> HIDE DEF a
<1>2. m \in Nat /\ m * r <= a /\ a < m * r + r
  BY <1>1, WholePart
<1>3. k \in Nat /\ k <= 2 * c * u /\ n * (2 * (u * r)) = k * r
  <2>1. CASE u = 0
    BY <2>1
  <2>2. CASE u = 1
    BY <2>2
  <2> QED
    BY <2>1, <2>2
<1>4. Near(f * r, a, k * r)
  BY <1>3 DEF a
<1> HIDE DEF k
<1> DEFINE i == f * r
           j == m * r
           w == k * r
<1>5. i \in Int /\ j \in Int /\ w \in Int /\ a - w <= i /\ i <= a + w /\ j <= a /\ a < j + r
  BY <1>1, <1>2, <1>3, <1>4 DEF Near
<1>6. (f - m) * r = i - j /\ (m - f) * r = j - i
  BY <1>2
<1> HIDE DEF i, j, w
<1>7. (f - m) * r < w + r /\ (m - f) * r < w + r
  BY <1>1, <1>5, <1>6
<1>8. f - m <= k /\ m - f <= k
  <2>1. \A e \in Int : e * r < k * r + r => e <= k
    BY <1>3, FactorsCompare
  <2>2. f - m \in Int /\ m - f \in Int
    BY <1>2
  <2> QED
    BY <1>7, <2>1, <2>2 DEF w
<1>9. 2 * c * u \in Nat
  <2>1. CASE u = 0
    BY <2>1
  <2>2. CASE u = 1
    BY <2>2
  <2> QED
    BY <2>1, <2>2
<1> DEFINE h == 2 * c * u
<1>10. h \in Nat /\ k <= h
  BY <1>3, <1>9
<1> HIDE DEF h
<1>11. Near(f - m, 0, h)
  BY <1>2, <1>3, <1>8, <1>10 DEF Near
<1> QED
  BY <1>2, <1>11 DEF h

\* A redemption takes from each pool what its troves gave up, up to two per trove.
LEMMA RedeemDrift ==
  ASSUME BranchInv, BranchInv', Cleared(status, trove), NEW order \in Orders,
         NEW p \in RedemptionsAsked, redeemCollateral(order, p), NEW z \in BOOLEAN
  PROVE  Cleared(status', trove') /\ Drift(z) /\ rate[z] <= rate'[z]
<1> DEFINE L == _runRedemptionLoop(order, p)
           pools == _finalizeRedemption(L)
           burned == L.LUSDToRedeem[FALSE] + L.LUSDToRedeem[TRUE]
           gas == L.closed * LUSD_GAS_COMPENSATION
           l == [lusd EXCEPT !.supply = @ - burned - gas, !.gas = @ - gas]
           m == NormDown(L.LUSDToRedeem[z], rate[z])
<1>1. /\ L.ok /\ NoneForNothing(L) /\ status' = L.status /\ shielded' = L.shielded
      /\ trove' = L.trove /\ active' = pools
      /\ \E d \in IF isShutdown THEN {NoDripOf(l)} ELSE DripsFrom(pools, L.default, l) :
           rate' = d.rate /\ lusd' = d.lusd
  BY Zenon DEF redeemCollateral
<1>2. Asked(p) /\ p.maxIterations \in Nat
  BY AskedOfBranch
<1>3. LoopBooks(L) /\ \E n \in Nat : n <= Cardinality(Active) /\ Tally(L, z, n)
  <2>1. L = _runRedemptionLoop(order, p)
    OBVIOUS
  <2> HIDE DEF L
  <2> QED
    BY <1>1, <1>2, <2>1, LoopTally
<1>4. active'[z].debt = L.active[z].debt - m
  <2> HIDE DEF L
  <2>1. pools[z] = [debt |-> L.active[z].debt - NormDown(L.LUSDToRedeem[z], rate[z]),
                    coll |-> L.active[z].coll - L.collDrawn[z]]
    BY <1>1, <1>3, FinalizedAs, Zenon
  <2> HIDE DEF pools
  <2> DEFINE i == L.active[z].debt - NormDown(L.LUSDToRedeem[z], rate[z])
             j == L.active[z].coll - L.collDrawn[z]
             new == [debt |-> i, coll |-> j]
  <2>2. pools[z] = new
    BY <2>1
  <2> HIDE DEF i, j
  <2>0. new.debt = i
    OBVIOUS
  <2> HIDE DEF new
  <2>3. pools[z].debt = i
    BY <2>0, <2>2, Zenon
  <2>4. active' = pools
    BY <1>1, Zenon
  <2>5. active'[z].debt = i
    BY <2>3, <2>4, Zenon
  <2> QED
    BY <2>5, Zenon DEF i
<1> HIDE DEF L, pools, l
<1>5. rate[z] <= rate'[z]
  <2>1. PICK d \in IF isShutdown THEN {NoDripOf(l)} ELSE DripsFrom(pools, L.default, l) : rate' = d.rate
    BY <1>1, Zenon
  <2>2. CASE isShutdown
    <3>1. d = NoDripOf(l)
      BY <2>2, Zenon
    <3>2. rate' = rate
      BY <2>1, <3>1 DEF NoDripOf
    <3>3. rate[z] \in Nat
      BY RatesPositive DEF BranchInv
    <3> QED
      BY <3>2, <3>3
  <2>3. CASE ~isShutdown
    <3>1. d \in DripsFrom(pools, L.default, l)
      BY <2>3, Zenon
    <3>2. rate[z] <= d.rate[z]
      BY <3>1, RatesGrow
    <3> QED
      BY <2>1, <3>2, Zenon
  <2> QED
    BY <2>2, <2>3, Zenon
<1>6. PICK n \in Nat : n <= Cardinality(Active) /\ Tally(L, z, n)
  BY <1>3, Zenon
<1>7. Cleared(status', trove')
  BY <1>1, <1>6, Zenon DEF Tally, Kept
<1> DEFINE q == rate[z]
           r == rate'[z]
           c == Cardinality(Borrowers)
           x == L.LUSDToRedeem[z]
           f == Gained(L, z)
<1>8. /\ q \in Nat \ {0} /\ RATE_PRECISION <= q /\ r \in Nat /\ q <= r
  <2>1. q \in Nat \ {0} /\ RATE_PRECISION <= q
    BY RatesPositive, UnitsAssumption DEF BranchInv
  <2>2. rate' \in Rates
    BY DEF BranchInv
  <2>3. r \in Nat
    <3> DEFINE o == rate'
    <3>1. o \in Rates
      BY <2>2
    <3> HIDE DEF o
    <3>2. o[z] \in Nat
      BY <3>1, RatesPositive
    <3> QED
      BY <3>2 DEF o
  <2> QED
    BY <1>5, <2>1, <2>3
<1>9. c \in Nat /\ n <= c
  <2>1. Active \subseteq Borrowers
    BY DEF Active
  <2>2. c \in Nat /\ Cardinality(Active) <= c /\ Cardinality(Active) \in Nat
    BY <2>1, FiniteBorrowers, FS_Subset, FS_CardinalityType
  <2> QED
    BY <1>6, <2>2
<1>10. f \in Int /\ x \in Nat
  <2>1. L.LUSDToRedeem \in [BOOLEAN -> Nat] /\ f \in Int
    BY <1>3, LoopIsTyped, Zenon
  <2> QED
    BY <2>1, Zenon
<1>11. Drift(z)
  <2> SUFFICES ASSUME Plain(r)
               PROVE  Near(Gap(active', trove', shielded', z), Gap(active, trove, shielded, z), Slack(r))
    BY Zenon DEF Drift
  <2> HIDE DEF q, r
  <2>1. /\ Step(q) <= Step(r) /\ Slack(q) \in Nat /\ Slack(r) \in Nat /\ Slack(q) <= Slack(r)
        /\ Plain(q)
    BY <1>8, SlackGrows
  <2>2. Near(f * q, x * RATE_PRECISION, n * (2 * (Step(q) * q)))
    BY <1>6, <2>1, Zenon DEF Tally, q
  <2>3. Step(q) \in 0..1 /\ Slack(q) = 2 * c * Step(q)
    BY SlackTyped
  <2>4. m = NormDown(x, q)
    BY DEF q
  <2> HIDE DEF f, x, c, m
  <2>5. m \in Nat /\ Near(f - m, 0, Slack(q))
    <3> DEFINE u == Step(q)
    <3>1. u \in 0..1 /\ Near(f * q, x * RATE_PRECISION, n * (2 * (u * q))) /\ Slack(q) = 2 * c * u
      BY <2>2, <2>3
    <3> HIDE DEF u
    <3>2. m \in Nat /\ Near(f - m, 0, 2 * c * u)
      BY <1>8, <1>9, <1>10, <2>4, <3>1, TallyClosed
    <3> QED
      BY <3>1, <3>2
  <2> DEFINE g == Gap(active', trove', shielded', z)
             h == Gap(L.active, L.trove, L.shielded, z)
             w == Gap(active, trove, shielded, z)
             i == L.active[z].debt
             t == Total(DebtOf(L.trove, L.shielded, z))
  <2>6. g = (i - m) - t /\ h = i - t /\ f = h - w
    <3>1. g = active'[z].debt - Total(DebtOf(trove', shielded', z))
      BY Zenon DEF Gap
    <3>2. g = (i - m) - t
      BY <1>1, <1>4, <3>1, Zenon
    <3> QED
      BY <3>2, Zenon DEF Gap, f, Gained
  <2>7. i \in Int /\ t \in Int /\ w \in Int
    <3>1. /\ L.trove \in [Borrowers -> Troves] /\ L.shielded \in [Borrowers -> BOOLEAN]
          /\ IntPools(L.active) /\ w \in Int
      BY <1>3, LoopIsTyped, Zenon
    <3> DEFINE pl == L.active
               tr == L.trove
               sh == L.shielded
    <3>2. tr \in [Borrowers -> Troves] /\ sh \in [Borrowers -> BOOLEAN] /\ IntPools(pl)
      BY <3>1
    <3> HIDE DEF pl, tr, sh
    <3>3. Total(DebtOf(tr, sh, z)) \in Nat /\ pl[z].debt \in Int
      BY <3>2, GapTyped
    <3>4. t \in Nat /\ i \in Int
      BY <3>3 DEF pl, tr, sh
    <3> HIDE DEF t, i, w
    <3> QED
      BY <3>1, <3>4 DEF w
  <2> HIDE DEF g, h, w, i, t
  <2>8. g - w = f - m /\ g \in Int
    BY <1>10, <2>5, <2>6, <2>7
  <2> DEFINE a == Slack(q)
             b == Slack(r)
  <2>9. a \in Nat /\ b \in Nat /\ a <= b /\ Near(f - m, 0, a)
    BY <2>1, <2>5
  <2> HIDE DEF a, b
  <2>10. Near(g, w, b)
    BY <1>10, <2>5, <2>7, <2>8, <2>9 DEF Near
  <2> QED
    BY <2>10 DEF g, w, b
<1> QED
  BY <1>5, <1>7, <1>11

-----------------------------------------------------------------------------
(***************************************************************************)
(* The invariant of the books of debt                                      *)
(***************************************************************************)

\* What a transaction does to the books of debt.
DebtMoves ==
  /\ Cleared(status', trove') /\ DebtSumGrows
  /\ \A z \in BOOLEAN : Drift(z) /\ rate[z] <= rate'[z]

\* While debts compare, each pool is off by what its transactions may have rounded.
Tracked(z) ==
  (rate[z] = RATE_PRECISION \/ rw.L_LUSDDebt = 0) =>
    Near(Gap(active, trove, shielded, z), 0, ops * Slack(rate[z]))

DebtInv ==
  /\ BranchInv /\ ops \in Nat /\ Cleared(status, trove)
  /\ \A z \in BOOLEAN : Tracked(z)

\* A drip of the branch lowers no rate.
LEMMA DripsGrow ==
  ASSUME BranchInv, NEW d \in Drips, rate' = d.rate
  PROVE  \A z \in BOOLEAN : rate[z] <= rate'[z]
<1> SUFFICES ASSUME NEW z \in BOOLEAN
             PROVE  rate[z] <= d.rate[z]
  BY Zenon
<1>1. d \in DripsFrom(active, default, lusd)
  BY Zenon DEF Drips
<1> QED
  BY <1>1, RatesGrow

\* Only a liquidation adds to the debt per unit of stake.
LEMMA StakeKeepsDebtSum ==
  ASSUME BranchInv, NEW b, NEW stake, rw' = SetStake(rw, b, stake)
  PROVE  DebtSumGrows
<1>1. rw \in RewardSums
  BY DEF BranchInv, AccountsOK
<1>2. rw'.L_LUSDDebt = rw.L_LUSDDebt
  BY <1>1, StakeSet
<1>3. rw.L_LUSDDebt \in Nat
  BY <1>1 DEF RewardSums
<1> QED
  BY <1>2, <1>3 DEF DebtSumGrows

\* What openTrove does to the books of debt.
LEMMA OpenMoves ==
  ASSUME BranchInv, BranchInv', Cleared(status, trove), NEW b \in Borrowers, NEW coll \in Colls,
         NEW amount \in Amounts, NEW shield \in BOOLEAN, NEW price \in Prices, NEW d \in Drips,
         openTrove(b, coll, amount, shield, price, d)
  PROVE  DebtMoves
<1>1. \A z \in BOOLEAN : Cleared(status', trove') /\ Drift(z)
  BY OpenDrift
<1>2. rate' = d.rate /\ rw' = SetStake(rw, b, _computeNewStake(coll))
  BY Zenon DEF openTrove
<1>3. DebtSumGrows
  BY <1>2, StakeKeepsDebtSum
<1>4. \A z \in BOOLEAN : rate[z] <= rate'[z]
  BY <1>2, DripsGrow
<1> QED
  BY <1>1, <1>3, <1>4, Zenon DEF DebtMoves

\* What an adjustment does to them.
LEMMA AdjustMoves ==
  ASSUME BranchInv, BranchInv', Cleared(status, trove), NEW b \in Borrowers,
         NEW a \in Adjustments, NEW price \in Prices, NEW d \in Drips,
         adjustTrove(b, a, price, d)
  PROVE  DebtMoves
<1>1. \A z \in BOOLEAN : Cleared(status', trove') /\ Drift(z)
  BY AdjustDrift
<1>2. rate' = d.rate /\ \E stake : rw' = SetStake(rw, b, stake)
  BY Zenon DEF adjustTrove
<1>3. DebtSumGrows
  BY <1>2, StakeKeepsDebtSum
<1>4. \A z \in BOOLEAN : rate[z] <= rate'[z]
  BY <1>2, DripsGrow
<1> QED
  BY <1>1, <1>3, <1>4, Zenon DEF DebtMoves

\* What closeTrove does to them.
LEMMA CloseMoves ==
  ASSUME BranchInv, BranchInv', Cleared(status, trove), NEW b \in Borrowers, NEW d \in Drips,
         closeTrove(b, d)
  PROVE  DebtMoves
<1>1. \A z \in BOOLEAN : Cleared(status', trove') /\ Drift(z)
  BY CloseDrift
<1>2. rate' = d.rate /\ rw' = SetStake(rw, b, 0)
  BY Zenon DEF closeTrove
<1>3. DebtSumGrows
  BY <1>2, StakeKeepsDebtSum
<1>4. \A z \in BOOLEAN : rate[z] <= rate'[z]
  BY <1>2, DripsGrow
<1> QED
  BY <1>1, <1>3, <1>4, Zenon DEF DebtMoves

\* What both entry points of Liquidations do to them.
LEMMA LiquidationMoves ==
  ASSUME BranchInv, BranchInv', Cleared(status, trove), NEW seq \in Arrays, NEW price \in Prices,
         NEW d \in Drips,
         batchLiquidate(seq, price, d) \/ \E n \in 1..MaxBatch : liquidateTroves(n, seq, price, d)
  PROVE  DebtMoves
<1>1. Settle(seq, price, d)
  BY Zenon DEF batchLiquidate, liquidateTroves
<1>2. \A z \in BOOLEAN : Cleared(status', trove') /\ Drift(z)
  BY <1>1, SettleDrift
<1>3. DebtSumGrows
  BY LiquidationStep
<1>4. rate' = d.rate
  BY <1>1, Zenon DEF Settle
<1>5. \A z \in BOOLEAN : rate[z] <= rate'[z]
  BY <1>4, DripsGrow
<1> QED
  BY <1>2, <1>3, <1>5, Zenon DEF DebtMoves

\* What a redemption does to them.
LEMMA RedeemMoves ==
  ASSUME BranchInv, BranchInv', Cleared(status, trove), NEW order \in Orders,
         NEW p \in RedemptionsAsked, redeemCollateral(order, p)
  PROVE  DebtMoves
<1> DEFINE L == _runRedemptionLoop(order, p)
<1>1. \A z \in BOOLEAN : Cleared(status', trove') /\ Drift(z) /\ rate[z] <= rate'[z]
  BY RedeemDrift
<1>2. L.ok /\ rw' = L.rw
  BY Zenon DEF redeemCollateral
<1>3. Asked(p) /\ p.maxIterations \in Nat /\ TRUE \in BOOLEAN /\ L = _runRedemptionLoop(order, p)
  BY AskedOfBranch
<1> HIDE DEF L
<1>4. LoopBooks(L)
  BY <1>2, <1>3, LoopTally
<1>5. rw'.L_LUSDDebt = rw.L_LUSDDebt
  BY <1>2, <1>4 DEF LoopBooks
<1>6. rw.L_LUSDDebt \in Nat
  BY DEF BranchInv, AccountsOK, RewardSums
<1>7. DebtSumGrows
  BY <1>5, <1>6 DEF DebtSumGrows
<1> QED
  BY <1>1, <1>7, Zenon DEF DebtMoves

\* Transactions that only charge interest, move coins or pay surpluses.
LEMMA QuietMoves ==
  ASSUME BranchInv, BranchInv', Cleared(status, trove), NEW d \in Drips, rate' = d.rate,
         UNCHANGED <<status, shielded, trove, rw, active>>
  PROVE  DebtMoves
<1>1. Cleared(status', trove')
  BY Zenon
<1>2. rw.L_LUSDDebt \in Nat
  BY DEF BranchInv, AccountsOK, RewardSums
<1>3. DebtSumGrows
  BY <1>2 DEF DebtSumGrows
<1>4. \A z \in BOOLEAN : rate[z] <= rate'[z]
  BY DripsGrow
<1>5. ASSUME NEW z \in BOOLEAN
      PROVE  Drift(z)
  <2> DEFINE g == Gap(active, trove, shielded, z)
             s == Slack(rate'[z])
  <2>1. g \in Int
    BY BooksTyped, GapTyped
  <2>2. s \in Nat
    BY SlackTyped
  <2>3. Gap(active', trove', shielded', z) = g
    BY Zenon
  <2> HIDE DEF g, s
  <2>4. Near(g, g, s)
    BY <2>1, <2>2 DEF Near
  <2> QED
    BY <2>3, <2>4, Zenon DEF Drift, g, s
<1> QED
  BY <1>1, <1>3, <1>4, <1>5, Zenon DEF DebtMoves

\* One more transaction, one more rounding of each trove.
LEMMA MoreRounding ==
  ASSUME NEW g \in Int, NEW h \in Int, NEW n \in Nat, NEW q \in Nat, NEW r \in Nat, q <= r,
         Near(h, g, r), Near(g, 0, n * q)
  PROVE  Near(h, 0, (n + 1) * r)
<1> DEFINE i == n * q
           j == n * r
<1>1. i <= j /\ i \in Nat /\ j \in Nat
  <2>1. q * n <= r * n /\ q * n \in Nat
    BY ProductMonotone
  <2>2. i = q * n /\ j = r * n /\ r * n \in Nat
    OBVIOUS
  <2> HIDE DEF i, j
  <2> QED
    BY <2>1, <2>2
<1>2. (n + 1) * r = j + r
  OBVIOUS
<1>3. Near(g, 0, i)
  OBVIOUS
<1> HIDE DEF i, j
<1> QED
  BY <1>1, <1>2, <1>3 DEF Near

\* What the books of debt are like after a transaction that moves them so.
LEMMA DebtKept ==
  ASSUME DebtInv, BranchInv', DebtMoves, Transaction
  PROVE  DebtInv'
<1>1. BranchInv /\ ops \in Nat /\ ops' = ops + 1
  BY DEF DebtInv, Transaction
<1>2. ASSUME NEW z \in BOOLEAN
      PROVE  Tracked(z)'
  <2> DEFINE q == rate[z]
             r == rate'[z]
             g == Gap(active, trove, shielded, z)
             h == Gap(active', trove', shielded', z)
  <2>1. q \in Nat /\ RATE_PRECISION <= q /\ r \in Nat /\ q <= r
    <3>1. q \in Nat /\ RATE_PRECISION <= q
      BY <1>1, RatesPositive, UnitsAssumption DEF BranchInv
    <3>2. rate' \in Rates
      BY DEF BranchInv
    <3>3. r \in Nat
      <4> DEFINE o == rate'
      <4>1. o \in Rates
        BY <3>2
      <4> HIDE DEF o
      <4>2. o[z] \in Nat
        BY <4>1, RatesPositive
      <4> QED
        BY <4>2 DEF o
    <3> QED
      BY <3>1, <3>3 DEF DebtMoves
  <2>2. g \in Int
    BY <1>1, BooksTyped, GapTyped
  <2>3. h \in Int
    <3>1. /\ trove' \in [Borrowers -> Troves] /\ shielded' \in [Borrowers -> BOOLEAN]
          /\ active' \in [BOOLEAN -> Balances]
      BY DEF BranchInv, AccountsOK, OwnersOK, PoolsOK
    <3> QED
      BY <3>1, PoolsHaveDebt, GapTyped
  <2> HIDE DEF g, h, q, r
  <2>4. Slack(q) \in Nat /\ Slack(r) \in Nat /\ Slack(q) <= Slack(r)
    BY <2>1, SlackGrows
  <2>5. SUFFICES ASSUME r = RATE_PRECISION \/ rw'.L_LUSDDebt = 0
                 PROVE  Near(h, 0, ops' * Slack(r))
    BY DEF Tracked, g, h, q, r
  <2>6. Plain(r)
    <3>1. rw.L_LUSDDebt \in Nat
      BY <1>1 DEF BranchInv, AccountsOK, RewardSums
    <3>2. rw'.L_LUSDDebt >= rw.L_LUSDDebt
      BY DEF DebtMoves, DebtSumGrows
    <3> QED
      BY <2>5, <3>1, <3>2 DEF Plain
  <2>7. Plain(q)
    BY <2>1, <2>6, SlackGrows
  <2>8. Near(h, g, Slack(r))
    <3>1. Drift(z)
      BY DEF DebtMoves
    <3> QED
      BY <2>6, <3>1, Zenon DEF Drift, g, h, r
  <2>9. Near(g, 0, ops * Slack(q))
    <3>1. Tracked(z)
      BY DEF DebtInv
    <3> QED
      BY <2>7, <3>1, Zenon DEF Tracked, Plain, g, q
  <2>10. Near(h, 0, (ops + 1) * Slack(r))
    BY <1>1, <2>2, <2>3, <2>4, <2>8, <2>9, MoreRounding
  <2> QED
    BY <1>1, <2>10
<1>3. Cleared(status, trove)'
  BY DEF DebtMoves
<1>4. (ops \in Nat)'
  BY <1>1
<1> QED
  BY <1>2, <1>3, <1>4 DEF DebtInv

\* Every transaction keeps the invariant.
LEMMA DebtSteps == DebtInv /\ [BranchNext]_branchVars => DebtInv'
<1> SUFFICES ASSUME DebtInv, [BranchNext]_branchVars
             PROVE  DebtInv'
  OBVIOUS
<1>1. BranchInv /\ BranchInv' /\ Cleared(status, trove)
  BY BranchSteps DEF DebtInv
<1>2. CASE Open
  BY <1>1, <1>2, OpenMoves, DebtKept DEF Open
<1>3. CASE Adjust
  BY <1>1, <1>3, AdjustMoves, DebtKept DEF Adjust
<1>4. CASE Close
  BY <1>1, <1>4, CloseMoves, DebtKept DEF Close
<1>5. CASE BatchLiquidate
  BY <1>1, <1>5, LiquidationMoves, DebtKept DEF BatchLiquidate
<1>6. CASE LiquidateTroves
  BY <1>1, <1>6, LiquidationMoves, DebtKept DEF LiquidateTroves
<1>7. CASE Redeem
  BY <1>1, <1>7, RedeemMoves, DebtKept DEF Redeem
<1>8. CASE Claim \/ Provide \/ Withdraw \/ Shutdown \/ Drip
  <2>1. /\ Transaction /\ UNCHANGED <<status, shielded, trove, rw, active>>
        /\ \E d \in Drips : rate' = d.rate
    BY <1>8 DEF Claim, Provide, Withdraw, Shutdown, Drip, claimCollateral, provideToSP,
       withdrawFromSP, shutdown, shutdownFromOracleFailure, drip, rewardVars, poolVars
  <2> QED
    BY <1>1, <2>1, QuietMoves, DebtKept
<1>9. CASE UNCHANGED branchVars
  <2>1. UNCHANGED <<status, shielded, trove, rw, active, rate, ops>>
    BY <1>9 DEF branchVars, ledgerVars, rewardVars, poolVars
  <2>2. \A z \in BOOLEAN : Tracked(z)'
    BY <2>1 DEF DebtInv, Tracked
  <2> QED
    BY <1>1, <2>1, <2>2 DEF DebtInv
<1> QED
  BY <1>2, <1>3, <1>4, <1>5, <1>6, <1>7, <1>8, <1>9 DEF BranchNext

\* The debts of the troves on a list are all that its pool has debts of.
LEMMA DebtOfList ==
  ASSUME BranchInv, Cleared(status, trove), NEW s \in BOOLEAN
  PROVE  SumOver(LAMBDA b : trove[b].debt, ListOf(s)) = Total(DebtOf(trove, shielded, s))
<1> DEFINE f == [b \in Borrowers |-> trove[b].debt]
           g == DebtOf(trove, shielded, s)
           l == ListOf(s)
<1>1. SumOver(LAMBDA b : trove[b].debt, l) = SumFunctionOnSet(f, l)
  BY Zenon DEF SumOver
<1>2. l \in SUBSET Borrowers /\ IsFiniteSet(l) /\ IsFiniteSet(Borrowers \ l)
  BY FiniteBorrowers, FS_Subset DEF ListOf, Active
<1>3. \A b \in Borrowers : f[b] \in Int /\ g[b] \in Int
  BY BooksTyped, GapTyped
<1>4. ASSUME NEW b \in l
      PROVE  g[b] = f[b]
  <2>1. b \in Borrowers /\ shielded[b] = s
    BY <1>4, Zenon DEF ListOf, Active
  <2>2. g[b] = DebtIn(f[b], s, s)
    BY <2>1, Zenon DEF DebtOf
  <2>3. DebtIn(f[b], s, s) = f[b]
    BY Zenon DEF DebtIn
  <2> QED
    BY <2>2, <2>3, Zenon
<1>5. ASSUME NEW b \in Borrowers \ l
      PROVE  g[b] = 0
  <2>1. g[b] = DebtIn(trove[b].debt, shielded[b], s)
    BY <1>5, Zenon DEF DebtOf
  <2>2. CASE status[b] = "active"
    <3>1. ~(shielded[b] = s)
      BY <1>5, <2>2, Zenon DEF ListOf, Active
    <3> QED
      BY <2>1, <3>1, Zenon DEF DebtIn
  <2>3. CASE status[b] # "active"
    <3>1. trove[b].debt = 0
      BY <2>3, Zenon DEF Cleared
    <3>2. \A z : DebtIn(0, z, s) = 0
      BY DEF DebtIn
    <3> QED
      BY <2>1, <3>1, <3>2, Zenon
  <2> QED
    BY <2>2, <2>3, Zenon
<1> HIDE DEF f, g, l
<1>6. Total(g) = SumFunctionOnSet(g, l) + SumFunctionOnSet(g, Borrowers \ l)
  BY <1>2, <1>3, FiniteBorrowers, SumSplit DEF Total
<1>7. SumFunctionOnSet(g, Borrowers \ l) = 0
  BY <1>2, <1>5, SumZero
<1>8. SumFunctionOnSet(g, l) = SumFunctionOnSet(f, l) /\ SumFunctionOnSet(f, l) \in Int
  <2>1. \A b \in l : f[b] \in Int /\ g[b] = f[b]
    BY <1>2, <1>3, <1>4
  <2> QED
    BY <1>2, <2>1, SumSame, SumRemove
<1>9. SumFunctionOnSet(f, l) = Total(g)
  BY <1>6, <1>7, <1>8
<1> QED
  BY <1>1, <1>9, Zenon DEF g, l

\* Nobody owes anything at first.
LEMMA DebtStarts == BranchInit => DebtInv
<1> SUFFICES ASSUME BranchInit
             PROVE  DebtInv
  OBVIOUS
<1>1. BranchInv
  BY BranchStarts
<1>2. /\ ops = 0 /\ \A b \in Borrowers : trove[b].debt = 0
      /\ \A z \in BOOLEAN : active[z].debt = 0
  BY DEF BranchInit, LedgerInit
<1>3. Cleared(status, trove)
  BY <1>2 DEF Cleared
<1>4. ASSUME NEW z \in BOOLEAN
      PROVE  Tracked(z)
  <2> DEFINE f == DebtOf(trove, shielded, z)
             s == Slack(rate[z])
  <2>1. ASSUME NEW b \in Borrowers
        PROVE  f[b] = 0
    <3>1. f[b] = DebtIn(0, shielded[b], z)
      BY <1>2, Zenon DEF DebtOf
    <3>2. \A o : DebtIn(0, o, z) = 0
      BY DEF DebtIn
    <3> QED
      BY <3>1, <3>2, Zenon
  <2>2. s \in Nat
    BY SlackTyped
  <2> HIDE DEF f, s
  <2>3. Total(f) = 0
    BY <2>1, SumZero, FiniteBorrowers DEF Total
  <2>4. Gap(active, trove, shielded, z) = 0
    BY <1>2, <2>3 DEF Gap, f
  <2>5. Near(0, 0, ops * s)
    BY <1>2, <2>2 DEF Near
  <2> QED
    BY <2>4, <2>5, Zenon DEF Tracked, s
<1> QED
  BY <1>1, <1>2, <1>3, <1>4 DEF DebtInv

\* So it holds in every state.
LEMMA DebtInvariant == BranchSpec => []DebtInv
BY DebtStarts, DebtSteps, PTL DEF BranchSpec

\* While the rate of a pool has not grown, the pool records the debt of its own troves to the
\* last unit, through toggles of the shield, offsets, redistributions and redemptions
\* (ActivePool.sol, increaseLUSDDebt and decreaseLUSDDebt).
THEOREM BooksOfDebtAreExact == BranchSpec => []DebtAddsUp
<1>1. DebtInv => DebtAddsUp
  <2> SUFFICES ASSUME DebtInv, NEW s \in BOOLEAN, rate[s] = RATE_PRECISION
               PROVE  active[s].debt = SumOver(LAMBDA b : trove[b].debt, ListOf(s))
    BY Zenon DEF DebtAddsUp
  <2> DEFINE x == active[s].debt
             y == Total(DebtOf(trove, shielded, s))
             n == ops * Slack(rate[s])
  <2>1. BranchInv /\ Cleared(status, trove) /\ Tracked(s) /\ ops \in Nat
    BY DEF DebtInv
  <2>2. x \in Int /\ y \in Int
    BY <2>1, BooksTyped, GapTyped
  <2>3. Near(x - y, 0, n)
    BY <2>1, Zenon DEF Tracked, Gap
  <2>4. n = 0
    BY <2>1 DEF Slack
  <2> HIDE DEF x, y, n
  <2>5. x = y
    BY <2>2, <2>3, <2>4 DEF Near
  <2>6. SumOver(LAMBDA b : trove[b].debt, ListOf(s)) = y
    BY <2>1, DebtOfList DEF y
  <2> QED
    BY <2>5, <2>6, Zenon DEF x
<1> QED
  BY <1>1, DebtInvariant, PTL

\* With interest, and before any debt was redistributed, each pool still records the debt of its
\* troves up to two units per trove and transaction (TroveManager.sol, the conversions between
\* actual and normalized debt).
THEOREM DebtIsTracked == BranchSpec => []DebtTracked
<1>1. DebtInv => DebtTracked
  <2> SUFFICES ASSUME DebtInv, rw.L_LUSDDebt = 0, NEW s \in BOOLEAN
               PROVE  DebtGap(s) <= ops * TroveRounding
    BY Zenon DEF DebtTracked
  <2> DEFINE x == active[s].debt
             y == Total(DebtOf(trove, shielded, s))
             q == Slack(rate[s])
             r == TroveRounding
  <2>1. BranchInv /\ Cleared(status, trove) /\ Tracked(s) /\ ops \in Nat
    BY DEF DebtInv
  <2>2. x \in Int /\ y \in Int
    BY <2>1, BooksTyped, GapTyped
  <2>3. Near(x - y, 0, ops * q)
    BY <2>1, Zenon DEF Tracked, Gap
  <2>4. q \in Nat /\ r \in Nat /\ q <= r
    <3>1. Cardinality(Borrowers) \in Nat
      BY SlackTyped
    <3> QED
      BY <3>1 DEF Slack, TroveRounding
  <2>5. SumOver(LAMBDA b : trove[b].debt, ListOf(s)) = y
    BY <2>1, DebtOfList DEF y
  <2>6. DebtGap(s) = Distance(x, y)
    BY <2>5, Zenon DEF DebtGap, x
  <2> HIDE DEF x, y, q, r
  <2> DEFINE i == ops * q
             j == ops * r
  <2>7. i \in Nat /\ j \in Nat /\ i <= j
    <3>1. q * ops <= r * ops /\ q * ops \in Nat /\ r * ops \in Nat
      BY <2>1, <2>4, ProductMonotone
    <3>2. i = q * ops /\ j = r * ops
      BY <2>1, <2>4
    <3> HIDE DEF i, j
    <3> QED
      BY <3>1, <3>2
  <2>8. Near(x - y, 0, i)
    BY <2>3
  <2> HIDE DEF i, j
  <2>9. Distance(x, y) <= j
    BY <2>2, <2>7, <2>8 DEF Near, Distance
  <2> QED
    BY <2>6, <2>9 DEF j, r
<1> QED
  BY <1>1, DebtInvariant, PTL

=============================================================================
