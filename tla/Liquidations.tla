---------------------------- MODULE Liquidations ----------------------------
(***************************************************************************)
(* The transactions of Liquidations.sol, with what they call in Rewards    *)
(* and in the StabilityPool, and the StabilityPool's totals.               *)
(*                                                                         *)
(* A liquidation first goes through its troves, one after the other, each  *)
(* one taking from the stablecoin that is left for offsets, and then moves *)
(* the totals between the pools.  No step of the loop changes another      *)
(* trove, so a trove's values are read from the state before the loop.     *)
(***************************************************************************)
EXTENDS Ledger, Sequences

CONSTANTS LIQUIDATION_PENALTY, LIQUIDATION_PENALTY_REDIST

ASSUME PenaltiesAssumption ==
  /\ LIQUIDATION_PENALTY \in Nat /\ LIQUIDATION_PENALTY_REDIST \in Nat
  /\ DECIMAL_PRECISION < LIQUIDATION_PENALTY
  /\ LIQUIDATION_PENALTY <= LIQUIDATION_PENALTY_REDIST

-----------------------------------------------------------------------------
\* The loss error the pool keeps, which StabilityPool has, is no part of these books: a pool
\* that is above the minimum by less than that error is not told from one that is not.
getMaxAmountToOffset(l) == l.deposits - MinOf(MIN_LUSD_IN_SP, l.deposits)

_maxPenaltyColl(debt, penalty, price) == (debt * penalty) \div price

\* Variant: collateral over the cap is neither redistributed nor left to the owner.
OffsetLosingSurplus(debt, actual, coll, left, r, price) ==
  LET off == MinOf(actual, left)
      rem == actual - off
      toSP == IF off = 0 THEN 0
              ELSE MinOf((coll * off) \div actual, _maxPenaltyColl(off, LIQUIDATION_PENALTY, price))
      toRedist == IF rem = 0 THEN 0
                  ELSE MinOf(_maxPenaltyColl(rem, LIQUIDATION_PENALTY_REDIST, price), coll - toSP)
  IN [actualDebtToOffset |-> off, debtToOffset |-> NormDown(off, r), collToSendToSP |-> toSP,
      debtToRedistribute |-> IF rem = 0 THEN 0 ELSE debt - NormDown(off, r),
      collToRedistribute |-> toRedist,
      collSurplus |-> 0]

\* As much debt as possible is offset, the rest redistributed; each part takes no more
\* collateral than its penalty allows, and what remains is the owner's.
getCappedOffsetAndRedistributionVals(debt, actual, coll, left, r, price) ==
  LET off == MinOf(actual, left)
      rem == actual - off
      toSP == IF off = 0 THEN 0
              ELSE MinOf((coll * off) \div actual, _maxPenaltyColl(off, LIQUIDATION_PENALTY, price))
      toRedist == IF rem = 0 THEN 0
                  ELSE MinOf(_maxPenaltyColl(rem, LIQUIDATION_PENALTY_REDIST, price), coll - toSP)
  IN [actualDebtToOffset |-> off, debtToOffset |-> NormDown(off, r), collToSendToSP |-> toSP,
      debtToRedistribute |-> IF rem = 0 THEN 0 ELSE debt - NormDown(off, r),
      collToRedistribute |-> toRedist,
      collSurplus |-> coll - toSP - toRedist]

\* The values of one _liquidate, with left the LUSD still available for offsets.
_liquidate(b, left, r, price) ==
  LET s == shielded[b]
      pendingDebt == getPendingLUSDDebtReward(b)
      pendingColl == getPendingCollateralReward(b)
      debt == trove[b].debt + NormDown(pendingDebt, r[s])
      coll == trove[b].coll + pendingColl
      gas == coll \div PERCENT_DIVISOR
      v == getCappedOffsetAndRedistributionVals(debt, _actualDebt(debt, r[s]), coll - gas,
                                                left, r[s], price)
  IN [borrower |-> b, pendingDebt |-> pendingDebt, pendingColl |-> pendingColl,
      pendingNorm |-> _normalizedDebt(pendingDebt, r[s]),
      entireTroveDebt |-> debt, collGasCompensation |-> gas,
      actualDebtToOffset |-> v.actualDebtToOffset, debtToOffset |-> v.debtToOffset,
      collToSendToSP |-> v.collToSendToSP, debtToRedistribute |-> v.debtToRedistribute,
      collToRedistribute |-> v.collToRedistribute, collSurplus |-> v.collSurplus]

\* The loop over the troves seq: one record of values per trove.  left[k] is the LUSD still
\* available for offsets after k troves.
Liquidated(seq, d, price) ==
  LET left[k \in 0..Len(seq)] ==
        IF k = 0 THEN getMaxAmountToOffset(d.lusd)
        ELSE left[k - 1] - _liquidate(seq[k], left[k - 1], d.rate, price).actualDebtToOffset
  IN [k \in 1..Len(seq) |-> _liquidate(seq[k], left[k - 1], d.rate, price)]

-----------------------------------------------------------------------------
\* Variants: the division of the collateral, or of the debt, rounds up and keeps no error.
RedistributeCollRoundingUp(debt, coll, stakes) ==
  IF debt = 0 THEN [rw EXCEPT !.totalStakes = stakes]
  ELSE [rw EXCEPT !.totalStakes = stakes,
                  !.L_Coll = @ + (coll * DECIMAL_PRECISION) \div stakes + 1,
                  !.L_LUSDDebt = @ + (debt * DECIMAL_PRECISION) \div stakes]

RedistributeDebtRoundingUp(debt, coll, stakes) ==
  IF debt = 0 THEN [rw EXCEPT !.totalStakes = stakes]
  ELSE [rw EXCEPT !.totalStakes = stakes,
                  !.L_Coll = @ + (coll * DECIMAL_PRECISION) \div stakes,
                  !.L_LUSDDebt = @ + (debt * DECIMAL_PRECISION) \div stakes + 1]

\* _redistributeActualDebtAndColl: the running sums grow per unit staked; what the
\* division loses is added the next time.
_redistributeActualDebtAndColl(debt, coll, stakes) ==
  LET c == coll * DECIMAL_PRECISION + rw.collError
      n == debt * DECIMAL_PRECISION + rw.debtError
  IN IF debt = 0 THEN [rw EXCEPT !.totalStakes = stakes]
     ELSE [rw EXCEPT !.totalStakes = stakes,
                     !.L_Coll = @ + c \div stakes, !.collError = c % stakes,
                     !.L_LUSDDebt = @ + n \div stakes, !.debtError = n % stakes]

\* Variant: the stakes snapshot is not refreshed.
SnapshotOfCollateral(w, pools, dflt, remainder) ==
  [w EXCEPT !.totalCollateralSnapshot = getEntireSystemColl(pools, dflt) - remainder]

\* The gas compensation leaves the pools only after the snapshots are taken.
updateSystemSnapshots_excludeCollRemainder(w, pools, dflt, remainder) ==
  [w EXCEPT !.totalStakesSnapshot = w.totalStakes,
            !.totalCollateralSnapshot = getEntireSystemColl(pools, dflt) - remainder]

(***************************************************************************)
(* The totals of a liquidation over the troves of one pool, and what each  *)
(* stage of the settlement does with the totals t of a pool.               *)
(***************************************************************************)
LiquidationValues ==
  {"pendingDebt", "pendingColl", "pendingNorm", "entireTroveDebt", "collGasCompensation",
   "actualDebtToOffset", "debtToOffset", "collToSendToSP", "debtToRedistribute",
   "collToRedistribute", "collSurplus"}

\* The totals over those of the liquidated troves L that are in pool s.
_addLiquidationValuesToTotals(L, s) ==
  [f \in LiquidationValues |->
     SumFunctionOnSet([k \in DOMAIN L |-> L[k][f]], {k \in DOMAIN L : shielded[L[k].borrower] = s})]

movePendingTroveRewardsToActivePool(pool, t) ==
  [debt |-> pool.debt + t.pendingNorm, coll |-> pool.coll + t.pendingColl]

_moveOffsetCollAndDebt(pool, t) ==
  [debt |-> pool.debt - t.debtToOffset, coll |-> pool.coll - t.collToSendToSP]

redistributeDebtAndColl(pool, t) ==
  [debt |-> pool.debt - t.debtToRedistribute, coll |-> pool.coll - t.collToRedistribute]

sendSurplus(pool, t) == [pool EXCEPT !.coll = @ - t.collSurplus]

_sendGasCompensation(pool, t) == [pool EXCEPT !.coll = @ - t.collGasCompensation]

\* StabilityPool.offset on its own coins: what was promised is minted, then burned.
offset(l, amount) ==
  [l EXCEPT !.supply = @ + l.pending - amount, !.pending = 0, !.deposits = @ - amount]

(***************************************************************************)
(* What batchLiquidate and liquidateTroves do with the troves seq: offset, *)
(* redistribution, surpluses, snapshots, gas compensation, in this order.  *)
(***************************************************************************)
Settle(seq, price, d) ==
  LET L == Liquidated(seq, d, price)
      T == [s \in BOOLEAN |-> _addLiquidationValuesToTotals(L, s)]
      Both(f) == T[FALSE][f] + T[TRUE][f]
      gone == {seq[k] : k \in DOMAIN seq}
      offsetDebt == Both("actualDebtToOffset")
      redistDebt == _actualDebt(T[FALSE].debtToRedistribute, d.rate[FALSE])
                      + _actualDebt(T[TRUE].debtToRedistribute, d.rate[TRUE])
      stakes == rw.totalStakes
                  - SumFunctionOnSet([b \in Borrowers |-> trove[b].stake], gone)
      \* The pools when the snapshots are taken.
      pools == [s \in BOOLEAN |->
        sendSurplus(redistributeDebtAndColl(_moveOffsetCollAndDebt(
          movePendingTroveRewardsToActivePool(active[s], T[s]), T[s]), T[s]), T[s])]
      dflt == [debt |-> default.debt - Both("pendingDebt") + redistDebt,
               coll |-> default.coll - Both("pendingColl") + Both("collToRedistribute")]
  IN /\ seq # << >>
     /\ Both("entireTroveDebt") > 0
     /\ isShutdown \/ Cardinality(Active) > Len(seq)
     /\ Both("pendingDebt") <= default.debt /\ Both("pendingColl") <= default.coll
     /\ offsetDebt > 0 => d.lusd.deposits - offsetDebt >= MIN_LUSD_IN_SP
     /\ redistDebt > 0 => stakes > 0
     /\ \A s \in BOOLEAN : pools[s].debt >= 0 /\ pools[s].coll >= T[s].collGasCompensation
     /\ status' = [b \in Borrowers |-> IF b \in gone THEN "closedByLiquidation" ELSE status[b]]
     /\ shielded' = [b \in Borrowers |-> shielded[b] /\ b \notin gone]
     /\ trove' = [b \in Borrowers |-> IF b \in gone THEN [debt |-> 0, coll |-> 0, stake |-> 0]
                                      ELSE trove[b]]
     /\ snap' = [b \in Borrowers |-> IF b \in gone THEN [collateral |-> 0, LUSDDebt |-> 0]
                                     ELSE snap[b]]
     /\ rw' = updateSystemSnapshots_excludeCollRemainder(
                _redistributeActualDebtAndColl(redistDebt, Both("collToRedistribute"), stakes),
                pools, dflt, Both("collGasCompensation"))
     /\ active' = [s \in BOOLEAN |-> _sendGasCompensation(pools[s], T[s])]
     /\ default' = dflt
     /\ surplus' = [coll |-> surplus.coll + Both("collSurplus"),
                    balances |-> [b \in Borrowers |-> surplus.balances[b] +
                      SumFunctionOnSet([k \in DOMAIN L |-> L[k].collSurplus],
                                       {k \in DOMAIN L : L[k].borrower = b})]]
     /\ lusd' = [offset(d.lusd, offsetDebt) EXCEPT !.gas = @ - Len(seq) * LUSD_GAS_COMPENSATION]
     /\ rate' = d.rate
     /\ UNCHANGED isShutdown

-----------------------------------------------------------------------------
\* batchLiquidate (and liquidate): seq is the part of the caller's array that is liquidated.
\* A trove that is not below MCR is passed over, and so is an address that appears again,
\* which has no debt by then.
batchLiquidate(seq, price, d) ==
  /\ \A k \in DOMAIN seq :
       status[seq[k]] = "active" /\ getCurrentICR(seq[k], d.rate, price) < MCR
  /\ Settle(seq, price, d)

\* The tail of list s without the troves in done.  The list is sorted by NICR, and
\* troves with the same NICR are in any order.
getLast(s, done) ==
  {b \in ListOf(s) \ done : \A c \in ListOf(s) \ done : getNominalICR(b) <= getNominalICR(c)}

\* _getNextLiquidatableBaseTrove and ...ShieldedTrove: a list with one owner is left alone.
NextLiquidatableIn(s, done, r, price) ==
  {b \in getLast(s, done) : /\ Cardinality(ListOf(s) \ done) # 1
                            /\ getCurrentICR(b, r, price) < MCR}

\* The choice that the loop of _getTotalsFromLiquidate makes between the two lists.
NextLiquidatable(done, r, price) ==
  LET base == NextLiquidatableIn(FALSE, done, r, price)
      shield == NextLiquidatableIn(TRUE, done, r, price)
  IN {b \in base : \A c \in shield : getCurrentICR(b, r, price) <= getCurrentICR(c, r, price)}
     \cup
     {c \in shield : \A b \in base : getCurrentICR(c, r, price) < getCurrentICR(b, r, price)}

\* liquidateTroves(n): seq is what the loop picks before it has n troves or finds no more.
liquidateTroves(n, seq, price, d) ==
  LET done(k) == {seq[i] : i \in 1..k}
  IN /\ Len(seq) <= n
     /\ \A k \in DOMAIN seq : seq[k] \in NextLiquidatable(done(k - 1), d.rate, price)
     /\ Len(seq) = n \/ NextLiquidatable(done(Len(seq)), d.rate, price) = {}
     /\ Settle(seq, price, d)

-----------------------------------------------------------------------------
(***************************************************************************)
(* StabilityPool, as far as its totals go.                                 *)
(***************************************************************************)

provideToSP(amount, d) ==
  /\ amount > 0
  /\ Circulating(d.lusd) >= amount
  /\ lusd' = [d.lusd EXCEPT !.supply = @ + d.lusd.pending, !.pending = 0,
                            !.deposits = @ + amount]
  /\ rate' = d.rate
  /\ UNCHANGED <<status, shielded, isShutdown, trove, rewardVars, poolVars>>

\* Only the base list is asked for a trove below MCR, before the drip.
_requireNoUnderCollateralizedTroves(price) ==
  \A b \in getLast(FALSE, {}) : getCurrentICR(b, rate, price) >= MCR

withdrawFromSP(amount, price, d) ==
  LET withdrawn == MinOf(amount, getMaxAmountToOffset(d.lusd))
  IN /\ lusd.deposits > 0
     /\ amount > 0 => _requireNoUnderCollateralizedTroves(price)
     /\ lusd' = [d.lusd EXCEPT !.supply = @ + d.lusd.pending, !.pending = 0,
                               !.deposits = @ - withdrawn]
     /\ rate' = d.rate
     /\ UNCHANGED <<status, shielded, isShutdown, trove, rewardVars, poolVars>>

\* drip called on its own, by anyone.
drip(d) ==
  /\ d # NoDrip
  /\ rate' = d.rate
  /\ lusd' = d.lusd
  /\ UNCHANGED <<status, shielded, isShutdown, trove, rewardVars, poolVars>>

=============================================================================
