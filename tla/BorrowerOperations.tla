------------------------- MODULE BorrowerOperations -------------------------
(***************************************************************************)
(* The transactions of BorrowerOperations.sol.  Each takes the price the   *)
(* feed returns and the outcome d of the drip it makes.  A failed require, *)
(* assert or checked subtraction reverts the transaction: it is a guard.   *)
(***************************************************************************)
EXTENDS Ledger

\* The test of openTrove and of _requireValidAdjustment on the branch as a whole.
_requireNewTCRisAboveCCR(pools, dflt, r, price, coll, debt) ==
  _computeCR(getEntireSystemColl(pools, dflt) + coll,
             getEntireSystemDebt(pools, dflt, r) + debt, price) >= CCR

openTrove(b, coll, amount, shield, price, d) ==
  LET debt == amount + LUSD_GAS_COMPENSATION
      n == _normalizedDebt(debt, d.rate[shield])
      ICR == _computeCR(coll, debt, price)
      stake == _computeNewStake(coll)
  IN /\ ~isShutdown
     /\ status[b] # "active"
     /\ amount >= MIN_NET_DEBT
     /\ ICR >= IF shield THEN HCR ELSE MCR
     /\ IF _getTCR(active, default, d.rate, price) < CCR
          THEN ICR >= CCR
          ELSE _requireNewTCRisAboveCCR(active, default, d.rate, price, coll, debt)
     /\ CanComputeStake
     /\ status' = [status EXCEPT ![b] = "active"]
     /\ shielded' = [shielded EXCEPT ![b] = shield]
     /\ trove' = [trove EXCEPT ![b] = [debt |-> @.debt + n, coll |-> @.coll + coll,
                                       stake |-> stake]]
     /\ snap' = [snap EXCEPT ![b] = Current]
     /\ rw' = SetStake(rw, b, stake)
     /\ active' = AddToPool(active, shield, n, coll)
     /\ lusd' = [d.lusd EXCEPT !.supply = @ + debt, !.gas = @ + LUSD_GAS_COMPENSATION]
     /\ rate' = d.rate
     /\ UNCHANGED <<isShutdown, default, surplus>>

\* Variant: the debt is not taken out of the pool the trove leaves.
ToggleKeepingDebt(b, s, r) ==
  LET n == (trove[b].debt * r[~s]) \div r[s]
  IN [trove |-> [trove[b] EXCEPT !.debt = n], pools |-> AddToPool(active, s, n, 0)]

\* shieldTrove (s = TRUE) and unShieldTrove: the debt changes rate and pool, the
\* collateral stays in the pool it is in.
ToggleShield(b, s, r) ==
  LET n == (trove[b].debt * r[~s]) \div r[s]
  IN [trove |-> [trove[b] EXCEPT !.debt = n],
      pools |-> AddToPool(AddToPool(active, ~s, -trove[b].debt, 0), s, n, 0)]

(***************************************************************************)
(* _adjustTrove, for every entry point: a.coll and a.debt are the signed   *)
(* changes, a.toggle the shield switch.  (The code refuses a deposit and a *)
(* withdrawal in one call.)                                                *)
(***************************************************************************)

\* The checks on the mode of the branch; the pools are those after the toggle and the
\* application of pending rewards.
_requireValidAdjustment(a, s, oldICR, newICR, pools, dflt, r, price) ==
  /\ s /\ newICR <= oldICR => newICR >= HCR
  /\ IF _getTCR(pools, dflt, r, price) < CCR
       THEN /\ a.coll >= 0
            /\ a.debt > 0 => newICR >= CCR /\ newICR >= oldICR
       ELSE /\ newICR >= MCR
            /\ _requireNewTCRisAboveCCR(pools, dflt, r, price, a.coll, a.debt)

adjustTrove(b, a, price, d) ==
  LET s == shielded[b] # a.toggle
      r == d.rate
      moved == IF a.toggle THEN ToggleShield(b, s, r) ELSE [trove |-> trove[b], pools |-> active]
      applied == _applyPendingRewards(b, s, r, moved.trove, moved.pools, default)
      t == applied.trove
      actual == _actualDebt(t.debt, r[s])
      n == IF a.debt >= 0 THEN _normalizedDebt(a.debt, r[s]) ELSE -_normalizedDebt(-a.debt, r[s])
      coll == t.coll + a.coll
      stake == _computeNewStake(coll)
  IN /\ ~isShutdown
     /\ status[b] = "active"
     /\ a.coll # 0 \/ a.debt # 0 \/ a.toggle
     /\ \A p \in BOOLEAN : moved.pools[p].debt >= 0
     /\ applied.default.debt >= 0 /\ applied.default.coll >= 0
     /\ coll >= 0 /\ actual + a.debt >= 0
     /\ _requireValidAdjustment(a, s, _computeCR(t.coll, actual, price),
                                _computeCR(coll, actual + a.debt, price),
                                applied.pools, applied.default, r, price)
     /\ a.debt < 0 => /\ actual - LUSD_GAS_COMPENSATION + a.debt >= MIN_NET_DEBT
                      /\ Circulating(d.lusd) + a.debt >= 0
     /\ t.debt + n >= 0
     /\ CanComputeStake
     /\ _computeNominalCR(coll, t.debt + n) > 0
     /\ applied.pools[s].debt + n >= 0
     /\ applied.pools[s].coll + a.coll >= 0
     /\ shielded' = [shielded EXCEPT ![b] = s]
     /\ trove' = [trove EXCEPT ![b] = [debt |-> t.debt + n, coll |-> coll, stake |-> stake]]
     /\ snap' = [snap EXCEPT ![b] = applied.snap]
     /\ rw' = SetStake(rw, b, stake)
     /\ active' = AddToPool(applied.pools, s, n, a.coll)
     /\ default' = applied.default
     /\ lusd' = [d.lusd EXCEPT !.supply = @ + a.debt]
     /\ rate' = r
     /\ UNCHANGED <<status, isShutdown, surplus>>

-----------------------------------------------------------------------------
\* What closeTrove takes out of the pool's normalized debt, in two _repayLUSD calls.
Repaid(actual, r) ==
  _normalizedDebt(actual - LUSD_GAS_COMPENSATION, r) + _normalizedDebt(LUSD_GAS_COMPENSATION, r)

\* Variant: the gas compensation stays in the gas pool.
CloseKeepingGas(b, d) ==
  LET s == shielded[b]
      applied == _applyPendingRewards(b, s, d.rate, trove[b], active, default)
      t == applied.trove
      actual == _actualDebt(t.debt, d.rate[s])
      n == Repaid(actual, d.rate[s])
  IN /\ status[b] = "active"
     /\ actual >= LUSD_GAS_COMPENSATION
     /\ Circulating(d.lusd) >= actual - LUSD_GAS_COMPENSATION
     /\ MoreThan(1)
     /\ applied.default.debt >= 0 /\ applied.default.coll >= 0
     /\ applied.pools[s].debt >= n
     /\ applied.pools[s].coll >= t.coll
     /\ status' = [status EXCEPT ![b] = "closedByOwner"]
     /\ shielded' = [shielded EXCEPT ![b] = FALSE]
     /\ trove' = [trove EXCEPT ![b] = [debt |-> 0, coll |-> 0, stake |-> 0]]
     /\ snap' = [snap EXCEPT ![b] = [collateral |-> 0, LUSDDebt |-> 0]]
     /\ rw' = SetStake(rw, b, 0)
     /\ active' = AddToPool(applied.pools, s, -n, -t.coll)
     /\ default' = applied.default
     /\ lusd' = [d.lusd EXCEPT !.supply = @ - actual]
     /\ rate' = d.rate
     /\ UNCHANGED <<isShutdown, surplus>>

closeTrove(b, d) ==
  LET s == shielded[b]
      applied == _applyPendingRewards(b, s, d.rate, trove[b], active, default)
      t == applied.trove
      actual == _actualDebt(t.debt, d.rate[s])
      n == Repaid(actual, d.rate[s])
  IN /\ status[b] = "active"
     /\ isShutdown => d = NoDrip
     /\ actual >= LUSD_GAS_COMPENSATION
     /\ Circulating(d.lusd) >= actual - LUSD_GAS_COMPENSATION
     /\ MoreThan(1)
     /\ applied.default.debt >= 0 /\ applied.default.coll >= 0
     /\ applied.pools[s].debt >= n
     /\ applied.pools[s].coll >= t.coll
     /\ status' = [status EXCEPT ![b] = "closedByOwner"]
     /\ shielded' = [shielded EXCEPT ![b] = FALSE]
     /\ trove' = [trove EXCEPT ![b] = [debt |-> 0, coll |-> 0, stake |-> 0]]
     /\ snap' = [snap EXCEPT ![b] = [collateral |-> 0, LUSDDebt |-> 0]]
     /\ rw' = SetStake(rw, b, 0)
     /\ active' = AddToPool(applied.pools, s, -n, -t.coll)
     /\ default' = applied.default
     /\ lusd' = [d.lusd EXCEPT !.supply = @ - actual, !.gas = @ - LUSD_GAS_COMPENSATION]
     /\ rate' = d.rate
     /\ UNCHANGED <<isShutdown, surplus>>

\* shutdown: the ratio is taken before the drip that TroveManager.shutdown makes.
shutdown(price, d) ==
  /\ ~isShutdown
  /\ _getTCR(active, default, rate, price) < SCR
  /\ isShutdown' = TRUE
  /\ rate' = d.rate
  /\ lusd' = d.lusd
  /\ UNCHANGED <<status, shielded, trove, rewardVars, poolVars>>

\* The price feed has lost its oracle; it has no condition on the branch.
shutdownFromOracleFailure(d) ==
  /\ ~isShutdown
  /\ isShutdown' = TRUE
  /\ rate' = d.rate
  /\ lusd' = d.lusd
  /\ UNCHANGED <<status, shielded, trove, rewardVars, poolVars>>

claimCollateral(b, d) ==
  /\ surplus.balances[b] > 0
  /\ surplus.coll >= surplus.balances[b]
  /\ surplus' = [coll |-> surplus.coll - surplus.balances[b],
                 balances |-> [surplus.balances EXCEPT ![b] = 0]]
  /\ rate' = d.rate
  /\ lusd' = d.lusd
  /\ UNCHANGED <<status, shielded, isShutdown, trove, rewardVars, active, default>>

=============================================================================
