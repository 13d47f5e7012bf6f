------------------------------- MODULE Ledger -------------------------------
(***************************************************************************)
(* The books of one collateral branch: the troves (TroveManager.sol), the  *)
(* stakes, running sums and snapshots by which a redistribution reaches    *)
(* every trove (Rewards.sol), the two ActivePools, the DefaultPool, the    *)
(* CollSurplusPool, the accumulated interest rates, and what exists of the *)
(* stablecoin.  BorrowerOperations, Liquidations and Branch act on them.   *)
(*                                                                         *)
(* FALSE indexes the base pool and rate, TRUE the shielded ones.  Which    *)
(* array and which list an owner is filed in follows from its status and   *)
(* its flag: see OwnersIndexed and ListedIffActive of TroveRegistry.       *)
(*                                                                         *)
(* A trove's debt and an active pool's debt are normalized: the debt is    *)
(* that number times the accumulated rate.  Every other amount is actual.  *)
(***************************************************************************)
EXTENDS Integers, FiniteSets, Functions

CONSTANTS
  Borrowers,
  RATE_PRECISION, DECIMAL_PRECISION,  \* fixed-point units: 10^27 and 10^18 in the code
  MCR, HCR, CCR, SCR,                 \* thresholds of collateral ratios
  LUSD_GAS_COMPENSATION, MIN_NET_DEBT, MIN_LUSD_IN_SP,
  PERCENT_DIVISOR,                    \* share of a liquidated trove paid as gas compensation
  spAllocFrac,                        \* FeeRouter's share of interest for the StabilityPool
  Growth,                             \* what rates may grow by between two drips
  MaxRate,                            \* bound on the accumulated rates
  MaxUint                             \* the ratio of an account without debt

ASSUME UnitsAssumption ==
  /\ IsFiniteSet(Borrowers)
  /\ RATE_PRECISION \in Nat \ {0} /\ DECIMAL_PRECISION \in Nat \ {0}
  /\ PERCENT_DIVISOR \in Nat \ {0}
  /\ LUSD_GAS_COMPENSATION \in Nat \ {0} /\ MIN_NET_DEBT \in Nat \ {0}
  /\ MIN_LUSD_IN_SP \in Nat /\ MaxRate \in Nat /\ RATE_PRECISION <= MaxRate
  /\ {MCR, SCR, HCR, CCR, MaxUint} \subseteq Nat
  /\ DECIMAL_PRECISION < MCR /\ MCR <= SCR /\ SCR < HCR /\ HCR < CCR /\ CCR < MaxUint
  /\ Growth \subseteq [BOOLEAN -> Nat] /\ spAllocFrac \in 0..DECIMAL_PRECISION
  /\ \A g \in Growth, s \in BOOLEAN : g[s] >= RATE_PRECISION

VARIABLES
  status,      \* Troves[b].status
  shielded,    \* the trove is in the shielded list and pool
  isShutdown,
  trove,       \* Troves[b]: debt (normalized), coll, stake
  snap,        \* rewardSnapshots[b]: collateral, LUSDDebt
  rw,          \* Rewards: running sums, their division errors, stakes and snapshots
  active,      \* activePool and activeShieldedPool: debt (normalized), coll
  default,     \* defaultPool: debt (actual), coll
  surplus,     \* collSurplusPool: coll and the balances
  rate,        \* accumulatedRate and accumulatedShieldRate
  lusd         \* totalSupply, gas pool, totalLUSDDeposits, pendingLUSDDeposits, pendingFees

rewardVars == <<snap, rw>>
poolVars == <<active, default, surplus>>
ledgerVars == <<status, shielded, isShutdown, trove, rewardVars, poolVars, rate, lusd>>

Active == {b \in Borrowers : status[b] = "active"}

ListOf(s) == {b \in Active : shielded[b] = s}

\* TroveManager._closeTrove: the last trove of the branch stays until a shutdown.
MoreThan(k) == isShutdown \/ Cardinality(Active) > k

LedgerInit ==
  /\ status = [b \in Borrowers |-> "nonExistent"]
  /\ shielded = [b \in Borrowers |-> FALSE]
  /\ isShutdown = FALSE
  /\ trove = [b \in Borrowers |-> [debt |-> 0, coll |-> 0, stake |-> 0]]
  /\ snap = [b \in Borrowers |-> [collateral |-> 0, LUSDDebt |-> 0]]
  /\ rw = [L_Coll |-> 0, L_LUSDDebt |-> 0, collError |-> 0, debtError |-> 0,
           totalStakes |-> 0, totalStakesSnapshot |-> 0, totalCollateralSnapshot |-> 0]
  /\ active = [s \in BOOLEAN |-> [debt |-> 0, coll |-> 0]]
  /\ default = [debt |-> 0, coll |-> 0]
  /\ surplus = [coll |-> 0, balances |-> [b \in Borrowers |-> 0]]
  /\ rate = [s \in BOOLEAN |-> RATE_PRECISION]
  /\ lusd = [supply |-> 0, gas |-> 0, deposits |-> 0, pending |-> 0, fees |-> 0]

-----------------------------------------------------------------------------
(***************************************************************************)
(* Conversions and ratios.  Prices are relative to par.                    *)
(***************************************************************************)

MinOf(x, y) == IF x <= y THEN x ELSE y

_actualDebt(n, r) == (n * r) \div RATE_PRECISION

\* The _normalizedDebt of TroveManager, which Rewards and Liquidations repeat inline.
NormDown(d, r) == (d * RATE_PRECISION) \div r

\* The _normalizedDebt of LiquityBase.
_normalizedDebt(d, r) ==
  LET n == NormDown(d, r) IN IF _actualDebt(n, r) < d THEN n + 1 ELSE n

_computeCR(coll, debt, price) == IF debt > 0 THEN (coll * price) \div debt ELSE MaxUint

\* Orders troves; over normalized debt.
_computeNominalCR(coll, debt) ==
  IF debt > 0 THEN (coll * 100 * DECIMAL_PRECISION) \div debt ELSE MaxUint

getEntireSystemColl(pools, dflt) == pools[FALSE].coll + pools[TRUE].coll + dflt.coll

getEntireSystemDebt(pools, dflt, r) ==
  _actualDebt(pools[FALSE].debt, r[FALSE]) + _actualDebt(pools[TRUE].debt, r[TRUE]) + dflt.debt

_getTCR(pools, dflt, r, price) ==
  _computeCR(getEntireSystemColl(pools, dflt), getEntireSystemDebt(pools, dflt, r), price)

\* increaseLUSDDebt, decreaseLUSDDebt, addCollateral and sendCollateral of ActivePool s.
AddToPool(pools, s, debt, coll) ==
  [pools EXCEPT ![s] = [debt |-> @.debt + debt, coll |-> @.coll + coll]]

-----------------------------------------------------------------------------
(***************************************************************************)
(* Rewards.                                                                *)
(***************************************************************************)

getPendingCollateralReward(b) ==
  IF status[b] # "active" THEN 0
  ELSE (trove[b].stake * (rw.L_Coll - snap[b].collateral)) \div DECIMAL_PRECISION

getPendingLUSDDebtReward(b) ==
  IF status[b] # "active" THEN 0
  ELSE (trove[b].stake * (rw.L_LUSDDebt - snap[b].LUSDDebt)) \div DECIMAL_PRECISION

\* Only the collateral sum is compared.
hasPendingRewards(b) == status[b] = "active" /\ snap[b].collateral < rw.L_Coll

\* The pending debt, an actual amount, is added to the normalized one.
getCurrentICR(b, r, price) ==
  _computeCR(trove[b].coll + getPendingCollateralReward(b),
             _actualDebt(trove[b].debt + getPendingLUSDDebtReward(b), r[shielded[b]]), price)

getNominalICR(b) ==
  _computeNominalCR(trove[b].coll + getPendingCollateralReward(b),
                    trove[b].debt + getPendingLUSDDebtReward(b))

Current == [collateral |-> rw.L_Coll, LUSDDebt |-> rw.L_LUSDDebt]

\* _applyPendingRewards on the trove record t of b, in pool s.  The trove's debt grows
\* by the actual pending debt, the pool's by the normalized one.
_applyPendingRewards(b, s, r, t, pools, dflt) ==
  LET coll == getPendingCollateralReward(b)
      debt == getPendingLUSDDebtReward(b)
  IN IF ~hasPendingRewards(b)
       THEN [trove |-> t, snap |-> snap[b], pools |-> pools, default |-> dflt]
       ELSE [trove |-> [debt |-> t.debt + debt, coll |-> t.coll + coll, stake |-> t.stake],
             snap |-> Current,
             pools |-> AddToPool(pools, s, NormDown(debt, r[s]), coll),
             default |-> [debt |-> dflt.debt - debt, coll |-> dflt.coll - coll]]

\* The assert of _computeNewStake.
CanComputeStake == rw.totalCollateralSnapshot = 0 \/ rw.totalStakesSnapshot > 0

_computeNewStake(coll) ==
  IF rw.totalCollateralSnapshot = 0 THEN coll
  ELSE (coll * rw.totalStakesSnapshot) \div rw.totalCollateralSnapshot

\* Variant: the old stake is not taken out of the total.
AddStakeOnly(w, b, new) == [w EXCEPT !.totalStakes = @ + new]

\* Variant: the old stake is taken out a second time.
TakeStakeTwice(w, b, new) == [w EXCEPT !.totalStakes = @ - 2 * trove[b].stake + new]

\* totalStakes when the stake of b becomes new (updateStakeAndTotalStakes, removeStake).
SetStake(w, b, new) == [w EXCEPT !.totalStakes = @ - trove[b].stake + new]

-----------------------------------------------------------------------------
(***************************************************************************)
(* Interest.                                                               *)
(***************************************************************************)

NoDripOf(l) == [rate |-> rate, lusd |-> l]

NoDrip == NoDripOf(lusd)

\* Variant: the supply that new debt is compared with leaves out what is not minted yet.
DripOverMinted(g, pools, dflt, l) ==
  LET r == [s \in BOOLEAN |-> (rate[s] * g[s]) \div RATE_PRECISION]
      debt == getEntireSystemDebt(pools, dflt, r)
      interest == IF debt > l.supply THEN debt - l.supply ELSE 0
      toSP == (interest * spAllocFrac) \div DECIMAL_PRECISION
  IN IF l.deposits = 0 THEN NoDripOf(l)
     ELSE [rate |-> r,
           lusd |-> [l EXCEPT !.deposits = @ + toSP, !.pending = @ + toSP,
                                 !.fees = @ + interest - toSP]]

\* _drip after some time, and the allocateFees and distributeFees it calls: debt that no
\* minted or promised coin stands for yet is the interest, and is promised.
_drip(g, pools, dflt, l) ==
  LET r == [s \in BOOLEAN |-> (rate[s] * g[s]) \div RATE_PRECISION]
      debt == getEntireSystemDebt(pools, dflt, r)
      currentSupply == l.supply + l.pending + l.fees
      interest == IF debt > currentSupply THEN debt - currentSupply ELSE 0
      toSP == (interest * spAllocFrac) \div DECIMAL_PRECISION
  IN IF l.deposits = 0 THEN NoDripOf(l)
     ELSE [rate |-> r,
           lusd |-> [l EXCEPT !.deposits = @ + toSP, !.pending = @ + toSP,
                                 !.fees = @ + interest - toSP]]

\* What a drip of these books can lead to: no time has passed, or some.
DripsFrom(pools, dflt, l) ==
  {d \in {NoDripOf(l)} \cup {_drip(g, pools, dflt, l) : g \in Growth} :
     \A s \in BOOLEAN : d.rate[s] <= MaxRate}

Drips == DripsFrom(active, default, lusd)

\* LUSD that is neither in the gas pool nor in the StabilityPool.
Circulating(l) == l.supply - l.gas - (l.deposits - l.pending)

=============================================================================
