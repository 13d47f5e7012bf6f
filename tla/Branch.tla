------------------------------- MODULE Branch -------------------------------
(***************************************************************************)
(* One collateral branch under its users: borrowers, depositors of the     *)
(* StabilityPool, liquidators and redeemers, in any order, at any price and *)
(* with any time between two transactions.  A transaction that reverts     *)
(* leaves the state as it was, and is no step.                             *)
(***************************************************************************)
EXTENDS BorrowerOperations, Liquidations, Redemptions

CONSTANTS
  Prices,       \* prices relative to par, in DECIMAL_PRECISION
  Colls,        \* collateral a trove is opened with
  Amounts,      \* LUSD a trove is opened with
  Adjustments,  \* what an adjustment may ask for
  Deposits,     \* amounts provided to and withdrawn from the StabilityPool
  Redeemed,     \* LUSD a redeemer offers
  RedemptionRates, Discounts,  \* the Aggregator's fee, and the discount after a shutdown
  Hints,        \* where a redeemer may tell the loop to start
  MaxBatch,     \* bound on the troves of one liquidation
  MaxOps        \* bound on the number of transactions

ASSUME InputsAssumption ==
  /\ Prices \subseteq Nat \ {0} /\ Colls \subseteq Nat /\ Amounts \subseteq Nat
  /\ Adjustments \subseteq [coll : Int, debt : Int, toggle : BOOLEAN]
  /\ Deposits \subseteq Nat /\ Redeemed \subseteq Nat
  /\ RedemptionRates \subseteq 0..DECIMAL_PRECISION
  /\ Discounts \subseteq 0..DECIMAL_PRECISION - 1
  /\ MaxBatch \in Nat /\ MaxOps \in Nat

VARIABLE ops    \* transactions so far

branchVars == <<ledgerVars, ops>>

BranchInit == LedgerInit /\ ops = 0

\* The troves of a liquidation, in the order they are gone through.
Arrays == UNION {Injection(1..n, Borrowers) : n \in 1..MaxBatch}

Transaction == ops < MaxOps /\ ops' = ops + 1

Open ==
  /\ Transaction
  /\ \E b \in Borrowers, coll \in Colls, amount \in Amounts, shield \in BOOLEAN,
        price \in Prices, d \in Drips : openTrove(b, coll, amount, shield, price, d)

Adjust ==
  /\ Transaction
  /\ \E b \in Borrowers, a \in Adjustments, price \in Prices, d \in Drips :
       adjustTrove(b, a, price, d)

Close == Transaction /\ \E b \in Borrowers, d \in Drips : closeTrove(b, d)

Claim == Transaction /\ \E b \in Borrowers, d \in Drips : claimCollateral(b, d)

BatchLiquidate ==
  /\ Transaction
  /\ \E seq \in Arrays, price \in Prices, d \in Drips : batchLiquidate(seq, price, d)

LiquidateTroves ==
  /\ Transaction
  /\ \E n \in 1..MaxBatch, seq \in Arrays, price \in Prices, d \in Drips :
       liquidateTroves(n, seq, price, d)

Provide == Transaction /\ \E amount \in Deposits, d \in Drips : provideToSP(amount, d)

Withdraw ==
  /\ Transaction
  /\ \E amount \in Deposits, price \in Prices, d \in Drips : withdrawFromSP(amount, price, d)

Shutdown ==
  /\ Transaction
  /\ \E d \in Drips : shutdownFromOracleFailure(d) \/ \E price \in Prices : shutdown(price, d)

\* What a redeemer may ask for.  A fee is taken before a shutdown, a discount given after it.
RedemptionsAsked ==
  [amount : Redeemed, price : Prices, hint : Hints, hintNICR : BOOLEAN,
   redemptionRate : IF isShutdown THEN {0} ELSE RedemptionRates,
   discount : IF isShutdown THEN Discounts ELSE {0}, maxIterations : {1, Cardinality(Borrowers)}]

Redeem ==
  /\ Transaction
  /\ \E order \in Orders, p \in RedemptionsAsked : redeemCollateral(order, p)

Drip == Transaction /\ \E d \in Drips : drip(d)

BranchNext ==
  Open \/ Adjust \/ Close \/ Claim \/ BatchLiquidate \/ LiquidateTroves \/ Provide \/ Withdraw
    \/ Redeem \/ Shutdown \/ Drip

BranchSpec == BranchInit /\ [][BranchNext]_branchVars

-----------------------------------------------------------------------------
SumOver(f(_), S) == SumFunctionOnSet([b \in Borrowers |-> f(b)], S)

Amount == Nat

\* No balance is ever below zero; the unsigned integers of the code would revert.
BranchTypeOK ==
  /\ status \in [Borrowers -> {"nonExistent", "active", "closedByOwner", "closedByLiquidation",
                             "closedByRedemption"}]
  /\ shielded \in [Borrowers -> BOOLEAN]
  /\ isShutdown \in BOOLEAN
  /\ trove \in [Borrowers -> [debt : Amount, coll : Amount, stake : Amount]]
  /\ snap \in [Borrowers -> [collateral : Amount, LUSDDebt : Amount]]
  /\ \A f \in DOMAIN rw : rw[f] \in Amount
  /\ active \in [BOOLEAN -> [debt : Amount, coll : Amount]]
  /\ default \in [debt : Amount, coll : Amount]
  /\ surplus \in [coll : Amount, balances : [Borrowers -> Amount]]
  /\ rate \in [BOOLEAN -> RATE_PRECISION..MaxRate]
  /\ \A f \in DOMAIN lusd : lusd[f] \in Amount
  /\ lusd.pending <= lusd.deposits /\ Circulating(lusd) >= 0

(***************************************************************************)
(* totalStakes, which Rewards only ever adjusts by differences, is the sum *)
(* of the stakes of the troves.  A redistribution divides by it.           *)
(***************************************************************************)
StakesAddUp == rw.totalStakes = SumOver(LAMBDA b : trove[b].stake, Borrowers)

(***************************************************************************)
(* The two ActivePools together hold the collateral recorded in the        *)
(* troves, no more and no less, whatever moved between the pools.          *)
(***************************************************************************)
CollateralAddsUp ==
  active[FALSE].coll + active[TRUE].coll = SumOver(LAMBDA b : trove[b].coll, Borrowers)

(***************************************************************************)
(* The DefaultPool can pay every pending collateral reward there is, so    *)
(* that neither applying one nor liquidating its owner runs into a failed  *)
(* subtraction, although stakes change and divisions round between         *)
(* redistributions.                                                        *)
(***************************************************************************)
DefaultCoversCollateral == default.coll >= SumOver(getPendingCollateralReward, Active)

(***************************************************************************)
(* It can bear every pending debt as well: what applying the rewards of    *)
(* all troves would take out of its debt is there.                         *)
(***************************************************************************)
DefaultCoversDebt == default.debt >= SumOver(getPendingLUSDDebtReward, Active)

(***************************************************************************)
(* The CollSurplusPool holds exactly what former owners may still claim,   *)
(* and the gas pool one compensation per active trove, so that closing,    *)
(* liquidating or redeeming a trove can always pay or burn its own.        *)
(***************************************************************************)
SidePoolsBacked ==
  /\ surplus.coll = SumOver(LAMBDA b : surplus.balances[b], Borrowers)
  /\ lusd.gas = LUSD_GAS_COMPENSATION * Cardinality(Active)

(***************************************************************************)
(* The assert in Rewards._computeNewStake never fires while troves can be  *)
(* opened or adjusted: a collateral snapshot comes with a stakes snapshot. *)
(***************************************************************************)
StakeAssertHolds == ~isShutdown => CanComputeStake

(***************************************************************************)
(* While a rate has not grown nothing rounds at it, and the books are      *)
(* exact: that ActivePool records the debt of its own troves, through      *)
(* shield toggles, partial offsets, redistributions and redemptions.       *)
(***************************************************************************)
DebtAddsUp ==
  \A s \in BOOLEAN : rate[s] = RATE_PRECISION =>
    active[s].debt = SumOver(LAMBDA b : trove[b].debt, ListOf(s))

\* LUSD that has been minted or promised, and is not burned.
Issued == lusd.supply + lusd.pending + lusd.fees

\* What one transaction may lose or gain by rounding, over both pools.
Rounding == MaxRate \div RATE_PRECISION + 1

Distance(x, y) == IF x >= y THEN x - y ELSE y - x

(***************************************************************************)
(* The stablecoin stands for debt: what is minted or promised is the       *)
(* debt of the branch, up to rounding in each transaction, with interest   *)
(* charged by drips that only look at totals.                              *)
(***************************************************************************)
SupplyTracksDebt ==
  Distance(Issued, getEntireSystemDebt(active, default, rate)) <= ops * Rounding

\* What it may lose or gain in one pool's books of debt: a trove's part of a transaction is
\* rounded at most twice.
TroveRounding == 2 * Cardinality(Borrowers)

\* The distance of an ActivePool's debt from the debt of its troves.
DebtGap(s) == Distance(active[s].debt, SumOver(LAMBDA b : trove[b].debt, ListOf(s)))

(***************************************************************************)
(* With interest, and before any debt was redistributed, the pools still   *)
(* record the debt of their troves up to rounding.                         *)
(***************************************************************************)
DebtTracked ==
  rw.L_LUSDDebt = 0 => \A s \in BOOLEAN : DebtGap(s) <= ops * TroveRounding

\* What redemptions before a shutdown would do in this state.
RedemptionOutcomes ==
  IF isShutdown THEN {}
  ELSE UNION {{[price |-> p.price, loop |-> _runRedemptionLoop(order, p)] : order \in Orders} :
                p \in {q \in RedemptionsAsked : CanRedeem(q)}}

\* A trove after the loop, with the rewards that the loop has not applied to it.
After(L, b) ==
  LET left == status[b] = "active" /\ L.status[b] = "active" /\ L.snap[b] = snap[b]
  IN [coll |-> L.trove[b].coll + (IF left THEN getPendingCollateralReward(b) ELSE 0),
      debt |-> L.trove[b].debt + (IF left THEN getPendingLUSDDebtReward(b) ELSE 0)]

\* The loop has taken something from the trove.
TakenFrom(L, b) == After(L, b).coll < trove[b].coll + getPendingCollateralReward(b)

(***************************************************************************)
(* A redemption takes from no trove below MCR and from no shielded trove   *)
(* at or above HCR, and from nobody while a redeemable trove of a lower    *)
(* ratio is left: with two lists, a cursor in each, hints that may be      *)
(* stale and pending rewards, the lowest ratio of the branch goes first.   *)
(* Lower means lower by more than the rounding of a debt can hide.         *)
(***************************************************************************)
RedeemsLowestFirst ==
  \A o \in RedemptionOutcomes :
    LET icr(b) == getCurrentICR(b, rate, o.price)
        least(b) == _computeCR(trove[b].coll + getPendingCollateralReward(b),
          _actualDebt(trove[b].debt + getPendingLUSDDebtReward(b), rate[shielded[b]]) + 1, o.price)
        redeemable == {b \in Active : icr(b) >= MCR /\ (shielded[b] => icr(b) < HCR)}
    IN o.loop.ok => \A b \in Active :
         TakenFrom(o.loop, b) =>
           /\ b \in redeemable
           /\ \A c \in redeemable : icr(c) < least(b) => o.loop.status[c] = "closedByRedemption"

(***************************************************************************)
(* A redemption costs the owner of a trove nothing: the collateral taken   *)
(* is worth no more than the debt that goes with it, whatever the rounding *)
(* between actual and normalized debt, and a closed trove leaves the rest  *)
(* to claim.                                                               *)
(***************************************************************************)
RedemptionCostsNothing ==
  \A o \in RedemptionOutcomes :
    LET worth(coll, debt, s) == coll * o.price - _actualDebt(debt, rate[s]) * DECIMAL_PRECISION
    IN o.loop.ok => \A b \in Active :
         worth(After(o.loop, b).coll + o.loop.surplus.balances[b] - surplus.balances[b],
               After(o.loop, b).debt, shielded[b])
           >= worth(trove[b].coll + getPendingCollateralReward(b),
                    trove[b].debt + getPendingLUSDDebtReward(b), shielded[b])

-----------------------------------------------------------------------------
(***************************************************************************)
(* Statements of the documentation that the code does not keep.            *)
(***************************************************************************)

(***************************************************************************)
(* ActivePool.sol: the pool holds the collateral of its active troves.     *)
(* (A trove whose shield was toggled has its collateral in the other pool: *)
(* sendCollateral from its own pool then fails, in closeTrove and in a     *)
(* liquidation, unless other troves of that pool have left enough there.)  *)
(***************************************************************************)
PoolHoldsItsTroves ==
  \A s \in BOOLEAN : active[s].coll = SumOver(LAMBDA b : trove[b].coll, ListOf(s))

(***************************************************************************)
(* README, "Total active debt": the debt of the troves is the debt in the  *)
(* ActivePools.  The gap allowed is the rounding of each transaction.      *)
(***************************************************************************)
TotalActiveDebt == \A s \in BOOLEAN : DebtGap(s) <= ops * TroveRounding

(***************************************************************************)
(* BorrowerOperations.closeTrove: the two normalized parts of a repaid     *)
(* debt add up to no more than the trove's own, so that the pool of a lone *)
(* trove can be repaid.                                                    *)
(***************************************************************************)
RepaymentFits ==
  \A b \in Active :
    ~hasPendingRewards(b) /\ trove[b].debt > 0 =>
      Repaid(_actualDebt(trove[b].debt, rate[shielded[b]]), rate[shielded[b]]) <= trove[b].debt

=============================================================================
