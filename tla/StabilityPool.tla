---------------------------- MODULE StabilityPool ----------------------------
(***************************************************************************)
(* The StabilityPool's depositors and front ends: deposits that shrink     *)
(* with every offset and grow with every distribution of interest, and     *)
(* gains of collateral and LQTY, all computed from one product P and sums  *)
(* S and G per scale of P, in integers rounded down and with the remainder *)
(* carried over.  Troves, prices and time are outside: an offset comes     *)
(* with any collateral, a drip with any interest, and the conditions on    *)
(* troves under which a depositor may withdraw are in Branch.              *)
(***************************************************************************)
EXTENDS Integers, FiniteSetsExt

CONSTANTS
  Users, ZeroAddress,
  DECIMAL_PRECISION, SCALE_FACTOR, MIN_LUSD_IN_SP,
  KickbackRates,  \* of front ends, in DECIMAL_PRECISION
  Amounts,        \* provided and withdrawn
  Debts, Colls,   \* offset
  Fees,           \* interest that a drip distributes
  Issuances,      \* LQTY issued since the last time
  MaxScale,       \* bound on the scale
  MaxOps          \* bound on the number of transactions

ASSUME PoolAssumption ==
  /\ SCALE_FACTOR \in Nat \ {0, 1} /\ DECIMAL_PRECISION = SCALE_FACTOR * SCALE_FACTOR
  /\ MIN_LUSD_IN_SP \in Nat \ {0} /\ ZeroAddress \notin Users
  /\ KickbackRates \subseteq 0..DECIMAL_PRECISION
  /\ Amounts \cup Debts \cup Colls \cup Fees \cup Issuances \subseteq Nat
  /\ MaxScale \in Nat /\ MaxOps \in Nat

VARIABLES
  sp,              \* totals, P, scale, S, G and the remainders
  deposits,        \* deposits and depositSnapshots
  frontEndStakes,  \* frontEndStakes and frontEndSnapshots
  frontEnds,       \* the kickback rate of those that registered, and -1
  ops              \* transactions so far

poolVars == <<sp, deposits, frontEndStakes, frontEnds, ops>>

Unregistered == -1

NoDeposit == [value |-> 0, tag |-> ZeroAddress, P |-> 0, S |-> 0, G |-> 0, scale |-> 0]

NoStake == [value |-> 0, P |-> 0, G |-> 0, scale |-> 0]

NoSums == [scale \in 0..MaxScale + 1 |-> 0]

PoolInit ==
  /\ sp = [P |-> DECIMAL_PRECISION, scale |-> 0, S |-> NoSums, G |-> NoSums,
           total |-> 0, pending |-> 0, balance |-> 0, CT |-> 0,
           lqtyError |-> 0, collError |-> 0, lossError |-> 0, gainError |-> 0]
  /\ deposits = [u \in Users |-> NoDeposit]
  /\ frontEndStakes = [f \in Users \cup {ZeroAddress} |-> NoStake]
  /\ frontEnds = [u \in Users |-> Unregistered]
  /\ ops = 0

-----------------------------------------------------------------------------
(***************************************************************************)
(* What a deposit or stake has become, and what it has earned.             *)
(***************************************************************************)

\* Variant: a stake of an earlier scale is read as one of the current scale.
CompoundedAtAnyScale(s, stake) == (stake.value * s.P) \div stake.P

_getCompoundedStakeFromSnapshots(s, stake) ==
  LET compounded ==
        CASE s.scale = stake.scale -> (stake.value * s.P) \div stake.P
          [] s.scale = stake.scale + 1 -> ((stake.value * s.P) \div stake.P) \div SCALE_FACTOR
          [] OTHER -> 0
  IN IF compounded < stake.value \div SCALE_FACTOR THEN 0 ELSE compounded

\* Of a deposit and of a front end's stake.
getCompounded(s, stake) ==
  IF stake.value = 0 THEN 0 ELSE _getCompoundedStakeFromSnapshots(s, stake)

\* Variant: the sum of the next scale counts in full.
PortionUnscaled(sum, snapshot, scale) == sum[scale] - snapshot + sum[scale + 1]

\* What a sum has gained since a snapshot, as far as the next scale.
Portion(sum, snapshot, scale) == sum[scale] - snapshot + (sum[scale + 1] \div SCALE_FACTOR)

GainFromSnapshots(stake, portion) ==
  ((stake.value * portion) \div stake.P) \div DECIMAL_PRECISION

getDepositorCollateralGain(s, d) ==
  IF d.value = 0 THEN 0 ELSE GainFromSnapshots(d, Portion(s.S, d.S, d.scale))

\* The part of a stake's LQTY that a rate leaves to it.
LQTYGain(s, stake, rate) ==
  IF stake.value = 0 THEN 0
  ELSE (rate * GainFromSnapshots(stake, Portion(s.G, stake.G, stake.scale))) \div DECIMAL_PRECISION

getDepositorLQTYGain(s, d) ==
  LQTYGain(s, d, IF d.tag = ZeroAddress THEN DECIMAL_PRECISION ELSE frontEnds[d.tag])

\* The zero address is no front end and gets nothing.
getFrontEndLQTYGain(s, f) ==
  IF f = ZeroAddress THEN 0 ELSE LQTYGain(s, frontEndStakes[f], DECIMAL_PRECISION - frontEnds[f])

-----------------------------------------------------------------------------
(***************************************************************************)
(* The steps that transactions share.                                      *)
(***************************************************************************)

\* A drip without interest distributes nothing; before the first deposit it would revert.
distributeFees(s, fees) ==
  LET numerator == fees * DECIMAL_PRECISION + s.gainError
      perUnit == numerator \div s.total
  IN IF fees = 0 THEN s
     ELSE [s EXCEPT !.gainError = numerator - perUnit * s.total,
                    !.total = @ + fees, !.pending = @ + fees,
                    !.P = (@ * (DECIMAL_PRECISION + perUnit)) \div DECIMAL_PRECISION]

_mintPendingDeposits(s) == [s EXCEPT !.balance = @ + s.pending, !.pending = 0]

\* _triggerLQTYIssuance.
_updateG(s, issuance) ==
  LET numerator == issuance * DECIMAL_PRECISION + s.lqtyError
      perUnit == numerator \div s.total
  IN IF s.total = 0 \/ issuance = 0 THEN s
     ELSE [s EXCEPT !.lqtyError = numerator - perUnit * s.total,
                    !.G[s.scale] = @ + perUnit * s.P]

\* What a transaction finds: the interest since the last drip and the LQTY since the last issue.
Since == {t \in [fees : Fees, issuance : Issuances] : t.fees > 0 => sp.total > 0}

\* How the depositors' transactions begin.
Refreshed(t) == _updateG(_mintPendingDeposits(distributeFees(sp, t.fees)), t.issuance)

_updateDepositAndSnapshots(s, value, tag) ==
  IF value = 0 THEN NoDeposit
  ELSE [value |-> value, tag |-> tag, P |-> s.P, S |-> s.S[s.scale], G |-> s.G[s.scale],
        scale |-> s.scale]

_updateFrontEndStakeAndSnapshots(s, value) ==
  IF value = 0 THEN NoStake
  ELSE [value |-> value, P |-> s.P, G |-> s.G[s.scale], scale |-> s.scale]

-----------------------------------------------------------------------------
(***************************************************************************)
(* The transactions.                                                       *)
(***************************************************************************)

Transaction == ops < MaxOps /\ ops' = ops + 1

(***************************************************************************)
(* A depositor's transaction after the refresh: gains are paid out and     *)
(* both snapshots taken with the deposit changed by delta.  The LQTY comes *)
(* from CommunityIssuance, which has enough.                               *)
(***************************************************************************)
Settle(u, f, s, delta) ==
  LET coll == getDepositorCollateralGain(s, deposits[u])
  IN /\ coll <= s.CT
     /\ sp' = [s EXCEPT !.CT = @ - coll, !.total = @ + delta, !.balance = @ + delta]
     /\ deposits' = [deposits EXCEPT ![u] =
          _updateDepositAndSnapshots(s, getCompounded(s, deposits[u]) + delta, f)]
     /\ frontEndStakes' = [frontEndStakes EXCEPT ![f] =
          _updateFrontEndStakeAndSnapshots(s, getCompounded(s, frontEndStakes[f]) + delta)]
     /\ UNCHANGED frontEnds

provideToSP(u, amount, tag, t) ==
  /\ tag # ZeroAddress => frontEnds[tag] # Unregistered
  /\ frontEnds[u] = Unregistered
  /\ amount > 0
  /\ Settle(u, IF deposits[u].value = 0 THEN tag ELSE deposits[u].tag, Refreshed(t), amount)

Available(s) == IF s.total > MIN_LUSD_IN_SP THEN s.total - MIN_LUSD_IN_SP ELSE 0

withdrawFromSP(u, amount, t) ==
  LET s == Refreshed(t)
      withdrawn == Min({amount, Available(s), getCompounded(s, deposits[u]),
                        getCompounded(s, frontEndStakes[deposits[u].tag])})
  IN /\ deposits[u].value > 0
     /\ withdrawn > 0 => s.total - withdrawn >= MIN_LUSD_IN_SP
     /\ Settle(u, deposits[u].tag, s, -withdrawn)

\* The gain is moved to the depositor's trove.
withdrawCollateralGainToTrove(u, t) ==
  /\ deposits[u].value > 0
  /\ getDepositorCollateralGain(sp, deposits[u]) > 0
  /\ Settle(u, deposits[u].tag, Refreshed(t), 0)

\* Variant: nothing is left in the pool.
MaxAmountAll(s) == IF s.total * DECIMAL_PRECISION <= s.lossError THEN 0 ELSE s.total

getMaxAmountToOffset(s) ==
  LET most == s.total - Min({MIN_LUSD_IN_SP, s.total})
  IN IF most * DECIMAL_PRECISION <= s.lossError THEN 0 ELSE most

\* The loss to be shared, less what was shared too much before.
LossNumerator(s, debt) == Max({0, debt * DECIMAL_PRECISION - s.lossError})

LossPerUnitStaked(s, debt) == (LossNumerator(s, debt) \div s.total) + 1

\* Variant: the scale changes once, whatever P has become.
ShrinkOneScale(s, factor) ==
  IF (s.P * factor) \div DECIMAL_PRECISION >= SCALE_FACTOR
    THEN [P |-> (s.P * factor) \div DECIMAL_PRECISION, scale |-> s.scale]
    ELSE [P |-> (s.P * factor * SCALE_FACTOR) \div DECIMAL_PRECISION, scale |-> s.scale + 1]

\* P and the scale after P has shrunk by a factor.
Shrink(s, factor) ==
  LET inScale == (s.P * factor) \div DECIMAL_PRECISION
      nextScale == (s.P * factor * SCALE_FACTOR) \div DECIMAL_PRECISION
  IN CASE inScale >= SCALE_FACTOR -> [P |-> inScale, scale |-> s.scale]
       [] inScale < SCALE_FACTOR /\ nextScale >= SCALE_FACTOR ->
            [P |-> nextScale, scale |-> s.scale + 1]
       [] OTHER -> [P |-> s.P * factor, scale |-> s.scale + 2]

_updateRewardSumAndProduct(s, collGain, lossPerUnit) ==
  LET shrunk == Shrink(s, DECIMAL_PRECISION - lossPerUnit)
  IN [s EXCEPT !.S[s.scale] = @ + collGain * s.P, !.P = shrunk.P, !.scale = shrunk.scale]

\* The assertions of an offset.
OffsetAsserts(s, debt) ==
  /\ debt < s.total
  /\ LossPerUnitStaked(s, debt) <= DECIMAL_PRECISION
  /\ Shrink(s, DECIMAL_PRECISION - LossPerUnitStaked(s, debt)).P > 0

\* _computeRewardsPerUnitStaked and _moveOffsetCollAndDebt.
OffsetBy(s, debt, coll) ==
  LET loss == LossPerUnitStaked(s, debt)
      collNumerator == coll * DECIMAL_PRECISION + s.collError
      collGain == collNumerator \div s.total
  IN [_updateRewardSumAndProduct(s, collGain, loss) EXCEPT
        !.lossError = loss * s.total - LossNumerator(s, debt),
        !.collError = collNumerator - collGain * s.total,
        !.total = @ - debt, !.balance = @ - debt, !.CT = @ + coll]

(***************************************************************************)
(* A liquidation of a trove that owes so much drips, takes what it may,    *)
(* and offsets it; when it may take nothing, the pool only mints what was  *)
(* promised to it.                                                         *)
(***************************************************************************)
offset(owed, coll, t) ==
  LET dripped == distributeFees(sp, t.fees)
      s == Refreshed(t)
      debt == Min({owed, getMaxAmountToOffset(dripped)})
  IN /\ \/ debt = 0 /\ sp' = _mintPendingDeposits(dripped)
        \/ /\ debt > 0
           /\ OffsetAsserts(s, debt)
           /\ OffsetBy(s, debt, coll).scale <= MaxScale
           /\ sp' = OffsetBy(s, debt, coll)
     /\ UNCHANGED <<deposits, frontEndStakes, frontEnds>>

\* Any other transaction of the branch that drips.
drip(t) ==
  /\ t.fees > 0
  /\ sp' = distributeFees(sp, t.fees)
  /\ UNCHANGED <<deposits, frontEndStakes, frontEnds>>

registerFrontEnd(u, kickbackRate, t) ==
  /\ frontEnds[u] = Unregistered
  /\ deposits[u].value = 0
  /\ sp' = distributeFees(sp, t.fees)
  /\ frontEnds' = [frontEnds EXCEPT ![u] = kickbackRate]
  /\ UNCHANGED <<deposits, frontEndStakes>>

Provide ==
  /\ Transaction
  /\ \E u \in Users, amount \in Amounts, tag \in Users \cup {ZeroAddress}, t \in Since :
       provideToSP(u, amount, tag, t)

Withdraw ==
  /\ Transaction
  /\ \E u \in Users, amount \in Amounts, t \in Since : withdrawFromSP(u, amount, t)

GainToTrove == Transaction /\ \E u \in Users, t \in Since : withdrawCollateralGainToTrove(u, t)

Offset == Transaction /\ \E owed \in Debts, coll \in Colls, t \in Since : offset(owed, coll, t)

Register ==
  /\ Transaction
  /\ \E u \in Users, rate \in KickbackRates, t \in Since : registerFrontEnd(u, rate, t)

Drip == Transaction /\ \E t \in Since : drip(t)

PoolNext == Provide \/ Withdraw \/ GainToTrove \/ Offset \/ Register \/ Drip

PoolSpec == PoolInit /\ [][PoolNext]_poolVars

-----------------------------------------------------------------------------
PoolTypeOK ==
  /\ sp \in [P : Nat, scale : 0..MaxScale, S : [0..MaxScale + 1 -> Nat],
             G : [0..MaxScale + 1 -> Nat], total : Nat, pending : Nat, balance : Nat,
             CT : Nat, lqtyError : Nat, collError : Nat, lossError : Nat,
             gainError : Nat]
  /\ sp.P >= SCALE_FACTOR
  /\ \A u \in {v \in Users : deposits[v] # NoDeposit} :
       /\ deposits[u].value > 0 /\ deposits[u].P >= SCALE_FACTOR
       /\ deposits[u].scale <= sp.scale
       /\ deposits[u].tag # ZeroAddress => frontEnds[deposits[u].tag] # Unregistered
  /\ frontEnds \in [Users -> KickbackRates \cup {Unregistered}]
  /\ ops \in 0..MaxOps

AllDeposits == MapThenSumSet(LAMBDA u : getCompounded(sp, deposits[u]), Users)

\* The most the pool can ever have held.
MostHeld == MaxOps * (Max(Amounts) + Max(Fees))

\* The coins the pool has and the ones promised to it are what it owes in all.
BalanceAddsUp == sp.balance + sp.pending = sp.total

(***************************************************************************)
(* The coins the pool has and the ones promised to it are what it owes in  *)
(* all.  And after any offsets, distributions and scale changes, and       *)
(* whoever came and left between them, the deposits add up to no more than *)
(* that, up to the remainders that were carried over: one of a loss and    *)
(* one of a fee are each below a unit per DECIMAL_PRECISION of deposits.   *)
(***************************************************************************)
DepositsCovered ==
  /\ BalanceAddsUp
  /\ DECIMAL_PRECISION * (AllDeposits - sp.total) <= 2 * MostHeld

\* What a stake counts for: also below a SCALE_FACTOR-th, where it is read as zero.
Weight(stake) == Max({getCompounded(sp, stake), stake.value \div SCALE_FACTOR})

\* A gain grows by no more than the stake's share of what is given, units apart.
AtMostShare(gain, given, error, stake) ==
  (gain - 2) * DECIMAL_PRECISION * sp.total <= (given * DECIMAL_PRECISION + error) * (Weight(stake) + 2)

\* A gain grows by no less than the share of what is not held back as a remainder.
AtLeastShare(gain, given, error, stake) ==
  (gain + 2) * DECIMAL_PRECISION * (sp.total + Max(Fees))
    >= (given * DECIMAL_PRECISION - error) * (getCompounded(sp, stake) - 1)

(***************************************************************************)
(* A deposit earns its share of the collateral of every offset, no more    *)
(* and no less, whatever the scale it was made at; it earns nothing from   *)
(* offsets before it, nothing twice, and nothing that others do changes    *)
(* what it has earned.  Depositors and front ends earn no more than their  *)
(* share of the LQTY that is issued, and nothing twice, although a front   *)
(* end's stake is kept apart from the deposits that it is the sum of.      *)
(***************************************************************************)
GainsPerShare ==
  [][LET earned(u) == getDepositorCollateralGain(sp, deposits[u])
         given == sp'.CT - sp.CT
         touched == {u \in Users : deposits'[u] # deposits[u]}
     IN /\ \A u \in touched :
             /\ getDepositorCollateralGain(sp, deposits[u])' = 0
             /\ getDepositorLQTYGain(sp, deposits[u])' = 0
        /\ \A u \in Users \ touched :
             LET gain == getDepositorCollateralGain(sp, deposits[u])' - earned(u)
                 lqty == getDepositorLQTYGain(sp, deposits[u])' - getDepositorLQTYGain(sp, deposits[u])
             IN /\ IF given > 0
                     THEN /\ AtMostShare(gain, given, sp.collError, deposits[u])
                          /\ AtLeastShare(gain, given, sp'.collError, deposits[u])
                     ELSE gain = 0
                /\ AtMostShare(lqty, Max(Issuances), sp.lqtyError, deposits[u])
        /\ given <= 0 => -given = MapThenSumSet(earned, touched)
        /\ \A f \in Users :
             IF frontEndStakes'[f] # frontEndStakes[f] THEN getFrontEndLQTYGain(sp, f)' = 0
             ELSE AtMostShare(getFrontEndLQTYGain(sp, f)' - getFrontEndLQTYGain(sp, f),
                              Max(Issuances), sp.lqtyError, frontEndStakes[f])]_poolVars

\* A liquidation that takes no more than it may never runs into an assertion of the pool.
OffsetNeverAsserts ==
  \A owed \in Debts :
    LET debt == Min({owed, getMaxAmountToOffset(sp)}) IN debt > 0 => OffsetAsserts(sp, debt)

(***************************************************************************)
(* StabilityPool.sol, on the loss per unit: "We want 'slightly too much'   *)
(* LUSD loss, which ensures the error in any given compoundedLUSDDeposit   *)
(* favors the Stability Pool."                                             *)
(***************************************************************************)
ErrorsFavorPool == AllDeposits <= sp.total

=============================================================================
