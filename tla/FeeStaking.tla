----------------------------- MODULE FeeStaking -----------------------------
(***************************************************************************)
(* Interest beyond the StabilityPool's part: GlobalFeeRouter splits it     *)
(* between the market oracle, liquidity providers and LQTY stakers, and    *)
(* keeps the latter two as promises until the next distribution.           *)
(* LQTYStaking hands out what arrives per unit staked.  Whoever stakes or  *)
(* unstakes drips first, so a distribution can come inside either.         *)
(***************************************************************************)
EXTENDS Integers, FiniteSetsExt

CONSTANTS
  Stakers,
  Interest,                             \* of a drip: in all, and what is left after the StabilityPool's part
  lpAllocFracs,                         \* percent; the controller may set any of them
  oracleMinBalance, oracleTargetBalance,
  distributionFreq,                     \* in the unit of Wait
  PRECISION,                            \* DECIMAL_PRECISION of LQTYStaking
  Stakes,                               \* LQTY staked and unstaked
  MaxFees                               \* bound on the transactions

ASSUME FeeAssumption ==
  /\ IsFiniteSet(Stakers)
  /\ Interest \subseteq [total : Nat, remaining : Nat]
  /\ \A fees \in Interest : fees.remaining <= fees.total
  /\ Stakes \subseteq Nat /\ lpAllocFracs \subseteq 0..100
  /\ oracleMinBalance \in Nat /\ oracleTargetBalance \in Nat
  /\ oracleMinBalance < oracleTargetBalance
  /\ distributionFreq \in Nat /\ PRECISION \in Nat \ {0} /\ MaxFees \in Nat

VARIABLES
  router,   \* pendingLpDistribution, pendingStakerDistribution, lpAllocFrac, time since lastDistribution
  held,     \* LUSD of the market oracle, of the LP staking and of LQTYStaking
  staking,  \* F_LUSD and totalLQTYStaked
  stakes,   \* stakes and snapshots
  flow,     \* interest passed on and LUSD paid out so far
  txs       \* transactions so far

feeVars == <<router, held, staking, stakes, flow, txs>>

FeeInit ==
  /\ router \in [lp : {0}, staker : {0}, frac : lpAllocFracs, age : {0}]
  /\ held = [oracle |-> 0, lp |-> 0, lqty |-> 0]
  /\ staking = [F |-> 0, total |-> 0]
  /\ stakes = [s \in Stakers |-> [value |-> 0, F |-> 0]]
  /\ flow = [in |-> 0, out |-> 0]
  /\ txs = 0

\* What a transaction works on.
Now == [router |-> router, held |-> held, staking |-> staking, in |-> flow.in]

-----------------------------------------------------------------------------
\* Nobody can claim what arrives while nobody stakes.
increaseF_LUSD(w, fee) ==
  IF w.staking.total = 0 THEN w
  ELSE [w EXCEPT !.staking.F = @ + ((fee * PRECISION) \div w.staking.total)]

\* Variant: the promise to the stakers stays.
DistributeOnly(w) ==
  [increaseF_LUSD(w, w.router.staker) EXCEPT
     !.held.lp = @ + w.router.lp, !.held.lqty = @ + w.router.staker,
     !.router.lp = 0, !.router.age = 0]

_distributePending(w) ==
  [increaseF_LUSD(w, w.router.staker) EXCEPT
     !.held.lp = @ + w.router.lp, !.held.lqty = @ + w.router.staker,
     !.router.lp = 0, !.router.staker = 0, !.router.age = 0]

\* _splitOracleAndRemaining.
ToOracle(w, amount) ==
  IF w.held.oracle >= oracleMinBalance THEN 0
  ELSE Min({amount, oracleTargetBalance - w.held.oracle})

\* The LPs' fraction is one of all the interest, and is cut to what the oracle leaves.  A
\* drip without interest does not get here.
allocateFees(w, fees, frac) ==
  LET toOracle == ToOracle(w, fees.remaining)
      toLPAndStaking == fees.remaining - toOracle
      toLP == Min({(fees.total * w.router.frac) \div 100, toLPAndStaking})
      u == [w EXCEPT !.router.lp = @ + toLP, !.router.staker = @ + (toLPAndStaking - toLP),
                     !.held.oracle = @ + toOracle, !.in = @ + fees.remaining]
      v == IF u.router.age >= distributionFreq THEN _distributePending(u) ELSE u
  IN IF fees.total = 0 THEN w ELSE [v EXCEPT !.router.frac = frac]

_getPendingLUSDGain(w, stake) == (stake.value * (w.staking.F - stake.F)) \div PRECISION

\* Variant: the snapshot is the one before the drip.
SnapshotBeforeDrip(w, value) == [value |-> value, F |-> staking.F]

_updateUserSnapshots(w, value) == [value |-> value, F |-> w.staking.F]

(***************************************************************************)
(* The state after w in which s has changed its stake by delta and was     *)
(* paid its gain.                                                          *)
(***************************************************************************)
Paid(w, s, delta) ==
  LET gain == _getPendingLUSDGain(w, stakes[s])
  IN /\ gain <= w.held.lqty
     /\ router' = w.router
     /\ held' = [w.held EXCEPT !.lqty = @ - gain]
     /\ staking' = [w.staking EXCEPT !.total = @ + delta]
     /\ stakes' = [stakes EXCEPT ![s] = _updateUserSnapshots(w, stakes[s].value + delta)]
     /\ flow' = [in |-> w.in, out |-> flow.out + gain]

-----------------------------------------------------------------------------
FeeTransaction == txs < MaxFees /\ txs' = txs + 1

stake(s, amount, w) == amount > 0 /\ Paid(w, s, amount)

unstake(s, amount, w) == stakes[s].value > 0 /\ Paid(w, s, -Min({amount, stakes[s].value}))

Stake ==
  /\ FeeTransaction
  /\ \E s \in Stakers, amount \in Stakes, fees \in Interest, frac \in lpAllocFracs :
       stake(s, amount, allocateFees(Now, fees, frac))

Unstake ==
  /\ FeeTransaction
  /\ \E s \in Stakers, amount \in Stakes, fees \in Interest, frac \in lpAllocFracs :
       unstake(s, amount, allocateFees(Now, fees, frac))

\* Any other transaction that drips.
PassOn ==
  /\ FeeTransaction
  /\ \E fees \in {i \in Interest : i.total > 0}, frac \in lpAllocFracs :
       LET w == allocateFees(Now, fees, frac)
       IN /\ router' = w.router /\ held' = w.held /\ staking' = w.staking
          /\ flow' = [flow EXCEPT !.in = w.in]
  /\ UNCHANGED stakes

\* The market oracle pays those who update it.
OraclePays ==
  /\ \E amount \in 1..held.oracle :
       /\ held' = [held EXCEPT !.oracle = @ - amount]
       /\ flow' = [flow EXCEPT !.out = @ + amount]
  /\ UNCHANGED <<router, staking, stakes, txs>>

\* Beyond distributionFreq it does not matter how much time has passed.
Wait ==
  /\ router.age < distributionFreq
  /\ router' = [router EXCEPT !.age = @ + 1]
  /\ UNCHANGED <<held, staking, stakes, flow, txs>>

FeeNext == Stake \/ Unstake \/ PassOn \/ OraclePays \/ Wait

FeeSpec == FeeInit /\ [][FeeNext]_feeVars

-----------------------------------------------------------------------------
FeeTypeOK ==
  /\ router \in [lp : Nat, staker : Nat, frac : lpAllocFracs, age : 0..distributionFreq]
  /\ held \in [oracle : 0..oracleTargetBalance, lp : Nat, lqty : Nat]
  /\ staking \in [F : Nat, total : Nat]
  /\ stakes \in [Stakers -> [value : Nat, F : 0..staking.F]]
  /\ staking.total = SumFunctionOnSet([s \in Stakers |-> stakes[s].value], Stakers)
  /\ flow \in [in : Nat, out : Nat] /\ txs \in 0..MaxFees

(***************************************************************************)
(* Interest is minted once: what was passed on is promised, or held by one *)
(* of the three, or was paid out by them, however deposits, payouts of the *)
(* oracle and distributions follow one another.  Drip relies on it when it *)
(* takes the promises for supply.                                          *)
(***************************************************************************)
InterestMintedOnce ==
  flow.in = router.lp + router.staker + held.oracle + held.lp + held.lqty + flow.out

(***************************************************************************)
(* LQTYStaking can pay what its stakers have earned: a stake earns nothing *)
(* from distributions before it, not even from the one that its own        *)
(* transaction set off.                                                    *)
(***************************************************************************)
StakersCovered ==
  SumFunctionOnSet([s \in Stakers |-> _getPendingLUSDGain(Now, stakes[s])], Stakers) <= held.lqty

=============================================================================
