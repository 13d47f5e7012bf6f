--------------------------- MODULE BranchShutdown ---------------------------
(***************************************************************************)
(* How a branch is shut down: the Relayer with its once-per-block updates  *)
(* of par and rate, a price feed with its fallback sources,                *)
(* BorrowerOperations and TroveManager.  Every transaction that passes     *)
(* through two of them is one operator on their joint state, composed from *)
(* the calls in the order the code makes them; ok is lost when one of them *)
(* reverts, and a transaction that reverts is no step.                     *)
(*                                                                         *)
(* What the transactions do to the troves is in Branch.  The totals of the *)
(* branch are fixed, so its ratio depends on price and par alone, and the  *)
(* controllers may compute any par of Pars.                                *)
(***************************************************************************)
EXTENDS Integers

CONSTANTS
  MAX_PAR_STALENESS, MAX_RATE_STALENESS,  \* in the unit of Tick
  Pars, Prices,
  DEVIATION_THRESHOLD,                    \* percent
  SafePrice                               \* the price at which TCR = SCR when par is 1

ASSUME ShutdownAssumption ==
  /\ MAX_PAR_STALENESS \in Nat /\ MAX_RATE_STALENESS \in Nat
  /\ Pars \subseteq Nat \ {0} /\ 1 \in Pars /\ Prices \subseteq Nat \ {0}
  /\ DEVIATION_THRESHOLD \in 0..99 /\ SafePrice \in Nat

VARIABLES
  age,   \* time since the Relayer updated par and rate; beyond the limits it does not matter
  par,   \* relayer.par
  up,    \* which sources answer: the collateral's market, ETH-USD (BTC-USD), the canonical rate
  feed,  \* the branch's feed: its kind, priceSource, lastGoodPrice
  debt,  \* a trove has been opened; without debt the ratio is not below SCR
  bo,    \* BorrowerOperations.isShutdown
  tm     \* TroveManager._collateralShutdown

shutdownVars == <<age, par, up, feed, debt, bo, tm>>

Kinds == {"WETH", "WSTETH", "RETH", "WBTC"}

Oracles == {"market", "usd", "canonical"}

Open == [shut |-> FALSE, par |-> 0, oracleFailure |-> FALSE]

ShutdownInit ==
  /\ age = [par |-> MAX_PAR_STALENESS + 1, rate |-> MAX_RATE_STALENESS + 1]
  /\ par = 1
  /\ up = [o \in Oracles |-> TRUE]
  /\ feed \in [kind : Kinds, source : {"primary"}, lastGoodPrice : Prices]
  /\ debt = FALSE /\ bo = FALSE /\ tm = Open

\* The joint state a transaction works on, and what it finds: prices, and the par that the
\* controller would compute in this block.
Before ==
  [age |-> age, par |-> par, feed |-> feed, debt |-> debt, bo |-> bo, tm |-> tm, ok |-> TRUE]

Found == [market : Prices, canonical : Prices, par : Pars]

-----------------------------------------------------------------------------
(***************************************************************************)
(* The Relayer.  ParControl and RateControl refuse a second update in one  *)
(* block.                                                                  *)
(***************************************************************************)

_updatePar(w, e) == [w EXCEPT !.ok = @ /\ w.age.par > 0, !.age.par = 0, !.par = e.par]

_updateRate(w, e) == [w EXCEPT !.ok = @ /\ w.age.rate > 0, !.age.rate = 0]

parIsStale(w) == w.age.par > MAX_PAR_STALENESS

rateIsStale(w) == w.age.rate > MAX_RATE_STALENESS

getPar(w, e) == IF parIsStale(w) THEN _updatePar(w, e) ELSE w

getRate(w, e) == IF rateIsStale(w) THEN _updateRate(w, e) ELSE w

updateRateAndPar(w, e) == _updatePar(_updateRate(w, e), e)

\* As far as the Relayer is concerned.
drip(w, e) == getRate(w, e)

-----------------------------------------------------------------------------
(***************************************************************************)
(* Shutting down.                                                          *)
(***************************************************************************)

\* Variant: par is recorded as the getter has it, and nothing is updated.
ShutdownWithOldPar(w, e, failure) ==
  IF w.tm.shut THEN w
  ELSE [drip(w, e) EXCEPT !.tm = [shut |-> TRUE, par |-> w.par, oracleFailure |-> failure]]

\* TroveManager.shutdown.
TMShutdown(w, e, failure) ==
  IF w.tm.shut THEN w
  ELSE LET u == updateRateAndPar(w, e)
       IN [drip(u, e) EXCEPT !.tm = [shut |-> TRUE, par |-> u.par, oracleFailure |-> failure]]

\* BorrowerOperations._shutdown.
_shutdown(w, e, failure) == TMShutdown([w EXCEPT !.bo = TRUE], e, failure)

\* Variant: the branch is marked in BorrowerOperations alone.
ShutdownUnrelayed(w, e) == [w EXCEPT !.bo = TRUE]

\* Variant: par is fetched first, as shutdown does.
ShutdownAfterGetPar(w, e) == IF w.bo THEN w ELSE _shutdown(getPar(w, e), e, TRUE)

shutdownFromOracleFailure(w, e) == IF w.bo THEN w ELSE _shutdown(w, e, TRUE)

-----------------------------------------------------------------------------
(***************************************************************************)
(* The price feeds.  A fetch yields the joint state after it, the price    *)
(* and whether the primary source failed in this call.                     *)
(***************************************************************************)

Fetched(w, price, failure) == [w |-> w, price |-> price, failure |-> failure]

_shutDownAndSwitchToLastGoodPrice(w, e) ==
  Fetched([shutdownFromOracleFailure(w, e) EXCEPT !.feed.source = "lastGoodPrice"],
          w.feed.lastGoodPrice, TRUE)

LowerOf(x, y) == IF x <= y THEN x ELSE y

HigherOf(x, y) == IF x >= y THEN x ELSE y

_fetchPriceETHUSDxCanonical(w, e) ==
  IF ~up["canonical"]
    THEN Fetched([w EXCEPT !.feed.source = "lastGoodPrice"], w.feed.lastGoodPrice, FALSE)
    ELSE LET best == LowerOf(e.canonical, w.feed.lastGoodPrice)
         IN Fetched([w EXCEPT !.feed.lastGoodPrice = best], best, FALSE)

_shutDownAndSwitchToETHUSDxCanonical(w, e) ==
  [_fetchPriceETHUSDxCanonical(
     [shutdownFromOracleFailure(w, e) EXCEPT !.feed.source = "ETHUSDxCanonical"], e)
   EXCEPT !.failure = TRUE]

_withinDeviationThreshold(price, reference) ==
  /\ price * 100 >= reference * (100 - DEVIATION_THRESHOLD)
  /\ price * 100 <= reference * (100 + DEVIATION_THRESHOLD)

\* A feed that has both prices takes the higher one for a redemption if they are close, and
\* otherwise the lower one (the market price, for WSTETH).
PrimaryPrice(kind, e, isRedemption) ==
  CASE kind = "WETH" -> e.market
    [] kind # "WETH" /\ isRedemption /\ _withinDeviationThreshold(e.market, e.canonical) ->
         HigherOf(e.market, e.canonical)
    [] kind = "WSTETH" /\ ~(isRedemption /\ _withinDeviationThreshold(e.market, e.canonical)) ->
         e.market
    [] OTHER -> LowerOf(e.market, e.canonical)

\* The sources without which a feed has no fallback but its last price.
Essential(kind) ==
  CASE kind = "WETH" -> {"usd"}
    [] kind = "WBTC" -> {"usd", "market"}
    [] OTHER -> {"usd", "canonical"}

\* The sources of a kind of feed.
Sources(kind) == Essential(kind) \cup (IF kind = "WETH" THEN {} ELSE {"market"})

_fetchPricePrimary(w, e, isRedemption) ==
  LET price == PrimaryPrice(w.feed.kind, e, isRedemption)
  IN IF \E o \in Essential(w.feed.kind) : ~up[o] THEN _shutDownAndSwitchToLastGoodPrice(w, e)
     ELSE IF ~up["market"] /\ w.feed.kind # "WETH" THEN _shutDownAndSwitchToETHUSDxCanonical(w, e)
     ELSE Fetched([w EXCEPT !.feed.lastGoodPrice = price], price, FALSE)

_fetchPriceDuringShutdown(w, e) ==
  IF w.feed.source = "ETHUSDxCanonical" /\ up["usd"] THEN _fetchPriceETHUSDxCanonical(w, e)
  ELSE Fetched([w EXCEPT !.feed.source = "lastGoodPrice"], w.feed.lastGoodPrice, FALSE)

Fetch(w, e, isRedemption) ==
  IF w.feed.source = "primary" THEN _fetchPricePrimary(w, e, isRedemption)
  ELSE _fetchPriceDuringShutdown(w, e)

fetchPrice(w, e) == Fetch(w, e, FALSE)

-----------------------------------------------------------------------------
(***************************************************************************)
(* The transactions.                                                       *)
(***************************************************************************)

\* openTrove and _adjustTrove: drip, par, price, and no failure of the feed.
Borrowed(w, e) ==
  LET f == fetchPrice(getPar(drip(w, e), e), e)
  IN [f.w EXCEPT !.ok = @ /\ ~w.bo /\ ~f.failure, !.debt = TRUE]

BelowSCR(w, price) == w.debt /\ price < SafePrice * w.par

\* BorrowerOperations.shutdown.
ShutdownAsked(w, e) ==
  LET p == getPar(w, e)
      f == fetchPrice(p, e)
  IN IF f.failure THEN [f.w EXCEPT !.ok = @ /\ ~w.bo]
     ELSE [_shutdown(f.w, e, FALSE) EXCEPT !.ok = @ /\ ~w.bo /\ BelowSCR(f.w, f.price)]

\* liquidateTroves and batchLiquidate.
Liquidated(w, e) == fetchPrice(drip(getPar(getRate(w, e), e), e), e).w

\* redeemCollateral.
Redeemed(w, e) ==
  [drip(updateRateAndPar(fetchPrice(w, e).w, e), e) EXCEPT !.ok = @ /\ ~w.tm.shut]

\* redeemCollateralForShutdown.
RedeemedForShutdown(w, e) == [fetchPrice(w, e).w EXCEPT !.ok = @ /\ w.tm.shut]

\* StabilityPool.withdrawFromSP.
Withdrawn(w, e) == drip(fetchPrice(w, e).w, e)

\* The updates of the Relayer that anyone may ask for, and the market oracle makes.
RelayerCalls(w, e) ==
  {_updatePar(w, e), _updateRate(w, e), updateRateAndPar(w, e),
   getPar(w, e), getRate(w, e), getPar(getRate(w, e), e)}

\* A transaction's outcome becomes the state.
Takes(w) ==
  /\ w.ok
  /\ age' = w.age /\ par' = w.par /\ feed' = w.feed /\ debt' = w.debt
  /\ bo' = w.bo /\ tm' = w.tm
  /\ UNCHANGED up

Borrow == \E e \in Found : Takes(Borrowed(Before, e))

AskShutdown == \E e \in Found : Takes(ShutdownAsked(Before, e))

Liquidate == \E e \in Found : Takes(Liquidated(Before, e))

Redeem == \E e \in Found : Takes(Redeemed(Before, e))

RedeemForShutdown == \E e \in Found : Takes(RedeemedForShutdown(Before, e))

Withdraw == \E e \in Found : Takes(Withdrawn(Before, e))

CallRelayer == \E e \in Found : \E w \in RelayerCalls(Before, e) : Takes(w)

\* fetchPrice and fetchRedemptionPrice are open to everyone.
FetchPrice == \E e \in Found, isRedemption \in BOOLEAN : Takes(Fetch(Before, e, isRedemption).w)

\* Time passes, and with it blocks.
Tick ==
  /\ age' = [par |-> LowerOf(age.par + 1, MAX_PAR_STALENESS + 1),
             rate |-> LowerOf(age.rate + 1, MAX_RATE_STALENESS + 1)]
  /\ UNCHANGED <<par, up, feed, debt, bo, tm>>

\* An oracle stops answering, answers nonsense or too late, or is back.
OracleChanges ==
  /\ \E o \in Oracles : up' = [up EXCEPT ![o] = ~@]
  /\ UNCHANGED <<age, par, feed, debt, bo, tm>>

ShutdownNext ==
  \/ Borrow \/ AskShutdown \/ Liquidate \/ Redeem \/ RedeemForShutdown \/ Withdraw
  \/ CallRelayer \/ FetchPrice \/ Tick \/ OracleChanges

(***************************************************************************)
(* Blocks keep coming, and of the blocks in which a call of fetchPrice     *)
(* would go through one at last has such a call: anyone may make it, and   *)
(* updates of par made earlier in a block can make it fail in that block.  *)
(***************************************************************************)
ShutdownFairness == WF_shutdownVars(Tick) /\ SF_shutdownVars(FetchPrice)

ShutdownSpec == ShutdownInit /\ [][ShutdownNext]_shutdownVars

ShutdownFairSpec == ShutdownSpec /\ ShutdownFairness

-----------------------------------------------------------------------------
(***************************************************************************)
(* A branch is shut down in both contracts or in neither, although the     *)
(* order comes from a third one, passes through one of them and can fail   *)
(* in the other; and a feed leaves its primary source only with the branch *)
(* shut down, on whichever transaction it noticed the failure, for a       *)
(* canonical price only if its kind has one that it can fall back to.      *)
(***************************************************************************)
ShutDownTogether ==
  /\ bo = tm.shut
  /\ feed.source # "primary" => tm.shut
  /\ tm.oracleFailure => feed.source # "primary"
  /\ feed.source = "ETHUSDxCanonical" => feed.kind \in {"WSTETH", "RETH"}

(***************************************************************************)
(* What redeemers settle at is decided by the shutdown: the par recorded   *)
(* is the one computed in its block, no later update of the Relayer        *)
(* changes it, and a feed that has left its primary source never goes back *)
(* to it nor to a higher price.                                            *)
(***************************************************************************)
SettlementFixed ==
  [][/\ tm.shut => tm' = tm
     /\ ~tm.shut /\ tm'.shut => tm'.par = par' /\ age' = [par |-> 0, rate |-> 0]
     /\ feed.source # "primary" =>
          feed'.source # "primary" /\ feed'.lastGoodPrice <= feed.lastGoodPrice]_shutdownVars

(***************************************************************************)
(* A source of the feed that stays down shuts the branch down in the end,  *)
(* although every opening and adjustment that notices it is reverted, and  *)
(* with it the shutdown.                                                   *)
(***************************************************************************)
DeadOracleShutsDown ==
  \A o \in Oracles :
    (o \in Sources(feed.kind) /\ ~up[o]) ~> (tm.shut \/ up[o])

(***************************************************************************)
(* The tests of TroveManager and BorrowerOperations: the system is shut    *)
(* down when its ratio is below SCR.  Here: a call of shutdown in a block  *)
(* in which nothing was updated yet goes through.                          *)
(***************************************************************************)
BelowSCRShutsDown ==
  \A e \in Found :
    /\ ~bo /\ age.par > 0 /\ age.rate > 0
    /\ \A o \in Oracles : up[o]
    /\ BelowSCR(getPar(Before, e), PrimaryPrice(feed.kind, e, FALSE))
    => ShutdownAsked(Before, e).ok

=============================================================================
