----------------------------- MODULE Redemptions -----------------------------
(***************************************************************************)
(* redeemCollateral and redeemCollateralForShutdown of TroveManager.sol.   *)
(*                                                                         *)
(* The loop walks both lists from their tails with a cursor in each and    *)
(* takes the trove with the lower ratio.  It changes only the troves it    *)
(* has passed, so a trove's ratio is read from the state before the loop.  *)
(* The order of a list is not kept in Ledger; it is a parameter, the       *)
(* owners from tail to head.                                               *)
(*                                                                         *)
(* The bootstrap period and the redeemer's fee limit are guards on the     *)
(* caller's own arguments and are left out.                                *)
(***************************************************************************)
EXTENDS Ledger, Sequences, SequencesExt

\* The orders the two lists can be in: sorted by nominal ratio, ties in any order.  After
\* a shutdown partial redemptions leave a trove where it is, so any order is possible.
OrdersOf(s) ==
  {q \in SetToSeqs(ListOf(s)) :
     isShutdown \/ \A i \in 1..Len(q) - 1 : getNominalICR(q[i]) <= getNominalICR(q[i + 1])}

Orders ==
  {order \in [BOOLEAN -> OrdersOf(FALSE) \cup OrdersOf(TRUE)] :
     \A s \in BOOLEAN : order[s] \in OrdersOf(s)}

\* Variant: a shielded trove may be redeemed at any ratio.
AnyAboveMCR(s, icr) == isShutdown \/ icr >= MCR

\* Which ratios may be redeemed in list s (_selectNextBaseOrShielded).
Eligible(s, icr) == isShutdown \/ (icr >= MCR /\ (s => icr < HCR))

\* _validateFirstHint: the trove is redeemable and the one behind it is not.
_validateFirstHint(q, i, s, price) ==
  LET icr(k) == getCurrentICR(q[k], rate, price)
  IN ~isShutdown /\ Eligible(s, icr(i)) /\ (i > 1 => icr(i - 1) < MCR)

\* Where the cursor of list q starts, 0 meaning nowhere: at the hint if it is valid, else
\* at the first trove from the tail that is not below MCR.  A shielded one at HCR or
\* above ends the scan; after a shutdown only shielded troves without value are skipped.
Seed(q, s, hint, price) ==
  LET icr(k) == getCurrentICR(q[k], rate, price)
      valid == {i \in DOMAIN q : q[i] = hint /\ _validateFirstHint(q, i, s, price)}
      candidates == {i \in DOMAIN q : IF isShutdown THEN s => icr(i) > 0 ELSE icr(i) >= MCR}
      first == CHOOSE i \in candidates : \A j \in candidates : i <= j
  IN IF valid # {} THEN CHOOSE i \in valid : TRUE
     ELSE IF candidates = {} \/ ~Eligible(s, icr(first)) THEN 0
     ELSE first

-----------------------------------------------------------------------------
\* What _redeemCollateralFromTrove takes from a trove: LUSD and collateral.  The fee stays in
\* the trove.  After a shutdown there is a discount and no fee, and a trove may be worth
\* less than its debt.
LotOf(t, s, left, p) ==
  LET want == MinOf(left, _actualDebt(t.debt, rate[s]) - LUSD_GAS_COMPENSATION)
      share == DECIMAL_PRECISION - p.discount
      gross == IF isShutdown
                 THEN (want * DECIMAL_PRECISION * DECIMAL_PRECISION) \div (share * p.price)
                 ELSE (want * DECIMAL_PRECISION) \div p.price
      fee == IF isShutdown THEN 0 ELSE (p.redemptionRate * gross) \div DECIMAL_PRECISION
  IN IF isShutdown /\ gross > t.coll
       THEN [LUSD |-> (t.coll * share * p.price) \div (DECIMAL_PRECISION * DECIMAL_PRECISION),
             coll |-> t.coll]
       ELSE [LUSD |-> want, coll |-> gross - fee]

\* Variant: rounded down and left so.
NormalizedDown(lot, r) == NormDown(lot, r)

\* The lot in normalized debt.  The test compares with the lot taken for a normalized
\* amount, so it adds one whenever the rate has grown.
NormalizedLot(lot, r) ==
  LET n == NormDown(lot, r) IN IF _actualDebt(n, r) < _actualDebt(lot, r) THEN n + 1 ELSE n

(***************************************************************************)
(* The state of the loop: what is left to redeem, the cursors, the books   *)
(* as they stand, and per list what is to be burned and sent.  ok: no      *)
(* subtraction or require has failed.                                      *)
(***************************************************************************)
LoopStart(order, p) ==
  [left |-> p.amount, cursor |-> [s \in BOOLEAN |-> Seed(order[s], s, p.hint, p.price)],
   running |-> TRUE, ok |-> TRUE,
   status |-> status, shielded |-> shielded, trove |-> trove, snap |-> snap, rw |-> rw,
   active |-> active, default |-> default, surplus |-> surplus, closed |-> 0,
   LUSDToRedeem |-> [s \in BOOLEAN |-> 0], collDrawn |-> [s \in BOOLEAN |-> 0]]

\* applyPendingRewards.
Applied(L, b, s) ==
  LET a == _applyPendingRewards(b, s, rate, trove[b], L.active, L.default)
  IN [L EXCEPT !.trove[b] = a.trove, !.snap[b] = a.snap, !.active = a.pools,
               !.default = a.default, !.ok = @ /\ a.default.debt >= 0 /\ a.default.coll >= 0]

\* _closeTrove and _redeemCloseTrove: the rest of the collateral goes to the surplus pool.
ClosedByRedemption(L, b, s, coll) ==
  LET n == NormDown(LUSD_GAS_COMPENSATION, rate[s])
      pool == L.active[s]
      kept == [L.surplus.balances EXCEPT ![b] = @ + coll]
  IN [L EXCEPT !.status[b] = "closedByRedemption", !.shielded[b] = FALSE,
               !.trove[b] = [debt |-> 0, coll |-> 0, stake |-> 0],
               !.snap[b] = [collateral |-> 0, LUSDDebt |-> 0],
               !.rw = SetStake(@, b, 0),
               !.active = AddToPool(@, s, -n, -coll),
               !.surplus = [coll |-> @.coll + coll, balances |-> kept],
               !.closed = @ + 1,
               !.ok = @ /\ pool.debt >= n /\ pool.coll >= coll /\ MoreThan(L.closed + 1)]

\* The trove keeps a debt; its stake follows its collateral.
PartlyRedeemed(L, b, debt, coll) ==
  LET stake == _computeNewStake(coll)
  IN [L EXCEPT !.trove[b] = [debt |-> debt, coll |-> coll, stake |-> stake],
               !.rw = SetStake(@, b, stake), !.ok = @ /\ CanComputeStake]

\* A partial redemption is refused, and ends the loop, when the hint does not tell the ratio it
\* leads to or the debt left is too small.
Cancelled(newDebt, s, p) ==
  /\ ~isShutdown
  /\ ~p.hintNICR \/ _actualDebt(newDebt, rate[s]) - LUSD_GAS_COMPENSATION < MIN_NET_DEBT

\* The lot is counted, and the cursor moves on (_advanceCursor).
Advanced(L, s, lot, last) ==
  [L EXCEPT !.left = @ - lot.LUSD,
            !.LUSDToRedeem[s] = @ + lot.LUSD, !.collDrawn[s] = @ + lot.coll,
            !.cursor[s] = IF @ = last THEN 0 ELSE @ + 1]

_redeemCollateralFromTrove(L, b, s, last, p) ==
  LET t == L.trove[b]
      lot == LotOf(t, s, L.left, p)
      newDebt == t.debt - NormalizedLot(lot.LUSD, rate[s])
      newColl == t.coll - lot.coll
      closes == _actualDebt(newDebt, rate[s]) <= LUSD_GAS_COMPENSATION
      taken == IF closes THEN ClosedByRedemption(L, b, s, newColl)
               ELSE PartlyRedeemed(L, b, newDebt, newColl)
  IN IF ~closes /\ Cancelled(newDebt, s, p) THEN [L EXCEPT !.running = FALSE]
     ELSE [Advanced(taken, s, lot, last) EXCEPT
             !.ok = @ /\ _actualDebt(t.debt, rate[s]) >= LUSD_GAS_COMPENSATION
                      /\ newDebt >= 0 /\ newColl >= 0]

\* One iteration of _runRedemptionLoop: the lower of the two candidates, base at a tie.  A
\* list whose cursor is nowhere has none, nor has a trove without debt a ratio to compare.
Iterate(L, order, p) ==
  LET icr(s) == getCurrentICR(order[s][L.cursor[s]], rate, p.price)
      candidates == {s \in BOOLEAN : L.cursor[s] # 0 /\ Eligible(s, icr(s)) /\ icr(s) # MaxUint}
      s == FALSE \notin candidates \/ (TRUE \in candidates /\ icr(TRUE) < icr(FALSE))
      b == order[s][L.cursor[s]]
  IN IF ~L.running \/ ~L.ok \/ L.left = 0 \/ candidates = {}
       THEN [L EXCEPT !.running = FALSE]
       ELSE _redeemCollateralFromTrove(Applied(L, b, s), b, s, Len(order[s]), p)

\* n iterations of Step.
Repeated(n, start, Step(_)) ==
  LET loop[i \in 0..n] == IF i = 0 THEN start ELSE Step(loop[i - 1])
  IN loop[n]

\* _runRedemptionLoop, ended by maxIterations at the latest.
_runRedemptionLoop(order, p) ==
  Repeated(MinOf(p.maxIterations, Cardinality(Active)), LoopStart(order, p),
           LAMBDA L : Iterate(L, order, p))

\* The totals of a list leave its pool, if any LUSD was redeemed from it.
_finalizeRedemption(L) ==
  [s \in BOOLEAN |->
     IF L.LUSDToRedeem[s] > 0
       THEN [debt |-> L.active[s].debt - NormDown(L.LUSDToRedeem[s], rate[s]),
             coll |-> L.active[s].coll - L.collDrawn[s]]
       ELSE L.active[s]]

(***************************************************************************)
(* Bound: a list never gives collateral for nothing.  After a shutdown the *)
(* last few wei of a trove can be worth less than a wei of LUSD; if they   *)
(* are all a redemption takes from a list, the trove loses them and the    *)
(* pool keeps them.                                                        *)
(***************************************************************************)
NoneForNothing(L) == \A s \in BOOLEAN : L.LUSDToRedeem[s] = 0 => L.collDrawn[s] = 0

\* The requires before the loop.
CanRedeem(p) ==
  /\ isShutdown \/ _getTCR(active, default, rate, p.price) >= MCR
  /\ p.amount > 0 /\ Circulating(lusd) >= p.amount

\* Both entry points.  Interest is charged last, and not after a shutdown.
redeemCollateral(order, p) ==
  /\ CanRedeem(p)
  /\ LET L == _runRedemptionLoop(order, p)
         pools == _finalizeRedemption(L)
         burned == L.LUSDToRedeem[FALSE] + L.LUSDToRedeem[TRUE]
         gas == L.closed * LUSD_GAS_COMPENSATION
         l == [lusd EXCEPT !.supply = @ - burned - gas, !.gas = @ - gas]
     IN /\ L.ok
        /\ L.collDrawn[FALSE] > 0 \/ L.collDrawn[TRUE] > 0
        /\ NoneForNothing(L)
        /\ \A s \in BOOLEAN : pools[s].debt >= 0 /\ pools[s].coll >= 0
        /\ status' = L.status /\ shielded' = L.shielded
        /\ trove' = L.trove /\ snap' = L.snap /\ rw' = L.rw
        /\ active' = pools /\ default' = L.default /\ surplus' = L.surplus
        /\ \E d \in IF isShutdown THEN {NoDripOf(l)} ELSE DripsFrom(pools, L.default, l) :
             rate' = d.rate /\ lusd' = d.lusd
  /\ UNCHANGED isShutdown

=============================================================================
