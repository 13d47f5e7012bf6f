-------------------------- MODULE RedemptionProofs --------------------------
(***************************************************************************)
(* Proofs about the redemptions of a branch, for any borrowers, amounts,   *)
(* prices, fees and rates: what the loop takes from a trove is worth no    *)
(* more than the debt it takes with it.                                    *)
(***************************************************************************)
EXTENDS BranchProofs

-----------------------------------------------------------------------------
(***************************************************************************)
(* Conversions                                                             *)
(***************************************************************************)

\* A lot in normalized debt stands for the whole lot: the test that compares with a debt
\* taken for a normalized one may add too much, never too little.
LEMMA LotCovered ==
  ASSUME NEW x \in Nat, NEW r \in Nat \ {0}, RATE_PRECISION <= r
  PROVE  NormalizedLot(x, r) \in Nat /\ x * RATE_PRECISION <= NormalizedLot(x, r) * r
<1> DEFINE R == RATE_PRECISION
           a == x * R
           n == NormDown(x, r)
           m == NormalizedLot(x, r)
<1>1. R \in Nat \ {0} /\ R <= r
  BY UnitsAssumption
<1>2. a \in Nat
  BY <1>1
<1>3. n \in Nat /\ r * n <= a /\ a < r * n + r
  <2>1. n = a \div r
    BY DEF NormDown
  <2> HIDE DEF a, n
  <2> QED
    BY <1>2, <2>1, DivBounds, DivAbove
<1>4. m = IF _actualDebt(n, r) < _actualDebt(x, r) THEN n + 1 ELSE n
  BY DEF NormalizedLot
<1> HIDE DEF m, n
<1>5. CASE _actualDebt(n, r) < _actualDebt(x, r)
  <2>1. m = n + 1
    BY <1>4, <1>5
  <2>2. (n + 1) * r = r * n + r
    BY <1>3
  <2> HIDE DEF a
  <2>3. a <= m * r /\ m \in Nat
    BY <1>2, <1>3, <2>1, <2>2
  <2> QED
    BY <2>3 DEF a, m
<1>6. CASE ~(_actualDebt(n, r) < _actualDebt(x, r))
  <2>1. m = n
    BY <1>4, <1>6
  <2>2. x * r \in Nat /\ n * r \in Nat /\ n * r = r * n
    BY <1>3
  <2>3. a <= x * r
    <3>1. R * x <= r * x
      BY <1>1, ProductMonotone
    <3> QED
      BY <1>1, <3>1
  <2> DEFINE y == x * r
             z == n * r
             u == _actualDebt(x, r)
             v == _actualDebt(n, r)
  <2>4. u = y \div R /\ v = z \div R
    BY DEF _actualDebt
  <2>5. y \in Nat /\ z \in Nat /\ a <= y /\ z <= a /\ a < z + r
    BY <1>3, <2>2, <2>3
  <2> HIDE DEF y, z, a
  <2>6. u \in Nat /\ v \in Nat /\ y < R * u + R /\ R * v <= z /\ R * u <= y
    BY <1>1, <2>4, <2>5, DivBounds, DivAbove
  <2>7. u <= v
    BY <1>6, <2>6 DEF u, v
  <2> HIDE DEF u, v
  <2>8. R * u <= R * v
    <3>1. u * R <= v * R
      BY <1>1, <2>6, <2>7, ProductMonotone
    <3> QED
      BY <1>1, <2>6, <3>1
  <2>9. y < z + r
    <3> DEFINE ru == R * u
               rv == R * v
    <3>1. ru \in Nat /\ rv \in Nat /\ y < ru + R /\ rv <= z /\ ru <= rv
      BY <1>1, <2>6, <2>8
    <3> HIDE DEF ru, rv
    <3> QED
      BY <1>1, <2>5, <3>1
  <2>10. x <= n
    <3>1. r * x < r * (n + 1)
      BY <1>3, <2>2, <2>9 DEF y, z
    <3>2. ~(n + 1 <= x)
      <4>1. SUFFICES ASSUME n + 1 <= x
                     PROVE  FALSE
        OBVIOUS
      <4>2. (n + 1) * r <= x * r
        BY <1>3, <4>1, ProductMonotone
      <4>3. r * x = x * r /\ r * (n + 1) = (n + 1) * r
        BY <1>3
      <4> DEFINE xr == x * r
                 nr == (n + 1) * r
      <4>4. xr < nr /\ nr <= xr /\ xr \in Nat /\ nr \in Nat
        BY <1>3, <2>2, <3>1, <4>2, <4>3
      <4> HIDE DEF xr, nr
      <4> QED
        BY <4>4
    <3> QED
      BY <1>3, <3>2
  <2>11. y <= z
    BY <1>3, <2>10, ProductMonotone DEF y, z
  <2>12. a <= z
    BY <1>2, <2>5, <2>11
  <2> QED
    BY <1>3, <2>1, <2>12 DEF a, m, z
<1> QED
  BY <1>5, <1>6

\* A debt less a lot is less by the lot at least.
LEMMA DebtLess ==
  ASSUME NEW n \in Nat, NEW m \in Nat, NEW r \in Nat \ {0}, NEW x \in Nat,
         x * RATE_PRECISION <= m * r
  PROVE  _actualDebt(n, r) + x <= _actualDebt(n + m, r)
<1> DEFINE R == RATE_PRECISION
           a == n * r
           c == m * r
           d == (n + m) * r
           u == _actualDebt(n, r)
<1>1. R \in Nat \ {0} /\ a \in Nat /\ c \in Nat /\ d \in Nat /\ d = a + c
  BY UnitsAssumption
<1>2. u = a \div R /\ _actualDebt(n + m, r) = d \div R
  BY DEF _actualDebt
<1>3. x * R <= c
  OBVIOUS
<1> HIDE DEF R, a, c, d, u
<1>4. u \in Nat /\ R * u <= a
  BY <1>1, <1>2, DivBounds
<1>5. R * (u + x) = R * u + x * R /\ R * u \in Nat /\ x * R \in Nat
  BY <1>1, <1>4
<1>6. R * (u + x) <= d
  <2> DEFINE v == R * u
             w == x * R
             z == R * (u + x)
  <2>1. z = v + w /\ v \in Nat /\ w \in Nat /\ v <= a /\ w <= c
    BY <1>3, <1>4, <1>5
  <2> HIDE DEF v, w, z
  <2>2. z <= d
    BY <1>1, <2>1
  <2> QED
    BY <2>2 DEF z
<1>7. u + x <= d \div R
  BY <1>1, <1>4, <1>6, DivAtLeast
<1> QED
  BY <1>2, <1>7 DEF u

\* Before a shutdown the collateral of a lot is worth no more than its LUSD, the fee staying
\* in the trove, and the LUSD is no more than the trove owes.
LEMMA LotWorth ==
  ASSUME BranchInv, ~isShutdown, NEW t \in Troves, NEW s \in BOOLEAN, NEW left \in Nat,
         NEW p, Asked(p), _actualDebt(t.debt, rate[s]) >= LUSD_GAS_COMPENSATION,
         NEW lot, lot = LotOf(t, s, left, p)
  PROVE  /\ lot.LUSD \in Nat /\ lot.coll \in Nat /\ lot.LUSD <= _actualDebt(t.debt, rate[s])
         /\ lot.coll * p.price <= lot.LUSD * DECIMAL_PRECISION
<1> DEFINE D == DECIMAL_PRECISION
           have == _actualDebt(t.debt, rate[s])
           owed == have - LUSD_GAS_COMPENSATION
           want == MinOf(left, owed)
           gross == (want * D) \div p.price
           fee == (p.redemptionRate * gross) \div D
<1>1. lot = [LUSD |-> want, coll |-> gross - fee]
  BY Zenon DEF LotOf
<1>2. have \in Nat /\ owed \in Nat
  <2> DEFINE q == rate[s]
  <2>1. q \in Nat \ {0} /\ t.debt \in Nat /\ _actualDebt(t.debt, q) >= LUSD_GAS_COMPENSATION
    BY RatesPositive DEF BranchInv, Troves
  <2> HIDE DEF q
  <2>2. _actualDebt(t.debt, q) \in Nat
    BY <2>1, Conversions
  <2> QED
    BY <2>1, <2>2, UnitsAssumption DEF q
<1>3. LUSD_GAS_COMPENSATION \in Nat /\ D \in Nat \ {0} /\ p.price \in Nat \ {0}
      /\ p.redemptionRate \in Nat /\ p.redemptionRate <= D
  BY UnitsAssumption DEF Asked
<1> HIDE DEF have
<1>4. want \in Nat /\ want <= have
  <2>1. owed <= have
    BY <1>2, <1>3
  <2> HIDE DEF owed
  <2>2. want \in Nat /\ want <= owed
    BY <1>2, MinOfPair
  <2> QED
    BY <1>2, <2>1, <2>2
<1> HIDE DEF want, D
<1>5. gross \in Nat /\ p.price * gross <= want * D
  <2>1. want * D \in Nat
    BY <1>3, <1>4
  <2> QED
    BY <1>3, <2>1, DivBounds
<1> HIDE DEF gross
<1>6. fee \in 0..gross
  BY <1>3, <1>5, Fraction
<1> HIDE DEF fee
<1>7. gross - fee \in Nat /\ gross - fee <= gross
  BY <1>5, <1>6
<1> DEFINE y == gross - fee
<1>8. y * p.price <= gross * p.price /\ y * p.price \in Nat
  <2> HIDE DEF y
  <2> QED
    BY <1>3, <1>5, <1>7, ProductMonotone DEF y
<1>9. lot.LUSD = want /\ lot.coll = y
  BY <1>1
<1>10. gross * p.price = p.price * gross
  BY <1>3, <1>5
<1>11. y * p.price <= want * D
  <2> DEFINE u == y * p.price
             v == gross * p.price
             w == want * D
  <2>1. u \in Nat /\ u <= v /\ v <= w /\ v \in Nat /\ w \in Nat
    BY <1>3, <1>4, <1>5, <1>8, <1>10
  <2> HIDE DEF u, v, w
  <2>2. u <= w
    BY <2>1
  <2> QED
    BY <2>2 DEF u, w
<1> HIDE DEF y
<1> QED
  BY <1>4, <1>7, <1>9, <1>11 DEF D, y, have

-----------------------------------------------------------------------------
(***************************************************************************)
(* What a redemption leaves an owner                                       *)
(***************************************************************************)

Worth(coll, debt, r, price) == coll * price - _actualDebt(debt, r) * DECIMAL_PRECISION

\* A lot of x for y, m being x in normalized debt, leaves a trove worth what it was or more,
\* other being a debt it has besides.
LEMMA PartIsFair ==
  ASSUME NEW coll \in Nat, NEW y \in Nat, NEW debt \in Nat, NEW m \in Nat, NEW other \in Nat,
         NEW r \in Nat \ {0}, NEW x \in Nat, NEW price \in Nat,
         x * RATE_PRECISION <= m * r, y * price <= x * DECIMAL_PRECISION
  PROVE  Worth(coll, debt + other, r, price) >= Worth(coll + y, debt + m + other, r, price)
<1> DEFINE D == DECIMAL_PRECISION
           u == _actualDebt(debt + other, r)
           v == _actualDebt(debt + m + other, r)
<1>1. D \in Nat
  BY UnitsAssumption
<1>2. u \in Nat /\ v \in Nat /\ u + x <= v
  <2> DEFINE n == debt + other
  <2>1. n \in Nat /\ debt + m + other = n + m
    OBVIOUS
  <2> HIDE DEF n
  <2>2. _actualDebt(n, r) + x <= _actualDebt(n + m, r)
    BY <2>1, DebtLess
  <2> DEFINE k == n + m
  <2>4. k \in Nat
    BY <2>1
  <2> HIDE DEF k
  <2>3. _actualDebt(n, r) \in Nat /\ _actualDebt(k, r) \in Nat
    BY <2>1, <2>4, Conversions
  <2> QED
    BY <2>1, <2>2, <2>3 DEF n, k
<1> HIDE DEF u, v
<1>3. (u + x) * D <= v * D
  BY <1>1, <1>2, ProductMonotone
<1>4. (u + x) * D = u * D + x * D /\ (coll + y) * price = coll * price + y * price
  BY <1>1, <1>2
<1> DEFINE a == u * D
           c == x * D
           d == v * D
           e == coll * price
           f == y * price
<1>5. a \in Nat /\ c \in Nat /\ d \in Nat /\ e \in Nat /\ f \in Nat /\ a + c <= d /\ f <= c
  <2>1. a \in Nat /\ c \in Nat /\ d \in Nat /\ e \in Nat /\ f \in Nat
    BY <1>1, <1>2
  <2>2. a + c <= d /\ f <= c
    <3> DEFINE z == (u + x) * D
    <3>1. z = a + c /\ z <= d
      BY <1>3, <1>4
    <3> HIDE DEF z
    <3> QED
      BY <3>1
  <2> QED
    BY <2>1, <2>2
<1>6. /\ Worth(coll, debt + other, r, price) = e - a
      /\ Worth(coll + y, debt + m + other, r, price) = (e + f) - d
  BY <1>4 DEF Worth, u, v
<1> HIDE DEF a, c, d, e, f
<1> QED
  BY <1>5, <1>6

\* So does closing a trove, which leaves the rest of the collateral.
LEMMA RestIsFair ==
  ASSUME NEW coll \in Nat, NEW y \in Nat, NEW debt \in Nat, NEW other \in Nat,
         NEW r \in Nat \ {0}, NEW x \in Nat, NEW price \in Nat,
         x <= _actualDebt(debt, r), y * price <= x * DECIMAL_PRECISION
  PROVE  Worth(coll, 0, r, price) >= Worth(coll + y, debt + other, r, price)
<1> DEFINE D == DECIMAL_PRECISION
           u == _actualDebt(debt, r)
           v == _actualDebt(debt + other, r)
<1>1. D \in Nat
  BY UnitsAssumption
<1>2. u \in Nat /\ v \in Nat /\ u + 0 <= v /\ x <= u
  <2>1. 0 * RATE_PRECISION <= other * r
    BY UnitsAssumption
  <2>2. _actualDebt(debt, r) + 0 <= _actualDebt(debt + other, r)
    BY <2>1, DebtLess
  <2> DEFINE k == debt + other
  <2>3. k \in Nat
    OBVIOUS
  <2> HIDE DEF k
  <2>4. _actualDebt(debt, r) \in Nat /\ _actualDebt(k, r) \in Nat
    BY <2>3, Conversions
  <2> QED
    BY <2>2, <2>4 DEF k
<1>3. _actualDebt(0, r) = 0
  BY UnitsAssumption DEF _actualDebt
<1> HIDE DEF u, v
<1>4. x * D <= v * D
  <2>1. x <= v
    BY <1>2
  <2> QED
    BY <1>1, <1>2, <2>1, ProductMonotone
<1>5. (coll + y) * price = coll * price + y * price
  OBVIOUS
<1> DEFINE c == x * D
           d == v * D
           e == coll * price
           f == y * price
<1>6. c \in Nat /\ d \in Nat /\ e \in Nat /\ f \in Nat /\ c <= d /\ f <= c
  BY <1>1, <1>2, <1>4
<1>7. Worth(coll, 0, r, price) = e - 0 /\ Worth(coll + y, debt + other, r, price) = (e + f) - d
  BY <1>1, <1>3, <1>5 DEF Worth, v
<1> HIDE DEF c, d, e, f
<1> QED
  BY <1>6, <1>7

-----------------------------------------------------------------------------
(***************************************************************************)
(* One trove of the loop                                                   *)
(***************************************************************************)

\* What the loop takes from b and what it leaves there, once rewards are applied.
Lot(A, b, s, p) == LotOf(A.trove[b], s, A.left, p)

DebtLeft(A, b, s, p) == A.trove[b].debt - NormalizedLot(Lot(A, b, s, p).LUSD, rate[s])

CollLeft(A, b, s, p) == A.trove[b].coll - Lot(A, b, s, p).coll

Closes(A, b, s, p) == _actualDebt(DebtLeft(A, b, s, p), rate[s]) <= LUSD_GAS_COMPENSATION

\* From A to E a lot is taken from b, C being the loop before the lot is counted.
IsRedeemed(E, C, A, b, s, p, last) ==
  /\ A.ok /\ IsCounted(E, C, s, Lot(A, b, s, p).LUSD, Lot(A, b, s, p).coll, last)
  /\ _actualDebt(A.trove[b].debt, rate[s]) >= LUSD_GAS_COMPENSATION
  /\ DebtLeft(A, b, s, p) >= 0 /\ CollLeft(A, b, s, p) >= 0
  /\ \/ /\ Closes(A, b, s, p)
        /\ IsClosed(C, A, b, s, CollLeft(A, b, s, p), NormDown(LUSD_GAS_COMPENSATION, rate[s]))
     \/ IsPartly(C, A, b, DebtLeft(A, b, s, p), CollLeft(A, b, s, p),
                 _computeNewStake(CollLeft(A, b, s, p)))

\* A trove at which nothing reverts is left alone, its rewards applied, or redeemed.
LEMMA RedeemedCases ==
  ASSUME NEW A, DOMAIN A = LoopFields, NEW b, NEW s, NEW p, NEW last,
         NEW E, E = _redeemCollateralFromTrove(A, b, s, last, p), E.ok
  PROVE  \/ E = [A EXCEPT !.running = FALSE] /\ A.ok
         \/ \E C : IsRedeemed(E, C, A, b, s, p, last)
<1> DEFINE t == A.trove[b]
           lot == LotOf(t, s, A.left, p)
           x == lot.LUSD
           y == lot.coll
           newDebt == t.debt - NormalizedLot(x, rate[s])
           newColl == t.coll - y
           closes == _actualDebt(newDebt, rate[s]) <= LUSD_GAS_COMPENSATION
           C == IF closes THEN ClosedByRedemption(A, b, s, newColl)
                ELSE PartlyRedeemed(A, b, newDebt, newColl)
           D == Advanced(C, s, lot, last)
           k == /\ D.ok /\ _actualDebt(t.debt, rate[s]) >= LUSD_GAS_COMPENSATION
                /\ newDebt >= 0 /\ newColl >= 0
<1>1. E = IF ~closes /\ Cancelled(newDebt, s, p) THEN [A EXCEPT !.running = FALSE]
          ELSE [D EXCEPT !.ok = k]
  BY Zenon DEF _redeemCollateralFromTrove
<1>2. CASE ~closes /\ Cancelled(newDebt, s, p)
  <2>1. E = [A EXCEPT !.running = FALSE]
    BY <1>1, <1>2, Zenon
  <2>2. E.ok = A.ok
    BY <2>1 DEF LoopFields
  <2> QED
    BY <2>1, <2>2, Zenon
<1>3. CASE ~(~closes /\ Cancelled(newDebt, s, p))
  <2>1. E = [D EXCEPT !.ok = k]
    BY <1>1, <1>3, Zenon
  <2>2. closes => IsClosed(C, A, b, s, newColl, NormDown(LUSD_GAS_COMPENSATION, rate[s]))
    <3>1. SUFFICES ASSUME closes
                   PROVE  IsClosed(C, A, b, s, newColl, NormDown(LUSD_GAS_COMPENSATION, rate[s]))
      BY Zenon
    <3>2. C = ClosedByRedemption(A, b, s, newColl)
      BY <3>1, Zenon
    <3> HIDE DEF newColl, C
    <3> QED
      BY <3>2, ClosedShape
  <2>3. ~closes => IsPartly(C, A, b, newDebt, newColl, _computeNewStake(newColl))
    <3>1. SUFFICES ASSUME ~closes
                   PROVE  IsPartly(C, A, b, newDebt, newColl, _computeNewStake(newColl))
      BY Zenon
    <3>2. C = PartlyRedeemed(A, b, newDebt, newColl)
      BY <3>1, Zenon
    <3> HIDE DEF newColl, newDebt, C
    <3> QED
      BY <3>2, PartlyShape
  <2>4. DOMAIN C = LoopFields
    BY <2>2, <2>3, Zenon DEF IsClosed, IsPartly
  <2>5. IsCounted(E, C, s, x, y, last) /\ E.ok = k /\ D.ok = C.ok
    <3> HIDE DEF C, lot, k
    <3>1. IsCounted(D, C, s, x, y, last) /\ D.ok = C.ok
      BY <2>4, CountedShape
    <3> HIDE DEF D, x, y
    <3>2. DOMAIN D = LoopFields
      BY <3>1, Zenon DEF IsCounted
    <3>3. E.ok = k
      BY <2>1, <3>2 DEF LoopFields
    <3>4. /\ DOMAIN E = LoopFields /\ E.left = D.left /\ E.LUSDToRedeem = D.LUSDToRedeem
          /\ E.collDrawn = D.collDrawn /\ E.cursor = D.cursor /\ E.running = D.running
          /\ E.status = D.status /\ E.shielded = D.shielded
      BY <2>1, <3>2 DEF LoopFields
    <3>5. /\ E.trove = D.trove /\ E.snap = D.snap /\ E.rw = D.rw /\ E.active = D.active
          /\ E.default = D.default /\ E.surplus = D.surplus /\ E.closed = D.closed
      BY <2>1, <3>2 DEF LoopFields
    <3> QED
      BY <3>1, <3>3, <3>4, <3>5, ZenonT(30) DEF IsCounted
  <2>6. k
    <3> HIDE DEF k
    <3> QED
      BY <2>5, Zenon
  <2>7. C.ok /\ _actualDebt(t.debt, rate[s]) >= LUSD_GAS_COMPENSATION /\ newDebt >= 0 /\ newColl >= 0
    BY <2>5, <2>6, Zenon
  <2>8. A.ok
    <3> HIDE DEF newColl, newDebt
    <3>1. CASE closes
      BY <2>7, <3>1, ClosedCovered
    <3>2. CASE ~closes
      BY <2>7, <3>2, PartlyCovered
    <3> QED
      BY <3>1, <3>2, Zenon
  <2>9. IsRedeemed(E, C, A, b, s, p, last)
    <3> HIDE DEF C
    <3> QED
      BY <2>2, <2>3, <2>5, <2>7, <2>8, ZenonT(30) DEF IsRedeemed, Lot, DebtLeft, CollLeft, Closes
  <2> QED
    BY <2>9, Zenon
<1> QED
  BY <1>2, <1>3, Zenon

\* The trove of b before the loop applies anything.
Starting(L, b) == b \in Borrowers /\ status[b] = "active" /\ Fresh(L, b)

\* A pending debt that applying rewards leaves pending: only collateral sums are compared.
Unapplied(A, b) == IF A.snap[b] = snap[b] THEN getPendingLUSDDebtReward(b) ELSE 0

\* Where no rewards are found pending, no collateral is.
LEMMA NothingPending ==
  ASSUME BranchInv, NEW b \in Borrowers, status[b] = "active", ~hasPendingRewards(b)
  PROVE  getPendingCollateralReward(b) = 0
<1>1. /\ snap[b].collateral <= rw.L_Coll /\ snap[b].collateral \in Nat /\ rw.L_Coll \in Nat
      /\ trove[b].stake \in Nat
  BY DEF BranchInv, AccountsOK, Snaps, RewardSums, Troves
<1>2. rw.L_Coll - snap[b].collateral = 0
  BY <1>1 DEF hasPendingRewards
<1>3. trove[b].stake * 0 = 0 /\ 0 \div DECIMAL_PRECISION = 0
  BY <1>1, UnitsAssumption
<1> QED
  BY <1>2, <1>3 DEF getPendingCollateralReward

\* The trove of b with its rewards.
LEMMA WithRewards ==
  ASSUME BranchInv, NEW L, NEW b, NEW s, NEW A, CanApply(A, L, b, s), Starting(L, b)
  PROVE  /\ A.trove[b].coll = trove[b].coll + getPendingCollateralReward(b)
         /\ A.trove[b].debt + Unapplied(A, b) = trove[b].debt + getPendingLUSDDebtReward(b)
         /\ A.snap[b] = snap[b] => getPendingCollateralReward(b) = 0
         /\ Unapplied(A, b) \in Nat
<1> USE DEF CanApply
<1> DEFINE a == _applyPendingRewards(b, s, rate, trove[b], L.active, L.default)
           coll == getPendingCollateralReward(b)
           debt == getPendingLUSDDebtReward(b)
<1>1. A.trove = [L.trove EXCEPT ![b] = a.trove] /\ A.snap = [L.snap EXCEPT ![b] = a.snap]
  <2>1. a = _applyPendingRewards(b, s, rate, trove[b], L.active, L.default)
    OBVIOUS
  <2> HIDE DEF a, coll, debt
  <2>2. /\ DOMAIN A = LoopFields /\ SameRest(A, L)
        /\ A.trove = [L.trove EXCEPT ![b] = a.trove] /\ A.snap = [L.snap EXCEPT ![b] = a.snap]
        /\ A.active = a.pools /\ A.default = a.default
    BY <2>1, AppliedShape
  <2> QED
    BY <2>2, Zenon
<1>2. L.trove \in [Borrowers -> Troves] /\ L.snap \in [Borrowers -> Snaps]
  BY DEF LoopBooks, AccountsOK
<1>3. A.trove[b] = a.trove /\ A.snap[b] = a.snap
  <2> HIDE DEF a
  <2> QED
    BY <1>1, <1>2
<1>4. coll \in Nat /\ debt \in Nat /\ status[b] = "active"
  BY PendingTyped DEF Starting
<1>5. trove[b].coll \in Nat /\ trove[b].debt \in Nat
  BY DEF BranchInv, AccountsOK, Troves
<1>6. CASE ~hasPendingRewards(b)
  <2>1. a.trove = trove[b] /\ a.snap = snap[b]
    BY <1>6 DEF _applyPendingRewards
  <2>2. coll = 0
    BY <1>4, <1>6, NothingPending
  <2>3. Unapplied(A, b) = debt
    BY <1>3, <2>1, Zenon DEF Unapplied
  <2> HIDE DEF a, coll, debt
  <2> QED
    BY <1>3, <1>4, <1>5, <2>1, <2>2, <2>3 DEF coll, debt
<1>7. CASE hasPendingRewards(b)
  <2>1. /\ a.trove.debt = trove[b].debt + debt /\ a.trove.coll = trove[b].coll + coll
        /\ a.snap = Current
    <3> DEFINE tr == [debt |-> trove[b].debt + debt, coll |-> trove[b].coll + coll,
                      stake |-> trove[b].stake]
               pl == AddToPool(L.active, s, NormDown(debt, rate[s]), coll)
               df == [debt |-> L.default.debt - debt, coll |-> L.default.coll - coll]
    <3>1. a = [trove |-> tr, snap |-> Current, pools |-> pl, default |-> df]
      BY <1>7, Zenon DEF _applyPendingRewards
    <3> HIDE DEF coll, debt, pl, df
    <3> QED
      BY <3>1
  <2>2. Current # snap[b]
    <3>1. snap[b].collateral < rw.L_Coll /\ snap[b].collateral \in Nat /\ rw.L_Coll \in Nat
      BY <1>7 DEF hasPendingRewards, BranchInv, AccountsOK, Snaps, RewardSums
    <3>2. Current.collateral = rw.L_Coll
      BY DEF Current
    <3> QED
      BY <3>1, <3>2
  <2>3. A.snap[b] # snap[b] /\ Unapplied(A, b) = 0
    BY <1>3, <2>1, <2>2, Zenon DEF Unapplied
  <2> HIDE DEF a, coll, debt
  <2> QED
    BY <1>3, <1>4, <1>5, <2>1, <2>3 DEF coll, debt
<1> QED
  BY <1>6, <1>7

-----------------------------------------------------------------------------
(***************************************************************************)
(* The loop is fair to every owner                                         *)
(***************************************************************************)

\* What c holds after the loop, in its trove and to claim, is worth what it was or more.
FairTo(L, c, price) ==
  Worth(After(L, c).coll + L.surplus.balances[c] - surplus.balances[c], After(L, c).debt,
        rate[shielded[c]], price)
    >= Worth(trove[c].coll + getPendingCollateralReward(c),
             trove[c].debt + getPendingLUSDDebtReward(c), rate[shielded[c]], price)

\* An integer less nothing.
LEMMA LessNothing ==
  ASSUME NEW x \in Int, NEW y \in Int
  PROVE  x + y - y = x
OBVIOUS

\* A worth is an integer.
LEMMA WorthTyped ==
  ASSUME NEW coll \in Int, NEW debt \in Nat, NEW r \in Nat \ {0}, NEW price \in Nat
  PROVE  Worth(coll, debt, r, price) \in Int
<1>1. _actualDebt(debt, r) \in Nat
  BY Conversions
<1> QED
  BY <1>1, UnitsAssumption DEF Worth

\* An owner the loop has not reached has lost nothing.
LEMMA FreshIsFair ==
  ASSUME BranchInv, NEW L, NEW c \in Active, Fresh(L, c), NEW price \in Nat
  PROVE  FairTo(L, c, price)
<1> DEFINE coll == trove[c].coll + getPendingCollateralReward(c)
           debt == trove[c].debt + getPendingLUSDDebtReward(c)
<1>1. c \in Borrowers /\ status[c] = "active"
  BY DEF Active
<1>2. After(L, c) = [coll |-> coll, debt |-> debt]
  BY <1>1, Zenon DEF After, Fresh
<1>3. coll \in Nat /\ debt \in Nat
  <2>1. trove[c].coll \in Nat /\ trove[c].debt \in Nat
    BY <1>1 DEF BranchInv, AccountsOK, Troves
  <2>2. getPendingCollateralReward(c) \in Nat /\ getPendingLUSDDebtReward(c) \in Nat
    BY <1>1, PendingTyped
  <2> QED
    BY <2>1, <2>2
<1>4. surplus.balances[c] \in Int /\ L.surplus.balances[c] = surplus.balances[c]
  BY <1>1 DEF BranchInv, AccountsOK, Fresh
<1> HIDE DEF coll, debt
<1>5. After(L, c).coll = coll /\ After(L, c).debt = debt
  BY <1>2
<1>6. After(L, c).coll + L.surplus.balances[c] - surplus.balances[c] = coll
  BY <1>3, <1>4, <1>5
<1>7. Worth(coll, debt, rate[shielded[c]], price) \in Int
  <2> DEFINE q == rate[shielded[c]]
  <2>1. q \in Nat \ {0}
    <3>1. shielded[c] \in BOOLEAN
      BY <1>1, Zenon DEF BranchInv, OwnersOK
    <3> QED
      BY <3>1, RatesPositive DEF BranchInv
  <2> HIDE DEF q
  <2>2. Worth(coll, debt, q, price) \in Int
    BY <1>3, <2>1, WorthTyped
  <2> QED
    BY <2>2 DEF q
<1> DEFINE w == Worth(coll, debt, rate[shielded[c]], price)
<1>8. w >= w
  <2> HIDE DEF w
  <2> QED
    BY <1>7 DEF w
<1> QED
  BY <1>5, <1>6, <1>8, Zenon DEF FairTo, coll, debt

\* An owner to whom nothing happens loses nothing more.
LEMMA SameIsFair ==
  ASSUME NEW E, NEW L, NEW c, NEW price, SameOwner(E, L, c), FairTo(L, c, price)
  PROVE  FairTo(E, c, price)
<1>1. After(E, c) = After(L, c)
  BY Zenon DEF After, SameOwner
<1> QED
  BY <1>1, Zenon DEF FairTo, SameOwner

\* The trove of b where its rewards are applied and it is active still.
LEMMA AfterPart ==
  ASSUME BranchInv, NEW L, NEW b, NEW s, NEW A, CanApply(A, L, b, s), Starting(L, b),
         NEW E, E.status[b] = "active", E.snap[b] = A.snap[b],
         E.trove[b].coll \in Nat, E.trove[b].debt \in Nat
  PROVE  After(E, b).coll = E.trove[b].coll /\ After(E, b).debt = E.trove[b].debt + Unapplied(A, b)
<1> DEFINE coll == getPendingCollateralReward(b)
           debt == getPendingLUSDDebtReward(b)
           t == E.trove[b]
<1>1. status[b] = "active" /\ t.coll \in Nat /\ t.debt \in Nat
  BY DEF Starting
<1>2. CASE A.snap[b] = snap[b]
  <2>1. coll = 0 /\ Unapplied(A, b) = debt
    BY <1>2, WithRewards DEF Unapplied
  <2>2. After(E, b) = [coll |-> t.coll + coll, debt |-> t.debt + debt]
    BY <1>1, <1>2, Zenon DEF After
  <2> HIDE DEF coll, debt, t
  <2> QED
    BY <1>1, <2>1, <2>2 DEF t
<1>3. CASE A.snap[b] # snap[b]
  <2>1. Unapplied(A, b) = 0
    BY <1>3, Zenon DEF Unapplied
  <2>2. After(E, b) = [coll |-> t.coll + 0, debt |-> t.debt + 0]
    BY <1>1, <1>3, Zenon DEF After
  <2> HIDE DEF t
  <2> QED
    BY <1>1, <2>1, <2>2 DEF t
<1> QED
  BY <1>2, <1>3

\* A trove that the loop has closed.
LEMMA AfterClose ==
  ASSUME NEW E, NEW b, E.status[b] # "active", E.trove[b] = NoTrove
  PROVE  After(E, b).coll = 0 /\ After(E, b).debt = 0
<1>1. After(E, b) = [coll |-> E.trove[b].coll + 0, debt |-> E.trove[b].debt + 0]
  BY Zenon DEF After
<1> QED
  BY <1>1 DEF NoTrove

\* FairTo in terms of a trove that is active still: x is in it, nothing went to the surplus pool.
LEMMA FairPart ==
  ASSUME BranchInv, NEW L, NEW b, NEW s, NEW A, CanApply(A, L, b, s), Starting(L, b),
         shielded[b] = s,
         NEW E, E.status[b] = "active", E.snap[b] = A.snap[b],
         E.trove[b].coll \in Nat, E.trove[b].debt \in Nat,
         E.surplus.balances[b] = surplus.balances[b], NEW price \in Nat,
         Worth(E.trove[b].coll, E.trove[b].debt + Unapplied(A, b), rate[s], price)
           >= Worth(A.trove[b].coll, A.trove[b].debt + Unapplied(A, b), rate[s], price)
  PROVE  FairTo(E, b, price)
<1>1. /\ A.trove[b].coll = trove[b].coll + getPendingCollateralReward(b)
      /\ A.trove[b].debt + Unapplied(A, b) = trove[b].debt + getPendingLUSDDebtReward(b)
  BY WithRewards
<1>2. After(E, b).coll = E.trove[b].coll /\ After(E, b).debt = E.trove[b].debt + Unapplied(A, b)
  BY AfterPart
<1>3. After(E, b).coll + E.surplus.balances[b] - surplus.balances[b] = E.trove[b].coll
  <2>1. surplus.balances[b] \in Int
    BY DEF BranchInv, AccountsOK, CanApply
  <2> QED
    BY <1>2, <2>1
<1> QED
  BY <1>1, <1>2, <1>3, Zenon DEF FairTo

\* And of a trove that is closed, coll of it having gone to the surplus pool.
LEMMA FairClose ==
  ASSUME BranchInv, NEW L, NEW b, NEW s, NEW A, CanApply(A, L, b, s), Starting(L, b),
         shielded[b] = s, NEW coll \in Nat,
         NEW E, E.status[b] # "active", E.trove[b] = NoTrove,
         E.surplus.balances[b] = surplus.balances[b] + coll, NEW price \in Nat,
         Worth(coll, 0, rate[s], price)
           >= Worth(A.trove[b].coll, A.trove[b].debt + Unapplied(A, b), rate[s], price)
  PROVE  FairTo(E, b, price)
<1>1. /\ A.trove[b].coll = trove[b].coll + getPendingCollateralReward(b)
      /\ A.trove[b].debt + Unapplied(A, b) = trove[b].debt + getPendingLUSDDebtReward(b)
  BY WithRewards
<1>2. After(E, b).coll = 0 /\ After(E, b).debt = 0
  BY AfterClose
<1>3. After(E, b).coll + E.surplus.balances[b] - surplus.balances[b] = coll
  <2>1. surplus.balances[b] \in Int
    BY DEF BranchInv, AccountsOK, CanApply
  <2> QED
    BY <1>2, <2>1
<1> QED
  BY <1>1, <1>2, <1>3, Zenon DEF FairTo

\* What the loop leaves of a trove is an amount, and the lot is what is missing.
LEMMA LotFacts ==
  ASSUME BranchInv, ~isShutdown, NEW p, Asked(p), NEW A, NEW b, NEW s \in BOOLEAN,
         A.trove[b] \in Troves, A.left \in Nat,
         NEW E, NEW C, NEW last, IsRedeemed(E, C, A, b, s, p, last),
         NEW x, x = Lot(A, b, s, p).LUSD, NEW y, y = Lot(A, b, s, p).coll,
         NEW m, m = NormalizedLot(x, rate[s]),
         NEW debt, debt = DebtLeft(A, b, s, p), NEW coll, coll = CollLeft(A, b, s, p)
  PROVE  /\ x \in Nat /\ y \in Nat /\ m \in Nat /\ debt \in Nat /\ coll \in Nat
         /\ A.trove[b].debt = debt + m /\ A.trove[b].coll = coll + y
         /\ x * RATE_PRECISION <= m * rate[s] /\ y * p.price <= x * DECIMAL_PRECISION
         /\ x <= _actualDebt(A.trove[b].debt, rate[s])
<1> DEFINE t == A.trove[b]
           left == A.left
           q == rate[s]
           lot == LotOf(t, s, left, p)
<1>1. /\ t \in Troves /\ left \in Nat /\ _actualDebt(t.debt, rate[s]) >= LUSD_GAS_COMPENSATION
      /\ debt >= 0 /\ coll >= 0
  BY Zenon DEF IsRedeemed
<1>2. lot = LotOf(t, s, left, p)
  OBVIOUS
<1>3. x = lot.LUSD /\ y = lot.coll /\ debt = t.debt - m /\ coll = t.coll - y
  BY Zenon DEF Lot, DebtLeft, CollLeft
<1>4. q \in Nat \ {0} /\ RATE_PRECISION <= q
  BY RatesPositive, UnitsAssumption DEF BranchInv
<1> HIDE DEF t, left, lot
<1>5. /\ lot.LUSD \in Nat /\ lot.coll \in Nat /\ lot.LUSD <= _actualDebt(t.debt, rate[s])
      /\ lot.coll * p.price <= lot.LUSD * DECIMAL_PRECISION
  BY <1>1, <1>2, LotWorth
<1>6. m \in Nat /\ x * RATE_PRECISION <= m * q
  <2>1. m = NormalizedLot(x, q) /\ x \in Nat
    BY <1>3, <1>5
  <2> HIDE DEF q
  <2> QED
    BY <1>4, <2>1, LotCovered
<1>7. t.debt \in Nat /\ t.coll \in Nat
  BY <1>1 DEF Troves
<1>8. y \in Nat /\ x \in Nat
  BY <1>3, <1>5
<1>9. debt \in Nat /\ t.debt = debt + m
  <2> DEFINE v == t.debt
  <2>1. v \in Nat /\ debt = v - m /\ debt >= 0
    BY <1>1, <1>3, <1>7
  <2> HIDE DEF v
  <2>2. debt \in Nat /\ v = debt + m
    BY <1>6, <2>1
  <2> QED
    BY <2>2 DEF v
<1>10. coll \in Nat /\ t.coll = coll + y
  <2> DEFINE v == t.coll
  <2>1. v \in Nat /\ coll = v - y /\ coll >= 0
    BY <1>1, <1>3, <1>7
  <2> HIDE DEF v
  <2>2. coll \in Nat /\ v = coll + y
    BY <1>8, <2>1
  <2> QED
    BY <2>2 DEF v
<1>11. y * p.price <= x * DECIMAL_PRECISION /\ x <= _actualDebt(t.debt, rate[s])
  BY <1>3, <1>5
<1> QED
  BY <1>6, <1>8, <1>9, <1>10, <1>11, Zenon DEF t, q

\* The loop is at the trove of b, of list s, and has not changed it: A has its rewards applied.
AtFresh(A, L, b, s) ==
  /\ CanApply(A, L, b, s) /\ Starting(L, b) /\ shielded[b] = s /\ A.ok
  /\ L.left \in Nat

\* What is known of the loop then.
LEMMA AtFreshFacts ==
  ASSUME BranchInv, NEW L, NEW b, NEW s, NEW A, AtFresh(A, L, b, s)
  PROVE  /\ b \in Borrowers /\ s \in BOOLEAN /\ DOMAIN A = LoopFields /\ SameRest(A, L)
         /\ LoopBooks(A) /\ A.trove[b] \in Troves /\ A.left \in Nat /\ A.status[b] = "active"
         /\ A.surplus.balances[b] = surplus.balances[b]
         /\ Unapplied(A, b) \in Nat
         /\ \A c \in Borrowers \ {b} : SameOwner(A, L, c)
<1>1. /\ CanApply(A, L, b, s) /\ Starting(L, b) /\ A.ok /\ L.left \in Nat
  BY Zenon DEF AtFresh
<1>2. /\ DOMAIN L = LoopFields /\ b \in Borrowers /\ s \in BOOLEAN /\ A = Applied(L, b, s)
  BY <1>1, Zenon DEF CanApply
<1>3. DOMAIN A = LoopFields /\ SameRest(A, L)
  BY <1>2, AppliedShape
<1>4. OnceApplied(A, L, b)
  BY <1>1, AppliedLoop
<1>5. Unapplied(A, b) \in Nat
  BY <1>1, WithRewards
<1>6. A.left \in Nat /\ A.status[b] = "active" /\ A.surplus.balances[b] = surplus.balances[b]
  BY <1>1, <1>3, Zenon DEF SameRest, Starting, Fresh
<1> QED
  BY <1>2, <1>3, <1>4, <1>5, <1>6, Zenon DEF OnceApplied

\* A trove that the loop leaves alone, its rewards applied, is worth what it was.
LEMMA CancelledIsFair ==
  ASSUME BranchInv, NEW L, NEW b, NEW s, NEW A, AtFresh(A, L, b, s), NEW price \in Nat,
         NEW E, SameOwner(E, A, b)
  PROVE  FairTo(E, b, price)
<1>1. /\ b \in Borrowers /\ s \in BOOLEAN /\ A.trove[b] \in Troves /\ A.status[b] = "active"
      /\ A.surplus.balances[b] = surplus.balances[b] /\ Unapplied(A, b) \in Nat
  BY AtFreshFacts
<1>2. CanApply(A, L, b, s) /\ Starting(L, b) /\ shielded[b] = s
  BY Zenon DEF AtFresh
<1>3. /\ E.status[b] = "active" /\ E.snap[b] = A.snap[b] /\ E.trove[b] = A.trove[b]
      /\ E.surplus.balances[b] = surplus.balances[b]
  BY <1>1, Zenon DEF SameOwner
<1>6. E.trove[b].coll \in Nat /\ E.trove[b].debt \in Nat
  BY <1>1, <1>3 DEF Troves
<1> DEFINE w == Worth(A.trove[b].coll, A.trove[b].debt + Unapplied(A, b), rate[s], price)
<1>4. w >= w
  <2> DEFINE q == rate[s]
             coll == A.trove[b].coll
             debt == A.trove[b].debt + Unapplied(A, b)
  <2>1. q \in Nat \ {0} /\ coll \in Int /\ debt \in Nat
    BY <1>1, RatesPositive DEF BranchInv, Troves
  <2>2. w = Worth(coll, debt, q, price)
    OBVIOUS
  <2> HIDE DEF q, coll, debt, w
  <2>3. w \in Int
    BY <2>1, <2>2, WorthTyped
  <2> QED
    BY <2>3
<1>5. Worth(E.trove[b].coll, E.trove[b].debt + Unapplied(A, b), rate[s], price)
        >= Worth(A.trove[b].coll, A.trove[b].debt + Unapplied(A, b), rate[s], price)
  BY <1>3, <1>4, Zenon
<1> QED
  BY <1>1, <1>2, <1>3, <1>5, <1>6, FairPart

\* A trove that the loop redeems, in part or as a whole, leaves its owner what it was worth.
LEMMA RedeemedIsFair ==
  ASSUME BranchInv, ~isShutdown, NEW p, Asked(p),
         NEW L, NEW b, NEW s, NEW A, AtFresh(A, L, b, s),
         NEW E, NEW C, NEW last, IsRedeemed(E, C, A, b, s, p, last)
  PROVE  FairTo(E, b, p.price)
<1> DEFINE x == Lot(A, b, s, p).LUSD
           y == Lot(A, b, s, p).coll
           q == rate[s]
           m == NormalizedLot(x, rate[s])
           debt == DebtLeft(A, b, s, p)
           coll == CollLeft(A, b, s, p)
           other == Unapplied(A, b)
           price == p.price
           t == A.trove[b]
<1>1. /\ b \in Borrowers /\ s \in BOOLEAN /\ LoopBooks(A) /\ t \in Troves /\ A.left \in Nat
      /\ A.status[b] = "active" /\ A.surplus.balances[b] = surplus.balances[b] /\ other \in Nat
  BY AtFreshFacts
<1>2. CanApply(A, L, b, s) /\ Starting(L, b) /\ shielded[b] = s
  BY Zenon DEF AtFresh
<1>3. /\ x \in Nat /\ y \in Nat /\ m \in Nat /\ debt \in Nat /\ coll \in Nat
      /\ t.debt = debt + m /\ t.coll = coll + y
      /\ x * RATE_PRECISION <= m * q /\ y * price <= x * DECIMAL_PRECISION
      /\ x <= _actualDebt(t.debt, q)
  <2>1. /\ x = Lot(A, b, s, p).LUSD /\ y = Lot(A, b, s, p).coll /\ m = NormalizedLot(x, rate[s])
        /\ debt = DebtLeft(A, b, s, p) /\ coll = CollLeft(A, b, s, p)
    OBVIOUS
  <2> HIDE DEF x, y, m, debt, coll
  <2> QED
    BY <1>1, <2>1, LotFacts
<1>4. q \in Nat \ {0} /\ price \in Nat
  BY <1>1, RatesPositive DEF BranchInv, Asked
<1>5. /\ IsCounted(E, C, s, x, y, last)
      /\ \/ IsClosed(C, A, b, s, coll, NormDown(LUSD_GAS_COMPENSATION, rate[s]))
         \/ IsPartly(C, A, b, debt, coll, _computeNewStake(coll))
  BY Zenon DEF IsRedeemed
<1>6. E.status = C.status /\ E.trove = C.trove /\ E.snap = C.snap /\ E.surplus = C.surplus
  BY <1>5, Zenon DEF IsCounted
<1>7. /\ A.trove \in [Borrowers -> Troves] /\ A.snap \in [Borrowers -> Snaps]
      /\ A.status \in [Borrowers -> Statuses] /\ A.surplus.balances \in [Borrowers -> Nat]
  BY <1>1 DEF LoopBooks, AccountsOK, OwnersOK
<1> HIDE DEF x, y, m, debt, coll, other, price
<1>8. CASE IsClosed(C, A, b, s, coll, NormDown(LUSD_GAS_COMPENSATION, rate[s]))
  <2>1. /\ E.status = [A.status EXCEPT ![b] = "closedByRedemption"]
        /\ E.trove = [A.trove EXCEPT ![b] = NoTrove]
        /\ E.surplus = [coll |-> A.surplus.coll + coll,
                        balances |-> [A.surplus.balances EXCEPT ![b] = @ + coll]]
    BY <1>6, <1>8, Zenon DEF IsClosed
  <2>2. E.status[b] # "active" /\ E.trove[b] = NoTrove
    BY <1>1, <1>7, <2>1
  <2>3. E.surplus.balances[b] = surplus.balances[b] + coll
    BY <1>1, <1>7, <2>1
  <2>4. Worth(coll, 0, q, price) >= Worth(coll + y, t.debt + other, q, price)
    <3>1. t.debt \in Nat
      BY <1>1 DEF Troves
    <3> DEFINE d == t.debt
    <3>2. d \in Nat /\ x <= _actualDebt(d, q)
      BY <1>3, <3>1
    <3> HIDE DEF d, t, q
    <3>3. Worth(coll, 0, q, price) >= Worth(coll + y, d + other, q, price)
      BY <1>1, <1>3, <1>4, <3>2, RestIsFair
    <3> QED
      BY <3>3 DEF d
  <2>5. Worth(coll, 0, rate[s], price)
          >= Worth(A.trove[b].coll, A.trove[b].debt + Unapplied(A, b), rate[s], price)
    BY <1>3, <2>4 DEF other
  <2>6. FairTo(E, b, price)
    BY <1>2, <1>3, <1>4, <2>2, <2>3, <2>5, FairClose
  <2> QED
    BY <2>6 DEF price
<1>9. CASE IsPartly(C, A, b, debt, coll, _computeNewStake(coll))
  <2> DEFINE stake == _computeNewStake(coll)
  <2>1. /\ E.status = A.status /\ E.snap = A.snap /\ E.surplus = A.surplus
        /\ E.trove = [A.trove EXCEPT ![b] = [debt |-> debt, coll |-> coll, stake |-> stake]]
    BY <1>6, <1>9, Zenon DEF IsPartly
  <2> HIDE DEF stake
  <2>2. E.trove[b] = [debt |-> debt, coll |-> coll, stake |-> stake]
    BY <1>1, <1>7, <2>1
  <2>3. E.trove[b].debt = debt /\ E.trove[b].coll = coll
    BY <2>2
  <2>4. /\ E.status[b] = "active" /\ E.snap[b] = A.snap[b]
        /\ E.surplus.balances[b] = surplus.balances[b]
    BY <1>1, <2>1, Zenon
  <2>5. Worth(coll, debt + other, q, price) >= Worth(coll + y, debt + m + other, q, price)
    <3> HIDE DEF q
    <3> QED
      BY <1>1, <1>3, <1>4, PartIsFair
  <2>6. Worth(E.trove[b].coll, E.trove[b].debt + Unapplied(A, b), rate[s], price)
          >= Worth(A.trove[b].coll, A.trove[b].debt + Unapplied(A, b), rate[s], price)
    BY <1>3, <2>3, <2>5 DEF other
  <2>7. FairTo(E, b, price)
    BY <1>2, <1>3, <1>4, <2>3, <2>4, <2>6, FairPart
  <2> QED
    BY <2>7 DEF price
<1> QED
  BY <1>5, <1>8, <1>9, Zenon

\* Nothing happens to an owner whose trove the loop is not at.
LEMMA OthersSame ==
  ASSUME BranchInv, NEW L, NEW b, NEW s, NEW A, AtFresh(A, L, b, s), NEW p,
         NEW E, NEW C, NEW last, IsRedeemed(E, C, A, b, s, p, last)
  PROVE  \A c \in Borrowers \ {b} : SameOwner(E, L, c)
<1> DEFINE coll == CollLeft(A, b, s, p)
           debt == DebtLeft(A, b, s, p)
           stake == _computeNewStake(coll)
<1>1. b \in Borrowers /\ LoopBooks(A) /\ \A c \in Borrowers \ {b} : SameOwner(A, L, c)
  BY AtFreshFacts
<1>2. /\ A.trove \in [Borrowers -> Troves] /\ A.snap \in [Borrowers -> Snaps]
      /\ A.status \in [Borrowers -> Statuses] /\ A.surplus.balances \in [Borrowers -> Nat]
  BY <1>1 DEF LoopBooks, AccountsOK, OwnersOK
<1>3. /\ IsCounted(E, C, s, Lot(A, b, s, p).LUSD, Lot(A, b, s, p).coll, last)
      /\ \/ IsClosed(C, A, b, s, coll, NormDown(LUSD_GAS_COMPENSATION, rate[s]))
         \/ IsPartly(C, A, b, debt, coll, stake)
  BY Zenon DEF IsRedeemed
<1>4. E.status = C.status /\ E.trove = C.trove /\ E.snap = C.snap /\ E.surplus = C.surplus
  BY <1>3, Zenon DEF IsCounted
<1> HIDE DEF coll, debt, stake
<1>5. ASSUME NEW c \in Borrowers \ {b}
      PROVE  SameOwner(E, A, c)
  <2>1. CASE IsClosed(C, A, b, s, coll, NormDown(LUSD_GAS_COMPENSATION, rate[s]))
    <3>1. /\ E.status = [A.status EXCEPT ![b] = "closedByRedemption"]
          /\ E.trove = [A.trove EXCEPT ![b] = NoTrove] /\ E.snap = [A.snap EXCEPT ![b] = NoSnap]
          /\ E.surplus = [coll |-> A.surplus.coll + coll,
                          balances |-> [A.surplus.balances EXCEPT ![b] = @ + coll]]
      BY <1>4, <2>1, Zenon DEF IsClosed
    <3>2. E.status[c] = A.status[c] /\ E.trove[c] = A.trove[c] /\ E.snap[c] = A.snap[c]
      BY <1>2, <3>1
    <3>3. E.surplus.balances[c] = A.surplus.balances[c]
      BY <1>2, <3>1
    <3> QED
      BY <3>2, <3>3, Zenon DEF SameOwner
  <2>2. CASE IsPartly(C, A, b, debt, coll, stake)
    <3>1. /\ E.status = A.status /\ E.snap = A.snap /\ E.surplus = A.surplus
          /\ E.trove = [A.trove EXCEPT ![b] = [debt |-> debt, coll |-> coll, stake |-> stake]]
      BY <1>4, <2>2, Zenon DEF IsPartly
    <3>2. E.trove[c] = A.trove[c]
      BY <1>2, <3>1
    <3> QED
      BY <3>1, <3>2, Zenon DEF SameOwner
  <2> QED
    BY <1>3, <2>1, <2>2, Zenon
<1> QED
  BY <1>1, <1>5, Zenon DEF SameOwner

\* A running loop is at a trove that it has not changed.
LEMMA AtCursor ==
  ASSUME BranchInv, NEW order \in Orders, NEW p, NEW L, DOMAIN L = LoopFields,
         LoopOK(L, order, p), L.running, NEW s \in BOOLEAN, L.cursor[s] # 0,
         NEW b, b = order[s][L.cursor[s]], NEW A, A = Applied(L, b, s), A.ok
  PROVE  AtFresh(A, L, b, s)
<1>1. LoopBooks(L) /\ L.left \in Nat /\ L.cursor \in [BOOLEAN -> Nat] /\ Untouched(L, order)
  BY Zenon DEF LoopOK, LoopTyped
<1>2. L.cursor[s] \in DOMAIN order[s] /\ L.cursor[s] >= L.cursor[s]
  BY <1>1 DEF Untouched
<1>3. Fresh(L, b)
  BY <1>1, <1>2 DEF Untouched
<1>4. b \in Borrowers /\ status[b] = "active" /\ shielded[b] = s
  BY <1>2, OrderFacts
<1> QED
  BY <1>1, <1>3, <1>4, Zenon DEF AtFresh, CanApply, Starting, Fresh

\* No owner has lost anything so far.
FairSoFar(L, p) == L.ok => \A c \in Active : FairTo(L, c, p.price)

\* A loop that stops changes no owner's account.
LEMMA StoppedSame ==
  ASSUME NEW A, DOMAIN A = LoopFields, NEW E, E = [A EXCEPT !.running = FALSE], NEW c
  PROVE  SameOwner(E, A, c) /\ E.ok = A.ok
<1>1. /\ E.ok = A.ok /\ E.status = A.status /\ E.trove = A.trove /\ E.snap = A.snap
      /\ E.surplus = A.surplus
  BY DEF LoopFields
<1> QED
  BY <1>1, Zenon DEF SameOwner

\* One iteration is fair.
LEMMA IterateIsFair ==
  ASSUME BranchInv, ~isShutdown, NEW order \in Orders, NEW p, Asked(p), NEW L,
         LoopInv(L, order, p), FairSoFar(L, p), NEW E, E = Iterate(L, order, p)
  PROVE  FairSoFar(E, p)
<1> SUFFICES ASSUME E.ok, NEW c \in Active
             PROVE  FairTo(E, c, p.price)
  BY Zenon DEF FairSoFar
<1>1. DOMAIN L = LoopFields /\ (L.ok => LoopOK(L, order, p))
  BY Zenon DEF LoopInv
<1>2. p.price \in Nat /\ c \in Borrowers
  BY DEF Asked, Active
<1>3. CASE E = [L EXCEPT !.running = FALSE]
  <2>1. SameOwner(E, L, c) /\ E.ok = L.ok
    BY <1>1, <1>3, StoppedSame
  <2>2. FairTo(L, c, p.price)
    BY <2>1, Zenon DEF FairSoFar
  <2> QED
    BY <2>1, <2>2, SameIsFair
<1>4. CASE E # [L EXCEPT !.running = FALSE]
  <2>1. /\ L.running /\ L.ok
        /\ \E s \in BOOLEAN : \E b :
             /\ L.cursor[s] # 0 /\ b = order[s][L.cursor[s]]
             /\ E = _redeemCollateralFromTrove(Applied(L, b, s), b, s, Len(order[s]), p)
    BY <1>4, IterateCases
  <2>s. PICK s \in BOOLEAN : \E b :
          /\ L.cursor[s] # 0 /\ b = order[s][L.cursor[s]]
          /\ E = _redeemCollateralFromTrove(Applied(L, b, s), b, s, Len(order[s]), p)
    BY <2>1, Zenon
  <2>2. PICK b :
          /\ L.cursor[s] # 0 /\ b = order[s][L.cursor[s]]
          /\ E = _redeemCollateralFromTrove(Applied(L, b, s), b, s, Len(order[s]), p)
    BY <2>s, Zenon
  <2>3. LoopOK(L, order, p) /\ FairTo(L, c, p.price)
    BY <1>1, <2>1, Zenon DEF FairSoFar
  <2> DEFINE A == Applied(L, b, s)
             last == Len(order[s])
  <2>4. DOMAIN A = LoopFields
    BY <1>1 DEF Applied
  <2>5. A = Applied(L, b, s) /\ E = _redeemCollateralFromTrove(A, b, s, last, p)
    BY <2>2
  <2> HIDE DEF A, last
  <2>6. \/ E = [A EXCEPT !.running = FALSE] /\ A.ok
        \/ \E C : IsRedeemed(E, C, A, b, s, p, last)
    BY <2>4, <2>5, RedeemedCases
  <2>7. A.ok
    BY <2>6, Zenon DEF IsRedeemed
  <2>8. AtFresh(A, L, b, s)
    BY <1>1, <2>1, <2>2, <2>3, <2>5, <2>7, AtCursor
  <2>9. CASE E = [A EXCEPT !.running = FALSE]
    <3>1. SameOwner(E, A, c)
      BY <2>4, <2>9, StoppedSame
    <3>2. CASE c = b
      <4>1. SameOwner(E, A, b)
        BY <3>1, <3>2
      <4> QED
        BY <1>2, <2>8, <3>2, <4>1, CancelledIsFair
    <3>3. CASE c # b
      <4>1. SameOwner(A, L, c)
        BY <1>2, <2>8, <3>3, AtFreshFacts
      <4>2. SameOwner(E, L, c)
        BY <3>1, <4>1, Zenon DEF SameOwner
      <4> QED
        BY <2>3, <4>2, SameIsFair
    <3> QED
      BY <3>2, <3>3
  <2>10. CASE \E C : IsRedeemed(E, C, A, b, s, p, last)
    <3>1. PICK C : IsRedeemed(E, C, A, b, s, p, last)
      BY <2>10
    <3>2. CASE c = b
      BY <2>8, <3>1, <3>2, RedeemedIsFair
    <3>3. CASE c # b
      <4>1. SameOwner(E, L, c)
        BY <1>2, <2>8, <3>1, <3>3, OthersSame
      <4> QED
        BY <2>3, <4>1, SameIsFair
    <3> QED
      BY <3>2, <3>3
  <2> QED
    BY <2>6, <2>9, <2>10, Zenon
<1> QED
  BY <1>3, <1>4

\* The loop of a redemption is fair.
LEMMA LoopIsFair ==
  ASSUME BranchInv, ~isShutdown, NEW order \in Orders, NEW p, Asked(p), p.maxIterations \in Nat,
         NEW L, L = _runRedemptionLoop(order, p)
  PROVE  FairSoFar(L, p)
<1> DEFINE n == MinOf(p.maxIterations, Cardinality(Active))
           h == CHOOSE g : IsLoop(g, order, p, n)
<1>1. L = h[n]
  BY Zenon DEF _runRedemptionLoop, Repeated, IsLoop
<1>2. n \in Nat
  <2>1. Cardinality(Active) \in Nat
    BY ActiveCount DEF Active, ActiveIn
  <2> QED
    BY <2>1, MinOfPair
<1> HIDE DEF n
<1>3. IsLoop(h, order, p, n)
  BY <1>2, LoopExists
<1> HIDE DEF h
<1>4. h = [i \in 0..n |-> IF i = 0 THEN LoopStart(order, p) ELSE Iterate(h[i - 1], order, p)]
  BY <1>3, Zenon DEF IsLoop
<1> DEFINE T == {i \in 0..n : LoopInv(h[i], order, p) /\ FairSoFar(h[i], p)}
<1>5. 0 \in T
  <2>1. h[0] = LoopStart(order, p) /\ 0 \in 0..n
    BY <1>2, <1>4
  <2>2. LoopInv(h[0], order, p)
    BY <2>1, LoopStarts
  <2>3. ASSUME NEW c \in Active
        PROVE  FairTo(h[0], c, p.price)
    <3> DEFINE L0 == h[0]
    <3>1. L0 = LoopStart(order, p)
      BY <2>1
    <3>2. L0.trove = trove /\ L0.status = status /\ L0.snap = snap /\ L0.surplus = surplus
      BY <3>1 DEF LoopStart
    <3>3. Fresh(L0, c)
      BY <3>2, Zenon DEF Fresh, Active
    <3> HIDE DEF L0
    <3>4. FairTo(L0, c, p.price)
      BY <3>3, FreshIsFair DEF Asked
    <3> QED
      BY <3>4 DEF L0
  <2> QED
    BY <2>1, <2>2, <2>3 DEF FairSoFar
<1>6. ASSUME NEW m \in 0..n, m # n, m \in T
      PROVE  m + 1 \in T
  <2>1. m + 1 \in 0..n /\ m + 1 # 0 /\ m + 1 - 1 = m
    BY <1>2, <1>6
  <2>2. h[m + 1] = Iterate(h[m], order, p)
    BY <1>4, <2>1
  <2>3. LoopInv(h[m], order, p) /\ FairSoFar(h[m], p)
    BY <1>6
  <2>4. LoopInv(h[m + 1], order, p)
    BY <2>2, <2>3, IterateStep
  <2>5. FairSoFar(h[m + 1], p)
    BY <2>2, <2>3, IterateIsFair
  <2> QED
    BY <2>1, <2>4, <2>5
<1>7. n \in T
  <2> HIDE DEF T
  <2>1. \A m \in 0..n : m \in T
    BY <1>2, <1>5, <1>6, UpToInduction
  <2> QED
    BY <1>2, <2>1
<1> QED
  BY <1>1, <1>7

\* Whatever order the lists are in and whatever a redeemer asks for, _runRedemptionLoop of
\* TroveManager.sol leaves every owner, in the trove and in the CollSurplusPool together, what
\* the trove was worth or more: partly redeemed, closed, or its rewards only applied.
THEOREM RedemptionsAreFair == BranchSpec => []RedemptionCostsNothing
<1>1. BranchInv => RedemptionCostsNothing
  <2> SUFFICES ASSUME BranchInv
               PROVE  RedemptionCostsNothing
    OBVIOUS
  <2>1. ASSUME NEW o \in RedemptionOutcomes, o.loop.ok, NEW b \in Active
        PROVE  FairTo(o.loop, b, o.price)
    <3>1. ~isShutdown
      BY <2>1, Zenon DEF RedemptionOutcomes
    <3>2. PICK p \in {q \in RedemptionsAsked : CanRedeem(q)} : \E order \in Orders :
            o = [price |-> p.price, loop |-> _runRedemptionLoop(order, p)]
      BY <2>1, <3>1, Zenon DEF RedemptionOutcomes
    <3>7. PICK order \in Orders : o = [price |-> p.price, loop |-> _runRedemptionLoop(order, p)]
      BY <3>2, Zenon
    <3>3. p \in RedemptionsAsked
      BY <3>2
    <3>4. Asked(p) /\ p.maxIterations \in Nat
      BY <3>3, AskedOfBranch
    <3>5. o.loop = _runRedemptionLoop(order, p) /\ o.price = p.price
      BY <3>7
    <3>6. FairSoFar(o.loop, p)
      BY <3>1, <3>4, <3>5, LoopIsFair
    <3> QED
      BY <2>1, <3>5, <3>6, Zenon DEF FairSoFar
  <2> QED
    BY <2>1, Zenon DEF RedemptionCostsNothing, FairTo, Worth
<1> QED
  BY <1>1, BranchInvariant, PTL

=============================================================================
