------------------------ MODULE BranchShutdownProofs ------------------------
(***************************************************************************)
(* Proofs about BranchShutdown, for any prices, pars, staleness limits and *)
(* deviation threshold: ShutDownTogether and SettlementFixed.              *)
(*                                                                         *)
(* A transaction is a composition of calls, so both are proved call by     *)
(* call: Within relates the joint state at the start of a transaction to   *)
(* the one after some of its calls, and every call preserves it.           *)
(***************************************************************************)
EXTENDS BranchShutdown, TLAPS

Feeds == [kind : Kinds, source : {"primary", "ETHUSDxCanonical", "lastGoodPrice"},
          lastGoodPrice : Prices]

Joint ==
  [age : [par : Nat, rate : Nat], par : Pars, feed : Feeds, debt : BOOLEAN, bo : BOOLEAN,
   tm : [shut : BOOLEAN, par : Nat, oracleFailure : BOOLEAN], ok : BOOLEAN]

\* ShutDownTogether of a joint state.
Together(w) ==
  /\ w.bo = w.tm.shut
  /\ w.feed.source # "primary" => w.tm.shut
  /\ w.tm.oracleFailure => w.feed.source # "primary"
  /\ w.feed.source = "ETHUSDxCanonical" => w.feed.kind \in {"WSTETH", "RETH"}

\* SettlementFixed of two joint states.  A shutdown that the transaction has made leaves the
\* Relayer updated in this block, which is why no later call of it changes par.
Settled(v, w) ==
  /\ v.tm.shut => w.tm = v.tm
  /\ ~v.tm.shut /\ w.tm.shut => w.tm.par = w.par /\ w.age = [par |-> 0, rate |-> 0]
  /\ v.feed.source # "primary" =>
       w.feed.source # "primary" /\ w.feed.lastGoodPrice <= v.feed.lastGoodPrice

\* w is where a transaction that began at v may stand, or it has reverted.
Within(v, w) == w \in Joint /\ (w.ok => Together(w) /\ Settled(v, w))

-----------------------------------------------------------------------------
(***************************************************************************)
(* The Relayer                                                             *)
(***************************************************************************)

\* What the updates do to each field.
LEMMA UpdateParFields ==
  ASSUME NEW w \in Joint, NEW e \in Found
  PROVE  LET u == _updatePar(w, e)
         IN /\ u \in Joint
            /\ u.age = [par |-> 0, rate |-> w.age.rate] /\ u.par = e.par
            /\ u.feed = w.feed /\ u.debt = w.debt /\ u.bo = w.bo /\ u.tm = w.tm
            /\ u.ok <=> w.ok /\ w.age.par > 0
<1> e.par \in Pars
  BY DEF Found
<1> 0 \in Nat
  OBVIOUS
<1> QED
  BY Zenon DEF Joint, _updatePar

LEMMA UpdateRateFields ==
  ASSUME NEW w \in Joint, NEW e \in Found
  PROVE  LET u == _updateRate(w, e)
         IN /\ u \in Joint
            /\ u.age = [par |-> w.age.par, rate |-> 0] /\ u.par = w.par
            /\ u.feed = w.feed /\ u.debt = w.debt /\ u.bo = w.bo /\ u.tm = w.tm
            /\ u.ok <=> w.ok /\ w.age.rate > 0
<1> 0 \in Nat
  OBVIOUS
<1> QED
  BY Zenon DEF Joint, _updateRate

\* An update changes nothing that was settled: after a shutdown in this block it reverts.
LEMMA UpdateSettles ==
  ASSUME NEW v \in Joint, NEW w \in Joint, NEW u \in Joint,
         u.feed = w.feed, u.bo = w.bo, u.tm = w.tm,
         u.ok => w.ok /\ (w.age.par > 0 \/ w.age.rate > 0),
         Within(v, w)
  PROVE  Within(v, u)
<1> SUFFICES ASSUME u.ok
             PROVE  Together(u) /\ Settled(v, u)
  BY DEF Within
<1>1. Together(w) /\ Settled(v, w) /\ (w.age.par > 0 \/ w.age.rate > 0)
  BY DEF Within
<1>2. Together(u)
  BY <1>1 DEF Together
<1>3. Settled(v, u)
  BY <1>1 DEF Settled
<1> QED
  BY <1>2, <1>3

LEMMA UpdateWithin ==
  ASSUME NEW v \in Joint, NEW w, NEW e \in Found, Within(v, w)
  PROVE  Within(v, _updatePar(w, e)) /\ Within(v, _updateRate(w, e))
<1>1. w \in Joint
  BY DEF Within
<1>2. Within(v, _updatePar(w, e))
  <2> DEFINE u == _updatePar(w, e)
  <2>1. /\ u \in Joint /\ u.feed = w.feed /\ u.bo = w.bo /\ u.tm = w.tm
        /\ u.ok => w.ok /\ w.age.par > 0
    BY <1>1, UpdateParFields
  <2> HIDE DEF u
  <2>2. Within(v, u)
    BY <1>1, <2>1, UpdateSettles
  <2> QED
    BY <2>2 DEF u
<1>3. Within(v, _updateRate(w, e))
  <2> DEFINE u == _updateRate(w, e)
  <2>1. /\ u \in Joint /\ u.feed = w.feed /\ u.bo = w.bo /\ u.tm = w.tm
        /\ u.ok => w.ok /\ w.age.rate > 0
    BY <1>1, UpdateRateFields
  <2> HIDE DEF u
  <2>2. Within(v, u)
    BY <1>1, <2>1, UpdateSettles
  <2> QED
    BY <2>2 DEF u
<1> QED
  BY <1>2, <1>3

LEMMA GetWithin ==
  ASSUME NEW v \in Joint, NEW w, NEW e \in Found, Within(v, w)
  PROVE  /\ Within(v, getPar(w, e))
         /\ Within(v, getRate(w, e))
         /\ Within(v, drip(w, e))
         /\ Within(v, updateRateAndPar(w, e))
BY UpdateWithin DEF getPar, getRate, drip, updateRateAndPar

-----------------------------------------------------------------------------
(***************************************************************************)
(* Shutting down                                                           *)
(***************************************************************************)

\* The drip of TroveManager.shutdown finds the rate updated.
LEMMA BothUpdatedFields ==
  ASSUME NEW w \in Joint, NEW e \in Found
  PROVE  LET u == drip(updateRateAndPar(w, e), e)
         IN /\ u \in Joint /\ updateRateAndPar(w, e) \in Joint
            /\ updateRateAndPar(w, e).par = e.par
            /\ u.age = [par |-> 0, rate |-> 0] /\ u.par = e.par
            /\ u.feed = w.feed /\ u.debt = w.debt /\ u.bo = w.bo /\ u.tm = w.tm
            /\ u.ok <=> w.ok /\ w.age.par > 0 /\ w.age.rate > 0
<1> DEFINE t == _updateRate(w, e)
           u == _updatePar(t, e)
<1>1. /\ t \in Joint
      /\ t.age = [par |-> w.age.par, rate |-> 0] /\ t.par = w.par
      /\ t.feed = w.feed /\ t.debt = w.debt /\ t.bo = w.bo /\ t.tm = w.tm
      /\ t.ok <=> w.ok /\ w.age.rate > 0
  BY UpdateRateFields
<1> HIDE DEF t
<1>2. /\ u \in Joint
      /\ u.age = [par |-> 0, rate |-> t.age.rate] /\ u.par = e.par
      /\ u.feed = t.feed /\ u.debt = t.debt /\ u.bo = t.bo /\ u.tm = t.tm
      /\ u.ok <=> t.ok /\ t.age.par > 0
  BY <1>1, UpdateParFields
<1> HIDE DEF u
<1>3. u = updateRateAndPar(w, e)
  BY DEF u, t, updateRateAndPar
<1>4. u.age = [par |-> 0, rate |-> 0]
  BY <1>1, <1>2
<1>5. drip(u, e) = u
  BY <1>4, ShutdownAssumption DEF drip, getRate, rateIsStale
<1>6. u.ok <=> w.ok /\ w.age.par > 0 /\ w.age.rate > 0
  BY <1>1, <1>2
<1> QED
  BY <1>1, <1>2, <1>3, <1>4, <1>5, <1>6

\* What _shutdown does to a branch that is open.
LEMMA ShutdownFields ==
  ASSUME NEW w \in Joint, ~w.tm.shut, NEW e \in Found, NEW failure \in BOOLEAN
  PROVE  LET s == _shutdown(w, e, failure)
         IN /\ s \in Joint
            /\ s.age = [par |-> 0, rate |-> 0] /\ s.par = e.par
            /\ s.feed = w.feed /\ s.debt = w.debt /\ s.bo = TRUE
            /\ s.tm.shut = TRUE /\ s.tm.par = e.par /\ s.tm.oracleFailure = failure
            /\ s.ok <=> w.ok /\ w.age.par > 0 /\ w.age.rate > 0
<1> DEFINE b == [w EXCEPT !.bo = TRUE]
           u == drip(updateRateAndPar(b, e), e)
           shut == [shut |-> TRUE, par |-> e.par, oracleFailure |-> failure]
<1>1. /\ b \in Joint
      /\ b.age = w.age /\ b.par = w.par /\ b.feed = w.feed /\ b.debt = w.debt /\ b.bo = TRUE
      /\ b.tm = w.tm /\ b.ok = w.ok
  BY Zenon DEF Joint
<1> HIDE DEF b
<1>2. /\ u \in Joint
      /\ updateRateAndPar(b, e).par = e.par
      /\ u.age = [par |-> 0, rate |-> 0] /\ u.par = e.par
      /\ u.feed = b.feed /\ u.debt = b.debt /\ u.bo = b.bo /\ u.tm = b.tm
      /\ u.ok <=> b.ok /\ b.age.par > 0 /\ b.age.rate > 0
  BY <1>1, BothUpdatedFields
<1> HIDE DEF u
<1>3. _shutdown(w, e, failure) = [u EXCEPT !.tm = shut]
  BY <1>1, <1>2 DEF _shutdown, TMShutdown, b, u
<1>4. e.par \in Nat
  BY ShutdownAssumption DEF Found
<1>5. shut \in [shut : BOOLEAN, par : Nat, oracleFailure : BOOLEAN]
  BY <1>4
<1>6. shut.shut = TRUE /\ shut.par = e.par /\ shut.oracleFailure = failure
  BY Zenon
<1> HIDE DEF shut
<1>7. LET s == [u EXCEPT !.tm = shut]
      IN /\ s \in Joint
         /\ s.age = u.age /\ s.par = u.par /\ s.feed = u.feed /\ s.debt = u.debt /\ s.bo = u.bo
         /\ s.tm = shut /\ s.ok = u.ok
  BY <1>2, <1>5, Zenon DEF Joint
<1>8. w.ok /\ w.age.par > 0 /\ w.age.rate > 0 <=> u.ok
  BY <1>1, <1>2
<1> QED
  BY <1>1, <1>2, <1>3, <1>6, <1>7, <1>8

LEMMA ShutdownWithin ==
  ASSUME NEW v \in Joint, NEW w, NEW e \in Found, Within(v, w)
  PROVE  Within(v, _shutdown(w, e, FALSE))
<1>1. w \in Joint
  BY DEF Within
<1>2. CASE w.tm.shut
  <2> DEFINE b == [w EXCEPT !.bo = TRUE]
  <2>1. /\ b \in Joint /\ b.age = w.age /\ b.par = w.par /\ b.feed = w.feed /\ b.bo = TRUE
        /\ b.tm = w.tm /\ b.ok = w.ok
    BY <1>1, Zenon DEF Joint
  <2>2. _shutdown(w, e, FALSE) = b
    BY <1>2, <2>1 DEF _shutdown, TMShutdown
  <2> HIDE DEF b
  <2>3. w.ok => Together(b)
    BY <1>1, <1>2, <2>1 DEF Within, Together
  <2>4. w.ok => Settled(v, b)
    BY <2>1 DEF Within, Settled
  <2> QED
    BY <2>1, <2>2, <2>3, <2>4 DEF Within
<1>3. CASE ~w.tm.shut
  <2> DEFINE s == _shutdown(w, e, FALSE)
  <2>1. /\ s \in Joint
        /\ s.age = [par |-> 0, rate |-> 0] /\ s.par = e.par
        /\ s.feed = w.feed /\ s.debt = w.debt /\ s.bo = TRUE
        /\ s.tm.shut = TRUE /\ s.tm.par = e.par /\ s.tm.oracleFailure = FALSE
        /\ s.ok <=> w.ok /\ w.age.par > 0 /\ w.age.rate > 0
    BY <1>1, <1>3, ShutdownFields
  <2> HIDE DEF s
  <2>2. s.ok => Together(w) /\ Settled(v, w)
    BY <2>1 DEF Within
  <2>3. s.ok => Together(s)
    BY <2>1, <2>2 DEF Together
  <2>4. s.ok => Settled(v, s)
    BY <1>3, <2>1, <2>2 DEF Settled
  <2>5. Within(v, s)
    BY <2>1, <2>3, <2>4 DEF Within
  <2> QED
    BY <2>5 DEF s
<1> QED
  BY <1>2, <1>3

-----------------------------------------------------------------------------
(***************************************************************************)
(* The price feeds                                                         *)
(***************************************************************************)

Left == {"ETHUSDxCanonical", "lastGoodPrice"}

SwitchTo(w, source) == [w EXCEPT !.feed.source = source]

WithPrice(w, price) == [w EXCEPT !.feed.lastGoodPrice = price]

LEMMA SourceFields ==
  ASSUME NEW w \in Joint, NEW source \in Left
  PROVE  LET u == SwitchTo(w, source)
         IN /\ u \in Joint
            /\ u.feed = [kind |-> w.feed.kind, source |-> source,
                         lastGoodPrice |-> w.feed.lastGoodPrice]
            /\ u.age = w.age /\ u.par = w.par /\ u.debt = w.debt /\ u.bo = w.bo
            /\ u.tm = w.tm /\ u.ok = w.ok
<1> source \in {"primary", "ETHUSDxCanonical", "lastGoodPrice"}
  BY DEF Left
<1>1. w.feed \in Feeds
  BY DEF Joint
<1>2. [w.feed EXCEPT !.source = source] =
        [kind |-> w.feed.kind, source |-> source, lastGoodPrice |-> w.feed.lastGoodPrice]
  BY <1>1, SMT DEF Feeds
<1> DEFINE f == [w.feed EXCEPT !.source = source]
<1>3. f \in Feeds
  BY <1>1, Zenon DEF Feeds
<1>4. SwitchTo(w, source) = [w EXCEPT !.feed = f]
  BY Zenon DEF SwitchTo
<1> HIDE DEF f
<1>5. LET u == [w EXCEPT !.feed = f]
      IN /\ u \in Joint /\ u.feed = f
         /\ u.age = w.age /\ u.par = w.par /\ u.debt = w.debt /\ u.bo = w.bo
         /\ u.tm = w.tm /\ u.ok = w.ok
  BY <1>3, Zenon DEF Joint
<1> QED
  BY <1>2, <1>4, <1>5 DEF f

LEMMA PriceFields ==
  ASSUME NEW w \in Joint, NEW price \in Prices
  PROVE  LET u == WithPrice(w, price)
         IN /\ u \in Joint
            /\ u.feed = [kind |-> w.feed.kind, source |-> w.feed.source, lastGoodPrice |-> price]
            /\ u.age = w.age /\ u.par = w.par /\ u.debt = w.debt /\ u.bo = w.bo
            /\ u.tm = w.tm /\ u.ok = w.ok
<1>1. w.feed \in Feeds
  BY DEF Joint
<1>2. [w.feed EXCEPT !.lastGoodPrice = price] =
        [kind |-> w.feed.kind, source |-> w.feed.source, lastGoodPrice |-> price]
  BY <1>1, SMT DEF Feeds
<1> DEFINE f == [w.feed EXCEPT !.lastGoodPrice = price]
<1>3. f \in Feeds
  BY <1>1, Zenon DEF Feeds
<1>4. WithPrice(w, price) = [w EXCEPT !.feed = f]
  BY Zenon DEF WithPrice
<1> HIDE DEF f
<1>5. LET u == [w EXCEPT !.feed = f]
      IN /\ u \in Joint /\ u.feed = f
         /\ u.age = w.age /\ u.par = w.par /\ u.debt = w.debt /\ u.bo = w.bo
         /\ u.tm = w.tm /\ u.ok = w.ok
  BY <1>3, Zenon DEF Joint
<1> QED
  BY <1>2, <1>4, <1>5 DEF f

LEMMA ShutdownStaysJoint ==
  ASSUME NEW w \in Joint, NEW e \in Found
  PROVE  /\ shutdownFromOracleFailure(w, e) \in Joint
         /\ shutdownFromOracleFailure(w, e).feed = w.feed
<1> DEFINE s == shutdownFromOracleFailure(w, e)
<1>1. CASE w.bo
  BY <1>1 DEF shutdownFromOracleFailure
<1>2. CASE ~w.bo /\ w.tm.shut
  <2>1. s = [w EXCEPT !.bo = TRUE]
    <3>1. [w EXCEPT !.bo = TRUE].tm = w.tm
      BY Zenon DEF Joint
    <3> QED
      BY <1>2, <3>1 DEF shutdownFromOracleFailure, _shutdown, TMShutdown
  <2> QED
    BY <2>1, Zenon DEF Joint
<1>3. CASE ~w.bo /\ ~w.tm.shut
  BY <1>3, ShutdownFields DEF shutdownFromOracleFailure
<1> QED
  BY <1>1, <1>2, <1>3

\* A feed that leaves its primary source, with the branch shut down on the way.
LEMMA LeaveWithin ==
  ASSUME NEW v \in Joint, NEW w, NEW e \in Found, Within(v, w), NEW source \in Left,
         w.feed.source = "primary",
         source = "ETHUSDxCanonical" => w.feed.kind \in {"WSTETH", "RETH"}
  PROVE  Within(v, SwitchTo(shutdownFromOracleFailure(w, e), source))
<1> DEFINE s == shutdownFromOracleFailure(w, e)
           u == SwitchTo(s, source)
<1>1. w \in Joint
  BY DEF Within
<1>2. s \in Joint /\ s.feed = w.feed
  BY <1>1, ShutdownStaysJoint
<1>3. s.ok => /\ w.ok /\ s.bo = s.tm.shut /\ s.tm.shut /\ Together(w) /\ Settled(v, w)
              /\ w.tm.shut => s.tm = w.tm /\ s.age = w.age /\ s.par = w.par
              /\ ~w.tm.shut => s.tm.par = s.par /\ s.age = [par |-> 0, rate |-> 0]
  <2>1. CASE w.bo
    <3>1. s = w
      BY <2>1 DEF shutdownFromOracleFailure
    <3> QED
      BY <1>1, <2>1, <3>1 DEF Within, Together
  <2>2. CASE ~w.bo /\ w.tm.shut
    <3>1. s = [w EXCEPT !.bo = TRUE]
      <4>1. [w EXCEPT !.bo = TRUE].tm = w.tm
        BY <1>1, Zenon DEF Joint
      <4> QED
        BY <2>2, <4>1 DEF shutdownFromOracleFailure, _shutdown, TMShutdown
    <3>2. s.ok = w.ok
      BY <1>1, <3>1, Zenon DEF Joint
    <3>3. w.ok => w.bo = w.tm.shut
      BY DEF Within, Together
    <3> QED
      BY <2>2, <3>2, <3>3
  <2>3. CASE ~w.bo /\ ~w.tm.shut
    <3>1. s = _shutdown(w, e, TRUE)
      BY <2>3 DEF shutdownFromOracleFailure
    <3>2. LET t == _shutdown(w, e, TRUE)
          IN /\ t.age = [par |-> 0, rate |-> 0] /\ t.par = e.par /\ t.bo = TRUE
             /\ t.tm.shut = TRUE /\ t.tm.par = e.par
             /\ t.ok => w.ok
      BY <1>1, <2>3, ShutdownFields
    <3> HIDE DEF s
    <3>3. s.bo = s.tm.shut /\ s.tm.shut /\ s.tm.par = s.par
      BY <3>1, <3>2
    <3> QED
      BY <2>3, <3>1, <3>2, <3>3 DEF Within
  <2> QED
    BY <2>1, <2>2, <2>3
<1> HIDE DEF s
<1>4. /\ u \in Joint
      /\ u.feed = [kind |-> s.feed.kind, source |-> source, lastGoodPrice |-> s.feed.lastGoodPrice]
      /\ u.age = s.age /\ u.par = s.par /\ u.bo = s.bo /\ u.tm = s.tm /\ u.ok = s.ok
  BY <1>2, SourceFields
<1> HIDE DEF u
<1>5. u.ok => Together(u)
  BY <1>2, <1>3, <1>4 DEF Together, Left
<1>6. u.ok => Settled(v, u)
  BY <1>2, <1>3, <1>4 DEF Settled, Left
<1> QED
  BY <1>4, <1>5, <1>6 DEF Within, u, s

\* A feed that has left its primary source changes its price, and not upwards.
LEMMA LowerWithin ==
  ASSUME NEW v \in Joint, NEW w, Within(v, w), NEW price \in Prices,
         w.feed.source = "primary" \/ price <= w.feed.lastGoodPrice
  PROVE  Within(v, WithPrice(w, price))
<1> DEFINE u == WithPrice(w, price)
<1>1. w \in Joint /\ w.feed \in Feeds /\ v.feed \in Feeds
  BY DEF Within, Joint
<1>2. /\ u \in Joint
      /\ u.feed = [kind |-> w.feed.kind, source |-> w.feed.source, lastGoodPrice |-> price]
      /\ u.age = w.age /\ u.par = w.par /\ u.bo = w.bo /\ u.tm = w.tm /\ u.ok = w.ok
  BY <1>1, PriceFields
<1> HIDE DEF u
<1>3. u.ok => Together(w) /\ Settled(v, w)
  BY <1>2 DEF Within
<1>4. u.ok => Together(u)
  BY <1>2, <1>3 DEF Together
<1>5. u.ok => Settled(v, u)
  BY <1>1, <1>2, <1>3, ShutdownAssumption DEF Settled, Feeds
<1> QED
  BY <1>2, <1>4, <1>5 DEF Within, u

\* A feed that is left for good.
LEMMA LastPriceWithin ==
  ASSUME NEW v \in Joint, NEW w, Within(v, w), w.feed.source # "primary"
  PROVE  Within(v, SwitchTo(w, "lastGoodPrice"))
<1> DEFINE u == SwitchTo(w, "lastGoodPrice")
<1>1. w \in Joint
  BY DEF Within
<1>2. /\ u \in Joint
      /\ u.feed = [kind |-> w.feed.kind, source |-> "lastGoodPrice",
                   lastGoodPrice |-> w.feed.lastGoodPrice]
      /\ u.age = w.age /\ u.par = w.par /\ u.bo = w.bo /\ u.tm = w.tm /\ u.ok = w.ok
  BY <1>1, SourceFields DEF Left
<1> HIDE DEF u
<1>3. u.ok => Together(w) /\ Settled(v, w)
  BY <1>2 DEF Within
<1>4. u.ok => Together(u)
  BY <1>2, <1>3 DEF Together
<1>5. u.ok => Settled(v, u)
  BY <1>2, <1>3 DEF Settled
<1> QED
  BY <1>2, <1>4, <1>5 DEF Within, u

LEMMA CanonicalWithin ==
  ASSUME NEW v \in Joint, NEW w, NEW e \in Found, Within(v, w), w.feed.source # "primary"
  PROVE  Within(v, _fetchPriceETHUSDxCanonical(w, e).w)
<1>1. CASE ~up["canonical"]
  <2>1. _fetchPriceETHUSDxCanonical(w, e).w = SwitchTo(w, "lastGoodPrice")
    BY <1>1, Zenon DEF _fetchPriceETHUSDxCanonical, Fetched, SwitchTo, WithPrice
  <2> QED
    BY <2>1, LastPriceWithin
<1>2. CASE up["canonical"]
  <2> DEFINE best == LowerOf(e.canonical, w.feed.lastGoodPrice)
  <2>1. _fetchPriceETHUSDxCanonical(w, e).w = WithPrice(w, best)
    BY <1>2, Zenon DEF _fetchPriceETHUSDxCanonical, Fetched, SwitchTo, WithPrice
  <2>2. w.feed \in Feeds /\ e.canonical \in Prices
    BY DEF Within, Joint, Found
  <2>3. best \in Prices /\ best <= w.feed.lastGoodPrice
    <3> DEFINE last == w.feed.lastGoodPrice
               canonical == e.canonical
    <3>1. last \in Prices /\ canonical \in Prices
      BY <2>2 DEF Feeds
    <3> HIDE DEF last, canonical
    <3>2. last \in Nat /\ canonical \in Nat
      BY <3>1, ShutdownAssumption
    <3>3. LowerOf(canonical, last) \in Prices /\ LowerOf(canonical, last) <= last
      BY <3>1, <3>2 DEF LowerOf
    <3> QED
      BY <3>3 DEF last, canonical
  <2> QED
    BY <2>1, <2>3, LowerWithin
<1> QED
  BY <1>1, <1>2

LEMMA PrimaryPriceType ==
  ASSUME NEW kind \in Kinds, NEW e \in Found, NEW isRedemption \in BOOLEAN
  PROVE  PrimaryPrice(kind, e, isRedemption) \in Prices
<1>1. e.market \in Prices /\ e.canonical \in Prices
  BY DEF Found
<1>2. LowerOf(e.market, e.canonical) \in Prices /\ HigherOf(e.market, e.canonical) \in Prices
  BY <1>1 DEF LowerOf, HigherOf
<1> QED
  BY <1>1, <1>2 DEF PrimaryPrice

LEMMA FetchWithin ==
  ASSUME NEW v \in Joint, NEW w, NEW e \in Found, Within(v, w), NEW isRedemption \in BOOLEAN
  PROVE  Within(v, Fetch(w, e, isRedemption).w)
<1>1. w \in Joint /\ w.feed \in Feeds
  BY DEF Within, Joint
<1>2. CASE w.feed.source = "primary"
  <2>1. CASE \E o \in Essential(w.feed.kind) : ~up[o]
    <3>1. Fetch(w, e, isRedemption).w =
            SwitchTo(shutdownFromOracleFailure(w, e), "lastGoodPrice")
      BY <1>2, <2>1, Zenon DEF Fetch, _fetchPricePrimary, _shutDownAndSwitchToLastGoodPrice, Fetched, SwitchTo, WithPrice
    <3> QED
      BY <1>2, <3>1, LeaveWithin DEF Left
  <2>2. CASE /\ ~\E o \in Essential(w.feed.kind) : ~up[o]
             /\ ~up["market"] /\ w.feed.kind # "WETH"
    <3> DEFINE s == SwitchTo(shutdownFromOracleFailure(w, e), "ETHUSDxCanonical")
    <3>1. w.feed.kind \in {"WSTETH", "RETH"}
      BY <1>1, <2>2 DEF Feeds, Kinds, Essential
    <3>2. Within(v, s)
      BY <1>2, <3>1, LeaveWithin DEF Left
    <3>3. s.feed.source # "primary"
      <4>1. shutdownFromOracleFailure(w, e) \in Joint
        BY <1>1, ShutdownStaysJoint
      <4>2. s.feed.source = "ETHUSDxCanonical"
        <5> DEFINE t == shutdownFromOracleFailure(w, e)
        <5>1. s.feed = [kind |-> t.feed.kind, source |-> "ETHUSDxCanonical",
                        lastGoodPrice |-> t.feed.lastGoodPrice]
          BY <4>1, SourceFields, Zenon DEF Left
        <5> HIDE DEF s, t
        <5> QED
          BY <5>1
      <4> QED
        BY <4>2
    <3>4. Fetch(w, e, isRedemption) = [_fetchPriceETHUSDxCanonical(s, e) EXCEPT !.failure = TRUE]
      BY <1>2, <2>2 DEF Fetch, _fetchPricePrimary, _shutDownAndSwitchToETHUSDxCanonical,
             SwitchTo
    <3> HIDE DEF s
    <3>5. Fetch(w, e, isRedemption).w = _fetchPriceETHUSDxCanonical(s, e).w
      <4>1. "w" \in DOMAIN _fetchPriceETHUSDxCanonical(s, e)
        <5>1. CASE up["canonical"]
          BY <5>1, Zenon DEF _fetchPriceETHUSDxCanonical, Fetched
        <5>2. CASE ~up["canonical"]
          BY <5>2, Zenon DEF _fetchPriceETHUSDxCanonical, Fetched
        <5> QED
          BY <5>1, <5>2
      <4> QED
        BY <3>4, <4>1, Zenon
    <3> QED
      BY <3>2, <3>3, <3>5, CanonicalWithin
  <2>3. CASE /\ ~\E o \in Essential(w.feed.kind) : ~up[o]
             /\ ~(~up["market"] /\ w.feed.kind # "WETH")
    <3> DEFINE price == PrimaryPrice(w.feed.kind, e, isRedemption)
    <3>1. Fetch(w, e, isRedemption).w = WithPrice(w, price)
      BY <1>2, <2>3, Zenon DEF Fetch, _fetchPricePrimary, Fetched, SwitchTo, WithPrice
    <3>2. price \in Prices
      BY <1>1, PrimaryPriceType DEF Feeds
    <3> QED
      BY <1>2, <3>1, <3>2, LowerWithin
  <2> QED
    BY <2>1, <2>2, <2>3
<1>3. CASE w.feed.source # "primary"
  <2>1. CASE w.feed.source = "ETHUSDxCanonical" /\ up["usd"]
    <3>1. Fetch(w, e, isRedemption) = _fetchPriceETHUSDxCanonical(w, e)
      BY <1>3, <2>1, Zenon DEF Fetch, _fetchPriceDuringShutdown
    <3> QED
      BY <1>3, <3>1, CanonicalWithin
  <2>2. CASE ~(w.feed.source = "ETHUSDxCanonical" /\ up["usd"])
    <3>1. Fetch(w, e, isRedemption).w = SwitchTo(w, "lastGoodPrice")
      BY <1>3, <2>2, Zenon DEF Fetch, _fetchPriceDuringShutdown, Fetched, SwitchTo, WithPrice
    <3> QED
      BY <1>3, <3>1, LastPriceWithin
  <2> QED
    BY <2>1, <2>2
<1> QED
  BY <1>2, <1>3

-----------------------------------------------------------------------------
(***************************************************************************)
(* The transactions                                                        *)
(***************************************************************************)

WithOk(w, ok) == [w EXCEPT !.ok = ok]

\* A requirement of a transaction: what does not revert is as it was.
LEMMA RequireWithin ==
  ASSUME NEW v \in Joint, NEW w, Within(v, w), NEW ok \in BOOLEAN, ok => w.ok
  PROVE  Within(v, WithOk(w, ok))
<1> DEFINE u == WithOk(w, ok)
<1>1. w \in Joint
  BY DEF Within
<1>2. /\ u \in Joint /\ u.feed = w.feed /\ u.age = w.age /\ u.par = w.par /\ u.bo = w.bo
      /\ u.tm = w.tm /\ u.ok = ok
  BY <1>1, Zenon DEF Joint, WithOk
<1> HIDE DEF u
<1>3. u.ok => Together(w) /\ Settled(v, w)
  BY <1>2 DEF Within
<1>4. u.ok => Together(u)
  BY <1>2, <1>3 DEF Together
<1>5. u.ok => Settled(v, u)
  BY <1>2, <1>3 DEF Settled
<1>6. Within(v, u)
  BY <1>2, <1>4, <1>5 DEF Within
<1> QED
  BY <1>6 DEF u

WithDebt(w) == [w EXCEPT !.debt = TRUE]

LEMMA DebtWithin ==
  ASSUME NEW v \in Joint, NEW w, Within(v, w)
  PROVE  Within(v, WithDebt(w))
<1> DEFINE u == WithDebt(w)
<1>1. w \in Joint
  BY DEF Within
<1>2. /\ u \in Joint /\ u.feed = w.feed /\ u.age = w.age /\ u.par = w.par /\ u.bo = w.bo
      /\ u.tm = w.tm /\ u.ok = w.ok
  BY <1>1, Zenon DEF Joint, WithDebt
<1> HIDE DEF u
<1>3. u.ok => Together(w) /\ Settled(v, w)
  BY <1>2 DEF Within
<1>4. u.ok => Together(u)
  BY <1>2, <1>3 DEF Together
<1>5. u.ok => Settled(v, u)
  BY <1>2, <1>3 DEF Settled
<1>6. Within(v, u)
  BY <1>2, <1>4, <1>5 DEF Within
<1> QED
  BY <1>6 DEF u

LEMMA BorrowedWithin ==
  ASSUME NEW v \in Joint, NEW w, NEW e \in Found, Within(v, w)
  PROVE  Within(v, Borrowed(w, e))
<1> DEFINE f == fetchPrice(getPar(drip(w, e), e), e)
           ok == f.w.ok /\ ~w.bo /\ ~f.failure
<1>1. Within(v, f.w)
  BY GetWithin, FetchWithin DEF fetchPrice
<1>2. Within(v, WithOk(f.w, ok))
  <2>1. ok \in BOOLEAN /\ (ok => f.w.ok)
    BY Zenon
  <2> HIDE DEF f, ok
  <2> QED
    BY <1>1, <2>1, RequireWithin
<1>3. Within(v, WithDebt(WithOk(f.w, ok)))
  BY <1>2, DebtWithin
<1>4. Borrowed(w, e) = WithDebt(WithOk(f.w, ok))
  BY Zenon DEF Borrowed, WithDebt, WithOk
<1> QED
  BY <1>3, <1>4

LEMMA ShutdownAskedWithin ==
  ASSUME NEW v \in Joint, NEW w, NEW e \in Found, Within(v, w)
  PROVE  Within(v, ShutdownAsked(w, e))
<1> DEFINE f == fetchPrice(getPar(w, e), e)
           s == _shutdown(f.w, e, FALSE)
           ok == f.w.ok /\ ~w.bo
           low == s.ok /\ ~w.bo /\ BelowSCR(f.w, f.price)
<1>1. Within(v, f.w)
  BY GetWithin, FetchWithin DEF fetchPrice
<1>2. Within(v, s)
  BY <1>1, ShutdownWithin
<1>3. Within(v, WithOk(f.w, ok))
  <2>1. ok \in BOOLEAN /\ (ok => f.w.ok)
    BY Zenon
  <2> HIDE DEF f, ok
  <2> QED
    BY <1>1, <2>1, RequireWithin
<1>4. Within(v, WithOk(s, low))
  <2>1. low \in BOOLEAN /\ (low => s.ok)
    BY Zenon
  <2> HIDE DEF f, s, low
  <2> QED
    BY <1>2, <2>1, RequireWithin
<1>5. CASE f.failure
  <2>1. ShutdownAsked(w, e) = WithOk(f.w, ok)
    BY <1>5, Zenon DEF ShutdownAsked, WithOk
  <2> QED
    BY <1>3, <2>1
<1>6. CASE ~f.failure
  <2>1. ShutdownAsked(w, e) = WithOk(s, low)
    BY <1>6, Zenon DEF ShutdownAsked, WithOk
  <2> QED
    BY <1>4, <2>1
<1> QED
  BY <1>5, <1>6

LEMMA RedeemedWithin ==
  ASSUME NEW v \in Joint, NEW w, NEW e \in Found, Within(v, w)
  PROVE  Within(v, Redeemed(w, e)) /\ Within(v, RedeemedForShutdown(w, e))
<1> DEFINE f == fetchPrice(w, e).w
           d == drip(updateRateAndPar(f, e), e)
           ok == d.ok /\ ~w.tm.shut
           okShut == f.ok /\ w.tm.shut
<1>1. Within(v, f)
  BY FetchWithin DEF fetchPrice
<1>2. Within(v, d)
  <2> HIDE DEF f
  <2> QED
    BY <1>1, GetWithin
<1>3. Within(v, WithOk(d, ok))
  <2>1. ok \in BOOLEAN /\ (ok => d.ok)
    BY Zenon
  <2> HIDE DEF d, ok
  <2> QED
    BY <1>2, <2>1, RequireWithin
<1>4. Within(v, WithOk(f, okShut))
  <2>1. okShut \in BOOLEAN /\ (okShut => f.ok)
    BY Zenon
  <2> HIDE DEF f, okShut
  <2> QED
    BY <1>1, <2>1, RequireWithin
<1>5. Redeemed(w, e) = WithOk(d, ok) /\ RedeemedForShutdown(w, e) = WithOk(f, okShut)
  BY Zenon DEF Redeemed, RedeemedForShutdown, WithOk
<1> QED
  BY <1>3, <1>4, <1>5

LEMMA LiquidatedWithin ==
  ASSUME NEW v \in Joint, NEW w, NEW e \in Found, Within(v, w)
  PROVE  Within(v, Liquidated(w, e)) /\ Within(v, Withdrawn(w, e))
BY GetWithin, FetchWithin DEF Liquidated, Withdrawn, fetchPrice

LEMMA RelayerCallsWithin ==
  ASSUME NEW v \in Joint, NEW w, NEW e \in Found, Within(v, w), NEW u \in RelayerCalls(w, e)
  PROVE  Within(v, u)
BY UpdateWithin, GetWithin DEF RelayerCalls

-----------------------------------------------------------------------------
(***************************************************************************)
(* The theorems                                                            *)
(***************************************************************************)

\* The inductive invariant: between transactions the joint state is of its type and together.
JointInv == Before \in Joint /\ Together(Before)

SettlementStep ==
  /\ tm.shut => tm' = tm
  /\ ~tm.shut /\ tm'.shut => tm'.par = par' /\ age' = [par |-> 0, rate |-> 0]
  /\ feed.source # "primary" =>
       feed'.source # "primary" /\ feed'.lastGoodPrice <= feed.lastGoodPrice

LEMMA BeforeFields ==
  /\ Before.age = age /\ Before.par = par /\ Before.feed = feed /\ Before.debt = debt
  /\ Before.bo = bo /\ Before.tm = tm /\ Before.ok = TRUE
BY Zenon DEF Before

LEMMA PriceIsNat ==
  ASSUME NEW price \in Prices
  PROVE  price \in Nat /\ price <= price
BY ShutdownAssumption

\* Before a transaction made a call it is within itself.
LEMMA BeforeWithin == JointInv => Within(Before, Before)
<1>1. ASSUME NEW v \in Joint, Together(v)
      PROVE  Within(v, v)
  <2>1. v.feed \in Feeds
    BY DEF Joint
  <2>2. v.feed.lastGoodPrice \in Prices
    BY <2>1 DEF Feeds
  <2>3. v.feed.lastGoodPrice <= v.feed.lastGoodPrice
    BY <2>2, PriceIsNat
  <2>4. Settled(v, v)
    BY <2>3 DEF Settled
  <2> QED
    BY <1>1, <2>4 DEF Within
<1> QED
  BY <1>1 DEF JointInv

\* What a transaction does, once it goes through.
LEMMA TakesStep ==
  ASSUME NEW w, Within(Before, w), Takes(w)
  PROVE  JointInv' /\ SettlementStep
<1>1. w \in Joint /\ w.ok /\ Together(w) /\ Settled(Before, w)
  BY DEF Within, Takes
<1>2. /\ age' = w.age /\ par' = w.par /\ feed' = w.feed /\ debt' = w.debt
      /\ bo' = w.bo /\ tm' = w.tm
  BY DEF Takes
<1>3. Before' = [age |-> w.age, par |-> w.par, feed |-> w.feed, debt |-> w.debt,
                 bo |-> w.bo, tm |-> w.tm, ok |-> TRUE]
  BY <1>2, Zenon DEF Before
<1> DEFINE b == [age |-> w.age, par |-> w.par, feed |-> w.feed, debt |-> w.debt,
                 bo |-> w.bo, tm |-> w.tm, ok |-> TRUE]
<1>4. b \in Joint
  BY <1>1, Zenon DEF Joint
<1>5. b.feed = w.feed /\ b.bo = w.bo /\ b.tm = w.tm
  BY Zenon
<1> HIDE DEF b
<1>6. Together(b)
  BY <1>1, <1>5 DEF Together
<1>7. JointInv'
  <2>1. Before' = b
    BY <1>3 DEF b
  <2>2. JointInv' <=> Before' \in Joint /\ Together(Before')
    BY DEF JointInv, Joint, Feeds, Together
  <2> QED
    BY <1>4, <1>6, <2>1, <2>2
<1>8. SettlementStep
  BY <1>1, <1>2, BeforeFields DEF Settled, SettlementStep
<1> QED
  BY <1>7, <1>8

\* Time, the oracles and a step that changes nothing leave the contracts alone.
LEMMA QuietStep ==
  ASSUME JointInv, age' \in [par : Nat, rate : Nat], UNCHANGED <<par, feed, debt, bo, tm>>
  PROVE  JointInv' /\ SettlementStep
<1> DEFINE b == [age |-> age', par |-> par, feed |-> feed, debt |-> debt, bo |-> bo, tm |-> tm,
                 ok |-> TRUE]
<1>1. b.feed = feed /\ b.bo = bo /\ b.tm = tm
  BY Zenon
<1>2. /\ par \in Pars /\ feed \in Feeds /\ debt \in BOOLEAN /\ bo \in BOOLEAN
      /\ tm \in [shut : BOOLEAN, par : Nat, oracleFailure : BOOLEAN]
  BY BeforeFields, Zenon DEF JointInv, Joint
<1>3. b \in Joint
  BY <1>2, Zenon DEF Joint
<1>4. Before' = b
  BY Zenon DEF Before
<1> HIDE DEF b
<1>5. Together(b)
  BY <1>1, BeforeFields DEF JointInv, Together
<1>6. JointInv'
  <2>1. JointInv' <=> Before' \in Joint /\ Together(Before')
    BY DEF JointInv, Joint, Feeds, Together
  <2> QED
    BY <1>3, <1>4, <1>5, <2>1
<1>7. feed.lastGoodPrice \in Prices
  BY <1>2 DEF Feeds
<1>8. feed.lastGoodPrice <= feed.lastGoodPrice
  BY <1>7, PriceIsNat
<1>9. SettlementStep
  BY <1>8 DEF SettlementStep
<1> QED
  BY <1>6, <1>9

LEMMA NextStep ==
  ASSUME JointInv, [ShutdownNext]_shutdownVars
  PROVE  JointInv' /\ SettlementStep
<1> DEFINE v == Before
<1>0. v \in Joint /\ Within(v, v)
  BY BeforeWithin DEF JointInv
<1>1. CASE Borrow
  BY <1>0, <1>1, BorrowedWithin, TakesStep DEF Borrow
<1>2. CASE AskShutdown
  BY <1>0, <1>2, ShutdownAskedWithin, TakesStep DEF AskShutdown
<1>3. CASE Liquidate
  BY <1>0, <1>3, LiquidatedWithin, TakesStep DEF Liquidate
<1>4. CASE Redeem
  BY <1>0, <1>4, RedeemedWithin, TakesStep DEF Redeem
<1>5. CASE RedeemForShutdown
  BY <1>0, <1>5, RedeemedWithin, TakesStep DEF RedeemForShutdown
<1>6. CASE Withdraw
  BY <1>0, <1>6, LiquidatedWithin, TakesStep DEF Withdraw
<1>7. CASE CallRelayer
  BY <1>0, <1>7, RelayerCallsWithin, TakesStep DEF CallRelayer
<1>8. CASE FetchPrice
  BY <1>0, <1>8, FetchWithin, TakesStep DEF FetchPrice
<1>9. age \in [par : Nat, rate : Nat]
  BY BeforeFields, Zenon DEF JointInv, Joint
<1>10. CASE Tick
  <2>1. age' \in [par : Nat, rate : Nat]
    BY <1>9, <1>10, ShutdownAssumption DEF Tick, LowerOf
  <2> QED
    BY <1>10, <2>1, QuietStep DEF Tick
<1>11. CASE OracleChanges
  BY <1>9, <1>11, QuietStep DEF OracleChanges
<1>12. CASE UNCHANGED shutdownVars
  BY <1>9, <1>12, QuietStep DEF shutdownVars
<1> QED
  BY <1>1, <1>2, <1>3, <1>4, <1>5, <1>6, <1>7, <1>8, <1>10, <1>11, <1>12 DEF ShutdownNext

LEMMA InitJoint == ShutdownInit => JointInv
<1> SUFFICES ASSUME ShutdownInit
             PROVE  JointInv
  OBVIOUS
<1>1. /\ par \in Pars /\ debt \in BOOLEAN /\ bo \in BOOLEAN
      /\ tm \in [shut : BOOLEAN, par : Nat, oracleFailure : BOOLEAN]
  BY ShutdownAssumption DEF ShutdownInit, Open
<1>2. age \in [par : Nat, rate : Nat]
  BY ShutdownAssumption DEF ShutdownInit
<1>3. feed \in Feeds /\ feed.source = "primary"
  BY DEF ShutdownInit, Feeds
<1>4. Before \in Joint
  BY <1>1, <1>2, <1>3, Zenon DEF Before, Joint
<1>5. bo = FALSE /\ tm.shut = FALSE /\ tm.oracleFailure = FALSE
  BY Zenon DEF ShutdownInit, Open
<1>6. Together(Before)
  BY <1>3, <1>5, BeforeFields DEF Together
<1> QED
  BY <1>4, <1>6 DEF JointInv

(***************************************************************************)
(* The contracts are shut down together, and a feed leaves its primary     *)
(* source only with them, whatever the prices and the limits: the calls    *)
(* of a transaction that stop half-way (a second update of the Relayer in  *)
(* a block) revert the whole of it.                                        *)
(***************************************************************************)
THEOREM ShutsDownTogether == ShutdownSpec => []ShutDownTogether
<1>1. JointInv => ShutDownTogether
  BY BeforeFields DEF JointInv, Together, ShutDownTogether
<1> QED
  BY <1>1, InitJoint, NextStep, PTL DEF ShutdownSpec

(***************************************************************************)
(* What redeemers settle at is fixed by the shutdown: no transaction after *)
(* it changes the par and the flags recorded, and a feed that has left its *)
(* primary source neither returns nor shows a higher price.                *)
(***************************************************************************)
THEOREM SettlementIsFixed == ShutdownSpec => SettlementFixed
<1>1. ASSUME JointInv, [ShutdownNext]_shutdownVars
      PROVE  [SettlementStep]_shutdownVars
  BY <1>1, NextStep
<1>2. ShutdownSpec => [][SettlementStep]_shutdownVars
  BY <1>1, InitJoint, NextStep, PTL DEF ShutdownSpec
<1> QED
  BY <1>2 DEF SettlementFixed, SettlementStep
=============================================================================
