# A TLA+ model of rd-core

rd-core is a fork of Liquity in Solidity (`packages/contracts/contracts`): borrowers lock
collateral in a *trove* and draw a stablecoin (called LUSD in the code, RD in the docs)
against it. It adds interest that compounds on all debt, *shielded* troves that pay more
interest and are redeemed later, a par price steered by controllers, several collateral
*branches*, and a shutdown per branch. Around the contracts there are a client library, a React
front end and a provider that batches reads. This directory models the contracts that keep the
books of one branch and the parts of the client that keep state, checks the models with TLC
and proves with TLAPS what the checks show on small instances. The protocol's logic is Solidity;
the modules that model TypeScript are named under "The client".

All paths below are relative to `packages/contracts/contracts` unless they start with `src/`.

## Inventory

| Component | State | Operations | Interacts with |
|---|---|---|---|
| `SortedTroves.sol` (one list for base, one for shielded troves) | linked list with head, tail, size | `insert`, `remove`, `reInsert`, search by hint | reads NICRs from `TroveManager`; called by `BorrowerOperations`, `TroveManager` |
| `TroveManager.sol`, `Dependencies/TroveManagerLib.sol` | troves, flags, two arrays of owners, accumulated rates, shutdown record | create, close, toggle shield, `drip`, redemptions, `shutdown` | every other contract of the branch |
| `Rewards.sol` | stakes, running sums, snapshots, division errors | apply pending rewards, update stakes, redistribute, snapshot | `ActivePool`s, `DefaultPool`, `TroveManager` |
| `BorrowerOperations.sol` | shutdown flag | open, adjust (all forms), close, claim, shutdown | price feed, Relayer, all pools |
| `Liquidations.sol` | none | `liquidate`, `batchLiquidate`, `liquidateTroves` | `StabilityPool`, `Rewards`, pools |
| `StabilityPool.sol` | deposits, P, S, G, scale, pending deposits | provide, withdraw, gains to trove, `offset`, `distributeFees` | `Liquidations`, `FeeRouter`, `CommunityIssuance` |
| `ActivePool` (two), `DefaultPool`, `CollSurplusPool`, `GasPool` | collateral, debt, claimable surpluses | transfers between pools | |
| `LUSDToken.sol` | balances, supply | mint, burn, transfer to and from pools | |
| `FeeRouter.sol`, `GlobalFeeRouter.sol` | share for the StabilityPool, pending fees | `allocateFees`, payout | `TroveManager._drip` |
| `Relayer.sol`, `ParControl.sol`, `RateControl.sol`, `Aggregator.sol` | par, rate, base rate, update times | one update per block | read by every transaction |
| `PriceFeeds/*` | price source, last good price | `fetchPrice`, fallback, shutdown of the branch | `BorrowerOperations` |
| `LQTY/*`, `LPRewards/*` | stakes, issuance, lockups | stake, unstake, claim | |
| `src/packages/providers/src/BatchedProvider.ts` | open batch, its tag and timer, requests under way | `call`, dispatch, answers | the node |
| `src/packages/lib-base/src/LiquityStore.ts`, `lib-ethers/src/BlockPolledLiquityStore.ts`, `lib-react` | last state and its block, listeners, timers | start, stop, `_load`, `_update`, `_notify`, `subscribe` | the node, the views |
| `src/packages/dev-frontend/src/components/Transaction.tsx` | one transaction state per page | send, wait for the receipt, take the notice down | wallet, node, buttons |
| `src/packages/dev-frontend/src/components/Trove/context/TroveViewProvider.tsx` | the view of the trove | events of the user, the store and a confirmation | store, buttons |
| rest of the front end, SDK, subgraph | none of the protocol's | | |

A transaction is atomic, so contracts do not interleave. What is hard in them is elsewhere:

* **sequences of transactions** by borrowers, depositors, liquidators and redeemers, in any
  order, at any price, with any time between them, acting on books kept in six contracts;
* **redundant state**: an owner is filed in a struct, a flag, an array and a list; a debt is
  recorded in a trove, in a pool and in the token's supply; totals are updated by differences;
* **values that are stale when used**: hints computed off-chain, keys that move under the
  list, snapshots of running sums;
* **rounding**: normalized and actual debt, two directions of rounding, per-unit sums;
* **one step of several failing**: a revert late in a transaction undoes all of it;
* **loops that must end**, limits on sizes, the last trove of a branch;
* **oracles that fail** in the middle of any transaction, and updates allowed once per block.

In the client callbacks, timers, answers of the node and renders interleave: what was read before
an await or a render is stale after it, answers overtake each other, and something must
still happen in the end.

What makes each component correct: the list is one sorted chain that contains exactly the
active troves of its kind; the four filings of an owner agree; pools, troves and supply tell
the same story about collateral and debt; promised rewards can be paid; no assert fires; a
depositor loses and earns its share; a branch is shut down as a whole and for good; a read is
answered once and at its own block; a view shows what the store has.
`PROJECT.json` lists the hazards at the lines where they bite.

## Modules

| Module | Models | Used by |
|---|---|---|
| `SortedTroves` | the list with its pointers, one search iteration per step | `MCSortedTroves`, `SortedTrovesProofs` |
| `TroveOrder` | abstract: an ordered sequence of owners | refined in `MCSortedTroves`, the refinement proved in `SortedTrovesProofs` |
| `TroveRegistry` | status, flag, owner arrays, list membership, last-trove rule | `MCBooks`, `BooksProofs` |
| `Ledger` | the books: troves, `Rewards` state, pools, rates, stablecoin; conversions and `drip` | the next three |
| `BorrowerOperations` | open, adjust, close, claim, shutdown | `Branch` |
| `Liquidations` | both liquidation entry points, settlement, the StabilityPool's totals | `Branch` |
| `Redemptions` | redemption before and after a shutdown | `Branch` |
| `Branch` | composition: all users of one branch; the properties of the books | `MCBranch`, `BranchProofs`, `RedemptionProofs`, `PoolProofs` |
| `StabilityPool` | deposits, front ends, P, S, G and their scales | `MCBooks`, `BooksProofs` |
| `FeeStaking` | `GlobalFeeRouter` and `LQTYStaking` | `MCBooks`, `BooksProofs` |
| `BranchShutdown` | composition: Relayer, price feed, `BorrowerOperations`, `TroveManager` around a shutdown | itself, `BranchShutdownProofs` |
| `BatchedProvider`, `LiquityStore`, `TransactionMonitor`, `TroveView` | the client | `MCClient`, `ClientProofs` |
| `Sums` | lemmas on sums over finite sets, and on division | `BooksProofs`, `BranchProofs` and what extends it |

`MCBooks` and `MCClient` put components that share no variable into one run: a variable `part`,
chosen at the start, says which of them moves, so their states add up and do not multiply.

### SortedTroves

`data` is `struct Data`; the `nodes` mapping is split into `exists`, `nextId`, `prevId`.
`nicr` stands for `troveManager.getNominalICR`, `search` for an `_insert` under way. `insert`
and `reInsert` take the NICR and any two hints, members or not; `_findInsertPosition` decides
where the loop starts; `DescendStep` and `AscendStep` are one iteration each; `Link` writes
the pointers exactly as the code does (at the ends it links to `head` or `tail`, not to the
position found). NICRs move between transactions: `Redistribute` moves all of them without
swapping two members (a redistribution adds collateral and debt in proportion to stakes; that
this keeps the order, up to the last digit of the division, is taken from Liquity's
analysis), `OtherListMoves` those of the other list's troves. `RedeemInPlace` is
`redeemCollateralForShutdown`, which does not re-insert; `drifted` remembers that it happened.
Interest moves no NICR, because NICRs are over normalized debt.

`TroveOrder` says what callers rely on: an owner is placed between neighbours whose keys enclose
its own, nobody else moves, a removal takes out that owner. `MCSortedTroves` maps the pointers
to the sequence of owners from head to tail, `nicr` to the keys and an insertion under way to
`placing`; a search step is a stutter. `ImplementsTroveOrder` is the refinement.

### TroveRegistry

The operations follow `TroveManagerLib` and `_closeTrove` call by call; `shieldTrove` and
`unShieldTrove` are one definition with the direction as parameter. `arrayIndex` is stale
after a close, as in the code. A list is its set of members; its order is `SortedTroves`'.

### Ledger, BorrowerOperations, Liquidations, Branch

One definition per transaction. Requires, asserts, checked subtractions and insufficient
balances are guards: a transaction that reverts changes nothing and is no step. Conversions
and divisions are the code's, rounding included. Choices made:

* `price` is the collateral price divided by par; a failed oracle makes opening and adjusting
  revert, so it appears only as `shutdownFromOracleFailure`.
* A transaction takes the outcome `d` of the drip it makes, from the set `Drips`: no time
  passed, no deposits, or some growth of the two rates. The growth (`_rpower` of the Relayer's
  rate) is the constant `Growth`. A drip promises its interest (`pending` deposits, `fees`);
  the promise to the StabilityPool is minted when the pool is next used. Fees stay promised
  here; their payout, which changes a promise to supply of the same amount, is in `FeeStaking`.
  The share of the StabilityPool is the constant `spAllocFrac` instead of the controller's
  output.
* Balances outside the gas pool and the StabilityPool are one amount, `Circulating`: holders
  can trade, so any of them can be where a repayment needs it.
* Membership in arrays and lists is `status` and `shielded`, which `BooksProofs` shows
  to be the same thing; `getLast` is a trove of least NICR, which `SortedTrovesProofs` shows
  (ties in any order). After a shutdown redemptions no longer re-insert, so there a list may be
  in any order (`OrdersOf`).
* The loop of a liquidation is a recursive function of the iteration, what is left for offsets;
  the totals are sums per list over the troves gone through. A batch has up to `MaxBatch` troves,
  each once: an address that appears again has no debt by then. The settlement is the
  composition of its stages, in the order of the code: pending rewards, offset,
  redistribution, surplus, snapshots, gas compensation.
* What the pool may offset (`getMaxAmountToOffset`) leaves out the last check of the code, on
  `lastLUSDLossError_Offset`, which is kept in `StabilityPool` and not here: it matters when the pool is
  above its minimum by less than a unit's loss.
* The loop of a redemption is a recursive function of the iteration. Its record carries what is left, the
  two cursors (positions in the given orders), the books as they stand and the totals per list.
  A trove's ratio is read from the state before the loop: the loop changes only troves that
  its cursors have passed. That the partial hint names the right NICR is the caller's choice,
  `hintNICR`. The redemption rate and the discount after a shutdown are parameters. `NoneForNothing`
  is a bound: after a shutdown a trove's last few wei can be worth less than one wei of LUSD, and a
  redemption that takes only these from a list is left out. `_finalizeRedemption` touches the pool of a
  list only if LUSD was redeemed from it (`TroveManager.sol:697`), so such a redemption takes the coins
  from the trove and leaves them in the pool, and `CollateralAddsUp` would be off by that dust.
* The StabilityPool is its two totals; who owns what of them is in `StabilityPool`.

### StabilityPool

`sp` has the pool's totals, `P`, `scale`, the sums per scale and the four remainders. All
divisions are the code's. A transaction begins with a drip that may bring interest and with
an issue of LQTY (`Since`), both any amount of a set; any other transaction of the branch may
drip too (`Drip`). `Settle` is what the three depositor transactions share: payout, snapshots
of deposit and front end, new totals. A liquidation is `offset` with any debt, cut down by `getMaxAmountToOffset`; the asserts are its guards, and
`OffsetNeverAsserts` says they never fail. `DECIMAL_PRECISION` is `SCALE_FACTOR` squared, as
1e18 and 1e9 are.

### FeeStaking

An interest is a pair, all of it and what the StabilityPool's part leaves (`Interest`):
`allocateFees` refills the oracle from what is left, promises the LPs a share of *all* of it,
cut to what is still there, and the stakers the rest, and distributes both when
`distributionFreq` has passed. `stake` and `unstake` begin with a drip, so a distribution can come inside them. The share of the LPs is any of `lpAllocFracs`.

### BranchShutdown

Every transaction is an operator on a record of the joint state, composed from the calls in
the order of the code; `ok` becomes false where one of them reverts, and such a transaction
is no step. `age` is the time since par and rate were updated: zero means in this block, where
the controllers refuse a second update. `up` says which oracles answer. The four kinds of
feed differ in which sources they cannot do without. Troves are one bit (there is debt): the
ratio is then below SCR exactly when the price is below `SafePrice` times par.

### The client

A step is the code between two awaits, timer events, answers or renders.

* `BatchedProvider`: a read waits while its tag is resolved, joins the open batch or goes out
  alone; each read sets the batch's timer again; the dispatch sends what is there; answers come
  in any order or fail. `WebSocketAugmentedProvider` below it is external.
* `LiquityStore`: a fetch is some requests answered one by one, each at the block asked for;
  fetches overlap (`Slots`), fail, and end in `_load` or `_update`, which notify the listeners
  one after the other. A view renders first and subscribes in an effect after it. `subscribe` wraps
  the function it is given, so a view that comes back during a round is a listener that the round
  does not know (`Wrapped`). Derived state, which depends on the time of day as well, is not kept.
* `TransactionMonitor`: setting the state asks for a render; `Commit` is the render with the
  effects and cleanups whose dependencies have changed.
* `TroveView`: `dispatchEvent` works on `viewRef`, a copy of the view that an effect makes after the
  render. The chain changes under the store, which polls: the trove is liquidated or redeemed, or a
  transaction of its owner is mined. What a trove leaves behind is added to the owner's surplus in
  the CollSurplusPool; only `claimCollateral` takes it out, so that it can outlive the next trove as
  well, and the page may be loaded in such a state (`TVInit`). `overtaken` remembers that the trove was
  taken away again while a transaction that is already mined still waits for its confirmation:
  a claim of a surplus confirmed then takes the button of the new surplus away, which the view
  gets back only with the next change of the status. It takes five changes of the trove (`MaxChanges`);
  `ViewMatchesTrove` leaves that one case out. It asks for the button after a liquidation or a
  redemption; what happens to a surplus after the owner's own closing is Finding 6.

## Runs

| Run | Instance | Checks |
|---|---|---|
| `sorted_troves` | 4 owners, 3 places | `ListIntegrity`, `FoundIsValid`, `Sorted`, `InsertEnds`, refinement of `TroveOrder` (its `Limit` included) |
| `books` | 4 owners; 3 depositors or front ends, 5 transactions; 2 stakers, 4 transactions | `OwnersIndexed`, `ListedIffActive`, `NeverEmptied`; `DepositsCovered`, `OffsetNeverAsserts`, `GainsPerShare`; `InterestMintedOnce`, `StakersCovered` |
| `branch_exact` | 3 borrowers, no interest, 6 transactions | stakes, collateral, pending rewards (`DefaultCoversCollateral`, `DefaultCoversDebt`), surplus and gas pool, assert, debt: all exact |
| `branch_interest` | 2 borrowers, interest of 25% and 37.5% per period, 5 transactions | supply against debt, pools against troves, `RedeemsLowestFirst`, `RedemptionCostsNothing` |
| `branch_shutdown` | 4 kinds of feed, 3 oracles, unbounded | `ShutDownTogether`, `SettlementFixed`, `DeadOracleShutsDown` |
| `client` | 4 reads; 2 overlapping fetches, 2 blocks; 2 views over one fetch at a time; 3 transactions; 5 changes of the trove | `OwnAnswerAtOwnBlock`, `EveryReadSettles`; `ReadsOneBlock`, `CatchesUp`; `ShownUnlessMissed`, `RoundsEnd`; `WaitingIsWatched`, `TransactionsEnd`; `ViewMatchesTrove` |
| `pool_collateral`, `active_debt`, `close_rounding`, `shutdown_stale`, `pool_rounding`, `reclaim_surplus` | | each one statement of the documentation, a comment or a test that the code does not keep |

`sorted_troves`, `branch_exact`, `books` and `client` also check type invariants.

What they show, beyond the names. `GainsPerShare` is about steps: an offset gives every deposit
its share of the collateral, units apart and never more, at whatever scale the deposit was made;
nothing else changes what it has earned; a payout empties it once. `DepositsCovered` allows
the deposits to exceed the pool by the two carried remainders, which is what
`pool_rounding` finds. `RedeemsLowestFirst` evaluates in every state every redemption that
could be asked for, with every order of equal keys and every hint. `SettlementFixed` says that the par redeemers settle at is the
one computed in the block of the shutdown, and that a feed which has left its primary source
never returns to it nor to a higher price. `DeadOracleShutsDown`: openings and adjustments that notice a
dead oracle revert, and the shutdown with them; a plain `fetchPrice` makes it last.

**Bounds.** The list's instances have as many owners as it takes for head, tail and inner
positions, a full list, and hints that are members, strangers or null. Four owners let
swap-and-pop move an owner that is neither the one removed nor a neighbour, in both arrays.
The branch is scaled down: ratios in thousandths (MCR 1100, shielded opening 1300, CCR 1500,
as the code's percentages), rates in eighths so that normalized debts round visibly, two
prices (at 100 a trove opened with 870 at 150 is below MCR, one with 2000 is not), deposits
that cover a trove's debt in part or in full. Six transactions are what it takes to open three
troves, deposit, liquidate with a partial offset and use a trove with pending rewards; within
them surpluses arise, pending rewards are applied, closed and liquidated, a second
redistribution happens, stakes differ from collateral, and two troves go in one liquidation.
With interest, five transactions open two troves in different lists, let interest accrue and redeem
from both; closing one by redemption leaves the other.
In the StabilityPool `SCALE_FACTOR` is 30, deposits 500 or 800 and the largest offset leaves 20:
one offset changes the scale, two in a row after a fee change it twice at once, and a deposit is
read at its own scale, the next, and beyond. `branch_shutdown` has two prices a percent
apart, on either side of the deviation threshold and of SCR, and staleness limits of two and
one time units, so that each of par and rate can be stale while the other is not.
The client's instances are as small as their interleavings allow: reads with the same, an equal
and a different tag and one that cannot be batched; two transactions of one button and one of
another; two fetches that overtake each other, without views (the part "store" of `MCClient`), and
views that come, subscribe and go while the listeners are called, over one fetch at a time that
does not fail (the part "page"): fetches reach the views through `_update` alone. The fees come as no interest, a little and much of it (`MCInterest`), with an
oracle that is short of two and filled up to four, so that it can be all the oracle's, leave the
LPs less than their share, or be split between LPs and stakers.
`MaxOps`, `MaxBatch`, `MaxFees`, `MaxScale`, `MaxRate`, `MaxUint`, `MaxNICR`, `MaxBlock`, `MaxFailures`,
`MaxStops`, `MaxReconnects` and `MaxChanges` are the bounds on what the code leaves unbounded.
Borrowers are symmetric in the passing runs of `Branch` and in `active_debt`, users in `books`; the
other violated runs and those with liveness use no symmetry.
What books of debt may lose to rounding grows with the transactions: `DebtTracked` allows each
of them two units for each borrower in each pool (`TroveRounding`), because a transaction rounds what
it takes from a trove at most twice, once in what it takes and once in the part that stays.
While a rate has not grown nothing is rounded at it, so `DebtAddsUp` asks each pool to be exact until
the rate of that pool moves, whatever the other one does. Deadlock is not checked where the bounds on transactions end
behaviours (`Branch`, `books`) or where a page may come to rest (`client`).

**Fairness.**

* `SortedTroves`: weak fairness of the search steps. A search is a loop inside one transaction,
  so once started it goes on.
* `BranchShutdown`: blocks keep coming (weak fairness of `Tick`), and a call of `fetchPrice` that
  would go through again and again is made at last (strong fairness of `FetchPrice`): anyone may call
  it, every liquidation does, and an update of par earlier in a block can make it fail in that block
  only. No other user has to act.
* the client: promises settle, timers fire and renders happen (weak fairness: the event loop
  runs every callback that is due). In the store, an answer that has arrived, the block timer and the
  provider's report of the head get strong fairness, since a stop or a newer block can disable
  them in between; the provider goes on reporting the head because there is always a later block.
  `RoundsEnd` needs no more than that a loop over the listeners, once begun, goes on
  (`RoundFairness`): no component has to stop coming and going.

## Findings

1. **Toggling a shield leaves the collateral behind** (`pool_collateral`).
   `TroveManagerLib.sol:96` and `:132` move the debt between the ActivePools and not the
   collateral. Together the pools always hold the right amount (`CollateralAddsUp`), each of
   them does not; closing or liquidating a toggled trove then fails in `sendCollateral`
   unless its pool happens to hold enough.
2. **A redistributed debt is applied at the wrong unit** (`active_debt`). `Rewards.sol:163`
   adds the actual pending debt to the trove's normalized debt, the pool gets the normalized
   value. After interest the trove owes more than it received. `getCurrentICR` and
   `getNominalICR` mix the units in the same way; `_liquidate` does not.
3. **Closing can ask the pool for more than it has** (`close_rounding`).
   `BorrowerOperations.sol:415` says the two parts round down; `_normalizedDebt` rounds up.
4. **A branch below SCR cannot be shut down while par is stale** (`shutdown_stale`).
   `BorrowerOperations.shutdown` fetches par, which updates it when stale;
   `TroveManager.shutdown` updates it again in the same block, which `ParControl.sol:215`
   refuses. The call works in a later block if par is fresh and not yet updated there. A
   shutdown from a failed oracle does not fetch par first and is not affected.
5. **Deposits can add up to more than the pool** (`pool_rounding`). `StabilityPool.sol:643`
   promises errors in favour of the pool. The excess of one loss is given back at the next one
   (`lastLUSDLossError_Offset`), to deposits that have shrunk or changed hands since. The
   difference is dust (`DepositsCovered`); the same happens to the collateral of the last one paid.

6. **A surplus can be left without its button** (`reclaim_surplus`). `LiquidatedTrove.tsx:27` and
   `RedeemedTrove.tsx:27` ask to "reclaim your remaining collateral before opening a new Trove" and
   show no button that opens one. But a trove may be opened while a surplus is left (by another front
   end: `openTrove` does not ask), and `closeTrove` (`BorrowerOperations.sol:389`) leaves the
   CollSurplusPool alone. A page on which the owner has closed that trove shows `NoTrove`, which opens
   a new trove and offers no claim; the surplus shows again only after the next liquidation or
   redemption.

### Other deviations met while modelling

These are what the models do, following the code; no run states the opposite.

* `Liquidations.sol:487`: `liquidateTroves` skips a list with one owner although the other list
  has troves; the comment at 403 promises the lowest trove of the system first.
* `StabilityPool.sol:1034`: the check that stops withdrawals asks the base list only;
  `src/README.md:1712` speaks of every trove in the system.
* `StabilityPool.sol:850`: a front end's stake is called the sum of its deposits; it is rounded by
  itself, and `withdrawFromSP` takes no more than that stake, so that "withdraws all" (410) can leave
  dust. Interest makes `P` grow beyond `DECIMAL_PRECISION`, unlike in Liquity.
* `LQTYStaking.sol:191`: fees that arrive while nobody stakes belong to nobody.
  `increaseF_Collateral` has no caller.
* `TroveManager.sol:510`: a redemption updates par and rate last, so two in one block, or one whose
  `fetchPrice` shut the branch down, revert.
* `TroveManager.drip` does not ask whether the branch is shut down; the callers do.
* `CompositePriceFeed` returns its failure flag only for the call that leaves the primary source,
  and `Relayer.nextRate` previews the rate with the error functions of par.
* `LiquityStore.ts:263`: a fetch under way when the store is stopped sets the update timer again,
  although start promises a "Function to stop the monitoring" (258).
* `BlockPolledLiquityStore.ts:188`: a slow answer for an older block replaces a newer state until
  the next fetch (`CatchesUp` holds all the same).
* `Transaction.tsx:307`: the cleanup of one monitor resets the state of another button's
  transaction, which may then never be reported (`TransactionsEnd` excludes it).

## Proofs

TLC checks an instance; what follows holds for every value of the constants that satisfies the
named assumptions. Every proof has the same shape: an invariant that implies the property and
that every action preserves, found with TLC first.

| Module | Theorems | Needs, beyond the property |
|---|---|---|
| `SortedTrovesProofs` | `TypeOK`, `ListIntegrity`, `FoundIsValid`, `Sorted`, `SizeBounded`, `ImplementsTroveOrder` | the list as a sequence; where a search can be |
| `BooksProofs` | of the registry `OwnersIndexed`, `ListedIffActive`, `NeverEmptied`; `InterestMintedOnce`, `StakersCovered`, `OffsetNeverAsserts` (below a threshold), the types of all books, the pool's balance | each other; what is held against what is earned; the bound of `P`; snapshots below the sums |
| `BranchProofs` | `BranchTypeOK`, `StakesAddUp`, `CollateralAddsUp`, `SidePoolsBacked` | each other; snapshots below the running sums; an invariant of the redemption loop |
| `RedemptionProofs` | `RedemptionCostsNothing` | how lots round; what an iteration leaves of every trove, those behind and those ahead of the cursors |
| `PoolProofs` | `DefaultCoversCollateral`; `DebtAddsUp`, `DebtTracked` | what all stakes have earned since their snapshots, with the carried error; the gap of each pool against the transactions so far, what a redemption has yet to take from the pools |
| `BranchShutdownProofs` | `ShutDownTogether`, `SettlementFixed` | the joint state of feed and branch |
| `ClientProofs` | of the store `ReadsOneBlock`, `ShownUnlessMissed`; `OwnAnswerAtOwnBlock`, `WaitingIsWatched`, `ViewMatchesTrove`, `ClientTypeOK` | which blocks answers were read at, who is on the list of a notification; where each read is; which render each effect belongs to; what a confirmation can still say |
| `Sums` | lemmas only: a sum over a finite set, when one member changes, is compared, split, added, scaled or taken per key; bounds of quotients | |

**SortedTroves** (`IdsAssumption`, `SizeAssumption`). None of the four properties is inductive by
itself. The invariant has the list as a sequence (`Represents`: some injective sequence has
exactly the stored pointers), that the node being inserted is not a member, that a search position
is a pair of neighbours of that sequence, and that what is above it (or below it, when ascending)
is on the right side of the NICR; the last two are what keeps a loop from reaching `(0, 0)`. The
lemmas say what `Linked` and `_remove` do to the sequence. The same sequence carries the refinement:
walking the pointers gives it (`ChainIsSequence`, by the least place where the two could differ),
`_remove` takes one place out of it and `Link` splices one in, where the position that was found says that
the keys around it enclose the new one; a search step changes nothing that callers see.

**TroveRegistry.** `RegistryInvariance` needs `OwnersIndexed` and `ListedIffActive` together
with the type invariant: swap-and-pop is correct because the index it uses is the owner's
own. The lemmas say what adding to and removing from an array do to positions.

**FeeStaking** (`FeeAssumption`). `StakersCovered` speaks of the sum of the gains as rounded down;
what a step preserves is `EarningsHeld`, the same sum before the division: `PRECISION` times what
the contract holds for stakers covers every stake times what `F` has grown since its snapshot. A
distribution raises `F` by a quotient rounded down, so that the sum grows by no more than what
came in; a stake pays a gain out, rounded down, and takes its snapshot at the `F` after the drip
(the mutant of `_updateUserSnapshots` takes it before, and breaks exactly this).

**StabilityPool** (`PoolAssumption`). `PoolInv` adds to the types that a deposit's snapshot was
taken at a scale the pool has reached, with a `P` above `SCALE_FACTOR` and a sum `S` no higher
than that scale's sum today: without it gains could be negative and a compounded deposit
would divide by zero. `ShrinkBooks` is the argument about scales: a factor above zero leaves `P`
above `SCALE_FACTOR` after at most two changes. `OffsetsNeverAssert` is about pools below
`MIN_LUSD_IN_SP * DECIMAL_PRECISION`. The threshold is not an artefact: with more in the pool the
minimum that stays behind is less than one unit of loss per unit staked, the factor becomes zero
and the assertion on `P` would fire. In the contract it is 10^36 coins' smallest units, i.e. 10^18
coins. Of `DepositsCovered` the first part is proved (`BalanceIsOwed`). The second, that deposits
exceed the pool by no more than the carried remainders, is not: interest multiplies an error made
before it, and no bound independent of the number of transactions holds.

**Branch** (`UnitsAssumption` of `Ledger`, `PenaltiesAssumption` of `Liquidations`,
`InputsAssumption` of `Branch`: units and ratios are natural numbers, borrowers are finite,
prices are above zero, fees and discounts are fractions). `BranchInv` has the four properties
together, and that no snapshot is above its running sum; none stands alone. Applying a
reward moves collateral from the DefaultPool to an ActivePool and to a trove, which keeps the
pools equal to the troves only because both are the same amount and an amount at all; a stake is
divided by a snapshot total; a loss of the gas pool is paid by the trove that closes.

* *Openings, adjustments, closings* change one trove. `AccountChange` says what that does to
  every sum; `PoolChange` what a change of one pool does to both. A toggle moves debt and
  leaves collateral, so the sum over both pools is what can be proved (Finding 1).
* *Liquidations* go through an array. By induction over the array what is left for offsets
  never falls below zero; the values of one trove split its collateral into gas compensation,
  offset, redistribution and surplus (`getCappedOffsetAndRedistributionVals`), and `SumByKey`
  adds them up per pool, so that the settlement takes from the two pools what the troves lose.
* *Redemptions* have a loop. `LoopInv` says of the record carried along, unless the
  transaction has reverted: its books are typed and add up, the pools holding the collateral of
  the troves and what has been drawn so far; the troves from a cursor on are as they were
  before the loop; what was redeemed and what is left make up the amount asked for; the troves
  closed and those still active are the active ones at the start. `RedeemedTrove` is one
  iteration, `LoopEnds` the induction, `RedeemStep` the payout and the burning after it.

**RedemptionCostsNothing** is about a loop that a state could start. A lot is converted to
normalized debt and back, and the code compares the two with a test that takes a normalized debt for
an actual one; `LotCovered` says that the lot so found stands for no less debt than was asked for, `LotWorth`
that the collateral drawn for it is worth no more, and `RestIsFair` is about a trove that is
closed and leaves the rest to claim. `LoopIsFair` carries `Worth` of every trove through the
loop: one behind the cursors was treated fairly, one ahead of them has its trove and its rewards
as they were (`OthersSame`), so that an iteration touches exactly one. It is about redemptions before
a shutdown: the discount given after one takes from the owners on purpose.

**DefaultCoversCollateral** rounds each trove's reward down, so a step could break it by a unit. What
a step preserves is `Covered`, before the division: what the DefaultPool holds, times
`DECIMAL_PRECISION`, is at least the sum of each stake times the growth of `L_Coll` since its snapshot,
*plus* the remainder of the last redistribution (`collError`), which the next one adds to what it
divides and would otherwise promise twice. `SharedOut` is that step: the quotient
times `totalStakes`, with the new remainder, is what came in and the old one. It needs `StakesAddUp`;
applying a reward, liquidating its owner and redeeming from it all take the quotient of
that trove's own product. In a liquidation the pending rewards of all troves gone through leave
the pool first, and the troves that are gone have no stake in what is shared out after that.

**DebtAddsUp** and **DebtTracked** share one invariant, `DebtInv`. `Gap` is what an ActivePool records
beyond the debt of its own troves. `Tracked` bounds it, while the pool's rate is `RATE_PRECISION` or
`L_LUSDDebt` is zero, by the number of transactions times `Slack`, which is zero at a rate that
has not grown and two units per trove at any other; `Cleared` says that an owner without an active trove owes
nothing. An exception that has ended never returns, since rates and `L_LUSDDebt` only grow
(`DripsGrow`, `DebtSumGrows`), so that a step which keeps the gap within `Slack` keeps
`Tracked`. Each action has such a lemma:

* Opening, adjusting and closing touch one trove, and `Own`, its part of the gap, changes by what one
  conversion to normalized debt rounds. A toggle of the shield takes the old debt out of
  one pool and puts the new one into the other (`ToggleOwn`).
* A liquidation closes every trove of the array. What one of them had and what its pool is told to
  lose differ by one unit at most, and `RemaindersOfLiquidation` adds that up per pool.
* In a redemption the troves lose debt lot by lot, in normalized units, and the pools lose it once at the
  end, as the rounded total. `Tally` is carried through the loop: what the troves have lost, times
  the rate, is what is left to take from the pool, within two units of normalized debt for each lot.
  A trove is visited at most once, so that `TroveRounding` is enough for all of them.

Redistributed debt is where the bound ends: `_applyPendingRewards` adds the actual amount to the
trove and the normalized one to the pool, which are the same only while the rate has not grown.

**BranchShutdown.** `JointInv` ties the three flags, the time of the shutdown and the state of
the feed together at the end of each transaction; the operators inside one are unfolded in the
order of the code.

**LiquityStore.** A fetch carries the block it was started for; the invariant says every answer
collected so far was read there. A view that is subscribed and not yet notified is on the list of
the notification under way.

**The client.** `Paired` and `Located` say where each read is (waiting for its tag, in the open
batch, in exactly one request at one place, or settled), so an answer can reach only its own read.
`MonitorInv` relates the state that was set, the one that was rendered and the monitor that runs.
`Follows` and `InOrder` relate the view, the status last handled and the transactions that may
still be confirmed. The attempt to prove `ViewMatchesTrove` failed at first for a good reason:
a claim confirmed late (see `TroveView` above) breaks it, after more changes of the trove
than the run then allowed. The model now records the case and the run's bound was raised to
reach it.

**Not proved.** The liveness properties (`InsertEnds`, `DeadOracleShutsDown`, `EveryReadSettles`,
`CatchesUp`, `RoundsEnd`, `TransactionsEnd`): fairness and `ENABLED` are out of TLAPS's reach. `GainsPerShare`
and the rounding part of `DepositsCovered`: both are bounds on a product of quotients along a history,
and interest multiplies an old error, so that the bound is the instance's. Of `Branch`:

* `DefaultCoversDebt` does not follow from the code in general: `hasPendingRewards` (`Rewards.sol:235`)
  looks at the collateral only, so that a stake can change under a pending debt.
* `StakeAssertHolds` needs every stake to stay above zero, and a small enough collateral rounds
  to no stake: the amounts of the instance cannot, others can.
* `SupplyTracksDebt` has a bound on rounding that counts how often each conversion of the
  instance can round; the interest of a drip is rounded on totals, in five places.
* `RedeemsLowestFirst` compares ratios with interest, the lists are ordered by ratios without;
  the two agree only up to the rounding of normalized debts, and that the lists keep their order when all keys
  move is taken from Liquity's analysis in `SortedTroves` as well.

Induction with an operator as parameter cannot be used here; the sums of `Sums` are reached by
induction over the subsets of a finite set, stated with sets instead of predicates.

## Not modelled

Not modelled, with the reason: what the controllers, the `Aggregator` and `RDOracle` compute
(powers and square roots in 18 decimals, out of TLC's reach; their results are parameters);
`PriceFeed.sol` (the feed of the code base this one was forked from, not wired to the branch);
`CommunityIssuance`, `Unipool` and the lockups (issuance schedules, unchanged from that code base and
apart from the branch); `WebSocketAugmentedProvider` (choice of a transport); the arithmetic of
`lib-base` and the encoding of `lib-ethers` (no state).

Left out for good: `HintHelpers` and `MultiTroveGetter` (read only), ERC20 allowances and
permits, one-time set-up and access control, `LiquidationsNew.sol` (an unused copy), the layout
of the front end, deployment scripts and the subgraph.
