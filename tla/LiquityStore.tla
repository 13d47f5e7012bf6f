----------------------------- MODULE LiquityStore -----------------------------
(***************************************************************************)
(* The client's store of protocol state: LiquityStore.ts (lib-base), its   *)
(* implementation BlockPolledLiquityStore.ts (lib-ethers), the provider    *)
(* component and the selector hook of lib-react that show it.              *)
(*                                                                         *)
(* JavaScript runs one callback at a time: a step is the code between two  *)
(* awaits, timer events or answers of the node.  Answers come in any order *)
(* and may fail.  The derived state (_derive, _reduceDerived) depends on   *)
(* the base state and the time of day, which UpdateTimer is there for; no  *)
(* view of the model selects a derived field, and it is not kept.          *)
(***************************************************************************)
EXTENDS Integers, FiniteSets

CONSTANTS
  Fields,       \* the state variables of LiquityStoreBaseState
  Content,      \* Content[f][b]: the value of field f at block b
  MaxBlock,     \* bound on the height of the chain
  Views,        \* components that use useLiquitySelector
  Selects,      \* the field each of them selects
  Slots,        \* names for fetches under way: bounds their number
  MaxFailures,  \* bound on the fetches that fail
  MaxStops,     \* bound on the number of times the store is stopped
  NoBlock       \* blockTag left undefined

ASSUME StoreAssumption ==
  /\ MaxBlock \in Nat \ {0} /\ MaxFailures \in Nat /\ MaxStops \in Nat
  /\ NoBlock \notin Nat
  /\ Content \in [Fields -> [1..MaxBlock -> Nat]]
  /\ Selects \in [Views -> Fields]

VARIABLES
  chainHead,    \* the latest block of the node
  running,      \* between start and the stop function it returned
  latestBlock,  \* of the _doStart closure
  blockTimer,   \* its timerId is pending
  fetches,      \* the _get calls under way, by slot
  store,        \* _loaded, _baseState and _extraState.blockTag
  updateTimer,  \* _updateTimeoutId is pending
  mounted,      \* loadedStore of LiquityStoreProvider is set
  listeners,    \* _listeners
  round,        \* the _notify under way: who is left, whether one was called, the state before
  phase,        \* of each view: "off", "rendered" (its effect not yet run) or "on"
  shown,        \* what each view shows
  missed,       \* history: the field changed after the view was rendered, before it subscribed
  failures, stops

storeVars == <<chainHead, running, latestBlock, blockTimer, fetches, store, updateTimer, mounted,
               listeners, round, phase, shown, missed, failures, stops>>

Blocks == 1..MaxBlock
NoValue == -1

\* subscribe wraps the function it is given: the listener of a view that unsubscribes and
\* subscribes again is another one.  A view has at most one listener in the set and one
\* more in the round under way, so two names are enough.
Listeners == Views \X {0, 1}
Wrapped(v) == IF <<v, 0>> \in round.todo THEN <<v, 1>> ELSE <<v, 0>>

\* A _get call: its block tag and the values that have arrived.  pending tells a fetch
\* from a free slot.
Fetch(tag) == [pending |-> TRUE, tag |-> tag, base |-> [f \in Fields |-> NoValue]]
Free == [pending |-> FALSE, tag |-> NoBlock, base |-> [f \in Fields |-> NoValue]]

StoreInit ==
  /\ chainHead = 1
  /\ running = FALSE /\ latestBlock = NoBlock /\ blockTimer = FALSE
  /\ fetches = [s \in Slots |-> Free]
  /\ store = [loaded |-> FALSE, base |-> [f \in Fields |-> NoValue], blockTag |-> NoBlock]
  /\ updateTimer = FALSE /\ mounted = FALSE
  /\ listeners = {}
  /\ round = [todo |-> {}, called |-> FALSE, old |-> [f \in Fields |-> NoValue]]
  /\ phase = [v \in Views |-> "off"]
  /\ shown = [v \in Views |-> NoValue]
  /\ missed = [v \in Views |-> FALSE]
  /\ failures = 0 /\ stops = 0

viewVars == <<listeners, phase, shown>>
sessionVars == <<running, latestBlock, blockTimer, stops>>

\* No listener is being called: the event loop may start the next callback.
EventLoop == round.todo = {}

select(v, base) == base[Selects[v]]

-----------------------------------------------------------------------------
(***************************************************************************)
(* The chain, and the answers of the node.                                 *)
(***************************************************************************)

NewBlock ==
  /\ chainHead < MaxBlock
  /\ chainHead' = chainHead + 1
  /\ UNCHANGED <<sessionVars, fetches, store, updateTimer, mounted, viewVars, round, missed,
                 failures>>

\* Variant: one of the requests of _get leaves out the block tag.
BlockReadUntagged(f, tag) ==
  IF tag = NoBlock \/ f = CHOOSE g \in Fields : TRUE THEN chainHead ELSE tag

\* The block a request of _get is answered from: the tag they all carry, or the latest.
BlockRead(f, tag) == IF tag = NoBlock THEN chainHead ELSE tag

\* One of the requests of _get is answered.
NodeReads(s, f) ==
  /\ fetches[s].pending /\ fetches[s].base[f] = NoValue
  /\ fetches' = [fetches EXCEPT ![s].base[f] = Content[f][BlockRead(f, fetches[s].tag)]]
  /\ UNCHANGED <<chainHead, sessionVars, store, updateTimer, mounted, viewVars, round, missed,
                 failures>>

\* promiseAllValues resolves once every request has.
AllAnswered(fetch) == \A f \in Fields : fetch.base[f] # NoValue

\* One of them fails: promiseAllValues rejects and the result is dropped.
FetchFails(s) ==
  /\ fetches[s].pending
  /\ ~AllAnswered(fetches[s])
  /\ failures < MaxFailures
  /\ failures' = failures + 1
  /\ fetches' = [fetches EXCEPT ![s] = Free]
  /\ UNCHANGED <<chainHead, sessionVars, store, updateTimer, mounted, viewVars, round, missed>>

-----------------------------------------------------------------------------
(***************************************************************************)
(* BlockPolledLiquityStore._doStart and LiquityStore.start                 *)
(***************************************************************************)

\* LiquityStoreProvider's effect: onLoaded is set and the store starts with a first _get
\* of the latest block.
start ==
  /\ EventLoop
  /\ ~running
  /\ \E s \in Slots :
       /\ ~fetches[s].pending
       /\ fetches' = [fetches EXCEPT ![s] = Fetch(NoBlock)]
  /\ running' = TRUE
  /\ latestBlock' = NoBlock
  /\ UNCHANGED <<chainHead, blockTimer, stops, store, updateTimer, mounted, viewVars, round, missed, failures>>

\* Math.max(blockTag, latestBlock ?? blockTag): events of a node that lags do not count.
LatestOf(b) == IF latestBlock = NoBlock \/ b > latestBlock THEN b ELSE latestBlock

\* The provider reports a block; the timer of an earlier report is cleared and set anew.
blockListener(b) ==
  /\ EventLoop
  /\ running
  /\ b <= chainHead
  /\ latestBlock' = LatestOf(b)
  /\ blockTimer' = TRUE
  /\ UNCHANGED <<chainHead, running, stops, fetches, store, updateTimer, mounted, viewVars, round,
                 missed, failures>>

\* The timer fires: handleBlock starts a _get of the latest block heard of.
handleBlock ==
  /\ EventLoop
  /\ blockTimer
  /\ blockTimer' = FALSE
  /\ \E s \in Slots :
       /\ ~fetches[s].pending
       /\ fetches' = [fetches EXCEPT ![s] = Fetch(latestBlock)]
  /\ UNCHANGED <<chainHead, running, latestBlock, stops, store, updateTimer, mounted, viewVars, round,
                 missed, failures>>

\* _load: the first state.  onLoaded is set while the provider component is mounted.
_load(fetch) ==
  /\ store' = [loaded |-> TRUE, base |-> fetch.base, blockTag |-> fetch.tag]
  /\ mounted' = running
  /\ UNCHANGED <<round, missed>>

\* Variant: the old state handed to the listeners is read after the update.
NotifyLate(base) == [todo |-> listeners, called |-> FALSE, old |-> store'.base]

\* _notify walks a copy of the listeners made before the first is called.
_notify(base) == [todo |-> listeners, called |-> FALSE, old |-> base]

\* _update: the new state replaces the old one, whatever block the old one came from.
_update(fetch) ==
  /\ store' = [store EXCEPT !.base = fetch.base,
                            !.blockTag = IF fetch.tag = NoBlock THEN store.blockTag ELSE fetch.tag]
  /\ round' = _notify(store.base)
  /\ missed' = [v \in Views |->
                  \/ missed[v]
                  \/ phase[v] = "rendered" /\ select(v, fetch.base) # shown[v]]
  /\ UNCHANGED mounted

\* Variant: whatever arrives after the first state is dropped.
UsedOnce(fetch) == ~store.loaded

\* The first _get of a start is dropped when a state is there already.
Used(fetch) == ~store.loaded \/ fetch.tag # NoBlock

\* A _get is complete; after a stop the answer is still used.
Arrive(s) ==
  /\ EventLoop
  /\ fetches[s].pending
  /\ AllAnswered(fetches[s])
  /\ fetches' = [fetches EXCEPT ![s] = Free]
  /\ LET fetch == fetches[s]
         used == Used(fetch)
     IN /\ IF ~store.loaded THEN _load(fetch)
           ELSE IF used THEN _update(fetch)
           ELSE UNCHANGED <<store, mounted, round, missed>>
        /\ updateTimer' = (updateTimer \/ used)
  /\ UNCHANGED <<chainHead, sessionVars, viewVars, failures>>

\* Thirty seconds without news: _update with no new base state, and the timer again.
UpdateTimer ==
  /\ EventLoop
  /\ updateTimer
  /\ UNCHANGED <<chainHead, sessionVars, fetches, store, updateTimer, mounted, viewVars, missed, failures>>
  /\ round' = _notify(store.base)

\* The effect's cleanup: onLoaded is cleared, the page is taken down, the block listener and
\* both timers are removed.  Fetches go on.
stop ==
  /\ EventLoop
  /\ running
  /\ stops < MaxStops
  /\ stops' = stops + 1
  /\ running' = FALSE
  /\ blockTimer' = FALSE
  /\ updateTimer' = FALSE
  /\ mounted' = FALSE
  /\ listeners' = {}
  /\ phase' = [v \in Views |-> "off"]
  /\ missed' = [v \in Views |-> FALSE]
  /\ UNCHANGED <<chainHead, latestBlock, fetches, store, round, shown, failures>>

-----------------------------------------------------------------------------
(***************************************************************************)
(* Views: useLiquitySelector and the listeners                             *)
(***************************************************************************)

\* _notify looks each listener up in the live set before it calls it.
StillSubscribed(l) == l \in listeners

\* One turn of the loop in _notify.  The listener renders its view again when the field
\* has changed.
CallListener(l) ==
  /\ l \in round.todo
  /\ round' = [round EXCEPT !.todo = @ \ {l}, !.called = @ \/ StillSubscribed(l)]
  /\ LET v == l[1]
     IN shown' = IF StillSubscribed(l) /\ select(v, store.base) # select(v, round.old)
                   THEN [shown EXCEPT ![v] = select(v, store.base)]
                   ELSE shown
  /\ UNCHANGED <<chainHead, sessionVars, fetches, store, updateTimer, mounted, listeners, phase,
                 missed, failures>>

\* Components come and go in their own time, and while a listener that was called renders.
Rendering == EventLoop \/ round.called

\* A render reads the state there and then; subscribe runs later, in an effect.
Render(v) ==
  /\ Rendering
  /\ mounted
  /\ phase[v] = "off"
  /\ phase' = [phase EXCEPT ![v] = "rendered"]
  /\ shown' = [shown EXCEPT ![v] = select(v, store.base)]
  /\ UNCHANGED <<chainHead, sessionVars, fetches, store, updateTimer, mounted, listeners, round,
                 missed, failures>>

\* Variant: the loop walks the live set, and meets whoever subscribes while it runs.
SubscribeToRound(v) ==
  /\ Rendering
  /\ phase[v] = "rendered"
  /\ phase' = [phase EXCEPT ![v] = "on"]
  /\ listeners' = listeners \cup {Wrapped(v)}
  /\ round' = IF EventLoop THEN round ELSE [round EXCEPT !.todo = @ \cup {Wrapped(v)}]
  /\ UNCHANGED <<chainHead, sessionVars, fetches, store, updateTimer, mounted, shown, missed, failures>>

subscribe(v) ==
  /\ Rendering
  /\ phase[v] = "rendered"
  /\ phase' = [phase EXCEPT ![v] = "on"]
  /\ listeners' = listeners \cup {Wrapped(v)}
  /\ UNCHANGED <<chainHead, sessionVars, fetches, store, updateTimer, mounted, round, shown, missed, failures>>

\* The component goes: the effect's cleanup unsubscribes it.
Unmount(v) ==
  /\ Rendering
  /\ phase[v] # "off"
  /\ phase' = [phase EXCEPT ![v] = "off"]
  /\ listeners' = {l \in listeners : l[1] # v}
  /\ missed' = [missed EXCEPT ![v] = FALSE]
  /\ UNCHANGED <<chainHead, sessionVars, fetches, store, updateTimer, mounted, round, shown,
                 failures>>

StoreNext ==
  \/ NewBlock
  \/ \E s \in Slots : (\E f \in Fields : NodeReads(s, f)) \/ FetchFails(s) \/ Arrive(s)
  \/ start \/ stop \/ handleBlock \/ UpdateTimer
  \/ \E b \in Blocks : blockListener(b)
  \/ \E l \in Listeners : CallListener(l)
  \/ \E v \in Views : Render(v) \/ subscribe(v) \/ Unmount(v)

StoreSpec == StoreInit /\ [][StoreNext]_storeVars

\* A loop over the listeners goes on until it is through.
RoundFairness == WF_storeVars(\E l \in Listeners : CallListener(l))

\* Requests are answered, what has arrived is used, timers fire, a loop over listeners ends,
\* and the provider goes on reporting the head (a later block with the same content).
StoreFairness ==
  /\ \A s \in Slots : \A f \in Fields : WF_storeVars(NodeReads(s, f))
  /\ \A s \in Slots : SF_storeVars(Arrive(s))
  /\ SF_storeVars(handleBlock)
  /\ SF_storeVars(blockListener(chainHead))
  /\ RoundFairness

StoreFairSpec == StoreSpec /\ StoreFairness

-----------------------------------------------------------------------------
StoreTypeOK ==
  /\ chainHead \in Blocks /\ latestBlock \in Blocks \cup {NoBlock}
  /\ \A b \in {running, blockTimer, updateTimer, mounted, store.loaded} : b \in BOOLEAN
  /\ \A s \in Slots : fetches[s].tag \in Blocks \cup {NoBlock}
  /\ store.blockTag \in Blocks \cup {NoBlock}
  /\ store.loaded => store.base \in [Fields -> Nat]
  /\ listeners \subseteq Listeners /\ round.todo \subseteq Listeners /\ round.called \in BOOLEAN
  /\ phase \in [Views -> {"off", "rendered", "on"}]

\* The base state of block b, as the node has it.
At(b) == [f \in Fields |-> Content[f][b]]

\* What a read through the store answers: _blockHit of _BlockPolledReadableEthersLiquity
\* serves the store's own state when the tag is the store's, and asks the node otherwise.
ReadThrough(b) == IF store.loaded /\ b = store.blockTag THEN store.base ELSE At(b)

(***************************************************************************)
(* A read at a block gets the state of that block, whole: the cached state *)
(* is never put together from two blocks, although its requests are        *)
(* answered one by one while the chain goes on (_get tags each of them).   *)
(***************************************************************************)
ReadsOneBlock == \A b \in 1..chainHead : ReadThrough(b) = At(b)

(***************************************************************************)
(* The loop of _notify ends, however often the listeners it calls          *)
(* unsubscribe and subscribe each other: its comment says that notifying   *)
(* who subscribes during the loop "could result in infinite loops".  Until *)
(* it ends no other callback runs.                                         *)
(***************************************************************************)
RoundsEnd == []<>EventLoop

(***************************************************************************)
(* A subscribed view shows the state of the store, unless its field had    *)
(* changed between its render and its subscription: an update in that gap  *)
(* reaches no listener, and the later ones compare against a state that    *)
(* already has it (useLiquitySelector).                                    *)
(***************************************************************************)
ShownUnlessMissed ==
  EventLoop =>
    \A v \in Views : (\E l \in listeners : l[1] = v) => missed[v] \/ shown[v] = select(v, store.base)

(***************************************************************************)
(* While it runs, the store catches up with the chain again and again,     *)
(* whatever fetches failed and in whatever order they were answered.       *)
(***************************************************************************)
CatchesUp == (<>[]running) => []<>(store.loaded /\ store.blockTag = chainHead)

=============================================================================
