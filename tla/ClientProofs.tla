----------------------------- MODULE ClientProofs -----------------------------
(***************************************************************************)
(* Proofs about the client's components, for any fields, contents, views,  *)
(* reads, transactions and numbers of changes: ReadsOneBlock and           *)
(* ShownUnlessMissed of LiquityStore, WaitingIsWatched of                  *)
(* TransactionMonitor, OwnAnswerAtOwnBlock of BatchedProvider and          *)
(* ViewMatchesTrove of TroveView.                                          *)
(***************************************************************************)
EXTENDS MCClient, FiniteSetTheorems, TLAPS

-----------------------------------------------------------------------------
(***************************************************************************)
(* The store and its subscribers                                           *)
(***************************************************************************)

Heights == 1..chainHead \cup {NoBlock}

Bases == [Fields -> Nat \cup {NoValue}]

\* What has arrived of a fetch with a tag is of that block.
Tagged(fetch) ==
  /\ fetch \in [pending : BOOLEAN, tag : Heights, base : Bases]
  /\ fetch.tag # NoBlock =>
       \A f \in Fields : fetch.base[f] \in {NoValue, Content[f][fetch.tag]}

\* The inductive invariant of ReadsOneBlock.
CacheInv ==
  /\ chainHead \in Blocks
  /\ latestBlock \in Heights
  /\ DOMAIN fetches = Slots
  /\ \A s \in Slots : Tagged(fetches[s])
  /\ store \in [loaded : BOOLEAN, base : Bases, blockTag : Heights]
  /\ store.blockTag # NoBlock => store.base = At(store.blockTag)

-----------------------------------------------------------------------------
(***************************************************************************)
(* The cached state                                                        *)
(***************************************************************************)

\* A new fetch has nothing yet, and neither has a free slot.
LEMMA FetchFields ==
  ASSUME NEW tag \in Heights
  PROVE  /\ Fetch(tag).tag = tag /\ Fetch(tag).base = [f \in Fields |-> NoValue]
         /\ Tagged(Fetch(tag)) /\ Tagged(Free)
<1>1. /\ Fetch(tag).tag = tag /\ Fetch(tag).base = [f \in Fields |-> NoValue]
      /\ Free.tag = NoBlock /\ Free.base = [f \in Fields |-> NoValue]
  BY Zenon DEF Fetch, Free
<1>2. [f \in Fields |-> NoValue] \in Bases /\ NoBlock \in Heights
  BY DEF Bases, NoValue, Heights
<1>3. /\ Fetch(tag) \in [pending : BOOLEAN, tag : Heights, base : Bases]
      /\ Free \in [pending : BOOLEAN, tag : Heights, base : Bases]
  BY <1>2, Zenon DEF Fetch, Free
<1> QED
  BY <1>1, <1>3 DEF Tagged

\* The chain grows under a fetch, and under the store.
LEMMA HeightsGrow ==
  ASSUME CacheInv, chainHead < MaxBlock, chainHead' = chainHead + 1
  PROVE  chainHead' \in Blocks /\ Heights \subseteq Heights'
<1>1. chainHead \in Nat /\ chainHead >= 1 /\ MaxBlock \in Nat
  BY StoreAssumption DEF CacheInv, Blocks
<1> QED
  BY <1>1 DEF Blocks, Heights

\* A slot takes another fetch, and nothing else is read from the node.
LEMMA SlotStep ==
  ASSUME CacheInv, NEW s \in Slots, NEW fetch, Tagged(fetch),
         fetches' = [fetches EXCEPT ![s] = fetch], chainHead' = chainHead
  PROVE  DOMAIN fetches' = Slots /\ \A t \in Slots : Tagged(fetches[t])'
<1>1. DOMAIN fetches = Slots /\ \A t \in Slots : Tagged(fetches[t])
  BY DEF CacheInv
<1>2. DOMAIN fetches' = Slots
  BY <1>1, Zenon
<1>3. ASSUME NEW t \in Slots
      PROVE  Tagged(fetches[t])'
  <2>1. fetches'[t] = fetches[t] \/ fetches'[t] = fetch
    BY <1>1, Zenon
  <2> QED
    BY <1>1, <2>1 DEF Tagged, Heights
<1> QED
  BY <1>2, <1>3

LEMMA CacheStep ==
  ASSUME CacheInv, [StoreNext]_storeVars
  PROVE  CacheInv'
<1>0. NoBlock \in Heights /\ chainHead \in Nat
  BY DEF Heights, CacheInv, Blocks
<1>1. CASE NewBlock
  <2>1. chainHead' \in Blocks /\ Heights \subseteq Heights'
    BY <1>1, HeightsGrow DEF NewBlock
  <2>2. UNCHANGED <<latestBlock, fetches, store>>
    BY <1>1 DEF NewBlock, sessionVars
  <2>3. \A s \in Slots : Tagged(fetches[s])'
    BY <2>1, <2>2 DEF CacheInv, Tagged
  <2> QED
    BY <2>1, <2>2, <2>3 DEF CacheInv
<1>2. ASSUME NEW s \in Slots, NEW f \in Fields, NodeReads(s, f)
      PROVE  CacheInv'
  <2> DEFINE fetch == fetches[s]
             value == Content[f][BlockRead(f, fetch.tag)]
             new == [fetch EXCEPT !.base[f] = value]
  <2>1. Tagged(fetch)
    BY DEF CacheInv
  <2>2. fetch.tag \in Heights /\ fetch.base \in Bases
    BY <2>1 DEF Tagged
  <2>3. BlockRead(f, fetch.tag) \in Blocks
    <3>1. chainHead \in 1..MaxBlock /\ MaxBlock \in Nat
      BY StoreAssumption DEF CacheInv, Blocks
    <3> QED
      BY <2>2, <3>1 DEF Heights, BlockRead, Blocks
  <2>4. value \in Nat
    BY <2>3, StoreAssumption DEF Blocks
  <2>5. fetch.tag # NoBlock => value = Content[f][fetch.tag]
    BY DEF BlockRead
  <2>6. fetches' = [fetches EXCEPT ![s] = new]
    BY <1>2, Zenon DEF NodeReads
  <2> HIDE DEF value
  <2>7. /\ new \in [pending : BOOLEAN, tag : Heights, base : Bases] /\ new.tag = fetch.tag
        /\ new.base = [fetch.base EXCEPT ![f] = value]
    <3> DEFINE b == [fetch.base EXCEPT ![f] = value]
    <3>1. b \in Bases
      BY <2>2, <2>4 DEF Bases
    <3>2. new = [fetch EXCEPT !.base = b]
      BY Zenon
    <3> HIDE DEF b, new, fetch
    <3>3. LET n == [fetch EXCEPT !.base = b]
          IN /\ n \in [pending : BOOLEAN, tag : Heights, base : Bases] /\ n.tag = fetch.tag
             /\ n.base = b
      BY <2>1, <3>1, Zenon DEF Tagged
    <3> QED
      BY <3>2, <3>3 DEF b
  <2> HIDE DEF new
  <2>8. Tagged(new)
    BY <2>1, <2>2, <2>5, <2>7 DEF Tagged, Bases
  <2>9. UNCHANGED <<chainHead, latestBlock, store>>
    BY <1>2 DEF NodeReads, sessionVars
  <2>10. DOMAIN fetches' = Slots /\ \A t \in Slots : Tagged(fetches[t])'
    BY <2>6, <2>8, <2>9, SlotStep
  <2> QED
    BY <2>9, <2>10 DEF CacheInv, Heights
<1>3. ASSUME NEW s \in Slots, FetchFails(s)
      PROVE  CacheInv'
  <2>1. fetches' = [fetches EXCEPT ![s] = Free] /\ UNCHANGED <<chainHead, latestBlock, store>>
    BY <1>3 DEF FetchFails, sessionVars
  <2>2. DOMAIN fetches' = Slots /\ \A t \in Slots : Tagged(fetches[t])'
    BY <1>0, <2>1, FetchFields, SlotStep
  <2> QED
    BY <2>1, <2>2 DEF CacheInv, Heights
<1>4. ASSUME NEW s \in Slots, Arrive(s)
      PROVE  CacheInv'
  <2> DEFINE fetch == fetches[s]
  <2>1. fetches' = [fetches EXCEPT ![s] = Free] /\ UNCHANGED <<chainHead, latestBlock>>
    BY <1>4 DEF Arrive, sessionVars
  <2>2. DOMAIN fetches' = Slots /\ \A t \in Slots : Tagged(fetches[t])'
    BY <1>0, <2>1, FetchFields, SlotStep
  <2>3. Tagged(fetch) /\ AllAnswered(fetch)
    BY <1>4 DEF Arrive, CacheInv
  <2>4. fetch.tag \in Heights /\ fetch.base \in Bases
    BY <2>3 DEF Tagged
  <2>5. fetch.tag # NoBlock => fetch.base = At(fetch.tag)
    BY <2>3, <2>4 DEF Tagged, AllAnswered, At, Bases
  <2>6. \/ UNCHANGED store
        \/ /\ store'.base = fetch.base /\ store'.blockTag = fetch.tag
           /\ store' \in [loaded : BOOLEAN, base : Bases, blockTag : Heights]
    <3>1. CASE ~store.loaded
      <4>1. store' = [loaded |-> TRUE, base |-> fetch.base, blockTag |-> fetch.tag]
        BY <1>4, <3>1 DEF Arrive, _load
      <4> QED
        BY <2>4, <4>1, Zenon
    <3>2. CASE store.loaded /\ Used(fetch)
      <4>1. /\ store' = [store EXCEPT !.base = fetch.base,
                           !.blockTag = IF fetch.tag = NoBlock THEN store.blockTag ELSE fetch.tag]
            /\ fetch.tag # NoBlock
        BY <1>4, <3>2 DEF Arrive, _update, Used
      <4>2. store' = [store EXCEPT !.base = fetch.base, !.blockTag = fetch.tag]
        BY <4>1
      <4> QED
        BY <2>4, <4>2, Zenon DEF CacheInv
    <3>3. CASE store.loaded /\ ~Used(fetch)
      BY <1>4, <3>3 DEF Arrive
    <3> QED
      BY <3>1, <3>2, <3>3
  <2>7. store'.blockTag # NoBlock => store'.base = At(store'.blockTag)
    BY <2>5, <2>6 DEF CacheInv
  <2> QED
    BY <2>1, <2>2, <2>6, <2>7 DEF CacheInv, Heights, At
<1>5. CASE start
  <2>1. PICK s \in Slots : fetches' = [fetches EXCEPT ![s] = Fetch(NoBlock)]
    BY <1>5 DEF start
  <2>2. latestBlock' = NoBlock /\ UNCHANGED <<chainHead, store>>
    BY <1>5 DEF start
  <2>3. DOMAIN fetches' = Slots /\ \A t \in Slots : Tagged(fetches[t])'
    BY <1>0, <2>1, <2>2, FetchFields, SlotStep
  <2> QED
    BY <1>0, <2>2, <2>3 DEF CacheInv, Heights
<1>6. CASE handleBlock
  <2>1. PICK s \in Slots : fetches' = [fetches EXCEPT ![s] = Fetch(latestBlock)]
    BY <1>6 DEF handleBlock
  <2>2. UNCHANGED <<chainHead, latestBlock, store>>
    BY <1>6 DEF handleBlock
  <2>3. latestBlock \in Heights
    BY DEF CacheInv
  <2>4. DOMAIN fetches' = Slots /\ \A t \in Slots : Tagged(fetches[t])'
    BY <2>1, <2>2, <2>3, FetchFields, SlotStep
  <2> QED
    BY <2>2, <2>4 DEF CacheInv, Heights
<1>7. ASSUME NEW b \in Blocks, blockListener(b)
      PROVE  CacheInv'
  <2>1. b \in 1..chainHead /\ latestBlock \in Heights
    BY <1>0, <1>7, StoreAssumption DEF blockListener, Blocks, CacheInv
  <2>2. latestBlock' \in Heights
    BY <1>7, <2>1 DEF blockListener, LatestOf, Heights
  <2>3. UNCHANGED <<chainHead, fetches, store>>
    BY <1>7 DEF blockListener
  <2> QED
    BY <2>2, <2>3 DEF CacheInv, Heights, Tagged
<1>8. ASSUME stop \/ UpdateTimer \/ UNCHANGED storeVars
             \/ \E v \in Views : Render(v) \/ subscribe(v) \/ Unmount(v)
      PROVE  CacheInv'
  <2>1. UNCHANGED <<chainHead, latestBlock, fetches, store>>
    BY <1>8 DEF stop, UpdateTimer, storeVars, Render, subscribe, Unmount, sessionVars
  <2> QED
    BY <2>1 DEF CacheInv, Heights, Tagged
<1>9. ASSUME NEW l \in Listeners, CallListener(l)
      PROVE  CacheInv'
  BY <1>9 DEF CallListener, sessionVars, CacheInv, Heights, Tagged
<1> QED
  BY <1>1, <1>2, <1>3, <1>4, <1>5, <1>6, <1>7, <1>8, <1>9 DEF StoreNext

LEMMA InitCache == StoreInit => CacheInv
<1> SUFFICES ASSUME StoreInit
             PROVE  CacheInv
  OBVIOUS
<1>1. chainHead = 1 /\ latestBlock = NoBlock /\ fetches = [s \in Slots |-> Free]
  BY DEF StoreInit
<1>2. store.blockTag = NoBlock
  BY Zenon DEF StoreInit
<1>3. NoBlock \in Heights /\ chainHead \in Blocks /\ [f \in Fields |-> NoValue] \in Bases
  BY <1>1, StoreAssumption DEF Heights, Blocks, Bases, NoValue
<1>6. store \in [loaded : BOOLEAN, base : Bases, blockTag : Heights]
  BY <1>3, Zenon DEF StoreInit
<1>4. DOMAIN fetches = Slots /\ \A s \in Slots : fetches[s] = Free
  BY <1>1, Zenon
<1>5. \A s \in Slots : Tagged(fetches[s])
  BY <1>3, <1>4, FetchFields
<1> QED
  BY <1>1, <1>2, <1>3, <1>4, <1>5, <1>6 DEF CacheInv

(***************************************************************************)
(* A read at a block gets the state of that block, whole, whatever fields  *)
(* there are and however many fetches are under way: every request of a    *)
(* fetch carries its tag, and a state without one answers no read.         *)
(***************************************************************************)
THEOREM CacheReadsOneBlock == StoreSpec => []ReadsOneBlock
<1>1. CacheInv => ReadsOneBlock
  <2> SUFFICES ASSUME CacheInv, NEW b \in 1..chainHead, b = store.blockTag
               PROVE  store.base = At(b)
    BY DEF ReadsOneBlock, ReadThrough
  <2>1. chainHead \in Nat
    BY DEF CacheInv, Blocks
  <2>2. b # NoBlock
    BY <2>1, StoreAssumption
  <2> QED
    BY <2>2 DEF CacheInv
<1> QED
  BY <1>1, InitCache, CacheStep, PTL DEF StoreSpec

-----------------------------------------------------------------------------
(***************************************************************************)
(* The views                                                               *)
(***************************************************************************)

Phases == [Views -> {"off", "rendered", "on"}]

\* What a subscriber shows: the state of the store, or, before its turn in a round, what the
\* round began with.
UpToDate(l) ==
  \/ missed[l[1]]
  \/ shown[l[1]] = select(l[1], store.base)
  \/ l \in round.todo /\ shown[l[1]] = select(l[1], round.old)

\* The inductive invariant of ShownUnlessMissed.  A view that has not subscribed yet is up to
\* date or has missed something, and no view is there before the store is loaded.
ViewInv ==
  /\ store \in [loaded : BOOLEAN, base : Bases, blockTag : Heights]
  /\ round \in [todo : SUBSET Listeners, called : BOOLEAN, old : Bases]
  /\ phase \in Phases /\ DOMAIN shown = Views /\ DOMAIN missed = Views
  /\ \A l \in listeners : l \in Listeners /\ phase[l[1]] = "on"
  /\ mounted => store.loaded
  /\ \A v \in Views : phase[v] # "off" => store.loaded
  /\ \A v \in Views : phase[v] = "rendered" => missed[v] \/ shown[v] = select(v, store.base)
  /\ \A l \in listeners : UpToDate(l)

LEMMA InitView == StoreInit => ViewInv
<1> SUFFICES ASSUME StoreInit
             PROVE  ViewInv
  OBVIOUS
<1>1. store \in [loaded : BOOLEAN, base : Bases, blockTag : Heights]
  BY InitCache DEF CacheInv
<1>2. [f \in Fields |-> NoValue] \in Bases
  BY DEF Bases, NoValue
<1>3. round \in [todo : SUBSET Listeners, called : BOOLEAN, old : Bases]
  BY <1>2 DEF StoreInit
<1>4. listeners = {} /\ mounted = FALSE /\ phase = [v \in Views |-> "off"]
  BY DEF StoreInit
<1>5. DOMAIN shown = Views /\ DOMAIN missed = Views
  BY Zenon DEF StoreInit
<1> QED
  BY <1>1, <1>3, <1>4, <1>5 DEF ViewInv, Phases

\* Nothing that the views show, or that a round compares, has changed.
LEMMA QuietView ==
  ASSUME ViewInv, Heights \subseteq Heights',
         UNCHANGED <<store, mounted, viewVars, round, missed>>
  PROVE  ViewInv'
<1>1. store' \in [loaded : BOOLEAN, base : Bases, blockTag : Heights']
  BY DEF ViewInv
<1> QED
  BY <1>1 DEF ViewInv, UpToDate, viewVars, select, Phases, Bases

\* Between rounds subscribers are up to date, so a round may begin with the state they show.
LEMMA RoundBegins ==
  ASSUME ViewInv, EventLoop, round' = _notify(store.base)
  PROVE  /\ round' \in [todo : SUBSET Listeners, called : BOOLEAN, old : Bases]
         /\ \A l \in listeners : l \in round'.todo /\ round'.old = store.base
         /\ \A l \in listeners : missed[l[1]] \/ shown[l[1]] = select(l[1], round'.old)
<1>1. round'.todo = listeners /\ round'.old = store.base
  BY DEF _notify
<1>2. store.base \in Bases /\ listeners \subseteq Listeners
  BY DEF ViewInv
<1>3. round' \in [todo : SUBSET Listeners, called : BOOLEAN, old : Bases]
  BY <1>2 DEF _notify
<1>4. \A l \in listeners : missed[l[1]] \/ shown[l[1]] = select(l[1], store.base)
  BY DEF ViewInv, UpToDate, EventLoop
<1> QED
  BY <1>1, <1>3, <1>4

LEMMA ViewStep ==
  ASSUME CacheInv, ViewInv, [StoreNext]_storeVars
  PROVE  ViewInv'
<1>0. store' \in [loaded : BOOLEAN, base : Bases, blockTag : Heights]'
  BY CacheStep DEF CacheInv
<1>1. CASE NewBlock
  <2>1. Heights \subseteq Heights'
    BY <1>1, HeightsGrow DEF NewBlock
  <2> QED
    BY <1>1, <2>1, QuietView DEF NewBlock
<1>2. ASSUME NEW s \in Slots, NEW f \in Fields, NodeReads(s, f)
      PROVE  ViewInv'
  BY <1>2, QuietView DEF NodeReads, Heights
<1>3. ASSUME NEW s \in Slots, FetchFails(s)
      PROVE  ViewInv'
  BY <1>3, QuietView DEF FetchFails, Heights
<1>4. ASSUME NEW s \in Slots, Arrive(s)
      PROVE  ViewInv'
  <2> DEFINE fetch == fetches[s]
  <2>1. EventLoop /\ chainHead' = chainHead /\ UNCHANGED viewVars
    BY <1>4 DEF Arrive
  <2>2. CASE ~store.loaded
    <3>1. /\ store' = [loaded |-> TRUE, base |-> fetch.base, blockTag |-> fetch.tag]
          /\ UNCHANGED <<round, missed>>
      BY <1>4, <2>2 DEF Arrive, _load
    <3>2. store'.loaded = TRUE
      BY <3>1, Zenon
    <3>3. listeners = {} /\ \A v \in Views : phase[v] = "off"
      BY <2>2 DEF ViewInv, Phases, Listeners
    <3> QED
      BY <1>0, <2>1, <3>1, <3>2, <3>3 DEF ViewInv, viewVars, Phases, Bases
  <2>3. CASE store.loaded /\ Used(fetch)
    <3>1. _update(fetch)
      BY <1>4, <2>3 DEF Arrive
    <3>2. store'.loaded = store.loaded /\ store'.base = fetch.base
      <4>1. store' = [store EXCEPT !.base = fetch.base,
                        !.blockTag = IF fetch.tag = NoBlock THEN store.blockTag ELSE fetch.tag]
        BY <3>1 DEF _update
      <4> QED
        BY <4>1, Zenon DEF ViewInv
    <3>3. /\ round' \in [todo : SUBSET Listeners, called : BOOLEAN, old : Bases]
          /\ \A l \in listeners : l \in round'.todo /\ round'.old = store.base
          /\ \A l \in listeners : missed[l[1]] \/ shown[l[1]] = select(l[1], round'.old)
      BY <2>1, <3>1, RoundBegins DEF _update
    <3>4. DOMAIN missed' = Views
      BY <3>1, Zenon DEF _update
    <3>5. ASSUME NEW v \in Views
          PROVE  missed'[v] <=> missed[v] \/ (phase[v] = "rendered" /\ select(v, fetch.base) # shown[v])
      BY <3>1, Zenon DEF _update
    <3>6. UNCHANGED <<listeners, phase, shown, mounted>>
      BY <2>1, <3>1 DEF viewVars, _update
    <3>7. \A v \in Views : phase'[v] = "rendered" => missed'[v] \/ shown'[v] = select(v, store'.base)
      BY <3>2, <3>5, <3>6
    <3>8. \A l \in listeners' : UpToDate(l)'
      BY <3>3, <3>5, <3>6 DEF UpToDate, ViewInv, Listeners, select
    <3>9. /\ mounted' => store'.loaded
          /\ \A v \in Views : phase'[v] # "off" => store'.loaded
      BY <3>2, <3>6 DEF ViewInv
    <3> QED
      BY <1>0, <3>3, <3>4, <3>6, <3>7, <3>8, <3>9 DEF ViewInv, Phases, Bases, select
  <2>4. CASE store.loaded /\ ~Used(fetch)
    <3>1. UNCHANGED <<store, mounted, round, missed>>
      BY <1>4, <2>4 DEF Arrive
    <3> QED
      BY <2>1, <3>1, QuietView DEF Heights
  <2> QED
    BY <2>2, <2>3, <2>4
<1>5. CASE start
  BY <1>5, QuietView DEF start, Heights
<1>6. CASE handleBlock
  BY <1>6, QuietView DEF handleBlock, Heights
<1>7. ASSUME NEW b \in Blocks, blockListener(b)
      PROVE  ViewInv'
  BY <1>7, QuietView DEF blockListener, Heights
<1>8. CASE UpdateTimer
  <2>1. EventLoop /\ UNCHANGED <<chainHead, store, mounted, listeners, phase, shown, missed>>
    BY <1>8 DEF UpdateTimer, viewVars
  <2>2. /\ round' \in [todo : SUBSET Listeners, called : BOOLEAN, old : Bases]
        /\ \A l \in listeners : l \in round'.todo /\ round'.old = store.base
        /\ \A l \in listeners : missed[l[1]] \/ shown[l[1]] = select(l[1], round'.old)
    BY <1>8, <2>1, RoundBegins DEF UpdateTimer
  <2>3. \A l \in listeners' : UpToDate(l)'
    BY <2>1, <2>2 DEF UpToDate, select
  <2> QED
    BY <1>0, <2>1, <2>2, <2>3 DEF ViewInv, Phases, Bases, select
<1>9. CASE stop
  <2>1. /\ listeners' = {} /\ phase' = [v \in Views |-> "off"] /\ mounted' = FALSE
        /\ UNCHANGED <<store, round, shown>>
    BY <1>9 DEF stop
  <2>2. DOMAIN missed' = Views
    BY <1>9, Zenon DEF stop
  <2> QED
    BY <1>0, <2>1, <2>2 DEF ViewInv, Phases, Bases
<1>10. ASSUME NEW l \in Listeners, CallListener(l)
       PROVE  ViewInv'
  <2> DEFINE v == l[1]
  <2>0. v \in Views
    BY DEF Listeners
  <2>1. /\ l \in round.todo
        /\ UNCHANGED <<store, mounted, listeners, phase, missed>>
    BY <1>10 DEF CallListener
  <2>2. /\ round' \in [todo : SUBSET Listeners, called : BOOLEAN, old : Bases]
        /\ round'.todo = round.todo \ {l} /\ round'.old = round.old
    <3> DEFINE called == round.called \/ StillSubscribed(l)
    <3>1. round' = [round EXCEPT !.todo = round.todo \ {l}, !.called = called]
      BY <1>10, Zenon DEF CallListener
    <3>2. round.todo \ {l} \in SUBSET Listeners
      BY DEF ViewInv
    <3>3. called \in BOOLEAN
      OBVIOUS
    <3> HIDE DEF called
    <3> QED
      BY <3>1, <3>2, <3>3 DEF ViewInv
  <2>3. DOMAIN shown' = Views /\ \A u \in Views \ {v} : shown'[u] = shown[u]
    BY <1>10 DEF CallListener, ViewInv
  <2>4. \/ shown' = shown
        \/ shown'[v] = select(v, store.base) /\ l \in listeners
    BY <1>10, <2>0 DEF CallListener, StillSubscribed, ViewInv
  <2>5. l \in listeners /\ shown' = shown => missed[v] \/ shown[v] = select(v, store.base)
    <3>1. CASE l \in listeners /\ select(v, store.base) = select(v, round.old)
      BY <3>1 DEF ViewInv, UpToDate
    <3>2. CASE l \in listeners /\ select(v, store.base) # select(v, round.old)
      BY <1>10, <2>0, <3>2 DEF CallListener, StillSubscribed, ViewInv
    <3> QED
      BY <3>1, <3>2
  <2>6. ASSUME NEW k \in listeners'
        PROVE  UpToDate(k)'
    <3>1. k \in listeners /\ k[1] \in Views
      BY <2>1 DEF ViewInv, Listeners
    <3>2. CASE k = l
      BY <2>1, <2>4, <2>5, <3>1, <3>2 DEF UpToDate, select
    <3>3. CASE k # l
      BY <2>1, <2>2, <2>3, <2>4, <3>1, <3>3 DEF ViewInv, UpToDate, select
    <3> QED
      BY <3>2, <3>3
  <2>7. \A u \in Views : phase'[u] = "rendered" => missed'[u] \/ shown'[u] = select(u, store'.base)
    <3>1. phase[v] = "rendered" => shown' = shown
      BY <2>4 DEF ViewInv
    <3> QED
      BY <2>1, <2>3, <3>1 DEF ViewInv
  <2> QED
    BY <1>0, <2>1, <2>2, <2>3, <2>6, <2>7 DEF ViewInv, Phases, Bases, select
<1>11. ASSUME NEW v \in Views, Render(v)
       PROVE  ViewInv'
  <2>1. /\ mounted /\ phase[v] = "off"
        /\ UNCHANGED <<store, mounted, listeners, round, missed>>
    BY <1>11 DEF Render
  <2>2. phase' \in Phases /\ phase'[v] = "rendered" /\ \A u \in Views \ {v} : phase'[u] = phase[u]
    BY <1>11 DEF Render, ViewInv, Phases
  <2>3. /\ DOMAIN shown' = Views /\ shown'[v] = select(v, store.base)
        /\ \A u \in Views \ {v} : shown'[u] = shown[u]
    BY <1>11 DEF Render, ViewInv
  <2>4. \A k \in listeners' : k[1] \in Views \ {v}
    BY <2>1 DEF ViewInv, Listeners
  <2>5. \A k \in listeners' : UpToDate(k)'
    BY <2>1, <2>3, <2>4 DEF ViewInv, UpToDate, select
  <2>6. \A k \in listeners' : k \in Listeners /\ phase'[k[1]] = "on"
    BY <2>1, <2>2, <2>4 DEF ViewInv
  <2> QED
    BY <1>0, <2>1, <2>2, <2>3, <2>5, <2>6 DEF ViewInv, Phases, Bases, select
<1>12. ASSUME NEW v \in Views, subscribe(v)
       PROVE  ViewInv'
  <2>1. /\ phase[v] = "rendered" /\ listeners' = listeners \cup {Wrapped(v)}
        /\ UNCHANGED <<store, mounted, round, shown, missed>>
    BY <1>12 DEF subscribe
  <2>2. phase' \in Phases /\ phase'[v] = "on" /\ \A u \in Views \ {v} : phase'[u] = phase[u]
    BY <1>12 DEF subscribe, ViewInv, Phases
  <2>3. Wrapped(v) \in Listeners /\ Wrapped(v)[1] = v
    BY DEF Wrapped, Listeners
  <2>4. \A k \in listeners' : UpToDate(k)'
    BY <2>1, <2>3 DEF ViewInv, UpToDate, select
  <2>5. \A k \in listeners' : k \in Listeners /\ phase'[k[1]] = "on"
    BY <2>1, <2>2, <2>3 DEF ViewInv, Listeners
  <2>6. \A u \in Views : phase'[u] # "off" => store'.loaded
    BY <2>1, <2>2 DEF ViewInv
  <2>7. \A u \in Views : phase'[u] = "rendered" => missed'[u] \/ shown'[u] = select(u, store'.base)
    BY <2>1, <2>2 DEF ViewInv
  <2> QED
    BY <1>0, <2>1, <2>2, <2>4, <2>5, <2>6, <2>7, Zenon DEF ViewInv
<1>13. ASSUME NEW v \in Views, Unmount(v)
       PROVE  ViewInv'
  <2>1. /\ listeners' = {l \in listeners : l[1] # v}
        /\ UNCHANGED <<store, mounted, round, shown>>
    BY <1>13 DEF Unmount
  <2>2. phase' \in Phases /\ phase'[v] = "off" /\ \A u \in Views \ {v} : phase'[u] = phase[u]
    BY <1>13 DEF Unmount, ViewInv, Phases
  <2>3. DOMAIN missed' = Views /\ \A u \in Views \ {v} : missed'[u] = missed[u]
    BY <1>13, Zenon DEF Unmount, ViewInv
  <2>4. \A k \in listeners' : k \in listeners /\ k \in Listeners /\ k[1] \in Views \ {v}
    BY <2>1 DEF ViewInv, Listeners
  <2>5. \A k \in listeners' : UpToDate(k)'
    BY <2>1, <2>3, <2>4 DEF ViewInv, UpToDate, select
  <2>6. \A k \in listeners' : k \in Listeners /\ phase'[k[1]] = "on"
    BY <2>2, <2>4 DEF ViewInv
  <2> QED
    BY <1>0, <2>1, <2>2, <2>3, <2>5, <2>6 DEF ViewInv, Phases, Bases, select
<1>14. CASE UNCHANGED storeVars
  BY <1>14, QuietView DEF storeVars, viewVars, Heights
<1> QED
  BY <1>1, <1>2, <1>3, <1>4, <1>5, <1>6, <1>7, <1>8, <1>9, <1>10, <1>11, <1>12, <1>13, <1>14
     DEF StoreNext

(***************************************************************************)
(* A subscribed view shows the state of the store between rounds, unless   *)
(* its field changed between its render and its subscription.  Views that  *)
(* leave and come back while listeners are called are covered: such a view *)
(* shows the new state before its turn.                                    *)
(***************************************************************************)
THEOREM ViewsShowTheStore == StoreSpec => []ShownUnlessMissed
<1>1. ViewInv => ShownUnlessMissed
  BY DEF ViewInv, UpToDate, ShownUnlessMissed, EventLoop
<1> QED
  BY <1>1, InitCache, CacheStep, InitView, ViewStep, PTL DEF StoreSpec

-----------------------------------------------------------------------------
(***************************************************************************)
(* The types                                                               *)
(***************************************************************************)

\* What the type invariant says beyond CacheInv and ViewInv: a state that is loaded has
\* every field.
FlagsInv ==
  /\ running \in BOOLEAN /\ blockTimer \in BOOLEAN /\ updateTimer \in BOOLEAN /\ mounted \in BOOLEAN
  /\ store.loaded => store.base \in [Fields -> Nat]

LEMMA FlagsStep ==
  ASSUME CacheInv, FlagsInv, [StoreNext]_storeVars
  PROVE  FlagsInv'
<1>1. ASSUME NEW s \in Slots, Arrive(s)
      PROVE  FlagsInv'
  <2> DEFINE fetch == fetches[s]
  <2>1. Tagged(fetch) /\ AllAnswered(fetch)
    BY <1>1 DEF Arrive, CacheInv
  <2>2. fetch.base \in [Fields -> Nat]
    BY <2>1 DEF Tagged, AllAnswered, Bases
  <2>3. UNCHANGED store \/ store'.base = fetch.base
    <3>1. CASE ~store.loaded
      <4>1. store' = [loaded |-> TRUE, base |-> fetch.base, blockTag |-> fetch.tag]
        BY <1>1, <3>1 DEF Arrive, _load
      <4> QED
        BY <4>1
    <3>2. CASE store.loaded /\ Used(fetch)
      <4>1. store' = [store EXCEPT !.base = fetch.base,
                        !.blockTag = IF fetch.tag = NoBlock THEN store.blockTag ELSE fetch.tag]
        BY <1>1, <3>2 DEF Arrive, _update
      <4> QED
        BY <4>1 DEF CacheInv
    <3>3. CASE store.loaded /\ ~Used(fetch)
      BY <1>1, <3>3 DEF Arrive
    <3> QED
      BY <3>1, <3>2, <3>3
  <2>4. mounted' = running \/ mounted' = mounted
    BY <1>1, Zenon DEF Arrive, _load, _update
  <2>5. updateTimer' \in BOOLEAN
    <3>1. updateTimer' = (updateTimer \/ Used(fetch))
      BY <1>1, Zenon DEF Arrive
    <3>2. (updateTimer \/ Used(fetch)) \in BOOLEAN
      OBVIOUS
    <3> QED
      BY <3>1, <3>2, Zenon
  <2>6. UNCHANGED <<running, blockTimer>>
    BY <1>1 DEF Arrive, sessionVars
  <2> QED
    BY <2>2, <2>3, <2>4, <2>5, <2>6 DEF FlagsInv
<1>2. ASSUME NEW s \in Slots, FetchFails(s) \/ \E f \in Fields : NodeReads(s, f)
      PROVE  FlagsInv'
  BY <1>2 DEF FetchFails, NodeReads, sessionVars, FlagsInv
<1>3. CASE NewBlock \/ start \/ stop \/ handleBlock \/ UpdateTimer \/ UNCHANGED storeVars
  BY <1>3 DEF NewBlock, start, stop, handleBlock, UpdateTimer, storeVars, sessionVars, FlagsInv
<1>4. ASSUME NEW b \in Blocks, blockListener(b)
      PROVE  FlagsInv'
  BY <1>4 DEF blockListener, FlagsInv
<1>5. ASSUME NEW l \in Listeners, CallListener(l)
      PROVE  FlagsInv'
  BY <1>5 DEF CallListener, sessionVars, FlagsInv
<1>6. ASSUME NEW v \in Views, Render(v) \/ subscribe(v) \/ Unmount(v)
      PROVE  FlagsInv'
  BY <1>6 DEF Render, subscribe, Unmount, sessionVars, FlagsInv
<1> QED
  BY <1>1, <1>2, <1>3, <1>4, <1>5, <1>6 DEF StoreNext

\* The inductive invariant of the store as a whole.
StoreInv == CacheInv /\ ViewInv /\ FlagsInv

LEMMA StoreStart == StoreInit => StoreInv
<1>1. ASSUME StoreInit
      PROVE  FlagsInv
  BY <1>1 DEF StoreInit, FlagsInv
<1> QED
  BY <1>1, InitCache, InitView DEF StoreInv

LEMMA StoreStep ==
  ASSUME StoreInv, [StoreNext]_storeVars
  PROVE  StoreInv'
  BY CacheStep, ViewStep, FlagsStep DEF StoreInv

LEMMA StoreTypes == StoreInv => StoreTypeOK
<1> SUFFICES ASSUME StoreInv
             PROVE  StoreTypeOK
  OBVIOUS
<1>1. Heights \subseteq Blocks \cup {NoBlock}
  BY StoreAssumption DEF StoreInv, CacheInv, Heights, Blocks
<1>2. chainHead \in Blocks /\ latestBlock \in Blocks \cup {NoBlock}
  BY <1>1 DEF StoreInv, CacheInv
<1>3. \A s \in Slots : fetches[s].tag \in Blocks \cup {NoBlock}
  BY <1>1 DEF StoreInv, CacheInv, Tagged
<1>4. store.blockTag \in Blocks \cup {NoBlock} /\ store.loaded \in BOOLEAN
  BY <1>1 DEF StoreInv, CacheInv
<1>5. \A b \in {running, blockTimer, updateTimer, mounted, store.loaded} : b \in BOOLEAN
  BY <1>4, Zenon DEF StoreInv, FlagsInv
<1>6. listeners \subseteq Listeners /\ round.todo \subseteq Listeners /\ round.called \in BOOLEAN
  BY DEF StoreInv, ViewInv
<1>7. phase \in [Views -> {"off", "rendered", "on"}]
  BY DEF StoreInv, ViewInv, Phases
<1> QED
  BY <1>2, <1>3, <1>4, <1>5, <1>6, <1>7, Zenon DEF StoreTypeOK, StoreInv, FlagsInv

-----------------------------------------------------------------------------
(***************************************************************************)
(* The transaction on the page                                             *)
(***************************************************************************)

StateTypes == Waiting \cup Notices \cup {"idle", "confirmedOneShot"}

\* A state of the page is idle, or of a transaction that was asked for, and one that waits
\* for a confirmation has been sent.
PageState(s) ==
  /\ s \in [type : StateTypes, tx : Txs \cup {NoTx}]
  /\ s.type # "idle" => s.tx \in asked
  /\ s.type = "waitingForConfirmation" => s.tx \notin sending

\* The inductive invariant of WaitingIsWatched: a monitor that finishes leaves its reason
\* to come, or another state to be rendered.
MonitorInv ==
  /\ asked \subseteq Txs /\ sending \subseteq asked /\ reasons \subseteq asked
  /\ PageState(transactionState) /\ PageState(rendered)
  /\ monitor \in [tx : asked \cup {NoTx}, finished : BOOLEAN]
  /\ timer \in BOOLEAN /\ (timer => rendered.type \in Notices)
  /\ rendered.type = "waitingForConfirmation" =>
       /\ monitor.tx = rendered.tx
       /\ monitor.finished => rendered.tx \in reasons \/ transactionState # rendered

LEMMA StateFields ==
  ASSUME NEW type \in StateTypes, NEW t \in Txs \cup {NoTx}
  PROVE  /\ State(type, t) \in [type : StateTypes, tx : Txs \cup {NoTx}]
         /\ State(type, t).type = type /\ State(type, t).tx = t
  BY Zenon DEF State

LEMMA StatesDiffer ==
  ASSUME NEW s \in [type : StateTypes, tx : Txs \cup {NoTx}],
         NEW u \in [type : StateTypes, tx : Txs \cup {NoTx}], s # u
  PROVE  s.type # u.type \/ s.tx # u.tx
  BY DEF StateTypes

\* A state that does not wait for a confirmation is not the one that was rendered waiting.
LEMMA PageStep ==
  ASSUME MonitorInv, NEW type \in StateTypes, type # "waitingForConfirmation",
         NEW t \in asked', transactionState' = State(type, t),
         asked \subseteq asked', asked' \subseteq Txs
  PROVE  /\ PageState(transactionState)'
         /\ rendered.type = "waitingForConfirmation" => transactionState' # rendered
<1>1. t \in Txs \cup {NoTx}
  OBVIOUS
<1> QED
  BY <1>1, StateFields DEF PageState

\* A step that leaves the rendered state and its timer: what is to be shown of it.
LEMMA SameRender ==
  ASSUME MonitorInv, asked' \subseteq Txs, asked \subseteq asked',
         sending' \subseteq asked', reasons' \subseteq asked',
         \A t \in asked : t \in sending' => t \in sending,
         PageState(transactionState)', rendered' = rendered,
         monitor' \in [tx : asked' \cup {NoTx}, finished : BOOLEAN],
         timer' \in BOOLEAN, timer' => timer,
         rendered.type = "waitingForConfirmation" =>
           /\ monitor.tx = rendered.tx => monitor'.tx = rendered.tx
           /\ monitor'.finished => rendered.tx \in reasons' \/ transactionState' # rendered
  PROVE  MonitorInv'
<1>1. PageState(rendered)'
  BY DEF MonitorInv, PageState
<1> QED
  BY <1>1 DEF MonitorInv

\* The monitor finishes.
LEMMA Finishes ==
  ASSUME MonitorInv, monitor' = [monitor EXCEPT !.finished = TRUE]
  PROVE  monitor' \in [tx : asked \cup {NoTx}, finished : BOOLEAN] /\ monitor'.tx = monitor.tx
  BY Zenon DEF MonitorInv

LEMMA MonitorStep ==
  ASSUME MonitorInv, [MonitorNext]_monitorVars
  PROVE  MonitorInv'
<1> USE DEF Waiting, Notices
<1>0. /\ asked \subseteq Txs /\ sending \subseteq asked /\ reasons \subseteq asked
      /\ PageState(transactionState) /\ PageState(rendered) /\ timer \in BOOLEAN
      /\ monitor \in [tx : asked \cup {NoTx}, finished : BOOLEAN]
      /\ monitor.tx # NoTx => monitor.tx \in asked
  BY DEF MonitorInv
<1>1. ASSUME NEW t \in Txs, sendTransaction(t)
      PROVE  MonitorInv'
  <2>1. /\ t \notin asked /\ asked' = asked \cup {t} /\ sending' = sending \cup {t}
        /\ transactionState' = State("waitingForApproval", t)
        /\ UNCHANGED <<rendered, monitor, reasons, timer>>
    BY <1>1 DEF sendTransaction
  <2>2. /\ PageState(transactionState)'
        /\ rendered.type = "waitingForConfirmation" => transactionState' # rendered
    BY <1>0, <2>1, PageStep DEF StateTypes
  <2> QED
    BY <1>0, <2>1, <2>2, SameRender
<1>2. ASSUME NEW t \in Txs, SendEnds(t)
      PROVE  MonitorInv'
  <2>1. /\ t \in sending /\ sending' = sending \ {t}
        /\ UNCHANGED <<asked, rendered, monitor, reasons, timer>>
    BY <1>2 DEF SendEnds
  <2>2. PICK type \in {"waitingForConfirmation", "cancelled", "failed"} :
          transactionState' = State(type, t)
    BY <1>2 DEF SendEnds
  <2>3. PageState(transactionState)' /\ transactionState'.type = type /\ transactionState'.tx = t
    BY <1>0, <2>1, <2>2, StateFields DEF PageState, StateTypes
  <2>4. rendered.type = "waitingForConfirmation" => transactionState' # rendered
    BY <1>0, <2>1, <2>3 DEF PageState
  <2> QED
    BY <1>0, <2>1, <2>3, <2>4, SameRender
<1>3. ASSUME NEW t \in Txs, RevertReason(t)
      PROVE  MonitorInv'
  <2>1. /\ t \in reasons /\ reasons' = reasons \ {t} /\ transactionState' = State("failed", t)
        /\ UNCHANGED <<asked, sending, rendered, monitor, timer>>
    BY <1>3 DEF RevertReason
  <2>2. /\ PageState(transactionState)'
        /\ rendered.type = "waitingForConfirmation" => transactionState' # rendered
    BY <1>0, <2>1, PageStep DEF StateTypes
  <2> QED
    BY <1>0, <2>1, <2>2, SameRender
<1>4. CASE ReceiptSucceeded
  <2>1. /\ monitor.tx # NoTx /\ monitor' = [monitor EXCEPT !.finished = TRUE]
        /\ transactionState' = State("confirmedOneShot", monitor.tx)
        /\ UNCHANGED <<asked, sending, reasons, rendered, timer>>
    BY <1>4 DEF ReceiptSucceeded
  <2>2. /\ PageState(transactionState)'
        /\ rendered.type = "waitingForConfirmation" => transactionState' # rendered
    BY <1>0, <2>1, PageStep DEF StateTypes
  <2>3. monitor' \in [tx : asked \cup {NoTx}, finished : BOOLEAN] /\ monitor'.tx = monitor.tx
    BY <2>1, Finishes
  <2> QED
    BY <1>0, <2>1, <2>2, <2>3, SameRender
<1>5. CASE ReceiptFailed
  <2>1. /\ monitor.tx # NoTx /\ monitor' = [monitor EXCEPT !.finished = TRUE]
        /\ reasons' = reasons \cup {monitor.tx}
        /\ UNCHANGED <<transactionState, asked, sending, rendered, timer>>
    BY <1>5 DEF ReceiptFailed
  <2>2. monitor' \in [tx : asked \cup {NoTx}, finished : BOOLEAN] /\ monitor'.tx = monitor.tx
    BY <2>1, Finishes
  <2>3. PageState(transactionState)'
    BY <1>0, <2>1 DEF PageState
  <2>4. rendered.type = "waitingForConfirmation" => rendered.tx \in reasons'
    BY <2>1 DEF MonitorInv
  <2> QED
    BY <1>0, <2>1, <2>2, <2>3, <2>4, SameRender
<1>6. CASE ReceiptRejected
  <2>1. /\ monitor.tx # NoTx /\ monitor' = [monitor EXCEPT !.finished = TRUE]
        /\ UNCHANGED <<asked, sending, reasons, rendered, timer>>
    BY <1>6 DEF ReceiptRejected
  <2>2. PICK type \in {"cancelled", "failed"} : transactionState' = State(type, monitor.tx)
    BY <1>6 DEF ReceiptRejected
  <2>3. /\ PageState(transactionState)'
        /\ rendered.type = "waitingForConfirmation" => transactionState' # rendered
    BY <1>0, <2>1, <2>2, PageStep DEF StateTypes
  <2>4. monitor' \in [tx : asked \cup {NoTx}, finished : BOOLEAN] /\ monitor'.tx = monitor.tx
    BY <2>1, Finishes
  <2> QED
    BY <1>0, <2>1, <2>3, <2>4, SameRender
<1>7. CASE TakeDown
  <2>1. /\ timer' = FALSE /\ transactionState' = State("idle", NoTx)
        /\ UNCHANGED <<asked, sending, reasons, rendered, monitor>>
    BY <1>7 DEF TakeDown, Idle
  <2>2. PageState(transactionState)' /\ transactionState'.type = "idle"
    BY <2>1, StateFields DEF PageState, StateTypes
  <2> QED
    BY <1>0, <2>1, <2>2, SameRender
<1>8. CASE ProviderChanges
  <2>1. UNCHANGED <<transactionState, asked, sending, reasons, rendered, monitor, timer>>
    BY <1>8 DEF ProviderChanges
  <2> QED
    BY <2>1 DEF MonitorInv, PageState
<1>9. CASE Commit
  <2> DEFINE now == transactionState
             rerun == newProvider \/ MonitorDeps(now) # MonitorDeps(rendered)
             renotice == NoticeDeps(now) # NoticeDeps(rendered)
  <2>1. /\ rendered' = now /\ UNCHANGED <<asked, sending, reasons>>
        /\ transactionState # rendered \/ newProvider
        /\ monitor' = IF ~rerun THEN monitor
                      ELSE IF now.type = "waitingForConfirmation" THEN [tx |-> now.tx, finished |-> FALSE]
                      ELSE NoMonitor
        /\ timer' = (IF renotice THEN Timed(now) ELSE timer)
        /\ \/ transactionState' = State("confirmed", now.tx) /\ now.type = "confirmedOneShot"
           \/ transactionState' = State("idle", NoTx)
           \/ transactionState' = now
    BY <1>9, Zenon DEF Commit, Idle
  <2>2. PageState(now) /\ PageState(rendered)'
    BY <1>0, <2>1 DEF PageState
  <2>3. PageState(transactionState)'
    <3>1. CASE transactionState' = State("confirmed", now.tx) /\ now.type = "confirmedOneShot"
      BY <1>0, <2>1, <2>2, <3>1, StateFields DEF PageState, StateTypes
    <3>2. CASE transactionState' = State("idle", NoTx)
      BY <2>1, <3>2, StateFields DEF PageState, StateTypes
    <3> QED
      BY <2>1, <2>2, <3>1, <3>2 DEF PageState
  <2>4. timer' \in BOOLEAN /\ (timer' => now.type \in Notices)
    <3>1. CASE renotice
      <4>1. timer' = (now.type \in Notices)
        BY <2>1, <3>1, Zenon DEF Timed
      <4>2. (now.type \in Notices) \in BOOLEAN
        OBVIOUS
      <4> HIDE DEF now
      <4> QED
        BY <4>1, <4>2, Zenon
    <3>2. CASE ~renotice
      <4>1. now.type = rendered.type
        BY <3>2, Zenon DEF NoticeDeps
      <4>2. timer' = timer
        BY <2>1, <3>2, Zenon
      <4> QED
        BY <4>1, <4>2 DEF MonitorInv
    <3> QED
      BY <3>1, <3>2
  <2>5. /\ monitor' \in [tx : asked \cup {NoTx}, finished : BOOLEAN]
        /\ now.type = "waitingForConfirmation" => monitor'.tx = now.tx /\ ~monitor'.finished
    <3>1. CASE ~rerun
      <4>1. monitor' = monitor /\ transactionState # rendered
        BY <2>1, <3>1, Zenon
      <4>2. Tx(now) = Tx(rendered)
        BY <3>1, Zenon DEF MonitorDeps
      <4>3. now.type # "waitingForConfirmation"
        <5>1. SUFFICES ASSUME now.type = "waitingForConfirmation"
                       PROVE  FALSE
          OBVIOUS
        <5>2. now.tx \in asked /\ now.tx # NoTx
          BY <1>0, <5>1, MonitorAssumption DEF PageState
        <5>3. rendered.type = now.type /\ rendered.tx = now.tx
          BY <4>2, <5>1, <5>2 DEF Tx
        <5> QED
          BY <1>0, <4>1, <5>3, StatesDiffer DEF PageState
      <4> QED
        BY <1>0, <4>1, <4>3
    <3>2. CASE rerun /\ now.type = "waitingForConfirmation"
      <4>1. monitor' = [tx |-> now.tx, finished |-> FALSE]
        BY <2>1, <3>2, Zenon
      <4>2. now.tx \in asked
        BY <2>2, <3>2 DEF PageState
      <4> HIDE DEF now
      <4> QED
        BY <4>1, <4>2, Zenon
    <3>3. CASE rerun /\ now.type # "waitingForConfirmation"
      <4>1. monitor' = [tx |-> NoTx, finished |-> FALSE]
        BY <2>1, <3>3, Zenon DEF NoMonitor
      <4> QED
        BY <4>1, <3>3, Zenon
    <3> QED
      BY <3>1, <3>2, <3>3
  <2> QED
    BY <1>0, <2>1, <2>2, <2>3, <2>4, <2>5 DEF MonitorInv
<1>10. CASE UNCHANGED monitorVars
  BY <1>10 DEF monitorVars, MonitorInv, PageState
<1> QED
  BY <1>1, <1>2, <1>3, <1>4, <1>5, <1>6, <1>7, <1>8, <1>9, <1>10 DEF MonitorNext

LEMMA MonitorStart ==
  ASSUME MonitorInit
  PROVE  MonitorInv
<1>1. /\ transactionState = State("idle", NoTx) /\ rendered = State("idle", NoTx)
      /\ monitor = [tx |-> NoTx, finished |-> FALSE]
      /\ asked = {} /\ sending = {} /\ reasons = {} /\ timer = FALSE
  BY DEF MonitorInit, Idle, NoMonitor
<1>2. PageState(State("idle", NoTx)) /\ State("idle", NoTx).type = "idle"
  BY StateFields DEF PageState, StateTypes
<1>3. monitor \in [tx : asked \cup {NoTx}, finished : BOOLEAN]
  BY <1>1
<1> QED
  BY <1>1, <1>2, <1>3 DEF MonitorInv

(***************************************************************************)
(* A page that waits for a confirmation has a monitor for that very        *)
(* transaction or its revert reason on the way (the effects of             *)
(* Transaction.tsx), for any set of transactions and any number of changes *)
(* of the provider.                                                        *)
(***************************************************************************)
THEOREM WaitsAreWatched == MonitorSpec => []WaitingIsWatched
<1>1. MonitorInit => MonitorInv
  BY MonitorStart
<1>2. MonitorInv /\ [MonitorNext]_monitorVars => MonitorInv'
  BY MonitorStep
<1>3. MonitorInv => WaitingIsWatched
  BY DEF MonitorInv, WaitingIsWatched
<1> QED
  BY <1>1, <1>2, <1>3, PTL DEF MonitorSpec

-----------------------------------------------------------------------------
(***************************************************************************)
(* The batches of reads                                                    *)
(***************************************************************************)

Steps == {"idle", "resolving", "queued", "sent", "settled"}

Batches == [calls : Seq(Calls), callbacks : Seq(Calls), blockTag : Tags]

\* A batch or a request: its callbacks are those of its calls, and its tag suits each of
\* them.
Paired(b) ==
  /\ b \in Batches
  /\ b.callbacks = b.calls
  /\ \A i \in DOMAIN b.calls : Resolved(BlockTag[b.calls[i]]) = Resolved(b.blockTag)

\* Where a read waits at the node: a request and a place in it.
AtNode(c) == UNION {{<<r, i>> : i \in Places(r, c)} : r \in requests}

\* A read is in the batch, at the node or settled, once, and pc says which.
Located(c) ==
  /\ IF pc[c] = "queued" THEN \E i : Places(batched, c) = {i} ELSE Places(batched, c) = {}
  /\ IF pc[c] = "sent" THEN \E p : AtNode(c) = {p} ELSE AtNode(c) = {}
  /\ IF pc[c] = "settled" THEN \E s : settled[c] = {s} ELSE settled[c] = {}
  /\ \A s \in settled[c] : s.answer \in {Failure, Answer(c, BlockTag[c])}

\* The inductive invariant of OwnAnswerAtOwnBlock.
BatchInv ==
  /\ multicall \in BOOLEAN /\ chainId \in BOOLEAN
  /\ pc \in [Calls -> Steps]
  /\ DOMAIN settled = Calls
  /\ Paired(batched) /\ dispatchTimer = (batched.calls # <<>>)
  /\ \A r \in requests : Paired(r)
  /\ \A c \in Calls : Located(c)

LEMMA TagsTyped ==
  ASSUME NEW c \in Calls
  PROVE  BlockTag[c] \in Tags
  BY BatchAssumption DEF Tags, Range

LEMMA PlacesOf ==
  ASSUME NEW b \in Batches, NEW c
  PROVE  Places(b, c) \subseteq DOMAIN b.callbacks /\ \A i \in Places(b, c) : b.callbacks[i] = c
  BY DEF Places

\* A read that goes to the node alone.
LEMMA AloneFields ==
  ASSUME NEW c \in Calls
  PROVE  LET r == Request(<<c>>, <<c>>, BlockTag[c])
         IN Paired(r) /\ Places(r, c) = {1} /\ \A d \in Calls \ {c} : Places(r, d) = {}
<1> DEFINE r == Request(<<c>>, <<c>>, BlockTag[c])
<1>1. <<c>> \in Seq(Calls) /\ BlockTag[c] \in Tags
  BY TagsTyped
<1>2. r \in Batches /\ r.calls = <<c>> /\ r.callbacks = <<c>> /\ r.blockTag = BlockTag[c]
  BY <1>1, Zenon DEF Request, Batches
<1> HIDE DEF r
<1>3. Paired(r)
  BY <1>2 DEF Paired
<1>4. Places(r, c) = {1} /\ \A d \in Calls \ {c} : Places(r, d) = {}
  BY <1>2 DEF Places
<1> QED
  BY <1>3, <1>4 DEF r

\* A request is added at the node.
LEMMA NodeGets ==
  ASSUME NEW r, requests' = requests \cup {r}, NEW c
  PROVE  AtNode(c)' = AtNode(c) \cup {<<r, i>> : i \in Places(r, c)}
  BY DEF AtNode, Places

LEMMA AtNodeIn ==
  ASSUME NEW r \in requests, NEW c, NEW i \in Places(r, c)
  PROVE  <<r, i>> \in AtNode(c)
  BY DEF AtNode

\* A read's own step: the reads that wait elsewhere stay where they are.
LEMMA OthersStay ==
  ASSUME BatchInv, NEW d \in Calls, pc'[d] = pc[d], Places(batched, d)' = Places(batched, d),
         AtNode(d)' = AtNode(d), settled'[d] = settled[d]
  PROVE  Located(d)'
<1>1. Located(d)
  BY DEF BatchInv
<1> QED
  BY <1>1 DEF Located

\* A read goes to the node alone, from call or from its continuation.
LEMMA SentAlone ==
  ASSUME BatchInv, NEW c \in Calls, pc[c] \in {"idle", "resolving"},
         pc' = [pc EXCEPT ![c] = "sent"],
         requests' = requests \cup {Request(<<c>>, <<c>>, BlockTag[c])},
         UNCHANGED <<multicall, chainId, batched, dispatchTimer, settled>>
  PROVE  BatchInv'
<1> DEFINE r == Request(<<c>>, <<c>>, BlockTag[c])
<1>1. Paired(r) /\ Places(r, c) = {1} /\ \A d \in Calls \ {c} : Places(r, d) = {}
  BY AloneFields
<1>2. requests' = requests \cup {r}
  OBVIOUS
<1> HIDE DEF r
<1>3. pc' \in [Calls -> Steps] /\ pc'[c] = "sent" /\ \A d \in Calls \ {c} : pc'[d] = pc[d]
  BY DEF BatchInv, Steps
<1>4. Located(c)'
  <2>1. AtNode(c)' = AtNode(c) \cup {<<r, i>> : i \in {1}}
    BY <1>1, <1>2, NodeGets, Zenon
  <2>2. Located(c)
    BY DEF BatchInv
  <2>3. Places(batched, c) = {} /\ AtNode(c) = {} /\ settled[c] = {}
    BY <2>2 DEF Located
  <2>4. AtNode(c)' = {<<r, 1>>}
    BY <2>1, <2>3, Zenon
  <2>5. Places(batched, c)' = {} /\ settled'[c] = {}
    BY <2>3
  <2> QED
    BY <1>3, <2>4, <2>5 DEF Located
<1>5. ASSUME NEW d \in Calls \ {c}
      PROVE  Located(d)'
  <2>1. AtNode(d)' = AtNode(d) \cup {<<r, i>> : i \in {}}
    BY <1>1, <1>2, NodeGets, Zenon
  <2>2. AtNode(d)' = AtNode(d)
    BY <2>1, Zenon
  <2> QED
    BY <1>3, <2>2, OthersStay
<1>6. \A q \in requests' : Paired(q)
  BY <1>1, <1>2 DEF BatchInv
<1> QED
  BY <1>3, <1>4, <1>5, <1>6 DEF BatchInv

\* A read joins a batch it does not conflict with.
LEMMA EnqueueFields ==
  ASSUME NEW b, Paired(b), NEW c \in Calls, ~_alreadyBatchedCallsConflictWith(b, BlockTag[c])
  PROVE  /\ Paired(Enqueue(b, c)) /\ Enqueue(b, c).calls # <<>>
         /\ \A d \in Calls \ {c} : Places(Enqueue(b, c), d) = Places(b, d)
         /\ Places(Enqueue(b, c), c) = Places(b, c) \cup {Len(b.calls) + 1}
<1> DEFINE tag == IF b.calls = <<>> THEN BlockTag[c] ELSE b.blockTag
           e == Enqueue(b, c)
<1>1. b.calls \in Seq(Calls) /\ b.callbacks = b.calls /\ b.blockTag \in Tags
  BY DEF Paired, Batches
<1>2. tag \in Tags
  BY <1>1, TagsTyped
<1>3. Append(b.calls, c) \in Seq(Calls) /\ Append(b.callbacks, c) \in Seq(Calls)
  BY <1>1
<1>4. e = [calls |-> Append(b.calls, c), callbacks |-> Append(b.callbacks, c), blockTag |-> tag]
  BY Zenon DEF Enqueue
<1> HIDE DEF tag, e
<1>5. /\ e \in Batches /\ e.calls = Append(b.calls, c) /\ e.callbacks = Append(b.callbacks, c)
      /\ e.blockTag = tag
  BY <1>2, <1>3, <1>4, Zenon DEF Batches
<1>6. e.callbacks = e.calls /\ e.calls # <<>>
  BY <1>1, <1>5
<1>7. ASSUME NEW i \in DOMAIN e.calls
      PROVE  Resolved(BlockTag[e.calls[i]]) = Resolved(e.blockTag)
  <2>1. CASE b.calls = <<>>
    <3>1. tag = BlockTag[c] /\ e.calls[i] = c
      BY <1>5, <2>1 DEF tag
    <3> QED
      BY <1>5, <3>1
  <2>2. CASE b.calls # <<>>
    <3>1. tag = b.blockTag /\ Resolved(BlockTag[c]) = Resolved(b.blockTag)
      BY <2>2 DEF tag, _alreadyBatchedCallsConflictWith
    <3>2. \/ e.calls[i] = c
          \/ i \in DOMAIN b.calls /\ e.calls[i] = b.calls[i]
      BY <1>1, <1>5
    <3>3. i \in DOMAIN b.calls => Resolved(BlockTag[b.calls[i]]) = Resolved(b.blockTag)
      BY DEF Paired
    <3> QED
      BY <1>5, <3>1, <3>2, <3>3
  <2> QED
    BY <2>1, <2>2
<1>8. Paired(e)
  BY <1>5, <1>6, <1>7 DEF Paired
<1>9. \A d \in Calls \ {c} : Places(e, d) = Places(b, d)
  BY <1>1, <1>5 DEF Places
<1>10. Places(e, c) = Places(b, c) \cup {Len(b.calls) + 1}
  BY <1>1, <1>5 DEF Places
<1> QED
  BY <1>6, <1>8, <1>9, <1>10 DEF e

LEMMA EmptyFields ==
  Paired(emptyBatch) /\ emptyBatch.calls = <<>> /\ \A c : Places(emptyBatch, c) = {}
<1>1. <<>> \in Seq(Calls) /\ NoTag \in Tags
  BY DEF Tags
<1>2. emptyBatch \in Batches /\ emptyBatch.calls = <<>> /\ emptyBatch.callbacks = <<>>
  BY <1>1, Zenon DEF emptyBatch, Batches
<1>3. \A c : Places(emptyBatch, c) = {}
  BY <1>2 DEF Places
<1>4. Paired(emptyBatch)
  BY <1>2 DEF Paired
<1> QED
  BY <1>2, <1>3, <1>4

\* A read goes into the batch.
LEMMA Queued ==
  ASSUME BatchInv, NEW c \in Calls, pc[c] = "resolving",
         ~_alreadyBatchedCallsConflictWith(batched, BlockTag[c]),
         pc' = [pc EXCEPT ![c] = "queued"], batched' = Enqueue(batched, c),
         dispatchTimer' = Rescheduled(dispatchTimer), 
         UNCHANGED <<multicall, chainId, requests, settled>>
  PROVE  BatchInv'
<1>1. Paired(batched)
  BY DEF BatchInv
<1>2. /\ Paired(batched)' /\ batched'.calls # <<>>
      /\ \A d \in Calls \ {c} : Places(batched, d)' = Places(batched, d)
      /\ Places(batched, c)' = Places(batched, c) \cup {Len(batched.calls) + 1}
  BY <1>1, EnqueueFields
<1>3. pc' \in [Calls -> Steps] /\ pc'[c] = "queued" /\ \A d \in Calls \ {c} : pc'[d] = pc[d]
  BY DEF BatchInv, Steps
<1>4. \A d : AtNode(d)' = AtNode(d)
  BY DEF AtNode
<1>5. Located(c)'
  <2>1. Located(c)
    BY DEF BatchInv
  <2>2. Places(batched, c) = {} /\ AtNode(c) = {} /\ settled[c] = {}
    BY <2>1 DEF Located
  <2>3. Places(batched, c)' = {Len(batched.calls) + 1} /\ AtNode(c)' = {} /\ settled'[c] = {}
    BY <1>2, <1>4, <2>2
  <2> QED
    BY <1>3, <2>3 DEF Located
<1>6. ASSUME NEW d \in Calls \ {c}
      PROVE  Located(d)'
  BY <1>2, <1>3, <1>4, OthersStay
<1>7. dispatchTimer' = (batched'.calls # <<>>)
  BY <1>2 DEF Rescheduled
<1> QED
  BY <1>2, <1>3, <1>5, <1>6, <1>7 DEF BatchInv

\* The batch goes to the node.
LEMMA Dispatched ==
  ASSUME BatchInv, _dispatchCalls
  PROVE  BatchInv'
<1>1. Paired(batched) /\ batched \in Batches /\ \A c \in Calls : Located(c)
  BY DEF BatchInv, Paired
<1>2. Request(batched.calls, batched.callbacks, batched.blockTag) = batched
  BY <1>1, Zenon DEF Request, Batches
<1>3. requests' = requests \cup {batched}
  BY <1>2, Zenon DEF _dispatchCalls
<1>4. batched' = emptyBatch /\ dispatchTimer' = FALSE /\ UNCHANGED <<multicall, chainId, settled>>
  BY DEF _dispatchCalls, BatchAfterDispatch
<1>5. Paired(batched)' /\ batched'.calls = <<>> /\ \A c : Places(batched, c)' = {}
  BY <1>4, EmptyFields
<1>6. pc' = [c \in Calls |-> IF Places(batched, c) # {} THEN "sent" ELSE pc[c]]
  BY DEF _dispatchCalls
<1>7. ASSUME NEW c \in Calls
      PROVE  Located(c)'
  <2>1. AtNode(c)' = AtNode(c) \cup {<<batched, i>> : i \in Places(batched, c)}
    BY <1>3, NodeGets, Zenon
  <2>2. Located(c) /\ pc[c] \in Steps
    BY <1>1 DEF BatchInv
  <2>3. CASE pc[c] = "queued"
    <3>1. PICK i : Places(batched, c) = {i}
      BY <2>2, <2>3 DEF Located
    <3>2. AtNode(c) = {} /\ settled[c] = {}
      BY <2>2, <2>3 DEF Located
    <3>3. AtNode(c)' = {<<batched, i>>}
      BY <2>1, <3>1, <3>2, Zenon
    <3>4. pc'[c] = "sent" /\ settled'[c] = {}
      BY <1>4, <1>6, <3>1, <3>2
    <3> QED
      BY <1>5, <3>3, <3>4 DEF Located
  <2>4. CASE pc[c] # "queued"
    <3>1. Places(batched, c) = {}
      BY <2>2, <2>4 DEF Located
    <3>2. AtNode(c)' = AtNode(c)
      BY <2>1, <3>1, Zenon
    <3>3. pc'[c] = pc[c]
      BY <1>6, <3>1
    <3> QED
      BY <1>4, <1>5, <3>1, <3>2, <3>3, OthersStay
  <2> QED
    BY <2>3, <2>4
<1>8. \A q \in requests' : Paired(q)
  BY <1>1, <1>3 DEF BatchInv
<1>9. pc' \in [Calls -> Steps]
  BY <1>6 DEF BatchInv, Steps
<1> QED
  BY <1>4, <1>5, <1>7, <1>8, <1>9 DEF BatchInv

\* A request is answered, each callback with an answer that may be its own.
LEMMA Settled ==
  ASSUME BatchInv, NEW r \in requests, NEW answers, Settle(r, answers),
         \A c \in Calls : \A i \in Places(r, c) :
            answers[i] \in {Failure, Answer(c, BlockTag[c])}
  PROVE  BatchInv'
<1>1. /\ requests' = requests \ {r} /\ UNCHANGED <<multicall, chainId, batched, dispatchTimer>>
      /\ pc' = [c \in Calls |-> IF Places(r, c) # {} THEN "settled" ELSE pc[c]]
      /\ settled' = [c \in Calls |->
                       settled[c] \cup {[request |-> r, place |-> i, answer |-> answers[i]] :
                                          i \in Places(r, c)}]
  BY DEF Settle
<1>2. ASSUME NEW c \in Calls
      PROVE  Located(c)'
  <2> DEFINE made(i) == [request |-> r, place |-> i, answer |-> answers[i]]
  <2>1. Located(c) /\ Places(batched, c)' = Places(batched, c)
    BY <1>1 DEF BatchInv
  <2>2. settled'[c] = settled[c] \cup {made(i) : i \in Places(r, c)}
    BY <1>1, Zenon
  <2>3. CASE Places(r, c) = {}
    <3>1. \A q \in requests : Places(q, c) # {} => q \in requests'
      BY <1>1, <2>3
    <3>2. AtNode(c)' = AtNode(c)
      BY <1>1, <3>1 DEF AtNode
    <3>3. settled'[c] = settled[c]
      BY <2>2, <2>3, Zenon
    <3>4. pc'[c] = pc[c]
      BY <1>1, <2>3
    <3> QED
      BY <2>1, <3>2, <3>3, <3>4, OthersStay
  <2>4. CASE Places(r, c) # {}
    <3>1. PICK i : i \in Places(r, c)
      BY <2>4
    <3>2. \A j \in Places(r, c) : <<r, j>> \in AtNode(c)
      BY AtNodeIn
    <3>3. pc[c] = "sent"
      BY <2>1, <3>1, <3>2 DEF Located
    <3>4. PICK p : AtNode(c) = {p}
      BY <2>1, <3>3 DEF Located
    <3>5. p = <<r, i>>
      BY <3>1, <3>2, <3>4
    <3>6. Places(r, c) = {i}
      BY <3>1, <3>2, <3>4, <3>5
    <3>7. \A q \in requests \ {r} : \A j : j \notin Places(q, c)
      <4>1. ASSUME NEW q \in requests \ {r}, NEW j \in Places(q, c)
            PROVE  FALSE
        <5>1. <<q, j>> \in AtNode(c)
          BY AtNodeIn
        <5> QED
          BY <3>4, <3>5, <5>1
      <4> QED
        BY <4>1
    <3>8. AtNode(c)' = {}
      BY <1>1, <3>7, Zenon DEF AtNode
    <3>9. settled[c] = {} /\ Places(batched, c) = {}
      BY <2>1, <3>3 DEF Located
    <3>10. settled'[c] = {made(i)}
      BY <2>2, <3>6, <3>9, Zenon
    <3>11. made(i).answer \in {Failure, Answer(c, BlockTag[c])}
      BY <3>1
    <3>12. pc'[c] = "settled"
      BY <1>1, <2>4
    <3> HIDE DEF made
    <3> QED
      BY <2>1, <3>8, <3>9, <3>10, <3>11, <3>12 DEF Located, Failure, Answer
  <2> QED
    BY <2>3, <2>4
<1>3. pc' \in [Calls -> Steps]
  BY <1>1 DEF BatchInv, Steps
<1> QED
  BY <1>1, <1>2, <1>3 DEF BatchInv

LEMMA BatchStep ==
  ASSUME BatchInv, [BatchNext]_batchVars
  PROVE  BatchInv'
<1>1. ASSUME NEW m \in BOOLEAN, setChainId(m)
      PROVE  BatchInv'
  <2>1. /\ multicall' \in BOOLEAN /\ chainId' \in BOOLEAN
        /\ UNCHANGED <<pc, batched, dispatchTimer, requests, settled>>
    BY <1>1 DEF setChainId
  <2> QED
    BY <2>1 DEF BatchInv, Located, AtNode
<1>2. ASSUME NEW c \in Calls, call(c)
      PROVE  BatchInv'
  <2>1. pc[c] = "idle" /\ UNCHANGED <<multicall, chainId, batched, dispatchTimer, settled>>
    BY <1>2 DEF call
  <2>2. CASE multicall
    <3>1. pc' = [pc EXCEPT ![c] = "resolving"] /\ requests' = requests
      BY <1>2, <2>2 DEF call
    <3>2. pc' \in [Calls -> Steps] /\ pc'[c] = "resolving" /\ \A d \in Calls \ {c} : pc'[d] = pc[d]
      BY <3>1 DEF BatchInv, Steps
    <3>3. \A d \in Calls : Located(d)'
      BY <2>1, <3>1, <3>2 DEF BatchInv, Located, AtNode
    <3> QED
      BY <2>1, <3>1, <3>2, <3>3 DEF BatchInv
  <2>3. CASE ~multicall
    BY <1>2, <2>1, <2>3, SentAlone DEF call
  <2> QED
    BY <2>2, <2>3
<1>3. ASSUME NEW c \in Calls, Resume(c)
      PROVE  BatchInv'
  <2>1. pc[c] = "resolving" /\ UNCHANGED <<multicall, chainId, settled>>
    BY <1>3 DEF Resume
  <2>2. CASE c \notin Batchable \/ _alreadyBatchedCallsConflictWith(batched, BlockTag[c])
    BY <1>3, <2>1, <2>2, SentAlone DEF Resume
  <2>3. CASE ~(c \notin Batchable \/ _alreadyBatchedCallsConflictWith(batched, BlockTag[c]))
    BY <1>3, <2>1, <2>3, Queued DEF Resume
  <2> QED
    BY <2>2, <2>3
<1>4. ASSUME NEW r \in requests, NodeAnswers(r)
      PROVE  BatchInv'
  <2>1. Settle(r, Results(r)) /\ Paired(r)
    BY <1>4 DEF NodeAnswers, BatchInv
  <2>2. ASSUME NEW c \in Calls, NEW i \in Places(r, c)
        PROVE  Results(r)[i] = Answer(c, BlockTag[c])
    <3>1. i \in DOMAIN r.calls /\ r.calls[i] = c
      BY <2>1, <2>2 DEF Places, Paired
    <3>2. Results(r)[i] = Answer(c, r.blockTag)
      BY <3>1 DEF Results
    <3>3. Resolved(BlockTag[c]) = Resolved(r.blockTag)
      BY <2>1, <3>1 DEF Paired
    <3> QED
      BY <3>2, <3>3, Zenon DEF Answer
  <2> QED
    BY <2>1, <2>2, Settled
<1>5. ASSUME NEW r \in requests, NodeFails(r)
      PROVE  BatchInv'
  <2>1. Settle(r, [i \in DOMAIN r.callbacks |-> Failure])
    BY <1>5 DEF NodeFails
  <2>2. \A c \in Calls : \A i \in Places(r, c) : [j \in DOMAIN r.callbacks |-> Failure][i] = Failure
    BY DEF Places
  <2> QED
    BY <2>1, <2>2, Settled
<1>6. CASE UNCHANGED batchVars
  BY <1>6 DEF batchVars, BatchInv, Located, AtNode
<1> QED
  BY <1>1, <1>2, <1>3, <1>4, <1>5, <1>6, Dispatched DEF BatchNext

LEMMA BatchStart ==
  ASSUME BatchInit
  PROVE  BatchInv
<1>1. /\ multicall = FALSE /\ chainId = FALSE /\ dispatchTimer = FALSE /\ requests = {}
      /\ batched = emptyBatch /\ pc = [c \in Calls |-> "idle"] /\ settled = [c \in Calls |-> {}]
  BY DEF BatchInit
<1>2. Paired(batched) /\ batched.calls = <<>> /\ \A c : Places(batched, c) = {}
  BY <1>1, EmptyFields
<1>3. \A c : AtNode(c) = {}
  BY <1>1 DEF AtNode
<1>4. \A c \in Calls : Located(c)
  BY <1>1, <1>2, <1>3 DEF Located
<1> QED
  BY <1>1, <1>2, <1>4 DEF BatchInv, Steps

\* A read that is in one place counts once.
LEMMA CountedOnce ==
  ASSUME BatchInv
  PROVE  OwnAnswerAtOwnBlock
<1>1. ASSUME NEW c \in Calls
      PROVE  /\ \A s \in settled[c] : s.answer \in {Failure, Answer(c, BlockTag[c])}
             /\ Cardinality(Places(batched, c)) + Cardinality(AtNode(c)) + Cardinality(settled[c])
                  = IF pc[c] \in {"idle", "resolving"} THEN 0 ELSE 1
  <2>1. Located(c) /\ pc[c] \in Steps
    BY DEF BatchInv
  <2>2. \A x : Cardinality({x}) = 1
    BY FS_Singleton
  <2>3. Cardinality({}) = 0
    BY FS_EmptySet
  <2> DEFINE b == Places(batched, c)
             n == AtNode(c)
             s == settled[c]
  <2>4. Cardinality(b) = IF pc[c] = "queued" THEN 1 ELSE 0
    BY <2>1, <2>2, <2>3 DEF Located
  <2>5. Cardinality(n) = IF pc[c] = "sent" THEN 1 ELSE 0
    BY <2>1, <2>2, <2>3 DEF Located
  <2>6. Cardinality(s) = IF pc[c] = "settled" THEN 1 ELSE 0
    BY <2>1, <2>2, <2>3 DEF Located
  <2>7. \A x \in settled[c] : x.answer \in {Failure, Answer(c, BlockTag[c])}
    BY <2>1 DEF Located
  <2>8. Cardinality(b) + Cardinality(n) + Cardinality(s)
          = IF pc[c] \in {"idle", "resolving"} THEN 0 ELSE 1
    BY <2>1, <2>4, <2>5, <2>6 DEF Steps
  <2> QED
    BY <2>7, <2>8
<1> QED
  BY <1>1, Zenon DEF OwnAnswerAtOwnBlock, AtNode

(***************************************************************************)
(* Every answer of the node reaches the read it answers, at the block that *)
(* read asked for, and no promise is settled twice (_dispatchCalls of      *)
(* BatchedProvider.ts pairs them by position), for any reads and tags.     *)
(***************************************************************************)
THEOREM AnswersReachTheirReads == BatchSpec => []OwnAnswerAtOwnBlock
<1>1. BatchInit => BatchInv
  BY BatchStart
<1>2. BatchInv /\ [BatchNext]_batchVars => BatchInv'
  BY BatchStep
<1>3. BatchInv => OwnAnswerAtOwnBlock
  BY CountedOnce
<1> QED
  BY <1>1, <1>2, <1>3, PTL DEF BatchSpec

-----------------------------------------------------------------------------
(***************************************************************************)
(* The view of the trove                                                   *)
(***************************************************************************)

OpenViews == {"ACTIVE", "ADJUSTING", "CLOSING"}

Events == {"OPEN_TROVE_PRESSED", "ADJUST_TROVE_PRESSED", "CLOSE_TROVE_PRESSED",
           "CANCEL_ADJUST_TROVE_PRESSED", "TROVE_OPENED", "TROVE_ADJUSTED", "TROVE_CLOSED",
           "TROVE_LIQUIDATED", "TROVE_REDEEMED", "TROVE_SURPLUS_COLLATERAL_CLAIMED", "none"}

TroveStates == [status : UserTroveStatus, surplus : BOOLEAN]

Transactions == [kind : Kinds, mined : BOOLEAN, overtaken : BOOLEAN]

TVTypes ==
  /\ chain \in TroveStates /\ polled \in TroveStates /\ handled \in UserTroveStatus
  /\ view \in TroveViews /\ viewRef \in TroveViews
  /\ tx \in Transactions
  /\ changes \in [all : Nat, unseen : Nat]
  /\ raced \in BOOLEAN /\ skipped \in BOOLEAN /\ ahead \in BOOLEAN

\* The second part of ViewMatchesTrove.
Matches ==
  CASE polled.status = "open" -> view \in OpenViews
    [] Claimable -> view = getInitialView(polled.status)
    [] OTHER -> view \notin OpenViews

\* One change of the trove on the chain: it is taken away, opened, closed, or its surplus
\* is claimed.
OneChange(c, d) ==
  \/ c.status = "open" /\ d.status \in {"closedByLiquidation", "closedByRedemption"}
  \/ c.status # "open" /\ d.status = "open" /\ d.surplus = c.surplus
  \/ c.status = "open" /\ d.status = "closedByOwner"
  \/ c.status = d.status /\ ~d.surplus

\* The store is behind the chain by the changes it has not seen, and a transaction that is
\* mined has had its effect there unless another change has overtaken it.
Follows ==
  /\ changes.unseen = 0 => chain = polled
  /\ changes.unseen = 1 => OneChange(polled, chain)
  /\ chain.status = "nonExistent" => ~chain.surplus
  /\ polled.status = "nonExistent" => ~polled.surplus
  /\ chain.status = "nonExistent" => polled.status = "nonExistent"
  /\ polled.status = "nonExistent" => handled = "nonExistent"
  /\ tx.mined /\ tx.kind = "trove-closure" => chain.status = "closedByOwner"
  /\ tx.mined /\ tx.kind = "claim-coll-surplus" /\ ~tx.overtaken => ~chain.surplus

\* What a confirmation ahead of the store has shown, when one change is all the store lacks.
AheadByOne ==
  \/ polled.status = "open" /\ chain.status = "closedByOwner"
  \/ polled.status # "open" /\ chain.status = polled.status /\ ~chain.surplus

\* The view while no state was skipped and no event overtook another.
InOrder ==
  IF handled = polled.status
  THEN \/ Matches
       \/ /\ ahead /\ view \notin OpenViews /\ changes.unseen >= 1
          /\ changes.unseen = 1 => AheadByOne
  ELSE IF handled = "open"
  THEN /\ polled.status \in Closed
       /\ \/ view \in OpenViews \/ polled.status = "closedByOwner"
          \/ ahead /\ changes.unseen >= 2
  ELSE polled.status = "open"

\* The inductive invariant of ViewMatchesTrove.
ViewStateInv ==
  /\ TVTypes
  /\ Follows
  /\ ~raced /\ handled # "open" => view \notin OpenViews
  /\ ~raced /\ ~skipped => InOrder

-----------------------------------------------------------------------------
\* A view either does not answer to an event or goes where its table says.
LEMMA TransitionTable ==
  ASSUME NEW v \in TroveViews, NEW event
  PROVE  \/ transition(v, event) = v /\ \A w : <<event, w>> \notin transitions[v]
         \/ <<event, transition(v, event)>> \in transitions[v]
<1> DEFINE table == transitions[v]
           next == {t[2] : t \in {u \in table : u[1] = event}}
<1>1. transition(v, event) = IF next = {} THEN v ELSE CHOOSE w \in next : TRUE
  BY Zenon DEF transition
<1>2. \A u \in table : u = <<u[1], u[2]>>
  BY DEF transitions, TroveViews
<1> HIDE DEF table
<1>3. \A w \in next : <<event, w>> \in table
  BY <1>2
<1>4. \A w : <<event, w>> \in table => w \in next
  <2>1. ASSUME NEW w, <<event, w>> \in table
        PROVE  w \in next
    <3> DEFINE t == <<event, w>>
    <3>1. t[1] = event /\ t[2] = w
      OBVIOUS
    <3>2. t \in {u \in table : u[1] = event}
      BY <2>1, <3>1
    <3> QED
      BY <3>1, <3>2
  <2> QED
    BY <2>1
<1> HIDE DEF next
<1>5. CASE next = {}
  BY <1>1, <1>4, <1>5 DEF table
<1>6. CASE next # {}
  <2>1. transition(v, event) \in next
    BY <1>1, <1>6, Zenon
  <2> QED
    BY <1>3, <2>1 DEF table
<1> QED
  BY <1>5, <1>6

\* The entries of the table that the proofs use.
LEMMA TransitionFacts ==
  ASSUME NEW v \in TroveViews, NEW event \in Events
  PROVE  /\ transition(v, event) \in TroveViews
         /\ v \notin OpenViews /\ event # "TROVE_OPENED" => transition(v, event) \notin OpenViews
         /\ event = "TROVE_OPENED" => transition(v, event) \in OpenViews
         /\ event \in {"TROVE_CLOSED", "TROVE_LIQUIDATED", "TROVE_REDEEMED"} =>
              IF v \in OpenViews
              THEN transition(v, event) = CASE event = "TROVE_CLOSED" -> "NONE"
                                            [] event = "TROVE_LIQUIDATED" -> "LIQUIDATED"
                                            [] event = "TROVE_REDEEMED" -> "REDEEMED"
              ELSE transition(v, event) = v
         /\ v \in OpenViews /\ event \notin {"TROVE_CLOSED", "TROVE_LIQUIDATED", "TROVE_REDEEMED"} =>
              transition(v, event) \in OpenViews
         /\ event = "none" => transition(v, event) = v
<1>1. \/ transition(v, event) = v /\ \A w : <<event, w>> \notin transitions[v]
      \/ <<event, transition(v, event)>> \in transitions[v]
  BY TransitionTable
<1>2. PICK w : w = transition(v, event)
  OBVIOUS
<1>3. \/ w = v /\ \A x : <<event, x>> \notin transitions[v]
      \/ <<event, w>> \in transitions[v]
  BY <1>1, <1>2
<1>4. CASE v = "NONE"
  BY <1>2, <1>3, <1>4 DEF transitions, TroveViews, OpenViews, Events
<1>5. CASE v \in {"LIQUIDATED", "REDEEMED"}
  BY <1>2, <1>3, <1>5 DEF transitions, TroveViews, OpenViews, Events
<1>6. CASE v = "OPENING"
  BY <1>2, <1>3, <1>6 DEF transitions, TroveViews, OpenViews, Events
<1>7. CASE v \in {"ADJUSTING", "CLOSING"}
  BY <1>2, <1>3, <1>7 DEF transitions, TroveViews, OpenViews, Events
<1>8. CASE v = "ACTIVE"
  BY <1>2, <1>3, <1>8 DEF transitions, TroveViews, OpenViews, Events
<1> QED
  BY <1>4, <1>5, <1>6, <1>7, <1>8 DEF TroveViews

LEMMA ChangeFields ==
  ASSUME TVTypes, NEW s \in UserTroveStatus, NEW b \in BOOLEAN, NEW t \in Transactions,
         Change(s, b, t)
  PROVE  /\ chain' \in TroveStates /\ chain'.status = s /\ chain'.surplus = b /\ tx' = t
         /\ changes' \in [all : Nat, unseen : Nat] /\ changes'.unseen = changes.unseen + 1
         /\ UNCHANGED <<polled, handled, view, viewRef, raced, skipped, ahead>>
<1>1. chain' = [status |-> s, surplus |-> b]
  BY Zenon DEF Change
<1>2. changes' = [all |-> changes.all + 1, unseen |-> changes.unseen + 1]
  BY Zenon DEF Change
<1>3. changes.all + 1 \in Nat /\ changes.unseen + 1 \in Nat
  BY DEF TVTypes
<1>4. chain' \in TroveStates /\ chain'.status = s /\ chain'.surplus = b
  BY <1>1, Zenon DEF TroveStates
<1>5. changes' \in [all : Nat, unseen : Nat] /\ changes'.unseen = changes.unseen + 1
  BY <1>2, <1>3
<1> QED
  BY <1>4, <1>5 DEF Change

\* The trove changes on the chain: the page is as it was, and the store one change further
\* behind.
LEMMA ChangeStep ==
  ASSUME ViewStateInv, NEW s \in UserTroveStatus \ {"nonExistent"}, NEW b \in BOOLEAN,
         NEW t \in Transactions, Change(s, b, t),
         changes.unseen = 0 => OneChange(chain, chain'),
         t.mined /\ t.kind = "trove-closure" => s = "closedByOwner",
         t.mined /\ t.kind = "claim-coll-surplus" /\ ~t.overtaken => ~b
  PROVE  ViewStateInv'
<1>1. /\ chain' \in TroveStates /\ chain'.status = s /\ chain'.surplus = b /\ tx' = t
      /\ changes' \in [all : Nat, unseen : Nat] /\ changes'.unseen = changes.unseen + 1
      /\ UNCHANGED <<polled, handled, view, viewRef, raced, skipped, ahead>>
  BY ChangeFields DEF ViewStateInv
<1>2. TVTypes' /\ changes.unseen \in Nat
  BY <1>1 DEF ViewStateInv, TVTypes
<1>3. changes'.unseen # 0 /\ (changes'.unseen = 1 => changes.unseen = 0)
  BY <1>1, <1>2
<1>4. OneChange(polled, chain)' <=> OneChange(polled, chain')
  BY <1>1 DEF OneChange
<1>5. Follows'
  BY <1>1, <1>3, <1>4 DEF ViewStateInv, Follows
<1>6. ~raced /\ ~skipped => InOrder'
  <2>1. SUFFICES ASSUME ~raced, ~skipped
                 PROVE  InOrder'
    OBVIOUS
  <2>2. InOrder /\ (Matches' <=> Matches)
    BY <1>1, <2>1 DEF ViewStateInv, Matches, Claimable
  <2>3. changes.unseen >= 1 => changes'.unseen >= 2 /\ changes'.unseen >= 1 /\ changes'.unseen # 1
    BY <1>1, <1>2
  <2>4. changes.unseen >= 2 => changes.unseen >= 1
    BY <1>2
  <2> QED
    BY <1>1, <2>2, <2>3, <2>4 DEF InOrder
<1> QED
  BY <1>1, <1>2, <1>5, <1>6 DEF ViewStateInv

\* Nothing but the transaction changes.
LEMMA TransactionStep ==
  ASSUME ViewStateInv, tx' \in Transactions, UNCHANGED <<chain, polled, handled, view, viewRef, changes, raced, skipped, ahead>>,
         tx'.mined => tx'.kind \notin {"trove-closure", "claim-coll-surplus"}
  PROVE  ViewStateInv'
<1>1. TVTypes' /\ Follows'
  BY DEF ViewStateInv, TVTypes, Follows, OneChange
<1>2. InOrder' <=> InOrder
  BY DEF InOrder, Matches, Claimable, AheadByOne
<1> QED
  BY <1>1, <1>2 DEF ViewStateInv

\* An event the page answers to, dispatched for a view that is up to date.
LEMMA DispatchFields ==
  ASSUME TVTypes, NEW event \in Events, dispatchEvent(event)
  PROVE  /\ view' \in TroveViews /\ raced' \in BOOLEAN
         /\ ~raced' => ~raced /\ view = viewRef /\ view' = transition(view, event)
<1>1. view' = transition(viewRef, event) /\ raced' = (raced \/ view # viewRef)
  BY DEF dispatchEvent
<1>2. view' \in TroveViews
  BY <1>1, TransitionFacts DEF TVTypes
<1> QED
  BY <1>1, <1>2 DEF TVTypes

LEMMA TakenAwayStep ==
  ASSUME ViewStateInv, liquidate \/ redeem
  PROVE  ViewStateInv'
<1>1. PICK s \in {"closedByLiquidation", "closedByRedemption"}, left \in BOOLEAN : TakenAway(s, left)
  BY DEF liquidate, redeem
<1> DEFINE t == [tx EXCEPT !.overtaken = tx.mined]
           b == chain.surplus \/ left
<1>2. t \in Transactions /\ t.kind = tx.kind /\ t.mined = tx.mined /\ t.overtaken = tx.mined
  <2>1. tx \in Transactions
    BY DEF ViewStateInv, TVTypes
  <2> QED
    BY <2>1, Zenon DEF Transactions
<1>3. chain.status = "open" /\ TVTypes /\ Follows
  BY <1>1 DEF TakenAway, ViewStateInv
<1>4. Change(s, b, t)
  BY <1>1, Zenon DEF TakenAway
<1>5. b \in BOOLEAN
  OBVIOUS
<1>6. s \in UserTroveStatus /\ s \notin {"nonExistent", "closedByOwner"}
  BY DEF UserTroveStatus, Closed
<1> HIDE DEF t, b
<1>7. OneChange(chain, chain')
  BY <1>2, <1>3, <1>4, <1>5, <1>6, ChangeFields DEF OneChange
<1>8. ~(t.mined /\ t.kind = "trove-closure")
  BY <1>2, <1>3 DEF Follows
<1> QED
  BY <1>2, <1>4, <1>5, <1>6, <1>7, <1>8, ChangeStep

LEMMA MinedStep ==
  ASSUME ViewStateInv, openTrove \/ closeTrove \/ claimCollateral \/ adjustTrove
  PROVE  ViewStateInv'
<1>1. Done \in Transactions /\ Done.kind = tx.kind /\ Done.mined = TRUE
  <2>1. tx \in Transactions
    BY DEF ViewStateInv, TVTypes
  <2> QED
    BY <2>1, Zenon DEF Transactions, Done
<1>2. TVTypes /\ Follows
  BY DEF ViewStateInv
<1>3. chain.surplus \in BOOLEAN /\ chain.status \in UserTroveStatus
  BY <1>2, Zenon DEF TVTypes, TroveStates
<1> USE DEF UserTroveStatus, Closed
<1>4. CASE openTrove
  <2>1. tx.kind = "trove-creation" /\ chain.status # "open" /\ Change("open", chain.surplus, Done)
    BY <1>4, Zenon DEF openTrove, Pending
  <2>2. OneChange(chain, chain')
    BY <1>1, <1>2, <1>3, <2>1, ChangeFields DEF OneChange
  <2> QED
    BY <1>1, <1>3, <2>1, <2>2, ChangeStep
<1>5. CASE closeTrove
  <2>1. tx.kind = "trove-closure" /\ chain.status = "open" /\ Change("closedByOwner", chain.surplus, Done)
    BY <1>5, Zenon DEF closeTrove, Pending
  <2>2. OneChange(chain, chain')
    BY <1>1, <1>2, <1>3, <2>1, ChangeFields DEF OneChange
  <2> QED
    BY <1>1, <1>3, <2>1, <2>2, ChangeStep
<1>6. CASE claimCollateral
  <2>1. tx.kind = "claim-coll-surplus" /\ chain.surplus /\ Change(chain.status, FALSE, Done)
    BY <1>6, Zenon DEF claimCollateral, Pending
  <2>2. OneChange(chain, chain')
    BY <1>1, <1>2, <1>3, <2>1, ChangeFields DEF OneChange
  <2>3. chain.status # "nonExistent"
    BY <1>2, <2>1 DEF Follows
  <2> QED
    BY <1>1, <1>3, <2>1, <2>2, <2>3, ChangeStep
<1>7. CASE adjustTrove
  <2>1. /\ tx.kind = "trove-adjustment" /\ tx' = Done
        /\ UNCHANGED <<chain, changes, polled, handled, view, viewRef, raced, skipped, ahead>>
    BY <1>7, Zenon DEF adjustTrove, Pending
  <2> QED
    BY <1>1, <2>1, TransactionStep
<1> QED
  BY <1>4, <1>5, <1>6, <1>7

LEMMA PollStep ==
  ASSUME ViewStateInv, Poll
  PROVE  ViewStateInv'
<1>1. /\ polled' = chain /\ changes' = [changes EXCEPT !.unseen = 0] /\ ahead' = FALSE
      /\ skipped' = (skipped \/ changes.unseen > 1 \/ handled # polled.status)
      /\ UNCHANGED <<chain, handled, view, viewRef, tx, raced>>
  BY DEF Poll
<1>2. TVTypes /\ Follows /\ changes.unseen \in Nat
  BY DEF ViewStateInv, TVTypes
<1>3. changes' \in [all : Nat, unseen : Nat] /\ changes'.unseen = 0
  <2>1. changes \in [all : Nat, unseen : Nat]
    BY DEF ViewStateInv, TVTypes
  <2> QED
    BY <1>1, <2>1
<1>4. TVTypes'
  BY <1>1, <1>2, <1>3 DEF TVTypes
<1>5. Follows'
  BY <1>1, <1>2, <1>3 DEF Follows
<1>6. ASSUME ~raced', ~skipped'
      PROVE  InOrder'
  <2>1. ~raced /\ ~skipped /\ handled = polled.status /\ ~(changes.unseen > 1)
    BY <1>1, <1>6
  <2>2. InOrder /\ (changes.unseen = 0 \/ changes.unseen = 1)
    BY <1>2, <2>1 DEF ViewStateInv
  <2>3. \/ Matches
        \/ view \notin OpenViews /\ changes.unseen = 1 /\ AheadByOne
    BY <2>1, <2>2 DEF InOrder
  <2>4. \/ chain = polled
        \/ OneChange(polled, chain)
    BY <1>2, <2>2 DEF Follows
  <2>5. CASE chain = polled
    <3>1. Matches \/ (view \notin OpenViews /\ ~polled.surplus /\ polled.status # "open")
      BY <2>3, <2>5 DEF AheadByOne
    <3>2. Matches'
      BY <1>1, <2>5, <3>1 DEF Matches, Claimable
    <3> QED
      BY <1>1, <2>1, <2>5, <3>2 DEF InOrder
  <2>6. CASE OneChange(polled, chain)
    <3>1. CASE polled.status = "open" /\ chain.status \in {"closedByLiquidation", "closedByRedemption"}
      <4>1. view \in OpenViews
        BY <2>3, <3>1 DEF Matches, Claimable, AheadByOne
      <4> QED
        BY <1>1, <2>1, <3>1, <4>1 DEF InOrder, Closed
    <3>2. CASE polled.status # "open" /\ chain.status = "open"
      BY <1>1, <2>1, <3>2 DEF InOrder
    <3>3. CASE polled.status = "open" /\ chain.status = "closedByOwner"
      BY <1>1, <2>1, <3>3 DEF InOrder, Closed
    <3>4. CASE polled.status = chain.status /\ ~chain.surplus
      <4>1. CASE polled.status = "open"
        <5>1. view \in OpenViews
          BY <2>3, <3>4, <4>1 DEF Matches, Claimable, AheadByOne
        <5> QED
          BY <1>1, <2>1, <3>4, <4>1, <5>1 DEF InOrder, Matches, Claimable
      <4>2. CASE polled.status # "open"
        <5>1. view \notin OpenViews
          BY <2>1, <4>2 DEF ViewStateInv
        <5> QED
          BY <1>1, <2>1, <3>4, <4>2, <5>1 DEF InOrder, Matches, Claimable
      <4> QED
        BY <4>1, <4>2
    <3> QED
      BY <2>6, <3>1, <3>2, <3>3, <3>4 DEF OneChange
  <2> QED
    BY <2>4, <2>5, <2>6
<1>7. ~raced' /\ handled' # "open" => view' \notin OpenViews
  BY <1>1 DEF ViewStateInv
<1> QED
  BY <1>4, <1>5, <1>6, <1>7 DEF ViewStateInv

\* The views that a status with a surplus calls for.
LEMMA InitialViews ==
  ASSUME Claimable
  PROVE  /\ polled.surplus
         /\ getInitialView(polled.status) \in {"LIQUIDATED", "REDEEMED"}
         /\ getInitialView(polled.status) \notin OpenViews
  BY DEF Claimable, getInitialView, OpenViews

LEMMA StatusEffectStep ==
  ASSUME ViewStateInv, StatusEffect
  PROVE  ViewStateInv'
<1> DEFINE event == troveStatusEvents(polled.status)
<1>1. /\ handled # polled.status /\ handled' = polled.status /\ dispatchEvent(event)
      /\ UNCHANGED <<chain, polled, viewRef, tx, changes, skipped, ahead>>
  BY DEF StatusEffect
<1>2. TVTypes /\ Follows /\ polled.status \in UserTroveStatus
  BY DEF ViewStateInv, TVTypes, TroveStates
<1>3. polled.status # "nonExistent"
  BY <1>1, <1>2 DEF Follows
<1>4. /\ event \in Events /\ event # "none"
      /\ event = "TROVE_OPENED" <=> polled.status = "open"
      /\ polled.status = "closedByOwner" => event = "TROVE_CLOSED"
      /\ polled.status = "closedByLiquidation" => event = "TROVE_LIQUIDATED"
      /\ polled.status = "closedByRedemption" => event = "TROVE_REDEEMED"
      /\ polled.status # "open" => event \in {"TROVE_CLOSED", "TROVE_LIQUIDATED", "TROVE_REDEEMED"}
  BY <1>2, <1>3 DEF troveStatusEvents, Events, UserTroveStatus, Closed
<1> HIDE DEF event
<1>5. /\ view' \in TroveViews /\ raced' \in BOOLEAN
      /\ ~raced' => ~raced /\ view' = transition(view, event)
  BY <1>1, <1>2, <1>4, DispatchFields
<1>6. TVTypes' /\ Follows'
  BY <1>1, <1>2, <1>3, <1>5 DEF TVTypes, Follows, OneChange
<1>7. view \in TroveViews
  BY <1>2 DEF TVTypes
<1>8. ASSUME ~raced', polled.status # "open"
      PROVE  /\ view' \notin OpenViews
             /\ view \in OpenViews => view' = getInitialView(polled.status)
  <2>1. event \in {"TROVE_CLOSED", "TROVE_LIQUIDATED", "TROVE_REDEEMED"} /\ view' = transition(view, event)
    BY <1>4, <1>5, <1>8
  <2>2. CASE view \in OpenViews
    <3>1. view' = CASE event = "TROVE_CLOSED" -> "NONE"
                    [] event = "TROVE_LIQUIDATED" -> "LIQUIDATED"
                    [] event = "TROVE_REDEEMED" -> "REDEEMED"
      BY <1>4, <1>7, <2>1, <2>2, TransitionFacts
    <3>2. view' = getInitialView(polled.status)
      BY <1>2, <1>3, <1>4, <1>8, <3>1 DEF getInitialView, UserTroveStatus, Closed
    <3> QED
      BY <2>1, <3>1, <3>2 DEF OpenViews
  <2>3. CASE view \notin OpenViews
    BY <1>4, <1>7, <2>1, <2>3, TransitionFacts
  <2> QED
    BY <2>2, <2>3
<1>9. ASSUME ~raced', ~skipped'
      PROVE  InOrder'
  <2>1. InOrder /\ ~raced
    BY <1>1, <1>5, <1>9 DEF ViewStateInv
  <2>2. CASE polled.status = "open"
    <3>1. view' \in OpenViews
      BY <1>4, <1>5, <1>7, <1>9, <2>2, TransitionFacts
    <3> QED
      BY <1>1, <2>2, <3>1 DEF InOrder, Matches, Claimable
  <2>3. CASE polled.status # "open"
    <3>1. \/ view \in OpenViews \/ polled.status = "closedByOwner"
          \/ ahead /\ changes.unseen >= 2
      BY <1>1, <2>1, <2>3 DEF InOrder
    <3>2. CASE view \in OpenViews \/ polled.status = "closedByOwner"
      <4>1. Claimable => view' = getInitialView(polled.status)
        BY <1>2, <1>8, <1>9, <2>3, <3>2 DEF Claimable
      <4>2. Matches'
        BY <1>1, <1>8, <1>9, <2>3, <4>1 DEF Matches, Claimable
      <4> QED
        BY <1>1, <4>2 DEF InOrder
    <3>3. CASE ahead /\ changes.unseen >= 2
      <4>1. changes.unseen >= 1 /\ changes.unseen # 1
        BY <1>2, <3>3 DEF TVTypes
      <4> QED
        BY <1>1, <1>8, <1>9, <2>3, <3>3, <4>1 DEF InOrder
    <3> QED
      BY <3>1, <3>2, <3>3
  <2> QED
    BY <2>2, <2>3
<1> QED
  BY <1>1, <1>6, <1>8, <1>9 DEF ViewStateInv

\* The view moves among those of an open trove, or among the others without leaving a
\* surplus behind.
LEMMA ViewMoves ==
  ASSUME ViewStateInv, tx' \in Transactions, tx' = tx \/ ~tx'.mined, view' \in TroveViews,
         raced' \in BOOLEAN, skipped' \in BOOLEAN, ahead' \in BOOLEAN,
         ~raced' => ~raced, ~skipped' => ~skipped, ahead => ahead',
         ~raced' => (view' \in OpenViews <=> view \in OpenViews),
         ~raced' /\ ~skipped' /\ Claimable /\ view = getInitialView(polled.status) => view' = view,
         UNCHANGED <<chain, polled, handled, viewRef, changes>>
  PROVE  ViewStateInv'
<1>1. TVTypes' /\ Follows'
  BY DEF ViewStateInv, TVTypes, Follows, OneChange
<1>2. ASSUME ~raced', ~skipped'
      PROVE  InOrder'
  <2>1. InOrder /\ (view' \in OpenViews <=> view \in OpenViews)
    BY <1>2 DEF ViewStateInv
  <2>2. Matches => Matches'
    BY <1>2, <2>1 DEF Matches, Claimable
  <2> QED
    BY <2>1, <2>2 DEF InOrder, AheadByOne
<1> QED
  BY <1>1, <1>2 DEF ViewStateInv

LEMMA PressStep ==
  ASSUME ViewStateInv, NEW event \in Events, Press(event),
         event \in {"OPEN_TROVE_PRESSED", "ADJUST_TROVE_PRESSED", "CLOSE_TROVE_PRESSED",
                    "CANCEL_ADJUST_TROVE_PRESSED"}
  PROVE  ViewStateInv'
<1>1. /\ event \in Buttons(view) /\ dispatchEvent(event)
      /\ UNCHANGED <<chain, polled, handled, viewRef, tx, changes, skipped, ahead>>
  BY DEF Press
<1>2. TVTypes /\ Follows /\ view \in TroveViews
  BY DEF ViewStateInv, TVTypes
<1>3. /\ view' \in TroveViews /\ raced' \in BOOLEAN
      /\ ~raced' => ~raced /\ view' = transition(view, event)
  BY <1>1, <1>2, DispatchFields
<1>4. ~raced' => (view' \in OpenViews <=> view \in OpenViews)
  BY <1>2, <1>3, TransitionFacts
<1>5. ~(Claimable /\ view = getInitialView(polled.status))
  <2>1. ~(polled.surplus /\ view \in {"LIQUIDATED", "REDEEMED"})
    BY <1>1 DEF Buttons
  <2> QED
    BY <1>2, <2>1, InitialViews
<1> QED
  BY <1>1, <1>2, <1>3, <1>4, <1>5, ViewMoves DEF TVTypes

LEMMA SubmitStep ==
  ASSUME ViewStateInv, Submit
  PROVE  ViewStateInv'
<1>1. PICK kind \in Kinds : tx' = [NoTransaction EXCEPT !.kind = kind]
  BY Zenon DEF Submit, Kinds
<1>2. NoTransaction \in Transactions
  BY Zenon DEF NoTransaction, Transactions, Kinds
<1>3. tx' \in Transactions /\ tx'.mined = NoTransaction.mined
  BY <1>1, <1>2, Zenon DEF Transactions
<1>4. ~tx'.mined
  BY <1>3 DEF NoTransaction
<1> QED
  BY <1>3, <1>4, TransactionStep DEF Submit

LEMMA NoTransactionFields == NoTransaction \in Transactions /\ ~NoTransaction.mined
<1>1. NoTransaction \in Transactions
  BY Zenon DEF NoTransaction, Transactions, Kinds
<1> QED
  BY <1>1 DEF NoTransaction

LEMMA ConfirmedStep ==
  ASSUME ViewStateInv, Confirmed
  PROVE  ViewStateInv'
<1> DEFINE event == ConfirmationEvent(tx.kind)
<1>1. /\ tx.mined /\ tx' = NoTransaction /\ UNCHANGED <<chain, polled, handled, viewRef, changes>>
      /\ IF event = "none" THEN UNCHANGED <<view, raced, ahead, skipped>>
         ELSE /\ dispatchEvent(event)
              /\ ahead' = (ahead \/ changes.unseen > 0)
              /\ skipped' = (skipped \/ (tx.overtaken /\ tx.kind = "claim-coll-surplus"))
  BY DEF Confirmed
<1>2. TVTypes /\ Follows /\ view \in TroveViews /\ changes.unseen \in Nat
  BY DEF ViewStateInv, TVTypes
<1>3. tx' \in Transactions /\ ~tx'.mined
  BY <1>1, NoTransactionFields
<1>4. CASE event = "none"
  <2>1. UNCHANGED <<view, raced, ahead, skipped>>
    BY <1>1, <1>4
  <2> QED
    BY <1>1, <1>3, <2>1, TransactionStep
<1>5. CASE event # "none"
  <2>1. \/ event = "TROVE_CLOSED" /\ view = "CLOSING" /\ tx.kind = "trove-closure"
        \/ event = "TROVE_ADJUSTED" /\ view \in OpenViews
        \/ /\ event = "TROVE_SURPLUS_COLLATERAL_CLAIMED" /\ view \notin OpenViews /\ polled.surplus
           /\ tx.kind = "claim-coll-surplus"
    BY <1>5 DEF ConfirmationEvent, OpenViews
  <2>2. event \in Events
    BY <2>1 DEF Events
  <2>3. /\ dispatchEvent(event)
        /\ ahead' = (ahead \/ changes.unseen > 0)
        /\ skipped' = (skipped \/ (tx.overtaken /\ tx.kind = "claim-coll-surplus"))
    BY <1>1, <1>5
  <2> HIDE DEF event
  <2>4. /\ view' \in TroveViews /\ raced' \in BOOLEAN
        /\ ~raced' => ~raced /\ view' = transition(view, event)
    BY <1>2, <2>2, <2>3, DispatchFields
  <2>5. ahead' \in BOOLEAN /\ skipped' \in BOOLEAN /\ (ahead => ahead') /\ (~skipped' => ~skipped)
    BY <1>2, <2>3 DEF TVTypes
  <2>6. TVTypes' /\ Follows'
    BY <1>1, <1>2, <1>3, <2>4, <2>5 DEF TVTypes, Follows, OneChange
  <2>7. CASE event = "TROVE_ADJUSTED" /\ view \in OpenViews
    <3>1. ~raced' => view' \in OpenViews
      BY <1>2, <2>2, <2>4, <2>7, TransitionFacts
    <3>2. ~(Claimable /\ view = getInitialView(polled.status))
      BY <1>2, <2>7, InitialViews
    <3> QED
      BY <1>1, <1>3, <2>4, <2>5, <2>7, <3>1, <3>2, ViewMoves
  <2>8. CASE event = "TROVE_CLOSED" /\ view = "CLOSING" /\ tx.kind = "trove-closure"
    <3>1. view \in OpenViews /\ chain.status = "closedByOwner"
      BY <1>1, <1>2, <2>8 DEF OpenViews, Follows
    <3>2. ~raced' => view' \notin OpenViews /\ handled = "open"
      <4>1. ~raced' => view' = "NONE"
        BY <1>2, <2>2, <2>4, <2>8, <3>1, TransitionFacts
      <4> QED
        BY <2>4, <3>1, <4>1 DEF ViewStateInv, OpenViews
    <3>3. ASSUME ~raced', ~skipped'
          PROVE  InOrder'
      <4>1. InOrder /\ handled = "open" /\ view' \notin OpenViews
        BY <2>4, <2>5, <3>2, <3>3 DEF ViewStateInv
      <4>2. CASE polled.status = "open"
        <5>1. changes.unseen # 0
          BY <1>2, <3>1, <4>2 DEF Follows
        <5>2. changes.unseen > 0 /\ changes.unseen >= 1
          BY <1>2, <5>1
        <5>3. ahead' /\ AheadByOne'
          BY <1>1, <2>3, <3>1, <4>2, <5>2 DEF AheadByOne
        <5> QED
          BY <1>1, <4>1, <4>2, <5>2, <5>3 DEF InOrder
      <4>3. CASE polled.status # "open"
        <5>1. polled.status \in Closed
          BY <4>1, <4>3 DEF InOrder
        <5>2. CASE changes.unseen = 0 \/ changes.unseen = 1
          <6>1. polled.status = "closedByOwner"
            BY <1>2, <3>1, <4>3, <5>2 DEF Follows, OneChange
          <6> QED
            BY <1>1, <4>1, <4>3, <5>1, <6>1 DEF InOrder
        <5>3. CASE ~(changes.unseen = 0 \/ changes.unseen = 1)
          <6>1. changes.unseen >= 2 /\ changes.unseen > 0
            BY <1>2, <5>3
          <6>2. ahead'
            BY <2>3, <6>1
          <6> QED
            BY <1>1, <4>1, <4>3, <5>1, <6>1, <6>2 DEF InOrder
        <5> QED
          BY <5>2, <5>3
      <4> QED
        BY <4>2, <4>3
    <3>4. ~raced' /\ handled' # "open" => view' \notin OpenViews
      BY <3>2
    <3> QED
      BY <2>6, <3>3, <3>4 DEF ViewStateInv
  <2>9. CASE /\ event = "TROVE_SURPLUS_COLLATERAL_CLAIMED" /\ view \notin OpenViews /\ polled.surplus
             /\ tx.kind = "claim-coll-surplus"
    <3>1. ~raced' => view' \notin OpenViews
      BY <1>2, <2>2, <2>4, <2>9, TransitionFacts
    <3>2. ASSUME ~raced', ~skipped'
          PROVE  InOrder'
      <4>1. InOrder /\ view' \notin OpenViews
        BY <2>4, <2>5, <3>1, <3>2 DEF ViewStateInv
      <4>2. ~chain.surplus
        BY <1>1, <1>2, <2>3, <2>9, <3>2 DEF Follows
      <4>3. changes.unseen # 0
        BY <1>2, <2>9, <4>2 DEF Follows
      <4>4. changes.unseen > 0 /\ changes.unseen >= 1
        BY <1>2, <4>3
      <4>5. ahead'
        BY <2>3, <4>4
      <4>6. CASE handled = polled.status
        <5>1. changes.unseen = 1 => AheadByOne
          <6>1. CASE polled.status = "open"
            BY <2>9, <4>1, <4>6, <6>1 DEF InOrder, Matches, Claimable
          <6>2. CASE polled.status # "open" /\ changes.unseen = 1
            BY <1>2, <2>9, <4>2, <6>2 DEF Follows, OneChange, AheadByOne
          <6> QED
            BY <6>1, <6>2
        <5>2. changes'.unseen = 1 => AheadByOne'
          BY <1>1, <5>1 DEF AheadByOne
        <5> QED
          BY <1>1, <4>1, <4>4, <4>5, <4>6, <5>2 DEF InOrder
      <4>7. CASE handled # polled.status
        BY <1>1, <2>9, <4>1, <4>5, <4>7 DEF InOrder
      <4> QED
        BY <4>6, <4>7
    <3> QED
      BY <2>6, <3>1, <3>2 DEF ViewStateInv
  <2> QED
    BY <2>1, <2>7, <2>8, <2>9
<1> QED
  BY <1>4, <1>5

LEMMA ViewStateStep ==
  ASSUME ViewStateInv, [TVNext]_tvVars
  PROVE  ViewStateInv'
<1>1. CASE Fails
  BY <1>1, NoTransactionFields, TransactionStep DEF Fails
<1>2. CASE RefEffect
  <2>1. viewRef' = view /\ UNCHANGED <<chain, polled, handled, view, tx, changes, raced, skipped, ahead>>
    BY <1>2 DEF RefEffect
  <2>2. TVTypes' /\ Follows'
    BY <2>1 DEF ViewStateInv, TVTypes, Follows, OneChange
  <2>3. InOrder' <=> InOrder
    BY <2>1 DEF InOrder, Matches, Claimable, AheadByOne
  <2> QED
    BY <2>1, <2>2, <2>3 DEF ViewStateInv
<1>3. ASSUME NEW event \in {"OPEN_TROVE_PRESSED", "ADJUST_TROVE_PRESSED", "CLOSE_TROVE_PRESSED",
                            "CANCEL_ADJUST_TROVE_PRESSED"}, Press(event)
      PROVE  ViewStateInv'
  BY <1>3, PressStep DEF Events
<1>4. CASE UNCHANGED tvVars
  <2>1. UNCHANGED <<chain, polled, handled, view, viewRef, tx, changes, raced, skipped, ahead>>
    BY <1>4 DEF tvVars
  <2>2. TVTypes' /\ Follows'
    BY <2>1 DEF ViewStateInv, TVTypes, Follows, OneChange
  <2>3. InOrder' <=> InOrder
    BY <2>1 DEF InOrder, Matches, Claimable, AheadByOne
  <2> QED
    BY <2>1, <2>2, <2>3 DEF ViewStateInv
<1> QED
  BY <1>1, <1>2, <1>3, <1>4, TakenAwayStep, MinedStep, PollStep, StatusEffectStep, SubmitStep,
     ConfirmedStep DEF TVNext

LEMMA ViewStateStart ==
  ASSUME TVInit
  PROVE  ViewStateInv
<1>1. /\ chain \in TroveStates /\ polled = chain /\ handled = chain.status
      /\ view = getInitialView(chain.status) /\ viewRef = view /\ tx = NoTransaction
      /\ changes = [all |-> 0, unseen |-> 0]
      /\ raced = FALSE /\ skipped = FALSE /\ ahead = FALSE
      /\ chain.surplus => chain.status # "nonExistent"
  BY DEF TVInit, TroveStates
<1>2. chain.status \in UserTroveStatus
  BY <1>1 DEF TroveStates
<1>3. view \in TroveViews /\ (view \in OpenViews <=> chain.status = "open")
  BY <1>1, <1>2 DEF getInitialView, TroveViews, OpenViews
<1>4. changes \in [all : Nat, unseen : Nat] /\ changes.unseen = 0
  BY <1>1
<1>5. TVTypes
  BY <1>1, <1>2, <1>3, <1>4, NoTransactionFields DEF TVTypes
<1>6. Follows
  BY <1>1, <1>4, NoTransactionFields DEF Follows
<1>7. Matches
  BY <1>1, <1>3 DEF Matches, Claimable
<1> QED
  BY <1>1, <1>3, <1>5, <1>6, <1>7 DEF ViewStateInv, InOrder

(***************************************************************************)
(* A trove the store knows to be closed is never shown as one to adjust or *)
(* close, and the view is the one the trove's status and surplus call for  *)
(* unless a state was skipped or a confirmation is ahead (TroveViewProvider*)
(* and the components that dispatch its events), for any number of changes *)
(* of the trove.                                                           *)
(***************************************************************************)
THEOREM ViewFollowsTrove == TVSpec => []ViewMatchesTrove
<1>1. TVInit => ViewStateInv
  BY ViewStateStart
<1>2. ViewStateInv /\ [TVNext]_tvVars => ViewStateInv'
  BY ViewStateStep
<1>3. ViewStateInv => ViewMatchesTrove
  <2>1. SUFFICES ASSUME ViewStateInv, Quiet
                 PROVE  /\ polled.status \in Closed => view \notin OpenViews
                        /\ ~skipped /\ ~ahead => Matches
    BY DEF ViewMatchesTrove, Matches, OpenViews
  <2>2. handled = polled.status /\ ~raced
    BY <2>1 DEF Quiet
  <2>3. polled.status \in Closed => view \notin OpenViews
    BY <2>1, <2>2 DEF ViewStateInv, Closed
  <2>4. ~skipped /\ ~ahead => Matches
    BY <2>1, <2>2 DEF ViewStateInv, InOrder
  <2> QED
    BY <2>3, <2>4
<1> QED
  BY <1>1, <1>2, <1>3, PTL DEF TVSpec

-----------------------------------------------------------------------------
(***************************************************************************)
(* The client as a whole                                                   *)
(***************************************************************************)

ClientInv == BatchInv /\ StoreInv /\ MonitorInv /\ ViewStateInv

\* A step of the client is a step of one component, or none, of each of them.
LEMMA ClientSteps ==
  ASSUME [ClientNext]_clientVars
  PROVE  /\ [BatchNext]_batchVars /\ [StoreNext]_storeVars
         /\ [MonitorNext]_monitorVars /\ [TVNext]_tvVars
<1>1. CASE UNCHANGED clientVars
  BY <1>1, Zenon DEF clientVars
<1>2. CASE ClientNext
  BY <1>2, Zenon DEF ClientNext
<1> QED
  BY <1>1, <1>2

LEMMA ClientTypesHold == ClientInv => ClientTypeOK
<1> SUFFICES ASSUME ClientInv
             PROVE  ClientTypeOK
  OBVIOUS
<1>1. BatchTypeOK
  <2>1. /\ batched \in Batches /\ batched.callbacks = batched.calls
        /\ \A r \in requests : r \in Batches
        /\ multicall \in BOOLEAN /\ chainId \in BOOLEAN /\ pc \in [Calls -> Steps]
        /\ dispatchTimer = (batched.calls # <<>>)
    BY DEF ClientInv, BatchInv, Paired
  <2>2. (batched.calls # <<>>) \in BOOLEAN
    OBVIOUS
  <2>3. dispatchTimer \in BOOLEAN
    BY <2>1, <2>2, Zenon
  <2>4. /\ batched.calls \in Seq(Calls) /\ batched.callbacks \in Seq(Calls)
        /\ batched.blockTag \in Tags /\ Len(batched.callbacks) = Len(batched.calls)
        /\ \A r \in requests : r.calls \in Seq(Calls) /\ r.callbacks \in Seq(Calls)
    BY <2>1 DEF Batches
  <2> QED
    BY <2>1, <2>3, <2>4, Zenon DEF BatchTypeOK, Steps
<1>2. MonitorTypeOK
  <2>1. \A s \in {transactionState, rendered} :
          s.type \in Waiting \cup Notices \cup {"idle", "confirmedOneShot"} /\ s.tx \in Txs \cup {NoTx}
    BY DEF ClientInv, MonitorInv, PageState, StateTypes
  <2>2. monitor.tx \in Txs \cup {NoTx} /\ monitor.finished \in BOOLEAN
    BY DEF ClientInv, MonitorInv
  <2> QED
    BY <2>1, <2>2 DEF MonitorTypeOK, ClientInv, MonitorInv
<1>3. TVTypeOK
  BY DEF TVTypeOK, ClientInv, ViewStateInv, TVTypes, TroveStates, Transactions
<1> QED
  BY <1>1, <1>2, <1>3, StoreTypes DEF ClientTypeOK, ClientInv

LEMMA ClientStart == ClientInit => ClientInv
  BY BatchStart, StoreStart, MonitorStart, ViewStateStart DEF ClientInit, ClientInv

LEMMA ClientStep ==
  ASSUME ClientInv, [ClientNext]_clientVars
  PROVE  ClientInv'
  BY ClientSteps, BatchStep, StoreStep, MonitorStep, ViewStateStep DEF ClientInv

(***************************************************************************)
(* The provider, the store, the transactions and the view of the trove     *)
(* keep their types, and a batch has a timer exactly as long as it has     *)
(* calls (_enqueueCall and _dispatchCalls), whichever component works.     *)
(***************************************************************************)
THEOREM ClientIsTyped == ClientSpec => []ClientTypeOK
  BY ClientStart, ClientStep, ClientTypesHold, PTL DEF ClientSpec
=============================================================================
