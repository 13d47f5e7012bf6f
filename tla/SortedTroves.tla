---------------------------- MODULE SortedTroves ----------------------------
(***************************************************************************)
(* The doubly linked list of SortedTroves.sol, ordered by nominal          *)
(* collateral ratio (NICR), the head being the largest.  The list stores   *)
(* no NICR: every comparison asks the TroveManager for the current one, so *)
(* the keys move under the list between two transactions.                  *)
(*                                                                         *)
(* The search for an insert position is a loop over the stored pointers;   *)
(* each iteration is one step of the model.  A transaction is atomic, so   *)
(* no other operation starts while a search is under way.                  *)
(***************************************************************************)
EXTENDS Integers, FiniteSets

CONSTANTS
  Ids,      \* addresses of trove owners
  NullId,   \* address(0)
  MaxSize,  \* data.maxSize, given once to setParams
  MaxNICR   \* bound on the finite NICRs

ASSUME IdsAssumption == NullId \notin Ids /\ IsFiniteSet(Ids)
ASSUME SizeAssumption == MaxSize \in Nat \ {0} /\ MaxNICR \in Nat \ {0}

VARIABLES
  data,     \* struct Data: head, tail, size and the nodes mapping
  nicr,     \* what troveManager.getNominalICR returns
  search,   \* the _insert call under way: its id, NICR and current position
  drifted   \* history: a member's NICR has moved without a reInsert

vars == <<data, nicr, search, drifted>>

Nodes == Ids \cup {NullId}

\* The NICR of an account with no debt: LiquityMath returns the largest uint.
Infinite == MaxNICR + 1

NICRs == 0..Infinite

Data == [head : Nodes, tail : Nodes, size : Nat, exists : SUBSET Ids,
         nextId : [Nodes -> Nodes], prevId : [Nodes -> Nodes]]

EmptyList ==
  [head |-> NullId, tail |-> NullId, size |-> 0, exists |-> {},
   nextId |-> [i \in Nodes |-> NullId], prevId |-> [i \in Nodes |-> NullId]]

Idle == [pc |-> "idle", id |-> NullId, NICR |-> 0, prevId |-> NullId, nextId |-> NullId]

Init ==
  /\ data = EmptyList
  /\ nicr = [i \in Nodes |-> Infinite]
  /\ search = Idle
  /\ drifted = FALSE

-----------------------------------------------------------------------------
(***************************************************************************)
(* The list operations, as functions of the stored list d and of the NICRs *)
(* N read from the TroveManager.                                           *)
(***************************************************************************)

contains(d, id) == id \in d.exists

isFull(d) == d.size = MaxSize

\* Variant: an inner position is accepted without comparing against the lower neighbour.
HalfCheckedPosition(d, N, NICR, prev, next) ==
  \/ prev = NullId /\ next = NullId /\ d.size = 0
  \/ prev = NullId /\ next # NullId /\ d.head = next /\ NICR >= N[next]
  \/ prev # NullId /\ next = NullId /\ d.tail = prev /\ NICR <= N[prev]
  \/ prev # NullId /\ next # NullId /\ d.nextId[prev] = next /\ N[prev] >= NICR

_validInsertPosition(d, N, NICR, prev, next) ==
  \/ prev = NullId /\ next = NullId /\ d.size = 0
  \/ prev = NullId /\ next # NullId /\ d.head = next /\ NICR >= N[next]
  \/ prev # NullId /\ next = NullId /\ d.tail = prev /\ NICR <= N[prev]
  \/ /\ prev # NullId /\ next # NullId
     /\ d.nextId[prev] = next
     /\ N[prev] >= NICR /\ NICR >= N[next]

At(pc, id, NICR, prev, next) ==
  [pc |-> pc, id |-> id, NICR |-> NICR, prevId |-> prev, nextId |-> next]

\* Before its loop, _descendList tries the position in front of the head.
_descendList(d, N, id, NICR, start) ==
  IF d.head = start /\ NICR >= N[start]
    THEN At("found", id, NICR, NullId, start)
    ELSE At("descend", id, NICR, start, d.nextId[start])

\* Before its loop, _ascendList tries the position behind the tail.
_ascendList(d, N, id, NICR, start) ==
  IF d.tail = start /\ NICR <= N[start]
    THEN At("found", id, NICR, start, NullId)
    ELSE At("ascend", id, NICR, d.prevId[start], start)

\* Variant: hints are trusted once they are members, whatever their NICR.
UncheckedHints(d, N, id, NICR, prev, next) ==
  CASE contains(d, prev) -> _descendList(d, N, id, NICR, prev)
    [] ~contains(d, prev) /\ contains(d, next) -> _ascendList(d, N, id, NICR, next)
    [] OTHER -> _descendList(d, N, id, NICR, d.head)

\* A hint is kept only while it is a member on the right side of NICR.
_findInsertPosition(d, N, id, NICR, prev, next) ==
  LET keepPrev == contains(d, prev) /\ NICR <= N[prev]
      keepNext == contains(d, next) /\ NICR >= N[next]
  IN CASE keepPrev -> _descendList(d, N, id, NICR, prev)
       [] ~keepPrev /\ keepNext -> _ascendList(d, N, id, NICR, next)
       [] ~keepPrev /\ ~keepNext -> _descendList(d, N, id, NICR, d.head)

\* The part of _insert before the pointers are written: take the hint or look for a position.
StartInsert(d, N, id, NICR, prev, next) ==
  IF _validInsertPosition(d, N, NICR, prev, next)
    THEN At("found", id, NICR, prev, next)
    ELSE _findInsertPosition(d, N, id, NICR, prev, next)

\* Variant: inserting at the tail forgets the old tail's forward pointer.
LinkWithoutTailPointer(d, id, prev, next) ==
  [head   |-> IF prev = NullId THEN id ELSE d.head,
   tail   |-> IF next = NullId THEN id ELSE d.tail,
   size   |-> d.size + 1,
   exists |-> d.exists \cup {id},
   nextId |-> [i \in Nodes |-> CASE i = id -> next
                                 [] i # id /\ i = prev /\ next # NullId -> id
                                 [] OTHER -> d.nextId[i]],
   prevId |-> [i \in Nodes |-> CASE i = id -> prev
                                 [] i # id /\ i = next /\ i # NullId -> id
                                 [] OTHER -> d.prevId[i]]]

\* The part of _insert that writes the pointers.  At the ends the code links to
\* data.head and data.tail, not to the position that was found.
Linked(d, id, prev, next) ==
  LET only == prev = NullId /\ next = NullId
      p == IF next = NullId /\ ~only THEN d.tail ELSE prev
      n == IF prev = NullId /\ ~only THEN d.head ELSE next
  IN [head   |-> IF prev = NullId THEN id ELSE d.head,
      tail   |-> IF next = NullId THEN id ELSE d.tail,
      size   |-> d.size + 1,
      exists |-> d.exists \cup {id},
      nextId |-> [i \in Nodes |-> IF only THEN d.nextId[i]
                                  ELSE IF i = id /\ n # NullId THEN n
                                  ELSE IF i = p /\ p # NullId THEN id
                                  ELSE d.nextId[i]],
      prevId |-> [i \in Nodes |-> IF only THEN d.prevId[i]
                                  ELSE IF i = id /\ p # NullId THEN p
                                  ELSE IF i = n /\ n # NullId THEN id
                                  ELSE d.prevId[i]]]

\* _remove: unhook the node, then delete its record.
_remove(d, id) ==
  LET p == d.prevId[id]
      n == d.nextId[id]
      more == d.size > 1
      atHead == more /\ id = d.head
      atTail == more /\ id # d.head /\ id = d.tail
      inner == more /\ id # d.head /\ id # d.tail
  IN [head   |-> IF atHead THEN n ELSE IF more THEN d.head ELSE NullId,
      tail   |-> IF atTail THEN p ELSE IF more THEN d.tail ELSE NullId,
      size   |-> d.size - 1,
      exists |-> d.exists \ {id},
      nextId |-> [i \in Nodes |-> IF i = id THEN NullId
                                  ELSE IF atTail /\ i = p THEN NullId
                                  ELSE IF inner /\ i = p THEN n
                                  ELSE d.nextId[i]],
      prevId |-> [i \in Nodes |-> IF i = id THEN NullId
                                  ELSE IF atHead /\ i = n THEN NullId
                                  ELSE IF inner /\ i = n THEN p
                                  ELSE d.prevId[i]]]

-----------------------------------------------------------------------------
(***************************************************************************)
(* Operations, each a whole transaction up to its search.  The NICR of the *)
(* node being inserted is the argument: no comparison reads the stored one, *)
(* so it does not matter that BorrowerOperations stores the trove before    *)
(* the call and a partial redemption after it.                              *)
(***************************************************************************)

insert(id, NICR, prev, next) ==
  /\ search.pc = "idle"
  /\ ~isFull(data)
  /\ ~contains(data, id)
  /\ NICR > 0
  /\ nicr' = [nicr EXCEPT ![id] = NICR]
  /\ search' = StartInsert(data, nicr', id, NICR, prev, next)
  /\ UNCHANGED <<data, drifted>>

\* Variant: no check that the node is in the list.
RemoveUnchecked(id) ==
  /\ search.pc = "idle"
  /\ data' = _remove(data, id)
  /\ UNCHANGED <<nicr, search, drifted>>

\* Variant: the last node is removed, whichever was asked for.
RemoveLast(id) ==
  /\ search.pc = "idle"
  /\ contains(data, id)
  /\ data' = _remove(data, data.tail)
  /\ \E v \in {nicr[id], Infinite} : nicr' = [nicr EXCEPT ![id] = v]
  /\ UNCHANGED <<search, drifted>>

\* A removed account is closed (no debt: infinite NICR) or moves to the other list.
remove(id) ==
  /\ search.pc = "idle"
  /\ contains(data, id)
  /\ data' = _remove(data, id)
  /\ \E v \in {nicr[id], Infinite} : nicr' = [nicr EXCEPT ![id] = v]
  /\ UNCHANGED <<search, drifted>>

\* After _remove the size has dropped, so a full list does not refuse the _insert.
reInsert(id, newNICR, prev, next) ==
  /\ search.pc = "idle"
  /\ contains(data, id)
  /\ newNICR > 0
  /\ LET d == _remove(data, id)
         N == [nicr EXCEPT ![id] = newNICR]
     IN /\ data' = d
        /\ nicr' = N
        /\ search' = StartInsert(d, N, id, newNICR, prev, next)
  /\ UNCHANGED drifted

\* Variant: the loop of _descendList moves only the lower end of the position.
DescendLowerEnd ==
  /\ search.pc = "descend"
  /\ search' =
       IF search.prevId # NullId
          /\ ~_validInsertPosition(data, nicr, search.NICR, search.prevId, search.nextId)
         THEN [search EXCEPT !.nextId = data.nextId[search.nextId]]
         ELSE [search EXCEPT !.pc = "found"]
  /\ UNCHANGED <<data, nicr, drifted>>

\* One test of the while condition of _descendList, and the body if it holds.
DescendStep ==
  /\ search.pc = "descend"
  /\ search' =
       IF search.prevId # NullId
          /\ ~_validInsertPosition(data, nicr, search.NICR, search.prevId, search.nextId)
         THEN [search EXCEPT !.prevId = data.nextId[search.prevId],
                             !.nextId = data.nextId[data.nextId[search.prevId]]]
         ELSE [search EXCEPT !.pc = "found"]
  /\ UNCHANGED <<data, nicr, drifted>>

\* One test of the while condition of _ascendList, and the body if it holds.
AscendStep ==
  /\ search.pc = "ascend"
  /\ search' =
       IF search.nextId # NullId
          /\ ~_validInsertPosition(data, nicr, search.NICR, search.prevId, search.nextId)
         THEN [search EXCEPT !.nextId = data.prevId[search.nextId],
                             !.prevId = data.prevId[data.prevId[search.nextId]]]
         ELSE [search EXCEPT !.pc = "found"]
  /\ UNCHANGED <<data, nicr, drifted>>

\* _insert writes the pointers at the position that was found.
Link ==
  /\ search.pc = "found"
  /\ data' = Linked(data, search.id, search.prevId, search.nextId)
  /\ search' = Idle
  /\ UNCHANGED <<nicr, drifted>>

\* A redistribution adds to every trove in proportion to its stake: NICRs move, in
\* either direction, but two members never swap.  (Interest moves no NICR: it is
\* charged on the accumulated rate, and NICRs are over normalized debt.)
Redistribute ==
  /\ search.pc = "idle"
  /\ nicr' \in [Nodes -> NICRs]
  /\ \A i \in Nodes \ data.exists : nicr'[i] = nicr[i]
  /\ \A i, j \in data.exists : nicr[i] >= nicr[j] => nicr'[i] >= nicr'[j]
  /\ UNCHANGED <<data, search, drifted>>

\* A trove of the other list (base or shielded) is opened, adjusted or closed there.
OtherListMoves(id, NICR) ==
  /\ search.pc = "idle"
  /\ ~contains(data, id)
  /\ nicr' = [nicr EXCEPT ![id] = NICR]
  /\ UNCHANGED <<data, search, drifted>>

\* redeemCollateralForShutdown changes a trove and leaves it where it is in the list.
RedeemInPlace(id, NICR) ==
  /\ search.pc = "idle"
  /\ contains(data, id)
  /\ nicr' = [nicr EXCEPT ![id] = NICR]
  /\ drifted' = TRUE
  /\ UNCHANGED <<data, search>>

SearchStep == DescendStep \/ AscendStep \/ Link

Next ==
  \/ \E id \in Ids, NICR \in 1..MaxNICR, prev, next \in Nodes :
       insert(id, NICR, prev, next) \/ reInsert(id, NICR, prev, next)
  \/ \E id \in Ids : remove(id)
  \/ SearchStep
  \/ Redistribute
  \/ \E id \in Ids, NICR \in NICRs : OtherListMoves(id, NICR)
  \/ \E id \in Ids, NICR \in 0..MaxNICR : RedeemInPlace(id, NICR)

Spec == Init /\ [][Next]_vars

\* A started insertion runs to its end: it is one transaction.
FairSpec == Spec /\ WF_vars(SearchStep)

-----------------------------------------------------------------------------
TypeOK ==
  /\ data \in Data
  /\ nicr \in [Nodes -> NICRs]
  /\ search \in [pc : {"idle", "descend", "ascend", "found"}, id : Nodes,
                 NICR : NICRs, prevId : Nodes, nextId : Nodes]
  /\ drifted \in BOOLEAN

\* s lists the members of d from head to tail, and the stored pointers are those of s.
Represents(d, s) ==
  /\ s \in [1..d.size -> Ids]
  /\ \A i, j \in 1..d.size : s[i] = s[j] => i = j
  /\ d.exists = {s[i] : i \in 1..d.size}
  /\ d.head = IF d.size = 0 THEN NullId ELSE s[1]
  /\ d.tail = IF d.size = 0 THEN NullId ELSE s[d.size]
  /\ \A i \in 1..d.size :
       /\ d.nextId[s[i]] = IF i = d.size THEN NullId ELSE s[i + 1]
       /\ d.prevId[s[i]] = IF i = 1 THEN NullId ELSE s[i - 1]
  /\ \A i \in Nodes \ d.exists : d.nextId[i] = NullId /\ d.prevId[i] = NullId

(***************************************************************************)
(* The pointers always form one chain, without a cycle, a lost node or a   *)
(* dangling pointer, whatever the hints and however the NICRs have moved:  *)
(* walking nextId from head visits each member once and ends at tail, and  *)
(* prevId is the way back.  This is what every loop over the list in       *)
(* TroveManager, Liquidations and HintHelpers relies on.                   *)
(***************************************************************************)
ListIntegrity == \E s \in [1..data.size -> Ids] : Represents(data, s)

(***************************************************************************)
(* The position _insert ends its search with is valid, so the loops never  *)
(* fall off the list: with (0, 0) on a non-empty list "insert as head and  *)
(* tail" would drop every other node.                                      *)
(***************************************************************************)
FoundIsValid ==
  search.pc = "found" =>
    _validInsertPosition(data, nicr, search.NICR, search.prevId, search.nextId)

(***************************************************************************)
(* The list is sorted by current NICR as long as NICRs only moved by       *)
(* operations that keep their order.                                       *)
(***************************************************************************)
Sorted ==
  ~drifted =>
    \A i \in data.exists :
      data.nextId[i] # NullId => nicr[i] >= nicr[data.nextId[i]]

(***************************************************************************)
(* The list never holds more than maxSize nodes, reInsert into a full list *)
(* included.                                                               *)
(***************************************************************************)
SizeBounded == data.size + (IF search.pc = "idle" THEN 0 ELSE 1) <= MaxSize

(***************************************************************************)
(* Every insertion ends: the search loop terminates with the node linked.  *)
(***************************************************************************)
InsertEnds == \A id \in Ids : search.id = id ~> contains(data, id) /\ search.pc = "idle"

=============================================================================
