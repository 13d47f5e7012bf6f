------------------------------ MODULE TroveOrder ------------------------------
(***************************************************************************)
(* What SortedTroves promises its callers, without pointers, hints or      *)
(* searches: a sequence of trove owners in which an owner is placed between *)
(* neighbours whose keys enclose its own, and in which nobody else ever    *)
(* moves.  Keys belong to the callers and change under the sequence.       *)
(***************************************************************************)
EXTENDS Integers, Sequences

CONSTANTS
  Ids,      \* trove owners
  NoId,
  Keys,     \* nominal collateral ratios
  Start,    \* the key of an account without debt
  Limit     \* the number of owners the list takes

VARIABLES
  list,     \* the owners from the largest key to the smallest
  key,
  placing   \* the owner that is being inserted, or NoId

orderVars == <<list, key, placing>>

Members == {list[i] : i \in DOMAIN list}

OrderInit ==
  /\ list = << >>
  /\ key = [id \in Ids |-> Start]
  /\ placing = NoId

\* The list when an owner has left it; the others keep their order.
Without(id) ==
  LET place == CHOOSE i \in DOMAIN list : list[i] = id
  IN IF id \in Members
     THEN [i \in 1..Len(list) - 1 |-> IF i < place THEN list[i] ELSE list[i + 1]]
     ELSE list

\* An insertion or re-insertion begins: a member leaves its place, a newcomer needs room.
Take(id, k) ==
  /\ placing = NoId
  /\ id \in Members \/ Len(list) < Limit
  /\ list' = Without(id)
  /\ key' = [key EXCEPT ![id] = k]
  /\ placing' = id

\* It ends between a key that is not smaller and one that is not larger.
Put(i) ==
  /\ placing # NoId
  /\ i > 0 => key[list[i]] >= key[placing]
  /\ i < Len(list) => key[placing] >= key[list[i + 1]]
  /\ list' = SubSeq(list, 1, i) \o <<placing>> \o SubSeq(list, i + 1, Len(list))
  /\ placing' = NoId
  /\ UNCHANGED key

Drop(id) ==
  /\ placing = NoId
  /\ id \in Members
  /\ list' = Without(id)
  /\ \E k \in {key[id], Start} : key' = [key EXCEPT ![id] = k]
  /\ UNCHANGED placing

\* The members' keys move together, or one account's on its own; the list stays.
KeysMove ==
  /\ placing = NoId
  /\ key' \in [Ids -> Keys]
  /\ \/ \A i, j \in Members : key[i] >= key[j] => key'[i] >= key'[j]
     \/ \E id \in Ids : \A i \in Ids \ {id} : key'[i] = key[i]
  /\ UNCHANGED <<list, placing>>

OrderNext ==
  \/ \E id \in Ids : Drop(id) \/ \E k \in Keys : Take(id, k)
  \/ \E i \in 0..Len(list) : Put(i)
  \/ KeysMove

OrderSpec == OrderInit /\ [][OrderNext]_orderVars

=============================================================================
