--------------------------- MODULE MCSortedTroves ---------------------------
(* Instances of SortedTroves for TLC, and what it implements. *)
EXTENDS SortedTroves

\* The members of a list from head to tail.
ChainOf(d) ==
  LET node[i \in 1..d.size] == IF i = 1 THEN d.head ELSE d.nextId[node[i - 1]]
  IN [i \in 1..d.size |-> node[i]]

Chain == ChainOf(data)

Order == INSTANCE TroveOrder WITH
  list <- Chain, key <- [i \in Ids |-> nicr[i]], placing <- search.id,
  NoId <- NullId, Keys <- NICRs, Start <- Infinite, Limit <- MaxSize

(***************************************************************************)
(* SortedTroves implements TroveOrder: whatever hints it is given and      *)
(* whatever it does to its pointers, callers see an owner placed between   *)
(* keys that enclose its own, and every other owner stays in its place.    *)
(***************************************************************************)
ImplementsTroveOrder == Order!OrderSpec
=============================================================================
