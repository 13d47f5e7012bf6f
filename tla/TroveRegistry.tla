---------------------------- MODULE TroveRegistry ----------------------------
(***************************************************************************)
(* Who owns a trove, and where the owner is filed.  TroveManager.sol and   *)
(* TroveManagerLib.sol file every owner four times: the status in the      *)
(* Trove struct, the shielded flag, one of two arrays of owners (with the  *)
(* position kept in the struct's arrayIndex), and one of two SortedTroves  *)
(* lists.  Owners leave an array by swap-and-pop, which rewrites the index *)
(* of another owner.                                                       *)
(*                                                                         *)
(* FALSE indexes the base array and list, TRUE the shielded ones.  The     *)
(* order inside a list is the subject of SortedTroves; here a list is its  *)
(* set of members.                                                         *)
(***************************************************************************)
EXTENDS Integers, Sequences, FiniteSets

CONSTANT Borrowers

VARIABLES
  status,      \* Troves[b].status
  shielded,    \* ts.shielded[b]
  arrayIndex,  \* Troves[b].arrayIndex, counted from 0; stale once closed
  owners,      \* owners[FALSE] = TroveOwners, owners[TRUE] = ShieldedTroveOwners
  listed,      \* members of sortedTroves and of sortedShieldedTroves
  isShutdown   \* BorrowerOperations.isShutdown and TroveManager._isShutdown()

registryVars == <<status, shielded, arrayIndex, owners, listed, isShutdown>>

Closed == {"closedByOwner", "closedByLiquidation", "closedByRedemption"}

Active == {b \in Borrowers : status[b] = "active"}

RegistryInit ==
  /\ status = [b \in Borrowers |-> "nonExistent"]
  /\ shielded = [b \in Borrowers |-> FALSE]
  /\ arrayIndex = [b \in Borrowers |-> 0]
  /\ owners = [s \in BOOLEAN |-> << >>]
  /\ listed = [s \in BOOLEAN |-> {}]
  /\ isShutdown = FALSE

-----------------------------------------------------------------------------
(***************************************************************************)
(* An array with the indices that are stored for it.                       *)
(***************************************************************************)

_addTroveOwnerToArray(f, b) ==
  [array |-> Append(f.array, b), index |-> [f.index EXCEPT ![b] = Len(f.array)]]

\* Variant: the owner moved into the gap keeps its old index.
RemoveKeepingIndex(f, b) ==
  LET last == Len(f.array)
      moved == f.array[last]
  IN [array |-> SubSeq([f.array EXCEPT ![f.index[b] + 1] = moved], 1, last - 1),
      index |-> f.index]

\* [A B C D E] without B is [A E C D], and E's index is B's.
_removeTroveOwnerFromArray(f, b) ==
  LET last == Len(f.array)
      moved == f.array[last]
  IN [array |-> SubSeq([f.array EXCEPT ![f.index[b] + 1] = moved], 1, last - 1),
      index |-> [f.index EXCEPT ![moved] = f.index[b]]]

\* length.sub(1) and assert(index <= idxLast).
CanRemoveOwner(b, s) == arrayIndex[b] <= Len(owners[s]) - 1

File(s) == [array |-> owners[s], index |-> arrayIndex]

-----------------------------------------------------------------------------
(***************************************************************************)
(* Operations of the TroveManager.                                         *)
(***************************************************************************)

\* createTrove, and the setTroveStatus that openTrove makes right after it.
createTrove(b, shield) ==
  /\ status[b] # "active"
  /\ b \notin listed[shield]
  /\ LET f == _addTroveOwnerToArray(File(shield), b)
     IN /\ owners' = [owners EXCEPT ![shield] = f.array]
        /\ arrayIndex' = f.index
  /\ status' = [status EXCEPT ![b] = "active"]
  /\ shielded' = [shielded EXCEPT ![b] = shield]
  /\ listed' = [listed EXCEPT ![shield] = @ \cup {b}]
  /\ UNCHANGED isShutdown

\* Variant: the trove stays in the list it leaves.
ToggleStayingListed(b, shield) ==
  /\ status[b] = "active"
  /\ shielded[b] # shield
  /\ CanRemoveOwner(b, ~shield)
  /\ b \notin listed[shield]
  /\ LET f == _removeTroveOwnerFromArray(File(~shield), b)
         g == _addTroveOwnerToArray([array |-> owners[shield], index |-> f.index], b)
     IN /\ owners' = [owners EXCEPT ![~shield] = f.array, ![shield] = g.array]
        /\ arrayIndex' = g.index
  /\ shielded' = [shielded EXCEPT ![b] = shield]
  /\ listed' = [listed EXCEPT ![shield] = @ \cup {b}]
  /\ UNCHANGED <<status, isShutdown>>

\* shieldTrove (shield = TRUE) and unShieldTrove (FALSE): out of one array and
\* list, then into the other.
toggleShield(b, shield) ==
  /\ status[b] = "active"
  /\ shielded[b] # shield
  /\ CanRemoveOwner(b, ~shield)
  /\ b \notin listed[shield]
  /\ b \in listed[~shield]
  /\ LET f == _removeTroveOwnerFromArray(File(~shield), b)
         g == _addTroveOwnerToArray([array |-> owners[shield], index |-> f.index], b)
     IN /\ owners' = [owners EXCEPT ![~shield] = f.array, ![shield] = g.array]
        /\ arrayIndex' = g.index
  /\ shielded' = [shielded EXCEPT ![b] = shield]
  /\ listed' = [listed EXCEPT ![shield] = @ \cup {b}, ![~shield] = @ \ {b}]
  /\ UNCHANGED <<status, isShutdown>>

\* Variant: the last trove may be closed too.
NoMinimum(b) == TRUE

\* The last trove of the branch, over both lists, can be closed only after a shutdown.
MoreThanOneTrove(b) ==
  isShutdown \/ Cardinality(listed[FALSE]) + Cardinality(listed[TRUE]) > 1

\* _closeTrove, as far as it is about the registry.
_closeTrove(b, closedStatus) ==
  /\ MoreThanOneTrove(b)
  /\ CanRemoveOwner(b, shielded[b])
  /\ b \in listed[shielded[b]]
  /\ LET f == _removeTroveOwnerFromArray(File(shielded[b]), b)
     IN /\ owners' = [owners EXCEPT ![shielded[b]] = f.array]
        /\ arrayIndex' = f.index
  /\ status' = [status EXCEPT ![b] = closedStatus]
  /\ shielded' = [shielded EXCEPT ![b] = FALSE]
  /\ listed' = [listed EXCEPT ![shielded[b]] = @ \ {b}]
  /\ UNCHANGED isShutdown

-----------------------------------------------------------------------------
(***************************************************************************)
(* The registry on its own, under every caller: BorrowerOperations opens,  *)
(* toggles and closes, Liquidations and redemptions close; all of them     *)
(* look only at active troves.                                             *)
(***************************************************************************)

openTrove(b, shield) == ~isShutdown /\ createTrove(b, shield)

adjustShield(b, shield) == ~isShutdown /\ toggleShield(b, shield)

close(b, closedStatus) == status[b] = "active" /\ _closeTrove(b, closedStatus)

shutdown ==
  /\ ~isShutdown
  /\ isShutdown' = TRUE
  /\ UNCHANGED <<status, shielded, arrayIndex, owners, listed>>

RegistryNext ==
  \/ \E b \in Borrowers, s \in BOOLEAN : openTrove(b, s) \/ adjustShield(b, s)
  \/ \E b \in Borrowers, c \in Closed : close(b, c)
  \/ shutdown

RegistrySpec == RegistryInit /\ [][RegistryNext]_registryVars

-----------------------------------------------------------------------------
RegistryTypeOK ==
  /\ status \in [Borrowers -> {"nonExistent", "active"} \cup Closed]
  /\ shielded \in [Borrowers -> BOOLEAN]
  /\ arrayIndex \in [Borrowers -> Nat]
  /\ owners \in [BOOLEAN -> Seq(Borrowers)]
  /\ listed \in [BOOLEAN -> SUBSET Borrowers]
  /\ isShutdown \in BOOLEAN

(***************************************************************************)
(* The four filings agree: the arrays hold the active owners, each once,   *)
(* in the array its shielded flag names, at the position its arrayIndex    *)
(* names.  Swap-and-pop relies on it: with a wrong index it deletes some   *)
(* other owner from the array.                                             *)
(***************************************************************************)
OwnersIndexed ==
  /\ \A s \in BOOLEAN : \A i \in DOMAIN owners[s] :
       LET b == owners[s][i]
       IN status[b] = "active" /\ shielded[b] = s /\ arrayIndex[b] = i - 1
  /\ \A b \in Active :
       /\ arrayIndex[b] + 1 \in DOMAIN owners[shielded[b]]
       /\ owners[shielded[b]][arrayIndex[b] + 1] = b

(***************************************************************************)
(* A trove is in the sorted list of its kind exactly while it is active:   *)
(* what is in a list can be redeemed or liquidated, what is not never is.  *)
(***************************************************************************)
ListedIffActive ==
  \A s \in BOOLEAN : listed[s] = {b \in Active : shielded[b] = s}

(***************************************************************************)
(* Until a shutdown a branch that has a trove keeps at least one, over     *)
(* base and shielded together (an empty branch has no stakes to divide a   *)
(* redistribution by).                                                     *)
(***************************************************************************)
NeverEmptied == [][Active # {} /\ ~isShutdown => Active' # {}]_registryVars

=============================================================================
