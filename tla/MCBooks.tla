------------------------------- MODULE MCBooks -------------------------------
(***************************************************************************)
(* Three sets of books of the contracts for TLC: the registry of troves,   *)
(* the StabilityPool's deposits, and fees with their stakers.  They share  *)
(* no variable, so a behaviour is one of a single component while the      *)
(* others stay as they are.                                                *)
(***************************************************************************)
EXTENDS TroveRegistry, StabilityPool, FeeStaking, TLC

CONSTANTS u1, u2, u3

VARIABLE part  \* the books at work

booksVars == <<part, registryVars, poolVars, feeVars>>

\* No interest, a little and much of it; four fifths go beyond the StabilityPool.
MCInterest ==
  {[total |-> 0, remaining |-> 0], [total |-> 5, remaining |-> 4], [total |-> 25, remaining |-> 20]}

\* The users of the StabilityPool are interchangeable.
UserSymmetry == Permutations({u1, u2, u3})

BooksInit == part \in {"registry", "pool", "fees"} /\ RegistryInit /\ PoolInit /\ FeeInit

BooksNext ==
  /\ UNCHANGED part
  /\ \/ part = "registry" /\ RegistryNext /\ UNCHANGED <<poolVars, feeVars>>
     \/ part = "pool" /\ PoolNext /\ UNCHANGED <<registryVars, feeVars>>
     \/ part = "fees" /\ FeeNext /\ UNCHANGED <<registryVars, poolVars>>

BooksSpec == BooksInit /\ [][BooksNext]_booksVars

\* The types of the three, and what each relates: no amount below zero, P never below SCALE_FACTOR.
BooksTypeOK == RegistryTypeOK /\ PoolTypeOK /\ FeeTypeOK
=============================================================================
