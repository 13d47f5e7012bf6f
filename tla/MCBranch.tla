------------------------------ MODULE MCBranch ------------------------------
(***************************************************************************)
(* Instances of Branch for TLC.                                            *)
(***************************************************************************)
EXTENDS Branch, TLC

MCAdjustments ==
  {[coll |-> 0, debt |-> 0, toggle |-> TRUE], [coll |-> -200, debt |-> 0, toggle |-> FALSE],
   [coll |-> 0, debt |-> -25, toggle |-> FALSE], [coll |-> 300, debt |-> 15, toggle |-> TRUE]}

\* Time passes and no interest accrues.
Flat == {[s \in BOOLEAN |-> RATE_PRECISION]}

\* A quarter on base debt, and kappa = 1.5 times as much on shielded debt.
Quarter == {[s \in BOOLEAN |-> IF s THEN 11 ELSE 10]}

BorrowerSymmetry == Permutations(Borrowers)
=============================================================================
