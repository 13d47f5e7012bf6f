------------------------------- MODULE MCClient -------------------------------
(***************************************************************************)
(* The client's components for TLC.  They share no variable, so a          *)
(* behaviour is one of a single component while the others stay as they    *)
(* are: the states of the parts add up instead of multiplying.  The store  *)
(* is there twice: with overlapping and failing fetches and no view, and   *)
(* with views, one fetch at a time and none that fails.                    *)
(***************************************************************************)
EXTENDS BatchedProvider, LiquityStore, TransactionMonitor, TroveView

CONSTANTS c1, c2, c3, c4, old, t1, t2, t3, stake, trove, price, total, v1, v2

VARIABLE part  \* the component at work

Parts == {"provider", "store", "page", "transactions", "view"}

clientVars == <<part, batchVars, storeVars, monitorVars, tvVars>>

\* Two reads of the latest block, written differently, one of an older block and a call
\* with a gas limit.
MCTags == [c \in {c1, c2, c3, c4} |->
             CASE c = c1 -> NoTag [] c = c2 -> Latest [] c = c3 -> old [] c = c4 -> NoTag]

\* Two transactions of the same button and one of another.
MCIdOf == [t \in {t1, t2, t3} |-> IF t = t3 THEN trove ELSE stake]

\* One field changes with the block and the other does not.
MCContent == [f \in {price, total} |-> [b \in 1..MaxBlock |-> IF f = price THEN b ELSE 0]]

MCSelects == [v \in {v1, v2} |-> IF v = v1 THEN price ELSE total]

FirstSlot == CHOOSE s \in Slots : TRUE

OneFetchNoneFailed == failures = 0 /\ \A s \in Slots \ {FirstSlot} : ~fetches[s].pending

ClientInit == part \in Parts /\ BatchInit /\ StoreInit /\ MonitorInit /\ TVInit
                /\ (part # "view" => chain.status = "nonExistent")

ClientNext ==
  /\ UNCHANGED part
  /\ \/ part = "provider" /\ BatchNext /\ UNCHANGED <<storeVars, monitorVars, tvVars>>
     \/ part = "store" /\ StoreNext /\ UNCHANGED <<batchVars, monitorVars, tvVars, viewVars>>
     \/ part = "page" /\ StoreNext /\ OneFetchNoneFailed' /\ UNCHANGED <<batchVars, monitorVars, tvVars>>
     \/ part = "transactions" /\ MonitorNext /\ UNCHANGED <<batchVars, storeVars, tvVars>>
     \/ part = "view" /\ TVNext /\ UNCHANGED <<batchVars, storeVars, monitorVars>>

ClientSpec ==
  /\ ClientInit /\ [][ClientNext]_clientVars
  /\ BatchFairness /\ StoreFairness /\ MonitorFairness

\* The types of the components; a batch has a timer exactly as long as it has calls.
ClientTypeOK == BatchTypeOK /\ StoreTypeOK /\ MonitorTypeOK /\ TVTypeOK
=============================================================================
