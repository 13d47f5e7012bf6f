-------------------------- MODULE TransactionMonitor --------------------------
(***************************************************************************)
(* Transaction.tsx of the front end: one transaction state for the whole   *)
(* page, written by every button that sends a transaction and by the       *)
(* monitor that waits for its receipt.                                     *)
(*                                                                         *)
(* setTransactionState only asks for a render; the effects and their       *)
(* cleanups run later, in Commit, and compare what is rendered then with   *)
(* what was rendered last.  Whatever was set in between is never seen.     *)
(***************************************************************************)
EXTENDS Integers, FiniteSets

CONSTANTS
  Txs,         \* the transactions the user asks for, each once
  IdOf,        \* the id of the button: "trove-closure", "stake", ...
  Guarded,     \* those sent by a <Transaction> button, which waits for the one before
  NoTx,
  MaxReconnects  \* bound on the changes of the wallet's provider

ASSUME MonitorAssumption ==
  /\ IsFiniteSet(Txs) /\ NoTx \notin Txs /\ Guarded \subseteq Txs
  /\ DOMAIN IdOf = Txs /\ MaxReconnects \in Nat

VARIABLES
  transactionState,  \* the state last set
  rendered,          \* the state whose effects have run
  newProvider,       \* the provider changed since the last commit
  asked,             \* the transactions whose button was pressed
  sending,           \* send() is awaited: the wallet has not answered
  monitor,           \* the effect that waits for a receipt, and its finished flag
  reasons,           \* tryToGetRevertReason is awaited
  timer,             \* the notice is to be taken down
  reported,          \* history: the outcome was rendered
  disturbed,         \* history: two transactions overlapped, or the provider changed
  reconnects

monitorVars == <<transactionState, rendered, newProvider, asked, sending, monitor, reasons, timer,
                 reported, disturbed, reconnects>>

\* The notices keep only the id; tx tells the model whose outcome it is.
State(type, t) == [type |-> type, tx |-> t]
Idle == State("idle", NoTx)
NoMonitor == [tx |-> NoTx, finished |-> FALSE]

Waiting == {"waitingForApproval", "waitingForConfirmation"}
Notices == {"confirmed", "failed", "cancelled"}

MonitorInit ==
  /\ transactionState = Idle /\ rendered = Idle /\ newProvider = FALSE
  /\ asked = {} /\ sending = {} /\ reasons = {} /\ reported = {}
  /\ monitor = NoMonitor
  /\ timer = FALSE
  /\ disturbed = FALSE /\ reconnects = 0

\* A press of a button is rendered, its effects included, before anything else happens:
\* React flushes the updates of a click at once, and all others in their own time.
Pressed == transactionState.type = "waitingForApproval" /\ transactionState # rendered

\* A transaction is under way somewhere, or its outcome is not on the page yet.
Busy ==
  \/ transactionState # rendered
  \/ sending # {} \/ reasons # {}
  \/ monitor.tx # NoTx /\ ~monitor.finished
  \/ transactionState.type \in Waiting

-----------------------------------------------------------------------------
\* sendTransaction, up to its await.  <Transaction> disables its button while the state it
\* was rendered with is a waiting one; the other buttons are always enabled.
sendTransaction(t) ==
  /\ ~Pressed
  /\ t \notin asked
  /\ t \in Guarded => rendered.type \notin Waiting
  /\ asked' = asked \cup {t}
  /\ sending' = sending \cup {t}
  /\ transactionState' = State("waitingForApproval", t)
  /\ disturbed' = (disturbed \/ Busy)
  /\ UNCHANGED <<rendered, newProvider, monitor, reasons, timer, reported, reconnects>>

\* Variant: an error of send() is not caught.
SendUncaught(t) ==
  /\ ~Pressed
  /\ t \in sending
  /\ sending' = sending \ {t}
  /\ transactionState' \in {State("waitingForConfirmation", t), transactionState}
  /\ UNCHANGED <<rendered, newProvider, asked, monitor, reasons, timer, reported, disturbed,
                 reconnects>>

\* The wallet has sent it, or the user denied it, or sending failed.
SendEnds(t) ==
  /\ ~Pressed
  /\ t \in sending
  /\ sending' = sending \ {t}
  /\ \E type \in {"waitingForConfirmation", "cancelled", "failed"} :
       transactionState' = State(type, t)
  /\ UNCHANGED <<rendered, newProvider, asked, monitor, reasons, timer, reported, disturbed,
                 reconnects>>

\* waitForReceipt resolves for the monitor that is not cancelled, with a success ...
ReceiptSucceeded ==
  /\ ~Pressed
  /\ monitor.tx # NoTx /\ ~monitor.finished
  /\ monitor' = [monitor EXCEPT !.finished = TRUE]
  /\ transactionState' = State("confirmedOneShot", monitor.tx)
  /\ UNCHANGED <<rendered, newProvider, asked, sending, reasons, timer, reported, disturbed, reconnects>>

\* ... with a failure, whose reason is fetched next ...
ReceiptFailed ==
  /\ ~Pressed
  /\ monitor.tx # NoTx /\ ~monitor.finished
  /\ monitor' = [monitor EXCEPT !.finished = TRUE]
  /\ reasons' = reasons \cup {monitor.tx}
  /\ UNCHANGED <<transactionState, rendered, newProvider, asked, sending, timer, reported, disturbed,
                 reconnects>>

\* ... or rejects: the transaction was replaced in the wallet, or the node failed.
ReceiptRejected ==
  /\ ~Pressed
  /\ monitor.tx # NoTx /\ ~monitor.finished
  /\ monitor' = [monitor EXCEPT !.finished = TRUE]
  /\ \E type \in {"cancelled", "failed"} : transactionState' = State(type, monitor.tx)
  /\ UNCHANGED <<rendered, newProvider, asked, sending, reasons, timer, reported, disturbed, reconnects>>

\* The monitor was finished before the await, so no cleanup has cancelled this.
RevertReason(t) ==
  /\ ~Pressed
  /\ t \in reasons
  /\ reasons' = reasons \ {t}
  /\ transactionState' = State("failed", t)
  /\ UNCHANGED <<rendered, newProvider, asked, sending, monitor, timer, reported, disturbed, reconnects>>

\* Five seconds later.
TakeDown ==
  /\ ~Pressed
  /\ timer
  /\ timer' = FALSE
  /\ transactionState' = Idle
  /\ UNCHANGED <<rendered, newProvider, asked, sending, monitor, reasons, reported, disturbed,
                 reconnects>>

\* The wallet or the network changes, and useLiquity has another provider.
ProviderChanges ==
  /\ ~Pressed
  /\ reconnects < MaxReconnects
  /\ reconnects' = reconnects + 1
  /\ newProvider' = TRUE
  /\ disturbed' = TRUE
  /\ UNCHANGED <<transactionState, rendered, asked, sending, monitor, reasons, timer, reported>>

-----------------------------------------------------------------------------
(***************************************************************************)
(* A render and its effects                                                *)
(***************************************************************************)

Id(s) == IF s.type = "idle" THEN NoTx ELSE IdOf[s.tx]
Tx(s) == IF s.type = "waitingForConfirmation" THEN s.tx ELSE NoTx

\* Variant: the effect depends on the id and not on the transaction.
DependsOnId(s) == Id(s)

\* Dependencies of the monitor's effect besides the provider.
MonitorDeps(s) == <<Id(s), Tx(s)>>

\* Dependencies of the effect that takes the notice down.
NoticeDeps(s) == <<s.type, Id(s)>>

\* The notices that go after five seconds.
Timed(s) == s.type \in Notices

\* The cleanup of a monitor that is not finished cancels it and sets the state to idle.
CleanupResets(m) == m.tx # NoTx /\ ~m.finished

Commit ==
  /\ transactionState # rendered \/ newProvider
  /\ LET now == transactionState
         rerun == newProvider \/ MonitorDeps(now) # MonitorDeps(rendered)
         renotice == NoticeDeps(now) # NoticeDeps(rendered)
     IN /\ rendered' = now
        /\ monitor' = IF ~rerun THEN monitor
                      ELSE IF now.type = "waitingForConfirmation" THEN [tx |-> now.tx, finished |-> FALSE]
                      ELSE NoMonitor
        /\ timer' = IF renotice THEN Timed(now) ELSE timer
        \* The cleanups come before the effects, and the state set last stands.
        /\ transactionState' = IF renotice /\ now.type = "confirmedOneShot" THEN State("confirmed", now.tx)
                               ELSE IF rerun /\ CleanupResets(monitor) THEN Idle
                               ELSE now
        /\ reported' = IF now.type \in Notices \cup {"confirmedOneShot"} THEN reported \cup {now.tx}
                       ELSE reported
  /\ newProvider' = FALSE
  /\ UNCHANGED <<asked, sending, reasons, disturbed, reconnects>>

MonitorNext ==
  \/ \E t \in Txs : sendTransaction(t) \/ SendEnds(t) \/ RevertReason(t)
  \/ ReceiptSucceeded \/ ReceiptFailed \/ ReceiptRejected
  \/ TakeDown \/ ProviderChanges \/ Commit

MonitorSpec == MonitorInit /\ [][MonitorNext]_monitorVars

\* The wallet answers, receipts and reasons come or fail, timers fire and renders happen.
MonitorFairness ==
  /\ \A t \in Txs : WF_monitorVars(SendEnds(t)) /\ WF_monitorVars(RevertReason(t))
  /\ WF_monitorVars(ReceiptSucceeded \/ ReceiptFailed \/ ReceiptRejected)
  /\ WF_monitorVars(TakeDown)
  /\ WF_monitorVars(Commit)

MonitorFairSpec == MonitorSpec /\ MonitorFairness

-----------------------------------------------------------------------------
MonitorTypeOK ==
  /\ \A s \in {transactionState, rendered} :
       /\ s.type \in Waiting \cup Notices \cup {"idle", "confirmedOneShot"}
       /\ s.tx \in Txs \cup {NoTx}
  /\ monitor.tx \in Txs \cup {NoTx} /\ monitor.finished \in BOOLEAN
  /\ sending \subseteq asked /\ reasons \subseteq asked
  /\ timer \in BOOLEAN /\ (timer => rendered.type \in Notices)

(***************************************************************************)
(* A page that says it waits for a confirmation has a monitor waiting for  *)
(* that very transaction, or its revert reason on the way: no interleaving *)
(* of buttons, receipts, wallet changes and renders leaves it waiting for  *)
(* nothing.                                                                *)
(***************************************************************************)
WaitingIsWatched ==
  (transactionState = rendered /\ ~newProvider /\ rendered.type = "waitingForConfirmation")
    => /\ monitor.tx = rendered.tx
       /\ monitor.finished => rendered.tx \in reasons

(***************************************************************************)
(* The outcome of a transaction is shown, as long as no other was sent     *)
(* before it ended and the wallet stayed connected, and then its notice    *)
(* goes.  However transactions overlap, the page does not wait for ever:   *)
(* buttons that wait for the transaction before are enabled again.  (With  *)
(* two of them the cleanup of the first monitor resets the state, and the  *)
(* second may never be reported; and a notice set in the tick in which the *)
(* timer of an equal one fires has the same dependencies, and gets no      *)
(* timer of its own.)                                                      *)
(***************************************************************************)
TransactionsEnd ==
  /\ \A t \in Txs : t \in asked ~> (t \in reported \/ disturbed)
  /\ <>[](rendered.type \notin Waiting /\ (disturbed \/ rendered = Idle))

=============================================================================
