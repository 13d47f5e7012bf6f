------------------------------- MODULE TroveView -------------------------------
(***************************************************************************)
(* What the front end shows of the user's trove (TroveViewProvider.tsx and *)
(* the components that dispatch its events).  Three sources race for the   *)
(* view: the user's buttons, the confirmation of the user's transaction,   *)
(* and the trove's status in the store, which lags behind the chain.       *)
(*                                                                         *)
(* dispatchEvent computes the next view from viewRef, which an effect      *)
(* copies from the view only after the render.                             *)
(***************************************************************************)
EXTENDS Integers

CONSTANT MaxChanges  \* bound on the changes of the trove on the chain

ASSUME ChangesAssumption == MaxChanges \in Nat

VARIABLES
  chain,    \* status and surplus collateral of the trove on the chain
  polled,   \* the same as the store has them
  handled,  \* the status the provider's effect ran for last
  view, viewRef,
  tx,       \* the user's transaction: its kind, whether it is mined, and
            \* (history) whether the trove has changed again since
  changes,  \* changes of the chain so far, and since the last poll
  raced,    \* history: an event was dispatched while viewRef was behind the view
  skipped,  \* history: the store, or the provider's effect, never saw one of the chain's states,
            \* or saw a claim confirmed after the trove's next change
  ahead     \* a confirmation has moved the view before the store had the change

tvVars == <<chain, polled, handled, view, viewRef, tx, changes, raced, skipped, ahead>>

Closed == {"closedByOwner", "closedByLiquidation", "closedByRedemption"}
UserTroveStatus == {"nonExistent", "open"} \cup Closed
TroveViews == {"NONE", "LIQUIDATED", "REDEEMED", "OPENING", "ADJUSTING", "CLOSING", "ACTIVE"}
Kinds == {"none", "trove-creation", "trove-adjustment", "trove-closure", "claim-coll-surplus"}
NoTransaction == [kind |-> "none", mined |-> FALSE, overtaken |-> FALSE]

\* The table of events each view answers to.
transitions ==
  [v \in TroveViews |->
     CASE v = "NONE" -> {<<"OPEN_TROVE_PRESSED", "OPENING">>, <<"TROVE_OPENED", "ACTIVE">>}
       [] v \in {"LIQUIDATED", "REDEEMED"} ->
            {<<"OPEN_TROVE_PRESSED", "OPENING">>, <<"TROVE_SURPLUS_COLLATERAL_CLAIMED", "NONE">>,
             <<"TROVE_OPENED", "ACTIVE">>}
       [] v = "OPENING" -> {<<"CANCEL_ADJUST_TROVE_PRESSED", "NONE">>, <<"TROVE_OPENED", "ACTIVE">>}
       [] v \in {"ADJUSTING", "CLOSING"} ->
            {<<"CANCEL_ADJUST_TROVE_PRESSED", "ACTIVE">>, <<"TROVE_ADJUSTED", "ACTIVE">>,
             <<"TROVE_CLOSED", "NONE">>, <<"TROVE_LIQUIDATED", "LIQUIDATED">>,
             <<"TROVE_REDEEMED", "REDEEMED">>}
       [] v = "ACTIVE" ->
            {<<"ADJUST_TROVE_PRESSED", "ADJUSTING">>, <<"CLOSE_TROVE_PRESSED", "CLOSING">>,
             <<"TROVE_CLOSED", "NONE">>, <<"TROVE_LIQUIDATED", "LIQUIDATED">>,
             <<"TROVE_REDEEMED", "REDEEMED">>}]

\* The next view; an event the view does not answer to leaves it.
transition(v, event) ==
  LET next == {t[2] : t \in {u \in transitions[v] : u[1] = event}}
  IN IF next = {} THEN v ELSE CHOOSE w \in next : TRUE

getInitialView(status) ==
  CASE status = "closedByLiquidation" -> "LIQUIDATED"
    [] status = "closedByRedemption" -> "REDEEMED"
    [] status = "open" -> "ACTIVE"
    [] OTHER -> "NONE"

\* Variant: a redemption raises no event.
StatusEventsNoRedemption(status) ==
  CASE status = "open" -> "TROVE_OPENED"
    [] status = "closedByOwner" -> "TROVE_CLOSED"
    [] status = "closedByLiquidation" -> "TROVE_LIQUIDATED"
    [] OTHER -> "none"

troveStatusEvents(status) ==
  CASE status = "open" -> "TROVE_OPENED"
    [] status = "closedByOwner" -> "TROVE_CLOSED"
    [] status = "closedByLiquidation" -> "TROVE_LIQUIDATED"
    [] status = "closedByRedemption" -> "TROVE_REDEEMED"
    [] OTHER -> "none"

\* The page is rendered once the store is loaded.  A surplus outlives the trove it came from:
\* it may be left from an earlier trove of the same owner, opened again or closed since.
TVInit ==
  /\ chain \in [status : UserTroveStatus, surplus : BOOLEAN]
  /\ chain.surplus => chain.status # "nonExistent"
  /\ polled = chain
  /\ handled = chain.status
  /\ view = getInitialView(chain.status) /\ viewRef = view
  /\ tx = NoTransaction
  /\ changes = [all |-> 0, unseen |-> 0]
  /\ raced = FALSE /\ skipped = FALSE /\ ahead = FALSE

-----------------------------------------------------------------------------
(***************************************************************************)
(* The chain and the store                                                 *)
(***************************************************************************)

\* The trove changes on the chain; the user's transaction is mined if it made the change.
Change(status, surplus, t) ==
  /\ changes.all < MaxChanges
  /\ changes' = [all |-> changes.all + 1, unseen |-> changes.unseen + 1]
  /\ chain' = [status |-> status, surplus |-> surplus]
  /\ tx' = t
  /\ UNCHANGED <<polled, handled, view, viewRef, raced, skipped, ahead>>

\* What is left of the trove's collateral is added to the surplus there is.
TakenAway(status, left) ==
  /\ chain.status = "open"
  /\ Change(status, chain.surplus \/ left, [tx EXCEPT !.overtaken = tx.mined])

liquidate == \E left \in BOOLEAN : TakenAway("closedByLiquidation", left)

redeem == \E left \in BOOLEAN : TakenAway("closedByRedemption", left)

\* The user's transaction is mined and succeeds.  Only claimCollateral clears a surplus.
Pending(kind) == tx.kind = kind /\ ~tx.mined
Done == [tx EXCEPT !.mined = TRUE]

openTrove ==
  /\ Pending("trove-creation") /\ chain.status # "open"
  /\ Change("open", chain.surplus, Done)

closeTrove ==
  /\ Pending("trove-closure") /\ chain.status = "open"
  /\ Change("closedByOwner", chain.surplus, Done)

claimCollateral ==
  /\ Pending("claim-coll-surplus") /\ chain.surplus
  /\ Change(chain.status, FALSE, Done)

adjustTrove ==
  /\ Pending("trove-adjustment") /\ chain.status = "open"
  /\ tx' = Done
  /\ UNCHANGED <<chain, changes, polled, handled, view, viewRef, raced, skipped, ahead>>

\* It fails or is cancelled: no view is left for it.
Fails ==
  /\ tx.kind # "none" /\ ~tx.mined
  /\ tx' = NoTransaction
  /\ UNCHANGED <<chain, changes, polled, handled, view, viewRef, raced, skipped, ahead>>

\* The store fetches a block and the selectors render.
Poll ==
  /\ polled # chain \/ changes.unseen > 0
  /\ polled' = chain
  /\ changes' = [changes EXCEPT !.unseen = 0]
  /\ skipped' = (skipped \/ changes.unseen > 1 \/ handled # polled.status)
  /\ ahead' = FALSE
  /\ UNCHANGED <<chain, handled, view, viewRef, tx, raced>>

-----------------------------------------------------------------------------
(***************************************************************************)
(* The provider and the components                                         *)
(***************************************************************************)

dispatchEvent(event) ==
  /\ view' = transition(viewRef, event)
  /\ raced' = (raced \/ view # viewRef)

\* The effect on a new status.
StatusEffect ==
  /\ handled # polled.status
  /\ handled' = polled.status
  /\ dispatchEvent(troveStatusEvents(polled.status))
  /\ UNCHANGED <<chain, polled, viewRef, tx, changes, skipped, ahead>>

\* The effect that copies the view.
RefEffect ==
  /\ viewRef # view
  /\ viewRef' = view
  /\ UNCHANGED <<chain, polled, handled, view, tx, changes, raced, skipped, ahead>>

\* The buttons of the component that is shown.  LiquidatedTrove and RedeemedTrove offer
\* OPEN only when no collateral is left to claim.
Buttons(v) ==
  CASE v = "NONE" -> {"OPEN_TROVE_PRESSED"}
    [] v \in {"LIQUIDATED", "REDEEMED"} -> IF polled.surplus THEN {} ELSE {"OPEN_TROVE_PRESSED"}
    [] v \in {"OPENING", "ADJUSTING", "CLOSING"} -> {"CANCEL_ADJUST_TROVE_PRESSED"}
    [] v = "ACTIVE" -> {"ADJUST_TROVE_PRESSED", "CLOSE_TROVE_PRESSED"}

Press(event) ==
  /\ event \in Buttons(view)
  /\ dispatchEvent(event)
  /\ UNCHANGED <<chain, polled, handled, viewRef, tx, changes, skipped, ahead>>

\* The transaction the shown component can send.
Submit ==
  /\ tx = NoTransaction
  /\ \/ view = "OPENING" /\ tx' = [NoTransaction EXCEPT !.kind = "trove-creation"]
     \/ view = "ADJUSTING" /\ tx' = [NoTransaction EXCEPT !.kind = "trove-adjustment"]
     \/ view = "CLOSING" /\ tx' = [NoTransaction EXCEPT !.kind = "trove-closure"]
     \/ view \in {"LIQUIDATED", "REDEEMED"} /\ polled.surplus
        /\ tx' = [NoTransaction EXCEPT !.kind = "claim-coll-surplus"]
  /\ UNCHANGED <<chain, polled, handled, view, viewRef, changes, raced, skipped, ahead>>

\* What the mounted component makes of a confirmation: TroveManager is shown for CLOSING
\* and listens to every trove transaction, Adjusting and CollateralSurplusAction to theirs.
ConfirmationEvent(kind) ==
  CASE view = "CLOSING" /\ kind = "trove-closure" -> "TROVE_CLOSED"
    [] view = "CLOSING" /\ kind \in {"trove-creation", "trove-adjustment"} -> "TROVE_ADJUSTED"
    [] view = "ADJUSTING" /\ kind = "trove-adjustment" -> "TROVE_ADJUSTED"
    [] view \in {"LIQUIDATED", "REDEEMED"} /\ polled.surplus /\ kind = "claim-coll-surplus" ->
         "TROVE_SURPLUS_COLLATERAL_CLAIMED"
    [] OTHER -> "none"

Confirmed ==
  /\ tx.mined
  /\ tx' = NoTransaction
  /\ LET event == ConfirmationEvent(tx.kind)
     IN IF event = "none" THEN UNCHANGED <<view, raced, ahead, skipped>>
        ELSE /\ dispatchEvent(event)
             /\ ahead' = (ahead \/ changes.unseen > 0)
             /\ skipped' = (skipped \/ (tx.overtaken /\ tx.kind = "claim-coll-surplus"))
  /\ UNCHANGED <<chain, polled, handled, viewRef, changes>>

TVNext ==
  \/ liquidate \/ redeem \/ openTrove \/ closeTrove \/ claimCollateral \/ adjustTrove
  \/ Fails \/ Poll
  \/ StatusEffect \/ RefEffect \/ Submit \/ Confirmed
  \/ \E event \in {"OPEN_TROVE_PRESSED", "ADJUST_TROVE_PRESSED", "CLOSE_TROVE_PRESSED",
                    "CANCEL_ADJUST_TROVE_PRESSED"} : Press(event)

TVSpec == TVInit /\ [][TVNext]_tvVars

-----------------------------------------------------------------------------
TVTypeOK ==
  /\ \A c \in {chain, polled} : c.status \in UserTroveStatus /\ c.surplus \in BOOLEAN
  /\ handled \in UserTroveStatus
  /\ view \in TroveViews /\ viewRef \in TroveViews
  /\ tx \in [kind : Kinds, mined : BOOLEAN, overtaken : BOOLEAN]

\* The effects have run for what is rendered, and no event overtook another.
Quiet == handled = polled.status /\ viewRef = view /\ ~raced

\* The page the store's status calls for offers to claim the surplus.
Claimable ==
  polled.surplus /\ polled.status \in {"closedByLiquidation", "closedByRedemption"}

(***************************************************************************)
(* A trove the store knows to be closed is not shown as one to adjust or   *)
(* to close, whatever the user was doing and however many changes the      *)
(* store has missed: every view of an open trove answers to each way a     *)
(* trove can end.  And the view is the one the trove's status calls for,   *)
(* with the collateral left over to be claimed from it when it was         *)
(* liquidated or redeemed, as long as the store has followed the chain     *)
(* without a gap and no confirmation is ahead of it.  (After a gap it may  *)
(* not be: a trove closed, opened again and liquidated between two polls   *)
(* is shown as NONE.  Nor when the confirmation of a claim comes late: a   *)
(* trove that was opened again with the surplus still there, and taken     *)
(* away a second time before the first claim is confirmed, loses the       *)
(* button that claims the new surplus.)                                    *)
(***************************************************************************)
ViewMatchesTrove ==
  Quiet =>
    /\ polled.status \in Closed => view \notin {"ACTIVE", "ADJUSTING", "CLOSING"}
    /\ ~skipped /\ ~ahead =>
         CASE polled.status = "open" -> view \in {"ACTIVE", "ADJUSTING", "CLOSING"}
           [] Claimable -> view = getInitialView(polled.status)
           [] OTHER -> view \notin {"ACTIVE", "ADJUSTING", "CLOSING"}

(***************************************************************************)
(* What the page asks of its user when collateral is left over: "Please    *)
(* reclaim your remaining collateral before opening a new Trove."          *)
(* (LiquidatedTrove.tsx, RedeemedTrove.tsx).  NoTrove, which is shown when *)
(* the owner closed the last trove, does not look at the surplus.          *)
(***************************************************************************)
ReclaimBeforeOpening ==
  Quiet /\ ~skipped /\ ~ahead /\ polled.status # "open" /\ polled.surplus => view # "OPENING"

=============================================================================
