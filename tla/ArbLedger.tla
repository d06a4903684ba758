------------------------------ MODULE ArbLedger ------------------------------
(***************************************************************************)
(* What the arbitrage executor promises of the money it moves: Lighter is  *)
(* traded at most once and before anything is undone, the Bybit leg is     *)
(* undone at most once, each for no more than Bybit has executed by then,  *)
(* and the run is over after that.  Bybit may execute more at any time:    *)
(* the promise says nothing of orders left behind.                         *)
(***************************************************************************)
EXTENDS Integers

VARIABLES bought, hedged, reversed, stage

vars == <<bought, hedged, reversed, stage>>

Init ==
  /\ bought = 0 /\ hedged = 0 /\ reversed = 0
  /\ stage = "buying"

Buy ==
  /\ bought' > bought
  /\ UNCHANGED <<hedged, reversed, stage>>

(* The hedge is sold, or fails whether or not Lighter executed it.         *)
Hedge ==
  /\ stage = "buying"
  /\ hedged' >= 0 /\ hedged' <= bought
  /\ stage' \in {"undoing", "over"}
  /\ UNCHANGED <<bought, reversed>>

(* The fill is too small to be hedged.                                     *)
GiveUp ==
  /\ stage = "buying"
  /\ stage' = "undoing"
  /\ UNCHANGED <<bought, hedged, reversed>>

Undo ==
  /\ stage = "undoing"
  /\ reversed' >= 0 /\ reversed' <= bought
  /\ stage' = "over"
  /\ UNCHANGED <<bought, hedged>>

Abort ==
  /\ stage = "buying"
  /\ stage' = "over"
  /\ UNCHANGED <<bought, hedged, reversed>>

Next == Buy \/ Hedge \/ GiveUp \/ Undo \/ Abort

Spec == Init /\ [][Next]_vars

=============================================================================
