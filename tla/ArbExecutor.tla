----------------------------- MODULE ArbExecutor -----------------------------
(***************************************************************************)
(* ArbitrageExecutor._run_arb_sequential of backend/app/services/          *)
(* executor.py: the maker engine buys on Bybit (one side is modelled, the  *)
(* other is its mirror image), Lighter sells what it reports, and a fill   *)
(* that cannot be hedged is reversed on Bybit.                             *)
(*                                                                         *)
(* The executor calls the engine of MakerEngine and goes on when it has    *)
(* returned; orders the engine left behind go on filling.  Whether the     *)
(* engine may end in a market order is a setting (arb_maker_only, by       *)
(* default TRUE, and maker_allow_market_fallback): both are covered.       *)
(***************************************************************************)
EXTENDS MakerEngine

CONSTANTS
  MinFill,      \* units of min_fill_pct of the amount, rounded up
  LighterMin,   \* min_base_amount of the market on Lighter
  MaxFailures   \* circuit_breaker.max_failures

ASSUME ArbAssumption ==
  /\ MinFill \in Nat \ {0} /\ LighterMin \in Nat
  /\ MaxFailures \in Nat \ {0}

VARIABLES
  step,      \* where _run_arb_sequential is
  hedged,    \* units Lighter has executed
  reversed,  \* units the reversal has executed on Bybit
  journal,   \* status of the row written by _record_arb_trade
  failures,  \* circuit_breaker.consecutive_failures
  tripped,   \* circuit_breaker.tripped
  counted,   \* failure_counted
  lostLegs   \* history: the executor's own calls that were lost

arbVars == <<step, hedged, reversed, journal, failures, tripped, counted,
             lostLegs>>
vars == <<makerVars, arbVars>>

(* A run may find failures of earlier runs.                                *)
Init ==
  /\ MakerInit
  /\ step = "preflight"
  /\ hedged = 0 /\ reversed = 0
  /\ journal = "none"
  /\ failures \in 0..(MaxFailures - 1)
  /\ tripped = FALSE /\ counted = FALSE
  /\ lostLegs = {}

Goto(l) == step' = l

-----------------------------------------------------------------------------
(* circuit_breaker.record_execution_failure and record_execution_success.  *)
RecordFailure ==
  /\ failures' = failures + 1
  /\ tripped' = IF failures' >= MaxFailures THEN TRUE ELSE tripped

RecordSuccess == failures' = 0 /\ UNCHANGED tripped

(* The row of the trade; record_trade swallows its errors.                 *)
Write(s) == journal' = s

-----------------------------------------------------------------------------
(* The Lighter client is asked whether it can trade, before anything is    *)
(* bought.                                                                 *)
Preflight ==
  /\ step = "preflight"
  /\ \/ /\ Goto("maker")
        /\ UNCHANGED <<journal, failures, tripped, counted>>
     \/ /\ Goto("end")
        /\ Write("aborted")
        /\ counted' = TRUE /\ RecordFailure
  /\ UNCHANGED <<makerVars, hedged, reversed, lostLegs>>

(* Phase 1: a step of the engine or of the exchange.                       *)
Working == step = "maker" /\ MakerNext /\ UNCHANGED arbVars

(* Once the engine has returned, only the exchange acts on its orders.     *)
LateExchange == step # "maker" /\ Exchange /\ UNCHANGED arbVars

TooSmall == reported < MinFill \/ reported < LighterMin

(* Phase 2: an abort is recorded with quantity 0 and is no failure.        *)
Aborted ==
  /\ step = "maker" /\ pc = "done" /\ status = "aborted"
  /\ Write("aborted")
  /\ Goto("end")
  /\ UNCHANGED <<makerVars, hedged, reversed, failures, tripped, counted, lostLegs>>

(* A fill below the threshold, or below what Lighter takes, is reversed.   *)
Evaluate ==
  /\ step = "maker" /\ pc = "done" /\ status # "aborted"
  /\ Goto(IF TooSmall THEN "reverse" ELSE "hedge")
  /\ UNCHANGED <<makerVars, hedged, reversed, journal, failures, tripped, counted,
                 lostLegs>>

(* Variant of Hedge: the requested amount is sold, not the fill.           *)
HedgeTarget ==
  /\ step = "hedge"
  /\ \/ /\ hedged' = Target
        /\ RecordSuccess
        /\ Write(IF status = "partial" THEN "partial" ELSE "success")
        /\ Goto("end")
        /\ UNCHANGED lostLegs
     \/ /\ Goto("reverse")
        /\ UNCHANGED <<hedged, failures, tripped, journal, lostLegs>>
  /\ UNCHANGED <<makerVars, reversed, counted>>

(* Phase 3: a market IOC order on Lighter.  Success is an accepted         *)
(* transaction, which may execute less; an error may come after the        *)
(* transaction was sent.  Both count as lost.                              *)
Hedge ==
  /\ step = "hedge"
  /\ \E got \in 0..reported :
       /\ hedged' = got
       /\ \/ /\ RecordSuccess
             /\ Write(IF status = "partial" THEN "partial" ELSE "success")
             /\ Goto("end")
             /\ lostLegs' = IF got = reported THEN lostLegs ELSE lostLegs \cup {"lighter"}
          \/ /\ Goto("reverse")
             /\ lostLegs' = IF got = 0 THEN lostLegs ELSE lostLegs \cup {"lighter"}
             /\ UNCHANGED <<failures, tripped, journal>>
  /\ UNCHANGED <<makerVars, reversed, counted>>

(* Variant of Reverse: failure_counted is not set.                         *)
ReverseUncounted ==
  /\ step = "reverse"
  /\ \/ reversed' = reported /\ UNCHANGED lostLegs
     \/ /\ reversed' \in {0, reported}
        /\ lostLegs' = lostLegs \cup {"reverse"}
  /\ Write("reversed")
  /\ RecordFailure
  /\ Goto(IF TooSmall THEN "end" ELSE "raise")
  /\ UNCHANGED <<makerVars, hedged, counted>>

(* _reverse_bybit, a reduce-only market order whose failure is logged and  *)
(* swallowed, then the row, the failure count and, after a failure of      *)
(* Lighter, the exception that goes to the caller.                         *)
Reverse ==
  /\ step = "reverse"
  /\ \/ reversed' = reported /\ UNCHANGED lostLegs
     \/ /\ reversed' \in {0, reported}
        /\ lostLegs' = lostLegs \cup {"reverse"}
  /\ Write("reversed")
  /\ counted' = TRUE /\ RecordFailure
  /\ Goto(IF TooSmall THEN "end" ELSE "raise")
  /\ UNCHANGED <<makerVars, hedged>>

(* except Exception: the failure is counted if it was not already.         *)
Raise ==
  /\ step = "raise"
  /\ IF counted THEN UNCHANGED <<failures, tripped>> ELSE RecordFailure
  /\ Goto("end")
  /\ UNCHANGED <<makerVars, hedged, reversed, journal, counted, lostLegs>>

Run == Preflight \/ Aborted \/ Evaluate \/ Hedge \/ Reverse \/ Raise

Next == Working \/ LateExchange \/ Run

(* The calls of both engines answer or time out.                           *)
Executor == Run \/ (step = "maker" /\ Engine /\ UNCHANGED arbVars)

Spec == Init /\ [][Next]_vars /\ WF_vars(Executor)

-----------------------------------------------------------------------------
Steps == {"preflight", "maker", "hedge", "reverse", "raise", "end"}
Rows == {"none", "aborted", "reversed", "partial", "success"}

TypeOK ==
  /\ lostLegs \subseteq {"lighter", "reverse"}
  /\ step \in Steps /\ journal \in Rows
  /\ hedged \in 0..Target /\ reversed \in 0..Target
  /\ failures \in 0..MaxFailures
  /\ tripped \in BOOLEAN /\ counted \in BOOLEAN

(* A run that does not report an abort leaves no naked leg: what Bybit     *)
(* executed is hedged on Lighter or reversed, and no order rests, when no  *)
(* call was lost and the order was never replaced; but for less than       *)
(* MinQty that a "filled" order may still have on the book, or have filled *)
(* after the hedge was sized.                                              *)
Naked == bought - reversed - hedged
Ended == step = "end"
LegsMatch ==
  Ended /\ journal # "aborted" /\ lost \cup lostLegs = {} /\ Sole
    => /\ Naked >= 0 /\ Naked + Resting < MinQty
       /\ status # "filled" => Naked = 0 /\ Open = {}

(* Lighter is never sold more than Bybit has bought and still holds, lost  *)
(* calls, replaced orders and late fills included, unless it is Lighter's  *)
(* own call that was lost, or the answer to the engine's market order.     *)
NeverOverHedged ==
  "lighter" \notin lostLegs /\ "market" \notin lost => Naked >= 0

(* Every step of a run is a step of the promise of ArbLedger or a stutter: *)
(* at most one hedge, then at most one reversal, neither for more than     *)
(* Bybit had executed when it was sent.  Only a market order that Bybit    *)
(* accepted counts as executed in full, as the engine takes it to be.      *)
Believed == IF "market" \in lost /\ reported > bought THEN reported ELSE bought
Stage == CASE step \in {"preflight", "maker", "hedge"} -> "buying"
           [] step = "reverse" -> "undoing"
           [] step \in {"raise", "end"} -> "over"
Ledger == INSTANCE ArbLedger WITH stage <- Stage, bought <- Believed
KeepsLedger == Ledger!Spec

(* A run counts as one failure of the breaker exactly when it ends in a    *)
(* reversal or fails the preflight, whatever path raised, and the          *)
(* MaxFailures-th one in a row trips it.                                   *)
FailureCountedOnce ==
  [][/\ failures' # failures => ~counted
     /\ (tripped' # tripped) => failures' = MaxFailures
     /\ step # "end" /\ step' = "end" =>
          (counted' <=> (journal' = "reversed" \/ step = "preflight"))]_arbVars

(* The run ends, and with it the cleanup of its clients is reached.        *)
RunEnds == <>(step = "end")

(* "eliminates position mismatch risk", "Evaluate: filled / partial /      *)
(* aborted": a run that ends as aborted after no lost call has bought      *)
(* nothing.                                                                *)
AbortedMeansFlat == Ended /\ journal = "aborted" /\ lost = {} => bought = 0

=============================================================================
