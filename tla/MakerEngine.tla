----------------------------- MODULE MakerEngine -----------------------------
(***************************************************************************)
(* smart_execute_maker of backend/app/execution/maker_engine.py: one order *)
(* of Target units worked as PostOnly limit orders on Bybit.               *)
(*                                                                         *)
(* An action is one call to the exchange with the code that runs from its  *)
(* answer to the next call.  The exchange fills, cancels and receives      *)
(* orders between any two calls.  A call whose answer the program does not *)
(* get (the 10 s timeout of thread_with_timeout, an SDK error) is "lost":  *)
(* its thread goes on, and the exchange may still act on it later.         *)
(*                                                                         *)
(* Quantities are whole steps of qtyStep.  Left out: prices, VWAP, fees    *)
(* and counters of the result; whether the price moved enough to reprice   *)
(* (price_moved, the stall counter, the volatility guard) is a free choice *)
(* of every turn, as the book decides it.  config.allow_market_fallback is *)
(* read once in a call, after the final poll: a free choice there covers   *)
(* both settings.                                                          *)
(***************************************************************************)
EXTENDS Integers

CONSTANTS
  Target,    \* target_qty, a multiple of the step
  MinQty,    \* minOrderQty
  MaxTurns   \* config.max_reprices

ASSUME MakerAssumption ==
  /\ MinQty \in Nat \ {0} /\ Target \in Nat /\ Target >= MinQty
  /\ MaxTurns \in Nat

(* The initial order is 1; the replacement of turn t is t + 1.             *)
OrderIds == 1..(MaxTurns + 1)
NoOrder == 0

VARIABLES
  order,     \* the exchange's orders: [OrderIds -> quantity, filled, state]
  bought,    \* units the exchange has executed for this call, all orders
  pc,        \* the call smart_execute_maker makes next
  turn,      \* reprice_i
  cur,       \* current_order_id
  prev,      \* prev_filled
  total,     \* total_filled
  status,    \* result.status
  shifts,    \* amend_retries
  reported,  \* result.filled_qty
  lost       \* history: the calls that were lost

exchangeVars == <<order, bought>>
makerVars == <<order, bought, pc, turn, cur, prev, total, status, shifts,
               reported, lost>>

Unsent == [qty |-> 0, filled |-> 0, state |-> "unsent"]

MakerInit ==
  /\ order = [o \in OrderIds |-> Unsent]
  /\ bought = 0
  /\ pc = "place" /\ turn = 0 /\ cur = NoOrder
  /\ prev = 0 /\ total = 0 /\ shifts = 0 /\ reported = 0
  /\ status = "aborted"
  /\ lost = {}

Remaining == Target - total

(* The initial order has not been replaced.                                *)
Sole == \A o \in OrderIds \ {1} : order[o].state = "unsent"

-----------------------------------------------------------------------------
(* The exchange.  A PostOnly order that would cross on arrival, and one    *)
(* whose lost cancel takes effect late, is cancelled by the exchange.      *)

Fill(o) ==
  /\ order[o].state = "live"
  /\ LET n == order[o].filled + 1
     IN  order' = [order EXCEPT ![o] =
           [qty |-> @.qty, filled |-> n,
            state |-> IF n = @.qty THEN "filled" ELSE "live"]]
  /\ bought' = bought + 1
  /\ UNCHANGED <<pc, turn, cur, prev, total, status, shifts, reported, lost>>

ExchangeCancel(o) ==
  /\ order[o].state = "live"
  /\ order' = [order EXCEPT ![o].state = "cancelled"]
  /\ UNCHANGED <<bought, pc, turn, cur, prev, total, status, shifts, reported,
                 lost>>

(* The order of a lost call reaches the exchange.                          *)
Arrive(o) ==
  /\ order[o].state = "late"
  /\ order' = [order EXCEPT ![o].state = "live"]
  /\ UNCHANGED <<bought, pc, turn, cur, prev, total, status, shifts, reported,
                 lost>>

Exchange == \E o \in OrderIds : Fill(o) \/ ExchangeCancel(o) \/ Arrive(o)

-----------------------------------------------------------------------------
(* The calls.                                                              *)

NextId == turn + 1

(* place_limit_postonly for q units.                                       *)
Accepted(q, s) ==
  order' = [order EXCEPT ![NextId] = [qty |-> q, filled |-> 0, state |-> s]]

(* cancel_order, every exception swallowed: the order is cancelled, is     *)
(* already done, or the call is lost.                                      *)
Cancel(o) ==
  \/ /\ order[o].state = "live"
     /\ order' = [order EXCEPT ![o].state = "cancelled"]
     /\ UNCHANGED lost
  \/ /\ order[o].state # "live"
     /\ UNCHANGED <<order, lost>>
  \/ /\ lost' = lost \cup {"cancel"}
     /\ UNCHANGED order

(* What get_order_status answers: the order, or 0 and "Unknown" when       *)
(* neither query finds it, which counts as a lost call.                    *)
Unknown == [filled |-> 0, state |-> "unknown"]
Answers == {[filled |-> order[cur].filled, state |-> order[cur].state], Unknown}
Note(a) == lost' = IF a = Unknown THEN lost \cup {"status"} ELSE lost

(* get_order_status raises.                                                *)
StatusRaises ==
  /\ pc' = "except" /\ lost' = lost \cup {"status"}
  /\ UNCHANGED <<order, bought, turn, cur, prev, total, status, shifts, reported>>

Larger(m, n) == IF m > n THEN m ELSE n

Return(s, q) == pc' = "done" /\ status' = s /\ reported' = q

-----------------------------------------------------------------------------
(* Steps 1 to 6: instrument, book and initial order, tried once more one   *)
(* tick away when it would take.                                           *)
Place ==
  /\ pc \in {"place", "placeAgain"}
  /\ \/ /\ Accepted(Target, "live")
        /\ cur' = NextId /\ pc' = "turn"
        /\ UNCHANGED lost
     \/ /\ pc = "place" /\ pc' = "placeAgain"
        /\ UNCHANGED <<order, cur, lost>>
     \/ /\ pc' = "except"
        /\ UNCHANGED <<order, cur, lost>>
     \/ /\ pc' = "except"
        /\ Accepted(Target, "late") /\ lost' = lost \cup {"place"}
        /\ UNCHANGED cur
  /\ UNCHANGED <<bought, turn, prev, total, status, shifts, reported>>

(* Variant of Turn: only the clock ends the loop.                          *)
TurnUncounted ==
  /\ pc = "turn"
  /\ pc' \in {"finish", "poll"}
  /\ UNCHANGED <<exchangeVars, turn, cur, prev, total, status, shifts, reported,
                 lost>>

(* The head of the reprice loop: out of turns, out of time, or one more    *)
(* turn after the sleep.                                                   *)
Turn ==
  /\ pc = "turn"
  /\ \/ pc' = "finish" /\ UNCHANGED turn
     \/ turn < MaxTurns /\ turn' = turn + 1 /\ pc' = "poll"
  /\ UNCHANGED <<exchangeVars, cur, prev, total, status, shifts, reported, lost>>

(* Variant of Poll: the answer is added to what is already counted.        *)
PollAdds ==
  /\ pc = "poll"
  /\ \E a \in Answers :
       /\ Note(a)
       /\ total' = IF a.filled > prev THEN total + a.filled ELSE total
       /\ prev' = Larger(prev, a.filled)
       /\ IF a.state = "filled" \/ Target - total' < MinQty
            THEN Return("filled", total')
            ELSE pc' = "book" /\ UNCHANGED <<status, reported>>
  /\ UNCHANGED <<exchangeVars, turn, cur, shifts>>

(* The poll of a turn.  prev is not reset when the order is replaced, and  *)
(* an answer above it overwrites the total.                                *)
Poll ==
  /\ pc = "poll"
  /\ \E a \in Answers :
       /\ Note(a)
       /\ total' = IF a.filled > prev THEN a.filled ELSE total
       /\ prev' = Larger(prev, a.filled)
       /\ IF a.state = "filled" \/ Target - total' < MinQty
            THEN Return("filled", total')
            ELSE pc' = "book" /\ UNCHANGED <<status, reported>>
  /\ UNCHANGED <<exchangeVars, turn, cur, shifts>>

PollRaises == pc = "poll" /\ StatusRaises

(* The book of a turn: nothing to do, a price to move to, or a drift from  *)
(* the initial mid beyond max_deviation_ticks.                             *)
Book ==
  /\ pc = "book"
  /\ \/ pc' = "turn" /\ UNCHANGED <<status, shifts>>
     \/ pc' = "amend" /\ shifts' = 0 /\ UNCHANGED status
     \/ pc' = "finish" /\ status' = "aborted" /\ UNCHANGED shifts
  /\ UNCHANGED <<exchangeVars, turn, cur, prev, total, reported, lost>>

(* amend_order to the remaining quantity, which the exchange takes as the  *)
(* whole quantity of the order, its fills included.  It refuses a quantity *)
(* that is not above the fills.  A price that would cross is shifted by a  *)
(* tick and tried again, three times in all; "order not exist" is looked   *)
(* into; the last two are any other error, and an amendment that was made  *)
(* although its answer is lost, which counts as a lost status.             *)
Amended ==
  order' = [order EXCEPT ![cur].qty = Remaining]

CanAmend == order[cur].state = "live" /\ Remaining > order[cur].filled

Amend ==
  /\ pc = "amend"
  /\ \/ /\ order[cur].state = "live" /\ shifts < 2
        /\ shifts' = shifts + 1
        /\ UNCHANGED <<order, pc, lost>>
     \/ /\ shifts' = 0
        /\ \/ CanAmend /\ Amended /\ pc' = "turn" /\ UNCHANGED lost
           \/ /\ order[cur].state = "live" /\ shifts = 2
              /\ pc' = "turn" /\ UNCHANGED <<order, lost>>
           \/ order[cur].state # "live" /\ pc' = "recheck" /\ UNCHANGED <<order, lost>>
           \/ pc' = "cancelOld" /\ UNCHANGED <<order, lost>>
           \/ /\ CanAmend /\ Amended
              /\ pc' = "cancelOld" /\ lost' = lost \cup {"status"}
  /\ UNCHANGED <<bought, turn, cur, prev, total, status, reported>>

(* "order not exist": the order is filled, or the loop goes on with it.    *)
Recheck ==
  /\ pc = "recheck"
  /\ \E a \in Answers :
       /\ Note(a)
       /\ \/ /\ a.state = "filled"
             /\ total' = a.filled
             /\ Return("filled", total')
          \/ /\ a.state # "filled"
             /\ pc' = "turn" /\ UNCHANGED <<total, status, reported>>
  /\ UNCHANGED <<exchangeVars, turn, cur, prev, shifts>>

RecheckRaises == pc = "recheck" /\ StatusRaises

(* Cancel and replace after any other error of the amendment.              *)
CancelOld ==
  /\ pc = "cancelOld"
  /\ Cancel(cur)
  /\ pc' = "replace"
  /\ UNCHANGED <<bought, turn, cur, prev, total, status, shifts, reported>>

Replace ==
  /\ pc = "replace" /\ pc' = "turn"
  /\ \/ Accepted(Remaining, "live") /\ cur' = NextId /\ UNCHANGED lost
     \/ UNCHANGED <<order, cur, lost>>
     \/ /\ Accepted(Remaining, "late") /\ lost' = lost \cup {"place"}
        /\ UNCHANGED cur
  /\ UNCHANGED <<bought, turn, prev, total, status, shifts, reported>>

-----------------------------------------------------------------------------
(* Steps 8 and 9.  The loop leaves its result open only with at least      *)
(* MinQty remaining.                                                       *)

(* Variant of FinalCancel: the resting order is left to the market order.  *)
FinalNoCancel ==
  /\ pc = "finish" /\ Remaining >= MinQty
  /\ pc' = "finalPoll"
  /\ UNCHANGED <<exchangeVars, turn, cur, prev, total, status, shifts, reported,
                 lost>>

FinalCancel ==
  /\ pc = "finish" /\ Remaining >= MinQty
  /\ Cancel(cur)
  /\ pc' = "finalPoll"
  /\ UNCHANGED <<bought, turn, cur, prev, total, status, shifts, reported>>

Unfinished(n) == IF n > 0 THEN "partial" ELSE "aborted"

(* Variant of FinalPoll: what was filled since the last poll is not read.  *)
FinalPollUnread ==
  /\ pc = "finalPoll"
  /\ \/ pc' = "market" /\ UNCHANGED <<status, reported>>
     \/ Return(Unfinished(total), total)
  /\ UNCHANGED <<exchangeVars, turn, cur, prev, total, shifts, lost>>

(* When the final poll leaves less than MinQty, the status stays what it   *)
(* was before: the initial "aborted".  Otherwise the rest goes to a market *)
(* order, if allow_market_fallback says so.                                *)
FinalPoll ==
  /\ pc = "finalPoll"
  /\ \E a \in Answers :
       /\ Note(a)
       /\ total' = Larger(total, a.filled)
  /\ \/ /\ Target - total' < MinQty
        /\ Return(status, total')
     \/ /\ Target - total' >= MinQty
        /\ pc' = "market" /\ UNCHANGED <<status, reported>>
     \/ /\ Target - total' >= MinQty
        /\ Return(Unfinished(total'), total')
  /\ UNCHANGED <<exchangeVars, turn, cur, prev, shifts>>

FinalPollRaises == pc = "finalPoll" /\ StatusRaises

(* The market order is IOC: the exchange may execute less than it accepts. *)
(* The engine counts all of it, or none when the call fails.               *)
Market ==
  /\ pc = "market"
  /\ \E got \in 0..Remaining :
       /\ bought' = bought + got
       /\ \/ /\ total' = total + Remaining
             /\ Return("market_fallback", total')
             /\ lost' = IF got = Remaining THEN lost ELSE lost \cup {"market"}
          \/ /\ Return(Unfinished(total), total)
             /\ lost' = IF got = 0 THEN lost ELSE lost \cup {"market"}
             /\ UNCHANGED total
  /\ UNCHANGED <<order, turn, cur, prev, shifts>>

(* Variant of Abort: the handler does not cancel.                          *)
AbortNoCancel ==
  /\ pc = "except"
  /\ Return("aborted", 0)
  /\ UNCHANGED <<exchangeVars, turn, cur, prev, total, shifts, lost>>

(* The exception handler: the result keeps its initial filled_qty, 0.      *)
Abort ==
  /\ pc = "except"
  /\ IF cur = NoOrder THEN UNCHANGED <<order, lost>> ELSE Cancel(cur)
  /\ Return("aborted", 0)
  /\ UNCHANGED <<bought, turn, cur, prev, total, shifts>>

Engine ==
  \/ Place \/ Turn \/ Poll \/ PollRaises \/ Book \/ Amend
  \/ Recheck \/ RecheckRaises \/ CancelOld \/ Replace
  \/ FinalCancel \/ FinalPoll \/ FinalPollRaises \/ Market \/ Abort

MakerNext == Engine \/ Exchange

(* Every call answers or times out, so the engine always goes on.          *)
MakerSpec ==
  /\ MakerInit
  /\ [][MakerNext]_makerVars
  /\ WF_makerVars(Engine)

-----------------------------------------------------------------------------
States == {"unsent", "late", "live", "filled", "cancelled"}
Places == {"place", "placeAgain", "turn", "poll", "book", "amend", "recheck",
           "cancelOld", "replace", "finish", "finalPoll", "market", "except", "done"}
Statuses == {"aborted", "filled", "partial", "market_fallback"}
Calls == {"place", "cancel", "status", "market"}

(* The program's values: prev and total are quantities of real fills, the  *)
(* ids are those of sent orders.                                           *)
MakerTypeOK ==
  /\ order \in [OrderIds -> [qty : 0..Target, filled : 0..Target, state : States]]
  /\ bought \in Nat
  /\ pc \in Places /\ turn \in 0..MaxTurns
  /\ cur \in {NoOrder} \cup OrderIds
  /\ prev \in 0..Target /\ total \in 0..Target
  /\ status \in Statuses /\ shifts \in 0..2 /\ reported \in 0..Target
  /\ lost \subseteq Calls

(* The engine never reports a unit the exchange did not execute (but for   *)
(* an IOC fallback it takes at its word): what the executor hedges on      *)
(* Lighter exists on Bybit, whatever calls were lost and however often the *)
(* order was replaced.                                                     *)
ReportedWasBought ==
  "market" \notin lost => reported <= bought

(* What the current order still has on the book.                           *)
Resting == IF cur = NoOrder \/ order[cur].state # "live" THEN 0
           ELSE order[cur].qty - order[cur].filled

(* With one order and no lost call, a result other than an abort is exact  *)
(* and final: what it reports is what was bought and what ever will be,    *)
(* but for a "filled" result, which may leave less than MinQty on the book *)
(* (the poll of a turn returns without cancelling).                        *)
Settled == pc = "done" /\ status # "aborted"
Open == {o \in OrderIds : order[o].state \in {"live", "late"}}
ExactWhenSimple ==
  Settled /\ lost = {} /\ Sole
    => /\ reported <= bought
       /\ bought + Resting < reported + MinQty
       /\ status # "filled" => reported = bought /\ Open = {}

(* When the engine returns, by whatever path, no order of it rests at the  *)
(* exchange, unless a placement or a cancellation was lost, or it reports  *)
(* "filled" and its last order has less than MinQty to go: so little can   *)
(* be filled after the caller has decided what to hedge, and no more.      *)
NothingLeftWorking ==
  pc = "done" /\ lost \cap {"place", "cancel"} = {}
    => \A o \in Open : o = cur /\ status = "filled" /\ Resting < MinQty

(* While the original order is the only one and no call was lost, what is  *)
(* bought and what still rests never exceed the target, market order       *)
(* included: an overfill needs the cancel-and-replace fallback.            *)
WithinTarget ==
  lost = {} /\ Sole => bought + Resting <= Target

=============================================================================
