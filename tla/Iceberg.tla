------------------------------- MODULE Iceberg -------------------------------
(***************************************************************************)
(* execute_iceberg of backend/app/execution/iceberg_executor.py: a parent  *)
(* order of Target units worked as GTC limit orders (children) of at most  *)
(* ChildQty units, Slots of them at a time.                                *)
(*                                                                         *)
(* An action is one call to Bybit with the code that runs from its answer  *)
(* to the next call; the exchange acts between any two calls.  A call that *)
(* fails at the client may have been executed, at once or later: it is     *)
(* "lost".  A child is named by the number in its orderLinkId, which the   *)
(* code advances only after a placement it knows to have succeeded, and    *)
(* which the exchange accepts once.                                        *)
(*                                                                         *)
(* Left out: prices, VWAP, fees, the counters of the result, and the wait  *)
(* for a token of the rate limiter, which is part of the call it precedes. *)
(* What depends on the book (the price limit, the slippage, whether a      *)
(* child is to be repriced) is a free choice.                              *)
(***************************************************************************)
EXTENDS Integers, FiniteSets, Functions

CONSTANTS
  Target,       \* total_qty, rounded to the step
  MinQty,       \* minOrderQty
  ChildQty,     \* config.child_qty
  Slots,        \* config.max_active_children
  MaxCancels,   \* config.max_cancels
  MaxRounds,    \* the sleeps that fit in config.max_runtime_s
  MaxChildren   \* bound: children the exchange accepts

ASSUME IcebergAssumption ==
  /\ Target \in Nat /\ MinQty \in Nat \ {0} /\ ChildQty \in Nat
  /\ MinQty <= ChildQty /\ ChildQty <= Target
  /\ Slots \in Nat /\ MaxCancels \in Nat /\ MaxRounds \in Nat
  /\ MaxChildren \in Nat

Links == 0 .. MaxChildren - 1

VARIABLES
  order,    \* the exchange's orders: [Links -> quantity, filled, state]
  active,   \* active_children
  seen,     \* filled_qty of each child, as last read
  next,     \* child_idx_counter
  total,    \* total_filled
  spent,    \* total_cancel_count
  round,    \* sleeps taken: the clock
  mode,     \* the state of the loop, or how it ended
  pc,       \* the call made next
  todo,     \* children the current pass has still to call about
  tries,    \* placements left in the current pass
  status,   \* result.status
  lost      \* history: the kinds of call that were lost

vars == <<order, active, seen, next, total, spent, round, mode, pc, todo,
          tries, status, lost>>

Unsent == [qty |-> 0, filled |-> 0, state |-> "unsent"]

Init ==
  /\ order = [k \in Links |-> Unsent]
  /\ active = {} /\ seen = [k \in Links |-> 0] /\ next = 0
  /\ total = 0 /\ spent = 0 /\ round = 0
  /\ mode = "idle" /\ pc = "start" /\ todo = {} /\ tries = 0
  /\ status = "aborted" /\ lost = {}

Remaining == Target - total

(* _sum_active_unfilled                                                    *)
Unfilled ==
  SumFunctionOnSet([k \in Links |-> order[k].qty - seen[k]], active)

Done(k) == order[k].state \in {"filled", "cancelled"}
Open(k) == order[k].state \in {"live", "late"}

-----------------------------------------------------------------------------
(* The exchange.  It fills a child, cancels it, or ends it in a state that *)
(* the code takes for neither "Filled" nor "Cancelled".                    *)

Fill(k) ==
  /\ order[k].state = "live"
  /\ LET n == order[k].filled + 1
     IN  order' = [order EXCEPT ![k] =
           [qty |-> @.qty, filled |-> n,
            state |-> IF n = @.qty THEN "filled" ELSE "live"]]

End(k) ==
  /\ order[k].state = "live"
  /\ \/ order' = [order EXCEPT ![k].state = "cancelled"]
     \/ /\ order[k].filled = 0
        /\ order' = [order EXCEPT ![k].state = "rejected"]

(* The order of a lost placement reaches the exchange.                     *)
Arrive(k) ==
  /\ order[k].state = "late"
  /\ order' = [order EXCEPT ![k].state = "live"]

Exchange ==
  /\ \E k \in Links : Fill(k) \/ End(k) \/ Arrive(k)
  /\ UNCHANGED <<active, seen, next, total, spent, round, mode, pc, todo,
                 tries, status, lost>>

-----------------------------------------------------------------------------
(* get_instrument_info and the first book: an error, a quantity the        *)
(* instrument does not allow or a price limit already breached end the run.*)
Start ==
  /\ pc = "start"
  /\ \/ pc' = "done" /\ UNCHANGED mode
     \/ pc' = "loop" /\ mode' = "placing"
  /\ UNCHANGED <<order, active, seen, next, total, spent, round, todo, tries,
                 status, lost>>

CancelAll == pc' = "cancel" /\ todo' = active

(* The head of the loop: the clock, the budget of cancels, then what the   *)
(* state asks for.                                                         *)
Timeout ==
  /\ pc = "loop"
  /\ CancelAll /\ mode' = "done"
  /\ UNCHANGED <<order, active, seen, next, total, spent, round, tries, status,
                 lost>>

OutOfCancels ==
  /\ pc = "loop" /\ spent >= MaxCancels
  /\ CancelAll /\ mode' = "aborted"
  /\ UNCHANGED <<order, active, seen, next, total, spent, round, tries, status,
                 lost>>

(* Variant of Going: the budget may be used up.                            *)
GoingSpent == pc = "loop" /\ spent <= MaxCancels /\ round < MaxRounds

Going == pc = "loop" /\ spent < MaxCancels /\ round < MaxRounds

FreeSlots == IF Slots > Cardinality(active) THEN Slots - Cardinality(active) ELSE 0

StartPlacing ==
  /\ Going /\ mode = "placing"
  /\ pc' = "place" /\ tries' = FreeSlots
  /\ UNCHANGED <<order, active, seen, next, total, spent, round, mode, todo,
                 status, lost>>

(* REPLENISH: a book that cannot be read leads back to WORKING.            *)
Replenish ==
  /\ Going /\ mode = "replenish"
  /\ \/ pc' = "place" /\ tries' = FreeSlots /\ UNCHANGED mode
     \/ mode' = "working" /\ UNCHANGED <<pc, tries>>
  /\ UNCHANGED <<order, active, seen, next, total, spent, round, todo, status,
                 lost>>

(* Variant of StartPolling: no time passes.                                *)
StartPollingFree ==
  /\ Going /\ mode = "working"
  /\ pc' = "poll" /\ todo' = active
  /\ UNCHANGED <<order, active, seen, next, total, spent, round, mode, tries,
                 status, lost>>

(* WORKING: the sleep, then a poll of each child.                          *)
StartPolling ==
  /\ Going /\ mode = "working"
  /\ round' = round + 1
  /\ pc' = "poll" /\ todo' = active
  /\ UNCHANGED <<order, active, seen, next, total, spent, mode, tries, status,
                 lost>>

-----------------------------------------------------------------------------
(* PLACING and REPLENISH.                                                  *)

Lesser(m, n) == IF m < n THEN m ELSE n

(* Variant of ThisQty: what rests already is not subtracted.               *)
ThisQtyBlind == Lesser(ChildQty, Remaining)

ThisQty == Lesser(ChildQty, Remaining - Unfilled)
Placing == pc = "place" /\ tries > 0 /\ ThisQty >= MinQty

Put(q, s) == order' = [order EXCEPT ![next] = [qty |-> q, filled |-> 0, state |-> s]]

(* The exchange has no order with the next link id yet; one still on its   *)
(* way is refused when another comes first.                                *)
Fresh == next \in Links /\ order[next].state \in {"unsent", "late"}

Accepted ==
  /\ Placing /\ Fresh
  /\ \E q \in MinQty..ChildQty : q = ThisQty /\ Put(q, "live")
  /\ active' = active \cup {next} /\ next' = next + 1
  /\ tries' = tries - 1
  /\ UNCHANGED <<seen, total, spent, round, mode, pc, todo, status, lost>>

Refused ==
  /\ Placing
  /\ tries' = tries - 1
  /\ UNCHANGED <<order, active, seen, next, total, spent, round, mode, pc, todo,
                 status, lost>>

(* The placement raises although the order is, or will be, there: the      *)
(* counter stays, so the next placement has the same link id.              *)
LostPlacement ==
  /\ Placing /\ Fresh
  /\ \E q \in MinQty..ChildQty, s \in {"live", "late"} : q = ThisQty /\ Put(q, s)
  /\ tries' = tries - 1 /\ lost' = lost \cup {"place"}
  /\ UNCHANGED <<active, seen, next, total, spent, round, mode, pc, todo, status>>

(* The pass is over: without any child the first pass aborts the run.      *)
Placed ==
  /\ pc = "place" /\ (tries = 0 \/ ThisQty < MinQty)
  /\ IF mode = "placing" /\ active = {}
       THEN mode' = "aborted" /\ pc' = "finalPoll" /\ todo' = {}
       ELSE mode' = "working" /\ pc' = "loop" /\ UNCHANGED todo
  /\ tries' = 0
  /\ UNCHANGED <<order, active, seen, next, total, spent, round, status, lost>>

-----------------------------------------------------------------------------
(* WORKING.                                                                *)

(* What the answer to a poll of k counts.                                  *)
Count(k) ==
  /\ total' = total + (order[k].filled - seen[k])
  /\ seen' = [seen EXCEPT ![k] = order[k].filled]

Uncounted == lost' = lost \cup {"status"} /\ UNCHANGED <<seen, total>>

(* Variant of Poll: what a cancelled child had filled is not counted.      *)
PollDrops(k) ==
  /\ pc = "poll"
  /\ \/ /\ IF order[k].state = "cancelled" THEN UNCHANGED <<seen, total>>
                                           ELSE Count(k)
        /\ active' = IF Done(k) THEN active \ {k} ELSE active
        /\ UNCHANGED lost
     \/ Uncounted /\ UNCHANGED active
  /\ todo' = todo \ {k}
  /\ UNCHANGED <<order, next, spent, round, mode, pc, tries, status>>

(* Variant of Poll: a child that is not found is dropped.                  *)
PollForgets(k) ==
  /\ pc = "poll"
  /\ \/ /\ Count(k)
        /\ active' = IF Done(k) THEN active \ {k} ELSE active
        /\ UNCHANGED lost
     \/ Uncounted /\ active' = active \ {k}
  /\ todo' = todo \ {k}
  /\ UNCHANGED <<order, next, spent, round, mode, pc, tries, status>>

(* One poll; the order of a pass does not matter.  A poll that raises is   *)
(* skipped; "Unknown" with nothing filled counts nothing and keeps the     *)
(* child.                                                                  *)
Poll(k) ==
  /\ pc = "poll"
  /\ \/ /\ Count(k)
        /\ active' = IF Done(k) THEN active \ {k} ELSE active
        /\ UNCHANGED lost
     \/ Uncounted /\ UNCHANGED active
  /\ todo' = todo \ {k}
  /\ UNCHANGED <<order, next, spent, round, mode, pc, tries, status>>

(* After the polls: done, without a cancel of the children that rest; or a *)
(* slot to fill again; or on to the book.                                  *)
Judge ==
  /\ pc = "poll" /\ todo = {}
  /\ \/ /\ Remaining < MinQty
        /\ mode' = "done" /\ pc' = "finalPoll" /\ todo' = active
     \/ /\ Remaining >= MinQty
        /\ Cardinality(active) < Slots /\ Remaining - Unfilled >= MinQty
        /\ mode' = "replenish" /\ pc' = "loop" /\ UNCHANGED todo
     \/ /\ Remaining >= MinQty
        /\ ~(Cardinality(active) < Slots /\ Remaining - Unfilled >= MinQty)
        /\ pc' = "book" /\ UNCHANGED <<mode, todo>>
  /\ UNCHANGED <<order, active, seen, next, total, spent, round, tries, status,
                 lost>>

(* The fresh book cannot be read: back to the head of the loop.            *)
BookUnread == pc' = "loop" /\ UNCHANGED <<mode, todo, spent>>

(* The price limit or the slippage of what is bought ends the run.         *)
Breached == CancelAll /\ mode' = "aborted" /\ UNCHANGED spent

(* Some resting children are amended to the price that the policy asks     *)
(* for, each against the budget.                                           *)
Reprice ==
  /\ \E A \in SUBSET {k \in active : order[k].state = "live"} :
       spent' = spent + Cardinality(A)
  /\ pc' = "loop" /\ UNCHANGED <<mode, todo>>

Guards ==
  /\ pc = "book"
  /\ BookUnread \/ Breached \/ Reprice
  /\ UNCHANGED <<order, active, seen, next, total, round, tries, status, lost>>

-----------------------------------------------------------------------------
(* _cancel_all_children, one call: the child is cancelled, is done         *)
(* already, or the call is lost; only a success is counted.                *)

(* Variant of CancelChild: a failed cancel stops the pass.                 *)
CancelStops(k) ==
  /\ pc = "cancel"
  /\ \/ /\ order[k].state = "live"
        /\ order' = [order EXCEPT ![k].state = "cancelled"]
        /\ spent' = spent + 1 /\ UNCHANGED lost
        /\ todo' = todo \ {k}
     \/ /\ order[k].state # "live"
        /\ todo' = {}
        /\ UNCHANGED <<order, spent, lost>>
     \/ /\ lost' = lost \cup {"cancel"}
        /\ todo' = {}
        /\ UNCHANGED <<order, spent>>
  /\ UNCHANGED <<active, seen, next, total, round, mode, pc, tries, status>>

CancelChild(k) ==
  /\ pc = "cancel"
  /\ \/ /\ order[k].state = "live"
        /\ order' = [order EXCEPT ![k].state = "cancelled"]
        /\ spent' = spent + 1 /\ UNCHANGED lost
     \/ /\ order[k].state # "live"
        /\ UNCHANGED <<order, spent, lost>>
     \/ /\ lost' = lost \cup {"cancel"}
        /\ UNCHANGED <<order, spent>>
  /\ todo' = todo \ {k}
  /\ UNCHANGED <<active, seen, next, total, round, mode, pc, tries, status>>

Cancelled ==
  /\ pc = "cancel" /\ todo = {}
  /\ pc' = "finalPoll" /\ todo' = active
  /\ UNCHANGED <<order, active, seen, next, total, spent, round, mode, tries,
                 status, lost>>

(* The last reconciliation of fills, and the result.                       *)
FinalPoll(k) ==
  /\ pc = "finalPoll"
  /\ (Count(k) /\ UNCHANGED lost) \/ Uncounted
  /\ todo' = todo \ {k}
  /\ UNCHANGED <<order, active, next, spent, round, mode, pc, tries, status>>

Finish ==
  /\ pc = "finalPoll" /\ todo = {}
  /\ pc' = "done"
  /\ status' = IF mode # "done" THEN "aborted"
               ELSE IF Remaining < MinQty THEN "done" ELSE "partial"
  /\ UNCHANGED <<order, active, seen, next, total, spent, round, mode, todo,
                 tries, lost>>

Engine ==
  \/ Start \/ Timeout \/ OutOfCancels \/ StartPlacing \/ Replenish \/ StartPolling
  \/ Accepted \/ Refused \/ LostPlacement \/ Placed
  \/ Judge \/ Guards \/ Cancelled \/ Finish
  \/ \E k \in todo : Poll(k) \/ CancelChild(k) \/ FinalPoll(k)

Next == Engine \/ Exchange

(* Every call of the client answers or times out after 10 s, the limiter   *)
(* refills: the engine always goes on.                                     *)
Spec == Init /\ [][Next]_vars /\ WF_vars(Engine)

-----------------------------------------------------------------------------
Orders == [qty : 0..ChildQty, filled : 0..ChildQty,
           state : {"unsent", "late", "live", "filled", "cancelled", "rejected"}]
Modes == {"idle", "placing", "working", "replenish", "done", "aborted"}
Places == {"start", "loop", "place", "poll", "book", "cancel", "finalPoll", "done"}

(* The program's values; a child's link id is below the counter.           *)
IcebergTypeOK ==
  /\ order \in [Links -> Orders]
  /\ active \subseteq Links /\ seen \in [Links -> 0..ChildQty]
  /\ next \in 0..MaxChildren
  /\ total \in Nat /\ spent \in Nat /\ round \in 0..MaxRounds
  /\ mode \in Modes /\ pc \in Places
  /\ todo \subseteq Links /\ tries \in 0..Slots
  /\ status \in {"aborted", "partial", "done"}
  /\ lost \subseteq {"place", "status", "cancel"}

Bought == SumFunction([k \in Links |-> order[k].filled])
Resting == SumFunction([k \in Links |->
             IF Open(k) THEN order[k].qty - order[k].filled ELSE 0])

(* The run keeps the promise of a parent order.  It is never overfilled:   *)
(* what Bybit has executed and what it may still execute stay within       *)
(* total_qty, whatever placements, polls and cancels were lost and however *)
(* often children ended and were replenished (the link id of a lost        *)
(* placement is used again, which keeps its child from being placed        *)
(* twice).  And nothing new is exposed after the result is returned.       *)
Parent == INSTANCE ParentOrder WITH
  executed <- Bought, exposed <- Resting, over <- (pc = "done")
ParentSpec == Parent!Spec

(* At most one order of the run works out of sight of the code, and it has *)
(* the link id of the next placement: every other order that may still be  *)
(* filled is an active child.                                              *)
OneStray == \A k \in Links : Open(k) => k \in active \/ k = next

(* "Keeps max_active_children visible at a time": but for such a stray, no *)
(* more orders rest at the exchange, whatever was lost.                    *)
Visible == Cardinality({k \in Links : Open(k)} \ {next}) <= Slots

(* What the code counts as filled, and reports, Bybit has executed.  With  *)
(* no lost call, the result tells the caller of everything the run has     *)
(* executed, and of all it may still execute but for less than the         *)
(* smallest order.                                                         *)
ReportCovers ==
  /\ total <= Bought
  /\ pc = "done" /\ lost = {} => Bought + Resting - total < MinQty

(* A run stopped by the clock, the budget of cancels, the price limit or   *)
(* the slippage leaves no order behind, unless a placement or a cancel was *)
(* lost: no fill comes after the result.                                   *)
Stopped == pc = "done" /\ status # "done"
StoppedLeavesNothing ==
  Stopped /\ lost \cap {"place", "cancel"} = {} =>
    \A k \in Links : ~Open(k)

(* Amendments and cancels stay near max_cancels: the budget is exceeded by *)
(* at most one pass of amendments and the cancels that end the run.        *)
BudgetKept == spent = 0 \/ spent < MaxCancels + 2 * Slots

(* The run returns: no sequence of failed placements, unreadable books and *)
(* ended children keeps it going past its runtime.                         *)
Returns == <>(pc = "done")

=============================================================================
