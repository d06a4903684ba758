----------------------------- MODULE MakerProofs -----------------------------
(***************************************************************************)
(* Proofs about the maker engine: its values keep their types and it never *)
(* reports a unit Bybit did not execute, for every target, minimum and     *)
(* number of turns.                                                        *)
(*                                                                         *)
(* The argument: every order counts only fills that are also in bought     *)
(* (OrdersCounted), so an answer about any of them bounds the total        *)
(* (TotalsCounted), whichever order it is about.  The types need that a    *)
(* working order has room for one more fill and that the loop keeps a      *)
(* current order and something to buy (LoopOpen).                          *)
(*                                                                         *)
(* The second half follows the totals of a run with one order (Totals) and *)
(* what may be left working (Tidy); the end counts the calls left.         *)
(***************************************************************************)
EXTENDS MakerEngine, TLAPS

OrderType == [qty : 0..Target, filled : 0..Target, state : States]

Works(r) == r.state \in {"live", "late"} => r.filled < r.qty

(* What the invariant says of the exchange's orders.                       *)
Orders ==
  /\ order \in [OrderIds -> OrderType]
  /\ bought \in Nat
  /\ \A o \in OrderIds : Works(order[o])

OrdersCounted == \A o \in OrderIds : order[o].filled <= bought

Loop == {"turn", "poll", "book", "amend", "recheck", "cancelOld", "replace", "finish"}

LoopOpen ==
  /\ pc \in Loop => cur \in OrderIds /\ Target - total >= MinQty
  /\ pc = "finalPoll" => cur \in OrderIds
  /\ pc \in {"place", "placeAgain"} => total = 0

TotalsCounted == "market" \notin lost => total <= bought /\ reported <= bought

(* The part of the type invariant that is about the engine.                *)
EngineTypes ==
  /\ pc \in Places /\ turn \in 0..MaxTurns
  /\ cur \in {NoOrder} \cup OrderIds
  /\ prev \in 0..Target /\ total \in 0..Target
  /\ status \in Statuses /\ shifts \in 0..2 /\ reported \in 0..Target
  /\ lost \subseteq Calls

MakerInv == Orders /\ OrdersCounted /\ EngineTypes /\ LoopOpen /\ TotalsCounted

-----------------------------------------------------------------------------
(* The order book of the exchange.                                         *)

(* Replacing one order by a record of the type keeps Orders when the       *)
(* record has room for its fills.                                          *)
LEMMA OrderReplaced ==
  ASSUME Orders, NEW o \in OrderIds, NEW r \in OrderType, Works(r),
         order' = [order EXCEPT ![o] = r], bought' \in Nat
  PROVE  Orders'
BY DEF Orders, Works

LEMMA OrderReplacedCounted ==
  ASSUME Orders, OrdersCounted, NEW o \in OrderIds, NEW r \in OrderType,
         order' = [order EXCEPT ![o] = r],
         r.filled <= bought', bought' \in Nat, bought' >= bought
  PROVE  OrdersCounted'
<1> USE DEF Orders, OrdersCounted
<1> SUFFICES ASSUME NEW p \in OrderIds PROVE order'[p].filled <= bought'
  OBVIOUS
<1>1. CASE p = o
  BY <1>1
<1>2. CASE p # o
  <2>1. order'[p] = order[p]
    BY <1>2
  <2>2. order[p].filled \in 0..Target /\ order[p].filled <= bought
    BY DEF OrderType
  <2> QED
    BY <2>1, <2>2, MakerAssumption
<1> QED
  BY <1>1, <1>2

LEMMA SameOrders ==
  ASSUME Orders, OrdersCounted, order' = order, bought' \in Nat, bought' >= bought
  PROVE  Orders' /\ OrdersCounted'
<1>1. Orders'
  BY DEF Orders, Works
<1>2. ASSUME NEW p \in OrderIds PROVE order'[p].filled <= bought'
  <2>1. order[p].filled \in 0..Target /\ order[p].filled <= bought
    BY DEF Orders, OrdersCounted, OrderType
  <2> QED
    BY <2>1, MakerAssumption DEF Orders
<1> QED
  BY <1>1, <1>2 DEF OrdersCounted

(* Setting one field is replacing the record.                              *)
LEMMA StateSet ==
  ASSUME Orders, OrdersCounted, NEW o \in OrderIds, NEW s \in States,
         order[o].state = "late" \/ s \notin {"live", "late"},
         order' = [order EXCEPT ![o].state = s], bought' = bought
  PROVE  Orders' /\ OrdersCounted'
<1> DEFINE r == [order[o] EXCEPT !.state = s]
<1>1. order[o] \in OrderType /\ Works(order[o]) /\ order[o].filled <= bought
  BY DEF Orders, OrdersCounted
<1>2. r \in OrderType /\ Works(r) /\ r.filled <= bought
  BY <1>1 DEF OrderType, Works
<1>3. order' = [order EXCEPT ![o] = r]
  BY DEF Orders
<1>4. bought' \in Nat /\ bought' >= bought
  BY DEF Orders
<1> HIDE DEF r
<1> QED
  BY <1>2, <1>3, <1>4, OrderReplaced, OrderReplacedCounted

LEMMA CancelKeeps ==
  ASSUME Orders, OrdersCounted, NEW o \in OrderIds, Cancel(o), bought' = bought
  PROVE  Orders' /\ OrdersCounted' /\ lost' \in {lost, lost \cup {"cancel"}}
<1>1. CASE order[o].state = "live" /\ order' = [order EXCEPT ![o].state = "cancelled"]
           /\ UNCHANGED lost
  BY <1>1, StateSet DEF States
<1>2. CASE order' = order /\ lost' \in {lost, lost \cup {"cancel"}}
  <2>1. bought' \in Nat /\ bought' >= bought
    BY DEF Orders
  <2> QED
    BY <1>2, <2>1, SameOrders
<1> QED
  BY <1>1, <1>2 DEF Cancel

LEMMA AcceptedKeeps ==
  ASSUME Orders, OrdersCounted, NEW q \in 1..Target, NEW s \in {"live", "late"},
         turn \in 0..MaxTurns, Accepted(q, s), bought' = bought
  PROVE  Orders' /\ OrdersCounted' /\ NextId \in OrderIds
<1> DEFINE r == [qty |-> q, filled |-> 0, state |-> s]
<1>1. NextId \in OrderIds
  BY MakerAssumption DEF NextId, OrderIds
<1>2. r \in OrderType /\ Works(r) /\ r.filled = 0
  BY MakerAssumption DEF OrderType, Works, States
<1>3. order' = [order EXCEPT ![NextId] = r]
  BY DEF Accepted
<1>4. bought' \in Nat /\ bought' >= bought /\ 0 <= bought'
  BY DEF Orders
<1> HIDE DEF r
<1> QED
  BY <1>1, <1>2, <1>3, <1>4, OrderReplaced, OrderReplacedCounted

LEMMA AmendedKeeps ==
  ASSUME Orders, OrdersCounted, cur \in OrderIds, total \in 0..Target,
         CanAmend, Amended, bought' = bought
  PROVE  Orders' /\ OrdersCounted'
<1> DEFINE r == [order[cur] EXCEPT !.qty = Remaining]
<1>1. order[cur] \in OrderType /\ order[cur].filled <= bought
  BY DEF Orders, OrdersCounted
<1>2. Remaining \in 0..Target /\ order[cur].filled < Remaining
  BY MakerAssumption DEF Remaining, CanAmend
<1>3. r \in OrderType /\ Works(r) /\ r.filled <= bought
  BY <1>1, <1>2 DEF OrderType, Works
<1>4. order' = [order EXCEPT ![cur] = r]
  BY DEF Orders, Amended
<1>5. bought' \in Nat /\ bought' >= bought
  BY DEF Orders
<1> HIDE DEF r
<1> QED
  BY <1>3, <1>4, <1>5, OrderReplaced, OrderReplacedCounted

LEMMA FillKeeps ==
  ASSUME Orders, OrdersCounted, NEW o \in OrderIds, Fill(o)
  PROVE  Orders' /\ OrdersCounted' /\ bought' = bought + 1
<1> DEFINE r == [qty |-> order[o].qty, filled |-> order[o].filled + 1,
                 state |-> IF order[o].filled + 1 = order[o].qty THEN "filled" ELSE "live"]
<1>1. order[o] \in OrderType /\ Works(order[o]) /\ order[o].filled <= bought
  BY DEF Orders, OrdersCounted
<1>2. order[o].state = "live" /\ bought' = bought + 1
  BY DEF Fill
<1>3. order[o].filled \in 0..Target /\ order[o].qty \in 0..Target /\ order[o].filled < order[o].qty
  BY <1>1, <1>2 DEF OrderType, Works
<1>4. r \in OrderType /\ Works(r) /\ r.filled = order[o].filled + 1
  BY <1>3, MakerAssumption DEF OrderType, Works, States
<1>5. order' = [order EXCEPT ![o] = r]
  BY <1>1 DEF Orders, Fill, OrderType
<1>6. bought' \in Nat /\ bought' >= bought /\ order[o].filled + 1 <= bought'
  BY <1>1, <1>2, <1>3 DEF Orders
<1> HIDE DEF r
<1> QED
  BY <1>2, <1>4, <1>5, <1>6, OrderReplaced, OrderReplacedCounted

-----------------------------------------------------------------------------
(* What an answer of get_order_status is worth.                            *)
LEMMA AnswersCounted ==
  ASSUME Orders, OrdersCounted, cur \in OrderIds, NEW a \in Answers
  PROVE  a.filled \in 0..Target /\ a.filled <= bought
<1>1. order[cur] \in OrderType /\ order[cur].filled <= bought /\ bought \in Nat
  BY DEF Orders, OrdersCounted
<1>2. Unknown.filled = 0
  BY DEF Unknown
<1>3. CASE a = Unknown
  BY <1>1, <1>2, <1>3, MakerAssumption
<1>4. CASE a = [filled |-> order[cur].filled, state |-> order[cur].state]
  BY <1>1, <1>4 DEF OrderType
<1> QED
  BY <1>3, <1>4 DEF Answers

-----------------------------------------------------------------------------
LEMMA InitInv == MakerInit => MakerInv
<1> SUFFICES ASSUME MakerInit PROVE MakerInv
  OBVIOUS
<1> USE MakerAssumption DEF MakerInit
<1>1. Unsent \in OrderType /\ Works(Unsent) /\ Unsent.filled = 0
  BY DEF Unsent, OrderType, Works, States
<1>2. Orders /\ OrdersCounted
  BY <1>1 DEF Orders, OrdersCounted
<1>3. EngineTypes
  <2>1. 0 \in 0..Target /\ 0 \in 0..MaxTurns /\ 0 \in 0..3
    OBVIOUS
  <2>2. lost \subseteq Calls
    OBVIOUS
  <2> QED
    BY <2>1, <2>2 DEF EngineTypes, Places, Statuses, NoOrder
<1>4. LoopOpen /\ TotalsCounted
  BY DEF LoopOpen, TotalsCounted, Loop
<1> QED
  BY <1>2, <1>3, <1>4 DEF MakerInv

LEMMA ExchangeKeeps == MakerInv /\ Exchange => MakerInv'
<1> SUFFICES ASSUME MakerInv, NEW o \in OrderIds,
                    Fill(o) \/ ExchangeCancel(o) \/ Arrive(o)
             PROVE  MakerInv'
  BY DEF Exchange
<1> USE DEF MakerInv
<1>1. Orders' /\ OrdersCounted' /\ bought' \in {bought, bought + 1}
  <2>1. CASE Fill(o)
    BY <2>1, FillKeeps
  <2>2. CASE ExchangeCancel(o)
    BY <2>2, StateSet DEF ExchangeCancel, States
  <2>3. CASE Arrive(o)
    BY <2>3, StateSet DEF Arrive, States
  <2> QED
    BY <2>1, <2>2, <2>3
<1>2. UNCHANGED <<pc, turn, cur, prev, total, status, shifts, reported, lost>>
  BY DEF Fill, ExchangeCancel, Arrive
<1>3. EngineTypes' /\ LoopOpen'
  BY <1>2 DEF EngineTypes, LoopOpen
<1>4. TotalsCounted'
  BY <1>1, <1>2, MakerAssumption DEF TotalsCounted, EngineTypes, Orders
<1> QED
  BY <1>1, <1>3, <1>4

(* A step of the engine that leaves the totals alone.                      *)
LEMMA TotalsKept ==
  ASSUME MakerInv, bought' = bought, total' = total, reported' \in {reported, total, 0},
         lost \subseteq lost'
  PROVE  TotalsCounted'
<1>1. bought \in Nat
  BY DEF MakerInv, Orders
<1> QED
  BY <1>1 DEF MakerInv, TotalsCounted

LEMMA PlaceKeeps == MakerInv /\ Place => MakerInv'
<1> SUFFICES ASSUME MakerInv, Place PROVE MakerInv'
  OBVIOUS
<1> USE DEF MakerInv
<1>1. Target \in 1..Target /\ turn \in 0..MaxTurns /\ bought' = bought
  BY MakerAssumption DEF EngineTypes, Place
<1>2. Orders' /\ OrdersCounted' /\ cur' \in {cur} \cup OrderIds
  <2>1. CASE order' = order /\ cur' = cur
    <3>1. bought' \in Nat /\ bought' >= bought
      BY <1>1 DEF Orders
    <3> QED
      BY <2>1, <3>1, SameOrders
  <2>2. CASE \E s \in {"live", "late"} : Accepted(Target, s) /\ cur' \in {cur, NextId}
    BY <1>1, <2>2, AcceptedKeeps
  <2> QED
    BY <2>1, <2>2 DEF Place
<1>3. lost' \in {lost, lost \cup {"place"}} /\ total' = total /\ reported' = reported
  BY DEF Place
<1>4. TotalsCounted'
  BY <1>1, <1>3, TotalsKept
<1>5. EngineTypes'
  BY <1>2, <1>3 DEF EngineTypes, Place, Places, Calls
<1>6. pc' = "turn" => cur' \in OrderIds
  <2>1. CASE pc' = "turn"
    <3>1. Accepted(Target, "live") /\ cur' = NextId
      BY <2>1 DEF Place
    <3> QED
      BY <1>1, <3>1, AcceptedKeeps
  <2> QED
    BY <2>1
<1>7. LoopOpen'
  <2>1. total' = 0 /\ pc' \in {"turn", "placeAgain", "except"}
    BY DEF Place, LoopOpen
  <2> QED
    BY <2>1, <1>6, MakerAssumption DEF LoopOpen, Loop
<1> QED
  BY <1>2, <1>4, <1>5, <1>7

LEMMA TurnKeeps == MakerInv /\ Turn => MakerInv'
<1> SUFFICES ASSUME MakerInv, Turn PROVE MakerInv'
  OBVIOUS
<1> USE DEF MakerInv, Turn, exchangeVars
<1>1. Orders' /\ OrdersCounted'
  BY SameOrders DEF Orders
<1>2. TotalsCounted'
  BY TotalsKept
<1>3. EngineTypes'
  BY MakerAssumption DEF EngineTypes, Places
<1>4. LoopOpen'
  BY DEF LoopOpen, Loop
<1> QED
  BY <1>1, <1>2, <1>3, <1>4

LEMMA RaiseKeeps == MakerInv /\ StatusRaises => MakerInv'
<1> SUFFICES ASSUME MakerInv, StatusRaises PROVE MakerInv'
  OBVIOUS
<1> USE DEF MakerInv, StatusRaises
<1>1. Orders' /\ OrdersCounted'
  BY SameOrders DEF Orders
<1>2. TotalsCounted'
  BY TotalsKept
<1>3. EngineTypes'
  BY DEF EngineTypes, Places, Calls
<1>4. LoopOpen'
  BY DEF LoopOpen, Loop
<1> QED
  BY <1>1, <1>2, <1>3, <1>4

LEMMA PollKeeps == MakerInv /\ Poll => MakerInv'
<1> SUFFICES ASSUME MakerInv, Poll PROVE MakerInv'
  OBVIOUS
<1> USE DEF MakerInv
<1>1. PICK a \in Answers :
        /\ Note(a)
        /\ total' = IF a.filled > prev THEN a.filled ELSE total
        /\ prev' = Larger(prev, a.filled)
        /\ IF a.state = "filled" \/ Target - total' < MinQty
             THEN Return("filled", total')
             ELSE pc' = "book" /\ UNCHANGED <<status, reported>>
  BY DEF Poll
<1>2. cur \in OrderIds /\ pc = "poll"
  BY DEF Poll, LoopOpen, Loop
<1>3. a.filled \in 0..Target /\ a.filled <= bought
  BY <1>2, AnswersCounted
<1>4. UNCHANGED <<order, bought, turn, cur, shifts>> /\ lost' \in {lost, lost \cup {"status"}}
  BY <1>1 DEF Poll, exchangeVars, Note
<1>5. Orders' /\ OrdersCounted'
  BY <1>4, SameOrders DEF Orders
<1>6. total' \in {total, a.filled} /\ reported' \in {reported, total'}
  BY <1>1 DEF Return
<1>7. TotalsCounted'
  BY <1>3, <1>4, <1>6 DEF TotalsCounted
<1>8. /\ prev' \in {prev, a.filled}
      /\ pc' \in {"done", "book"} /\ status' \in {status, "filled"}
  BY <1>1 DEF Return, Larger
<1>9. EngineTypes'
  <2>1. total' \in 0..Target /\ prev' \in 0..Target /\ reported' \in 0..Target
    BY <1>3, <1>6, <1>8 DEF EngineTypes
  <2>2. lost' \subseteq Calls
    BY <1>4 DEF EngineTypes, Calls
  <2>3. pc' \in Places /\ status' \in Statuses
    BY <1>8 DEF EngineTypes, Places, Statuses
  <2> QED
    BY <1>4, <2>1, <2>2, <2>3 DEF EngineTypes
<1>10. pc' = "book" => Target - total' >= MinQty
  <2>1. total' \in 0..Target
    BY <1>3, <1>6 DEF EngineTypes
  <2> QED
    BY <1>1, <2>1, MakerAssumption DEF Return
<1>11. LoopOpen'
  BY <1>2, <1>4, <1>8, <1>10 DEF LoopOpen, Loop
<1> QED
  BY <1>5, <1>7, <1>9, <1>11

LEMMA BookKeeps == MakerInv /\ Book => MakerInv'
<1> SUFFICES ASSUME MakerInv, Book PROVE MakerInv'
  OBVIOUS
<1> USE DEF MakerInv, Book, exchangeVars
<1>1. Orders' /\ OrdersCounted'
  BY SameOrders DEF Orders
<1>2. TotalsCounted'
  BY TotalsKept
<1>3. EngineTypes'
  <2>1. /\ pc' \in Places /\ status' \in Statuses /\ shifts' \in 0..3
        /\ UNCHANGED <<turn, cur, prev, total, reported, lost>>
    BY DEF EngineTypes, Places, Statuses
  <2> QED
    BY <2>1 DEF EngineTypes
<1>4. LoopOpen'
  BY DEF LoopOpen, Loop
<1> QED
  BY <1>1, <1>2, <1>3, <1>4

LEMMA AmendKeeps == MakerInv /\ Amend => MakerInv'
<1> SUFFICES ASSUME MakerInv, Amend PROVE MakerInv'
  OBVIOUS
<1> USE DEF MakerInv
<1>1. /\ cur \in OrderIds /\ Target - total >= MinQty
      /\ UNCHANGED <<bought, turn, cur, prev, total, status, reported>>
      /\ lost' \in {lost, lost \cup {"status"}}
      /\ pc' \in {"turn", "amend", "recheck", "cancelOld"}
      /\ shifts' \in 0..2
      /\ order' = order \/ (CanAmend /\ Amended)
  BY DEF Amend, LoopOpen, Loop, EngineTypes
<1>2. Orders' /\ OrdersCounted'
  <2>1. CASE order' = order
    BY <1>1, <2>1, SameOrders DEF Orders
  <2>2. CASE CanAmend /\ Amended
    BY <1>1, <2>2, AmendedKeeps DEF EngineTypes
  <2> QED
    BY <1>1, <2>1, <2>2
<1>3. TotalsCounted'
  BY <1>1, TotalsKept
<1>4. EngineTypes'
  BY <1>1 DEF EngineTypes, Places, Calls
<1>5. LoopOpen'
  BY <1>1 DEF LoopOpen, Loop, EngineTypes
<1> QED
  BY <1>2, <1>3, <1>4, <1>5
LEMMA RecheckKeeps == MakerInv /\ Recheck => MakerInv'
<1> SUFFICES ASSUME MakerInv, Recheck PROVE MakerInv'
  OBVIOUS
<1> USE DEF MakerInv
<1>1. PICK a \in Answers :
        /\ Note(a)
        /\ \/ total' = a.filled /\ Return("filled", total')
           \/ pc' = "turn" /\ UNCHANGED <<total, status, reported>>
  BY DEF Recheck
<1>2. /\ cur \in OrderIds /\ Target - total >= MinQty
      /\ UNCHANGED <<order, bought, turn, cur, prev, shifts>>
      /\ lost' \in {lost, lost \cup {"status"}}
  BY <1>1 DEF Recheck, LoopOpen, Loop, exchangeVars, Note
<1>3. a.filled \in 0..Target /\ a.filled <= bought
  BY <1>2, AnswersCounted
<1>4. \/ total' = total /\ UNCHANGED <<status, reported>> /\ pc' = "turn"
      \/ total' = a.filled /\ reported' = a.filled /\ status' = "filled" /\ pc' = "done"
  BY <1>1 DEF Return
<1>5. Orders' /\ OrdersCounted'
  BY <1>2, SameOrders DEF Orders
<1>6. TotalsCounted'
  BY <1>2, <1>3, <1>4 DEF TotalsCounted
<1>7. EngineTypes'
  <2>1. total' \in 0..Target /\ reported' \in 0..Target
    BY <1>3, <1>4 DEF EngineTypes
  <2>2. lost' \subseteq Calls
    BY <1>2 DEF EngineTypes, Calls
  <2> QED
    BY <1>2, <1>4, <2>1, <2>2 DEF EngineTypes, Places, Statuses
<1>8. LoopOpen'
  BY <1>2, <1>4 DEF LoopOpen, Loop
<1> QED
  BY <1>5, <1>6, <1>7, <1>8

(* CancelOld and FinalCancel.                                              *)
LEMMA CancelStepKeeps ==
  ASSUME MakerInv, pc \in Loop, Cancel(cur), pc' \in {"replace", "finalPoll"},
         UNCHANGED <<bought, turn, cur, prev, total, status, shifts, reported>>
  PROVE  MakerInv'
<1> USE DEF MakerInv
<1>1. cur \in OrderIds /\ Target - total >= MinQty
  BY DEF LoopOpen
<1>2. Orders' /\ OrdersCounted' /\ lost' \in {lost, lost \cup {"cancel"}}
  BY <1>1, CancelKeeps
<1>3. TotalsCounted'
  BY <1>2, TotalsKept
<1>4. EngineTypes'
  BY <1>2 DEF EngineTypes, Places, Calls
<1>5. LoopOpen'
  BY <1>1 DEF LoopOpen, Loop
<1> QED
  BY <1>2, <1>3, <1>4, <1>5

LEMMA ReplaceKeeps == MakerInv /\ Replace => MakerInv'
<1> SUFFICES ASSUME MakerInv, Replace PROVE MakerInv'
  OBVIOUS
<1> USE DEF MakerInv
<1>1. /\ cur \in OrderIds /\ Target - total >= MinQty
      /\ turn \in 0..MaxTurns /\ total \in 0..Target
  BY DEF Replace, LoopOpen, Loop, EngineTypes
<1>2. Remaining \in 1..Target
  BY <1>1, MakerAssumption DEF Remaining
<1>3. /\ UNCHANGED <<bought, turn, prev, total, status, shifts, reported>>
      /\ pc' = "turn" /\ lost' \in {lost, lost \cup {"place"}}
      /\ cur' \in {cur, NextId}
      /\ \/ order' = order /\ cur' = cur
         \/ \E s \in {"live", "late"} : Accepted(Remaining, s)
  BY DEF Replace
<1>4. Orders' /\ OrdersCounted' /\ cur' \in OrderIds
  <2>1. CASE order' = order /\ cur' = cur
    BY <1>1, <1>3, <2>1, SameOrders DEF Orders
  <2>2. CASE \E s \in {"live", "late"} : Accepted(Remaining, s)
    BY <1>1, <1>2, <1>3, <2>2, AcceptedKeeps
  <2> QED
    BY <1>3, <2>1, <2>2
<1>5. TotalsCounted'
  BY <1>3, TotalsKept
<1>6. EngineTypes'
  BY <1>3, <1>4 DEF EngineTypes, Places, Calls
<1>7. LoopOpen'
  BY <1>1, <1>3, <1>4 DEF LoopOpen, Loop
<1> QED
  BY <1>4, <1>5, <1>6, <1>7

LEMMA FinalPollKeeps == MakerInv /\ FinalPoll => MakerInv'
<1> SUFFICES ASSUME MakerInv, FinalPoll PROVE MakerInv'
  OBVIOUS
<1> USE DEF MakerInv
<1>1. PICK a \in Answers : Note(a) /\ total' = Larger(total, a.filled)
  BY DEF FinalPoll
<1>2. /\ cur \in OrderIds
      /\ UNCHANGED <<order, bought, turn, cur, prev, shifts>>
      /\ lost' \in {lost, lost \cup {"status"}}
  BY <1>1 DEF FinalPoll, LoopOpen, exchangeVars, Note
<1>3. a.filled \in 0..Target /\ a.filled <= bought
  BY <1>2, AnswersCounted
<1>4. total' \in {total, a.filled}
  BY <1>1 DEF Larger
<1>5. /\ pc' \in {"done", "market"}
      /\ reported' \in {reported, total'}
      /\ status' \in {status, "partial", "aborted"}
  BY DEF FinalPoll, Return, Unfinished
<1>6. Orders' /\ OrdersCounted'
  BY <1>2, SameOrders DEF Orders
<1>7. TotalsCounted'
  BY <1>2, <1>3, <1>4, <1>5 DEF TotalsCounted
<1>8. EngineTypes'
  <2>1. total' \in 0..Target /\ reported' \in 0..Target
    BY <1>3, <1>4, <1>5 DEF EngineTypes
  <2>2. lost' \subseteq Calls
    BY <1>2 DEF EngineTypes, Calls
  <2> QED
    BY <1>2, <1>5, <2>1, <2>2 DEF EngineTypes, Places, Statuses
<1>9. LoopOpen'
  BY <1>5 DEF LoopOpen, Loop
<1> QED
  BY <1>6, <1>7, <1>8, <1>9

LEMMA MarketKeeps == MakerInv /\ Market => MakerInv'
<1> SUFFICES ASSUME MakerInv, Market PROVE MakerInv'
  OBVIOUS
<1> USE DEF MakerInv
<1>1. total \in 0..Target /\ reported \in 0..Target /\ bought \in Nat
  BY DEF EngineTypes, Orders
<1>2. Remaining \in 0..Target /\ total + Remaining = Target
  BY <1>1, MakerAssumption DEF Remaining
<1>3. PICK got \in 0..Remaining :
        /\ bought' = bought + got
        /\ \/ /\ total' = total + Remaining
              /\ Return("market_fallback", total')
              /\ lost' = IF got = Remaining THEN lost ELSE lost \cup {"market"}
           \/ /\ Return(Unfinished(total), total)
              /\ lost' = IF got = 0 THEN lost ELSE lost \cup {"market"}
              /\ UNCHANGED total
  BY DEF Market
<1>4. UNCHANGED <<order, turn, cur, prev, shifts>>
  BY DEF Market
<1>5. Orders' /\ OrdersCounted'
  BY <1>1, <1>2, <1>3, <1>4, SameOrders
<1>6. /\ total' \in 0..Target /\ reported' = total'
      /\ pc' = "done" /\ status' \in Statuses
      /\ lost' \in {lost, lost \cup {"market"}}
  BY <1>1, <1>2, <1>3, MakerAssumption DEF Return, Unfinished, Statuses
<1>7. TotalsCounted'
  <2>1. CASE total' = total
    BY <1>1, <1>2, <1>3, <1>6, <2>1 DEF TotalsCounted
  <2>2. CASE total' = total + Remaining /\ "market" \notin lost'
    <3>1. lost' = IF got = Remaining \/ got = 0 THEN lost ELSE lost \cup {"market"}
      BY <1>3, <2>2
    <3> QED
      BY <1>1, <1>2, <1>3, <1>6, <2>2 DEF TotalsCounted
  <2> QED
    BY <1>3, <2>1, <2>2 DEF TotalsCounted
<1>8. EngineTypes'
  <2>1. lost' \subseteq Calls
    BY <1>6 DEF EngineTypes, Calls
  <2> QED
    BY <1>4, <1>6, <2>1 DEF EngineTypes, Places
<1>9. LoopOpen'
  BY <1>6 DEF LoopOpen, Loop
<1> QED
  BY <1>5, <1>7, <1>8, <1>9

LEMMA AbortKeeps == MakerInv /\ Abort => MakerInv'
<1> SUFFICES ASSUME MakerInv, Abort PROVE MakerInv'
  OBVIOUS
<1> USE DEF MakerInv
<1>1. /\ UNCHANGED <<bought, turn, cur, prev, total, shifts>>
      /\ pc' = "done" /\ status' = "aborted" /\ reported' = 0
  BY DEF Abort, Return
<1>2. Orders' /\ OrdersCounted' /\ lost' \in {lost, lost \cup {"cancel"}}
  <2>1. CASE cur = NoOrder
    BY <1>1, <2>1, SameOrders DEF Abort, Orders
  <2>2. CASE cur # NoOrder
    BY <1>1, <2>2, CancelKeeps DEF Abort, EngineTypes
  <2> QED
    BY <2>1, <2>2
<1>3. TotalsCounted'
  BY <1>1, <1>2, TotalsKept
<1>4. EngineTypes'
  <2>1. lost' \subseteq Calls
    BY <1>2 DEF EngineTypes, Calls
  <2> QED
    BY <1>1, <2>1, MakerAssumption DEF EngineTypes, Places, Statuses
<1>5. LoopOpen'
  BY <1>1 DEF LoopOpen, Loop
<1> QED
  BY <1>2, <1>3, <1>4, <1>5

LEMMA StutterKeeps == MakerInv /\ UNCHANGED makerVars => MakerInv'
<1> SUFFICES ASSUME MakerInv, UNCHANGED makerVars PROVE MakerInv'
  OBVIOUS
<1> USE DEF MakerInv, makerVars
<1>1. Orders' /\ OrdersCounted'
  BY SameOrders DEF Orders
<1>2. EngineTypes' /\ LoopOpen'
  BY DEF EngineTypes, LoopOpen
<1>3. TotalsCounted'
  BY TotalsKept
<1> QED
  BY <1>1, <1>2, <1>3

LEMMA EngineKeeps == MakerInv /\ Engine => MakerInv'
<1> SUFFICES ASSUME MakerInv, Engine PROVE MakerInv'
  OBVIOUS
<1>1. CASE Place
  BY <1>1, PlaceKeeps
<1>2. CASE Turn
  BY <1>2, TurnKeeps
<1>3. CASE Poll
  BY <1>3, PollKeeps
<1>4. CASE PollRaises \/ RecheckRaises \/ FinalPollRaises
  BY <1>4, RaiseKeeps DEF PollRaises, RecheckRaises, FinalPollRaises
<1>5. CASE Book
  BY <1>5, BookKeeps
<1>6. CASE Amend
  BY <1>6, AmendKeeps
<1>7. CASE Recheck
  BY <1>7, RecheckKeeps
<1>8. CASE CancelOld
  BY <1>8, CancelStepKeeps DEF CancelOld, Loop
<1>9. CASE Replace
  BY <1>9, ReplaceKeeps
<1>10. CASE FinalCancel
  BY <1>10, CancelStepKeeps DEF FinalCancel, Loop
<1>11. CASE FinalPoll
  BY <1>11, FinalPollKeeps
<1>12. CASE Market
  BY <1>12, MarketKeeps
<1>13. CASE Abort
  BY <1>13, AbortKeeps
<1> QED
  BY <1>1, <1>2, <1>3, <1>4, <1>5, <1>6, <1>7, <1>8, <1>9, <1>10, <1>11, <1>12,
     <1>13 DEF Engine

LEMMA MakerStep == MakerInv /\ [MakerNext]_makerVars => MakerInv'
BY EngineKeeps, ExchangeKeeps, StutterKeeps DEF MakerNext

LEMMA MakerInvImplies == MakerInv => MakerTypeOK /\ ReportedWasBought
<1> SUFFICES ASSUME MakerInv PROVE MakerTypeOK /\ ReportedWasBought
  OBVIOUS
<1>1. MakerTypeOK
  BY DEF MakerInv, Orders, OrderType, EngineTypes, MakerTypeOK
<1>2. ReportedWasBought
  BY DEF MakerInv, TotalsCounted, ReportedWasBought
<1> QED
  BY <1>1, <1>2

(* The values of the maker engine keep their types, whatever the exchange  *)
(* does and whichever calls are lost.                                      *)
THEOREM MakerTyped == MakerSpec => []MakerTypeOK
<1>1. MakerSpec => []MakerInv
  BY InitInv, MakerStep, PTL DEF MakerSpec
<1> QED
  BY <1>1, MakerInvImplies, PTL

(* The filled_qty the engine returns is never more than Bybit executed     *)
(* for it, unless the IOC fallback was taken at its word.                  *)
THEOREM ReportsAreReal == MakerSpec => []ReportedWasBought
<1>1. MakerSpec => []MakerInv
  BY InitInv, MakerStep, PTL DEF MakerSpec
<1> QED
  BY <1>1, MakerInvImplies, PTL

-----------------------------------------------------------------------------
(* What rests at the exchange, and what the result says of a simple run:   *)
(* less than MinQty of the engine rests after it has returned, and nothing *)
(* if it did not report "filled"; with one order and no lost call it       *)
(* neither overfills nor reports anything but what was bought by then.     *)
(*                                                                         *)
(* The argument: without lost placements and cancellations only the        *)
(* current order can be live, and every path to "done" has seen it filled  *)
(* up to less than MinQty, cancelled it or cancels it (Tidy).  With one    *)
(* order, bought is its fills until the market order, and the totals       *)
(* follow them until the engine returns (Totals, Final); that the          *)
(* order is still the first one needs that it was sent (CurSent) and that  *)
(* a replacement takes an id above 1 (Fresh).                              *)

InTurn == {"poll", "book", "amend", "recheck", "cancelOld", "replace"}

Fresh ==
  /\ pc \in {"place", "placeAgain"} =>
       /\ bought = 0 /\ prev = 0 /\ turn = 0 /\ cur = NoOrder
       /\ \A o \in OrderIds : order[o].state = "unsent"
  /\ pc \in InTurn => turn >= 1

CurSent == cur \in OrderIds => order[cur].state # "unsent"

Clear == \A o \in OrderIds : order[o].state # "live"

OnlyCurrent ==
  \A o \in OrderIds : order[o].state # "late" /\ (order[o].state = "live" => o = cur)

NoneLost == lost \cap {"place", "cancel"} = {}

Tidy == NoneLost =>
  /\ OnlyCurrent
  /\ pc \in {"place", "placeAgain", "replace", "finalPoll", "market"} => Clear
  /\ pc = "done" => Resting < MinQty /\ (status # "filled" => Clear)

Filled == order[1].filled

(* The result of a run with one order.                                     *)
Final ==
  /\ reported <= bought
  /\ bought + Resting < reported + MinQty
  /\ status # "filled" => reported = bought

SoleTotals ==
  /\ pc # "done" => bought = Filled
  /\ bought = Filled \/ (order[1].state # "live" /\ bought <= Target)
  /\ pc \notin {"done", "market"} => total = prev /\ prev <= Filled
  /\ pc = "market" => total = Filled
  /\ pc = "done" /\ status # "aborted" => Final

Totals == lost = {} /\ Sole => SoleTotals

Extra == Fresh /\ CurSent /\ Tidy /\ Totals

-----------------------------------------------------------------------------
LEMMA First == 1 \in OrderIds
BY MakerAssumption DEF OrderIds

LEMMA SoleCurrent ==
  ASSUME CurSent, Sole, cur \in OrderIds
  PROVE  cur = 1
BY DEF CurSent, Sole

(* Nothing rests of an order that is not live.                             *)
LEMMA ClearRests ==
  ASSUME MakerInv, Clear
  PROVE  Resting = 0
BY DEF Clear, Resting, MakerInv, EngineTypes

LEMMA ClearNever == cur = NoOrder => Resting < MinQty
BY MakerAssumption DEF Resting

(* A result that is what was bought is final.                              *)
LEMMA NothingSmall == 0 < MinQty
BY MakerAssumption

LEMMA ExactFinal ==
  ASSUME NEW r, NEW b \in Nat, NEW n, n < MinQty, n \in Int, r = b
  PROVE  r <= b /\ b + n < r + MinQty
BY MakerAssumption

(* Calls stay lost and orders stay sent.                                   *)
LEMMA NoteGrows == ASSUME NEW a, Note(a) PROVE lost' \in {lost, lost \cup {"status"}}
BY DEF Note

LEMMA CancelGrows ==
  ASSUME Orders, NEW c \in OrderIds, Cancel(c)
  PROVE  /\ lost \subseteq lost'
         /\ \A o \in OrderIds : order[o].state # "unsent" => order'[o].state # "unsent"
         /\ \A o \in OrderIds : order'[o].filled = order[o].filled
         /\ \A o \in OrderIds : order'[o].state \in {"live", "late"} => order'[o] = order[o]
         /\ "cancel" \notin lost' => order'[c].state # "live"
BY DEF Cancel, Orders, OrderType

LEMMA AcceptedGrows ==
  ASSUME Orders, NEW q, NEW s \in {"live", "late"}, NextId \in OrderIds, Accepted(q, s)
  PROVE  /\ \A o \in OrderIds : o # NextId => order'[o] = order[o]
         /\ order'[NextId].state = s /\ order'[NextId].filled = 0
BY DEF Accepted, Orders, OrderType

-----------------------------------------------------------------------------
LEMMA InitExtra == MakerInit => Extra
<1> SUFFICES ASSUME MakerInit PROVE Extra
  OBVIOUS
<1>1. /\ \A o \in OrderIds : order[o].state = "unsent" /\ order[o].filled = 0
      /\ pc = "place" /\ bought = 0 /\ prev = 0 /\ total = 0 /\ turn = 0 /\ cur = NoOrder
  BY DEF MakerInit, Unsent
<1>2. cur \notin OrderIds
  BY <1>1, MakerAssumption DEF NoOrder, OrderIds
<1>3. Fresh /\ CurSent
  BY <1>1, <1>2 DEF Fresh, CurSent, InTurn
<1>4. Tidy
  BY <1>1 DEF Tidy, OnlyCurrent, Clear
<1>5. Totals
  BY <1>1, First, MakerAssumption DEF Totals, SoleTotals, Filled
<1> QED
  BY <1>3, <1>4, <1>5 DEF Extra

(* What the exchange does to the current order brings its end nearer.      *)
LEMMA RestingFalls ==
  ASSUME MakerInv, cur \in OrderIds, order[cur].state = "live",
         Fill(cur) \/ ExchangeCancel(cur)
  PROVE  /\ Resting' <= Resting /\ bought <= bought'
         /\ bought' + Resting' <= bought + Resting
         /\ Resting \in Nat /\ Resting' \in Nat /\ bought' \in Nat
<1>1. /\ order \in [OrderIds -> OrderType] /\ bought \in Nat
      /\ order[cur].qty \in 0..Target /\ order[cur].filled \in 0..Target
      /\ order[cur].filled < order[cur].qty /\ cur # NoOrder
  BY MakerAssumption DEF MakerInv, Orders, OrderType, Works, NoOrder, OrderIds
<1>2. Resting = order[cur].qty - order[cur].filled
  BY <1>1 DEF Resting
<1>3. CASE Fill(cur)
  <2>1. /\ cur' = cur /\ bought' = bought + 1
        /\ order'[cur].filled = order[cur].filled + 1 /\ order'[cur].qty = order[cur].qty
        /\ order'[cur].state # "live" => order'[cur].filled = order'[cur].qty
    BY <1>1, <1>3 DEF Fill, OrderType
  <2>2. Resting' = order[cur].qty - (order[cur].filled + 1)
    BY <1>1, <2>1, MakerAssumption DEF Resting
  <2> QED
    BY <1>1, <1>2, <2>1, <2>2, MakerAssumption
<1>4. CASE ExchangeCancel(cur)
  <2>1. cur' = cur /\ bought' = bought /\ Resting' = 0
    BY <1>1, <1>4 DEF ExchangeCancel, OrderType, Resting
  <2> QED
    BY <1>1, <1>2, <2>1, MakerAssumption
<1> QED
  BY <1>3, <1>4

LEMMA FinalKept ==
  ASSUME NEW b \in Int, NEW c \in Int, NEW r \in Int, NEW n \in Int, NEW k \in Int,
         r <= b, b + n < r + MinQty, b <= c, c + k <= b + n
  PROVE  r <= c /\ c + k < r + MinQty
BY MakerAssumption

LEMMA SmallerKept ==
  ASSUME NEW n \in Int, NEW k \in Int, k <= n, n < MinQty
  PROVE  k < MinQty
BY MakerAssumption

LEMMA ExchangeExtra == MakerInv /\ Extra /\ Exchange => Extra'
<1> SUFFICES ASSUME MakerInv, Extra, NEW o \in OrderIds,
                    Fill(o) \/ ExchangeCancel(o) \/ Arrive(o)
             PROVE  Extra'
  BY DEF Exchange
<1> USE DEF MakerInv, Extra
<1>1. UNCHANGED <<pc, turn, cur, prev, total, status, shifts, reported, lost>>
  BY DEF Fill, ExchangeCancel, Arrive
<1>2. order[o] \in OrderType /\ \A p \in OrderIds \ {o} : order'[p] = order[p]
  BY DEF Orders, Fill, ExchangeCancel, Arrive
<1>3. order[o].state \in {"live", "late"} /\ order'[o].state # "unsent"
  BY <1>2 DEF Orders, OrderType, Fill, ExchangeCancel, Arrive
<1>4. Fresh' /\ CurSent'
  BY <1>1, <1>2, <1>3 DEF Fresh, CurSent
<1>5. order'[o].state # "late" /\ (order'[o].state = "live" => order[o].state \in {"live", "late"})
  BY <1>2, <1>3 DEF Orders, OrderType, Fill, ExchangeCancel, Arrive
<1>6. Tidy'
  <2> SUFFICES ASSUME NoneLost' PROVE Tidy'
    BY DEF Tidy
  <2>1. NoneLost
    BY <1>1 DEF NoneLost
  <2>2. order[o].state = "live"
    BY <1>3, <2>1 DEF Tidy, OnlyCurrent
  <2>3. OnlyCurrent'
    BY <1>1, <1>2, <1>5, <2>1, <2>2 DEF Tidy, OnlyCurrent
  <2>4. ~Clear
    BY <2>2 DEF Clear
  <2>5. pc = "done" => Resting' < MinQty /\ status = "filled"
    <3> SUFFICES ASSUME pc = "done" PROVE Resting' < MinQty /\ status = "filled"
      OBVIOUS
    <3>1. Resting < MinQty /\ status = "filled" /\ cur = o
      BY <2>1, <2>2, <2>4 DEF Tidy, OnlyCurrent
    <3>2. Fill(cur) \/ ExchangeCancel(cur)
      BY <2>2, <3>1 DEF Arrive
    <3> QED
      BY <2>2, <3>1, <3>2, RestingFalls, SmallerKept
  <2> QED
    BY <1>1, <2>1, <2>3, <2>4, <2>5 DEF Tidy
<1>7. Totals'
  <2> SUFFICES ASSUME lost' = {}, Sole' PROVE SoleTotals'
    BY DEF Totals
  <2>1. Sole /\ lost = {} /\ NoneLost
    BY <1>1, <1>2, <1>3 DEF Sole, NoneLost
  <2>2. o = 1
    BY <1>3, <2>1 DEF Sole
  <2>3. order[o].state = "live"
    BY <1>3, <2>1 DEF Tidy, OnlyCurrent
  <2>4. SoleTotals /\ bought = Filled /\ pc # "market" /\ (pc = "done" => status = "filled")
    BY <2>1, <2>2, <2>3 DEF Totals, SoleTotals, Tidy, Clear
  <2>5. Filled \in 0..Target /\ bought \in Nat
    BY <1>2, <2>2 DEF Orders, OrderType, Filled
  <2>6. Filled' = bought' /\ Filled <= Filled'
    <3>1. CASE Fill(o)
      BY <1>2, <2>2, <2>4, <2>5, <3>1 DEF Fill, Filled, Orders, OrderType
    <3>2. CASE ExchangeCancel(o) \/ Arrive(o)
      BY <1>2, <2>2, <2>4, <2>5, <3>2 DEF ExchangeCancel, Arrive, Filled, Orders, OrderType
    <3> QED
      BY <3>1, <3>2
  <2>7. Filled' \in Nat /\ prev \in 0..Target
    BY <2>5, <2>6 , ExchangeKeeps DEF EngineTypes, Exchange, Orders
  <2>8. pc = "done" /\ status # "aborted" => Final'
    <3> SUFFICES ASSUME pc = "done", status # "aborted" PROVE Final'
      OBVIOUS
    <3>1. cur = o /\ Final /\ status = "filled"
      BY <2>1, <2>3, <2>4 DEF Tidy, OnlyCurrent, SoleTotals
    <3>2. Fill(cur) \/ ExchangeCancel(cur)
      BY <2>3, <3>1 DEF Arrive
    <3>3. reported \in Int /\ reported' = reported /\ status' = "filled"
      BY <1>1, <3>1 DEF EngineTypes
    <3>4. /\ bought <= bought' /\ bought' + Resting' <= bought + Resting
          /\ bought' \in Int /\ Resting \in Int /\ Resting' \in Int
      BY <2>3, <3>1, <3>2, RestingFalls
    <3>5. reported <= bought /\ bought + Resting < reported + MinQty
      BY <3>1 DEF Final
    <3>6. bought \in Int
      BY <2>5
    <3>7. reported <= bought' /\ bought' + Resting' < reported + MinQty
      <4> HIDE DEF Resting
      <4> QED  BY <3>3, <3>4, <3>5, <3>6, FinalKept
    <3> QED
      BY <3>3, <3>7 DEF Final
  <2> QED
    BY <1>1, <2>4, <2>5, <2>6, <2>7, <2>8 DEF SoleTotals
<1> QED
  BY <1>4, <1>6, <1>7

(* A step that leaves the orders alone.                                    *)
LEMMA QuietExtra ==
  ASSUME MakerInv, Extra, UNCHANGED <<order, cur>>, lost \subseteq lost',
         pc \notin {"place", "placeAgain"}, pc' \notin {"place", "placeAgain"},
         turn \in Nat, turn' \in Nat, turn' >= turn,
         pc' \in InTurn => pc \in InTurn \/ turn' >= 1,
         NoneLost => /\ pc' \in {"replace", "finalPoll", "market"} => Clear
                     /\ pc' = "done" => Resting < MinQty /\ (status' # "filled" => Clear),
         lost' = {} /\ Sole => SoleTotals'
  PROVE  Extra'
<1> USE DEF Extra
<1>1. Fresh' /\ CurSent'
  BY DEF Fresh, CurSent
<1>2. NoneLost' => NoneLost
  BY DEF NoneLost
<1>3. Tidy'
  BY <1>2 DEF Tidy, OnlyCurrent, Clear, Resting
<1>4. Totals'
  BY DEF Totals, Sole
<1> QED
  BY <1>1, <1>3, <1>4

LEMMA TurnExtra == MakerInv /\ Extra /\ Turn => Extra'
<1> SUFFICES ASSUME MakerInv, Extra, Turn PROVE Extra'
  OBVIOUS
<1>1. turn \in Nat /\ turn' \in {turn, turn + 1} /\ (pc' = "poll" => turn' = turn + 1)
  BY MakerAssumption DEF MakerInv, EngineTypes, Turn
<1>2. /\ UNCHANGED <<order, bought, cur, prev, total, lost>>
      /\ pc = "turn" /\ pc' \in {"finish", "poll"}
  BY DEF Turn, exchangeVars
<1>3. lost' = {} /\ Sole => SoleTotals'
  BY <1>2 DEF Extra, Totals, SoleTotals, Filled
<1> QED
  BY <1>1, <1>2, <1>3, QuietExtra DEF InTurn

LEMMA RaiseExtra ==
  ASSUME MakerInv, Extra, StatusRaises, pc \notin {"place", "placeAgain"}
  PROVE  Extra'
<1>1. /\ turn \in Nat /\ turn' = turn
      /\ UNCHANGED <<order, cur>> /\ pc' = "except" /\ lost' = lost \cup {"status"}
  BY MakerAssumption DEF MakerInv, EngineTypes, StatusRaises
<1> QED
  BY <1>1, QuietExtra DEF InTurn

LEMMA BookExtra == MakerInv /\ Extra /\ Book => Extra'
<1> SUFFICES ASSUME MakerInv, Extra, Book PROVE Extra'
  OBVIOUS
<1>1. /\ UNCHANGED <<order, bought, turn, cur, prev, total, lost>>
      /\ pc = "book" /\ pc' \in {"turn", "amend", "finish"}
  BY DEF Book, exchangeVars
<1>2. turn \in Nat
  BY MakerAssumption DEF MakerInv, EngineTypes
<1>3. lost' = {} /\ Sole => SoleTotals'
  BY <1>1 DEF Extra, Totals, SoleTotals, Filled
<1> QED
  BY <1>1, <1>2, <1>3, QuietExtra DEF InTurn

(* What an answer about the current order says when nothing is lost.       *)
LEMMA AnswerTold ==
  ASSUME NEW a \in Answers, Note(a)
  PROVE  /\ a.state = "filled" => order[cur].state = "filled"
         /\ a.filled > 0 => a.filled = order[cur].filled
         /\ lost' = {} => a.filled = order[cur].filled /\ a.state = order[cur].state /\ lost = {}
BY DEF Answers, Unknown, Note

(* The current order, filled to the target or said to be, is not live.     *)
LEMMA CurrentDone ==
  ASSUME MakerInv, Extra, NoneLost, cur \in OrderIds,
         order[cur].state = "filled" \/ order[cur].filled >= Target
  PROVE  Clear
<1>1. order[cur] \in OrderType /\ Works(order[cur]) /\ OnlyCurrent
  BY DEF MakerInv, Orders, Extra, Tidy
<1>2. order[cur].state # "live"
  BY <1>1, MakerAssumption DEF OrderType, Works
<1> QED
  BY <1>1, <1>2 DEF OnlyCurrent, Clear

LEMMA PollExtra == MakerInv /\ Extra /\ Poll => Extra'
<1> SUFFICES ASSUME MakerInv, Extra, Poll PROVE Extra'
  OBVIOUS
<1> USE DEF MakerInv
<1>1. PICK a \in Answers :
        /\ Note(a)
        /\ total' = IF a.filled > prev THEN a.filled ELSE total
        /\ prev' = Larger(prev, a.filled)
        /\ IF a.state = "filled" \/ Target - total' < MinQty
             THEN Return("filled", total')
             ELSE pc' = "book" /\ UNCHANGED <<status, reported>>
  BY DEF Poll
<1>2. /\ cur \in OrderIds /\ pc = "poll" /\ Target - total >= MinQty
      /\ UNCHANGED <<order, bought, turn, cur, shifts>>
      /\ lost \subseteq lost'
  BY <1>1 DEF Poll, LoopOpen, Loop, exchangeVars, Note
<1>3. /\ prev \in 0..Target /\ total \in 0..Target /\ turn \in Nat
      /\ a.filled \in 0..Target
  BY <1>2, AnswersCounted, MakerAssumption DEF EngineTypes
<1>4. pc' \in {"done", "book"}
  BY <1>1 DEF Return
<1>5. order[cur] \in OrderType
  BY <1>2 DEF Orders
<1>11. Resting \in Nat /\ UNCHANGED Resting
  BY <1>2, <1>5, MakerAssumption DEF Resting, Orders, OrderType, Works, NoOrder, OrderIds
<1>12. pc' = "done" => status' = "filled" /\ Resting < MinQty
  <2> SUFFICES ASSUME pc' = "done" PROVE Resting < MinQty
    BY <1>1 DEF Return
  <2>1. a.state = "filled" \/ Target - total' < MinQty
    BY <1>1
  <2>2. CASE a.state = "filled"
    BY <1>1, <2>2, AnswerTold, MakerAssumption DEF Resting
  <2>3. CASE Target - total' < MinQty
    <3>1. a.filled > 0 /\ Target - a.filled < MinQty
      BY <1>1, <1>2, <1>3, <2>3, MakerAssumption
    <3>2. a.filled = order[cur].filled
      BY <1>1, <3>1, AnswerTold
    <3> QED
      BY <1>3, <1>5, <3>1, <3>2, MakerAssumption DEF Resting, OrderType
  <2> QED
    BY <2>1, <2>2, <2>3
<1>6. lost' = {} /\ Sole => SoleTotals'
  <2> SUFFICES ASSUME lost' = {}, Sole PROVE SoleTotals'
    OBVIOUS
  <2>1. cur = 1 /\ lost = {} /\ a.filled = Filled
    BY <1>1, <1>2, AnswerTold, SoleCurrent DEF Extra, Filled
  <2>2. total = prev /\ prev <= Filled /\ bought = Filled
    BY <1>2, <2>1 DEF Extra, Totals, SoleTotals
  <2>3. total' = Filled /\ prev' = Filled
    BY <1>1, <1>3, <2>1, <2>2 DEF Larger
  <2>4. pc' = "done" => reported' = total'
    BY <1>1 DEF Return
  <2>5. Filled' = Filled
    BY <1>2 DEF Filled
  <2>6. pc' = "done" => Final'
    <3> SUFFICES ASSUME pc' = "done" PROVE Final'
      OBVIOUS
    <3>1. reported' = bought' /\ bought' \in Nat /\ status' = "filled"
      BY <1>2, <1>12, <2>2, <2>3, <2>4 DEF Orders
    <3>2. Resting' < MinQty /\ Resting' \in Int
      BY <1>11, <1>12
    <3> QED
      BY <3>1, <3>2, ExactFinal DEF Final
  <2> QED
    BY <1>2, <1>3, <1>4, <2>1, <2>2, <2>3, <2>5, <2>6 DEF SoleTotals
<1> QED
  BY <1>2, <1>3, <1>4, <1>6, <1>12, QuietExtra DEF InTurn

LEMMA RecheckExtra == MakerInv /\ Extra /\ Recheck => Extra'
<1> SUFFICES ASSUME MakerInv, Extra, Recheck PROVE Extra'
  OBVIOUS
<1> USE DEF MakerInv
<1>1. PICK a \in Answers :
        /\ Note(a)
        /\ \/ a.state = "filled" /\ total' = a.filled /\ Return("filled", total')
           \/ pc' = "turn" /\ UNCHANGED <<total, status, reported>>
  BY DEF Recheck
<1>2. /\ cur \in OrderIds /\ pc = "recheck" /\ turn \in Nat
      /\ UNCHANGED <<order, bought, turn, cur, prev, shifts>>
      /\ lost \subseteq lost'
  BY <1>1, MakerAssumption DEF Recheck, LoopOpen, Loop, exchangeVars, Note, EngineTypes
<1>3. pc' \in {"done", "turn"} /\ (pc' = "done" => a.state = "filled")
  BY <1>1 DEF Return
<1>4. NoneLost /\ pc' = "done" => Clear
  BY <1>1, <1>2, <1>3, AnswerTold, CurrentDone
<1>6. Clear => Resting = 0 /\ Resting' = 0
  BY <1>2, ClearRests DEF Resting
<1>5. lost' = {} /\ Sole => SoleTotals'
  <2> SUFFICES ASSUME lost' = {}, Sole PROVE SoleTotals'
    OBVIOUS
  <2>1. cur = 1 /\ lost = {} /\ a.filled = Filled
    BY <1>1, <1>2, AnswerTold, SoleCurrent DEF Extra, Filled
  <2>2. total = prev /\ prev <= Filled /\ bought = Filled
    BY <1>2, <2>1 DEF Extra, Totals, SoleTotals
  <2>3. pc' = "done" => reported' = Filled
    BY <1>1, <2>1 DEF Return
  <2>4. pc' = "turn" => total' = total
    BY <1>1 DEF Return
  <2>5. Filled' = Filled
    BY <1>2 DEF Filled
  <2>6. pc' = "done" => Final'
    <3> SUFFICES ASSUME pc' = "done" PROVE Final'
      OBVIOUS
    <3>1. reported' = bought' /\ bought' \in Nat /\ Resting' = 0
      BY <1>2, <1>4, <1>6, <2>1, <2>2, <2>3 DEF Orders, NoneLost
    <3> QED
      BY <3>1, ExactFinal, NothingSmall DEF Final
  <2> QED
    BY <1>2, <1>3, <2>2, <2>4, <2>5, <2>6 DEF SoleTotals
<1> QED
  BY <1>2, <1>3, <1>4, <1>5, <1>6, MakerAssumption, QuietExtra DEF InTurn

LEMMA FinalPollExtra == MakerInv /\ Extra /\ FinalPoll => Extra'
<1> SUFFICES ASSUME MakerInv, Extra, FinalPoll PROVE Extra'
  OBVIOUS
<1> USE DEF MakerInv
<1>1. PICK a \in Answers : Note(a) /\ total' = Larger(total, a.filled)
  BY DEF FinalPoll
<1>2. /\ cur \in OrderIds /\ pc = "finalPoll" /\ turn \in Nat
      /\ UNCHANGED <<order, bought, turn, cur, prev, shifts>>
      /\ lost \subseteq lost'
  BY <1>1, MakerAssumption DEF FinalPoll, LoopOpen, exchangeVars, Note, EngineTypes
<1>3. pc' \in {"done", "market"} /\ (pc' = "done" => reported' = total')
  BY DEF FinalPoll, Return
<1>4. NoneLost => Clear
  BY <1>2 DEF Extra, Tidy
<1>6. Clear => Resting = 0 /\ Resting' = 0
  BY <1>2, ClearRests DEF Resting
<1>5. lost' = {} /\ Sole => SoleTotals'
  <2> SUFFICES ASSUME lost' = {}, Sole PROVE SoleTotals'
    OBVIOUS
  <2>1. cur = 1 /\ lost = {} /\ a.filled = Filled
    BY <1>1, <1>2, AnswerTold, SoleCurrent DEF Extra, Filled
  <2>2. total = prev /\ prev <= Filled /\ bought = Filled
    BY <1>2, <2>1 DEF Extra, Totals, SoleTotals
  <2>3. total \in 0..Target /\ a.filled \in 0..Target
    BY <1>2, AnswersCounted DEF EngineTypes
  <2>4. total' = Filled
    BY <1>1, <2>1, <2>2, <2>3 DEF Larger
  <2>5. Filled' = Filled
    BY <1>2 DEF Filled
  <2>6. pc' = "done" => Final'
    <3> SUFFICES ASSUME pc' = "done" PROVE Final'
      OBVIOUS
    <3>1. reported' = bought' /\ bought' \in Nat /\ Resting' = 0
      BY <1>2, <1>3, <1>4, <1>6, <2>1, <2>2, <2>4 DEF Orders, NoneLost
    <3> QED
      BY <3>1, ExactFinal, NothingSmall DEF Final
  <2> QED
    BY <1>2, <1>3, <2>2, <2>4, <2>5, <2>6 DEF SoleTotals
<1> QED
  BY <1>2, <1>3, <1>4, <1>5, <1>6, MakerAssumption, QuietExtra DEF InTurn

LEMMA MarketExtra == MakerInv /\ Extra /\ Market => Extra'
<1> SUFFICES ASSUME MakerInv, Extra, Market PROVE Extra'
  OBVIOUS
<1> USE DEF MakerInv
<1>1. PICK got \in 0..Remaining :
        /\ bought' = bought + got
        /\ \/ /\ total' = total + Remaining
              /\ Return("market_fallback", total')
              /\ lost' = IF got = Remaining THEN lost ELSE lost \cup {"market"}
           \/ /\ Return(Unfinished(total), total)
              /\ lost' = IF got = 0 THEN lost ELSE lost \cup {"market"}
              /\ UNCHANGED total
  BY DEF Market
<1>2. /\ pc = "market" /\ pc' = "done" /\ turn \in Nat /\ lost \subseteq lost'
      /\ UNCHANGED <<order, turn, cur, prev, shifts>>
  BY <1>1, MakerAssumption DEF Market, EngineTypes, Return
<1>3. NoneLost => Clear
  BY <1>2 DEF Extra, Tidy
<1>6. Clear => Resting = 0 /\ Resting' = 0
  BY <1>2, ClearRests DEF Resting
<1>4. total \in 0..Target /\ bought \in Nat /\ Remaining \in 0..Target /\ total + Remaining = Target
  BY MakerAssumption DEF EngineTypes, Orders, Remaining
<1>5. lost' = {} /\ Sole => SoleTotals'
  <2> SUFFICES ASSUME lost' = {}, Sole PROVE SoleTotals'
    OBVIOUS
  <2>1. lost = {} /\ NoneLost
    BY <1>2 DEF NoneLost
  <2>2. total = Filled /\ bought = Filled /\ order[1].state # "live"
    BY <1>2, <1>3, <2>1, First DEF Extra, Totals, SoleTotals, Clear
  <2>3. reported' = bought'
    <3>1. CASE total' = total + Remaining /\ Return("market_fallback", total') /\ got = Remaining
      BY <1>4, <1>1, <2>2, <3>1 DEF Return
    <3>2. CASE Return(Unfinished(total), total) /\ got = 0
      BY <1>4, <1>1, <2>2, <3>2 DEF Return
    <3> QED
      BY <1>1, <2>1, <3>1, <3>2
  <2>4. bought' <= Target
    BY <1>1, <1>4, <2>2
  <2>5. Final'
    <3>1. bought' \in Nat /\ Resting' = 0
      BY <1>1, <1>3, <1>4, <1>6, <2>1
    <3> QED
      BY <2>3, <3>1, ExactFinal, NothingSmall DEF Final
  <2> QED
    BY <1>2, <2>2, <2>4, <2>5 DEF SoleTotals, Filled
<1> QED
  BY <1>2, <1>3, <1>5, <1>6, MakerAssumption, QuietExtra DEF InTurn

(* A step after which the given invariants hold of the exchange's orders.  *)
LEMMA SentStays ==
  ASSUME \A o \in OrderIds : order[o].state # "unsent" => order'[o].state # "unsent", Sole'
  PROVE  Sole
BY DEF Sole

LEMMA PlaceExtra == MakerInv /\ Extra /\ Place => Extra'
<1> SUFFICES ASSUME MakerInv, Extra, Place PROVE Extra'
  OBVIOUS
<1> USE DEF MakerInv
<1>1. /\ pc \in {"place", "placeAgain"} /\ pc' \in {"turn", "placeAgain", "except"}
      /\ UNCHANGED <<bought, turn, prev, total, status, shifts, reported>>
      /\ bought = 0 /\ prev = 0 /\ total = 0 /\ turn = 0 /\ cur = NoOrder
      /\ \A o \in OrderIds : order[o].state = "unsent"
  BY DEF Place, Extra, Fresh, LoopOpen
<1>2. NextId = 1 /\ NextId \in OrderIds /\ cur \notin OrderIds
  BY <1>1, MakerAssumption DEF NextId, OrderIds, NoOrder
<1>3. \A o \in OrderIds : order[o] \in OrderType
  BY DEF Orders
<1>4. CASE Accepted(Target, "live") /\ cur' = NextId /\ pc' = "turn" /\ lost' = lost
  <2>1. /\ \A o \in OrderIds : o # 1 => order'[o] = order[o]
        /\ order'[1].state = "live" /\ order'[1].filled = 0
    BY <1>2, <1>4, AcceptedGrows
  <2>2. Fresh' /\ CurSent'
    BY <1>2, <1>4, <2>1 DEF Fresh, CurSent, InTurn
  <2>3. Tidy'
    BY <1>1, <1>2, <1>4, <2>1 DEF Tidy, OnlyCurrent
  <2>4. Totals'
    BY <1>1, <1>4, <2>1, MakerAssumption DEF Totals, SoleTotals, Filled
  <2> QED
    BY <2>2, <2>3, <2>4 DEF Extra
<1>5. CASE order' = order /\ cur' = cur /\ lost' = lost /\ pc' \in {"placeAgain", "except"}
  <2>1. Fresh' /\ CurSent'
    BY <1>1, <1>2, <1>5 DEF Fresh, CurSent, InTurn
  <2>2. Tidy'
    BY <1>1, <1>5 DEF Tidy, OnlyCurrent, Clear
  <2>3. Totals'
    BY <1>1, <1>5 DEF Extra, Totals, SoleTotals, Filled, Sole
  <2> QED
    BY <2>1, <2>2, <2>3 DEF Extra
<1>6. CASE pc' = "except" /\ Accepted(Target, "late") /\ lost' = lost \cup {"place"} /\ cur' = cur
  <2>1. Fresh' /\ CurSent'
    BY <1>2, <1>6 DEF Fresh, CurSent, InTurn
  <2>2. Tidy' /\ Totals'
    BY <1>6 DEF Tidy, Totals, NoneLost
  <2> QED
    BY <2>1, <2>2 DEF Extra
<1> QED
  BY <1>4, <1>5, <1>6 DEF Place

LEMMA AmendExtra == MakerInv /\ Extra /\ Amend => Extra'
<1> SUFFICES ASSUME MakerInv, Extra, Amend PROVE Extra'
  OBVIOUS
<1> USE DEF MakerInv
<1>1. /\ cur \in OrderIds /\ pc = "amend"
      /\ UNCHANGED <<bought, turn, cur, prev, total, status, reported>>
      /\ pc' \in {"turn", "amend", "recheck", "cancelOld"}
      /\ lost \subseteq lost'
      /\ order' = order \/ (CanAmend /\ Amended)
  BY DEF Amend, LoopOpen, Loop
<1>2. \A o \in OrderIds : order'[o].state = order[o].state /\ order'[o].filled = order[o].filled
  BY <1>1 DEF Orders, OrderType, Amended
<1>3. Fresh' /\ CurSent'
  BY <1>1, <1>2 DEF Extra, Fresh, CurSent, InTurn
<1>4. NoneLost' => NoneLost
  BY <1>1 DEF NoneLost
<1>5. Tidy'
  BY <1>1, <1>2, <1>4 DEF Extra, Tidy, OnlyCurrent
<1>6. Totals'
  <2> SUFFICES ASSUME lost' = {}, Sole' PROVE SoleTotals'
    BY DEF Totals
  <2>1. SoleTotals
    BY <1>1, <1>2, SentStays DEF Extra, Totals
  <2> QED
    BY <1>1, <1>2, <2>1, First DEF SoleTotals, Filled
<1> QED
  BY <1>3, <1>5, <1>6 DEF Extra

(* CancelOld, FinalCancel and the cancellation of Abort.                   *)
LEMMA CancelExtra ==
  ASSUME MakerInv, Extra, cur \in OrderIds, Cancel(cur),
         pc \notin {"place", "placeAgain", "done", "market"},
         pc' \in {"replace", "finalPoll", "done"}, pc' = "replace" => pc \in InTurn,
         pc' = "done" => status' = "aborted",
         UNCHANGED <<bought, turn, cur, prev, total>>
  PROVE  Extra'
<1> USE DEF MakerInv
<1>1. /\ lost \subseteq lost'
      /\ \A o \in OrderIds : order[o].state # "unsent" => order'[o].state # "unsent"
      /\ \A o \in OrderIds : order'[o].filled = order[o].filled
      /\ \A o \in OrderIds : order'[o].state \in {"live", "late"} => order'[o] = order[o]
      /\ "cancel" \notin lost' => order'[cur].state # "live"
  BY CancelGrows
<1>2. Fresh' /\ CurSent'
  BY <1>1 DEF Extra, Fresh, CurSent, InTurn
<1>3. Tidy'
  <2> SUFFICES ASSUME NoneLost' PROVE Tidy'
    BY DEF Tidy
  <2>1. NoneLost /\ "cancel" \notin lost'
    BY <1>1 DEF NoneLost
  <2>2. OnlyCurrent
    BY <2>1 DEF Extra, Tidy
  <2>3. Clear' /\ Resting' < MinQty
    BY <1>1, <2>1, <2>2, MakerAssumption DEF OnlyCurrent, Clear, Resting
  <2>4. OnlyCurrent'
    BY <1>1, <2>2, <2>3 DEF OnlyCurrent, Clear
  <2> QED
    BY <2>3, <2>4 DEF Tidy
<1>4. Totals'
  <2> SUFFICES ASSUME lost' = {}, Sole' PROVE SoleTotals'
    BY DEF Totals
  <2>1. SoleTotals
    BY <1>1, SentStays DEF Extra, Totals
  <2>2. order'[1].filled = order[1].filled
    BY <1>1, First
  <2> QED
    BY <2>1, <2>2 DEF SoleTotals, Filled
<1> QED
  BY <1>2, <1>3, <1>4 DEF Extra

LEMMA ReplaceExtra == MakerInv /\ Extra /\ Replace => Extra'
<1> SUFFICES ASSUME MakerInv, Extra, Replace PROVE Extra'
  OBVIOUS
<1> USE DEF MakerInv
<1>1. /\ cur \in OrderIds /\ turn \in 0..MaxTurns /\ total \in 0..Target
      /\ Target - total >= MinQty /\ turn >= 1 /\ pc = "replace" /\ pc' = "turn"
      /\ UNCHANGED <<bought, turn, prev, total, status, shifts, reported>>
  BY DEF Replace, LoopOpen, Loop, EngineTypes, Extra, Fresh, InTurn
<1>2. Remaining \in 1..Target /\ NextId # 1
  BY <1>1, MakerAssumption DEF Remaining, NextId
<1>3. NextId \in OrderIds
  BY <1>1, MakerAssumption DEF NextId, OrderIds
<1>4. CASE \E s \in {"live", "late"} : Accepted(Remaining, s)
             /\ cur' = (IF s = "live" THEN NextId ELSE cur)
             /\ lost' = (IF s = "live" THEN lost ELSE lost \cup {"place"})
  <2>1. PICK s \in {"live", "late"} : Accepted(Remaining, s)
             /\ cur' = (IF s = "live" THEN NextId ELSE cur)
             /\ lost' = (IF s = "live" THEN lost ELSE lost \cup {"place"})
    BY <1>4
  <2>2. /\ \A o \in OrderIds : o # NextId => order'[o] = order[o]
        /\ order'[NextId].state = s /\ order'[NextId].filled = 0
    BY <1>3, <2>1, AcceptedGrows
  <2>3. Fresh' /\ CurSent'
    BY <1>1, <2>1, <2>2 DEF Extra, Fresh, CurSent, InTurn
  <2>4. ~Sole'
    BY <1>2, <1>3, <2>2 DEF Sole
  <2>5. Tidy'
    <3> SUFFICES ASSUME NoneLost' PROVE Tidy'
      BY DEF Tidy
    <3>1. NoneLost /\ s = "live" /\ cur' = NextId
      BY <2>1 DEF NoneLost
    <3>2. Clear /\ OnlyCurrent
      BY <1>1, <3>1 DEF Extra, Tidy
    <3>3. OnlyCurrent'
      BY <2>2, <3>1, <3>2 DEF OnlyCurrent, Clear
    <3> QED
      BY <1>1, <3>3 DEF Tidy
  <2> QED
    BY <2>3, <2>4, <2>5 DEF Extra, Totals
<1>5. CASE UNCHANGED <<order, cur, lost>>
  <2>1. turn \in Nat
    BY <1>1, MakerAssumption
  <2>2. lost' = {} /\ Sole => SoleTotals'
    BY <1>1, <1>5 DEF Extra, Totals, SoleTotals, Filled
  <2> QED
    BY <1>1, <1>5, <2>1, <2>2, QuietExtra DEF InTurn
<1> QED
  BY <1>4, <1>5 DEF Replace

LEMMA AbortExtra == MakerInv /\ Extra /\ Abort => Extra'
<1> SUFFICES ASSUME MakerInv, Extra, Abort PROVE Extra'
  OBVIOUS
<1> USE DEF MakerInv
<1>1. /\ UNCHANGED <<bought, turn, cur, prev, total, shifts>>
      /\ pc = "except" /\ pc' = "done" /\ status' = "aborted" /\ reported' = 0
  BY DEF Abort, Return
<1>2. CASE cur = NoOrder /\ UNCHANGED <<order, lost>>
  <2>1. turn \in Nat /\ cur \notin OrderIds
    BY <1>2, MakerAssumption DEF EngineTypes, OrderIds, NoOrder
  <2>2. NoneLost => Clear
    BY <2>1 DEF Extra, Tidy, OnlyCurrent, Clear
  <2>3. lost' = {} /\ Sole => SoleTotals'
    BY <1>1, <1>2 DEF Extra, Totals, SoleTotals, Filled
  <2> QED
    BY <1>1, <1>2, <2>1, <2>2, <2>3, ClearNever, QuietExtra DEF InTurn
<1>3. CASE cur # NoOrder /\ Cancel(cur)
  BY <1>1, <1>3, CancelExtra DEF EngineTypes
<1> QED
  BY <1>2, <1>3 DEF Abort

LEMMA EngineExtra == MakerInv /\ Extra /\ Engine => Extra'
<1> SUFFICES ASSUME MakerInv, Extra, Engine PROVE Extra'
  OBVIOUS
<1>1. CASE PollRaises \/ RecheckRaises \/ FinalPollRaises
  BY <1>1, RaiseExtra DEF PollRaises, RecheckRaises, FinalPollRaises
<1>2. CASE CancelOld \/ FinalCancel
  <2>1. /\ pc \in {"cancelOld", "finish"} /\ cur \in OrderIds /\ Cancel(cur)
        /\ pc' = IF pc = "cancelOld" THEN "replace" ELSE "finalPoll"
        /\ UNCHANGED <<bought, turn, cur, prev, total>>
    BY <1>2 DEF CancelOld, FinalCancel, MakerInv, LoopOpen, Loop
  <2> QED
    BY <2>1, CancelExtra DEF InTurn
<1> QED
  BY <1>1, <1>2, PlaceExtra, TurnExtra, PollExtra, BookExtra, AmendExtra, RecheckExtra,
     ReplaceExtra, FinalPollExtra, MarketExtra, AbortExtra DEF Engine

LEMMA StutterExtra == Extra /\ UNCHANGED makerVars => Extra'
BY DEF makerVars, Extra, Fresh, CurSent, Tidy, OnlyCurrent, Clear, NoneLost, Totals,
   SoleTotals, Filled, Sole, Final, Resting

LEMMA ExtraStep == MakerInv /\ Extra /\ [MakerNext]_makerVars => Extra'
BY EngineExtra, ExchangeExtra, StutterExtra DEF MakerNext

LEMMA MakerAlways == MakerSpec => [](MakerInv /\ Extra)
<1>1. MakerInv /\ Extra /\ [MakerNext]_makerVars => (MakerInv /\ Extra)'
  BY MakerStep, ExtraStep
<1> QED
  BY <1>1, InitInv, InitExtra, PTL DEF MakerSpec

-----------------------------------------------------------------------------
(* What the invariant says of an engine that has returned.                 *)
LEMMA DoneClear ==
  ASSUME MakerInv, Extra, pc = "done", NoneLost
  PROVE  /\ \A o \in Open : o = cur /\ status = "filled"
         /\ Resting < MinQty
         /\ status # "filled" => Open = {}
BY DEF Extra, Tidy, Clear, OnlyCurrent, Open

LEMMA DoneExact ==
  ASSUME MakerInv, Extra, pc = "done", status # "aborted", lost = {}, Sole
  PROVE  Final
BY DEF Extra, Totals, SoleTotals

(* When the engine has returned, whichever of its paths it took, nothing   *)
(* of it rests at Bybit but less than MinQty of the last order of a        *)
(* "filled" result, if placements and cancellations were answered.         *)
THEOREM NothingIsLeft == MakerSpec => []NothingLeftWorking
<1>1. MakerInv /\ Extra => NothingLeftWorking
  BY DoneClear DEF NothingLeftWorking, NoneLost
<1> QED
  BY <1>1, MakerAlways, PTL

(* With one order and no lost call, what is bought and what rests stay     *)
(* within the target, the market order included.                           *)
THEOREM StaysWithinTarget == MakerSpec => []WithinTarget
<1>1. MakerInv /\ Extra => WithinTarget
  <2> SUFFICES ASSUME MakerInv, Extra, lost = {}, Sole PROVE bought + Resting <= Target
    BY DEF WithinTarget
  <2>1. SoleTotals /\ bought \in Nat /\ order[1] \in OrderType
    BY First DEF Extra, Totals, MakerInv, Orders
  <2>2. CASE cur = NoOrder \/ order[cur].state # "live"
    BY <2>1, <2>2, MakerAssumption DEF SoleTotals, Filled, OrderType, Resting
  <2>3. CASE cur # NoOrder /\ order[cur].state = "live"
    <3>1. cur = 1
      BY <2>3, SoleCurrent DEF MakerInv, EngineTypes, Extra
    <3>2. bought = order[1].filled /\ Resting = order[1].qty - order[1].filled
      BY <2>1, <2>3, <3>1 DEF SoleTotals, Filled, Resting
    <3> QED
      BY <2>1, <3>2, MakerAssumption DEF OrderType
  <2> QED
    BY <2>2, <2>3
<1> QED
  BY <1>1, MakerAlways, PTL

(* With one order and no lost call, a result other than an abort reports   *)
(* what was bought when the engine returned, and less than MinQty more,    *)
(* only of a "filled" order, will be.                                      *)
THEOREM ResultIsExact == MakerSpec => []ExactWhenSimple
<1>1. MakerInv /\ Extra => ExactWhenSimple
  BY DoneClear, DoneExact DEF ExactWhenSimple, Settled, NoneLost, Final
<1> QED
  BY <1>1, MakerAlways, PTL

-----------------------------------------------------------------------------
(***************************************************************************)
(* The end of a call.                                                      *)
(***************************************************************************)

(* An upper bound of the exchange calls and waits the engine still makes:  *)
(* nine for each turn left, and those of the path it is on.                *)
PathLeft ==
  CASE pc = "poll" -> 13
    [] pc = "book" -> 12
    [] pc = "amend" -> 11 - shifts
    [] pc \in {"recheck", "cancelOld", "place"} -> 7
    [] pc \in {"replace", "placeAgain"} -> 6
    [] pc = "turn" -> 5
    [] pc = "finish" -> 4
    [] pc = "finalPoll" -> 3
    [] pc = "market" -> 2
    [] pc = "except" -> 1
    [] pc = "done" -> 0
CallsLeft == 9 * (MaxTurns - turn) + PathLeft

LEMMA PathIs ==
  /\ pc = "poll" => PathLeft = 13
  /\ pc = "book" => PathLeft = 12
  /\ pc = "amend" => PathLeft = 11 - shifts
  /\ pc \in {"recheck", "cancelOld", "place"} => PathLeft = 7
  /\ pc \in {"replace", "placeAgain"} => PathLeft = 6
  /\ pc = "turn" => PathLeft = 5
  /\ pc = "finish" => PathLeft = 4
  /\ pc = "finalPoll" => PathLeft = 3
  /\ pc = "market" => PathLeft = 2
  /\ pc = "except" => PathLeft = 1
  /\ pc = "done" => PathLeft = 0
BY DEF PathLeft

LEMMA PathIsNext ==
  /\ pc' = "poll" => PathLeft' = 13
  /\ pc' = "book" => PathLeft' = 12
  /\ pc' = "amend" => PathLeft' = 11 - shifts'
  /\ pc' \in {"recheck", "cancelOld", "place"} => PathLeft' = 7
  /\ pc' \in {"replace", "placeAgain"} => PathLeft' = 6
  /\ pc' = "turn" => PathLeft' = 5
  /\ pc' = "finish" => PathLeft' = 4
  /\ pc' = "finalPoll" => PathLeft' = 3
  /\ pc' = "market" => PathLeft' = 2
  /\ pc' = "except" => PathLeft' = 1
  /\ pc' = "done" => PathLeft' = 0
BY DEF PathLeft

LEMMA CallsBounded == MakerTypeOK => CallsLeft \in 0 .. 9 * MaxTurns + 13
<1> SUFFICES ASSUME MakerTypeOK
             PROVE  CallsLeft \in 0 .. 9 * MaxTurns + 13
  OBVIOUS
<1>1. turn \in 0..MaxTurns /\ shifts \in 0..2 /\ pc \in Places
  BY DEF MakerTypeOK
<1>2. PathLeft \in 0..13
  BY <1>1, PathIs DEF Places
<1> QED
  BY <1>1, <1>2, MakerAssumption DEF CallsLeft

(* The step of the path: shorter in the same turn, or on to the next turn. *)
LEMMA PathShrinks ==
  ASSUME MakerTypeOK, Engine
  PROVE  \/ turn' = turn /\ PathLeft' \in Int /\ PathLeft' < PathLeft
         \/ turn' = turn + 1 /\ PathLeft = 5 /\ PathLeft' = 13
<1> USE PathIs, PathIsNext
<1>1. shifts \in 0..2
  BY DEF MakerTypeOK
<1>2. CASE Place
  BY <1>2 DEF Place
<1>3. CASE Turn
  BY <1>3 DEF Turn
<1>4. CASE Poll
  BY <1>4 DEF Poll, Return
<1>5. CASE PollRaises \/ RecheckRaises \/ FinalPollRaises
  BY <1>5 DEF PollRaises, RecheckRaises, FinalPollRaises, StatusRaises
<1>6. CASE Book
  BY <1>6 DEF Book
<1>7. CASE Amend
  <2>1. pc = "amend" /\ PathLeft = 11 - shifts /\ turn' = turn
    BY <1>7 DEF Amend
  <2>2. \/ pc' \in {"turn", "recheck", "cancelOld"}
        \/ pc' = "amend" /\ shifts' = shifts + 1
    BY <1>7 DEF Amend
  <2> QED
    BY <1>1, <2>1, <2>2
<1>8. CASE Recheck
  BY <1>8 DEF Recheck, Return
<1>9. CASE CancelOld \/ Replace
  BY <1>9 DEF CancelOld, Replace
<1>10. CASE FinalCancel \/ FinalPoll
  BY <1>10 DEF FinalCancel, FinalPoll, Return
<1>11. CASE Market \/ Abort
  BY <1>11 DEF Market, Abort, Return
<1> QED
  BY <1>2, <1>3, <1>4, <1>5, <1>6, <1>7, <1>8, <1>9, <1>10, <1>11 DEF Engine

LEMMA CallsShrink == MakerTypeOK /\ Engine => CallsLeft' < CallsLeft
<1> SUFFICES ASSUME MakerTypeOK, Engine
             PROVE  CallsLeft' < CallsLeft
  OBVIOUS
<1>1. turn \in Int /\ shifts \in 0..2 /\ pc \in Places
  BY DEF MakerTypeOK
<1>2. PathLeft \in Int
  BY <1>1, PathIs DEF Places
<1> QED
  BY <1>1, <1>2, PathShrinks, MakerAssumption DEF CallsLeft

LEMMA CallsKept == Exchange => CallsLeft' = CallsLeft
BY DEF Exchange, Fill, ExchangeCancel, Arrive, CallsLeft, PathLeft

(* Every call of the engine brings its return nearer, whatever the         *)
(* exchange answers, and nothing the exchange does puts it off: an engine  *)
(* that goes on makes at most nine calls a turn and thirteen more.         *)
EveryCallCounts ==
  /\ [](CallsLeft \in 0 .. 9 * MaxTurns + 13)
  /\ [][(Engine => CallsLeft' < CallsLeft) /\ (Exchange => CallsLeft' = CallsLeft)]_makerVars
THEOREM MakerRunsOut == MakerSpec => EveryCallCounts
<1>1. MakerTypeOK => (Engine => CallsLeft' < CallsLeft) /\ (Exchange => CallsLeft' = CallsLeft)
  BY CallsShrink, CallsKept
<1> QED
  BY <1>1, CallsBounded, MakerTyped, PTL DEF EveryCallCounts

=============================================================================
