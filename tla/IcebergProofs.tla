---------------------------- MODULE IcebergProofs ----------------------------
(***************************************************************************)
(* Proofs about the iceberg executor, for every target, child size, number *)
(* of slots, budget and runtime: its values keep their types, at most one  *)
(* order works out of its sight, no more than Slots others rest at the     *)
(* exchange, a stopped run leaves nothing behind and the budget of cancels *)
(* is kept.                                                                *)
(*                                                                         *)
(* The argument: an active child has a link id below the counter and the   *)
(* code's placements use the counter's own (Known), so whatever works and  *)
(* is not an active child has the counter's link id; a pass places no more *)
(* children than it found slots (Pass); the cancel pass keeps every        *)
(* resting child on its list until its cancel (Settled).                   *)
(*                                                                         *)
(* What is executed, working and counted are sums over the orders.  Each   *)
(* step changes one order at most, and a sum by as much (the lemmas of     *)
(* Sums); Within then bounds executed and working units by the target, and *)
(* AllRead says when the code has counted everything.  The run ends since  *)
(* every call lowers a number the exchange cannot raise (CallsLeft).       *)
(***************************************************************************)
EXTENDS Iceberg, Sums

(* The orders of the exchange and what the code has read of them.          *)
Trade ==
  /\ order \in [Links -> Orders]
  /\ \A k \in Links : Open(k) => order[k].filled < order[k].qty
  /\ \A k \in Links : order[k].state \in {"unsent", "late"} => order[k].filled = 0
  /\ seen \in [Links -> Nat]
  /\ \A k \in Links : seen[k] <= order[k].filled
  /\ total \in Nat

(* Where the program is.                                                   *)
Control ==
  /\ spent \in Nat /\ round \in 0..MaxRounds
  /\ mode \in Modes /\ pc \in Places
  /\ status \in {"aborted", "partial", "done"}
  /\ lost \subseteq {"place", "status", "cancel"}

(* The children of the code.                                               *)
Known ==
  /\ next \in 0..MaxChildren
  /\ active \subseteq Links /\ todo \subseteq active
  /\ \A k \in active : k < next /\ order[k].state # "late"

(* The room for children.                                                  *)
Pass ==
  /\ tries \in 0..Slots
  /\ Cardinality(active) <= Slots
  /\ pc = "place" => tries + Cardinality(active) <= Slots

NoStray == "place" \notin lost => \A k \in Links : Open(k) => k \in active

Closed == \A k \in Links : ~Open(k)

(* What is left to cancel, and what is left when the run ends.             *)
Settled ==
  lost \cap {"place", "cancel"} = {} =>
    /\ pc = "start" => Closed
    /\ pc = "cancel" => \A k \in Links : Open(k) => k \in todo
    /\ pc = "finalPoll" => Closed \/ (mode = "done" /\ Remaining < MinQty)
    /\ pc = "done" => Closed \/ status = "done"

(* The budget at each place of the loop.                                   *)
Budget ==
  /\ pc \in {"place", "poll", "book"} => spent < MaxCancels
  /\ pc \in {"start", "loop"} => spent = 0 \/ spent < MaxCancels + Slots
  /\ pc = "cancel" =>
       \/ spent = 0 /\ todo = {}
       \/ spent + Cardinality(todo) < MaxCancels + 2 * Slots
  /\ BudgetKept

IcebergInv ==
  Trade /\ Control /\ Known /\ Pass /\ OneStray /\ NoStray /\ Settled /\ Budget

-----------------------------------------------------------------------------
(* Sets of children are finite, and a part of one is no larger.            *)
LEMMA ChildrenFinite ==
  ASSUME NEW S, S \subseteq Links
  PROVE  IsFiniteSet(S) /\ Cardinality(S) \in Nat
<1>1. IsFiniteSet(Links)
  BY FS_Interval, IcebergAssumption DEF Links
<1> QED
  BY <1>1, FS_Subset, FS_CardinalityType

LEMMA PartSmaller ==
  ASSUME NEW S, NEW T, S \subseteq T, T \subseteq Links
  PROVE  Cardinality(S) \in Nat /\ Cardinality(T) \in Nat
         /\ Cardinality(S) <= Cardinality(T)
BY ChildrenFinite, FS_Subset

LEMMA OneMore ==
  ASSUME NEW S, S \subseteq Links, NEW k
  PROVE  Cardinality(S \cup {k}) <= Cardinality(S) + 1
<1>1. IsFiniteSet(S) /\ Cardinality(S) \in Nat
  BY ChildrenFinite
<1>2. Cardinality(S \cup {k}) = IF k \in S THEN Cardinality(S) ELSE Cardinality(S) + 1
  BY <1>1, FS_AddElement
<1> QED
  BY <1>1, <1>2

LEMMA OneFewer ==
  ASSUME NEW S, S \subseteq Links, NEW k \in S
  PROVE  Cardinality(S \ {k}) = Cardinality(S) - 1
BY ChildrenFinite, FS_RemoveElement

(* The exchange may only execute or end what is open.                      *)
LEMMA ExchangeEffect ==
  ASSUME Trade, Exchange
  PROVE  /\ Trade'
         /\ \A k \in Links : Open(k)' => Open(k)
         /\ \A k \in Links : order'[k].state = "late" => order[k].state = "late"
<1>1. PICK k \in Links : Fill(k) \/ End(k) \/ Arrive(k)
  BY DEF Exchange
<1>2. UNCHANGED <<seen, total>>
  BY DEF Exchange
<1>3. CASE Fill(k)
  <2>1. order[k].filled + 1 \in 0..ChildQty /\ order[k].filled + 1 <= order[k].qty
    BY <1>3, IcebergAssumption DEF Fill, Trade, Orders, Open
  <2> QED
    BY <1>2, <1>3, <2>1 DEF Fill, Trade, Orders, Open
<1>4. CASE End(k)
  BY <1>2, <1>4 DEF End, Trade, Orders, Open
<1>5. CASE Arrive(k)
  BY <1>2, <1>5 DEF Arrive, Trade, Orders, Open
<1> QED
  BY <1>1, <1>3, <1>4, <1>5

(* A placement puts an order with the counter's link id.                   *)
LEMMA PutEffect ==
  ASSUME Trade, NEW q \in MinQty..ChildQty, NEW s \in {"live", "late"},
         Fresh, Put(q, s), seen' = seen, total' = total
  PROVE  /\ Trade'
         /\ order'[next].state = s
         /\ \A k \in Links : k # next => order'[k] = order[k]
<1> DEFINE r == [qty |-> q, filled |-> 0, state |-> s]
<1>1. r \in Orders /\ 0 < q
  BY IcebergAssumption DEF Orders
<1>2. next \in Links /\ order' = [order EXCEPT ![next] = r]
  BY DEF Put, Fresh
<1>3. order' \in [Links -> Orders] /\ order'[next] = r
  BY <1>1, <1>2 DEF Trade
<1>4. \A k \in Links : k # next => order'[k] = order[k]
  BY <1>2 DEF Trade
<1>5. seen[next] <= 0
  BY <1>2 DEF Fresh, Trade
<1> QED
  BY <1>1, <1>2, <1>3, <1>4, <1>5 DEF Trade, Open, Orders

-----------------------------------------------------------------------------
(* Trade: only polls count, and only what the order of the child says.     *)
LEMMA CountEffect ==
  ASSUME Trade, NEW k \in Links, UNCHANGED order,
         (Count(k) /\ UNCHANGED lost) \/ Uncounted
  PROVE  Trade' /\ total' >= total
<1>1. CASE Uncounted
  BY <1>1 DEF Uncounted, Trade, Open
<1>2. CASE Count(k)
  <2>1. order[k].filled \in Nat /\ order[k].filled - seen[k] \in Nat
    BY DEF Trade, Orders
  <2> QED
    BY <1>2, <2>1 DEF Count, Trade, Open
<1> QED
  BY <1>1, <1>2

LEMMA TradeStep ==
  ASSUME Trade, Known, [Next]_vars
  PROVE  Trade'
<1> USE DEF Trade, Open
<1>1. CASE Exchange
  BY <1>1, ExchangeEffect
<1>2. CASE Accepted
  BY <1>2, PutEffect DEF Accepted
<1>3. CASE LostPlacement
  BY <1>3, PutEffect DEF LostPlacement
<1>4. ASSUME NEW k \in todo, Poll(k) \/ FinalPoll(k)
      PROVE  Trade'
  <2>1. k \in Links /\ UNCHANGED order
    BY <1>4 DEF Known, Poll, FinalPoll
  <2>2. (Count(k) /\ UNCHANGED lost) \/ Uncounted
    BY <1>4 DEF Poll, FinalPoll
  <2> QED
    BY <2>1, <2>2, CountEffect
<1>5. ASSUME NEW k \in todo, CancelChild(k)
      PROVE  Trade'
  BY <1>5 DEF CancelChild, Known, Orders
<1>6. CASE Start \/ Timeout \/ OutOfCancels \/ StartPlacing \/ Replenish \/ StartPolling
           \/ Refused \/ Placed \/ Judge \/ Guards \/ Cancelled \/ Finish
  <2>1. UNCHANGED <<order, seen, total>>
    BY <1>6 DEF Start, Timeout, OutOfCancels, StartPlacing, Replenish, StartPolling,
                Refused, Placed, Judge, Guards, BookUnread, Breached, Reprice,
                Cancelled, Finish
  <2> QED
    BY <2>1
<1>7. CASE UNCHANGED vars
  BY <1>7 DEF vars
<1> QED
  BY <1>1, <1>2, <1>3, <1>4, <1>5, <1>6, <1>7 DEF Next, Engine

LEMMA ControlStep ==
  ASSUME Trade, Control, Known, [Next]_vars
  PROVE  Control'
<1> USE DEF Control, Modes, Places
<1>1. CASE Exchange \/ UNCHANGED vars
  BY <1>1 DEF Exchange, vars
<1>2. CASE Accepted \/ Refused \/ LostPlacement \/ Placed
  BY <1>2 DEF Accepted, Refused, LostPlacement, Placed
<1>3. ASSUME NEW k \in todo, Poll(k) \/ FinalPoll(k) \/ CancelChild(k)
      PROVE  Control'
  BY <1>3 DEF Poll, FinalPoll, CancelChild, Uncounted
<1>4. CASE Start \/ Timeout \/ OutOfCancels \/ StartPlacing \/ Replenish
  BY <1>4 DEF Start, Timeout, OutOfCancels, StartPlacing, Replenish, CancelAll, Going
<1>5. CASE StartPolling
  BY <1>5, IcebergAssumption DEF StartPolling, Going
<1>6. CASE Judge \/ Cancelled \/ Finish
  BY <1>6 DEF Judge, Cancelled, Finish
<1>7. CASE Guards
  <2>1. \A A \in SUBSET {k \in active : order[k].state = "live"} : Cardinality(A) \in Nat
    BY ChildrenFinite DEF Known
  <2> QED
    BY <1>7, <2>1 DEF Guards, BookUnread, Breached, Reprice, CancelAll
<1> QED
  BY <1>1, <1>2, <1>3, <1>4, <1>5, <1>6, <1>7 DEF Next, Engine

(* Known: a placement the code knows of uses the counter up.               *)
LEMMA KnownStep ==
  ASSUME Trade, Known, [Next]_vars
  PROVE  Known'
<1> USE DEF Known
<1>1. CASE Exchange
  <2>1. UNCHANGED <<active, next, todo>>
    BY <1>1 DEF Exchange
  <2> QED
    BY <1>1, <2>1, ExchangeEffect
<1>2. CASE Accepted
  <2>1. PICK q \in MinQty..ChildQty : Put(q, "live")
    BY <1>2 DEF Accepted
  <2>2. Fresh /\ UNCHANGED <<seen, total, todo>>
        /\ active' = active \cup {next} /\ next' = next + 1
    BY <1>2 DEF Accepted
  <2>3. order'[next].state = "live" /\ \A k \in Links : k # next => order'[k] = order[k]
    BY <2>1, <2>2, PutEffect
  <2>4. next \in Links /\ next + 1 \in 0..MaxChildren
    BY <2>2, IcebergAssumption DEF Fresh, Links
  <2>5. \A k \in active' : k < next' /\ order'[k].state # "late"
    BY <2>2, <2>3, <2>4 DEF Links
  <2> QED
    BY <2>2, <2>4, <2>5
<1>3. CASE LostPlacement
  <2>1. PICK q \in MinQty..ChildQty, s \in {"live", "late"} : Put(q, s)
    BY <1>3 DEF LostPlacement
  <2>2. Fresh /\ UNCHANGED <<seen, total, todo, active, next>>
    BY <1>3 DEF LostPlacement
  <2>3. \A k \in Links : k # next => order'[k] = order[k]
    BY <2>1, <2>2, PutEffect
  <2> QED
    BY <2>2, <2>3 DEF Links
<1>4. ASSUME NEW k \in todo, Poll(k) \/ FinalPoll(k)
      PROVE  Known'
  <2>1. active' \subseteq active /\ todo' \subseteq active'
    BY <1>4 DEF Poll, FinalPoll
  <2>2. UNCHANGED <<order, next>>
    BY <1>4 DEF Poll, FinalPoll
  <2> QED
    BY <2>1, <2>2
<1>5. ASSUME NEW k \in todo, CancelChild(k)
      PROVE  Known'
  BY <1>5 DEF CancelChild, Trade, Orders
<1>6. CASE Start \/ Timeout \/ OutOfCancels \/ StartPlacing \/ Replenish \/ StartPolling
           \/ Refused \/ Placed \/ Judge \/ Guards \/ Cancelled \/ Finish
  <2>1. UNCHANGED <<order, active, next>>
    BY <1>6 DEF Start, Timeout, OutOfCancels, StartPlacing, Replenish, StartPolling,
                Refused, Placed, Judge, Guards, BookUnread, Breached, Reprice,
                Cancelled, Finish
  <2>2. todo' \in {todo, active, {}}
    BY <1>6 DEF Start, Timeout, OutOfCancels, StartPlacing, Replenish, StartPolling,
                Refused, Placed, Judge, Guards, BookUnread, Breached, Reprice,
                Cancelled, Finish, CancelAll
  <2> QED
    BY <2>1, <2>2
<1>7. CASE UNCHANGED vars
  BY <1>7 DEF vars
<1> QED
  BY <1>1, <1>2, <1>3, <1>4, <1>5, <1>6, <1>7 DEF Next, Engine

-----------------------------------------------------------------------------
(* What works at the exchange is an active child, or the order of a lost   *)
(* placement, which has the counter's link id.                             *)
LEMMA StrayStep ==
  ASSUME Trade, Known, OneStray, NoStray, [Next]_vars
  PROVE  OneStray' /\ NoStray'
<1> USE DEF OneStray, NoStray, Open
<1>1. CASE Exchange
  <2>1. UNCHANGED <<active, next, lost>>
    BY <1>1 DEF Exchange
  <2> QED
    BY <1>1, <2>1, ExchangeEffect
<1>2. CASE Accepted
  <2>1. PICK q \in MinQty..ChildQty : Put(q, "live")
    BY <1>2 DEF Accepted
  <2>2. Fresh /\ UNCHANGED <<seen, total, lost>> /\ active' = active \cup {next}
    BY <1>2 DEF Accepted
  <2>3. \A k \in Links : k # next => order'[k] = order[k]
    BY <2>1, <2>2, PutEffect
  <2> QED
    BY <2>2, <2>3
<1>3. CASE LostPlacement
  <2>1. PICK q \in MinQty..ChildQty, s \in {"live", "late"} : Put(q, s)
    BY <1>3 DEF LostPlacement
  <2>2. Fresh /\ UNCHANGED <<seen, total, active, next>> /\ "place" \in lost'
    BY <1>3 DEF LostPlacement
  <2>3. \A k \in Links : k # next => order'[k] = order[k]
    BY <2>1, <2>2, PutEffect
  <2> QED
    BY <2>2, <2>3
<1>4. ASSUME NEW k \in todo, Poll(k)
      PROVE  OneStray' /\ NoStray'
  <2>1. active' = active \/ (active' = active \ {k} /\ Done(k))
    BY <1>4 DEF Poll
  <2>2. UNCHANGED <<order, next>> /\ ("place" \notin lost' => "place" \notin lost)
    BY <1>4 DEF Poll, Uncounted
  <2> QED
    BY <2>1, <2>2 DEF Done
<1>5. ASSUME NEW k \in todo, CancelChild(k) \/ FinalPoll(k)
      PROVE  OneStray' /\ NoStray'
  <2>1. UNCHANGED <<active, next>> /\ ("place" \notin lost' => "place" \notin lost)
    BY <1>5 DEF CancelChild, FinalPoll, Uncounted
  <2>2. \A j \in Links : Open(j)' => Open(j)
    BY <1>5 DEF CancelChild, FinalPoll, Trade
  <2> QED
    BY <2>1, <2>2
<1>6. CASE Start \/ Timeout \/ OutOfCancels \/ StartPlacing \/ Replenish \/ StartPolling
           \/ Refused \/ Placed \/ Judge \/ Guards \/ Cancelled \/ Finish
  <2>1. UNCHANGED <<order, active, next, lost>>
    BY <1>6 DEF Start, Timeout, OutOfCancels, StartPlacing, Replenish, StartPolling,
                Refused, Placed, Judge, Guards, BookUnread, Breached, Reprice,
                Cancelled, Finish
  <2> QED
    BY <2>1
<1>7. CASE UNCHANGED vars
  BY <1>7 DEF vars
<1> QED
  BY <1>1, <1>2, <1>3, <1>4, <1>5, <1>6, <1>7 DEF Next, Engine

(* A pass places no more children than it found free slots.                *)
LEMMA PassStep ==
  ASSUME Control, Known, Known', Pass, [Next]_vars
  PROVE  Pass'
<1> USE IcebergAssumption DEF Pass
<1>0. Cardinality(active) \in Nat
  BY ChildrenFinite DEF Known
<1>1. CASE Exchange \/ UNCHANGED vars
  BY <1>1 DEF Exchange, vars
<1>2. CASE Accepted
  <2>1. Cardinality(active') <= Cardinality(active) + 1
    BY <1>2, OneMore DEF Accepted, Known
  <2>2. Cardinality(active') \in Nat
    BY ChildrenFinite DEF Known
  <2> QED
    BY <1>0, <1>2, <2>1, <2>2 DEF Accepted, Placing
<1>3. CASE Refused \/ LostPlacement
  BY <1>0, <1>3 DEF Refused, LostPlacement, Placing
<1>4. CASE StartPlacing \/ Replenish
  <2>1. FreeSlots \in 0..Slots /\ FreeSlots + Cardinality(active) <= Slots
    BY <1>0 DEF FreeSlots
  <2> QED
    BY <1>0, <1>4, <2>1 DEF StartPlacing, Replenish, Going
<1>5. ASSUME NEW k \in todo, Poll(k) \/ FinalPoll(k) \/ CancelChild(k)
      PROVE  Pass'
  <2>1. active' \subseteq active
    BY <1>5 DEF Poll, FinalPoll, CancelChild
  <2>2. Cardinality(active') <= Cardinality(active) /\ Cardinality(active') \in Nat
    BY <2>1, PartSmaller DEF Known
  <2>3. tries' = tries /\ pc' = pc /\ pc # "place"
    BY <1>5 DEF Poll, FinalPoll, CancelChild
  <2> QED
    BY <1>0, <2>2, <2>3
<1>6. CASE Start \/ Timeout \/ OutOfCancels \/ StartPolling \/ Judge \/ Guards
           \/ Cancelled \/ Finish
  <2>1. UNCHANGED <<active, tries>>
    BY <1>6 DEF Start, Timeout, OutOfCancels, StartPolling, Judge, Guards,
                BookUnread, Breached, Reprice, Cancelled, Finish
  <2>2. pc' # "place"
    BY <1>6 DEF Start, Timeout, OutOfCancels, StartPolling, Judge, Guards,
                BookUnread, Breached, Reprice, Cancelled, Finish, CancelAll
  <2> QED
    BY <2>1, <2>2
<1>7. CASE Placed
  <2>1. tries' = 0 /\ active' = active /\ pc' # "place"
    BY <1>7 DEF Placed
  <2> QED
    BY <2>1
<1> QED
  BY <1>1, <1>2, <1>3, <1>4, <1>5, <1>6, <1>7 DEF Next, Engine

(* What is counted no longer remains.                                      *)
LEMMA Subtract ==
  ASSUME NEW a \in Nat, NEW b \in Nat, NEW t \in Nat, a <= b
  PROVE  t - b <= t - a /\ t - a \in Int /\ t - b \in Int
OBVIOUS

LEMMA LessRemains ==
  ASSUME total \in Nat, total' \in Nat, total' >= total
  PROVE  Remaining' <= Remaining /\ Remaining \in Int /\ Remaining' \in Int
<1>1. Target \in Nat
  BY IcebergAssumption
<1>2. total <= total'
  OBVIOUS
<1> QED
  BY <1>1, <1>2, Subtract DEF Remaining

(* The end of the run.                                                     *)
LEMMA SettledStep ==
  ASSUME Trade, Trade', Control, Known, NoStray, Settled, [Next]_vars
  PROVE  Settled'
<1> USE DEF Settled, Closed
<1>1. CASE Exchange
  <2>1. UNCHANGED <<total, mode, pc, todo, status, lost>>
    BY <1>1 DEF Exchange
  <2>2. \A k \in Links : Open(k)' => Open(k)
    BY <1>1, ExchangeEffect
  <2> QED
    BY <2>1, <2>2 DEF Remaining
<1>2. CASE Accepted \/ Refused \/ LostPlacement
  BY <1>2 DEF Accepted, Refused, LostPlacement, Placing
<1>3. CASE Start
  <2>1. UNCHANGED <<order, lost>> /\ pc = "start" /\ pc' \in {"loop", "done"}
    BY <1>3 DEF Start
  <2> QED
    BY <2>1 DEF Open
<1>4. CASE Timeout \/ OutOfCancels \/ Guards
  <2>1. UNCHANGED <<order, lost>>
        /\ (pc' = "loop" \/ (pc' = "cancel" /\ todo' = active))
    BY <1>4 DEF Timeout, OutOfCancels, Guards, BookUnread, Breached, Reprice, CancelAll
  <2> QED
    BY <2>1 DEF NoStray, Open
<1>5. CASE StartPlacing \/ Replenish \/ StartPolling
  <2>1. pc' \in {"loop", "place", "poll"}
    BY <1>5 DEF StartPlacing, Replenish, StartPolling, Going
  <2> QED
    BY <2>1
<1>6. CASE Placed
  <2>1. UNCHANGED <<order, lost>>
        /\ (pc' = "loop" \/ (pc' = "finalPoll" /\ active = {}))
    BY <1>6 DEF Placed
  <2> QED
    BY <2>1 DEF NoStray, Open
<1>7. CASE Judge
  <2>1. \/ pc' \in {"loop", "book"}
        \/ pc' = "finalPoll" /\ mode' = "done" /\ Remaining < MinQty /\ total' = total
    BY <1>7 DEF Judge
  <2> QED
    BY <2>1 DEF Remaining
<1>8. ASSUME NEW k \in todo, Poll(k)
      PROVE  Settled'
  BY <1>8 DEF Poll
<1>9. ASSUME NEW k \in todo, CancelChild(k)
      PROVE  Settled'
  <2>1. pc = "cancel" /\ pc' = "cancel" /\ todo' = todo \ {k}
    BY <1>9 DEF CancelChild
  <2>2. CASE lost' \cap {"place", "cancel"} = {}
    <3>1. lost' = lost /\ order[k].state # "late" /\ k \in Links
      BY <1>9, <2>2 DEF CancelChild, Known
    <3>2. ~Open(k)' /\ \A j \in Links : Open(j)' => Open(j)
      <4>1. \/ order' = [order EXCEPT ![k].state = "cancelled"]
            \/ order' = order /\ order[k].state # "live"
        BY <1>9, <2>2 DEF CancelChild
      <4>2. order'[k].state \notin {"live", "late"}
        BY <3>1, <4>1 DEF Trade, Orders
      <4>3. \A j \in Links : j # k => order'[j] = order[j]
        BY <4>1 DEF Trade
      <4> QED
        BY <4>2, <4>3 DEF Open
    <3> QED
      BY <2>1, <2>2, <3>1, <3>2
  <2> QED
    BY <2>1, <2>2
<1>10. CASE Cancelled
  BY <1>10 DEF Cancelled, Open
<1>11. ASSUME NEW k \in todo, FinalPoll(k)
       PROVE  Settled'
  <2>1. UNCHANGED <<order, mode, pc>> /\ pc = "finalPoll"
        /\ lost \subseteq lost' /\ k \in Links
    BY <1>11 DEF FinalPoll, Uncounted, Known
  <2>2. total' >= total
    BY <1>11, <2>1, CountEffect DEF FinalPoll
  <2>3. Remaining' <= Remaining /\ Remaining \in Int /\ Remaining' \in Int
    <3>1. total \in Nat /\ total' \in Nat /\ Target \in Nat
      BY IcebergAssumption DEF Trade
    <3> QED
      BY <2>2, <3>1, LessRemains
  <2>4. Remaining < MinQty => Remaining' < MinQty
    BY <2>3, IcebergAssumption
  <2> QED
    BY <2>1, <2>4 DEF Open
<1>12. CASE Finish
  <2>1. pc = "finalPoll" /\ pc' = "done" /\ UNCHANGED <<order, lost>>
        /\ (mode = "done" /\ Remaining < MinQty => status' = "done")
    BY <1>12 DEF Finish
  <2> QED
    BY <2>1 DEF Open
<1>13. CASE UNCHANGED vars
  BY <1>13 DEF vars, Open, Remaining
<1> QED
  BY <1>1, <1>2, <1>3, <1>4, <1>5, <1>6, <1>7, <1>8, <1>9, <1>10, <1>11, <1>12, <1>13
     DEF Next, Engine

(* The budget of amendments and cancels.                                   *)
LEMMA BudgetStep ==
  ASSUME Control, Known, Pass, Budget, [Next]_vars
  PROVE  Budget'
<1> USE IcebergAssumption DEF Budget, BudgetKept
<1>0. /\ Cardinality(active) \in 0..Slots
      /\ Cardinality(todo) \in Nat /\ spent \in Nat
  BY ChildrenFinite DEF Known, Pass, Control
<1>1. CASE Exchange \/ UNCHANGED vars
  BY <1>1 DEF Exchange, vars
<1>2. CASE Accepted \/ Refused \/ LostPlacement
  BY <1>2 DEF Accepted, Refused, LostPlacement, Placing
<1>3. CASE Start \/ Placed
  BY <1>0, <1>3 DEF Start, Placed
<1>4. CASE StartPlacing \/ Replenish \/ StartPolling
  BY <1>0, <1>4 DEF StartPlacing, Replenish, StartPolling, Going
<1>5. CASE Judge \/ Cancelled \/ Finish
  BY <1>0, <1>5 DEF Judge, Cancelled, Finish
<1>6. CASE Timeout \/ OutOfCancels
  <2>1. pc = "loop" /\ pc' = "cancel" /\ todo' = active /\ spent' = spent
    BY <1>6 DEF Timeout, OutOfCancels, CancelAll
  <2>2. Cardinality(active) = 0 => active = {}
    BY ChildrenFinite, FS_EmptySet DEF Known
  <2>3. spent = 0 /\ Slots # 0 => spent + Cardinality(active) < MaxCancels + 2 * Slots
    BY <1>0
  <2>4. Slots = 0 => active = {}
    BY <1>0, <2>2
  <2>5. spent < MaxCancels + Slots => spent + Cardinality(active) < MaxCancels + 2 * Slots
    BY <1>0
  <2> QED
    BY <2>1, <2>3, <2>4, <2>5
<1>7. CASE Guards
  <2>1. spent < MaxCancels
    BY <1>7 DEF Guards, BookUnread, Breached, Reprice
  <2>2. CASE pc' = "loop" /\ spent' = spent
    BY <1>0, <2>1, <2>2
  <2>3. CASE pc' = "cancel" /\ todo' = active /\ spent' = spent
    BY <1>0, <2>1, <2>3
  <2>4. ASSUME NEW A \in SUBSET {k \in active : order[k].state = "live"},
               spent' = spent + Cardinality(A), pc' = "loop"
        PROVE  Budget'
    <3>1. Cardinality(A) \in Nat /\ Cardinality(A) <= Cardinality(active)
      BY PartSmaller DEF Known
    <3> QED
      BY <1>0, <2>1, <2>4, <3>1
  <2> QED
    BY <1>7, <2>2, <2>3, <2>4 DEF Guards, BookUnread, Breached, Reprice, CancelAll
<1>8. ASSUME NEW k \in todo, Poll(k) \/ FinalPoll(k)
      PROVE  Budget'
  BY <1>8 DEF Poll, FinalPoll
<1>9. ASSUME NEW k \in todo, CancelChild(k)
      PROVE  Budget'
  <2>1. Cardinality(todo') = Cardinality(todo) - 1
    BY <1>9, OneFewer DEF CancelChild, Known
  <2>2. todo # {} /\ pc = "cancel" /\ pc' = "cancel" /\ spent' \in {spent, spent + 1}
    BY <1>9 DEF CancelChild
  <2>3. spent + Cardinality(todo) < MaxCancels + 2 * Slots
    BY <2>2
  <2>4. Cardinality(todo') \in Nat
    BY <1>9, ChildrenFinite DEF CancelChild, Known
  <2> QED
    BY <1>0, <2>1, <2>2, <2>3, <2>4
<1> QED
  BY <1>1, <1>2, <1>3, <1>4, <1>5, <1>6, <1>7, <1>8, <1>9 DEF Next, Engine

-----------------------------------------------------------------------------
LEMMA InitInv == Init => IcebergInv
<1> SUFFICES ASSUME Init PROVE IcebergInv
  OBVIOUS
<1>1. Trade /\ Control /\ Known /\ OneStray /\ NoStray /\ Settled
  BY IcebergAssumption
     DEF Init, Trade, Control, Known, OneStray, NoStray, Settled, Closed, Open, Orders,
         Unsent, Modes, Places
<1>2. Cardinality({}) = 0
  BY FS_EmptySet
<1>3. Pass /\ Budget
  BY <1>2, IcebergAssumption DEF Init, Pass, Budget, BudgetKept
<1> QED
  BY <1>1, <1>3 DEF IcebergInv

LEMMA InvStep == IcebergInv /\ [Next]_vars => IcebergInv'
<1> SUFFICES ASSUME IcebergInv, [Next]_vars PROVE IcebergInv'
  OBVIOUS
<1> USE DEF IcebergInv
<1>1. Trade' /\ Control' /\ Known'
  BY TradeStep, ControlStep, KnownStep
<1> QED
  BY <1>1, PassStep, StrayStep, SettledStep, BudgetStep

LEMMA Invariance == Spec => []IcebergInv
BY InitInv, InvStep, PTL DEF Spec

(* Every variable of the executor keeps its type.                          *)
THEOREM TypeCorrect == Spec => []IcebergTypeOK
<1>1. IcebergInv => IcebergTypeOK
  <2> SUFFICES ASSUME IcebergInv PROVE IcebergTypeOK
    OBVIOUS
  <2>1. seen \in [Links -> 0..ChildQty]
    BY IcebergAssumption DEF IcebergInv, Trade, Orders
  <2> QED
    BY <2>1 DEF IcebergInv, IcebergTypeOK, Trade, Control, Known, Pass
<1> QED
  BY <1>1, Invariance, PTL

(* Whatever calls are lost, at most one order works out of the code's      *)
(* sight: the one whose link id the next placement will use again.         *)
THEOREM AtMostOneStray == Spec => []OneStray
<1>1. IcebergInv => OneStray
  BY DEF IcebergInv
<1> QED
  BY <1>1, Invariance, PTL

(* No more than max_active_children orders rest at the exchange, but for   *)
(* the stray of a lost placement.                                          *)
THEOREM VisibleBounded == Spec => []Visible
<1>1. IcebergInv => Visible
  <2> SUFFICES ASSUME IcebergInv PROVE Visible
    OBVIOUS
  <2>1. {k \in Links : Open(k)} \ {next} \subseteq active /\ active \subseteq Links
    BY DEF IcebergInv, OneStray, Known
  <2>2. Cardinality({k \in Links : Open(k)} \ {next}) <= Cardinality(active)
        /\ Cardinality({k \in Links : Open(k)} \ {next}) \in Nat
        /\ Cardinality(active) \in Nat
    BY <2>1, PartSmaller
  <2> QED
    BY <2>2, IcebergAssumption DEF IcebergInv, Pass, Visible
<1> QED
  BY <1>1, Invariance, PTL

(* A run that does not end "done" leaves no order at the exchange, unless  *)
(* a placement or a cancel was lost.                                       *)
THEOREM StoppedClean == Spec => []StoppedLeavesNothing
<1>1. IcebergInv => StoppedLeavesNothing
  BY DEF IcebergInv, Settled, StoppedLeavesNothing, Stopped, Closed
<1> QED
  BY <1>1, Invariance, PTL

(* The amendments and cancels of a run stay near max_cancels.              *)
THEOREM BudgetBounded == Spec => []BudgetKept
<1>1. IcebergInv => BudgetKept
  BY DEF IcebergInv, Budget
<1> QED
  BY <1>1, Invariance, PTL

-----------------------------------------------------------------------------
(* The sums over the orders.  total is the sum of what was read (Booked),  *)
(* and what was not read of an order is in an active child or in the stray *)
(* with the counter's link id; so a placement, which subtracts what active *)
(* children may still fill and takes the stray's place or is refused, fits *)
(* into the target (PlacementFits), and nothing else adds to bought and    *)
(* resting (Within).                                                       *)

Booked ==
  /\ total = SumFunctionOnSet(seen, Links)
  /\ \A k \in Links : order[k].filled <= order[k].qty
  /\ \A k \in Links :
       k = next \/ k \in active \/ (~Open(k) /\ seen[k] = order[k].filled)

Within == Bought + Resting <= Target

(* What no placement has touched.                                          *)
Untouched ==
  /\ pc = "start" => active = {}
  /\ "place" \notin lost => \A k \in Links : k >= next => order[k].state = "unsent"

(* At the end everything is read, or less than the minimum is missing.     *)
AllRead ==
  lost = {} =>
    /\ pc = "finalPoll" =>
         \/ mode = "done" /\ Remaining < MinQty
         \/ Closed /\ \A k \in active \ todo : seen[k] = order[k].filled
    /\ pc = "done" =>
         \/ Remaining < MinQty
         \/ Closed /\ \A k \in Links : seen[k] = order[k].filled

(* What an order may still fill, and both parts for all orders.            *)
Rests(r) == IF r.state \in {"live", "late"} THEN r.qty - r.filled ELSE 0
FilledIn(o) == [k \in Links |-> o[k].filled]
RestingIn(o) == [k \in Links |-> Rests(o[k])]

LEMMA SumsAre ==
  /\ Bought = SumFunctionOnSet(FilledIn(order), Links)
  /\ Resting = SumFunctionOnSet(RestingIn(order), Links)
  /\ Bought' = SumFunctionOnSet(FilledIn(order'), Links)
  /\ Resting' = SumFunctionOnSet(RestingIn(order'), Links)
BY DEF Bought, Resting, SumFunction, FilledIn, RestingIn, Rests, Open

LEMMA SumsInt ==
  ASSUME NEW o \in [Links -> Orders]
  PROVE  /\ SumFunctionOnSet(FilledIn(o), Links) \in Nat
         /\ SumFunctionOnSet(RestingIn(o), Links) \in Int
<1>1. IsFiniteSet(Links)
  BY ChildrenFinite
<1>2. \A k \in Links : FilledIn(o)[k] \in Nat /\ RestingIn(o)[k] \in Int
  BY IcebergAssumption DEF Orders, FilledIn, RestingIn, Rests
<1> QED
  BY <1>1, <1>2, SumNat, SumInt

LEMMA OneChange ==
  ASSUME NEW o \in [Links -> Orders], NEW p \in [Links -> Orders], NEW k \in Links,
         \A j \in Links : j # k => p[j] = o[j]
  PROVE  /\ SumFunctionOnSet(FilledIn(p), Links)
              = SumFunctionOnSet(FilledIn(o), Links) + p[k].filled - o[k].filled
         /\ SumFunctionOnSet(RestingIn(p), Links)
              = SumFunctionOnSet(RestingIn(o), Links) + Rests(p[k]) - Rests(o[k])
<1>1. IsFiniteSet(Links)
  BY ChildrenFinite
<1>2. \A j \in Links : /\ FilledIn(o)[j] \in Int /\ FilledIn(p)[j] \in Int
                       /\ RestingIn(o)[j] \in Int /\ RestingIn(p)[j] \in Int
  BY IcebergAssumption DEF Orders, FilledIn, RestingIn, Rests
<1>3. \A j \in Links : j # k => FilledIn(o)[j] = FilledIn(p)[j]
                                /\ RestingIn(o)[j] = RestingIn(p)[j]
  BY DEF FilledIn, RestingIn
<1>4. /\ SumFunctionOnSet(FilledIn(p), Links)
           = SumFunctionOnSet(FilledIn(o), Links) + FilledIn(p)[k] - FilledIn(o)[k]
      /\ SumFunctionOnSet(RestingIn(p), Links)
           = SumFunctionOnSet(RestingIn(o), Links) + RestingIn(p)[k] - RestingIn(o)[k]
  BY <1>1, <1>2, <1>3, SumChange
<1> QED
  BY <1>4 DEF FilledIn, RestingIn

LEMMA ParentTypes ==
  ASSUME Trade
  PROVE  Bought \in Nat /\ Resting \in Nat
<1>1. \A k \in Links : RestingIn(order)[k] \in Nat
  BY IcebergAssumption DEF Trade, Orders, RestingIn, Rests, Open
<1>2. SumFunctionOnSet(RestingIn(order), Links) \in Nat
  BY <1>1, ChildrenFinite, SumNat
<1> QED
  BY <1>2, SumsAre, SumsInt DEF Trade

(* How the sums follow the exchange and the engine.                        *)
LEMMA FillSums ==
  ASSUME Trade, Trade', NEW k \in Links, Fill(k)
  PROVE  Bought' = Bought + 1 /\ Resting' = Resting - 1
<1> DEFINE n == order[k].filled + 1
<1>a. /\ order'[k] = [qty |-> order[k].qty, filled |-> n,
                       state |-> IF n = order[k].qty THEN "filled" ELSE "live"]
      /\ \A j \in Links : j # k => order'[j] = order[j]
  BY DEF Fill, Trade
<1>b. /\ order[k].qty \in Int /\ order[k].filled \in Int
      /\ order[k].filled < order[k].qty /\ order[k].state = "live"
  BY IcebergAssumption DEF Fill, Trade, Orders, Open
<1>1. /\ order'[k].filled = order[k].filled + 1
      /\ Rests(order'[k]) = Rests(order[k]) - 1
      /\ \A j \in Links : j # k => order'[j] = order[j]
  BY <1>a, <1>b DEF Rests
<1>2. order[k].filled \in Int /\ Rests(order[k]) \in Int
  BY IcebergAssumption DEF Trade, Orders, Rests
<1>3. order \in [Links -> Orders] /\ order' \in [Links -> Orders]
  BY DEF Trade
<1> QED
  BY <1>1, <1>2, <1>3, OneChange, SumsAre, SumsInt

LEMMA EndSums ==
  ASSUME Trade, Trade', NEW k \in Links, order[k].state = "live",
         NEW st \in {"cancelled", "rejected"},
         order' = [order EXCEPT ![k].state = st]
  PROVE  Bought' = Bought /\ Resting' < Resting
<1>1. /\ order'[k].filled = order[k].filled
      /\ Rests(order'[k]) = 0
      /\ \A j \in Links : j # k => order'[j] = order[j]
  BY DEF Trade, Orders, Rests
<1>2. order[k].filled \in Int /\ Rests(order[k]) \in Int /\ Rests(order[k]) > 0
  BY IcebergAssumption DEF Trade, Orders, Rests, Open
<1>3. order \in [Links -> Orders] /\ order' \in [Links -> Orders]
  BY DEF Trade
<1>4. /\ Bought' = Bought + order'[k].filled - order[k].filled
      /\ Resting' = Resting + Rests(order'[k]) - Rests(order[k])
  BY <1>1, <1>3, OneChange, SumsAre
<1>5. Bought \in Int /\ Resting \in Int
  BY ParentTypes
<1> QED
  BY <1>1, <1>2, <1>4, <1>5

LEMMA ArriveSums ==
  ASSUME Trade, Trade', NEW k \in Links, Arrive(k)
  PROVE  Bought' = Bought /\ Resting' = Resting
<1>1. /\ order'[k].filled = order[k].filled
      /\ Rests(order'[k]) = Rests(order[k])
      /\ \A j \in Links : j # k => order'[j] = order[j]
  BY DEF Arrive, Trade, Orders, Rests
<1>2. order[k].filled \in Int /\ Rests(order[k]) \in Int
  BY IcebergAssumption DEF Trade, Orders, Rests
<1>3. order \in [Links -> Orders] /\ order' \in [Links -> Orders]
  BY DEF Trade
<1> QED
  BY <1>1, <1>2, <1>3, OneChange, SumsAre, SumsInt

LEMMA PutSums ==
  ASSUME Trade, Trade', NEW q \in MinQty..ChildQty, NEW s \in {"live", "late"},
         Fresh, Put(q, s), seen' = seen, total' = total
  PROVE  Bought' = Bought
<1>1. next \in Links /\ order[next].filled = 0
  BY DEF Fresh, Trade
<1>2. order'[next].filled = 0 /\ \A j \in Links : j # next => order'[j] = order[j]
  BY <1>1, PutEffect DEF Put, Trade
<1>3. order \in [Links -> Orders] /\ order' \in [Links -> Orders]
  BY DEF Trade
<1> QED
  BY <1>1, <1>2, <1>3, OneChange, SumsAre, SumsInt

(* What active children may still fill is subtracted by _sum_active_unfilled *)
LEMMA UnfilledSum ==
  ASSUME Trade, Known
  PROVE  Unfilled = SumFunctionOnSet(
           [k \in Links |-> IF k \in active THEN order[k].qty - seen[k] ELSE 0], Links)
         /\ Unfilled \in Int
<1> DEFINE f == [k \in Links |-> order[k].qty - seen[k]]
           g == [k \in Links |-> IF k \in active THEN order[k].qty - seen[k] ELSE 0]
<1>1. IsFiniteSet(Links) /\ IsFiniteSet(active) /\ active \subseteq Links
  BY ChildrenFinite DEF Known
<1>2. \A k \in Links : f[k] \in Int /\ g[k] \in Int
  BY IcebergAssumption DEF Trade, Orders
<1>3. \A k \in active : f[k] = g[k]
  BY <1>1
<1>4. \A k \in Links \ active : g[k] = 0
  OBVIOUS
<1>5. Unfilled = SumFunctionOnSet(f, active)
  BY DEF Unfilled
<1> HIDE DEF f, g
<1>6. SumFunctionOnSet(f, active) = SumFunctionOnSet(g, active)
  BY <1>1, <1>2, <1>3, SumSame
<1>7. SumFunctionOnSet(g, active) = SumFunctionOnSet(g, Links)
  BY <1>1, <1>2, <1>4, SumPart
<1>8. SumFunctionOnSet(g, Links) \in Int
  BY <1>1, <1>2, SumInt
<1> QED
  BY <1>5, <1>6, <1>7, <1>8 DEF g

LEMMA PlacementFits ==
  ASSUME Trade, Trade', Known, Booked, NEW q \in MinQty..ChildQty,
         NEW s \in {"live", "late"}, q = ThisQty, Fresh, Put(q, s),
         seen' = seen, total' = total
  PROVE  Within'
<1> DEFINE unread == [k \in Links |-> IF k \in active THEN order[k].qty - seen[k] ELSE 0]
           held == [k \in Links |-> seen[k] + unread[k]]
           bound == [k \in Links |-> IF k = next THEN q ELSE held[k]]
           all == [k \in Links |-> order'[k].filled + Rests(order'[k])]
<1>1. IsFiniteSet(Links) /\ next \in Links /\ q \in Nat
  BY ChildrenFinite, IcebergAssumption DEF Fresh
<1>2. /\ order'[next] = [qty |-> q, filled |-> 0, state |-> s]
      /\ \A k \in Links : k # next => order'[k] = order[k]
  BY <1>1, PutEffect DEF Put, Trade
<1>3. /\ order \in [Links -> Orders] /\ order' \in [Links -> Orders]
      /\ seen \in [Links -> Nat] /\ total \in Nat
  BY DEF Trade
<1>4. seen[next] = 0 /\ next \notin active
  BY <1>1, <1>3 DEF Fresh, Trade, Known
<1>5. \A k \in Links : /\ unread[k] \in Int /\ held[k] \in Int /\ bound[k] \in Int
                       /\ all[k] \in Int /\ FilledIn(order')[k] \in Int
                       /\ RestingIn(order')[k] \in Int /\ seen[k] \in Int
  BY <1>1, <1>3, IcebergAssumption DEF Orders, FilledIn, RestingIn, Rests
<1>6. \A k \in Links : all[k] <= bound[k]
  <2> SUFFICES ASSUME NEW k \in Links
               PROVE  all[k] <= bound[k]
    OBVIOUS
  <2>1. CASE k = next
    BY <1>1, <1>2, <2>1 DEF Rests
  <2>2. CASE k # next /\ k \in active
    <3>1. order'[k].filled <= order'[k].qty /\ order'[k] \in Orders
      BY <1>2, <1>3, <2>2 DEF Booked
    <3>2. order'[k].filled + Rests(order'[k]) <= order'[k].qty
      BY <3>1, IcebergAssumption DEF Rests, Orders
    <3>3. bound[k] = order'[k].qty
      BY <1>2, <1>3, <2>2, IcebergAssumption DEF Orders
    <3> QED
      BY <3>2, <3>3
  <2>3. CASE k # next /\ k \notin active
    BY <1>2, <1>3, <2>3 DEF Booked, Rests, Open
  <2> QED
    BY <2>1, <2>2, <2>3
<1>7. held[next] = 0 /\ bound[next] = q /\ \A k \in Links : k # next => held[k] = bound[k]
  BY <1>1, <1>4
<1>8. \A k \in Links : /\ held[k] = seen[k] + unread[k]
                       /\ all[k] = FilledIn(order')[k] + RestingIn(order')[k]
  BY DEF FilledIn, RestingIn
<1>9. Unfilled = SumFunctionOnSet(unread, Links) /\ Unfilled \in Int
  BY UnfilledSum
<1> HIDE DEF unread, held, bound, all
<1>10. SumFunctionOnSet(all, Links) <= SumFunctionOnSet(bound, Links)
  BY <1>1, <1>5, <1>6, SumLess
<1>11. SumFunctionOnSet(bound, Links) = SumFunctionOnSet(held, Links) + bound[next] - held[next]
  BY <1>1, <1>5, <1>7, SumChange
<1>12. SumFunctionOnSet(held, Links)
         = SumFunctionOnSet(seen, Links) + SumFunctionOnSet(unread, Links)
  BY <1>1, <1>5, <1>8, SumPlus
<1>13. SumFunctionOnSet(all, Links)
         = SumFunctionOnSet(FilledIn(order'), Links)
           + SumFunctionOnSet(RestingIn(order'), Links)
  BY <1>1, <1>5, <1>8, SumPlus
<1>14. SumFunctionOnSet(held, Links) = total + Unfilled
  BY <1>9, <1>12 DEF Booked
<1>15. SumFunctionOnSet(all, Links) <= total + Unfilled + q
  BY <1>1, <1>3, <1>7, <1>9, <1>10, <1>11, <1>14
<1>16. q <= Target - total - Unfilled
  BY <1>1, <1>3, <1>9, IcebergAssumption DEF ThisQty, Lesser, Remaining
<1>17. SumFunctionOnSet(all, Links) \in Int
  BY <1>1, <1>5, SumInt
<1>18. Bought' + Resting' = SumFunctionOnSet(all, Links)
  BY <1>13, SumsAre
<1> QED
  BY <1>3, <1>9, <1>15, <1>16, <1>17, <1>18, IcebergAssumption DEF Within

-----------------------------------------------------------------------------
(* What a step does to the sums: executes a unit, withdraws, places what   *)
(* fits, or neither.                                                       *)
LEMMA SumsStep ==
  ASSUME Trade, Trade', Known, Booked, [Next]_vars
  PROVE  \/ Bought' = Bought /\ Resting' = Resting
         \/ Bought' = Bought + 1 /\ Resting' = Resting - 1 /\ pc' = pc
         \/ Bought' = Bought /\ Resting' < Resting /\ pc' = pc
         \/ Bought' = Bought /\ Within' /\ pc = "place" /\ pc' = pc
<1>1. CASE Exchange
  <2>1. PICK k \in Links : Fill(k) \/ End(k) \/ Arrive(k)
    BY <1>1 DEF Exchange
  <2>2. pc' = pc
    BY <1>1 DEF Exchange
  <2>3. End(k) => \E st \in {"cancelled", "rejected"} :
                    order[k].state = "live" /\ order' = [order EXCEPT ![k].state = st]
    BY DEF End
  <2> QED
    BY <2>1, <2>2, <2>3, FillSums, EndSums, ArriveSums
<1>2. CASE Accepted \/ LostPlacement
  <2>1. PICK q \in MinQty..ChildQty, s \in {"live", "late"} : q = ThisQty /\ Put(q, s)
    BY <1>2 DEF Accepted, LostPlacement
  <2>2. Fresh /\ UNCHANGED <<seen, total, pc>> /\ pc = "place"
    BY <1>2 DEF Accepted, LostPlacement, Placing
  <2> QED
    BY <2>1, <2>2, PutSums, PlacementFits
<1>3. ASSUME NEW k \in todo, CancelChild(k)
      PROVE  \/ Bought' = Bought /\ Resting' = Resting
             \/ Bought' = Bought /\ Resting' < Resting /\ pc' = pc
  <2>1. k \in Links /\ pc' = pc
    BY <1>3 DEF CancelChild, Known
  <2>2. CASE order' = order
    BY <2>2, SumsAre
  <2>3. CASE order[k].state = "live" /\ order' = [order EXCEPT ![k].state = "cancelled"]
    BY <2>1, <2>3, EndSums
  <2> QED
    BY <1>3, <2>2, <2>3 DEF CancelChild
<1>4. CASE UNCHANGED order
  BY <1>4, SumsAre
<1>5. ASSUME NEW k \in todo, Poll(k) \/ FinalPoll(k)
      PROVE  UNCHANGED order
  BY <1>5 DEF Poll, FinalPoll
<1>6. CASE Start \/ Timeout \/ OutOfCancels \/ StartPlacing \/ Replenish \/ StartPolling
           \/ Refused \/ Placed \/ Judge \/ Guards \/ Cancelled \/ Finish
  <2>1. UNCHANGED order
    BY <1>6 DEF Start, Timeout, OutOfCancels, StartPlacing, Replenish, StartPolling,
                Refused, Placed, Judge, Guards, BookUnread, Breached, Reprice,
                Cancelled, Finish
  <2> QED
    BY <2>1, <1>4
<1>7. CASE UNCHANGED vars
  BY <1>4, <1>7 DEF vars
<1> QED
  BY <1>1, <1>2, <1>3, <1>4, <1>5, <1>6, <1>7 DEF Next, Engine

LEMMA SumsDrop ==
  ASSUME NEW b \in Int, NEW r \in Int, NEW b2 \in Int, NEW r2 \in Int, NEW t \in Int,
         b + r <= t,
         \/ b2 = b /\ r2 = r
         \/ b2 = b + 1 /\ r2 = r - 1
         \/ b2 = b /\ r2 < r
  PROVE  b2 + r2 <= t
OBVIOUS

LEMMA WithinStep ==
  ASSUME Trade, Trade', Known, Booked, Within, [Next]_vars
  PROVE  Within'
<1>1. Bought \in Int /\ Resting \in Int
  BY ParentTypes
<1>2. Bought' \in Int /\ Resting' \in Int
  BY SumsAre, SumsInt DEF Trade
<1>3. CASE Within'
  BY <1>3
<1>4. CASE \/ Bought' = Bought /\ Resting' = Resting
           \/ Bought' = Bought + 1 /\ Resting' = Resting - 1
           \/ Bought' = Bought /\ Resting' < Resting
  <2>1. Bought + Resting <= Target /\ Target \in Int
    BY IcebergAssumption DEF Within
  <2>2. Bought' + Resting' <= Target
    BY <1>1, <1>2, <1>4, <2>1, SumsDrop
  <2> QED
    BY <2>2 DEF Within
<1> QED
  BY <1>3, <1>4, SumsStep

(* The books follow the polls.                                             *)
LEMMA CountBooks ==
  ASSUME Trade, Booked, NEW k \in Links, Count(k)
  PROVE  total' = SumFunctionOnSet(seen', Links)
         /\ seen'[k] = order[k].filled
         /\ \A j \in Links : j # k => seen'[j] = seen[j]
<1>1. IsFiniteSet(Links) /\ order[k].filled \in Int
  BY ChildrenFinite, IcebergAssumption DEF Trade, Orders
<1>2. /\ seen' = [seen EXCEPT ![k] = order[k].filled]
      /\ total' = total + (order[k].filled - seen[k])
  BY DEF Count
<1>3. \A j \in Links : seen[j] \in Int /\ seen'[j] \in Int
  BY <1>1, <1>2 DEF Trade
<1>4. seen'[k] = order[k].filled /\ \A j \in Links : j # k => seen'[j] = seen[j]
  BY <1>2 DEF Trade
<1>5. SumFunctionOnSet(seen', Links)
        = SumFunctionOnSet(seen, Links) + seen'[k] - seen[k]
  BY <1>1, <1>3, <1>4, SumChange
<1>6. SumFunctionOnSet(seen, Links) = total /\ total \in Int
  BY DEF Booked, Trade
<1> QED
  BY <1>1, <1>2, <1>3, <1>4, <1>5, <1>6

LEMMA BookedStep ==
  ASSUME Trade, Trade', Known, Booked, [Next]_vars
  PROVE  Booked'
<1> USE DEF Booked
<1>1. CASE Exchange
  <2>1. PICK k \in Links : Fill(k) \/ End(k) \/ Arrive(k)
    BY <1>1 DEF Exchange
  <2>2. UNCHANGED <<seen, total, active, next>>
    BY <1>1 DEF Exchange
  <2>3. Open(k) /\ \A j \in Links : j # k => order'[j] = order[j]
    BY <2>1 DEF Fill, End, Arrive, Trade, Open
  <2>4. order'[k].filled <= order'[k].qty
    <3>1. order[k].qty \in Int /\ order[k].filled \in Int
      BY IcebergAssumption DEF Trade, Orders
    <3>2. order'[k].qty = order[k].qty
          /\ order'[k].filled \in {order[k].filled, order[k].filled + 1}
      BY <2>1 DEF Fill, End, Arrive, Trade, Orders
    <3>3. order[k].filled < order[k].qty
      BY <2>3 DEF Trade
    <3> QED
      BY <3>1, <3>2, <3>3
  <2> QED
    BY <2>2, <2>3, <2>4 DEF Open
<1>2. CASE Accepted \/ LostPlacement
  <2>1. PICK q \in MinQty..ChildQty, s \in {"live", "late"} : q = ThisQty /\ Put(q, s)
    BY <1>2 DEF Accepted, LostPlacement
  <2>2. Fresh /\ UNCHANGED <<seen, total>> /\ next \in Links
        /\ \/ active' = active \cup {next}
           \/ active' = active /\ next' = next
    BY <1>2 DEF Accepted, LostPlacement, Fresh
  <2>3. \A j \in Links : j # next => order'[j] = order[j]
    BY <2>1, <2>2, PutEffect
  <2>4. order'[next].filled <= order'[next].qty
    BY <2>1, <2>2, IcebergAssumption DEF Put, Trade
  <2> QED
    BY <2>2, <2>3, <2>4 DEF Open
<1>3. ASSUME NEW k \in todo, Poll(k) \/ FinalPoll(k)
      PROVE  Booked'
  <2>1. k \in Links /\ UNCHANGED <<order, next>>
    BY <1>3 DEF Poll, FinalPoll, Known
  <2>2. CASE Uncounted
    <3>1. UNCHANGED <<seen, total>>
      BY <2>2 DEF Uncounted
    <3>2. active' = active \/ (active' = active \ {k} /\ Count(k))
      BY <1>3 DEF Poll, FinalPoll
    <3>3. active' = active \/ (active' = active \ {k} /\ Done(k))
      BY <1>3 DEF Poll, FinalPoll
    <3>4. Count(k) => seen'[k] = order[k].filled
      BY <2>1, CountBooks
    <3> QED
      BY <2>1, <3>1, <3>2, <3>3, <3>4 DEF Open, Done
  <2>3. CASE Count(k)
    <3>1. active' = active \/ (active' = active \ {k} /\ Done(k))
      BY <1>3 DEF Poll, FinalPoll
    <3>2. total' = SumFunctionOnSet(seen', Links)
          /\ seen'[k] = order[k].filled
          /\ \A j \in Links : j # k => seen'[j] = seen[j]
      BY <2>1, <2>3, CountBooks
    <3> QED
      BY <2>1, <3>1, <3>2 DEF Open, Done
  <2> QED
    BY <1>3, <2>2, <2>3 DEF Poll, FinalPoll
<1>4. ASSUME NEW k \in todo, CancelChild(k)
      PROVE  Booked'
  <2>1. k \in Links /\ k \in active /\ UNCHANGED <<seen, total, active, next>>
    BY <1>4 DEF CancelChild, Known
  <2>2. order' = order \/ order' = [order EXCEPT ![k].state = "cancelled"]
    BY <1>4 DEF CancelChild
  <2>3. /\ order'[k].filled = order[k].filled /\ order'[k].qty = order[k].qty
        /\ \A j \in Links : j # k => order'[j] = order[j]
    BY <2>1, <2>2 DEF Trade, Orders
  <2> QED
    BY <2>1, <2>3 DEF Open
<1>5. CASE Start \/ Timeout \/ OutOfCancels \/ StartPlacing \/ Replenish \/ StartPolling
           \/ Refused \/ Placed \/ Judge \/ Guards \/ Cancelled \/ Finish
           \/ UNCHANGED vars
  <2>1. UNCHANGED <<order, seen, total, active, next>>
    BY <1>5 DEF Start, Timeout, OutOfCancels, StartPlacing, Replenish, StartPolling,
                Refused, Placed, Judge, Guards, BookUnread, Breached, Reprice,
                Cancelled, Finish, vars
  <2> QED
    BY <2>1 DEF Open
<1> QED
  BY <1>1, <1>2, <1>3, <1>4, <1>5 DEF Next, Engine

(* Lost calls are not forgotten, and the run does not go back.             *)
LEMMA HistoryGrows ==
  ASSUME [Next]_vars
  PROVE  /\ lost \subseteq lost'
         /\ pc' = "start" => pc = "start"
         /\ pc = "done" => pc' = "done"
<1>1. ASSUME NEW k \in todo, Poll(k) \/ CancelChild(k) \/ FinalPoll(k)
      PROVE  lost \subseteq lost' /\ pc' = pc
  BY <1>1 DEF Poll, CancelChild, FinalPoll, Uncounted
<1>2. CASE Exchange \/ Accepted \/ Refused \/ LostPlacement \/ UNCHANGED vars
  BY <1>2 DEF Exchange, Accepted, Refused, LostPlacement, vars
<1>3. CASE Start \/ Timeout \/ OutOfCancels \/ StartPlacing \/ Replenish \/ StartPolling
           \/ Placed \/ Judge \/ Guards \/ Cancelled \/ Finish
  BY <1>3 DEF Start, Timeout, OutOfCancels, StartPlacing, Replenish, StartPolling,
              Placed, Judge, Guards, BookUnread, Breached, Reprice,
              Cancelled, Finish, CancelAll, Going
<1> QED
  BY <1>1, <1>2, <1>3 DEF Next, Engine

LEMMA UntouchedStep ==
  ASSUME Trade, Known, Untouched, [Next]_vars
  PROVE  Untouched'
<1>1. pc' = "start" => active' = {}
  <2>1. CASE Exchange \/ UNCHANGED vars
    BY <2>1 DEF Exchange, vars, Untouched
  <2>2. CASE Engine
    <3>1. pc' # "start" \/ active' \subseteq active
      BY <2>2 DEF Engine, Start, Timeout, OutOfCancels, StartPlacing, Replenish,
                  StartPolling, Accepted, Placing, Refused, LostPlacement, Placed, Judge,
                  Guards, BookUnread, Breached, Reprice, Cancelled, Finish, Poll,
                  CancelChild, FinalPoll
    <3> QED
      BY <3>1, HistoryGrows DEF Untouched
  <2> QED
    BY <2>1, <2>2 DEF Next
<1>2. ASSUME "place" \notin lost', NEW j \in Links, j >= next'
      PROVE  order'[j].state = "unsent"
  <2> USE DEF Untouched
  <2>1. "place" \notin lost
    BY <1>2, HistoryGrows
  <2>2. CASE Exchange
    <3>1. next' = next /\ \E k \in Links : Fill(k) \/ End(k) \/ Arrive(k)
      BY <2>2 DEF Exchange
    <3> QED
      BY <1>2, <2>1, <3>1 DEF Fill, End, Arrive, Trade
  <2>3. CASE Accepted
    <3>1. PICK q \in MinQty..ChildQty : Put(q, "live")
      BY <2>3 DEF Accepted
    <3>2. next' = next + 1 /\ Fresh /\ UNCHANGED <<seen, total>>
      BY <2>3 DEF Accepted
    <3>3. \A k \in Links : k # next => order'[k] = order[k]
      BY <3>1, <3>2, PutEffect
    <3>4. j # next /\ j >= next
      BY <1>2, <3>2, IcebergAssumption DEF Known, Links
    <3> QED
      BY <1>2, <2>1, <3>3, <3>4
  <2>4. CASE LostPlacement
    BY <1>2, <2>4 DEF LostPlacement
  <2>5. ASSUME NEW k \in todo, CancelChild(k)
        PROVE  order'[j].state = "unsent"
    <3>1. k \in active /\ k \in Links /\ k < next /\ next' = next
      BY <2>5 DEF Known, CancelChild
    <3>2. j # k
      BY <1>2, <3>1, IcebergAssumption DEF Known, Links
    <3>3. order' = order \/ order' = [order EXCEPT ![k].state = "cancelled"]
      BY <2>5 DEF CancelChild
    <3>4. order'[j] = order[j]
      BY <3>2, <3>3 DEF Trade
    <3> QED
      BY <1>2, <2>1, <3>1, <3>4
  <2>6. ASSUME NEW k \in todo, Poll(k) \/ FinalPoll(k)
        PROVE  order'[j].state = "unsent"
    <3>1. order' = order /\ next' = next
      BY <2>6 DEF Poll, FinalPoll
    <3> QED
      BY <1>2, <2>1, <3>1
  <2>7. CASE Start \/ Timeout \/ OutOfCancels \/ StartPlacing \/ Replenish \/ StartPolling
             \/ Refused \/ Placed \/ Judge \/ Guards \/ Cancelled \/ Finish
             \/ UNCHANGED vars
    <3>1. UNCHANGED <<order, next>>
      BY <2>7 DEF Start, Timeout, OutOfCancels, StartPlacing, Replenish, StartPolling,
                  Refused, Placed, Judge, Guards, BookUnread, Breached, Reprice,
                  Cancelled, Finish, vars
    <3> QED
      BY <1>2, <2>1, <3>1
  <2> QED
    BY <2>2, <2>3, <2>4, <2>5, <2>6, <2>7 DEF Next, Engine
<1> QED
  BY <1>1, <1>2 DEF Untouched

(* Without a lost placement everything of an inactive child is read.       *)
LEMMA InactiveRead ==
  ASSUME Trade, Known, Booked, Untouched, "place" \notin lost,
         NEW k \in Links, k \notin active
  PROVE  ~Open(k) /\ seen[k] = order[k].filled
<1>1. CASE k # next
  BY <1>1 DEF Booked
<1>2. CASE k = next
  <2>1. order[k].state = "unsent"
    BY <1>2, IcebergAssumption DEF Untouched, Links
  <2> QED
    BY <2>1 DEF Trade, Open
<1> QED
  BY <1>1, <1>2

LEMMA AllReadStep ==
  ASSUME Trade, Trade', Known, Settled, Booked, Untouched, AllRead, [Next]_vars
  PROVE  AllRead'
<1> SUFFICES ASSUME lost' = {}
             PROVE  /\ pc' = "finalPoll" =>
                         \/ mode' = "done" /\ Remaining' < MinQty
                         \/ Closed' /\ \A k \in active' \ todo' : seen'[k] = order'[k].filled
                    /\ pc' = "done" =>
                         \/ Remaining' < MinQty
                         \/ Closed' /\ \A k \in Links : seen'[k] = order'[k].filled
  BY DEF AllRead
<1>0. lost = {}
  BY HistoryGrows
<1> USE <1>0 DEF AllRead, Closed
<1>1. CASE Exchange
  <2>1. \E k \in Links : Open(k)
    BY <1>1 DEF Exchange, Fill, End, Arrive, Open
  <2>2. UNCHANGED <<total, mode, pc>>
    BY <1>1 DEF Exchange
  <2> QED
    BY <2>1, <2>2 DEF Remaining
<1>2. CASE Start
  <2>1. pc = "start" /\ UNCHANGED <<order, seen>> /\ pc' # "finalPoll"
    BY <1>2 DEF Start
  <2>2. active = {}
    BY <2>1 DEF Untouched
  <2> QED
    BY <2>1, <2>2, InactiveRead DEF Open
<1>3. CASE Cancelled
  <2>1. pc = "cancel" /\ todo = {} /\ pc' = "finalPoll" /\ todo' = active
        /\ UNCHANGED <<order, active>>
    BY <1>3 DEF Cancelled
  <2> QED
    BY <2>1 DEF Settled, Open
<1>4. CASE Placed
  <2>1. pc' = "loop" \/ (pc' = "finalPoll" /\ active = {})
    BY <1>4 DEF Placed
  <2>2. UNCHANGED <<order, active>>
    BY <1>4 DEF Placed
  <2> QED
    BY <2>1, <2>2, InactiveRead DEF Open
<1>5. CASE Judge
  <2>1. \/ pc' \in {"loop", "book"}
        \/ pc' = "finalPoll" /\ mode' = "done" /\ Remaining < MinQty /\ total' = total
    BY <1>5 DEF Judge
  <2> QED
    BY <2>1 DEF Remaining
<1>6. ASSUME NEW k \in todo, FinalPoll(k)
      PROVE  AllRead'
  <2>1. pc = "finalPoll" /\ pc' = pc /\ UNCHANGED <<order, active, mode>>
        /\ todo' = todo \ {k} /\ k \in Links
    BY <1>6 DEF FinalPoll, Known
  <2>2. Count(k)
    BY <1>6 DEF FinalPoll, Uncounted
  <2>3. CASE mode = "done" /\ Remaining < MinQty
    <3>1. total' >= total /\ total \in Nat /\ total' \in Nat
      BY <1>6, <2>1, CountEffect DEF FinalPoll, Trade
    <3>2. Remaining' < MinQty
      BY <2>3, <3>1, LessRemains, IcebergAssumption
    <3> QED
      BY <2>1, <2>3, <3>2
  <2>4. CASE Closed /\ \A j \in active \ todo : seen[j] = order[j].filled
    <3>1. seen'[k] = order[k].filled /\ \A j \in Links : j # k => seen'[j] = seen[j]
      BY <2>1, <2>2, CountBooks
    <3> QED
      BY <2>1, <2>4, <3>1 DEF Open, Known
  <2> QED
    BY <2>1, <2>3, <2>4
<1>7. CASE Finish
  <2>1. pc = "finalPoll" /\ todo = {} /\ pc' = "done"
        /\ UNCHANGED <<order, seen, total, active>>
    BY <1>7 DEF Finish
  <2>2. CASE mode = "done" /\ Remaining < MinQty
    BY <2>1, <2>2 DEF Remaining
  <2>3. CASE Closed /\ \A j \in active : seen[j] = order[j].filled
    <3>1. \A j \in Links : seen[j] = order[j].filled
      BY <2>3, InactiveRead
    <3> QED
      BY <2>1, <2>3, <3>1 DEF Open
  <2> QED
    BY <2>1, <2>2, <2>3
<1>8. ASSUME NEW k \in todo, Poll(k) \/ CancelChild(k)
      PROVE  pc' \in {"poll", "cancel"}
  BY <1>8 DEF Poll, CancelChild
<1>9. CASE Timeout \/ OutOfCancels \/ StartPlacing \/ Replenish \/ StartPolling
           \/ Accepted \/ Refused \/ LostPlacement \/ Guards
  <2>1. pc' \in {"cancel", "place", "poll", "loop"}
    BY <1>9 DEF Timeout, OutOfCancels, StartPlacing, Replenish, StartPolling, Accepted,
                Refused, LostPlacement, Placing, Guards, BookUnread, Breached, Reprice,
                CancelAll, Going
  <2> QED
    BY <2>1
<1>10. CASE UNCHANGED vars
  BY <1>10 DEF vars, Remaining, Open
<1> QED
  BY <1>1, <1>2, <1>3, <1>4, <1>5, <1>6, <1>7, <1>8, <1>9, <1>10 DEF Next, Engine

SumsInv == IcebergInv /\ Booked /\ Within /\ Untouched /\ AllRead

LEMMA SumsInit == Init => SumsInv
<1> SUFFICES ASSUME Init PROVE SumsInv
  OBVIOUS
<1>1. IcebergInv
  BY InitInv
<1>2. /\ order = [k \in Links |-> Unsent] /\ seen = [k \in Links |-> 0]
      /\ active = {} /\ total = 0 /\ lost = {} /\ pc = "start"
  BY DEF Init
<1>3. IsFiniteSet(Links)
  BY ChildrenFinite
<1>4. SumFunctionOnSet(seen, Links) = 0
  BY <1>2, <1>3, SumZero
<1>5. \A k \in Links : FilledIn(order)[k] = 0 /\ RestingIn(order)[k] = 0
  BY <1>2 DEF FilledIn, RestingIn, Rests, Unsent
<1>6. Bought = 0 /\ Resting = 0
  BY <1>3, <1>5, SumZero, SumsAre
<1>7. Booked
  BY <1>2, <1>4 DEF Booked, Open, Unsent
<1>8. Untouched /\ AllRead
  BY <1>2 DEF Untouched, AllRead, Unsent
<1> QED
  BY <1>1, <1>6, <1>7, <1>8, IcebergAssumption DEF SumsInv, Within

LEMMA SumsInvStep == SumsInv /\ [Next]_vars => SumsInv'
<1> SUFFICES ASSUME SumsInv, [Next]_vars PROVE SumsInv'
  OBVIOUS
<1>1. IcebergInv' /\ IcebergInv
  BY InvStep DEF SumsInv
<1>2. Trade /\ Trade' /\ Known /\ Settled
  BY <1>1 DEF IcebergInv
<1> QED
  BY <1>1, <1>2, BookedStep, WithinStep, UntouchedStep, AllReadStep DEF SumsInv

LEMMA SumsInvariance == Spec => []SumsInv
BY SumsInit, SumsInvStep, PTL DEF Spec

(* What the code counts Bybit has executed, and with no lost call the      *)
(* result tells of all but less than the minimum that was or may still be  *)
(* executed.                                                               *)
THEOREM ReportIsComplete == Spec => []ReportCovers
<1>1. SumsInv => ReportCovers
  <2> SUFFICES ASSUME SumsInv PROVE ReportCovers
    OBVIOUS
  <2>1. IsFiniteSet(Links) /\ Trade /\ total = SumFunctionOnSet(seen, Links)
    BY ChildrenFinite DEF SumsInv, IcebergInv, Booked
  <2>2. \A k \in Links : seen[k] \in Int /\ FilledIn(order)[k] \in Int
                         /\ seen[k] <= FilledIn(order)[k]
    BY <2>1, IcebergAssumption DEF Trade, Orders, FilledIn
  <2>3. total <= Bought
    BY <2>1, <2>2, SumLess, SumsAre
  <2>4. Bought \in Nat /\ Resting \in Nat /\ total \in Nat /\ Target \in Nat /\ MinQty \in Nat \ {0}
    BY <2>1, ParentTypes, IcebergAssumption DEF Trade
  <2>5. ASSUME pc = "done", lost = {}
        PROVE  Bought + Resting - total < MinQty
    <3>1. CASE Remaining < MinQty
      BY <2>4, <3>1 DEF SumsInv, Within, Remaining
    <3>2. CASE Closed /\ \A k \in Links : seen[k] = order[k].filled
      <4>1. \A k \in Links : seen[k] = FilledIn(order)[k] /\ RestingIn(order)[k] = 0
        BY <3>2 DEF FilledIn, RestingIn, Rests, Closed, Open
      <4>2. total = Bought /\ Resting = 0
        BY <2>1, <2>2, <4>1, SumSame, SumZero, SumsAre
      <4> QED
        BY <2>4, <4>2
    <3> QED
      BY <2>5, <3>1, <3>2 DEF SumsInv, AllRead
  <2> QED
    BY <2>3, <2>5 DEF ReportCovers
<1> QED
  BY <1>1, SumsInvariance, PTL

(* The run implements the parent order: whatever calls are lost, it never  *)
(* exposes more than the target and exposes nothing after its return.      *)
LEMMA ParentStep ==
  ASSUME SumsInv, SumsInv', [Next]_vars
  PROVE  [Parent!Next]_(Parent!vars)
<1> USE DEF Parent!Next, Parent!vars, Parent!Expose, Parent!Execute, Parent!Withdraw,
            Parent!Return
<1>1. Trade /\ Trade' /\ Known /\ Booked /\ Within'
  BY DEF SumsInv, IcebergInv
<1>2. Bought \in Nat /\ Resting \in Nat
  BY <1>1, ParentTypes
<1>3. Bought' \in Nat /\ Resting' \in Nat
  <2>1. \A k \in Links : RestingIn(order')[k] \in Nat
    BY <1>1, IcebergAssumption DEF Trade, Orders, RestingIn, Rests, Open
  <2>2. SumFunctionOnSet(RestingIn(order'), Links) \in Nat
    BY <2>1, ChildrenFinite, SumNat
  <2> QED
    BY <1>1, <2>2, SumsAre, SumsInt DEF Trade
<1>4. CASE Bought' = Bought /\ Resting' = Resting
  BY <1>4, HistoryGrows
<1>5. CASE Bought' = Bought + 1 /\ Resting' = Resting - 1 /\ pc' = pc
  BY <1>2, <1>3, <1>5
<1>6. CASE Bought' = Bought /\ Resting' < Resting /\ pc' = pc
  BY <1>2, <1>3, <1>6
<1>7. CASE Bought' = Bought /\ Within' /\ pc = "place" /\ pc' = pc
  <2>1. CASE Resting' > Resting
    BY <1>7, <2>1 DEF Within
  <2>2. CASE Resting' <= Resting
    BY <1>2, <1>3, <1>7, <2>2
  <2> QED
    BY <1>2, <1>3, <2>1, <2>2
<1> QED
  BY <1>1, <1>4, <1>5, <1>6, <1>7, SumsStep

THEOREM ImplementsParent == Spec => ParentSpec
<1>1. Init => Parent!Init
  <2> SUFFICES ASSUME Init PROVE Parent!Init
    OBVIOUS
  <2>1. \A k \in Links : FilledIn(order)[k] = 0 /\ RestingIn(order)[k] = 0
    BY DEF Init, FilledIn, RestingIn, Rests, Unsent
  <2>2. Bought = 0 /\ Resting = 0
    BY <2>1, ChildrenFinite, SumZero, SumsAre
  <2> QED
    BY <2>2 DEF Init, Parent!Init
<1>2. SumsInv /\ SumsInv' /\ [Next]_vars => [Parent!Next]_(Parent!vars)
  BY ParentStep
<1>3. Spec => Parent!Init /\ [][Parent!Next]_(Parent!vars)
  BY <1>1, <1>2, SumsInvariance, PTL DEF Spec
<1> QED
  BY <1>3 DEF ParentSpec, Parent!Spec

-----------------------------------------------------------------------------
(***************************************************************************)
(* The end of a run.                                                       *)
(***************************************************************************)

Waiting == Cardinality(todo)

(* An upper bound of the calls and decisions before the run returns or     *)
(* sleeps again: a pass of placements, a look at the book, a cancel and a  *)
(* poll per child.                                                         *)
PathLeft ==
  CASE pc = "poll" -> 3 * Slots + 7 + Waiting
    [] pc \in {"start", "book"} -> 3 * Slots + 6
    [] pc = "loop" -> IF mode = "working" THEN 2 * Slots + 3 ELSE 3 * Slots + 5
    [] pc = "place" -> 2 * Slots + 4 + tries
    [] pc = "cancel" -> Slots + 2 + Waiting
    [] pc = "finalPoll" -> 1 + Waiting
    [] pc = "done" -> 0

(* Each sleep allows the path from the polls on once more.                 *)
CallsLeft == (2 * Slots + 5) * (MaxRounds - round) + PathLeft
MostCalls == (2 * Slots + 5) * MaxRounds + 4 * Slots + 7

LEMMA PathIs ==
  /\ pc = "poll" => PathLeft = 3 * Slots + 7 + Waiting
  /\ pc \in {"start", "book"} => PathLeft = 3 * Slots + 6
  /\ pc = "loop" /\ mode = "working" => PathLeft = 2 * Slots + 3
  /\ pc = "loop" /\ mode # "working" => PathLeft = 3 * Slots + 5
  /\ pc = "place" => PathLeft = 2 * Slots + 4 + tries
  /\ pc = "cancel" => PathLeft = Slots + 2 + Waiting
  /\ pc = "finalPoll" => PathLeft = 1 + Waiting
  /\ pc = "done" => PathLeft = 0
BY DEF PathLeft

LEMMA PathIsNext ==
  /\ pc' = "poll" => PathLeft' = 3 * Slots + 7 + Waiting'
  /\ pc' \in {"start", "book"} => PathLeft' = 3 * Slots + 6
  /\ pc' = "loop" /\ mode' = "working" => PathLeft' = 2 * Slots + 3
  /\ pc' = "loop" /\ mode' # "working" => PathLeft' = 3 * Slots + 5
  /\ pc' = "place" => PathLeft' = 2 * Slots + 4 + tries'
  /\ pc' = "cancel" => PathLeft' = Slots + 2 + Waiting'
  /\ pc' = "finalPoll" => PathLeft' = 1 + Waiting'
  /\ pc' = "done" => PathLeft' = 0
BY DEF PathLeft

LEMMA WaitingIs ==
  ASSUME Known, Pass
  PROVE  Waiting \in 0..Slots
<1>1. todo \subseteq active /\ active \subseteq Links
  BY DEF Known
<1> QED
  BY <1>1, PartSmaller, IcebergAssumption DEF Pass, Waiting

LEMMA WaitingIsNext ==
  ASSUME Known', Pass'
  PROVE  Waiting' \in 0..Slots
<1>1. todo' \subseteq active' /\ active' \subseteq Links
  BY DEF Known
<1> QED
  BY <1>1, PartSmaller, IcebergAssumption DEF Pass, Waiting

LEMMA PathType ==
  ASSUME Control, Known, Pass
  PROVE  PathLeft \in 0 .. 4 * Slots + 7
<1>1. pc \in Places /\ tries \in 0..Slots /\ Waiting \in 0..Slots /\ Slots \in Nat
  BY WaitingIs, IcebergAssumption DEF Control, Pass
<1> QED
  BY <1>1, PathIs DEF Places

LEMMA PathTypeNext ==
  ASSUME Control', Known', Pass'
  PROVE  PathLeft' \in 0 .. 4 * Slots + 7
<1>1. pc' \in Places /\ tries' \in 0..Slots /\ Waiting' \in 0..Slots /\ Slots \in Nat
  BY WaitingIsNext, IcebergAssumption DEF Control, Pass
<1> QED
  BY <1>1, PathIsNext DEF Places

(* Arithmetic of rounds, for the terms the solver would take apart.        *)
LEMMA LessAdded ==
  ASSUME NEW r \in Int, NEW p \in Int, NEW q \in Int, q < p
  PROVE  r + q < r + p
OBVIOUS

LEMMA LessRound ==
  ASSUME NEW r \in Int, NEW c \in Int, NEW p \in Int, NEW q \in Int, q < p + c
  PROVE  (r - c) + q < r + p
OBVIOUS

LEMMA PollsFit ==
  ASSUME NEW s \in Nat, NEW w \in 0..s, NEW p, NEW q, p = 2 * s + 3, q = 3 * s + 7 + w
  PROVE  q < p + (2 * s + 5)
OBVIOUS

LEMMA LastPollsFit ==
  ASSUME NEW s \in Nat, NEW v \in 0..s, NEW w \in 0..s, NEW p, NEW q,
         p = s + 2 + v, q = 1 + w
  PROVE  q < p
OBVIOUS

LEMMA RoundsCost ==
  ASSUME NEW c \in Nat, NEW n \in Nat, NEW m \in 0..n
  PROVE  /\ c * (n - m) \in 0 .. c * n /\ c * n \in Nat
         /\ m + 1 \in 0..n => c * (n - (m + 1)) = c * (n - m) - c
OBVIOUS

LEMMA CallsBounded == IcebergInv => CallsLeft \in 0 .. MostCalls
<1> SUFFICES ASSUME IcebergInv
             PROVE  CallsLeft \in 0 .. MostCalls
  OBVIOUS
<1>1. PathLeft \in 0 .. 4 * Slots + 7
  BY PathType DEF IcebergInv
<1>2. Slots \in Nat /\ MaxRounds \in Nat /\ round \in 0..MaxRounds /\ 2 * Slots + 5 \in Nat
  BY IcebergAssumption DEF IcebergInv, Control
<1>3. /\ (2 * Slots + 5) * (MaxRounds - round) \in 0 .. (2 * Slots + 5) * MaxRounds
      /\ (2 * Slots + 5) * MaxRounds \in Nat
  BY <1>2, RoundsCost
<1> DEFINE r == (2 * Slots + 5) * (MaxRounds - round)
           n == (2 * Slots + 5) * MaxRounds
<1>4. r \in 0..n /\ n \in Nat
  BY <1>3
<1>5. r + PathLeft \in 0 .. n + 4 * Slots + 7
  <2> HIDE DEF r, n
  <2> QED
    BY <1>1, <1>2, <1>4
<1> QED
  BY <1>5 DEF CallsLeft, MostCalls

(* A step of the path: nearer to the return in the same round, or a sleep  *)
(* and its polls.                                                          *)
LEMMA PathShrinks ==
  ASSUME IcebergInv, IcebergInv', Engine
  PROVE  \/ round' = round /\ PathLeft' < PathLeft
         \/ round' = round + 1 /\ PathLeft' < PathLeft + (2 * Slots + 5)
<1> USE PathIs, PathIsNext
<1>1. /\ Slots \in Nat /\ Waiting \in 0..Slots /\ Waiting' \in 0..Slots
      /\ tries \in 0..Slots /\ tries' \in 0..Slots
  BY WaitingIs, WaitingIsNext, IcebergAssumption DEF IcebergInv, Pass
<1>2. CASE Start
  BY <1>1, <1>2 DEF Start
<1>3. CASE Timeout \/ OutOfCancels
  <2>1. pc = "loop" /\ pc' = "cancel" /\ round' = round
    BY <1>3 DEF Timeout, OutOfCancels, CancelAll
  <2> QED
    BY <1>1, <2>1
<1>4. CASE StartPlacing
  BY <1>1, <1>4 DEF StartPlacing, Going
<1>5. CASE Replenish
  BY <1>1, <1>5 DEF Replenish, Going
<1>6. CASE StartPolling
  <2>1. /\ pc = "loop" /\ mode = "working" /\ pc' = "poll" /\ round' = round + 1
    BY <1>6 DEF StartPolling, Going
  <2>2. PathLeft = 2 * Slots + 3 /\ PathLeft' = 3 * Slots + 7 + Waiting'
    BY <2>1
  <2>3. PathLeft' < PathLeft + (2 * Slots + 5)
    BY <1>1, <2>2, PollsFit
  <2> QED
    BY <2>1, <2>3
<1>7. CASE Accepted \/ Refused \/ LostPlacement
  <2>1. pc = "place" /\ pc' = "place" /\ tries' = tries - 1 /\ round' = round
    BY <1>7 DEF Accepted, Refused, LostPlacement, Placing
  <2> QED
    BY <1>1, <2>1
<1>8. CASE Placed
  <2>1. pc = "place" /\ round' = round
    BY <1>8 DEF Placed
  <2>2. \/ pc' = "loop" /\ mode' = "working"
        \/ pc' = "finalPoll"
    BY <1>8 DEF Placed
  <2> QED
    BY <1>1, <2>1, <2>2
<1>9. CASE Judge
  <2>1. pc = "poll" /\ pc' \in {"finalPoll", "loop", "book"} /\ round' = round
    BY <1>9 DEF Judge
  <2> QED
    BY <1>1, <2>1
<1>10. CASE Guards
  <2>1. pc = "book" /\ pc' \in {"loop", "cancel"} /\ round' = round
    BY <1>10 DEF Guards, BookUnread, Breached, Reprice, CancelAll
  <2> QED
    BY <1>1, <2>1
<1>11. CASE Cancelled
  <2>1. pc = "cancel" /\ pc' = "finalPoll" /\ round' = round
    BY <1>11 DEF Cancelled
  <2>2. PathLeft = Slots + 2 + Waiting /\ PathLeft' = 1 + Waiting'
    BY <2>1
  <2>3. PathLeft' < PathLeft
    BY <1>1, <2>2, LastPollsFit
  <2> QED
    BY <2>1, <2>3
<1>12. CASE Finish
  BY <1>1, <1>12 DEF Finish
<1>13. ASSUME NEW k \in todo, Poll(k) \/ CancelChild(k) \/ FinalPoll(k)
       PROVE  round' = round /\ PathLeft' < PathLeft
  <2>1. /\ todo' = todo \ {k} /\ pc' = pc /\ round' = round
        /\ pc \in {"poll", "cancel", "finalPoll"}
    BY <1>13 DEF Poll, CancelChild, FinalPoll
  <2>2. todo \subseteq Links
    BY DEF IcebergInv, Known
  <2>3. Waiting' = Waiting - 1
    BY <2>1, <2>2, OneFewer DEF Waiting
  <2> QED
    BY <1>1, <2>1, <2>3
<1> QED
  BY <1>2, <1>3, <1>4, <1>5, <1>6, <1>7, <1>8, <1>9, <1>10, <1>11, <1>12, <1>13
  DEF Engine

LEMMA CallsShrink == IcebergInv /\ IcebergInv' /\ Engine => CallsLeft' < CallsLeft
<1> SUFFICES ASSUME IcebergInv, IcebergInv', Engine
             PROVE  CallsLeft' < CallsLeft
  OBVIOUS
<1> DEFINE c == 2 * Slots + 5
           r == c * (MaxRounds - round)
<1>1. c \in Nat /\ MaxRounds \in Nat /\ round \in 0..MaxRounds /\ round' \in 0..MaxRounds
  BY IcebergAssumption DEF IcebergInv, Control
<1>2. r \in Int
  BY <1>1, RoundsCost
<1>3. PathLeft \in Int
  BY PathType DEF IcebergInv
<1>4. PathLeft' \in Int
  BY PathTypeNext DEF IcebergInv
<1>5. CASE round' = round /\ PathLeft' < PathLeft
  <2>1. CallsLeft = r + PathLeft /\ CallsLeft' = r + PathLeft'
    BY <1>5 DEF CallsLeft
  <2>2. r + PathLeft' < r + PathLeft
    <3> HIDE DEF r
    <3> QED
      BY <1>2, <1>3, <1>4, <1>5, LessAdded
  <2> QED
    BY <2>1, <2>2
<1>6. CASE round' = round + 1 /\ PathLeft' < PathLeft + c
  <2>1. c * (MaxRounds - round') = r - c
    BY <1>1, <1>6, RoundsCost
  <2>2. CallsLeft = r + PathLeft /\ CallsLeft' = (r - c) + PathLeft'
    BY <2>1 DEF CallsLeft
  <2>3. (r - c) + PathLeft' < r + PathLeft
    <3> HIDE DEF r, c
    <3> QED
      <4>1. r \in Int /\ c \in Int /\ PathLeft \in Int /\ PathLeft' \in Int
        BY <1>1, <1>2, <1>3, <1>4
      <4>2. PathLeft' < PathLeft + c
        BY <1>6
      <4> QED
        BY <4>1, <4>2, LessRound
  <2> QED
    BY <2>2, <2>3
<1> QED
  BY <1>5, <1>6, PathShrinks

(* Every call of the run brings its return nearer, whatever is refused,    *)
(* lost, ended or replenished, and nothing Bybit does puts it off: what is *)
(* behind Returns, for any number of slots and sleeps.                     *)
EveryCallCounts ==
  /\ [](CallsLeft \in 0 .. MostCalls)
  /\ [][(Engine => CallsLeft' < CallsLeft) /\ (Exchange => CallsLeft' = CallsLeft)]_vars
THEOREM IcebergRunsOut == Spec => EveryCallCounts
<1>1. Exchange => CallsLeft' = CallsLeft
  BY DEF Exchange, CallsLeft, PathLeft, Waiting
<1> QED
  BY <1>1, CallsShrink, CallsBounded, InvStep, Invariance, PTL DEF Spec, EveryCallCounts

=============================================================================
