--------------------------- MODULE EmergencyClose ---------------------------
(***************************************************************************)
(* emergency_close_auto and emergency_close_both_sides of backend/app/     *)
(* services/executor.py: read both positions, then close both legs with    *)
(* reduce-only market orders sent together.  Every caller (the stop-loss   *)
(* service, POST /execute/close_all, the Telegram bot) builds an executor  *)
(* of its own, so closes of several callers interleave.                    *)
(*                                                                         *)
(* A position is a signed number of units, long above zero.  A close is    *)
(* the record of one caller's call.  What goes wrong outside the program   *)
(* disturbs it: a read that fails and is answered as flat, a call that     *)
(* raises although the order was executed, an order that is accepted but   *)
(* not executed, a position that is opened meanwhile.  Another close is no *)
(* disturbance: it only makes the reads stale.  The row of the journal,    *)
(* whose errors record_trade swallows, is the close's result.              *)
(***************************************************************************)
EXTENDS Integers

CONSTANTS
  Closers,      \* callers: the bound on closes at the same time
  Openings,     \* positions <<bybit, lighter>> that trading may open
  MaxOpenings,  \* bound: openings
  MaxFaults,    \* bound: faults of the exchanges and the network
  MaxFailures   \* circuit_breaker.max_failures

ASSUME CloseAssumption ==
  /\ Openings \subseteq Int \X Int
  /\ MaxOpenings \in Nat /\ MaxFaults \in Nat /\ MaxFailures \in Nat \ {0}

VARIABLES
  pos,        \* the positions at the exchanges
  close,      \* [Closers -> the close]
  failures,   \* circuit_breaker.consecutive_failures
  tripped,    \* circuit_breaker.tripped
  openings,   \* openings so far
  faults,     \* faults so far
  disturbed   \* history: closes that met a fault or an opening

closeVars == <<pos, close, failures, tripped, openings, faults, disturbed>>

Exchanges == {"bybit", "lighter"}

Flat == [x \in Exchanges |-> 0]

(* wait: the legs whose order is not answered yet.                         *)
Idle ==
  [at |-> "idle", seen |-> Flat, wait |-> {}, errors |-> FALSE,
   result |-> "none"]

CloseInit ==
  /\ pos = Flat
  /\ close = [c \in Closers |-> Idle]
  /\ failures = 0 /\ tripped = FALSE
  /\ openings = 0 /\ faults = 0 /\ disturbed = {}

Begun == {c \in Closers : close[c].at # "idle"}

-----------------------------------------------------------------------------
(* Trading opens a position on a flat account.                             *)
OpenPosition ==
  /\ openings < MaxOpenings /\ pos = Flat
  /\ \E o \in Openings : pos' = [bybit |-> o[1], lighter |-> o[2]]
  /\ openings' = openings + 1
  /\ disturbed' = Begun
  /\ UNCHANGED <<close, failures, tripped, faults>>

Set(c, r) == close' = [close EXCEPT ![c] = r]

Fault == faults < MaxFaults /\ faults' = faults + 1
NoFault == UNCHANGED faults

(* A fault of close c, and a step of it without one.                       *)
FaultOf(c) == Fault /\ disturbed' = disturbed \cup {c}
Smoothly == NoFault /\ UNCHANGED disturbed

(* The call of emergency_close_auto.                                       *)
BeginClose(c) ==
  /\ close[c].at \in {"idle", "over"}
  /\ Set(c, [Idle EXCEPT !.at = "readLighter"])
  /\ disturbed' = disturbed \ {c}

(* Each leg is read, or the read fails and is answered as flat.            *)
ReadLighter(c) ==
  /\ close[c].at = "readLighter"
  /\ \E p \in {pos["lighter"], 0} :
       /\ Set(c, [close[c] EXCEPT !.at = "readBybit", !.seen = [@ EXCEPT !["lighter"] = p]])
       /\ IF p = pos["lighter"] THEN Smoothly ELSE FaultOf(c)
  /\ UNCHANGED <<pos, failures, tripped, openings>>

(* record_execution_failure and record_execution_success of the breaker;   *)
(* the count is kept up to the number that trips it.                       *)
CountFailure ==
  /\ failures' = IF failures < MaxFailures THEN failures + 1 ELSE failures
  /\ tripped' = IF failures' >= MaxFailures THEN TRUE ELSE tripped
CountSuccess == failures' = 0 /\ UNCHANGED tripped

Legs(seen) == {x \in Exchanges : seen[x] # 0}

(* Nothing open is a success; else the orders of both legs are sent.       *)
Decide(c, seen) ==
  IF Legs(seen) = {}
    THEN /\ Set(c, [close[c] EXCEPT !.at = "over", !.result = "success", !.seen = seen])
         /\ CountSuccess
    ELSE /\ Set(c, [close[c] EXCEPT !.at = "orders", !.wait = Legs(seen), !.seen = seen])
         /\ UNCHANGED <<failures, tripped>>

ReadBybit(c) ==
  /\ close[c].at = "readBybit"
  /\ \E p \in {pos["bybit"], 0} :
       /\ Decide(c, [close[c].seen EXCEPT !["bybit"] = p])
       /\ IF p = pos["bybit"] THEN Smoothly ELSE FaultOf(c)
  /\ UNCHANGED <<pos, openings>>

(* Lighter's leg is sold when it is long, which a flat one is taken to be; *)
(* Bybit's side is the opposite of Lighter's.                              *)
LighterIsLong(c) == close[c].seen["lighter"] >= 0

(* Variant of Sells: both legs are traded the same way.                    *)
SellsBoth(c, x) == LighterIsLong(c)

Sells(c, x) == IF x = "lighter" THEN LighterIsLong(c) ELSE ~LighterIsLong(c)

Size(p) == IF p < 0 THEN -p ELSE p
Lesser(m, n) == IF m < n THEN m ELSE n

(* What is left of the position when the reduce-only order is executed.    *)
Executed(c, x) ==
  LET q == Size(close[c].seen[x])
  IN  CASE Sells(c, x) /\ pos[x] > 0  -> pos[x] - Lesser(q, pos[x])
        [] ~Sells(c, x) /\ pos[x] < 0 -> pos[x] + Lesser(q, -pos[x])
        [] OTHER                      -> pos[x]

(* The order has nothing to reduce on its side.                            *)
Idles(c, x) == Executed(c, x) = pos[x]

Move(x, p) == pos' = [pos EXCEPT ![x] = p]

Answered(c, x, raised) ==
  Set(c, [close[c] EXCEPT !.wait = @ \ {x}, !.errors = @ \/ raised])

(* The order is executed, and its call returns.                            *)
Filled(c, x) ==
  /\ ~Idles(c, x)
  /\ Move(x, Executed(c, x)) /\ Answered(c, x, FALSE)
  /\ Smoothly

(* An order without anything to reduce is refused; Lighter may accept it   *)
(* and let it end.                                                         *)
NothingToReduce(c, x) ==
  /\ Idles(c, x)
  /\ \E raised \in IF x = "lighter" THEN BOOLEAN ELSE {TRUE} : Answered(c, x, raised)
  /\ UNCHANGED pos /\ Smoothly

(* The call raises, the order executed or not; or Lighter has accepted an  *)
(* order that is not executed.                                             *)
GoesWrong(c, x) ==
  /\ ~Idles(c, x)
  /\ \/ Answered(c, x, TRUE) /\ UNCHANGED pos
     \/ Answered(c, x, TRUE) /\ Move(x, Executed(c, x))
     \/ x = "lighter" /\ Answered(c, x, FALSE) /\ UNCHANGED pos
  /\ FaultOf(c)

(* The answer to one order.                                                *)
Answer(c, x) ==
  /\ close[c].at = "orders" /\ x \in close[c].wait
  /\ Filled(c, x) \/ NothingToReduce(c, x) \/ GoesWrong(c, x)
  /\ UNCHANGED <<failures, tripped, openings>>

(* Variant of EndClose: an error of the second order is not looked at.     *)
EndCloseBlind(c) ==
  /\ close[c].at = "orders" /\ close[c].wait = {}
  /\ Set(c, [close[c] EXCEPT !.at = "over", !.result = "success"])
  /\ CountSuccess
  /\ UNCHANGED <<pos, openings, faults, disturbed>>

(* Both orders are answered: the journal row, the breaker and the result.  *)
EndClose(c) ==
  /\ close[c].at = "orders" /\ close[c].wait = {}
  /\ IF close[c].errors
       THEN /\ Set(c, [close[c] EXCEPT !.at = "over", !.result = "partial", !.errors = FALSE])
            /\ CountFailure
       ELSE /\ Set(c, [close[c] EXCEPT !.at = "over", !.result = "success"])
            /\ CountSuccess
  /\ UNCHANGED <<pos, openings, faults, disturbed>>

CloseStep(c) ==
  \/ ReadLighter(c) \/ ReadBybit(c) \/ EndClose(c)
  \/ \E x \in Exchanges : Answer(c, x)

(* The caller's task is cancelled inside the close: no row, no count.      *)
Abandon(c) ==
  Set(c, IF close[c].wait = {} /\ close[c].at # "over" THEN Idle
         ELSE [close[c] EXCEPT !.at = IF @ = "orders" THEN "abandoned" ELSE @,
                               !.errors = FALSE])

(* An order of an abandoned close is executed after all, or never is.      *)
LateAnswer(c) ==
  /\ close[c].at = "abandoned"
  /\ \E x \in close[c].wait :
       /\ Set(c, IF close[c].wait = {x} THEN Idle ELSE [close[c] EXCEPT !.wait = @ \ {x}])
       /\ \E p \in {pos[x], Executed(c, x)} : Move(x, p)
  /\ UNCHANGED <<failures, tripped, openings, faults, disturbed>>

-----------------------------------------------------------------------------
CloseTypes ==
  [at : {"idle", "readLighter", "readBybit", "orders", "over", "abandoned"},
   seen : [Exchanges -> Int], wait : SUBSET Exchanges, errors : BOOLEAN,
   result : {"none", "success", "partial"}]

CloseTypeOK ==
  /\ pos \in [Exchanges -> Int]
  /\ close \in [Closers -> CloseTypes]
  /\ failures \in 0..MaxFailures /\ tripped \in BOOLEAN
  /\ openings \in 0..MaxOpenings /\ faults \in 0..MaxFaults
  /\ disturbed \subseteq Closers

(* "All positions closed": a close that reports success has closed both    *)
(* legs, however many other closes took them from under it, unless a read  *)
(* failed, an accepted order was not executed or trading opened a position *)
(* meanwhile.                                                              *)
SuccessMeansFlat ==
  \A c \in Closers :
    close[c].at = "over" /\ close[c].result = "success" /\ c \notin disturbed => pos = Flat

(* "Auto-detect positions and close them all": a close in which nothing    *)
(* went wrong leaves both accounts flat.                                   *)
ClosesWhatItFinds ==
  \A c \in Closers : close[c].at = "over" /\ c \notin disturbed => pos = Flat

(* What holds of that, with other closes between its reads and its orders: *)
(* it closes a hedge, a leg of Lighter alone and a short of Bybit alone,   *)
(* as it saw them.  A long of Bybit alone, or on the same side as          *)
(* Lighter's, is given an order of the wrong side.                         *)
RightSide(seen) ==
  seen["bybit"] # 0 => (seen["bybit"] > 0 <=> seen["lighter"] < 0)
ClosesHedge ==
  \A c \in Closers :
    close[c].at = "over" /\ c \notin disturbed /\ RightSide(close[c].seen) => pos = Flat

=============================================================================
