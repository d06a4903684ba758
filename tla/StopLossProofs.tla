--------------------------- MODULE StopLossProofs ---------------------------
(***************************************************************************)
(* Proofs about the stop-loss service and the emergency close, for every   *)
(* number of callers, every position and every number of faults.           *)
(*                                                                         *)
(* The argument for the close: as long as nothing disturbs it, no leg has  *)
(* grown or turned round since it was read, for the orders of the other    *)
(* closes are reduce-only too, and the legs it has an answer for are flat  *)
(* unless it knows of an error or sent the wrong side (Kept).  The one for *)
(* the service: unless a start came into the middle of a stop, the only    *)
(* task alive is the current one, it is alive exactly while the service    *)
(* runs or its stop still waits, and it is that stop's own (Service).      *)
(***************************************************************************)
EXTENDS StopLoss, TLAPS

USE CloseAssumption, NoTaskAssumption

LEMMA SetTypes ==
  ASSUME close \in [Closers -> CloseTypes], NEW c \in Closers, NEW r \in CloseTypes, Set(c, r)
  PROVE  close' \in [Closers -> CloseTypes] /\ close'[c] = r
         /\ \A d \in Closers \ {c} : close'[d] = close[d]
BY DEF Set

LEMMA IdleType == Idle \in CloseTypes
<1>1. Flat \in [Exchanges -> Int]
  BY DEF Flat
<1>. QED BY <1>1 DEF Idle, CloseTypes

(* The records that reading leaves.                                        *)
LEMMA SeenTypes ==
  ASSUME NEW r \in CloseTypes, NEW s \in [Exchanges -> Int]
  PROVE  /\ [r EXCEPT !.at = "readLighter"] \in CloseTypes
         /\ [r EXCEPT !.at = "readBybit", !.seen = s] \in CloseTypes
         /\ [r EXCEPT !.at = "over", !.result = "success", !.seen = s] \in CloseTypes
         /\ [r EXCEPT !.at = "orders", !.wait = Legs(s), !.seen = s] \in CloseTypes
<1>1. Legs(s) \in SUBSET Exchanges
  BY DEF Legs
<1>. QED BY <1>1 DEF CloseTypes

(* Position p has shrunk to q, and has not turned round.                   *)
Shrunk(p, q) == (0 <= q /\ q <= p) \/ (p <= q /\ q <= 0)

LEMMA ShrunkTwice ==
  ASSUME NEW p \in Int, NEW q \in Int, NEW r \in Int
  PROVE  /\ Shrunk(p, p) /\ (p = 0 /\ Shrunk(p, q) => q = 0)
         /\ Shrunk(p, q) /\ Shrunk(q, r) => Shrunk(p, r)
BY DEF Shrunk

(* What is left of a leg is a position, and no larger one.                 *)
LEMMA ExecutedShrinks ==
  ASSUME CloseTypeOK, NEW c \in Closers, NEW x \in Exchanges
  PROVE  Executed(c, x) \in Int /\ Shrunk(pos[x], Executed(c, x))
<1>1. pos[x] \in Int /\ close[c].seen[x] \in Int /\ close[c].seen["lighter"] \in Int
  BY DEF CloseTypeOK, CloseTypes, Exchanges
<1>2. Size(close[c].seen[x]) \in Nat
  BY <1>1 DEF Size
<1>. QED BY <1>1, <1>2 DEF Executed, Sells, LighterIsLong, Lesser, Shrunk

LEMMA MoveTypes ==
  ASSUME pos \in [Exchanges -> Int], NEW x \in Exchanges, NEW p \in Int, Move(x, p)
  PROVE  pos' \in [Exchanges -> Int] /\ pos'[x] = p
         /\ \A y \in Exchanges \ {x} : pos'[y] = pos[y]
BY DEF Move

LEMMA CountTypes ==
  ASSUME failures \in 0..MaxFailures, tripped \in BOOLEAN, CountFailure \/ CountSuccess
  PROVE  failures' \in 0..MaxFailures /\ tripped' \in BOOLEAN
<1>1. CASE CountFailure
  <2>1. failures' \in 0..MaxFailures
    BY <1>1 DEF CountFailure
  <2>2. tripped' \in BOOLEAN
    BY <1>1 DEF CountFailure
  <2>. QED BY <2>1, <2>2
<1>2. CASE CountSuccess
  BY <1>2 DEF CountSuccess
<1>. QED BY <1>1, <1>2

LEMMA FaultTypes ==
  ASSUME faults \in 0..MaxFaults, Fault \/ NoFault
  PROVE  faults' \in 0..MaxFaults
BY DEF Fault, NoFault

-----------------------------------------------------------------------------
(* The types of the close, step by step.                                   *)
LEMMA BeginTypes ==
  ASSUME CloseTypeOK, NEW c \in Closers, BeginClose(c)
  PROVE  close' \in [Closers -> CloseTypes] /\ disturbed' \subseteq Closers
<1>1. [Idle EXCEPT !.at = "readLighter"] \in CloseTypes
  BY IdleType, SeenTypes DEF CloseTypes
<1>. QED BY <1>1, SetTypes DEF BeginClose, CloseTypeOK

LEMMA ReadLighterTypes ==
  ASSUME CloseTypeOK, NEW c \in Closers, ReadLighter(c)
  PROVE  CloseTypeOK'
<1>1. PICK p \in {pos["lighter"], 0} :
        /\ Set(c, [close[c] EXCEPT !.at = "readBybit", !.seen = [@ EXCEPT !["lighter"] = p]])
        /\ IF p = pos["lighter"] THEN Smoothly ELSE FaultOf(c)
  BY DEF ReadLighter
<1>2. [close[c] EXCEPT !.at = "readBybit", !.seen = [@ EXCEPT !["lighter"] = p]] \in CloseTypes
  <2>1. close[c] \in CloseTypes
    BY DEF CloseTypeOK
  <2>2. [close[c].seen EXCEPT !["lighter"] = p] \in [Exchanges -> Int]
    BY <2>1 DEF CloseTypeOK, CloseTypes, Exchanges
  <2>. QED BY <2>1, <2>2, SeenTypes
<1>3. close' \in [Closers -> CloseTypes]
  BY <1>1, <1>2, SetTypes DEF CloseTypeOK
<1>4. faults' \in 0..MaxFaults /\ disturbed' \subseteq Closers
  BY <1>1, FaultTypes DEF Smoothly, FaultOf, CloseTypeOK, NoFault
<1>. QED BY <1>3, <1>4 DEF ReadLighter, CloseTypeOK

LEMMA ReadBybitTypes ==
  ASSUME CloseTypeOK, NEW c \in Closers, ReadBybit(c)
  PROVE  CloseTypeOK'
<1>1. PICK p \in {pos["bybit"], 0} :
        /\ Decide(c, [close[c].seen EXCEPT !["bybit"] = p])
        /\ IF p = pos["bybit"] THEN Smoothly ELSE FaultOf(c)
  BY DEF ReadBybit
<1>. DEFINE s == [close[c].seen EXCEPT !["bybit"] = p]
<1>2. s \in [Exchanges -> Int] /\ close[c] \in CloseTypes
  BY DEF CloseTypeOK, CloseTypes, Exchanges
<1>3. /\ [close[c] EXCEPT !.at = "over", !.result = "success", !.seen = s] \in CloseTypes
      /\ [close[c] EXCEPT !.at = "orders", !.wait = Legs(s), !.seen = s] \in CloseTypes
  BY <1>2, SeenTypes
<1>. HIDE DEF s
<1>4. close' \in [Closers -> CloseTypes]
  BY <1>1, <1>3, SetTypes DEF CloseTypeOK, Decide, s
<1>5. failures' \in 0..MaxFailures /\ tripped' \in BOOLEAN
  BY <1>1, CountTypes DEF CloseTypeOK, Decide
<1>6. faults' \in 0..MaxFaults /\ disturbed' \subseteq Closers
  BY <1>1, FaultTypes DEF Smoothly, FaultOf, CloseTypeOK, NoFault
<1>. QED BY <1>4, <1>5, <1>6 DEF ReadBybit, CloseTypeOK

LEMMA AnswerTypes ==
  ASSUME CloseTypeOK, NEW c \in Closers, NEW x \in Exchanges, Answer(c, x)
  PROVE  CloseTypeOK'
<1>1. \A raised \in BOOLEAN : [close[c] EXCEPT !.wait = @ \ {x}, !.errors = @ \/ raised] \in CloseTypes
  <2>1. close[c] \in CloseTypes
    BY DEF CloseTypeOK
  <2>2. \A raised \in BOOLEAN : (close[c].errors \/ raised) \in BOOLEAN
    BY Zenon
  <2>3. close[c].wait \ {x} \in SUBSET Exchanges
    BY <2>1 DEF CloseTypes
  <2>. QED BY <2>1, <2>2, <2>3 DEF CloseTypes
<1>2. \A raised \in BOOLEAN : Answered(c, x, raised) => close' \in [Closers -> CloseTypes]
  BY <1>1, SetTypes DEF Answered, CloseTypeOK
<1>3. Executed(c, x) \in Int
  BY ExecutedShrinks
<1>4. CASE Filled(c, x)
  <2>1. pos' \in [Exchanges -> Int] /\ close' \in [Closers -> CloseTypes]
    BY <1>2, <1>3, <1>4, MoveTypes DEF Filled, CloseTypeOK
  <2>2. disturbed' \subseteq Closers /\ faults' = faults
    BY <1>4 DEF Filled, Smoothly, CloseTypeOK, NoFault
  <2>. QED BY <2>1, <2>2 DEF Answer, CloseTypeOK
<1>5. CASE NothingToReduce(c, x)
  <2>1. close' \in [Closers -> CloseTypes]
    BY <1>2, <1>5 DEF NothingToReduce
  <2>. QED BY <2>1, <1>5 DEF Answer, NothingToReduce, Smoothly, NoFault, CloseTypeOK
<1>6. CASE GoesWrong(c, x)
  <2>1. close' \in [Closers -> CloseTypes]
    BY <1>2, <1>6 DEF GoesWrong
  <2>2. pos' \in [Exchanges -> Int]
    BY <1>3, <1>6, MoveTypes DEF GoesWrong, CloseTypeOK
  <2>3. disturbed' \subseteq Closers /\ faults' \in 0..MaxFaults
    BY <1>6, FaultTypes DEF GoesWrong, FaultOf, CloseTypeOK
  <2>. QED BY <2>1, <2>2, <2>3 DEF Answer, CloseTypeOK
<1>. QED BY <1>4, <1>5, <1>6 DEF Answer

LEMMA EndCloseTypes ==
  ASSUME CloseTypeOK, NEW c \in Closers, EndClose(c)
  PROVE  CloseTypeOK'
<1>1. /\ [close[c] EXCEPT !.at = "over", !.result = "partial", !.errors = FALSE] \in CloseTypes
      /\ [close[c] EXCEPT !.at = "over", !.result = "success"] \in CloseTypes
  BY DEF CloseTypeOK, CloseTypes
<1>2. close' \in [Closers -> CloseTypes]
  BY <1>1, SetTypes DEF EndClose, CloseTypeOK
<1>3. failures' \in 0..MaxFailures /\ tripped' \in BOOLEAN
  BY CountTypes DEF EndClose, CloseTypeOK
<1>. QED BY <1>2, <1>3 DEF EndClose, CloseTypeOK

LEMMA AbandonTypes ==
  ASSUME CloseTypeOK, NEW c \in Closers, Abandon(c)
  PROVE  close' \in [Closers -> CloseTypes]
<1>1. Idle \in CloseTypes
  BY IdleType
<1>2. [close[c] EXCEPT !.at = IF @ = "orders" THEN "abandoned" ELSE @, !.errors = FALSE] \in CloseTypes
  BY DEF CloseTypeOK, CloseTypes
<1>. QED BY <1>1, <1>2, SetTypes DEF Abandon, CloseTypeOK

LEMMA LateAnswerTypes ==
  ASSUME CloseTypeOK, NEW c \in Closers, LateAnswer(c)
  PROVE  CloseTypeOK'
<1>1. PICK x \in close[c].wait :
        /\ Set(c, IF close[c].wait = {x} THEN Idle ELSE [close[c] EXCEPT !.wait = @ \ {x}])
        /\ \E p \in {pos[x], Executed(c, x)} : Move(x, p)
  BY DEF LateAnswer
<1>2. x \in Exchanges
  BY DEF CloseTypeOK, CloseTypes
<1>3. Idle \in CloseTypes
  BY IdleType
<1>4. [close[c] EXCEPT !.wait = @ \ {x}] \in CloseTypes
  BY DEF CloseTypeOK, CloseTypes
<1>5. close' \in [Closers -> CloseTypes]
  BY <1>1, <1>3, <1>4, SetTypes DEF CloseTypeOK
<1>6. pos[x] \in Int /\ Executed(c, x) \in Int
  BY <1>2, ExecutedShrinks DEF CloseTypeOK
<1>7. pos' \in [Exchanges -> Int]
  BY <1>1, <1>2, <1>6, MoveTypes DEF CloseTypeOK
<1>. QED BY <1>5, <1>7 DEF LateAnswer, CloseTypeOK

LEMMA OpenTypes ==
  ASSUME CloseTypeOK, OpenPosition
  PROVE  CloseTypeOK'
<1>1. PICK o \in Openings : pos' = [bybit |-> o[1], lighter |-> o[2]]
  BY DEF OpenPosition
<1>2. o[1] \in Int /\ o[2] \in Int
  OBVIOUS
<1>3. pos' \in [Exchanges -> Int]
  BY <1>1, <1>2 DEF Exchanges
<1>4. openings' \in 0..MaxOpenings
  BY DEF OpenPosition, CloseTypeOK
<1>. QED BY <1>3, <1>4 DEF OpenPosition, CloseTypeOK, Begun

LEMMA CloseStepTypes ==
  ASSUME CloseTypeOK, NEW c \in Closers, CloseStep(c)
  PROVE  CloseTypeOK'
BY ReadLighterTypes, ReadBybitTypes, AnswerTypes, EndCloseTypes DEF CloseStep

-----------------------------------------------------------------------------
(* The types of the service.                                               *)
ServiceTypeOK ==
  /\ running \in BOOLEAN /\ clients \in BOOLEAN /\ breached \in BOOLEAN
  /\ raced \in BOOLEAN
  /\ task \in [Closers -> {"none", "poll", "read", "close"}]
  /\ current \in Closers \cup {NoTask} /\ awaited \in Closers \cup {NoTask}
  /\ cancelled \subseteq Closers
  /\ stopper \in {"none", "await", "closing"}

LEMMA TypesSplit == StopLossTypeOK <=> CloseTypeOK /\ ServiceTypeOK
BY DEF StopLossTypeOK, ServiceTypeOK

LEMMA GotoTypes ==
  ASSUME ServiceTypeOK, NEW t \in Closers, NEW l \in {"none", "poll", "read", "close"}, Goto(t, l)
  PROVE  task' \in [Closers -> {"none", "poll", "read", "close"}] /\ task'[t] = l
         /\ \A d \in Closers \ {t} : task'[d] = task[d]
BY DEF Goto, ServiceTypeOK

LEMMA ReadTypes ==
  ASSUME CloseTypeOK, ServiceTypeOK, NEW t \in Closers, Read(t)
  PROVE  CloseTypeOK' /\ ServiceTypeOK'
<1>1. faults' \in 0..MaxFaults
  BY FaultTypes DEF Read, CloseTypeOK
<1>2. close' \in [Closers -> CloseTypes] /\ disturbed' \subseteq Closers
  BY BeginTypes DEF Read, Quiet, Trigger, CloseTypeOK
<1>3. task' \in [Closers -> {"none", "poll", "read", "close"}]
  BY GotoTypes DEF Read, Quiet, Trigger
<1>. QED BY <1>1, <1>2, <1>3 DEF Read, CloseTypeOK, ServiceTypeOK

LEMMA TypeStep == StopLossTypeOK /\ [Next]_vars => StopLossTypeOK'
<1> SUFFICES ASSUME CloseTypeOK, ServiceTypeOK, [Next]_vars PROVE CloseTypeOK' /\ ServiceTypeOK'
  BY TypesSplit DEF StopLossTypeOK, ServiceTypeOK
<1>a. UNCHANGED serviceVars => ServiceTypeOK'
  BY DEF serviceVars, ServiceTypeOK
<1>b. UNCHANGED closeVars => CloseTypeOK'
  BY DEF closeVars, CloseTypeOK
<1>1. CASE Start
  <2>1. PICK t \in Closers : Goto(t, "poll") /\ current' = t
    BY <1>1 DEF Start
  <2>2. task' \in [Closers -> {"none", "poll", "read", "close"}]
    BY <2>1, GotoTypes
  <2>3. raced' \in BOOLEAN
    BY <1>1 DEF Start, ServiceTypeOK
  <2>. QED BY <1>1, <1>b, <2>1, <2>2, <2>3 DEF Start, ServiceTypeOK
<1>2. CASE Stop
  <2>1. cancelled' \subseteq Closers
    BY <1>2 DEF Stop, ServiceTypeOK, LiveTasks
  <2>2. awaited' \in Closers \cup {NoTask} /\ stopper' \in {"none", "await", "closing"}
    BY <1>2 DEF Stop, ServiceTypeOK
  <2>. QED BY <1>2, <1>b, <2>1, <2>2 DEF Stop, ServiceTypeOK
<1>3. CASE StopJoined
  BY <1>3, <1>b DEF StopJoined, ServiceTypeOK
<1>4. CASE StopClosed
  BY <1>4, <1>b DEF StopClosed, ServiceTypeOK
<1>5. CASE RecreateClients
  BY <1>5, <1>b DEF RecreateClients, ServiceTypeOK
<1>6. CASE CloseAll
  BY <1>6, <1>a, BeginTypes DEF CloseAll, CloseTypeOK
<1>7. CASE PriceMoves
  BY <1>7, <1>b DEF PriceMoves, ServiceTypeOK
<1>8. CASE OpenPosition /\ UNCHANGED serviceVars
  BY <1>8, <1>a, OpenTypes
<1>9. ASSUME NEW t \in Closers, Poll(t) PROVE CloseTypeOK' /\ ServiceTypeOK'
  <2>1. task' \in [Closers -> {"none", "poll", "read", "close"}]
    BY <1>9, GotoTypes DEF Poll
  <2>. QED BY <1>9, <1>b, <2>1 DEF Poll, ServiceTypeOK
<1>10. ASSUME NEW t \in Closers, Triggered(t) PROVE CloseTypeOK' /\ ServiceTypeOK'
  <2>1. task' \in [Closers -> {"none", "poll", "read", "close"}]
    BY <1>10, GotoTypes DEF Triggered
  <2>. QED BY <1>10, <1>b, <2>1 DEF Triggered, ServiceTypeOK
<1>11. ASSUME NEW t \in Closers, Cancelled(t) PROVE CloseTypeOK' /\ ServiceTypeOK'
  <2>1. task' \in [Closers -> {"none", "poll", "read", "close"}]
    BY <1>11, GotoTypes DEF Cancelled
  <2>2. close' \in [Closers -> CloseTypes]
    BY <1>11, AbandonTypes DEF Cancelled
  <2>. QED BY <1>11, <2>1, <2>2 DEF Cancelled, CloseTypeOK, ServiceTypeOK
<1>12. ASSUME NEW c \in Closers, Closing(c) PROVE CloseTypeOK' /\ ServiceTypeOK'
  BY <1>12, <1>a, CloseStepTypes DEF Closing
<1>13. ASSUME NEW c \in Closers, LateAnswer(c), UNCHANGED serviceVars
       PROVE  CloseTypeOK' /\ ServiceTypeOK'
  BY <1>13, <1>a, LateAnswerTypes
<1>14. CASE UNCHANGED vars
  BY <1>14, <1>a, <1>b DEF vars
<1>. QED
  BY <1>1, <1>2, <1>3, <1>4, <1>5, <1>6, <1>7, <1>8, <1>9, <1>10, <1>11, <1>12, <1>13, <1>14,
     ReadTypes DEF Next, TaskStep

LEMMA TypeInit == Init => StopLossTypeOK
<1> SUFFICES ASSUME Init PROVE CloseTypeOK /\ ServiceTypeOK
  BY TypesSplit
<1>1. pos \in [Exchanges -> Int]
  BY DEF Init, CloseInit, Flat
<1>2. close \in [Closers -> CloseTypes]
  BY IdleType DEF Init, CloseInit
<1>3. failures \in 0..MaxFailures /\ openings \in 0..MaxOpenings /\ faults \in 0..MaxFaults
  BY DEF Init, CloseInit
<1>4. CloseTypeOK
  BY <1>1, <1>2, <1>3 DEF Init, CloseInit, CloseTypeOK
<1>5. ServiceTypeOK
  BY DEF Init, ServiceTypeOK
<1>. QED BY <1>4, <1>5

(* The variables keep their types.                                         *)
THEOREM TypeCorrect == Spec => []StopLossTypeOK
BY TypeInit, TypeStep, PTL DEF Spec

-----------------------------------------------------------------------------
(* Unless a start came into the middle of a stop, the only live task is    *)
(* the current one: alive and well while the service runs, and otherwise   *)
(* only while a stop still waits for it.                                   *)
Unraced ==
  /\ LiveTasks \subseteq {current}
  /\ running => clients /\ current \in LiveTasks /\ current \notin cancelled /\ stopper = "none"
  /\ ~running /\ stopper # "await" => LiveTasks = {}
  /\ stopper = "await" => awaited = current
Service == cancelled \subseteq LiveTasks /\ (~raced => Unraced)

LEMMA LiveAfter ==
  ASSUME ServiceTypeOK, NEW t \in Closers, NEW l \in {"none", "poll", "read", "close"}, Goto(t, l)
  PROVE  LiveTasks' = IF l = "none" THEN LiveTasks \ {t} ELSE LiveTasks \cup {t}
BY GotoTypes DEF LiveTasks

LEMMA ServiceStep == StopLossTypeOK /\ Service /\ [Next]_vars => Service'
<1> SUFFICES ASSUME StopLossTypeOK, ServiceTypeOK, Service, [Next]_vars PROVE Service'
  BY TypesSplit
<1>a. UNCHANGED serviceVars => Service'
  BY DEF serviceVars, Service, Unraced, LiveTasks
<1>b. UNCHANGED task => LiveTasks' = LiveTasks
  BY DEF LiveTasks
<1>c. NoTask \notin LiveTasks /\ LiveTasks \subseteq Closers
  BY DEF LiveTasks
<1>1. CASE Start
  <2>1. PICK t \in Closers : Goto(t, "poll") /\ current' = t
    BY <1>1 DEF Start
  <2>2. LiveTasks' = LiveTasks \cup {t}
    BY <2>1, LiveAfter
  <2>3. ASSUME ~raced'
        PROVE  LiveTasks = {} /\ cancelled = {} /\ stopper = "none"
    BY <1>1, <2>3 DEF Start, Service, Unraced
  <2>. QED BY <1>1, <2>1, <2>2, <2>3 DEF Start, Service, Unraced
<1>2. CASE Stop
  BY <1>2, <1>b DEF Stop, Service, Unraced
<1>3. CASE StopJoined
  BY <1>3, <1>b, <1>c DEF StopJoined, Joined, Service, Unraced
<1>4. CASE StopClosed
  BY <1>4, <1>b DEF StopClosed, Service, Unraced
<1>5. CASE RecreateClients
  BY <1>5, <1>b DEF RecreateClients, Service, Unraced
<1>6. CASE CloseAll \/ PriceMoves
  BY <1>6, <1>a, <1>b DEF CloseAll, PriceMoves, Service, Unraced
<1>7. CASE OpenPosition /\ UNCHANGED serviceVars
  BY <1>7, <1>a
<1>8. ASSUME NEW t \in Closers, Poll(t) PROVE Service'
  <2>1. t \in LiveTasks /\ t \notin cancelled
    BY <1>8 DEF Poll, Runs, LiveTasks
  <2>2. CASE ~running
    BY <1>8, <2>1, <2>2, LiveAfter DEF Poll, Service, Unraced
  <2>3. CASE running
    <3>1. LiveTasks' = LiveTasks
      BY <1>8, <2>1, <2>3, LiveAfter DEF Poll
    <3>. QED BY <1>8, <3>1 DEF Poll, Service, Unraced
  <2>. QED BY <2>2, <2>3
<1>9. ASSUME NEW t \in Closers, Read(t) PROVE Service'
  <2>1. t \in LiveTasks
    BY <1>9 DEF Read, Runs, LiveTasks
  <2>2. LiveTasks' = LiveTasks
    BY <1>9, <2>1, LiveAfter DEF Read, Quiet, Trigger
  <2>. QED BY <1>9, <2>2 DEF Read, Service, Unraced
<1>10. ASSUME NEW t \in Closers, Triggered(t) PROVE Service'
  <2>1. t \in LiveTasks /\ t \notin cancelled
    BY <1>10 DEF Triggered, Runs, LiveTasks
  <2>2. LiveTasks' = LiveTasks \ {t}
    BY <1>10, LiveAfter DEF Triggered
  <2>. QED BY <1>10, <2>1, <2>2 DEF Triggered, Service, Unraced
<1>11. ASSUME NEW t \in Closers, Cancelled(t) PROVE Service'
  <2>1. LiveTasks' = LiveTasks \ {t}
    BY <1>11, LiveAfter DEF Cancelled
  <2>. QED BY <1>11, <2>1 DEF Cancelled, Service, Unraced
<1>12. ASSUME NEW c \in Closers, Closing(c) \/ (LateAnswer(c) /\ UNCHANGED serviceVars)
       PROVE  Service'
  BY <1>12, <1>a DEF Closing
<1>13. CASE UNCHANGED vars
  BY <1>13, <1>a DEF vars
<1>. QED
  BY <1>1, <1>2, <1>3, <1>4, <1>5, <1>6, <1>7, <1>8, <1>9, <1>10, <1>11, <1>12, <1>13
  DEF Next, TaskStep

THEOREM ServiceInvariant == Spec => []Service
<1>1. Init => Service
  BY DEF Init, Service, Unraced, LiveTasks
<1>. QED BY <1>1, ServiceStep, TypeCorrect, PTL DEF Spec

(* A service that reports itself running is watching, unless a start came  *)
(* into the middle of a stop.                                              *)
THEOREM RunningMeansWatched == Spec => []Watched
<1>1. Service => Watched
  BY DEF Service, Unraced, Watched
<1>. QED BY <1>1, ServiceInvariant, PTL

(* A stop that has returned leaves no task, and there are never two.       *)
THEOREM NoTaskLeft == Spec => []NoStrayTask
<1>1. Service => NoStrayTask
  BY DEF Service, Unraced, NoStrayTask
<1>. QED BY <1>1, ServiceInvariant, PTL

-----------------------------------------------------------------------------
(* A stop waits only for a task that is over or has been told to end, even *)
(* when starts came in between: what StopEnds needs besides fairness.      *)
ToldToEnd == awaited \in LiveTasks => awaited \in cancelled

THEOREM StopWaitsForTheTold == Spec => []ToldToEnd
<1>1. Init => ToldToEnd
  BY DEF Init, ToldToEnd, LiveTasks
<1>2. StopLossTypeOK /\ ToldToEnd /\ [Next]_vars => ToldToEnd'
  <2> SUFFICES ASSUME StopLossTypeOK, ServiceTypeOK, ToldToEnd, [Next]_vars
               PROVE  ToldToEnd'
    BY TypesSplit
  <2>a. UNCHANGED <<task, cancelled, awaited>> => ToldToEnd'
    BY DEF ToldToEnd, LiveTasks
  <2>b. ASSUME NEW t \in Closers, LiveTasks' \subseteq LiveTasks \cup {t}, t # awaited,
               UNCHANGED <<cancelled, awaited>>
        PROVE  ToldToEnd'
    BY <2>b DEF ToldToEnd
  <2>1. CASE Start
    <3>1. PICK t \in Closers \ (LiveTasks \cup {awaited}) : Goto(t, "poll")
      BY <2>1 DEF Start
    <3>2. LiveTasks' = LiveTasks \cup {t}
      BY <3>1, LiveAfter
    <3>. QED BY <2>1, <2>b, <3>1, <3>2 DEF Start
  <2>2. CASE Stop
    BY <2>2 DEF Stop, ToldToEnd, LiveTasks
  <2>3. CASE StopJoined
    BY <2>3 DEF StopJoined, ToldToEnd, LiveTasks
  <2>4. CASE StopClosed \/ RecreateClients \/ CloseAll \/ PriceMoves
    BY <2>4, <2>a DEF StopClosed, RecreateClients, CloseAll, PriceMoves, serviceVars
  <2>5. ASSUME NEW t \in Closers, Poll(t) \/ Read(t) \/ Triggered(t) PROVE ToldToEnd'
    <3>1. t \in LiveTasks /\ t \notin cancelled
      BY <2>5 DEF Poll, Read, Triggered, Runs, LiveTasks
    <3>2. t # awaited
      BY <3>1 DEF ToldToEnd
    <3>3. LiveTasks' \subseteq LiveTasks \cup {t}
      BY <2>5, LiveAfter DEF Poll, Read, Quiet, Trigger, Triggered
    <3>. QED BY <2>5, <2>b, <3>2, <3>3 DEF Poll, Read, Triggered
  <2>6. ASSUME NEW t \in Closers, Cancelled(t) PROVE ToldToEnd'
    <3>1. LiveTasks' = LiveTasks \ {t}
      BY <2>6, LiveAfter DEF Cancelled
    <3>. QED BY <2>6, <3>1 DEF Cancelled, ToldToEnd
  <2>7. ASSUME NEW c \in Closers,
               \/ Closing(c)
               \/ LateAnswer(c) /\ UNCHANGED serviceVars
        PROVE  ToldToEnd'
    BY <2>7, <2>a DEF Closing, serviceVars
  <2>8. CASE (OpenPosition /\ UNCHANGED serviceVars) \/ UNCHANGED vars
    BY <2>8, <2>a DEF serviceVars, vars
  <2>. QED
    BY <2>1, <2>2, <2>3, <2>4, <2>5, <2>6, <2>7, <2>8 DEF Next, TaskStep
<1>. QED BY <1>1, <1>2, TypeCorrect, PTL DEF Spec

-----------------------------------------------------------------------------
(* What an undisturbed close knows of the account.                         *)
KeptReading(c) ==
  close[c].at = "readBybit" => Shrunk(close[c].seen["lighter"], pos["lighter"])
KeptOrders(c) ==
  close[c].at = "orders" =>
    /\ close[c].wait \subseteq Legs(close[c].seen)
    /\ \A x \in Exchanges : Shrunk(close[c].seen[x], pos[x])
    /\ \A x \in Exchanges \ close[c].wait :
         ~close[c].errors \/ RightSide(close[c].seen) => pos[x] = 0
KeptOver(c) ==
  close[c].at = "over" =>
    (close[c].result = "success" \/ RightSide(close[c].seen) => pos = Flat)
KeptOf(c) == KeptReading(c) /\ KeptOrders(c) /\ KeptOver(c)
Kept == \A c \in Closers : c \notin disturbed => KeptOf(c)

LEMMA FlatPositions ==
  ASSUME pos \in [Exchanges -> Int], \A x \in Exchanges : pos[x] = 0
  PROVE  pos = Flat
BY DEF Flat

(* A step that only shrinks positions, whoever closes.                     *)
Shrinking == pos' \in [Exchanges -> Int] /\ \A x \in Exchanges : Shrunk(pos[x], pos'[x])

LEMMA StillShrinks == ASSUME CloseTypeOK, pos' = pos PROVE Shrinking
<1>1. pos \in [Exchanges -> Int]
  BY DEF CloseTypeOK
<1>. QED BY <1>1, ShrunkTwice DEF Shrinking

LEMMA MoveShrinks ==
  ASSUME CloseTypeOK, NEW c \in Closers, NEW x \in Exchanges, Move(x, Executed(c, x))
  PROVE  Shrinking
<1>1. Executed(c, x) \in Int /\ Shrunk(pos[x], Executed(c, x)) /\ pos \in [Exchanges -> Int]
  BY ExecutedShrinks DEF CloseTypeOK
<1>2. /\ pos' \in [Exchanges -> Int] /\ pos'[x] = Executed(c, x)
      /\ \A y \in Exchanges \ {x} : pos'[y] = pos[y]
  BY <1>1, MoveTypes
<1>. QED BY <1>1, <1>2, ShrunkTwice DEF Shrinking

(* A step that is not this close's keeps what it knows.                    *)
LEMMA KeptByOthers ==
  ASSUME CloseTypeOK, Kept, NEW d \in Closers, d \notin disturbed' => d \notin disturbed,
         close'[d] = close[d], Shrinking
  PROVE  d \notin disturbed' => KeptOf(d)'
<1> SUFFICES ASSUME d \notin disturbed' PROVE KeptOf(d)'
  OBVIOUS
<1>1. KeptOf(d)
  BY DEF Kept
<1>2. /\ close[d].seen \in [Exchanges -> Int] /\ pos \in [Exchanges -> Int]
      /\ pos' \in [Exchanges -> Int]
  BY DEF CloseTypeOK, CloseTypes, Shrinking
<1>3. \A x \in Exchanges :
        /\ Shrunk(close[d].seen[x], pos[x]) => Shrunk(close[d].seen[x], pos'[x])
        /\ pos[x] = 0 => pos'[x] = 0
  BY <1>2, ShrunkTwice DEF Shrinking
<1>4. KeptReading(d)'
  BY <1>1, <1>3 DEF KeptOf, KeptReading, Exchanges
<1>5. KeptOrders(d)'
  BY <1>1, <1>3 DEF KeptOf, KeptOrders
<1>6. pos = Flat => pos' = Flat
  <2>1. pos = Flat => \A x \in Exchanges : pos[x] = 0
    BY DEF Flat
  <2>2. pos = Flat => \A x \in Exchanges : pos'[x] = 0
    BY <1>3, <2>1
  <2>. QED BY <1>2, <2>2 DEF Flat
<1>7. KeptOver(d)'
  BY <1>1, <1>6 DEF KeptOf, KeptOver, Flat
<1>. QED BY <1>4, <1>5, <1>7 DEF KeptOf

(* A step of close c keeps what the others know if it only shrinks         *)
(* positions.                                                              *)
LEMMA KeptAround ==
  ASSUME CloseTypeOK, Kept, NEW c \in Closers, NEW r \in CloseTypes, Set(c, r),
         disturbed \ {c} \subseteq disturbed', Shrinking,
         c \notin disturbed' => KeptOf(c)'
  PROVE  Kept'
<1> SUFFICES ASSUME NEW d \in Closers PROVE d \notin disturbed' => KeptOf(d)'
  BY DEF Kept
<1>1. CASE d # c
  <2>1. close'[d] = close[d]
    BY <1>1, SetTypes DEF CloseTypeOK
  <2>2. d \notin disturbed' => d \notin disturbed
    BY <1>1
  <2>. QED BY <2>1, <2>2, KeptByOthers
<1>. QED BY <1>1

LEMMA KeptByReadLighter ==
  ASSUME CloseTypeOK, Kept, NEW c \in Closers, ReadLighter(c)
  PROVE  Kept'
<1>1. PICK p \in {pos["lighter"], 0} :
        /\ Set(c, [close[c] EXCEPT !.at = "readBybit", !.seen = [@ EXCEPT !["lighter"] = p]])
        /\ IF p = pos["lighter"] THEN Smoothly ELSE FaultOf(c)
  BY DEF ReadLighter
<1>. DEFINE s == [close[c].seen EXCEPT !["lighter"] = p]
            r == [close[c] EXCEPT !.at = "readBybit", !.seen = s]
<1>2. close[c] \in CloseTypes /\ s \in [Exchanges -> Int] /\ s["lighter"] = p
  BY DEF CloseTypeOK, CloseTypes, Exchanges
<1>3. r \in CloseTypes
  BY <1>2, SeenTypes
<1>4. r.at = "readBybit" /\ r.seen = s
  BY <1>2 DEF CloseTypes
<1>5. Set(c, r)
  BY <1>1
<1>. HIDE DEF r, s
<1>6. close'[c] = r
  BY <1>3, <1>5, SetTypes DEF CloseTypeOK
<1>7. disturbed \ {c} \subseteq disturbed' /\ pos' = pos
  BY <1>1 DEF ReadLighter, Smoothly, FaultOf
<1>8. pos["lighter"] \in Int /\ Shrunk(pos["lighter"], pos["lighter"])
  BY ShrunkTwice DEF CloseTypeOK, Exchanges
<1>9. c \notin disturbed' => KeptOf(c)'
  BY <1>1, <1>2, <1>4, <1>6, <1>7, <1>8
  DEF FaultOf, KeptOf, KeptReading, KeptOrders, KeptOver
<1>. QED BY <1>3, <1>5, <1>7, <1>9, StillShrinks, KeptAround

LEMMA KeptByReadBybit ==
  ASSUME CloseTypeOK, Kept, NEW c \in Closers, ReadBybit(c)
  PROVE  Kept'
<1>1. PICK p \in {pos["bybit"], 0} :
        /\ Decide(c, [close[c].seen EXCEPT !["bybit"] = p])
        /\ IF p = pos["bybit"] THEN Smoothly ELSE FaultOf(c)
  BY DEF ReadBybit
<1>. DEFINE s == [close[c].seen EXCEPT !["bybit"] = p]
            over == [close[c] EXCEPT !.at = "over", !.result = "success", !.seen = s]
            orders == [close[c] EXCEPT !.at = "orders", !.wait = Legs(s), !.seen = s]
<1>2. /\ close[c] \in CloseTypes /\ s \in [Exchanges -> Int]
      /\ s["bybit"] = p /\ s["lighter"] = close[c].seen["lighter"]
  BY DEF CloseTypeOK, CloseTypes, Exchanges
<1>3. over \in CloseTypes /\ orders \in CloseTypes
  BY <1>2, SeenTypes
<1>4. over.at = "over" /\ orders.at = "orders" /\ orders.wait = Legs(s) /\ orders.seen = s
  BY <1>2 DEF CloseTypes
<1>5. Decide(c, s) /\ (Legs(s) = {} => Set(c, over)) /\ (Legs(s) # {} => Set(c, orders))
  BY <1>1 DEF Decide
<1>. HIDE DEF s, over, orders
<1>6. disturbed \ {c} \subseteq disturbed' /\ pos' = pos
  BY <1>1 DEF ReadBybit, Smoothly, FaultOf
<1>a. Shrinking
  BY <1>6, StillShrinks
<1>7. ASSUME c \notin disturbed'
      PROVE  \A x \in Exchanges : Shrunk(s[x], pos[x]) /\ (s[x] = 0 => pos[x] = 0)
  <2>1. c \notin disturbed /\ p = pos["bybit"]
    BY <1>1, <1>7 DEF Smoothly, FaultOf
  <2>2. Shrunk(s["lighter"], pos["lighter"])
    BY <1>2, <2>1 DEF Kept, KeptOf, KeptReading, ReadBybit
  <2>3. \A x \in Exchanges : pos[x] \in Int /\ s[x] \in Int
    BY <1>2 DEF CloseTypeOK
  <2>4. \A x \in Exchanges : Shrunk(s[x], pos[x])
    BY <1>2, <2>1, <2>2, <2>3, ShrunkTwice DEF Exchanges
  <2>. QED BY <2>3, <2>4, ShrunkTwice
<1>8. CASE Legs(s) = {}
  <2>1. close'[c] = over
    BY <1>3, <1>5, <1>8, SetTypes DEF CloseTypeOK
  <2>2. c \notin disturbed' => pos = Flat
    BY <1>7, <1>8, FlatPositions DEF Legs, CloseTypeOK
  <2>3. c \notin disturbed' => KeptOf(c)'
    BY <1>4, <1>6, <2>1, <2>2 DEF KeptOf, KeptReading, KeptOrders, KeptOver, Flat
  <2>. QED BY <1>3, <1>5, <1>6, <1>8, <1>a, <2>3, KeptAround
<1>9. CASE Legs(s) # {}
  <2>1. close'[c] = orders
    BY <1>3, <1>5, <1>9, SetTypes DEF CloseTypeOK
  <2>2. c \notin disturbed' => KeptOf(c)'
    BY <1>4, <1>6, <1>7, <2>1 DEF KeptOf, KeptReading, KeptOrders, KeptOver, Legs
  <2>. QED BY <1>3, <1>5, <1>6, <1>9, <1>a, <2>2, KeptAround
<1>. QED BY <1>8, <1>9

(* An order for a leg that has not grown or turned since the close saw it  *)
(* leaves it flat or does nothing, and does nothing only to a flat leg or  *)
(* to Bybit's on the wrong side.                                           *)
LEMMA OrderCloses ==
  ASSUME CloseTypeOK, NEW c \in Closers, NEW x \in Exchanges,
         Shrunk(close[c].seen[x], pos[x])
  PROVE  /\ ~Idles(c, x) => Executed(c, x) = 0
         /\ Idles(c, x) => pos[x] = 0 \/ (x = "bybit" /\ ~RightSide(close[c].seen))
<1>. DEFINE l == close[c].seen["lighter"]
            z == close[c].seen[x]
<1>1. pos[x] \in Int /\ l \in Int /\ z \in Int
  BY DEF CloseTypeOK, CloseTypes, Exchanges
<1>2. CASE x = "lighter"
  BY <1>1, <1>2 DEF Idles, Executed, Sells, LighterIsLong, Size, Lesser, Shrunk
<1>3. CASE x = "bybit"
  <2>1. ~Idles(c, x) => Executed(c, x) = 0
    BY <1>1, <1>3 DEF Idles, Executed, Sells, LighterIsLong, Size, Lesser, Shrunk
  <2>2. RightSide(close[c].seen) /\ z # 0 => (z > 0 <=> l < 0)
    BY <1>3 DEF RightSide
  <2>3. RightSide(close[c].seen) /\ pos[x] # 0 => ~Idles(c, x)
    BY <1>1, <1>3, <2>2 DEF Idles, Executed, Sells, LighterIsLong, Size, Lesser, Shrunk
  <2>. QED BY <1>3, <2>1, <2>3
<1>. QED BY <1>2, <1>3 DEF Exchanges

LEMMA KeptByAnswer ==
  ASSUME CloseTypeOK, Kept, NEW c \in Closers, NEW x \in Exchanges, Answer(c, x)
  PROVE  Kept'
<1>1. PICK raised \in BOOLEAN :
        /\ Answered(c, x, raised)
        /\ c \notin disturbed' =>
             /\ c \notin disturbed
             /\ \/ ~Idles(c, x) /\ Move(x, Executed(c, x))
                \/ Idles(c, x) /\ pos' = pos /\ (raised \/ x = "lighter")
        /\ disturbed \subseteq disturbed'
        /\ pos' = pos \/ Move(x, Executed(c, x))
  <2>1. CASE Filled(c, x)
    BY <2>1 DEF Filled, Smoothly
  <2>2. CASE NothingToReduce(c, x)
    BY <2>2 DEF NothingToReduce, Smoothly
  <2>3. CASE GoesWrong(c, x)
    BY <2>3 DEF GoesWrong, FaultOf
  <2>. QED BY <2>1, <2>2, <2>3 DEF Answer
<1>. DEFINE r == [close[c] EXCEPT !.wait = @ \ {x}, !.errors = @ \/ raised]
<1>2. close[c] \in CloseTypes /\ close[c].at = "orders" /\ x \in close[c].wait
  BY DEF Answer, CloseTypeOK
<1>3. r \in CloseTypes
  <2>1. (close[c].errors \/ raised) \in BOOLEAN
    BY Zenon
  <2>2. close[c].wait \ {x} \in SUBSET Exchanges
    BY <1>2 DEF CloseTypes
  <2>. QED BY <1>2, <2>1, <2>2 DEF CloseTypes
<1>4. /\ r.at = "orders" /\ r.wait = close[c].wait \ {x} /\ r.seen = close[c].seen
      /\ ~r.errors => ~close[c].errors /\ ~raised
  BY <1>2 DEF CloseTypes
<1>5. Set(c, r)
  BY <1>1 DEF Answered
<1>. HIDE DEF r
<1>6. close'[c] = r
  BY <1>3, <1>5, SetTypes DEF CloseTypeOK
<1>7. ASSUME c \notin disturbed' PROVE KeptOf(c)'
  <2>1. KeptOrders(c)
    BY <1>1, <1>7 DEF Kept, KeptOf
  <2>2. Shrunk(close[c].seen[x], pos[x])
    BY <1>2, <2>1 DEF KeptOrders
  <2>3. CASE ~Idles(c, x) /\ Move(x, Executed(c, x))
    <3>1. Executed(c, x) = 0 /\ close[c].seen[x] \in Int
      BY <1>2, <2>2, <2>3, OrderCloses DEF CloseTypes
    <3>2. pos'[x] = 0 /\ \A y \in Exchanges \ {x} : pos'[y] = pos[y]
      BY <2>3, <3>1, MoveTypes DEF CloseTypeOK
    <3>3. Shrunk(close[c].seen[x], 0)
      BY <3>1 DEF Shrunk
    <3>4. KeptOrders(c)'
      BY <1>2, <1>4, <1>6, <2>1, <3>2, <3>3 DEF KeptOrders
    <3>. QED BY <1>4, <1>6, <3>4 DEF KeptOf, KeptReading, KeptOver
  <2>4. CASE Idles(c, x) /\ pos' = pos /\ (raised \/ x = "lighter")
    <3>1. pos[x] = 0 \/ (r.errors /\ ~RightSide(close[c].seen))
      BY <1>4, <2>2, <2>4, OrderCloses
    <3>2. KeptOrders(c)'
      BY <1>4, <1>6, <2>1, <2>4, <3>1, <1>2 DEF KeptOrders
    <3>. QED BY <1>4, <1>6, <3>2 DEF KeptOf, KeptReading, KeptOver
  <2>. QED BY <1>1, <1>7, <2>3, <2>4
<1>8. Shrinking
  BY <1>1, StillShrinks, MoveShrinks
<1>9. disturbed \ {c} \subseteq disturbed'
  BY <1>1
<1>. QED BY <1>3, <1>5, <1>7, <1>8, <1>9, KeptAround

LEMMA KeptByEndClose ==
  ASSUME CloseTypeOK, Kept, NEW c \in Closers, EndClose(c)
  PROVE  Kept'
<1>. DEFINE partial == [close[c] EXCEPT !.at = "over", !.result = "partial", !.errors = FALSE]
            success == [close[c] EXCEPT !.at = "over", !.result = "success"]
<1>1. close[c] \in CloseTypes /\ pos' = pos /\ disturbed' = disturbed
  BY DEF EndClose, CloseTypeOK
<1>2. partial \in CloseTypes /\ success \in CloseTypes
  BY <1>1 DEF CloseTypes
<1>3. /\ partial.at = "over" /\ partial.result = "partial" /\ partial.seen = close[c].seen
      /\ success.at = "over" /\ success.result = "success" /\ success.seen = close[c].seen
  BY <1>1 DEF CloseTypes
<1>4. \/ close[c].errors /\ Set(c, partial)
      \/ ~close[c].errors /\ Set(c, success)
  BY DEF EndClose
<1>5. c \notin disturbed /\ (~close[c].errors \/ RightSide(close[c].seen)) => pos = Flat
  BY FlatPositions DEF Kept, KeptOf, KeptOrders, EndClose, CloseTypeOK
<1>. HIDE DEF partial, success
<1>6. CASE close[c].errors /\ Set(c, partial)
  <2>1. close'[c] = partial
    BY <1>2, <1>6, SetTypes DEF CloseTypeOK
  <2>2. c \notin disturbed' => KeptOf(c)'
    BY <1>1, <1>3, <1>5, <2>1 DEF KeptOf, KeptReading, KeptOrders, KeptOver, Flat
  <2>. QED BY <1>1, <1>2, <1>6, <2>2, StillShrinks, KeptAround
<1>7. CASE ~close[c].errors /\ Set(c, success)
  <2>1. close'[c] = success
    BY <1>2, <1>7, SetTypes DEF CloseTypeOK
  <2>2. c \notin disturbed' => KeptOf(c)'
    BY <1>1, <1>3, <1>5, <1>7, <2>1 DEF KeptOf, KeptReading, KeptOrders, KeptOver, Flat
  <2>. QED BY <1>1, <1>2, <1>7, <2>2, StillShrinks, KeptAround
<1>. QED BY <1>4, <1>6, <1>7

LEMMA KeptByBegin ==
  ASSUME CloseTypeOK, Kept, NEW c \in Closers, BeginClose(c), pos' = pos
  PROVE  Kept'
<1>. DEFINE r == [Idle EXCEPT !.at = "readLighter"]
<1>1. r \in CloseTypes
  BY IdleType, SeenTypes DEF CloseTypes
<1>2. r.at = "readLighter"
  BY IdleType DEF CloseTypes, Idle
<1>3. Set(c, r) /\ disturbed' = disturbed \ {c}
  BY DEF BeginClose
<1>. HIDE DEF r
<1>4. close'[c] = r
  BY <1>1, <1>3, SetTypes DEF CloseTypeOK
<1>5. KeptOf(c)'
  BY <1>2, <1>4 DEF KeptOf, KeptReading, KeptOrders, KeptOver
<1>. QED BY <1>1, <1>3, <1>5, StillShrinks, KeptAround

LEMMA KeptByAbandon ==
  ASSUME CloseTypeOK, Kept, NEW c \in Closers, Abandon(c), pos' = pos, disturbed' = disturbed
  PROVE  Kept'
<1>. DEFINE r == [close[c] EXCEPT !.at = IF @ = "orders" THEN "abandoned" ELSE @, !.errors = FALSE]
<1>1. Idle \in CloseTypes /\ r \in CloseTypes
  BY IdleType DEF CloseTypeOK, CloseTypes
<1>2. /\ Idle.at = "idle"
      /\ r.at = (IF close[c].at = "orders" THEN "abandoned" ELSE close[c].at)
      /\ r.seen = close[c].seen /\ r.result = close[c].result
  BY DEF Idle, CloseTypeOK, CloseTypes
<1>3. Set(c, Idle) \/ Set(c, r)
  BY DEF Abandon
<1>. HIDE DEF r
<1>4. CASE Set(c, Idle)
  <2>1. close'[c] = Idle
    BY <1>1, <1>4, SetTypes DEF CloseTypeOK
  <2>2. KeptOf(c)'
    BY <1>2, <2>1 DEF KeptOf, KeptReading, KeptOrders, KeptOver
  <2>. QED BY <1>1, <1>4, <2>2, StillShrinks, KeptAround
<1>5. CASE Set(c, r)
  <2>1. close'[c] = r
    BY <1>1, <1>5, SetTypes DEF CloseTypeOK
  <2>2. c \notin disturbed' => KeptOf(c)'
    BY <1>2, <2>1 DEF Kept, KeptOf, KeptReading, KeptOrders, KeptOver, Flat
  <2>. QED BY <1>1, <1>5, <2>2, StillShrinks, KeptAround
<1>. QED BY <1>3, <1>4, <1>5

LEMMA KeptByLateAnswer ==
  ASSUME CloseTypeOK, Kept, NEW c \in Closers, LateAnswer(c)
  PROVE  Kept'
<1>1. PICK x \in close[c].wait :
        /\ Set(c, IF close[c].wait = {x} THEN Idle ELSE [close[c] EXCEPT !.wait = @ \ {x}])
        /\ \E p \in {pos[x], Executed(c, x)} : Move(x, p)
  BY DEF LateAnswer
<1>. DEFINE r == [close[c] EXCEPT !.wait = @ \ {x}]
<1>2. Idle \in CloseTypes /\ r \in CloseTypes
  BY IdleType DEF CloseTypeOK, CloseTypes
<1>3. Idle.at = "idle" /\ r.at = "abandoned"
  BY DEF Idle, CloseTypeOK, CloseTypes, LateAnswer
<1>4. disturbed \subseteq disturbed' /\ Shrinking
  <2>1. x \in Exchanges /\ pos \in [Exchanges -> Int]
    BY DEF CloseTypeOK, CloseTypes
  <2>2. pos' = pos \/ Move(x, Executed(c, x))
    BY <1>1, <2>1 DEF Move
  <2>. QED BY <2>1, <2>2, StillShrinks, MoveShrinks DEF LateAnswer
<1>5. Set(c, Idle) \/ Set(c, r)
  BY <1>1
<1>. HIDE DEF r
<1>6. ASSUME NEW q \in {Idle, r}, Set(c, q) PROVE Kept'
  <2>1. close'[c] = q
    BY <1>2, <1>6, SetTypes DEF CloseTypeOK
  <2>2. KeptOf(c)'
    BY <1>3, <1>6, <2>1 DEF KeptOf, KeptReading, KeptOrders, KeptOver
  <2>. QED BY <1>2, <1>4, <1>6, <2>2, KeptAround
<1>. QED BY <1>5, <1>6

LEMMA KeptStep == StopLossTypeOK /\ Kept /\ [Next]_vars => Kept'
<1> SUFFICES ASSUME CloseTypeOK, Kept, [Next]_vars PROVE Kept'
  BY TypesSplit
<1>a. UNCHANGED <<pos, close, disturbed>> => Kept'
  BY DEF Kept, KeptOf, KeptReading, KeptOrders, KeptOver, Flat
<1>1. CASE \/ Start \/ Stop \/ StopJoined \/ StopClosed \/ RecreateClients
           \/ PriceMoves \/ UNCHANGED vars
  BY <1>1, <1>a DEF Start, Stop, StopJoined, StopClosed, RecreateClients, PriceMoves, vars, closeVars
<1>2. CASE CloseAll
  BY <1>2, KeptByBegin DEF CloseAll
<1>3. CASE OpenPosition
  <2>1. ASSUME NEW d \in Closers PROVE d \notin disturbed' => close'[d].at = "idle"
    BY <1>3, <2>1 DEF OpenPosition, Begun
  <2>. QED BY <2>1 DEF Kept, KeptOf, KeptReading, KeptOrders, KeptOver
<1>4. ASSUME NEW t \in Closers, Poll(t) \/ Triggered(t) PROVE Kept'
  BY <1>4, <1>a DEF Poll, Triggered, closeVars
<1>5. ASSUME NEW t \in Closers, Read(t) PROVE Kept'
  BY <1>5, <1>a, KeptByBegin DEF Read, Quiet, Trigger
<1>6. ASSUME NEW t \in Closers, Cancelled(t) PROVE Kept'
  BY <1>6, KeptByAbandon DEF Cancelled
<1>7. ASSUME NEW c \in Closers, Closing(c) PROVE Kept'
  BY <1>7, KeptByReadLighter, KeptByReadBybit, KeptByAnswer, KeptByEndClose
  DEF Closing, CloseStep
<1>8. ASSUME NEW c \in Closers, LateAnswer(c) PROVE Kept'
  BY <1>8, KeptByLateAnswer
<1>. QED BY <1>1, <1>2, <1>3, <1>4, <1>5, <1>6, <1>7, <1>8 DEF Next, TaskStep

THEOREM KeptInvariant == Spec => []Kept
<1>1. Init => Kept
  BY DEF Init, CloseInit, Idle, Kept, KeptOf, KeptReading, KeptOrders, KeptOver
<1>. QED BY <1>1, KeptStep, TypeCorrect, PTL DEF Spec

(* A close that reports success, and that no fault and no opening          *)
(* disturbed, leaves both accounts flat, whatever other closes do.         *)
THEOREM SuccessIsFlat == Spec => []SuccessMeansFlat
<1>1. Kept => SuccessMeansFlat
  BY DEF Kept, KeptOf, KeptOver, SuccessMeansFlat
<1>. QED BY <1>1, KeptInvariant, PTL

(* An undisturbed close of what it saw as a hedge, a leg of Lighter alone  *)
(* or a short of Bybit alone leaves both accounts flat, whatever other     *)
(* closes do between its reads and its orders.                             *)
THEOREM HedgeIsClosed == Spec => []ClosesHedge
<1>1. Kept => ClosesHedge
  BY DEF Kept, KeptOf, KeptOver, ClosesHedge
<1>. QED BY <1>1, KeptInvariant, PTL

=============================================================================
