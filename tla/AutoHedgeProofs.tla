-------------------------- MODULE AutoHedgeProofs --------------------------
(* Theorems of AutoHedge, for any number of tasks and any times.           *)
EXTENDS AutoHedge, TLAPS

-----------------------------------------------------------------------------
(* Types.                                                                  *)

(* The size of a position is the position or its opposite.                 *)
LEMMA Magnitudes ==
  ASSUME NEW n \in Int
  PROVE  Magnitude(n) \in Nat /\ (Magnitude(n) = n \/ Magnitude(n) = -n)
BY DEF Magnitude

(* What a poll that fails does to the count and the service.               *)
LEMMA ErrorTyped ==
  ASSUME errors \in Nat, running \in BOOLEAN, NEW l \in Loops, PollError(l)
  PROVE  errors' \in Nat /\ running' \in BOOLEAN
<1>1. errors' \in Nat
  BY DEF PollError
<1>2. running' = FALSE \/ running' = running
  BY DEF PollError
<1> QED BY <1>1, <1>2

(* Positions, and no position, are integers.                               *)
LEMMA PositionsAreInts ==
  ASSUME NEW n \in Positions \cup {0}
  PROVE  n \in Int
<1>1. Positions \subseteq Int
  BY HedgeNumbers
<1> QED BY <1>1

(* A failure at least doubles the first backoff, within the cap.           *)
LEMMA BackoffGrows ==
  ASSUME backoff \in Initial .. MaxCooldown
  PROVE  Smaller(MaxCooldown, 2 * backoff) \in 2 * Initial .. MaxCooldown
BY HedgeNumbers DEF Smaller

(* What a task does changes only its own entries.                          *)
LEMMA GotoTyped ==
  ASSUME pc \in [Loops -> LoopPlaces], NEW l \in Loops, NEW place \in LoopPlaces,
         Goto(l, place)
  PROVE  pc' \in [Loops -> LoopPlaces]
BY DEF Goto

(* A poll that is over keeps the types of what was read.                   *)
LEMMA ForgetTyped ==
  ASSUME TypeOK, NEW l \in Loops, Forget(l)
  PROVE  /\ got' \in [Loops -> SUBSET {"bybit", "lighter"}]
         /\ waited' \in [Loops -> 0 .. ReadTime]
         /\ readB' \in [Loops -> Positions \cup {0}] /\ readL' \in [Loops -> Int]
BY HedgeNumbers DEF TypeOK, PollTypes, Forget

(* The service's values keep their types: the backoff within its two       *)
(* bounds, every wait within its time.                                     *)
THEOREM HedgeTyped == Spec => []TypeOK
<1>1. Init => TypeOK
  <2> SUFFICES ASSUME Init PROVE TypeOK
    OBVIOUS
  <2>1. MarketTypes /\ TimerTypes
    BY HedgeNumbers DEF Init, MarketTypes, TimerTypes
  <2>5. HistoryTypes
    BY HedgeNumbers DEF Init, HistoryTypes, Excuses
  <2>2. ServiceTypes
    BY DEF Init, ServiceTypes
  <2>3. PollTypes
    BY HedgeNumbers DEF Init, PollTypes
  <2>4. pc \in [Loops -> LoopPlaces]
    BY DEF Init, LoopPlaces
  <2> QED BY <2>1, <2>2, <2>3, <2>4, <2>5 DEF TypeOK
<1>2. TypeOK /\ [Next]_vars => TypeOK'
  <2> SUFFICES ASSUME TypeOK, [Next]_vars PROVE TypeOK'
    OBVIOUS
  <2> USE HedgeNumbers DEF TypeOK, MarketTypes, TimerTypes, ServiceTypes, PollTypes,
                         HistoryTypes, Excuses, LoopPlaces, Ordering
  <2>1. ASSUME NEW l \in Loops, Begin(l) PROVE TypeOK'
    <3>1. pc' \in [Loops -> LoopPlaces]
      BY <2>1, GotoTyped DEF Begin, PollError
    <3>2. errors' \in Nat /\ running' \in BOOLEAN
      <4>1. CASE running /\ ~clients
        BY <2>1, <4>1, ErrorTyped DEF Begin
      <4>2. CASE ~(running /\ ~clients)
        BY <2>1, <4>2 DEF Begin
      <4> QED BY <4>1, <4>2
    <3> QED BY <2>1, <3>1, <3>2 DEF Begin, marketVars, pollVars
  <2>2. ASSUME NEW l \in Loops, ReadBybit(l) PROVE TypeOK'
    BY <2>2 DEF ReadBybit, marketVars, timerVars, serviceVars
  <2>3. ASSUME NEW l \in Loops, ReadLighter(l) PROVE TypeOK'
    <3>1. readL' \in [Loops -> Int] /\ got' \in [Loops -> SUBSET {"bybit", "lighter"}]
      BY <2>3 DEF ReadLighter
    <3>2. misreads' \in 0 .. MaxMisreads
      BY <2>3 DEF ReadLighter
    <3>3. excuse' \in Excuses
      BY <2>3 DEF ReadLighter
    <3> QED BY <2>3, <3>1, <3>2, <3>3 DEF ReadLighter, marketVars, timerVars, serviceVars
  <2>4. ASSUME NEW l \in Loops, Timeout(l) PROVE TypeOK'
    <3>1. pc' \in [Loops -> LoopPlaces]
      BY <2>4, GotoTyped DEF Timeout, PollError
    <3>2. errors' \in Nat /\ running' \in BOOLEAN
      BY <2>4, ErrorTyped DEF Timeout
    <3> QED BY <2>4, <3>1, <3>2, ForgetTyped DEF Timeout, marketVars
  <2>5. ASSUME NEW l \in Loops, Decide(l) PROVE TypeOK'
    <3>1. pc' \in [Loops -> LoopPlaces]
      BY <2>5, GotoTyped DEF Decide
    <3>2. lock' \in Loops \cup {NoLoop} /\ errors' = 0
      BY <2>5 DEF Decide
    <3>3. /\ got' \in [Loops -> SUBSET {"bybit", "lighter"}]
          /\ waited' \in [Loops -> 0 .. ReadTime]
          /\ readB' \in [Loops -> Positions \cup {0}] /\ readL' \in [Loops -> Int]
      BY <2>5, ForgetTyped DEF Decide, pollVars
    <3>4. excuse' \in Excuses
      BY <2>5 DEF Decide
    <3> QED BY <2>5, <3>1, <3>2, <3>3, <3>4 DEF Decide, marketVars, serviceVars
  <2>6. ASSUME NEW l \in Loops, Execute(l) PROVE TypeOK'
    <3>1. pc' \in [Loops -> LoopPlaces]
      BY <2>6, GotoTyped DEF Execute
    <3>2. lighter' \in Int
      <4>1. Amount(l) \in Int
        <5>1. readB[l] \in Int /\ readL[l] \in Int
          BY PositionsAreInts
        <5> QED BY <5>1 DEF Amount, Smaller, Net, Magnitude
      <4> QED BY <2>6, <4>1 DEF Execute
    <3> QED BY <2>6, <3>1, <3>2 DEF Execute, timerVars, serviceVars, pollVars
  <2>7. ASSUME NEW l \in Loops, Skip(l) PROVE TypeOK'
    <3>1. pc' \in [Loops -> LoopPlaces]
      BY <2>7, GotoTyped DEF Skip
    <3> QED BY <2>7, <3>1, ForgetTyped DEF Skip, marketVars, timerVars, serviceVars
  <2>8. ASSUME NEW l \in Loops, Succeed(l) PROVE TypeOK'
    <3>1. pc' \in [Loops -> LoopPlaces]
      BY <2>8, GotoTyped DEF Succeed
    <3> QED BY <2>8, <3>1, ForgetTyped DEF Succeed, marketVars, serviceVars
  <2>9. ASSUME NEW l \in Loops, Fail(l) PROVE TypeOK'
    <3>1. pc' \in [Loops -> LoopPlaces]
      BY <2>9, GotoTyped DEF Fail
    <3>2. backoff' \in Initial .. MaxCooldown /\ cool' \in 0 .. MaxCooldown
      BY <2>9, BackoffGrows DEF Fail
    <3> QED BY <2>9, <3>1, <3>2, ForgetTyped DEF Fail, marketVars, serviceVars
  <2>10. ASSUME NEW l \in Loops, Recorded(l) PROVE TypeOK'
    <3>1. pc' \in [Loops -> LoopPlaces]
      BY <2>10, GotoTyped DEF Recorded
    <3> QED BY <2>10, <3>1 DEF Recorded, marketVars, timerVars, serviceVars, pollVars
  <2>11. ASSUME Trade PROVE TypeOK'
    <3>1. bybit' \in Positions /\ peak' \in Nat
      <4>1. bybit' \in Positions /\ Magnitude(bybit') \in Nat
        BY <2>11, PositionsAreInts, Magnitudes DEF Trade
      <4>2. peak' = peak \/ peak' = Magnitude(bybit')
        BY <2>11 DEF Trade, Larger
      <4> QED BY <4>1, <4>2
    <3> QED BY <2>11, <3>1 DEF Trade, timerVars, serviceVars, pollVars
  <2>12. ASSUME Show PROVE TypeOK'
    BY <2>12 DEF Show, timerVars, serviceVars, pollVars
  <2>13. ASSUME Tick PROVE TypeOK'
    BY <2>13 DEF Tick, Less, Reading, serviceVars
  <2>14. ASSUME Start PROVE TypeOK'
    <3>1. PICK l \in Loops : pc[l] = "off" /\ task' = l /\ Goto(l, "sleep")
      BY <2>14 DEF Start
    <3>2. pc' \in [Loops -> LoopPlaces]
      BY <3>1, GotoTyped
    <3> QED BY <2>14, <3>1, <3>2 DEF Start, Waiting, marketVars, pollVars
  <2>15. ASSUME Stop PROVE TypeOK'
    BY <2>15 DEF Stop, marketVars, timerVars, pollVars
  <2>16. ASSUME Cancelled PROVE TypeOK'
    <3>1. victim \in Loops
      BY <2>16 DEF Cancelled
    <3>2. pc' \in [Loops -> LoopPlaces]
      BY <2>16, <3>1, GotoTyped DEF Cancelled
    <3> QED BY <2>16, <3>1, <3>2, ForgetTyped DEF Cancelled, marketVars, timerVars
  <2>17. ASSUME Joined \/ Closed \/ Recreate PROVE TypeOK'
    BY <2>17 DEF Joined, Closed, Recreate, marketVars, timerVars, pollVars
  <2>18. CASE UNCHANGED vars
    BY <2>18 DEF vars, marketVars, timerVars, serviceVars, pollVars
  <2> QED
    BY <2>1, <2>2, <2>3, <2>4, <2>5, <2>6, <2>7, <2>8, <2>9, <2>10, <2>11, <2>12,
       <2>13, <2>14, <2>15, <2>16, <2>17, <2>18
    DEF Next, Poll, Hedge, Market, Stopping
<1> QED BY <1>1, <1>2, PTL DEF Spec

-----------------------------------------------------------------------------
(* The lock.                                                               *)

(* A task is past the decision to order exactly while it holds _lock.      *)
LockInv == \A l \in Loops : pc[l] \in Ordering <=> lock = l

(* A task that moves leaves the others where they are.                     *)
LEMMA GotoMoves ==
  ASSUME pc \in [Loops -> LoopPlaces], NEW l \in Loops, NEW place, Goto(l, place)
  PROVE  pc'[l] = place /\ \A k \in Loops \ {l} : pc'[k] = pc[k]
BY DEF Goto

(* A task that moves without the lock, before and after, leaves it alone.  *)
LEMMA OutsideMoves ==
  ASSUME TypeOK, LockInv, NEW l \in Loops, NEW place, Goto(l, place),
         pc[l] \notin Ordering, place \notin Ordering, lock' = lock
  PROVE  LockInv'
<1>1. pc'[l] = place /\ \A k \in Loops \ {l} : pc'[k] = pc[k]
  BY GotoMoves DEF TypeOK
<1> QED BY <1>1 DEF LockInv

(* A task that moves between places of the lock keeps it.                  *)
LEMMA InsideMoves ==
  ASSUME TypeOK, LockInv, NEW l \in Loops, NEW place, Goto(l, place),
         pc[l] \in Ordering, place \in Ordering, lock' = lock
  PROVE  LockInv'
<1>1. pc'[l] = place /\ \A k \in Loops \ {l} : pc'[k] = pc[k]
  BY GotoMoves DEF TypeOK
<1> QED BY <1>1 DEF LockInv

(* A task that leaves the lock gives it up.                                *)
LEMMA Releases ==
  ASSUME TypeOK, LockInv, NEW l \in Loops, NEW place, Goto(l, place),
         place \notin Ordering, lock' = IF lock = l THEN NoLoop ELSE lock
  PROVE  LockInv'
<1>1. pc'[l] = place /\ \A k \in Loops \ {l} : pc'[k] = pc[k]
  BY GotoMoves DEF TypeOK
<1> QED BY <1>1, LoopsAssumption DEF LockInv

(* What touches neither the lock nor a place keeps the agreement.          *)
LEMMA LockStays == ASSUME LockInv, lock' = lock, pc' = pc PROVE LockInv'
BY DEF LockInv

(* The lock and the places of the tasks agree, however many tasks the      *)
(* starts and stops have left.                                             *)
THEOREM HedgeLockHeld == Spec => []LockInv
<1>1. Init => LockInv
  BY LoopsAssumption DEF Init, LockInv, Ordering
<1>2. TypeOK /\ LockInv /\ [Next]_vars => LockInv'
  <2> SUFFICES ASSUME TypeOK, LockInv, [Next]_vars PROVE LockInv'
    OBVIOUS
  <2>1. ASSUME NEW l \in Loops, Begin(l) \/ Timeout(l) PROVE LockInv'
    <3>1. lock' = lock /\ pc[l] \notin Ordering
      BY <2>1 DEF Begin, Timeout, At, Ordering
    <3>2. \E place \in {"off", "sleep", "reading"} : Goto(l, place)
      BY <2>1 DEF Begin, Timeout, PollError
    <3> QED BY <3>1, <3>2, OutsideMoves DEF Ordering
  <2>2. ASSUME NEW l \in Loops, ReadBybit(l) \/ ReadLighter(l) PROVE LockInv'
    BY <2>2, LockStays DEF ReadBybit, ReadLighter
  <2>3. ASSUME NEW l \in Loops, Decide(l) PROVE LockInv'
    <3>1. pc[l] = "reading"
      BY <2>3 DEF Decide, At
    <3>2. CASE Goto(l, "sleep") /\ lock' = lock
      BY <3>1, <3>2, OutsideMoves DEF Ordering
    <3>3. CASE lock = NoLoop /\ lock' = l /\ (Goto(l, "sending") \/ Goto(l, "refused"))
      <4>1. pc'[l] \in {"sending", "refused"} /\ \A k \in Loops \ {l} : pc'[k] = pc[k]
        BY <3>3, GotoMoves DEF TypeOK
      <4>2. \A k \in Loops : pc[k] \notin Ordering
        BY <3>3, LoopsAssumption DEF LockInv
      <4> QED BY <3>3, <4>1, <4>2 DEF LockInv, Ordering
    <3> QED BY <2>3, <3>2, <3>3 DEF Decide
  <2>4. ASSUME NEW l \in Loops, Execute(l) \/ Succeed(l) \/ Fail(l) PROVE LockInv'
    <3>1. lock' = lock /\ pc[l] \in Ordering
      BY <2>4 DEF Execute, Succeed, Fail, At, Ordering
    <3>2. Goto(l, "sent") \/ Goto(l, "recording")
      BY <2>4 DEF Execute, Succeed, Fail
    <3> QED BY <3>1, <3>2, InsideMoves DEF Ordering
  <2>5. ASSUME NEW l \in Loops, Skip(l) \/ Recorded(l) PROVE LockInv'
    <3>1. lock' = NoLoop /\ pc[l] \in Ordering /\ Goto(l, "sleep")
      BY <2>5 DEF Skip, Recorded, At, Ordering
    <3>2. lock = l
      BY <3>1 DEF LockInv
    <3> QED BY <3>1, <3>2, Releases DEF Ordering
  <2>6. ASSUME Trade \/ Show \/ Tick \/ Stop \/ Joined \/ Closed \/ Recreate
        PROVE  LockInv'
    BY <2>6, LockStays DEF Trade, Show, Tick, Stop, Joined, Closed, Recreate
  <2>7. ASSUME Start PROVE LockInv'
    <3>1. PICK l \in Loops : pc[l] = "off" /\ Goto(l, "sleep")
      BY <2>7 DEF Start
    <3>2. lock' = lock
      BY <2>7 DEF Start
    <3> QED BY <3>1, <3>2, OutsideMoves DEF Ordering
  <2>8. ASSUME Cancelled PROVE LockInv'
    <3>1. /\ victim \in Loops /\ Goto(victim, "off")
          /\ lock' = IF lock = victim THEN NoLoop ELSE lock
      BY <2>8 DEF Cancelled, TypeOK, ServiceTypes
    <3> QED BY <3>1, Releases DEF Ordering
  <2>9. CASE UNCHANGED vars
    BY <2>9, LockStays DEF vars
  <2> QED
    BY <2>1, <2>2, <2>3, <2>4, <2>5, <2>6, <2>7, <2>8, <2>9
    DEF Next, Poll, Hedge, Market, Stopping
<1> QED BY <1>1, <1>2, HedgeTyped, PTL DEF Spec

(* However starts and stops overlap, and for any number of tasks, one      *)
(* order is in flight at a time.                                           *)
THEOREM OneOrderAtATime == Spec => []OneOrder
<1>1. LockInv => OneOrder
  BY DEF LockInv, OneOrder
<1> QED BY <1>1, HedgeLockHeld, PTL

-----------------------------------------------------------------------------
(* No order on stale data.                                                 *)

(* The lockout and the first backoff outlast Lighter's lag and a poll that *)
(* takes no longer than Patience.                                          *)
LEMMA Patient ==
  /\ Patience \in Int
  /\ Wait > Lag + Patience /\ 2 * Initial > Lag + Patience
BY HedgeNumbers DEF Patience, Smaller

NoneSent == \A l \in Loops : pc[l] # "sent"
LongerThan(n) == lockout > n \/ cool > n

(* A poll that has not begun, or is over, has no positions.                *)
PollInv ==
  \A l \in Loops : pc[l] \in {"off", "sleep", "recording"} => got[l] = {}

(* An order about to be sent goes with the position Lighter has and shows. *)
SeenInv ==
  \A l \in Loops :
    pc[l] \in {"sending", "refused"} => shown = lighter /\ readL[l] = lighter

(* While Lighter has not shown an order that was answered, orders wait     *)
(* until it has, and for Patience after that.                              *)
LateInv == NoneSent /\ shown # lighter => LongerThan(Lag + Patience - age)

(* A poll with an old position is answered while orders still wait.        *)
StaleInv ==
  \A l \in Loops :
    NoneSent /\ pc[l] = "reading" /\ "lighter" \in got[l] /\ readL[l] # lighter
      => LongerThan(Patience - waited[l])

Calm == excuse = "none"
FreshInv == PollInv /\ (Calm => SeenInv /\ LateInv /\ StaleInv)

(* What touches neither polls, positions nor waits keeps FreshInv.         *)
LEMMA FreshStays ==
  ASSUME FreshInv, UNCHANGED <<pc, got, readL, waited, lighter, shown, age, lockout,
                               cool, excuse>>
  PROVE  FreshInv'
BY DEF FreshInv, PollInv, Calm, SeenInv, LateInv, StaleInv, NoneSent, LongerThan

(* The lock's holder is alone with an order.                               *)
LEMMA Alone ==
  ASSUME LockInv, NEW l \in Loops, pc[l] \in Ordering
  PROVE  \A k \in Loops \ {l} : pc[k] \notin Ordering
BY DEF LockInv

(* A poll that is over is forgotten, the others are not.                   *)
LEMMA ForgetMoves ==
  ASSUME TypeOK, NEW l \in Loops, Forget(l)
  PROVE  /\ got'[l] = {}
         /\ \A k \in Loops \ {l} : got'[k] = got[k] /\ readL'[k] = readL[k]
                                   /\ waited'[k] = waited[k] /\ readB'[k] = readB[k]
BY DEF Forget, TypeOK, PollTypes

(* A task whose poll or order is over without an effect leaves the rest as *)
(* it was; "sent" is left only by an answer or a cancellation.             *)
LEMMA PollEnds ==
  ASSUME TypeOK, FreshInv, NEW l \in Loops, NEW place \in {"off", "sleep", "recording"},
         Goto(l, place), pc[l] # "sent", Forget(l) \/ (pollVars' = pollVars /\ got[l] = {}),
         UNCHANGED <<lighter, shown, age, lockout, cool>>, Calm' => Calm
  PROVE  FreshInv'
<1>1. pc'[l] = place /\ \A k \in Loops \ {l} : pc'[k] = pc[k]
  BY GotoMoves DEF TypeOK
<1>2. /\ got'[l] = {}
      /\ \A k \in Loops \ {l} : got'[k] = got[k] /\ readL'[k] = readL[k]
                                /\ waited'[k] = waited[k]
  BY ForgetMoves DEF pollVars
<1>3. NoneSent' <=> NoneSent
  BY <1>1 DEF NoneSent
<1>4. PollInv'
  BY <1>1, <1>2 DEF FreshInv, PollInv
<1>5. ASSUME Calm' PROVE SeenInv' /\ LateInv' /\ StaleInv'
  <2>1. SeenInv /\ LateInv /\ StaleInv
    BY <1>5 DEF FreshInv
  <2>2. SeenInv'
    BY <1>1, <1>2, <2>1 DEF SeenInv
  <2>3. LateInv'
    BY <1>3, <2>1 DEF LateInv, LongerThan
  <2>4. StaleInv'
    BY <1>1, <1>2, <1>3, <2>1 DEF StaleInv, LongerThan
  <2> QED BY <2>2, <2>3, <2>4
<1> QED BY <1>4, <1>5 DEF FreshInv

(* A poll begins with nothing read, or counts an error.                    *)
LEMMA BeginFresh ==
  ASSUME TypeOK, FreshInv, NEW l \in Loops, Begin(l)
  PROVE  FreshInv'
<1>1. pc[l] = "sleep" /\ got[l] = {} /\ pollVars' = pollVars
  BY DEF Begin, At, FreshInv, PollInv
<1>2. UNCHANGED <<lighter, shown, age, lockout, cool, excuse>>
  BY DEF Begin, marketVars
<1>3. CASE Goto(l, "off") \/ Goto(l, "sleep")
  BY <1>1, <1>2, <1>3, PollEnds DEF Calm
<1>4. CASE Goto(l, "reading")
  <2>1. pc'[l] = "reading" /\ \A k \in Loops \ {l} : pc'[k] = pc[k]
    BY <1>4, GotoMoves DEF TypeOK
  <2>2. NoneSent' <=> NoneSent
    BY <1>1, <2>1 DEF NoneSent
  <2> QED
    BY <1>1, <1>2, <2>1, <2>2
    DEF FreshInv, PollInv, Calm, SeenInv, LateInv, StaleInv, LongerThan, pollVars
<1> QED BY <1>3, <1>4 DEF Begin, PollError

(* Bybit's answer leaves Lighter's alone.                                  *)
LEMMA ReadBybitFresh ==
  ASSUME TypeOK, FreshInv, NEW l \in Loops, ReadBybit(l)
  PROVE  FreshInv'
<1>1. /\ pc[l] = "reading" /\ pc' = pc
      /\ UNCHANGED <<lighter, shown, age, lockout, cool, excuse, readL, waited>>
  BY DEF ReadBybit, At, marketVars, timerVars
<1>2. /\ "lighter" \in got'[l] <=> "lighter" \in got[l]
      /\ \A k \in Loops \ {l} : got'[k] = got[k]
  BY DEF ReadBybit, TypeOK, PollTypes
<1>3. NoneSent' <=> NoneSent
  BY <1>1 DEF NoneSent
<1> QED
  BY <1>1, <1>2, <1>3
  DEF FreshInv, PollInv, Calm, SeenInv, LateInv, StaleInv, LongerThan

(* Lighter's answer is what it shows: old only while orders wait.          *)
LEMMA ReadLighterFresh ==
  ASSUME TypeOK, FreshInv, NEW l \in Loops, ReadLighter(l)
  PROVE  FreshInv'
<1>1. /\ pc[l] = "reading" /\ pc' = pc
      /\ UNCHANGED <<lighter, shown, age, lockout, cool, waited>>
  BY DEF ReadLighter, At, marketVars, timerVars
<1>2. \A k \in Loops \ {l} : got'[k] = got[k] /\ readL'[k] = readL[k]
  BY DEF ReadLighter, TypeOK, PollTypes
<1>3. NoneSent' <=> NoneSent
  BY <1>1 DEF NoneSent
<1>4. PollInv'
  BY <1>1, <1>2 DEF FreshInv, PollInv
<1>5. ASSUME Calm' PROVE SeenInv' /\ LateInv' /\ StaleInv'
  <2>1. excuse' = excuse /\ readL'[l] = shown
    BY <1>5 DEF Calm, ReadLighter, TypeOK, PollTypes
  <2>2. SeenInv /\ LateInv /\ StaleInv
    BY <1>1, <1>5, <2>1 DEF FreshInv, Calm
  <2>3. SeenInv' /\ LateInv'
    BY <1>1, <1>2, <1>3, <2>2 DEF SeenInv, LateInv, LongerThan
  <2>4. ASSUME NoneSent', readL'[l] # lighter' PROVE LongerThan(Patience - waited[l])
    <3>1. LongerThan(Lag + Patience - age)
      BY <1>1, <1>3, <2>1, <2>2, <2>4 DEF LateInv
    <3>2. Lag + Patience - age >= Patience - waited[l]
      BY Patient, HedgeNumbers DEF TypeOK, MarketTypes, PollTypes
    <3>3. /\ Lag + Patience - age \in Int /\ Patience - waited[l] \in Int
          /\ lockout \in Int /\ cool \in Int
      BY Patient, HedgeNumbers DEF TypeOK, MarketTypes, PollTypes, TimerTypes
    <3> QED BY <3>1, <3>2, <3>3 DEF LongerThan
  <2>5. StaleInv'
    BY <1>1, <1>2, <1>3, <2>2, <2>4 DEF StaleInv, LongerThan
  <2> QED BY <2>3, <2>5
<1> QED BY <1>4, <1>5 DEF FreshInv

(* No wait is over before the positions that need it are gone, from the    *)
(* market and from a poll of no more than Patience.                        *)
LEMMA NothingStale ==
  ASSUME TypeOK, FreshInv, Calm, NoneSent, ~Waiting, NEW l \in Loops,
         pc[l] = "reading", "lighter" \in got[l], waited[l] <= Patience
  PROVE  shown = lighter /\ readL[l] = lighter
<1>1. lockout = 0 /\ cool = 0
  BY DEF Waiting, TypeOK, TimerTypes
<1>2. age \in 0 .. Lag /\ waited[l] \in 0 .. ReadTime
  BY DEF TypeOK, MarketTypes, PollTypes
<1>3. ~LongerThan(Lag + Patience - age) /\ ~LongerThan(Patience - waited[l])
  BY <1>1, <1>2, Patient, HedgeNumbers DEF LongerThan
<1> QED BY <1>3 DEF FreshInv, LateInv, StaleInv

(* An order is decided on when no wait is left, hence on what is true.     *)
LEMMA DecideFresh ==
  ASSUME TypeOK, LockInv, FreshInv, NEW l \in Loops, Decide(l)
  PROVE  FreshInv'
<1>1. /\ pc[l] = "reading" /\ got[l] = {"bybit", "lighter"}
      /\ UNCHANGED <<lighter, shown, age, lockout, cool>>
  BY DEF Decide, At, marketVars
<1>2. CASE Goto(l, "sleep") /\ Forget(l) /\ excuse' = excuse
  BY <1>1, <1>2, PollEnds DEF Calm
<1>3. CASE /\ ~Waiting /\ lock = NoLoop /\ pollVars' = pollVars
           /\ excuse' = IF excuse = "none" /\ waited[l] > Patience
                          THEN "slow" ELSE excuse
           /\ Goto(l, "sending") \/ Goto(l, "refused")
  <2>1. pc'[l] \in {"sending", "refused"} /\ \A k \in Loops \ {l} : pc'[k] = pc[k]
    BY <1>3, GotoMoves DEF TypeOK
  <2>2. NoneSent /\ \A k \in Loops : pc[k] \notin Ordering
    BY <1>3, LoopsAssumption DEF LockInv, NoneSent, Ordering
  <2>3. NoneSent' <=> NoneSent
    BY <2>1, <2>2 DEF NoneSent
  <2>4. PollInv'
    BY <1>3, <2>1 DEF FreshInv, PollInv, pollVars
  <2>5. ASSUME Calm' PROVE SeenInv' /\ LateInv' /\ StaleInv'
    <3>1. Calm /\ SeenInv /\ LateInv /\ StaleInv
      BY <1>3, <2>5 DEF FreshInv, Calm
    <3>2. shown = lighter /\ readL[l] = lighter
      <4>1. ~(waited[l] > Patience) /\ waited[l] \in Int
        BY <1>3, <2>5, HedgeNumbers DEF Calm, TypeOK, PollTypes
      <4>2. waited[l] <= Patience
        BY <4>1, Patient
      <4> QED BY <1>1, <1>3, <2>2, <3>1, <4>2, NothingStale
    <3>3. SeenInv'
      BY <1>1, <1>3, <2>1, <2>2, <3>2 DEF SeenInv, pollVars, Ordering
    <3>4. LateInv' /\ StaleInv'
      BY <1>1, <1>3, <2>1, <2>3, <3>1, <3>2 DEF LateInv, StaleInv, LongerThan, pollVars
    <3> QED BY <3>3, <3>4
  <2> QED BY <2>4, <2>5 DEF FreshInv
<1> QED BY <1>2, <1>3 DEF Decide

(* An order is executed on a position that was still true.                 *)
LEMMA ExecuteFresh ==
  ASSUME TypeOK, LockInv, FreshInv, NEW l \in Loops, Execute(l)
  PROVE  FreshInv'
<1>1. pc[l] = "sending" /\ Goto(l, "sent") /\ pollVars' = pollVars
  BY DEF Execute, At
<1>2. pc'[l] = "sent" /\ \A k \in Loops \ {l} : pc'[k] = pc[k]
  BY <1>1, GotoMoves DEF TypeOK
<1>3. \A k \in Loops \ {l} : pc[k] \notin Ordering
  BY <1>1, Alone DEF Ordering
<1>4. ~NoneSent'
  BY <1>2 DEF NoneSent
<1> QED
  BY <1>1, <1>2, <1>3, <1>4
  DEF FreshInv, PollInv, SeenInv, LateInv, StaleInv, Ordering, pollVars

(* An answer, good or bad, makes orders wait long enough.                  *)
LEMMA AnswerFresh ==
  ASSUME TypeOK, LockInv, FreshInv, NEW l \in Loops, Succeed(l) \/ Fail(l)
  PROVE  FreshInv'
<1>1. /\ pc[l] \in {"sending", "sent", "refused"} /\ Goto(l, "recording") /\ Forget(l)
      /\ UNCHANGED <<lighter, shown, age, excuse>>
  BY DEF Succeed, Fail, At, marketVars
<1>2. pc'[l] = "recording" /\ \A k \in Loops \ {l} : pc'[k] = pc[k]
  BY <1>1, GotoMoves DEF TypeOK
<1>3. \A k \in Loops \ {l} : pc[k] \notin Ordering
  BY <1>1, Alone DEF Ordering
<1>4. /\ got'[l] = {}
      /\ \A k \in Loops \ {l} : got'[k] = got[k] /\ readL'[k] = readL[k]
                                /\ waited'[k] = waited[k]
  BY <1>1, ForgetMoves
<1>5. LongerThan(Lag + Patience)'
  <2>1. CASE Succeed(l)
    BY <2>1, Patient DEF Succeed, LongerThan
  <2>2. CASE Fail(l)
    BY <2>2, BackoffGrows, Patient, HedgeNumbers DEF Fail, LongerThan, TypeOK, TimerTypes
  <2> QED BY <2>1, <2>2
<1>6. PollInv'
  BY <1>2, <1>4 DEF FreshInv, PollInv
<1>7. SeenInv'
  BY <1>2, <1>3 DEF SeenInv, Ordering
<1>8. lockout' \in Int /\ cool' \in Int
  <2>1. CASE Succeed(l)
    BY <2>1, HedgeNumbers DEF Succeed, TypeOK, TimerTypes
  <2>2. CASE Fail(l)
    BY <2>2, BackoffGrows, HedgeNumbers DEF Fail, TypeOK, TimerTypes
  <2> QED BY <2>1, <2>2
<1>9. LateInv'
  <2>1. age \in Nat /\ Lag \in Nat /\ Patience \in Int
    BY Patient, HedgeNumbers DEF TypeOK, MarketTypes
  <2>2. Lag + Patience - age \in Int /\ Lag + Patience - age <= Lag + Patience
    BY <2>1
  <2>3. lockout' > Lag + Patience - age \/ cool' > Lag + Patience - age
    BY <1>5, <1>8, <2>1, <2>2 DEF LongerThan
  <2> QED BY <1>1, <2>3 DEF LateInv, LongerThan
<1>10. StaleInv'
  <2>1. \A k \in Loops \ {l} : waited'[k] \in 0 .. ReadTime
    BY <1>4 DEF TypeOK, PollTypes
  <2> QED BY <1>2, <1>5, <1>8, <2>1, Patient, HedgeNumbers DEF StaleInv, LongerThan
<1> QED BY <1>6, <1>7, <1>9, <1>10 DEF FreshInv

(* A wait that outlasts a time still outlasts it, both one shorter.        *)
LEMMA Shorter ==
  ASSUME lockout \in Nat, cool \in Nat, NEW n \in Int, LongerThan(n)
  PROVE  Less(lockout) > n - 1 \/ Less(cool) > n - 1
BY DEF LongerThan, Less

(* A tick shortens the waits by as much as it ages what they wait for.     *)
LEMMA TickFresh ==
  ASSUME TypeOK, FreshInv, Tick
  PROVE  FreshInv'
<1>1. UNCHANGED <<lighter, shown, excuse, got, readL, pc>>
  BY DEF Tick
<1>2. NoneSent' <=> NoneSent
  BY <1>1 DEF NoneSent
<1>4. PollInv'
  BY <1>1 DEF FreshInv, PollInv
<1>5. ASSUME Calm' PROVE SeenInv' /\ LateInv' /\ StaleInv'
  <2>0. lockout \in Nat /\ cool \in Nat
    BY DEF TypeOK, TimerTypes
  <2>1. SeenInv /\ LateInv /\ StaleInv
    BY <1>1, <1>5 DEF FreshInv, Calm
  <2>2. SeenInv'
    BY <1>1, <2>1 DEF SeenInv
  <2>3. ASSUME NoneSent', shown' # lighter' PROVE LongerThan(Lag + Patience - age)'
    <3>1. LongerThan(Lag + Patience - age)
      BY <1>1, <1>2, <2>1, <2>3 DEF LateInv
    <3>2. age' = age + 1 /\ age \in 0 .. Lag
      BY <1>1, <2>3 DEF Tick, TypeOK, MarketTypes
    <3>3. /\ Lag + Patience - age \in Int
          /\ Lag + Patience - age' = (Lag + Patience - age) - 1
      BY <3>2, Patient, HedgeNumbers
    <3> QED BY <2>0, <3>1, <3>3, Shorter DEF Tick, LongerThan
  <2>4. ASSUME NEW l \in Loops, NoneSent', pc'[l] = "reading", "lighter" \in got'[l],
               readL'[l] # lighter'
        PROVE  LongerThan(Patience - waited[l])'
    <3>1. LongerThan(Patience - waited[l])
      BY <1>1, <1>2, <2>1, <2>4 DEF StaleInv
    <3>2. waited'[l] = waited[l] + 1 /\ waited[l] \in 0 .. ReadTime /\ waited[l] < ReadTime
      BY <1>1, <2>4 DEF Tick, Reading, TypeOK, PollTypes
    <3>3. /\ Patience - waited[l] \in Int
          /\ Patience - waited'[l] = (Patience - waited[l]) - 1
      BY <3>2, Patient, HedgeNumbers
    <3> QED BY <2>0, <3>1, <3>3, Shorter DEF Tick, LongerThan
  <2> QED BY <2>2, <2>3, <2>4 DEF LateInv, StaleInv
<1> QED BY <1>4, <1>5 DEF FreshInv

(* A start that drops a wait is an excuse.                                 *)
LEMMA StartFresh ==
  ASSUME TypeOK, FreshInv, Start
  PROVE  FreshInv'
<1>1. PICK l \in Loops : pc[l] = "off" /\ Goto(l, "sleep")
  BY DEF Start
<1>2. /\ got[l] = {} /\ pollVars' = pollVars
      /\ UNCHANGED <<lighter, shown, age>>
  BY <1>1 DEF Start, FreshInv, PollInv, marketVars
<1>3. CASE Calm'
  <2>1. excuse = "none" /\ ~Waiting
    BY <1>3 DEF Calm, Start
  <2>2. Calm /\ lockout = 0 /\ cool = 0
    BY <1>2, <1>3, <2>1 DEF Calm, Waiting, TypeOK, TimerTypes
  <2>3. lockout' = lockout /\ cool' = cool
    BY <2>2 DEF Start
  <2> QED BY <1>1, <1>2, <2>2, <2>3, PollEnds
<1>4. CASE ~Calm'
  <2>1. pc'[l] = "sleep" /\ \A k \in Loops \ {l} : pc'[k] = pc[k]
    BY <1>1, GotoMoves DEF TypeOK
  <2> QED BY <1>2, <1>4, <2>1 DEF FreshInv, PollInv, pollVars
<1> QED BY <1>3, <1>4

(* A cancelled task forgets its poll; a cancelled order is an excuse.      *)
LEMMA CancelledFresh ==
  ASSUME TypeOK, FreshInv, Cancelled
  PROVE  FreshInv'
<1>1. /\ victim \in Loops /\ Goto(victim, "off") /\ Forget(victim)
      /\ UNCHANGED <<lighter, shown, age, lockout, cool>>
  BY DEF Cancelled, TypeOK, ServiceTypes, marketVars, timerVars
<1>2. excuse' = IF pc[victim] = "sent" THEN "other" ELSE excuse
  BY DEF Cancelled
<1>3. CASE pc[victim] # "sent"
  BY <1>1, <1>2, <1>3, PollEnds DEF Calm
<1>4. CASE pc[victim] = "sent"
  <2>1. pc'[victim] = "off" /\ \A k \in Loops \ {victim} : pc'[k] = pc[k]
    BY <1>1, GotoMoves DEF TypeOK
  <2>2. got'[victim] = {} /\ \A k \in Loops \ {victim} : got'[k] = got[k]
    BY <1>1, ForgetMoves
  <2>3. ~Calm'
    BY <1>2, <1>4 DEF Calm
  <2> QED BY <2>1, <2>2, <2>3 DEF FreshInv, PollInv
<1> QED BY <1>3, <1>4

(* What an order waits for and what a poll has read, at every moment.      *)
THEOREM HedgeFresh == Spec => []FreshInv
<1>1. Init => FreshInv
  BY DEF Init, FreshInv, PollInv, SeenInv, LateInv, StaleInv
<1>2. TypeOK /\ LockInv /\ FreshInv /\ [Next]_vars => FreshInv'
  <2> SUFFICES ASSUME TypeOK, LockInv, FreshInv, [Next]_vars PROVE FreshInv'
    OBVIOUS
  <2>1. ASSUME NEW l \in Loops, Begin(l) \/ ReadBybit(l) \/ ReadLighter(l) \/ Decide(l)
        PROVE  FreshInv'
    BY <2>1, BeginFresh, ReadBybitFresh, ReadLighterFresh, DecideFresh
  <2>2. ASSUME NEW l \in Loops, Timeout(l) \/ Skip(l) PROVE FreshInv'
    <3>1. /\ pc[l] # "sent" /\ Forget(l)
          /\ UNCHANGED <<lighter, shown, age, lockout, cool, excuse>>
      BY <2>2 DEF Timeout, Skip, At, marketVars, timerVars
    <3>2. Goto(l, "off") \/ Goto(l, "sleep")
      BY <2>2 DEF Timeout, Skip, PollError
    <3> QED BY <3>1, <3>2, PollEnds DEF Calm
  <2>3. ASSUME NEW l \in Loops, Recorded(l) PROVE FreshInv'
    <3>1. /\ pc[l] = "recording" /\ got[l] = {} /\ pollVars' = pollVars
          /\ Goto(l, "sleep")
          /\ UNCHANGED <<lighter, shown, age, lockout, cool, excuse>>
      BY <2>3 DEF Recorded, At, FreshInv, PollInv, marketVars, timerVars
    <3> QED BY <3>1, PollEnds DEF Calm
  <2>4. ASSUME NEW l \in Loops, Execute(l) PROVE FreshInv'
    BY <2>4, ExecuteFresh
  <2>5. ASSUME NEW l \in Loops, Succeed(l) \/ Fail(l) PROVE FreshInv'
    BY <2>5, AnswerFresh
  <2>6. ASSUME Trade \/ Stop \/ Joined \/ Closed \/ Recreate PROVE FreshInv'
    BY <2>6, FreshStays
    DEF Trade, Stop, Joined, Closed, Recreate, marketVars, timerVars, pollVars
  <2>7. CASE Show
    BY <2>7
    DEF Show, FreshInv, PollInv, Calm, SeenInv, LateInv, StaleInv, NoneSent, LongerThan,
        timerVars, pollVars
  <2>8. CASE Tick
    BY <2>8, TickFresh
  <2>9. CASE Start
    BY <2>9, StartFresh
  <2>10. CASE Cancelled
    BY <2>10, CancelledFresh
  <2>11. CASE UNCHANGED vars
    BY <2>11, FreshStays DEF vars, marketVars, timerVars, pollVars
  <2> QED
    BY <2>1, <2>2, <2>3, <2>4, <2>5, <2>6, <2>7, <2>8, <2>9, <2>10, <2>11
    DEF Next, Poll, Hedge, Market, Stopping
<1> QED BY <1>1, <1>2, HedgeTyped, HedgeLockHeld, PTL DEF Spec

(* Whatever the times are set to: until an order is decided on after a     *)
(* poll longer than Patience, a failed read of Lighter, or a stop or start *)
(* that drops an order's wait, no order is sent on a position that misses  *)
(* an order executed before.                                               *)
THEOREM NeverFiresTwice == Spec => []NoDoubleFire
<1>1. FreshInv => NoDoubleFire
  BY DEF FreshInv, Calm, SeenInv, NoDoubleFire
<1> QED BY <1>1, HedgeFresh, PTL

-----------------------------------------------------------------------------
(* No more on Lighter than there was on Bybit.                             *)

Within(n) == -peak <= n /\ n <= peak

CapInv ==
  /\ Within(bybit) /\ (\A l \in Loops : Within(readB[l]))
  /\ Calm => Within(lighter)

(* What touches no position keeps the cap.                                 *)
LEMMA CapStays ==
  ASSUME CapInv, UNCHANGED <<bybit, lighter, peak, readB>>, Calm' => Calm
  PROVE  CapInv'
BY DEF CapInv, Within

(* A forgotten poll has read no position, which is within every cap.       *)
LEMMA ForgetCaps ==
  ASSUME TypeOK, CapInv, NEW l \in Loops, Forget(l), UNCHANGED <<bybit, lighter, peak>>,
         Calm' => Calm
  PROVE  CapInv'
<1>1. readB'[l] = 0 /\ \A k \in Loops \ {l} : readB'[k] = readB[k]
  BY ForgetMoves DEF Forget, TypeOK, PollTypes
<1>2. peak \in Nat
  BY DEF TypeOK, MarketTypes
<1> QED BY <1>1, <1>2 DEF CapInv, Within

(* An order moves the position towards the opposite of what Bybit showed,  *)
(* and not past it.                                                        *)
LEMMA ExecuteCaps ==
  ASSUME TypeOK, FreshInv, CapInv, NEW l \in Loops, Execute(l)
  PROVE  CapInv'
<1>1. /\ pc[l] = "sending"
      /\ UNCHANGED <<bybit, peak, readB, excuse>>
  BY DEF Execute, At, pollVars
<1>2. ASSUME Calm' PROVE Within(lighter)'
  <2>1. Calm /\ readL[l] = lighter
    BY <1>1, <1>2 DEF Calm, FreshInv, SeenInv
  <2>2. readB[l] \in Int /\ lighter \in Int /\ peak \in Nat
    BY PositionsAreInts DEF TypeOK, MarketTypes, PollTypes
  <2>3. Within(lighter) /\ Within(readB[l])
    BY <2>1 DEF CapInv
  <2>4. Net(l) = readB[l] + lighter
    BY <2>1 DEF Net
  <2>5. Amount(l) \in Int /\ Amount(l) <= Magnitude(Net(l))
    BY <2>2, <2>4 DEF Amount, Smaller, Magnitude
  <2>6. PICK q \in 1 .. Amount(l) : lighter' = IF Net(l) > 0 THEN lighter - q ELSE lighter + q
    BY DEF Execute
  <2>7. q \in Nat /\ q <= Magnitude(readB[l] + lighter)
    BY <2>4, <2>5, <2>6, <2>2 DEF Magnitude
  <2>8. CASE readB[l] + lighter > 0
    <3>1. lighter' = lighter - q /\ q <= readB[l] + lighter
      BY <2>2, <2>4, <2>6, <2>7, <2>8 DEF Magnitude
    <3> QED BY <1>1, <2>2, <2>3, <2>7, <3>1 DEF Within
  <2>9. CASE ~(readB[l] + lighter > 0)
    <3>1. lighter' = lighter + q /\ q <= -(readB[l] + lighter)
      BY <2>2, <2>4, <2>6, <2>7, <2>9 DEF Magnitude
    <3> QED BY <1>1, <2>2, <2>3, <2>7, <3>1 DEF Within
  <2> QED BY <2>8, <2>9
<1> QED BY <1>1, <1>2 DEF CapInv, Within

(* What is within a cap is within a larger one.                            *)
LEMMA WiderCap ==
  ASSUME NEW p \in Int, NEW q \in Int, p <= q, NEW n \in Int, -p <= n, n <= p
  PROVE  -q <= n /\ n <= q
OBVIOUS

(* A position is within every cap its size is within.                      *)
LEMMA MagnitudeCap ==
  ASSUME NEW q \in Int, NEW n \in Int, q >= Magnitude(n)
  PROVE  -q <= n /\ n <= q
BY DEF Magnitude

(* A trade on Bybit only raises the cap.                                   *)
LEMMA TradeCaps ==
  ASSUME TypeOK, CapInv, Trade
  PROVE  CapInv'
<1>1. bybit' \in Int /\ peak \in Nat /\ lighter \in Int
      /\ \A l \in Loops : readB[l] \in Int
  BY PositionsAreInts DEF Trade, TypeOK, MarketTypes, PollTypes
<1>2. peak' = Larger(peak, Magnitude(bybit')) /\ UNCHANGED <<lighter, readB, excuse>>
  BY DEF Trade, pollVars
<1>3. peak' \in Int /\ peak <= peak' /\ peak' >= Magnitude(bybit')
  BY <1>1, <1>2, Magnitudes DEF Larger
<1>4. Within(bybit)'
  BY <1>1, <1>3, MagnitudeCap DEF Within
<1>5. \A n \in Int : -peak <= n /\ n <= peak => -peak' <= n /\ n <= peak'
  <2>1. peak \in Int /\ peak' \in Int /\ peak <= peak'
    BY <1>1, <1>3
  <2> QED BY <2>1, WiderCap
<1>6. \A l \in Loops : Within(readB[l])'
  BY <1>1, <1>2, <1>5 DEF CapInv, Within
<1>7. Calm' => Within(lighter)'
  BY <1>1, <1>2, <1>5 DEF CapInv, Within, Calm
<1> QED BY <1>4, <1>6, <1>7 DEF CapInv

(* Until then, the Lighter position never outgrows the largest Bybit       *)
(* position there has been.                                                *)
THEOREM OvershootsNever == Spec => []NeverOvershoots
<1>1. Init => CapInv
  BY DEF Init, CapInv, Within
<1>2. TypeOK /\ FreshInv /\ CapInv /\ [Next]_vars => CapInv'
  <2> SUFFICES ASSUME TypeOK, FreshInv, CapInv, [Next]_vars PROVE CapInv'
    OBVIOUS
  <2>1. ASSUME NEW l \in Loops, Begin(l) PROVE CapInv'
    BY <2>1, CapStays DEF Begin, marketVars, pollVars, Calm
  <2>2. ASSUME NEW l \in Loops, ReadBybit(l) PROVE CapInv'
    <3>1. readB'[l] \in {0, bybit} /\ \A k \in Loops \ {l} : readB'[k] = readB[k]
      BY <2>2 DEF ReadBybit, TypeOK, PollTypes
    <3>2. peak \in Nat
      BY DEF TypeOK, MarketTypes
    <3>3. UNCHANGED <<bybit, lighter, peak, excuse>>
      BY <2>2 DEF ReadBybit, marketVars
    <3> QED BY <3>1, <3>2, <3>3 DEF CapInv, Within, Calm
  <2>3. ASSUME NEW l \in Loops, ReadLighter(l) PROVE CapInv'
    <3>1. Calm' => Calm
      BY <2>3 DEF ReadLighter, Calm
    <3> QED BY <2>3, <3>1, CapStays DEF ReadLighter, marketVars
  <2>4. ASSUME NEW l \in Loops, Timeout(l) \/ Skip(l) \/ Succeed(l) \/ Fail(l)
        PROVE  CapInv'
    BY <2>4, ForgetCaps DEF Timeout, Skip, Succeed, Fail, marketVars, Calm
  <2>5. ASSUME NEW l \in Loops, Decide(l) PROVE CapInv'
    <3>1. UNCHANGED <<bybit, lighter, peak>> /\ (Calm' => Calm)
      BY <2>5 DEF Decide, marketVars, Calm
    <3>2. CASE Forget(l)
      BY <3>1, <3>2, ForgetCaps
    <3>3. CASE readB' = readB
      BY <3>1, <3>3, CapStays
    <3> QED BY <2>5, <3>2, <3>3 DEF Decide, pollVars
  <2>6. ASSUME NEW l \in Loops, Execute(l) PROVE CapInv'
    BY <2>6, ExecuteCaps
  <2>7. ASSUME NEW l \in Loops, Recorded(l) PROVE CapInv'
    BY <2>7, CapStays DEF Recorded, marketVars, pollVars, Calm
  <2>8. CASE Trade
    BY <2>8, TradeCaps
  <2>9. CASE Show \/ Tick
    BY <2>9, CapStays DEF Show, Tick, pollVars, Calm
  <2>10. CASE Start
    <3>1. Calm' => Calm
      BY <2>10 DEF Start, Calm
    <3> QED BY <2>10, <3>1, CapStays DEF Start, marketVars, pollVars
  <2>11. CASE Stop \/ Joined \/ Closed \/ Recreate
    BY <2>11, CapStays DEF Stop, Joined, Closed, Recreate, marketVars, pollVars, Calm
  <2>12. CASE Cancelled
    <3>1. victim \in Loops /\ Forget(victim) /\ (Calm' => Calm)
      BY <2>12 DEF Cancelled, Calm, TypeOK, ServiceTypes
    <3> QED BY <2>12, <3>1, ForgetCaps DEF Cancelled, marketVars
  <2>13. CASE UNCHANGED vars
    BY <2>13, CapStays DEF vars, marketVars, pollVars, Calm
  <2> QED
    BY <2>1, <2>2, <2>3, <2>4, <2>5, <2>6, <2>7, <2>8, <2>9, <2>10, <2>11, <2>12, <2>13
    DEF Next, Poll, Hedge, Market, Stopping
<1>3. TypeOK /\ CapInv => NeverOvershoots
  BY DEF TypeOK, MarketTypes, CapInv, Within, Calm, NeverOvershoots, Magnitude
<1> QED BY <1>1, <1>2, <1>3, HedgeTyped, HedgeFresh, PTL DEF Spec

=============================================================================
