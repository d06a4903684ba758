-------------------------- MODULE RiskEngineProofs --------------------------
(***************************************************************************)
(* Safety of the risk engine for every set of requests, operators and      *)
(* symbols, every batch, limit, rate and threshold.                        *)
(*                                                                         *)
(* The inductive invariant is built on the lock: exactly the task that     *)
(* holds the engine lock is in a critical section (LockInv).  What a       *)
(* request was checked against therefore cannot change while it sleeps in  *)
(* the rate queue or in the audit write.                                   *)
(*                                                                         *)
(* The exposure is a sum over the symbols.  It is valued at the lowest     *)
(* price of each, which bounds it whatever prices the checks used, and     *)
(* changes in one symbol at a time (ExposureInv, with the lemmas of Sums). *)
(***************************************************************************)
EXTENDS RiskEngine, Sums

Writing == KillWrites \cup {"resetting"}
Critical == {"check", "checked", "queue", "audit"} \cup Writing

(* The holder of the lock is the one task in a critical section.           *)
LockInv == \A t \in Tasks : lock = t <=> pc[t] \in Critical

USE DEF switchVars, bookVars

-----------------------------------------------------------------------------

(* A task that goes to a place of its kind leaves every task at one.       *)
LEMMA GotoPlaces ==
  ASSUME PlaceTypes, NEW t \in Tasks, NEW l, Goto(t, l),
         t \in Requests => l \in RequestPlaces,
         t \in Admins => l \in AdminPlaces
  PROVE  PlaceTypes'
BY TasksAssumption DEF PlaceTypes, Goto, Tasks

(* Taking slots for some legs keeps the types and ends at one of two       *)
(* places.                                                                 *)
LEMMA GrabTypes ==
  ASSUME NumberTypes, RequestTypes, NEW r \in Requests,
         NEW want \in SUBSET Exchanges, Grab(r, want)
  PROVE  /\ used' \in [Exchanges -> 0 .. MaxRate]
         /\ todo' \in [Requests -> SUBSET Exchanges]
         /\ decision' \in [Requests -> {"none", "reject", "simulate", "approve"}]
         /\ Goto(r, "audit") \/ Goto(r, "queue")
<1>1. used' \in [Exchanges -> 0 .. MaxRate]
  BY NumbersAssumption DEF NumberTypes, Grab, Granted, Free
<1>2. todo' \in [Requests -> SUBSET Exchanges]
  BY DEF RequestTypes, Grab
<1>3. decision' \in [Requests -> {"none", "reject", "simulate", "approve"}]
  BY DEF RequestTypes, Grab
<1>4. Goto(r, "audit") \/ Goto(r, "queue")
  BY DEF Grab
<1> QED BY <1>1, <1>2, <1>3, <1>4

(* The orders of a batch leave an integer position on every exchange.      *)
LEMMA ProjectedType ==
  ASSUME NumberTypes, NEW r \in Requests, NEW legs
  PROVE  Projected(Batch[r], legs) \in [Exchanges -> Int]
<1>1. Batch[r].symbol \in Symbols /\ Batch[r].qty \in [Exchanges -> Int]
  BY BatchAssumption DEF BatchType
<1> QED
  BY <1>1 DEF NumberTypes, Projected, Ordered

(* The size of a book is a number; an empty one has none.                  *)
LEMMA GrossIs ==
  ASSUME NEW p \in [Exchanges -> Int]
  PROVE  /\ Gross(p) \in Nat
         /\ p = [e \in Exchanges |-> 0] => Gross(p) = 0
BY DEF Gross, Magnitude, Exchanges

(* A batch's orders are numbers, and what it waives is none below zero.    *)
LEMMA OrderedType ==
  ASSUME NEW r \in Requests, NEW legs
  PROVE  Ordered(Batch[r], legs) \in [Exchanges -> Int] /\ Waives(Batch[r]) \in Nat
<1>1. Batch[r].qty \in [Exchanges -> Int]
  BY BatchAssumption DEF BatchType
<1>2. \A l : Ordered(Batch[r], l) \in [Exchanges -> Int]
  BY <1>1 DEF Ordered
<1>3. Gross(Ordered(Batch[r], Exchanges)) \in Nat
  BY <1>2, GrossIs
<1> QED BY <1>2, <1>3 DEF Waives

(* What is waived only grows.                                              *)
LEMMA WaivedType ==
  ASSUME NEW w \in [Symbols -> Nat], NEW k \in Symbols, NEW n \in Nat
  PROVE  [w EXCEPT ![k] = @ + n] \in [Symbols -> Nat]
OBVIOUS

(* The engine's state keeps its types through every handler, crash and     *)
(* restart.                                                                *)
THEOREM TypeCorrect == Spec => []TypeOK
<1>1. Init => TypeOK
  <2>1. Init => FlagTypes
    BY NumbersAssumption DEF Init, FlagTypes
  <2>2. Init => NumberTypes
    BY NumbersAssumption DEF Init, NoEvents, NoPosition, NumberTypes
  <2>3. Init => PlaceTypes
    BY DEF Init, PlaceTypes, RequestPlaces, AdminPlaces, Tasks
  <2>4. Init => RequestTypes
    BY DEF Init, RequestTypes
  <2> QED BY <2>1, <2>2, <2>3, <2>4 DEF TypeOK
<1>2. TypeOK /\ [Next]_vars => TypeOK'
  <2> SUFFICES ASSUME FlagTypes, NumberTypes, PlaceTypes, RequestTypes, [Next]_vars
               PROVE  FlagTypes' /\ NumberTypes' /\ PlaceTypes' /\ RequestTypes'
    BY DEF TypeOK
  <2> USE DEF Tasks
  <2>1. ASSUME NEW r \in Requests, Submit(r)
        PROVE  FlagTypes' /\ NumberTypes' /\ PlaceTypes' /\ RequestTypes'
    <3>1. FlagTypes'
      BY <2>1 DEF FlagTypes, Submit
    <3>2. NumberTypes'
      BY <2>1, NumbersAssumption DEF NumberTypes, Submit
    <3>3. PlaceTypes'
      BY <2>1, GotoPlaces, TasksAssumption DEF Submit, RequestPlaces, AdminPlaces, Holding
    <3>4. RequestTypes'
      BY <2>1 DEF RequestTypes, Submit
    <3> QED BY <3>1, <3>2, <3>3, <3>4
  <2>2. ASSUME NEW r \in Requests, Unhealthy(r)
        PROVE  FlagTypes' /\ NumberTypes' /\ PlaceTypes' /\ RequestTypes'
    <3>1. FlagTypes'
      BY <2>2 DEF FlagTypes, Unhealthy
    <3>2. NumberTypes'
      BY <2>2, NumbersAssumption DEF NumberTypes, Unhealthy
    <3>3. PlaceTypes'
      BY <2>2, GotoPlaces, TasksAssumption DEF Unhealthy, RequestPlaces, AdminPlaces, Holding
    <3>4. RequestTypes'
      BY <2>2 DEF RequestTypes, Unhealthy
    <3> QED BY <3>1, <3>2, <3>3, <3>4
  <2>3. ASSUME NEW r \in Requests, DecideReject(r)
        PROVE  FlagTypes' /\ NumberTypes' /\ PlaceTypes' /\ RequestTypes'
    <3>1. FlagTypes'
      BY <2>3 DEF FlagTypes, DecideReject
    <3>2. NumberTypes'
      BY <2>3, NumbersAssumption DEF NumberTypes, DecideReject, LegacyRetrip
    <3>3. PlaceTypes'
      BY <2>3, GotoPlaces, TasksAssumption DEF DecideReject, RequestPlaces, AdminPlaces, Holding
    <3>4. RequestTypes'
      BY <2>3 DEF RequestTypes, DecideReject
    <3> QED BY <3>1, <3>2, <3>3, <3>4
  <2>4. ASSUME NEW r \in Requests, DecideAccept(r)
        PROVE  FlagTypes' /\ NumberTypes' /\ PlaceTypes' /\ RequestTypes'
    <3>1. Batch[r].symbol \in Symbols /\ Batch[r].legs \in SUBSET Exchanges
      BY BatchAssumption DEF BatchType
    <3>2. ~dryRun => Grab(r, Batch[r].legs)
      BY <2>4 DEF DecideAccept
    <3>3. dryRun => Goto(r, "audit")
      BY <2>4 DEF DecideAccept
    <3>4. mids' \in [Symbols -> Nat] /\ \A s \in Symbols : mids'[s] \in Mids[s] \cup {0}
      <4>1. PICK m \in Mids[Batch[r].symbol] : mids' = [mids EXCEPT ![Batch[r].symbol] = m]
        BY <2>4, <3>1 DEF DecideAccept, LastMid, Exchanges
      <4>2. m \in Nat
        BY <3>1, NumbersAssumption
      <4> QED
        BY <3>1, <4>1, <4>2 DEF NumberTypes
    <3>5. used' \in [Exchanges -> 0 .. MaxRate]
      BY <2>4, <3>1, <3>2, GrabTypes DEF NumberTypes, DecideAccept
    <3>6. FlagTypes' /\ NumberTypes'
      BY <2>4, <3>4, <3>5 DEF FlagTypes, NumberTypes, DecideAccept
    <3>7. PlaceTypes'
      BY <3>1, <3>2, <3>3, GotoPlaces, GrabTypes, TasksAssumption DEF RequestPlaces
    <3>8. RequestTypes'
      BY <2>4, <3>1, <3>2, GrabTypes DEF RequestTypes, DecideAccept
    <3> QED BY <3>6, <3>7, <3>8
  <2>5. ASSUME NEW r \in Requests, QueueWake(r)
        PROVE  FlagTypes' /\ NumberTypes' /\ PlaceTypes' /\ RequestTypes'
    <3>0. todo[r] \in SUBSET Exchanges /\ Grab(r, todo[r])
      BY <2>5 DEF QueueWake, RequestTypes
    <3>1. FlagTypes'
      BY <2>5 DEF FlagTypes, QueueWake
    <3>2. NumberTypes'
      BY <2>5, NumbersAssumption, <3>0, GrabTypes DEF NumberTypes, QueueWake
    <3>3. PlaceTypes'
      BY <2>5, GotoPlaces, TasksAssumption, <3>0, GrabTypes DEF QueueWake, RequestPlaces, AdminPlaces, Holding
    <3>4. RequestTypes'
      BY <2>5, <3>0, GrabTypes DEF RequestTypes, QueueWake
    <3> QED BY <3>1, <3>2, <3>3, <3>4
  <2>6. ASSUME NEW r \in Requests, QueueTimeout(r)
        PROVE  FlagTypes' /\ NumberTypes' /\ PlaceTypes' /\ RequestTypes'
    <3>1. FlagTypes'
      BY <2>6 DEF FlagTypes, QueueTimeout
    <3>2. NumberTypes'
      BY <2>6, NumbersAssumption DEF NumberTypes, QueueTimeout
    <3>3. PlaceTypes'
      BY <2>6, GotoPlaces, TasksAssumption DEF QueueTimeout, RequestPlaces, AdminPlaces, Holding
    <3>4. RequestTypes'
      BY <2>6 DEF RequestTypes, QueueTimeout
    <3> QED BY <3>1, <3>2, <3>3, <3>4
  <2>7. ASSUME NEW r \in Requests, AuditDone(r)
        PROVE  FlagTypes' /\ NumberTypes' /\ PlaceTypes' /\ RequestTypes'
    <3>1. FlagTypes'
      BY <2>7 DEF FlagTypes, AuditDone
    <3>2. NumberTypes'
      BY <2>7, NumbersAssumption DEF NumberTypes, AuditDone
    <3>3. PlaceTypes'
      BY <2>7, GotoPlaces, TasksAssumption DEF AuditDone, RequestPlaces, AdminPlaces, Holding
    <3>4. RequestTypes'
      BY <2>7 DEF RequestTypes, AuditDone
    <3> QED BY <3>1, <3>2, <3>3, <3>4
  <2>8. ASSUME NEW r \in Requests, Execute(r)
        PROVE  FlagTypes' /\ NumberTypes' /\ PlaceTypes' /\ RequestTypes'
    <3>1. FlagTypes'
      BY <2>8 DEF FlagTypes, Execute
    <3>2. NumberTypes'
      BY <2>8, NumbersAssumption DEF NumberTypes, Execute
    <3>3. PlaceTypes'
      BY <2>8, GotoPlaces, TasksAssumption DEF Execute, RequestPlaces, AdminPlaces, Holding
    <3>4. RequestTypes'
      BY <2>8 DEF RequestTypes, Execute
    <3> QED BY <3>1, <3>2, <3>3, <3>4
  <2>9. ASSUME NEW r \in Requests, Executed(r)
        PROVE  FlagTypes' /\ NumberTypes' /\ PlaceTypes' /\ RequestTypes'
    <3>1. FlagTypes'
      BY <2>9 DEF FlagTypes, Executed
    <3>2. NumberTypes'
      BY <2>9, NumbersAssumption DEF NumberTypes, Executed
    <3>3. PlaceTypes'
      BY <2>9, GotoPlaces, TasksAssumption DEF Executed, RequestPlaces, AdminPlaces, Holding
    <3>4. RequestTypes'
      BY <2>9 DEF RequestTypes, Executed
    <3> QED BY <3>1, <3>2, <3>3, <3>4
  <2>10. ASSUME NEW r \in Requests, EvalLock(r)
        PROVE  FlagTypes' /\ NumberTypes' /\ PlaceTypes' /\ RequestTypes'
    <3>1. FlagTypes'
      BY <2>10 DEF FlagTypes, EvalLock
    <3>2. NumberTypes'
      BY <2>10, NumbersAssumption DEF NumberTypes, EvalLock
    <3>3. PlaceTypes'
      BY <2>10, GotoPlaces, TasksAssumption DEF EvalLock, RequestPlaces, AdminPlaces, Holding
    <3>4. RequestTypes'
      BY <2>10 DEF RequestTypes, EvalLock
    <3> QED BY <3>1, <3>2, <3>3, <3>4
  <2>11. ASSUME NEW r \in Requests, RecordSuccess(r)
        PROVE  FlagTypes' /\ NumberTypes' /\ PlaceTypes' /\ RequestTypes'
    <3>1. FlagTypes'
      BY <2>11 DEF FlagTypes, RecordSuccess
    <3>2. NumberTypes'
      <4>1. pos' \in [Symbols -> [Exchanges -> Int]]
        BY <2>11, ProjectedType DEF NumberTypes, RecordSuccess
      <4>2. waived' \in [Symbols -> Nat]
        <5>1. Waives(Batch[r]) \in Nat
          BY OrderedType
        <5>2. waived' = [waived EXCEPT ![Batch[r].symbol] = @ + Waives(Batch[r])]
          BY <2>11 DEF RecordSuccess
        <5>3. waived \in [Symbols -> Nat]
          BY DEF NumberTypes
        <5>4. Batch[r].symbol \in Symbols
          BY BatchAssumption DEF BatchType
        <5> QED BY <5>1, <5>2, <5>3, <5>4, WaivedType
      <4> QED BY <2>11, <4>1, <4>2, NumbersAssumption DEF NumberTypes, RecordSuccess
    <3>3. PlaceTypes'
      BY <2>11, GotoPlaces, TasksAssumption DEF RecordSuccess, RequestPlaces, AdminPlaces, Holding
    <3>4. RequestTypes'
      BY <2>11 DEF RequestTypes, RecordSuccess
    <3> QED BY <3>1, <3>2, <3>3, <3>4
  <2>12. ASSUME NEW r \in Requests, RecordFailure(r)
        PROVE  FlagTypes' /\ NumberTypes' /\ PlaceTypes' /\ RequestTypes'
    <3>1. FlagTypes'
      BY <2>12 DEF FlagTypes, RecordFailure
    <3>2. NumberTypes'
      BY <2>12, NumbersAssumption DEF NumberTypes, RecordFailure
    <3>3. PlaceTypes'
      BY <2>12, GotoPlaces, TasksAssumption DEF RecordFailure, RequestPlaces, AdminPlaces, Holding
    <3>4. RequestTypes'
      BY <2>12 DEF RequestTypes, RecordFailure
    <3> QED BY <3>1, <3>2, <3>3, <3>4
  <2>13. ASSUME NEW a \in Admins, KillLock(a)
        PROVE  FlagTypes' /\ NumberTypes' /\ PlaceTypes' /\ RequestTypes'
    <3>1. FlagTypes'
      BY <2>13 DEF FlagTypes, KillLock
    <3>2. NumberTypes'
      BY <2>13, NumbersAssumption DEF NumberTypes, KillLock
    <3>3. PlaceTypes'
      BY <2>13, GotoPlaces, TasksAssumption DEF KillLock, RequestPlaces, AdminPlaces, Holding
    <3>4. RequestTypes'
      BY <2>13 DEF RequestTypes, KillLock
    <3> QED BY <3>1, <3>2, <3>3, <3>4
  <2>14. ASSUME NEW a \in Admins, ResetLock(a)
        PROVE  FlagTypes' /\ NumberTypes' /\ PlaceTypes' /\ RequestTypes'
    <3>1. FlagTypes'
      BY <2>14 DEF FlagTypes, ResetLock
    <3>2. NumberTypes'
      BY <2>14, NumbersAssumption DEF NumberTypes, ResetLock
    <3>3. PlaceTypes'
      BY <2>14, GotoPlaces, TasksAssumption DEF ResetLock, RequestPlaces, AdminPlaces, Holding
    <3>4. RequestTypes'
      BY <2>14 DEF RequestTypes, ResetLock
    <3> QED BY <3>1, <3>2, <3>3, <3>4
  <2>15. ASSUME NEW a \in Admins, NEW op \in {"killWait", "resetWait"}, Ask(a, op)
        PROVE  FlagTypes' /\ NumberTypes' /\ PlaceTypes' /\ RequestTypes'
    <3>1. FlagTypes' /\ NumberTypes' /\ RequestTypes'
      BY <2>15 DEF FlagTypes, NumberTypes, RequestTypes, Ask
    <3>2. PlaceTypes'
      BY <2>15, GotoPlaces, TasksAssumption DEF Ask, AdminPlaces
    <3> QED BY <3>1, <3>2
  <2>16. ASSUME NEW t \in Tasks, KillPersisted(t)
        PROVE  FlagTypes' /\ NumberTypes' /\ PlaceTypes' /\ RequestTypes'
    <3>1. FlagTypes'
      BY <2>16 DEF FlagTypes, KillPersisted
    <3>2. NumberTypes'
      BY <2>16, NumbersAssumption DEF NumberTypes, KillPersisted, NoEvents
    <3>3. PlaceTypes'
      BY <2>16, GotoPlaces, TasksAssumption DEF KillPersisted, RequestPlaces, AdminPlaces, Holding, AfterWrite, KillWrites, PlaceTypes
    <3>4. RequestTypes'
      BY <2>16 DEF RequestTypes, KillPersisted
    <3> QED BY <3>1, <3>2, <3>3, <3>4
  <2>17. ASSUME NEW t \in Tasks, ResetPersisted(t)
        PROVE  FlagTypes' /\ NumberTypes' /\ PlaceTypes' /\ RequestTypes'
    <3>1. FlagTypes'
      BY <2>17 DEF FlagTypes, ResetPersisted
    <3>2. NumberTypes'
      BY <2>17, NumbersAssumption DEF NumberTypes, ResetPersisted, NoEvents
    <3>3. PlaceTypes'
      BY <2>17, GotoPlaces, TasksAssumption DEF ResetPersisted, RequestPlaces, AdminPlaces, Holding, AfterWrite, KillWrites, PlaceTypes
    <3>4. RequestTypes'
      BY <2>17 DEF RequestTypes, ResetPersisted
    <3> QED BY <3>1, <3>2, <3>3, <3>4
  <2>18. ASSUME NEW t \in Tasks, WriteFails(t)
        PROVE  FlagTypes' /\ NumberTypes' /\ PlaceTypes' /\ RequestTypes'
    <3>1. FlagTypes'
      BY <2>18 DEF FlagTypes, WriteFails
    <3>2. NumberTypes'
      BY <2>18, NumbersAssumption DEF NumberTypes, WriteFails
    <3>3. PlaceTypes'
      BY <2>18, GotoPlaces, TasksAssumption DEF WriteFails, AfterRaise, RequestPlaces, AdminPlaces, Holding
    <3>4. RequestTypes'
      BY <2>18 DEF RequestTypes, WriteFails
    <3> QED BY <3>1, <3>2, <3>3, <3>4
  <2>19. CASE Environment
    <3>1. FlagTypes'
      BY <2>19 DEF FlagTypes, Environment, LegacyFlip, DryRunFlip, Tick, Expire
    <3>2. NumberTypes'
      BY <2>19, NumbersAssumption
      DEF NumberTypes, Environment, LegacyFlip, DryRunFlip, Tick, Expire
    <3>3. PlaceTypes' /\ RequestTypes'
      BY <2>19 DEF PlaceTypes, RequestTypes, Environment, LegacyFlip, DryRunFlip, Tick, Expire
    <3> QED BY <3>1, <3>2, <3>3
  <2>20. CASE Restart
    <3>1. FlagTypes'
      BY <2>20, NumbersAssumption DEF FlagTypes, Restart
    <3>2. NumberTypes'
      BY <2>20, NumbersAssumption DEF NumberTypes, Restart, NoEvents, NoPosition
    <3>3. PlaceTypes'
      <4>1. \A t \in Tasks : pc'[t] \in {"done", "idle"} /\ (t \in Admins => pc'[t] = "idle")
        BY <2>20, TasksAssumption DEF Restart
      <4>2. pc' \in [Tasks -> {"done", "idle"}]
        BY <2>20, <4>1 DEF Restart
      <4> QED BY <4>1, <4>2 DEF PlaceTypes, RequestPlaces, AdminPlaces
    <3>4. RequestTypes'
      BY <2>20 DEF RequestTypes, Restart
    <3> QED BY <3>1, <3>2, <3>3, <3>4
  <2>21. CASE UNCHANGED vars
    BY <2>21 DEF vars, FlagTypes, NumberTypes, PlaceTypes, RequestTypes
  <2> QED
    BY <2>1, <2>2, <2>3, <2>4, <2>5, <2>6, <2>7, <2>8, <2>9, <2>10, <2>11, <2>12, <2>13, <2>14, <2>15, <2>16, <2>17, <2>18, <2>19, <2>20, <2>21
    DEF Next, RequestRuns, RequestLocks, AdminLocks, Write
<1> QED
  BY <1>1, <1>2, PTL DEF Spec

(***************************************************************************)
(* The lock.                                                               *)
(***************************************************************************)

(* Goto moves one task.                                                    *)
LEMMA GotoMoves ==
  ASSUME PlaceTypes, NEW t \in Tasks, NEW l, Goto(t, l)
  PROVE  pc'[t] = l /\ \A u \in Tasks \ {t} : pc'[u] = pc[u]
BY DEF Goto, PlaceTypes

(* Where a task goes after a successful write.                             *)
LEMMA LeaveWrite ==
  /\ AfterWrite["checkKill"] = "checked" /\ AfterWrite["recordKill"] = "done"
  /\ AfterWrite["recordLast"] = "done"
  /\ AfterWrite["adminKill"] = "idle" /\ AfterWrite["resetting"] = "idle"
BY DEF AfterWrite

(* A task that moves within, outside, into or out of the critical section  *)
(* and does to the lock what that asks for keeps the lock's discipline.    *)
LEMMA MoveLock ==
  ASSUME PlaceTypes, LockInv, NEW t \in Tasks, NEW l, Goto(t, l),
         \/ pc[t] \in Critical /\ l \in Critical /\ lock' = lock
         \/ pc[t] \notin Critical /\ l \notin Critical /\ lock' = lock
         \/ lock = NoTask /\ l \in Critical /\ lock' = t
         \/ pc[t] \in Critical /\ l \notin Critical /\ lock' = NoTask
  PROVE  LockInv'
<1>1. NoTask \notin Tasks
  BY TasksAssumption DEF Tasks
<1> QED BY <1>1, GotoMoves DEF LockInv

(* Mutual exclusion: a task is in a critical section of the engine exactly *)
(* while it holds the lock, through failed writes and restarts.            *)
THEOREM LockCorrect == Spec => []LockInv
<1>1. Init => LockInv
  BY TasksAssumption DEF Init, LockInv, Tasks, Critical, Writing, KillWrites
<1>2. TypeOK /\ LockInv /\ [Next]_vars => LockInv'
  <2> SUFFICES ASSUME TypeOK, LockInv, [Next]_vars PROVE LockInv'
    OBVIOUS
  <2> USE DEF TypeOK, Tasks
  <2>1. ASSUME NEW r \in Requests, Submit(r) PROVE LockInv'
    BY <2>1, MoveLock DEF Critical, Writing, KillWrites, Submit
  <2>2. ASSUME NEW r \in Requests, Unhealthy(r) PROVE LockInv'
    BY <2>2, MoveLock DEF Critical, Writing, KillWrites, Unhealthy
  <2>3. ASSUME NEW r \in Requests, DecideReject(r) PROVE LockInv'
    BY <2>3, MoveLock DEF Critical, Writing, KillWrites, DecideReject
  <2>4. ASSUME NEW r \in Requests, DecideAccept(r) PROVE LockInv'
    <3>1. Goto(r, "audit") \/ Goto(r, "queue")
      BY <2>4 DEF DecideAccept, Grab
    <3>2. pc[r] \in Critical /\ lock' = lock
      BY <2>4 DEF DecideAccept, Critical
    <3> QED BY <3>1, <3>2, MoveLock DEF Critical
  <2>5. ASSUME NEW r \in Requests, QueueWake(r) PROVE LockInv'
    <3>1. Goto(r, "audit") \/ Goto(r, "queue")
      BY <2>5 DEF QueueWake, Grab
    <3>2. pc[r] \in Critical /\ lock' = lock
      BY <2>5 DEF QueueWake, Critical
    <3> QED BY <3>1, <3>2, MoveLock DEF Critical
  <2>6. ASSUME NEW r \in Requests, QueueTimeout(r) PROVE LockInv'
    BY <2>6, MoveLock DEF Critical, Writing, KillWrites, QueueTimeout
  <2>7. ASSUME NEW r \in Requests, AuditDone(r) PROVE LockInv'
    <3>1. pc[r] \in Critical /\ lock' = NoTask
      BY <2>7 DEF AuditDone, Critical
    <3>2. Goto(r, "approved") \/ Goto(r, "done")
      BY <2>7 DEF AuditDone
    <3> QED BY <3>1, <3>2, MoveLock DEF Critical, Writing, KillWrites
  <2>8. ASSUME NEW r \in Requests, Execute(r) PROVE LockInv'
    BY <2>8, MoveLock DEF Critical, Writing, KillWrites, Execute
  <2>9. ASSUME NEW r \in Requests, Executed(r) PROVE LockInv'
    BY <2>9, MoveLock DEF Critical, Writing, KillWrites, Executed
  <2>10. ASSUME NEW r \in Requests, EvalLock(r) PROVE LockInv'
    BY <2>10, MoveLock DEF Critical, Writing, KillWrites, EvalLock
  <2>11. ASSUME NEW r \in Requests, RecordSuccess(r) PROVE LockInv'
    BY <2>11, MoveLock DEF Critical, Writing, KillWrites, RecordSuccess
  <2>12. ASSUME NEW r \in Requests, RecordFailure(r) PROVE LockInv'
    BY <2>12, MoveLock DEF Critical, Writing, KillWrites, RecordFailure
  <2>13. ASSUME NEW a \in Admins, KillLock(a) PROVE LockInv'
    BY <2>13, MoveLock DEF Critical, Writing, KillWrites, KillLock
  <2>14. ASSUME NEW a \in Admins, ResetLock(a) PROVE LockInv'
    BY <2>14, MoveLock DEF Critical, Writing, KillWrites, ResetLock
  <2>15. ASSUME NEW a \in Admins, NEW op \in {"killWait", "resetWait"}, Ask(a, op)
        PROVE  LockInv'
    BY <2>15, MoveLock DEF Critical, Writing, KillWrites, Ask
  <2>16. ASSUME NEW t \in Tasks, KillPersisted(t) PROVE LockInv'
    <3>1. CASE pc[t] = "checkKill"
      <4>1. Goto(t, "checked") /\ lock' = t
        BY <2>16, <3>1, LeaveWrite DEF KillPersisted
      <4>2. lock = t
        BY <3>1 DEF LockInv, Critical, Writing, KillWrites
      <4> QED BY <3>1, <4>1, <4>2, MoveLock DEF Critical, Writing, KillWrites
    <3>2. CASE pc[t] # "checkKill"
      <4>1. Goto(t, "done") \/ Goto(t, "idle")
        BY <2>16, <3>2, LeaveWrite DEF KillPersisted, KillWrites
      <4>2. lock' = NoTask /\ pc[t] \in Critical
        BY <2>16, <3>2 DEF KillPersisted, Critical, Writing
      <4> QED BY <4>1, <4>2, MoveLock DEF Critical, Writing, KillWrites
    <3> QED BY <3>1, <3>2
  <2>17. ASSUME NEW t \in Tasks, ResetPersisted(t) PROVE LockInv'
    BY <2>17, MoveLock
    DEF Critical, Writing, KillWrites, AfterWrite, ResetPersisted
  <2>18. ASSUME NEW t \in Tasks, WriteFails(t) PROVE LockInv'
    BY <2>18, MoveLock DEF Critical, Writing, KillWrites, AfterRaise, WriteFails
  <2>19. CASE Environment
    BY <2>19 DEF LockInv, Environment, LegacyFlip, DryRunFlip, Tick, Expire
  <2>20. CASE Restart
    <3>1. \A t \in Tasks : pc'[t] \in {"done", "idle"}
      BY <2>20 DEF Restart
    <3> QED BY <2>20, <3>1, TasksAssumption DEF Restart, LockInv, Critical, Writing, KillWrites
  <2>21. CASE UNCHANGED vars
    BY <2>21 DEF LockInv, vars
  <2> QED
    BY <2>1, <2>2, <2>3, <2>4, <2>5, <2>6, <2>7, <2>8, <2>9, <2>10, <2>11,
      <2>12, <2>13, <2>14, <2>15, <2>16, <2>17, <2>18, <2>19, <2>20, <2>21
    DEF Next, RequestRuns, RequestLocks, AdminLocks, Write
<1> QED
  BY <1>1, <1>2, TypeCorrect, PTL DEF Spec

(***************************************************************************)
(* The kill switch and its row.                                            *)
(***************************************************************************)

(* Between handlers the switch agrees with its row; a task that writes the *)
(* row has already set the switch to what it writes; enough failures leave *)
(* the switch on unless a reset is under way.                              *)
SwitchInv ==
  /\ ~dbFailed /\ (\A t \in Tasks : pc[t] \notin Writing) => killDb = killActive
  /\ \A t \in Tasks : pc[t] \in KillWrites => killActive
  /\ \A t \in Tasks : pc[t] = "resetting" => ~killActive
  /\ ~dbFailed /\ failures >= FailureThreshold /\ (\A t \in Tasks : pc[t] # "resetting")
       => killActive

(* The inductive form of KillDurable and FailuresKill.                     *)
THEOREM SwitchCorrect == Spec => []SwitchInv
<1>1. Init => SwitchInv
  <2> SUFFICES ASSUME Init PROVE SwitchInv
    OBVIOUS
  <2>1. killDb = killActive
    BY DEF Init
  <2>2. ~(failures >= FailureThreshold)
    BY NumbersAssumption DEF Init
  <2>3. \A t \in Tasks : pc[t] = "idle"
    BY DEF Init
  <2> QED BY <2>1, <2>2, <2>3 DEF SwitchInv, Writing, KillWrites
<1>2. TypeOK /\ LockInv /\ SwitchInv /\ [Next]_vars => SwitchInv'
  <2> SUFFICES ASSUME TypeOK, LockInv, SwitchInv, [Next]_vars PROVE SwitchInv'
    OBVIOUS
  <2> USE DEF TypeOK, Tasks
  <2>n. failures \in Nat
    BY DEF NumberTypes
  <2>1. ASSUME NEW r \in Requests, Submit(r) PROVE SwitchInv'
    BY <2>1, GotoMoves DEF SwitchInv, Writing, KillWrites, Submit
  <2>2. ASSUME NEW r \in Requests, Unhealthy(r) PROVE SwitchInv'
    BY <2>2, GotoMoves
    DEF SwitchInv, Writing, KillWrites, LockInv, Critical, Unhealthy
  <2>3. ASSUME NEW r \in Requests, DecideReject(r) PROVE SwitchInv'
    BY <2>3, GotoMoves DEF SwitchInv, Writing, KillWrites, DecideReject
  <2>4. ASSUME NEW r \in Requests, DecideAccept(r) PROVE SwitchInv'
    <3>1. Goto(r, "audit") \/ Goto(r, "queue")
      BY <2>4 DEF DecideAccept, Grab
    <3> QED BY <2>4, <3>1, GotoMoves DEF DecideAccept, SwitchInv, Writing, KillWrites
  <2>5. ASSUME NEW r \in Requests, QueueWake(r) PROVE SwitchInv'
    <3>1. Goto(r, "audit") \/ Goto(r, "queue")
      BY <2>5 DEF QueueWake, Grab
    <3> QED BY <2>5, <3>1, GotoMoves DEF QueueWake, SwitchInv, Writing, KillWrites
  <2>6. ASSUME NEW r \in Requests, QueueTimeout(r) PROVE SwitchInv'
    BY <2>6, GotoMoves DEF SwitchInv, Writing, KillWrites, QueueTimeout
  <2>7. ASSUME NEW r \in Requests, AuditDone(r) PROVE SwitchInv'
    <3>1. Goto(r, "approved") \/ Goto(r, "done")
      BY <2>7 DEF AuditDone
    <3> QED BY <2>7, <3>1, GotoMoves DEF AuditDone, SwitchInv, Writing, KillWrites
  <2>8. ASSUME NEW r \in Requests, Execute(r) PROVE SwitchInv'
    BY <2>8, GotoMoves DEF SwitchInv, Writing, KillWrites, Execute
  <2>9. ASSUME NEW r \in Requests, Executed(r) PROVE SwitchInv'
    BY <2>9, GotoMoves DEF SwitchInv, Writing, KillWrites, Executed
  <2>10. ASSUME NEW r \in Requests, EvalLock(r) PROVE SwitchInv'
    BY <2>10, GotoMoves DEF SwitchInv, Writing, KillWrites, EvalLock
  <2>11. ASSUME NEW r \in Requests, RecordSuccess(r) PROVE SwitchInv'
    BY <2>11, GotoMoves, NumbersAssumption
    DEF SwitchInv, Writing, KillWrites, RecordSuccess
  <2>12. ASSUME NEW r \in Requests, RecordFailure(r) PROVE SwitchInv'
    <3>1. \A u \in Tasks : pc[u] \notin Writing
      BY <2>12, TasksAssumption DEF RecordFailure, LockInv, Critical
    <3>2. CASE failures' >= FailureThreshold
      BY <2>n, <2>12, <3>1, <3>2, GotoMoves DEF RecordFailure, SwitchInv, Writing, KillWrites
    <3>3. CASE ~(failures' >= FailureThreshold)
      BY <2>n, <2>12, <3>1, <3>3, GotoMoves DEF RecordFailure, SwitchInv, Writing, KillWrites
    <3> QED BY <3>2, <3>3
  <2>13. ASSUME NEW a \in Admins, KillLock(a) PROVE SwitchInv'
    BY <2>13, GotoMoves, TasksAssumption
    DEF SwitchInv, Writing, KillWrites, LockInv, Critical, KillLock
  <2>14. ASSUME NEW a \in Admins, ResetLock(a) PROVE SwitchInv'
    BY <2>14, GotoMoves, TasksAssumption
    DEF SwitchInv, Writing, KillWrites, LockInv, Critical, ResetLock
  <2>15. ASSUME NEW a \in Admins, NEW op \in {"killWait", "resetWait"}, Ask(a, op)
        PROVE  SwitchInv'
    BY <2>15, GotoMoves DEF SwitchInv, Writing, KillWrites, Ask
  <2>16. ASSUME NEW t \in Tasks, KillPersisted(t) PROVE SwitchInv'
    <3>1. killActive /\ lock = t
      BY <2>16 DEF KillPersisted, SwitchInv, LockInv, Critical, Writing
    <3>2. killActive' /\ killDb' = killActive'
      BY <2>16, <3>1 DEF KillPersisted
    <3>3. \A u \in Tasks : pc'[u] \notin Writing
      BY <2>16, <3>1, GotoMoves, LeaveWrite
      DEF KillPersisted, LockInv, Critical, Writing, KillWrites
    <3> QED BY <3>2, <3>3 DEF SwitchInv, Writing, KillWrites
  <2>17. ASSUME NEW t \in Tasks, ResetPersisted(t) PROVE SwitchInv'
    <3>1. ~killActive /\ lock = t
      BY <2>17 DEF ResetPersisted, SwitchInv, LockInv, Critical, Writing
    <3>2. ~killActive' /\ killDb' = killActive' /\ failures' = 0
      BY <2>17, <3>1 DEF ResetPersisted, FlagTypes
    <3>3. \A u \in Tasks : pc'[u] \notin Writing
      BY <2>17, <3>1, GotoMoves, LeaveWrite
      DEF ResetPersisted, LockInv, Critical, Writing, KillWrites
    <3> QED BY <3>2, <3>3, NumbersAssumption DEF SwitchInv, Writing, KillWrites
  <2>18. ASSUME NEW t \in Tasks, WriteFails(t) PROVE SwitchInv'
    <3>1. Goto(t, "done") \/ Goto(t, "idle") \/ Goto(t, "failedAgain")
      BY <2>18 DEF WriteFails, AfterRaise
    <3> QED BY <2>18, <3>1, GotoMoves DEF WriteFails, AfterRaise, SwitchInv, Writing, KillWrites
  <2>19. CASE Environment
    BY <2>19
    DEF SwitchInv, Writing, KillWrites, Environment, LegacyFlip, DryRunFlip,
        Tick, Expire
  <2>20. CASE Restart
    <3>1. \A t \in Tasks : pc'[t] \in {"done", "idle"}
      BY <2>20 DEF Restart
    <3> QED BY <2>20, <3>1, NumbersAssumption DEF Restart, SwitchInv, Writing, KillWrites
  <2>21. CASE UNCHANGED vars
    BY <2>21 DEF SwitchInv, Writing, KillWrites, vars
  <2> QED
    BY <2>1, <2>2, <2>3, <2>4, <2>5, <2>6, <2>7, <2>8, <2>9, <2>10, <2>11,
      <2>12, <2>13, <2>14, <2>15, <2>16, <2>17, <2>18, <2>19, <2>20, <2>21
    DEF Next, RequestRuns, RequestLocks, AdminLocks, Write
<1> QED
  BY <1>1, <1>2, TypeCorrect, LockCorrect, PTL DEF Spec

(* Unless a write failed, memory and row agree whenever no task is in the  *)
(* engine: whoever set the switch has written it.                          *)
THEOREM KillIsDurable == Spec => []KillDurable
<1>1. LockInv /\ SwitchInv => KillDurable
  BY TasksAssumption DEF LockInv, SwitchInv, KillDurable, Critical, Writing, Tasks
<1> QED BY <1>1, LockCorrect, SwitchCorrect, PTL

(* Failures in a row that reach the threshold leave the switch on, for any *)
(* number of requests that record their results in any order.              *)
THEOREM FailuresActivate == Spec => []FailuresKill
<1>1. LockInv /\ SwitchInv => FailuresKill
  BY TasksAssumption DEF LockInv, SwitchInv, FailuresKill, Critical, Writing, Tasks
<1> QED BY <1>1, LockCorrect, SwitchCorrect, PTL

(***************************************************************************)
(* Approvals.                                                              *)
(***************************************************************************)

(* Two tasks are never critical at once.                                   *)
LEMMA Exclusive ==
  ASSUME LockInv, NEW t \in Tasks, NEW u \in Tasks,
         pc[t] \in Critical, pc[u] \in Critical
  PROVE  t = u
BY DEF LockInv

(* Nothing that turns the switch on or starts a cooldown runs between the  *)
(* checks of a request and its approval.                                   *)
THEOREM ApprovalsAreSafe == Spec => []ApprovalSafe
<1>1. Init => ApprovalSafe
  BY DEF Init, ApprovalSafe, Approving, Tasks
<1>2. TypeOK /\ LockInv /\ ApprovalSafe /\ [Next]_vars => ApprovalSafe'
  <2> SUFFICES ASSUME TypeOK, LockInv, ApprovalSafe, [Next]_vars PROVE ApprovalSafe'
    OBVIOUS
  <2> USE DEF TypeOK, Tasks
  <2>1. ASSUME NEW r \in Requests, Submit(r) PROVE ApprovalSafe'
    BY <2>1, GotoMoves DEF ApprovalSafe, Approving, Blocked, Submit
  <2>2. ASSUME NEW r \in Requests, Unhealthy(r) PROVE ApprovalSafe'
    <3>1. \A u \in Tasks \ {r} : pc[u] \notin Critical
      BY <2>2, Exclusive DEF Unhealthy, Critical, Writing
    <3>2. \A q \in Requests : ~Approving(q)'
      BY <2>2, <3>1, GotoMoves, LeaveWrite DEF Unhealthy, Approving, Critical, KillWrites
    <3> QED BY <3>2 DEF ApprovalSafe
  <2>3. ASSUME NEW r \in Requests, DecideReject(r) PROVE ApprovalSafe'
    <3>1. \A q \in Requests \ {r} : pc[q] \notin Critical
      BY <2>3, Exclusive DEF DecideReject, Critical
    <3>2. decision'[r] = "reject"
      BY <2>3 DEF DecideReject, RequestTypes
    <3>3. \A q \in Requests \ {r} : ~Approving(q)'
      BY <2>3, <3>1, GotoMoves DEF DecideReject, Approving, Critical
    <3> QED BY <2>3, <3>2, <3>3, GotoMoves DEF DecideReject, ApprovalSafe, Approving
  <2>4. ASSUME NEW r \in Requests, DecideAccept(r) PROVE ApprovalSafe'
    <3>1. ~killActive /\ cooldown = 0
      BY <2>4 DEF DecideAccept, Blocked, NumberTypes
    <3> QED BY <2>4, <3>1 DEF DecideAccept, ApprovalSafe
  <2>5. ASSUME NEW r \in Requests, QueueWake(r) PROVE ApprovalSafe'
    <3>1. ~killActive /\ cooldown = 0
      BY <2>5 DEF QueueWake, ApprovalSafe, Approving
    <3> QED BY <2>5, <3>1 DEF QueueWake, ApprovalSafe
  <2>6. ASSUME NEW r \in Requests, QueueTimeout(r) PROVE ApprovalSafe'
    <3>1. ~killActive /\ cooldown = 0
      BY <2>6 DEF QueueTimeout, ApprovalSafe, Approving
    <3> QED BY <2>6, <3>1 DEF QueueTimeout, ApprovalSafe
  <2>7. ASSUME NEW r \in Requests, AuditDone(r) PROVE ApprovalSafe'
    <3>1. Goto(r, "approved") \/ Goto(r, "done")
      BY <2>7 DEF AuditDone
    <3> QED BY <2>7, <3>1, GotoMoves DEF AuditDone, ApprovalSafe, Approving
  <2>8. ASSUME NEW r \in Requests, Execute(r) PROVE ApprovalSafe'
    BY <2>8, GotoMoves DEF ApprovalSafe, Approving, Blocked, Execute
  <2>9. ASSUME NEW r \in Requests, Executed(r) PROVE ApprovalSafe'
    BY <2>9, GotoMoves DEF ApprovalSafe, Approving, Blocked, Executed
  <2>10. ASSUME NEW r \in Requests, EvalLock(r) PROVE ApprovalSafe'
    BY <2>10, GotoMoves DEF ApprovalSafe, Approving, Blocked, EvalLock
  <2>11. ASSUME NEW r \in Requests, RecordSuccess(r) PROVE ApprovalSafe'
    BY <2>11, GotoMoves DEF ApprovalSafe, Approving, Blocked, RecordSuccess
  <2>12. ASSUME NEW r \in Requests, RecordFailure(r) PROVE ApprovalSafe'
    <3>1. \A u \in Tasks : pc[u] \notin Critical
      BY <2>12, TasksAssumption DEF RecordFailure, LockInv
    <3>2. \A q \in Requests : ~Approving(q)'
      BY <2>12, <3>1, GotoMoves DEF RecordFailure, Approving, Critical
    <3> QED BY <3>2 DEF ApprovalSafe
  <2>13. ASSUME NEW a \in Admins, KillLock(a) PROVE ApprovalSafe'
    <3>1. \A u \in Tasks : pc[u] \notin Critical
      BY <2>13, TasksAssumption DEF KillLock, LockInv
    <3>2. \A q \in Requests : ~Approving(q)'
      BY <2>13, <3>1, GotoMoves DEF KillLock, Approving, Critical
    <3> QED BY <3>2 DEF ApprovalSafe
  <2>14. ASSUME NEW a \in Admins, ResetLock(a) PROVE ApprovalSafe'
    <3>1. \A u \in Tasks : pc[u] \notin Critical
      BY <2>14, TasksAssumption DEF ResetLock, LockInv
    <3>2. \A q \in Requests : ~Approving(q)'
      BY <2>14, <3>1, GotoMoves DEF ResetLock, Approving, Critical
    <3> QED BY <3>2 DEF ApprovalSafe
  <2>15. ASSUME NEW a \in Admins, NEW op \in {"killWait", "resetWait"}, Ask(a, op)
        PROVE  ApprovalSafe'
    BY <2>15, GotoMoves DEF ApprovalSafe, Approving, Blocked, Ask
  <2>16. ASSUME NEW t \in Tasks, KillPersisted(t) PROVE ApprovalSafe'
    <3>1. \A u \in Tasks \ {t} : pc[u] \notin Critical
      BY <2>16, Exclusive DEF KillPersisted, Critical, Writing
    <3>2. \A q \in Requests : ~Approving(q)'
      BY <2>16, <3>1, GotoMoves, LeaveWrite DEF KillPersisted, Approving, Critical, KillWrites
    <3> QED BY <3>2 DEF ApprovalSafe
  <2>17. ASSUME NEW t \in Tasks, ResetPersisted(t) PROVE ApprovalSafe'
    <3>1. \A u \in Tasks \ {t} : pc[u] \notin Critical
      BY <2>17, Exclusive DEF ResetPersisted, Critical, Writing
    <3>2. \A q \in Requests : ~Approving(q)'
      BY <2>17, <3>1, GotoMoves, LeaveWrite DEF ResetPersisted, Approving, Critical, KillWrites
    <3> QED BY <3>2 DEF ApprovalSafe
  <2>18. ASSUME NEW t \in Tasks, WriteFails(t) PROVE ApprovalSafe'
    <3>1. Goto(t, "done") \/ Goto(t, "idle") \/ Goto(t, "failedAgain")
      BY <2>18 DEF WriteFails, AfterRaise
    <3> QED BY <2>18, <3>1, GotoMoves DEF WriteFails, AfterRaise, ApprovalSafe, Approving
  <2>19. CASE Environment
    BY <2>19
    DEF ApprovalSafe, Approving, NumberTypes, Environment, LegacyFlip,
        DryRunFlip, Tick, Expire
  <2>20. CASE Restart
    <3>1. \A t \in Tasks : pc'[t] \in {"done", "idle"}
      BY <2>20 DEF Restart
    <3> QED BY <3>1 DEF ApprovalSafe, Approving
  <2>21. CASE UNCHANGED vars
    BY <2>21 DEF ApprovalSafe, Approving, vars
  <2> QED
    BY <2>1, <2>2, <2>3, <2>4, <2>5, <2>6, <2>7, <2>8, <2>9, <2>10, <2>11,
      <2>12, <2>13, <2>14, <2>15, <2>16, <2>17, <2>18, <2>19, <2>20, <2>21
    DEF Next, RequestRuns, RequestLocks, AdminLocks, Write
<1> QED
  BY <1>1, <1>2, TypeCorrect, LockCorrect, PTL DEF Spec

(***************************************************************************)
(* The position limit.                                                     *)
(***************************************************************************)

(* Without overlapping approvals: the recorded positions fit the limit and *)
(* what was waived, and the position each approved request leaves once     *)
(* recorded fits the limit unless it is reduce-only, because no other      *)
(* request of its symbol can be recorded before it.                        *)
SerialInv ==
  ~overlap =>
    /\ \A s \in Symbols : Gross(pos[s]) <= Limit + waived[s]
    /\ \A r \in Requests :
         (Approving(r) \/ pc[r] \in Holding) /\ ~Batch[r].reduceOnly
           => Gross(Projected(Batch[r], Exchanges)) <= Limit
    /\ \A r, q \in Requests :
         pc[r] \in Holding /\ pc[q] \in Holding /\ Batch[r].symbol = Batch[q].symbol
           => r = q

LEMMA BatchTyped ==
  ASSUME NEW r \in Requests
  PROVE  /\ Batch[r].symbol \in Symbols /\ Batch[r].legs \in SUBSET Exchanges
         /\ Batch[r].legs # {} /\ Batch[r].qty \in [Exchanges -> Int]
BY BatchAssumption DEF BatchType

(* A batch that is checked against the limit leaves its symbol within it.  *)
LEMMA FittingBatch ==
  ASSUME NumberTypes, NEW r \in Requests, NEW mid, BatchFits(Batch[r], mid),
         ~Batch[r].reduceOnly
  PROVE  Gross(Projected(Batch[r], Exchanges)) <= Limit
<1>2. CASE ~Batch[r].reduceOnly /\ "lighter" \in Batch[r].legs
  BY <1>2 DEF BatchFits, LegFits
<1>3. CASE ~Batch[r].reduceOnly /\ "lighter" \notin Batch[r].legs
  <2>1. Batch[r].legs = {"bybit"}
    BY <1>3, BatchTyped DEF Exchanges
  <2>2. Projected(Batch[r], {"bybit"}) = Projected(Batch[r], Exchanges)
    BY <2>1 DEF Projected, Ordered, Exchanges
  <2> QED BY <1>3, <2>1, <2>2 DEF BatchFits, LegFits
<1> QED BY <1>2, <1>3

(* Sizes add up at most.                                                   *)
LEMMA GrossAdds ==
  ASSUME NEW p \in [Exchanges -> Int], NEW q \in [Exchanges -> Int]
  PROVE  Gross([e \in Exchanges |-> p[e] + q[e]]) <= Gross(p) + Gross(q)
BY DEF Gross, Magnitude, Exchanges

(* A reduce-only batch adds to its symbol no more than it waives.          *)
LEMMA WaivingBatch ==
  ASSUME NumberTypes, NEW r \in Requests, Batch[r].reduceOnly
  PROVE  Gross(Projected(Batch[r], Exchanges))
           <= Gross(pos[Batch[r].symbol]) + Waives(Batch[r])
<1>1. pos[Batch[r].symbol] \in [Exchanges -> Int]
  BY BatchTyped DEF NumberTypes
<1>2. Ordered(Batch[r], Exchanges) \in [Exchanges -> Int]
  BY OrderedType
<1> QED BY <1>1, <1>2, GrossAdds DEF Projected, Waives

(* The projection of a batch depends on the recorded positions alone.      *)
LEMMA SameProjection ==
  ASSUME NEW r \in Requests, pos'[Batch[r].symbol] = pos[Batch[r].symbol]
  PROVE  Projected(Batch[r], Exchanges)' = Projected(Batch[r], Exchanges)
BY DEF Projected, Ordered

(* The inductive form of SerialLimit.                                      *)
THEOREM SerialCorrect == Spec => []SerialInv
<1>1. Init => SerialInv
  <2> SUFFICES ASSUME Init PROVE SerialInv
    OBVIOUS
  <2>1. \A s \in Symbols : Gross(pos[s]) <= Limit + waived[s]
    BY NumbersAssumption DEF Init, NoPosition, Gross, Magnitude, Exchanges
  <2>2. \A r \in Requests : ~Approving(r) /\ pc[r] \notin Holding
    BY DEF Init, Approving, Holding, Tasks
  <2> QED BY <2>1, <2>2 DEF SerialInv
<1>2. TypeOK /\ LockInv /\ SerialInv /\ [Next]_vars => SerialInv'
  <2> SUFFICES ASSUME TypeOK, LockInv, SerialInv, [Next]_vars PROVE SerialInv'
    OBVIOUS
  <2> USE DEF TypeOK, Tasks
  <2>1. ASSUME NEW r \in Requests, Submit(r) PROVE SerialInv'
    BY <2>1, GotoMoves, SameProjection
    DEF SerialInv, Approving, Holding, Submit
  <2>2. ASSUME NEW r \in Requests, Unhealthy(r) PROVE SerialInv'
    BY <2>2, GotoMoves, SameProjection
    DEF SerialInv, Approving, Holding, Unhealthy
  <2>3. ASSUME NEW r \in Requests, DecideReject(r) PROVE SerialInv'
    <3>1. \A q \in Requests : Approving(q)' => Approving(q)
      BY <2>3, GotoMoves DEF DecideReject, Approving, RequestTypes
    <3> QED
      BY <2>3, <3>1, GotoMoves, SameProjection DEF DecideReject, SerialInv, Holding
  <2>4. ASSUME NEW r \in Requests, DecideAccept(r) PROVE SerialInv'
    <3> SUFFICES ASSUME ~overlap PROVE SerialInv'
      BY <2>4 DEF DecideAccept, SerialInv
    <3>1. Goto(r, "audit") \/ Goto(r, "queue")
      BY <2>4 DEF DecideAccept, Grab
    <3>2. \A s \in Symbols : Gross(pos[s]) <= Limit + waived[s]
      BY DEF SerialInv
    <3>3. ~Batch[r].reduceOnly => Gross(Projected(Batch[r], Exchanges)) <= Limit
      BY <2>4, FittingBatch DEF DecideAccept
    <3>4. \A q \in Requests \ {r} : Approving(q)' => Approving(q)
      BY <2>4, <3>1, GotoMoves DEF DecideAccept, Grab, Approving, RequestTypes
    <3>5. pos' = pos /\ waived' = waived /\ overlap' = overlap
      BY <2>4 DEF DecideAccept
    <3> QED
      BY <3>1, <3>2, <3>3, <3>4, <3>5, GotoMoves, SameProjection DEF SerialInv, Holding
  <2>5. ASSUME NEW r \in Requests, QueueWake(r) PROVE SerialInv'
    <3>1. Goto(r, "audit") \/ Goto(r, "queue")
      BY <2>5 DEF QueueWake, Grab
    <3>2. Approving(r)
      BY <2>5 DEF QueueWake, Approving
    <3>3. \A q \in Requests \ {r} : Approving(q)' => Approving(q)
      BY <2>5, <3>1, GotoMoves DEF QueueWake, Grab, Approving, RequestTypes
    <3>4. pos' = pos /\ waived' = waived /\ overlap' = overlap
      BY <2>5 DEF QueueWake
    <3> QED
      BY <3>1, <3>2, <3>3, <3>4, GotoMoves, SameProjection DEF SerialInv, Holding
  <2>6. ASSUME NEW r \in Requests, QueueTimeout(r) PROVE SerialInv'
    <3>1. \A q \in Requests : Approving(q)' => Approving(q)
      BY <2>6, GotoMoves DEF QueueTimeout, Approving, RequestTypes
    <3> QED
      BY <2>6, <3>1, GotoMoves, SameProjection DEF QueueTimeout, SerialInv, Holding
  <2>7. ASSUME NEW r \in Requests, AuditDone(r) PROVE SerialInv'
    <3>1. CASE decision[r] = "approve"
      <4>1. Approving(r) /\ pc'[r] = "approved" /\ \A u \in Tasks \ {r} : pc'[u] = pc[u]
        BY <2>7, <3>1, GotoMoves DEF AuditDone, Approving
      <4>2. ~overlap' => /\ ~overlap
                         /\ \A q \in Requests :
                              ~(pc[q] \in Holding /\ Batch[q].symbol = Batch[r].symbol)
        BY <2>7, <3>1 DEF AuditDone, Outstanding
      <4>3. pos' = pos /\ waived' = waived /\ decision' = decision
        BY <2>7 DEF AuditDone
      <4> QED
        BY <4>1, <4>2, <4>3, SameProjection DEF SerialInv, Approving, Holding
    <3>2. CASE decision[r] # "approve"
      BY <2>7, <3>2, GotoMoves, SameProjection DEF AuditDone, SerialInv, Approving, Holding
    <3> QED BY <3>1, <3>2
  <2>8. ASSUME NEW r \in Requests, Execute(r) PROVE SerialInv'
    BY <2>8, GotoMoves, SameProjection
    DEF SerialInv, Approving, Holding, Execute
  <2>9. ASSUME NEW r \in Requests, Executed(r) PROVE SerialInv'
    <3>1. Goto(r, "succeeded") \/ Goto(r, "failed")
      BY <2>9 DEF Executed
    <3> QED
      BY <2>9, <3>1, GotoMoves, SameProjection DEF Executed, SerialInv, Approving, Holding
  <2>10. ASSUME NEW r \in Requests, EvalLock(r) PROVE SerialInv'
    BY <2>10, GotoMoves, SameProjection
    DEF SerialInv, Approving, Holding, EvalLock
  <2>11. ASSUME NEW r \in Requests, RecordSuccess(r) PROVE SerialInv'
    <3> SUFFICES ASSUME ~overlap PROVE SerialInv'
      BY <2>11 DEF RecordSuccess, SerialInv
    <3>1. /\ pc[r] \in Holding /\ pc'[r] = "done"
          /\ \A u \in Tasks \ {r} : pc'[u] = pc[u]
          /\ decision' = decision
      BY <2>11, GotoMoves DEF RecordSuccess, Holding
    <3>2. \A q \in Requests : ~Approving(q)
      BY <2>11, TasksAssumption DEF RecordSuccess, LockInv, Critical, Approving
    <3>3. /\ pos'[Batch[r].symbol] = Projected(Batch[r], Exchanges)
          /\ \A s \in Symbols \ {Batch[r].symbol} : pos'[s] = pos[s]
      BY <2>11, BatchTyped DEF RecordSuccess, NumberTypes
    <3>4. \A s \in Symbols : Gross(pos'[s]) <= Limit + waived'[s]
      <4> DEFINE b == Batch[r].symbol
      <4>1. /\ b \in Symbols /\ waived'[b] = waived[b] + Waives(Batch[r])
            /\ \A s \in Symbols \ {b} : waived'[s] = waived[s]
        BY <2>11, BatchTyped DEF RecordSuccess, NumberTypes
      <4>2. /\ Gross(pos[b]) \in Nat /\ Gross(Projected(Batch[r], Exchanges)) \in Nat
            /\ waived[b] \in Nat /\ Limit \in Nat /\ Waives(Batch[r]) \in Nat
        BY <4>1, GrossIs, ProjectedType, OrderedType, NumbersAssumption DEF NumberTypes
      <4>3. Gross(pos[b]) <= Limit + waived[b]
        BY <4>1 DEF SerialInv
      <4>4. CASE Batch[r].reduceOnly
        <5>1. Gross(Projected(Batch[r], Exchanges)) <= Gross(pos[b]) + Waives(Batch[r])
          BY <4>4, WaivingBatch
        <5>2. Gross(pos'[b]) <= Limit + waived'[b]
          BY <3>3, <4>1, <4>2, <4>3, <5>1
        <5> QED BY <3>3, <4>1, <5>2 DEF SerialInv
      <4>5. CASE ~Batch[r].reduceOnly
        <5>1. Gross(Projected(Batch[r], Exchanges)) <= Limit
          BY <3>1, <4>5 DEF SerialInv
        <5>2. Gross(pos'[b]) <= Limit + waived'[b]
          BY <3>3, <4>1, <4>2, <5>1
        <5> QED BY <3>3, <4>1, <5>2 DEF SerialInv
      <4> QED BY <4>4, <4>5
    <3>5. ASSUME NEW q \in Requests, pc'[q] \in Holding, ~Batch[q].reduceOnly
          PROVE  Gross(Projected(Batch[q], Exchanges)') <= Limit
      <4>1. q # r /\ pc[q] \in Holding
        BY <3>1, <3>5 DEF Holding
      <4>2. Batch[q].symbol # Batch[r].symbol
        BY <3>1, <4>1 DEF SerialInv
      <4>3. Projected(Batch[q], Exchanges)' = Projected(Batch[q], Exchanges)
        BY <3>3, <4>2, BatchTyped, SameProjection
      <4> QED BY <3>5, <4>1, <4>3 DEF SerialInv
    <3>6. \A q \in Requests : ~Approving(q)'
      BY <3>1, <3>2 DEF Approving
    <3>7. \A p, q \in Requests :
            pc'[p] \in Holding /\ pc'[q] \in Holding /\ Batch[p].symbol = Batch[q].symbol
              => p = q
      BY <3>1 DEF SerialInv, Holding
    <3>8. \A q \in Requests :
            (Approving(q)' \/ pc'[q] \in Holding) /\ ~Batch[q].reduceOnly
              => Gross(Projected(Batch[q], Exchanges)') <= Limit
      BY <3>5, <3>6
    <3> QED BY <3>4, <3>7, <3>8 DEF SerialInv, Gross
  <2>12. ASSUME NEW r \in Requests, RecordFailure(r) PROVE SerialInv'
    <3>1. Goto(r, "done") \/ Goto(r, "recordKill") \/ Goto(r, "recordLast")
      BY <2>12 DEF RecordFailure
    <3> QED
      BY <2>12, <3>1, GotoMoves, SameProjection
      DEF RecordFailure, SerialInv, Approving, Holding
  <2>13. ASSUME NEW a \in Admins, KillLock(a) PROVE SerialInv'
    BY <2>13, GotoMoves, SameProjection
    DEF SerialInv, Approving, Holding, KillLock
  <2>14. ASSUME NEW a \in Admins, ResetLock(a) PROVE SerialInv'
    BY <2>14, GotoMoves, SameProjection
    DEF SerialInv, Approving, Holding, ResetLock
  <2>15. ASSUME NEW a \in Admins, NEW op \in {"killWait", "resetWait"}, Ask(a, op)
        PROVE  SerialInv'
    BY <2>15, GotoMoves, SameProjection DEF SerialInv, Approving, Holding, Ask
  <2>16. ASSUME NEW t \in Tasks, KillPersisted(t) PROVE SerialInv'
    <3>1. /\ pc'[t] \in {"checked", "done", "idle"}
          /\ \A u \in Tasks \ {t} : pc'[u] = pc[u]
      BY <2>16, GotoMoves, LeaveWrite DEF KillPersisted, KillWrites
    <3> QED BY <2>16, <3>1, SameProjection DEF KillPersisted, SerialInv, Approving, Holding
  <2>17. ASSUME NEW t \in Tasks, ResetPersisted(t) PROVE SerialInv'
    <3>1. pc'[t] = "idle" /\ \A u \in Tasks \ {t} : pc'[u] = pc[u]
      BY <2>17, GotoMoves, LeaveWrite DEF ResetPersisted
    <3> QED BY <2>17, <3>1, SameProjection DEF ResetPersisted, SerialInv, Approving, Holding
  <2>18. ASSUME NEW t \in Tasks, WriteFails(t) PROVE SerialInv'
    <3>1. Goto(t, "done") \/ Goto(t, "idle") \/ Goto(t, "failedAgain")
      BY <2>18 DEF WriteFails, AfterRaise
    <3> QED
      BY <2>18, <3>1, GotoMoves, SameProjection DEF WriteFails, AfterRaise, SerialInv, Approving, Holding
  <2>19. CASE Environment
    BY <2>19, SameProjection
    DEF SerialInv, Approving, Environment, LegacyFlip, DryRunFlip, Tick,
        Expire
  <2>20. CASE Restart
    <3>1. \A r \in Requests : pc'[r] \in {"done", "idle"}
      BY <2>20 DEF Restart
    <3>2. \A s \in Symbols : Gross(pos'[s]) <= Limit + waived'[s]
      BY <2>20, NumbersAssumption DEF Restart, NoPosition, Gross, Magnitude, Exchanges
    <3> QED BY <3>1, <3>2 DEF SerialInv, Approving, Holding, Gross
  <2>21. CASE UNCHANGED vars
    BY <2>21, SameProjection DEF SerialInv, Approving, vars
  <2> QED
    BY <2>1, <2>2, <2>3, <2>4, <2>5, <2>6, <2>7, <2>8, <2>9, <2>10, <2>11,
      <2>12, <2>13, <2>14, <2>15, <2>16, <2>17, <2>18, <2>19, <2>20, <2>21
    DEF Next, RequestRuns, RequestLocks, AdminLocks, Write
<1> QED
  BY <1>1, <1>2, TypeCorrect, LockCorrect, PTL DEF Spec

(* If requests of one symbol are never approved while another is           *)
(* outstanding, the recorded gross position of every symbol exceeds the    *)
(* limit by no more than reduce-only requests have recorded.               *)
THEOREM SerialLimitHolds == Spec => []SerialLimit
<1>1. SerialInv => SerialLimit
  BY DEF SerialInv, SerialLimit
<1> QED BY <1>1, SerialCorrect, PTL

(***************************************************************************)
(* The exposure.                                                           *)
(***************************************************************************)

(* A request past the checks has left its symbol a reference mid.          *)
MidsInv ==
  /\ MidsKnown
  /\ \A r \in Requests :
       Approving(r) \/ pc[r] \in Holding => mids[Batch[r].symbol] > 0

(* The inductive form of MidsKnown.                                        *)
THEOREM MidsCorrect == Spec => []MidsInv
<1>1. Init => MidsInv
  BY DEF Init, MidsInv, MidsKnown, Approving, Holding, NoPosition, Tasks
<1>2. TypeOK /\ MidsInv /\ [Next]_vars => MidsInv'
  <2> SUFFICES ASSUME TypeOK, MidsInv, [Next]_vars PROVE MidsInv'
    OBVIOUS
  <2> USE DEF TypeOK, Tasks
  <2>1. ASSUME NEW r \in Requests, Submit(r) PROVE MidsInv'
    BY <2>1, GotoMoves DEF MidsInv, MidsKnown, Approving, Holding, Submit
  <2>2. ASSUME NEW r \in Requests, Unhealthy(r) PROVE MidsInv'
    BY <2>2, GotoMoves DEF MidsInv, MidsKnown, Approving, Holding, Unhealthy
  <2>3. ASSUME NEW r \in Requests, DecideReject(r) PROVE MidsInv'
    <3>1. \A q \in Requests : Approving(q)' => Approving(q)
      BY <2>3, GotoMoves DEF DecideReject, Approving, RequestTypes
    <3> QED BY <2>3, <3>1, GotoMoves DEF DecideReject, MidsInv, MidsKnown, Holding
  <2>4. ASSUME NEW r \in Requests, DecideAccept(r) PROVE MidsInv'
    <3>1. Goto(r, "audit") \/ Goto(r, "queue")
      BY <2>4 DEF DecideAccept, Grab
    <3>2. \A q \in Requests \ {r} : Approving(q)' => Approving(q)
      BY <2>4, <3>1, GotoMoves DEF DecideAccept, Grab, Approving, RequestTypes
    <3>3. PICK m \in Mids[Batch[r].symbol] : mids' = [mids EXCEPT ![Batch[r].symbol] = m]
      BY <2>4 DEF DecideAccept, LastMid, Exchanges
    <3>4. m > 0
      BY BatchTyped, NumbersAssumption
    <3>5. /\ mids'[Batch[r].symbol] > 0
          /\ \A s \in Symbols : mids[s] > 0 => mids'[s] > 0
      BY <3>3, <3>4, BatchTyped DEF NumberTypes
    <3>6. pos' = pos
      BY <2>4 DEF DecideAccept
    <3> QED
      BY <3>1, <3>2, <3>5, <3>6, GotoMoves, BatchTyped DEF MidsInv, MidsKnown, Holding
  <2>5. ASSUME NEW r \in Requests, QueueWake(r) PROVE MidsInv'
    <3>1. Goto(r, "audit") \/ Goto(r, "queue")
      BY <2>5 DEF QueueWake, Grab
    <3>2. Approving(r)
      BY <2>5 DEF QueueWake, Approving
    <3>3. \A q \in Requests \ {r} : Approving(q)' => Approving(q)
      BY <2>5, <3>1, GotoMoves DEF QueueWake, Grab, Approving, RequestTypes
    <3>4. pos' = pos /\ mids' = mids
      BY <2>5 DEF QueueWake
    <3> QED BY <3>1, <3>2, <3>3, <3>4, GotoMoves DEF MidsInv, MidsKnown, Holding
  <2>6. ASSUME NEW r \in Requests, QueueTimeout(r) PROVE MidsInv'
    <3>1. \A q \in Requests : Approving(q)' => Approving(q)
      BY <2>6, GotoMoves DEF QueueTimeout, Approving, RequestTypes
    <3> QED BY <2>6, <3>1, GotoMoves DEF QueueTimeout, MidsInv, MidsKnown, Holding
  <2>7. ASSUME NEW r \in Requests, AuditDone(r) PROVE MidsInv'
    <3>1. CASE decision[r] = "approve"
      BY <2>7, <3>1, GotoMoves DEF AuditDone, MidsInv, MidsKnown, Approving, Holding
    <3>2. CASE decision[r] # "approve"
      BY <2>7, <3>2, GotoMoves DEF AuditDone, MidsInv, MidsKnown, Approving, Holding
    <3> QED BY <3>1, <3>2
  <2>8. ASSUME NEW r \in Requests, Execute(r) PROVE MidsInv'
    BY <2>8, GotoMoves DEF MidsInv, MidsKnown, Approving, Holding, Execute
  <2>9. ASSUME NEW r \in Requests, Executed(r) PROVE MidsInv'
    <3>1. Goto(r, "succeeded") \/ Goto(r, "failed")
      BY <2>9 DEF Executed
    <3> QED BY <2>9, <3>1, GotoMoves DEF Executed, MidsInv, MidsKnown, Approving, Holding
  <2>10. ASSUME NEW r \in Requests, EvalLock(r) PROVE MidsInv'
    BY <2>10, GotoMoves DEF MidsInv, MidsKnown, Approving, Holding, EvalLock
  <2>11. ASSUME NEW r \in Requests, RecordSuccess(r) PROVE MidsInv'
    <3>1. /\ pc[r] \in Holding /\ pc'[r] = "done"
          /\ \A u \in Tasks \ {r} : pc'[u] = pc[u]
          /\ decision' = decision /\ mids' = mids
      BY <2>11, GotoMoves DEF RecordSuccess, Holding
    <3>2. \A s \in Symbols \ {Batch[r].symbol} : pos'[s] = pos[s]
      BY <2>11 DEF RecordSuccess, NumberTypes
    <3>3. mids[Batch[r].symbol] > 0
      BY <3>1 DEF MidsInv
    <3>4. MidsKnown'
      BY <3>1, <3>2, <3>3 DEF MidsInv, MidsKnown
    <3>5. \A q \in Requests :
            (Approving(q) \/ pc[q] \in Holding)' => Approving(q) \/ pc[q] \in Holding
      BY <3>1 DEF Approving, Holding
    <3> QED BY <3>1, <3>4, <3>5 DEF MidsInv
  <2>12. ASSUME NEW r \in Requests, RecordFailure(r) PROVE MidsInv'
    <3>1. Goto(r, "done") \/ Goto(r, "recordKill") \/ Goto(r, "recordLast")
      BY <2>12 DEF RecordFailure
    <3> QED BY <2>12, <3>1, GotoMoves DEF RecordFailure, MidsInv, MidsKnown, Approving, Holding
  <2>13. ASSUME NEW a \in Admins, KillLock(a) PROVE MidsInv'
    BY <2>13, GotoMoves DEF MidsInv, MidsKnown, Approving, Holding, KillLock
  <2>14. ASSUME NEW a \in Admins, ResetLock(a) PROVE MidsInv'
    BY <2>14, GotoMoves DEF MidsInv, MidsKnown, Approving, Holding, ResetLock
  <2>15. ASSUME NEW a \in Admins, NEW op \in {"killWait", "resetWait"}, Ask(a, op)
        PROVE  MidsInv'
    BY <2>15, GotoMoves DEF MidsInv, MidsKnown, Approving, Holding, Ask
  <2>16. ASSUME NEW t \in Tasks, KillPersisted(t) PROVE MidsInv'
    <3>1. /\ pc'[t] \in {"checked", "done", "idle"}
          /\ \A u \in Tasks \ {t} : pc'[u] = pc[u]
      BY <2>16, GotoMoves, LeaveWrite DEF KillPersisted, KillWrites
    <3> QED BY <2>16, <3>1 DEF KillPersisted, MidsInv, MidsKnown, Approving, Holding
  <2>17. ASSUME NEW t \in Tasks, ResetPersisted(t) PROVE MidsInv'
    <3>1. pc'[t] = "idle" /\ \A u \in Tasks \ {t} : pc'[u] = pc[u]
      BY <2>17, GotoMoves, LeaveWrite DEF ResetPersisted
    <3> QED BY <2>17, <3>1 DEF ResetPersisted, MidsInv, MidsKnown, Approving, Holding
  <2>18. ASSUME NEW t \in Tasks, WriteFails(t) PROVE MidsInv'
    <3>1. Goto(t, "done") \/ Goto(t, "idle") \/ Goto(t, "failedAgain")
      BY <2>18 DEF WriteFails, AfterRaise
    <3> QED BY <2>18, <3>1, GotoMoves DEF WriteFails, AfterRaise, MidsInv, MidsKnown, Approving, Holding
  <2>19. CASE Environment
    BY <2>19
    DEF MidsInv, MidsKnown, Approving, Holding, Environment, LegacyFlip,
        DryRunFlip, Tick, Expire
  <2>20. CASE Restart
    <3>1. \A r \in Requests : pc'[r] \in {"done", "idle"}
      BY <2>20 DEF Restart
    <3>2. \A s \in Symbols : pos'[s] = [e \in Exchanges |-> 0]
      BY <2>20 DEF Restart, NoPosition
    <3> QED BY <3>1, <3>2 DEF MidsInv, MidsKnown, Approving, Holding
  <2>21. CASE UNCHANGED vars
    BY <2>21 DEF MidsInv, MidsKnown, Approving, Holding, vars
  <2> QED
    BY <2>1, <2>2, <2>3, <2>4, <2>5, <2>6, <2>7, <2>8, <2>9, <2>10, <2>11,
      <2>12, <2>13, <2>14, <2>15, <2>16, <2>17, <2>18, <2>19, <2>20, <2>21
    DEF Next, RequestRuns, RequestLocks, AdminLocks, Write
<1> QED
  BY <1>1, <1>2, TypeCorrect, PTL DEF Spec

(* Every symbol with a recorded position counts towards the exposure.      *)
THEOREM MidsAreKnown == Spec => []MidsKnown
<1>1. MidsInv => MidsKnown
  BY DEF MidsInv
<1> QED BY <1>1, MidsCorrect, PTL

-----------------------------------------------------------------------------

(* The exposure of a book at the lowest prices, and the book a request     *)
(* leaves once it is recorded.                                             *)
Lowest(book) == Exposure(book, LowestPrices)
After(r) == [pos EXCEPT ![Batch[r].symbol] = Projected(Batch[r], Exchanges)]
OnItsWay(r) == Approving(r) \/ pc[r] \in Holding

(* What the waived quantities are worth at the lowest prices.              *)
Worth(w) == SumFunction([s \in Symbols |-> w[s] * LowestPrices[s]])

(* Without two approved requests at once: the book is within the cap and   *)
(* what was waived, the one each approved request leaves is within the cap *)
(* unless it is reduce-only, and no other comes before it.                 *)
ExposureInv ==
  ~crowd =>
    /\ Lowest(pos) <= ExposureCap + Worth(waived)
    /\ \A r \in Requests :
         OnItsWay(r) /\ ~Batch[r].reduceOnly => Lowest(After(r)) <= ExposureCap
    /\ \A r, q \in Requests : pc[r] \in Holding /\ pc[q] \in Holding => r = q

LEMMA LowestPriceIs ==
  ASSUME NEW s \in Symbols
  PROVE  /\ LowestPrices[s] \in Nat
         /\ \A m \in Mids[s] : LowestPrices[s] <= m
<1>1. Mids[s] \subseteq Nat /\ Mids[s] # {}
  BY NumbersAssumption
<1>2. \E n \in Mids[s] : \A m \in Mids[s] : n <= m
  BY <1>1, NatLeast
<1>3. Min(Mids[s]) \in Mids[s] /\ \A m \in Mids[s] : Min(Mids[s]) <= m
  BY <1>2 DEF Min
<1> QED
  BY <1>1, <1>3 DEF LowestPrices

LEMMA CheaperProduct ==
  ASSUME NEW a \in Nat, NEW b \in Nat, NEW c \in Nat, b <= c
  PROVE  a * b \in Int /\ a * c \in Int /\ a * b <= a * c
OBVIOUS

(* A book is worth least at the lowest prices, if every symbol it holds    *)
(* has a price.                                                            *)
LEMMA LowestIsLess ==
  ASSUME NEW book \in [Symbols -> [Exchanges -> Int]], NEW mid \in [Symbols -> Nat],
         \A s \in Symbols : mid[s] \in Mids[s] \cup {0},
         \A s \in Symbols : book[s] # [e \in Exchanges |-> 0] => mid[s] > 0
  PROVE  Lowest(book) <= Exposure(book, mid)
<1> DEFINE low == [s \in Symbols |-> Gross(book[s]) * LowestPrices[s]]
           now == [s \in Symbols |-> Gross(book[s]) * mid[s]]
<1>1. ASSUME NEW s \in Symbols
      PROVE  low[s] \in Int /\ now[s] \in Int /\ low[s] <= now[s]
  <2>1. Gross(book[s]) \in Nat /\ LowestPrices[s] \in Nat /\ mid[s] \in Nat
    BY GrossIs, LowestPriceIs
  <2>2. CASE mid[s] = 0
    <3>1. Gross(book[s]) = 0
      BY <2>2, GrossIs
    <3> QED
      BY <2>1, <3>1
  <2>3. CASE mid[s] \in Mids[s]
    <3>1. LowestPrices[s] <= mid[s]
      BY <2>3, LowestPriceIs
    <3>2. /\ Gross(book[s]) * LowestPrices[s] \in Int
          /\ Gross(book[s]) * mid[s] \in Int
          /\ Gross(book[s]) * LowestPrices[s] <= Gross(book[s]) * mid[s]
      BY <2>1, <3>1, CheaperProduct
    <3> QED
      BY <3>2
  <2> QED
    BY <2>2, <2>3
<1>2. SumFunctionOnSet(low, Symbols) <= SumFunctionOnSet(now, Symbols)
  <2> HIDE DEF low, now
  <2> QED
    BY <1>1, SumLess, SymbolsAssumption
<1> QED
  BY <1>2 DEF Lowest, Exposure, SumFunction

(* What a book is worth is a number.                                       *)
LEMMA LowestType ==
  ASSUME NEW book \in [Symbols -> [Exchanges -> Int]]
  PROVE  Lowest(book) \in Int
<1> DEFINE low == [s \in Symbols |-> Gross(book[s]) * LowestPrices[s]]
<1>1. ASSUME NEW s \in Symbols
      PROVE  low[s] \in Int
  BY GrossIs, LowestPriceIs
<1>2. SumFunctionOnSet(low, Symbols) \in Int
  <2> HIDE DEF low
  <2> QED
    BY <1>1, SumInt, SymbolsAssumption
<1> QED
  BY <1>2 DEF Lowest, Exposure, SumFunction

LEMMA ExposureType ==
  ASSUME NEW book \in [Symbols -> [Exchanges -> Int]], NEW mid \in [Symbols -> Nat]
  PROVE  Exposure(book, mid) \in Int
<1> DEFINE now == [s \in Symbols |-> Gross(book[s]) * mid[s]]
<1>1. ASSUME NEW s \in Symbols
      PROVE  now[s] \in Int
  BY GrossIs
<1>2. SumFunctionOnSet(now, Symbols) \in Int
  <2> HIDE DEF now
  <2> QED
    BY <1>1, SumInt, SymbolsAssumption
<1> QED
  BY <1>2 DEF Exposure, SumFunction

(* A batch that is checked against the cap leaves a book within it.        *)
LEMMA FittingExposure ==
  ASSUME NumberTypes, MidsKnown, NEW r \in Requests,
         NEW mid \in [Exchanges -> Mids[Batch[r].symbol]],
         BatchFits(Batch[r], mid), ~Batch[r].reduceOnly
  PROVE  Lowest(After(r)) <= ExposureCap
<1> DEFINE s == Batch[r].symbol
<1>2. ASSUME ~Batch[r].reduceOnly, NEW e \in Exchanges,
             LegFits(Batch[r], Exchanges, mid[e])
      PROVE  Lowest(After(r)) <= ExposureCap
  <2> DEFINE now == [mids EXCEPT ![s] = mid[e]]
  <2>1. Exposure(After(r), now) <= ExposureCap
    BY <1>2 DEF LegFits, After
  <2>2. Projected(Batch[r], Exchanges) \in [Exchanges -> Int] /\ s \in Symbols
    BY ProjectedType, BatchTyped
  <2>3. After(r) \in [Symbols -> [Exchanges -> Int]]
    BY <2>2 DEF After, NumberTypes
  <2>4. mid[e] \in Mids[s] /\ mid[e] \in Nat /\ mid[e] > 0
    BY <2>2, NumbersAssumption
  <2>5. /\ now \in [Symbols -> Nat]
        /\ \A x \in Symbols : now[x] \in Mids[x] \cup {0}
    BY <2>2, <2>4 DEF NumberTypes
  <2>6. \A x \in Symbols : After(r)[x] # [z \in Exchanges |-> 0] => now[x] > 0
    BY <2>2, <2>4 DEF MidsKnown, After, NumberTypes
  <2>7. Lowest(After(r)) <= Exposure(After(r), now)
    BY <2>3, <2>5, <2>6, LowestIsLess
  <2>8. Lowest(After(r)) \in Int /\ Exposure(After(r), now) \in Int
    BY <2>3, <2>5, LowestType, ExposureType
  <2> QED
    BY <2>1, <2>7, <2>8, NumbersAssumption
<1>3. CASE ~Batch[r].reduceOnly /\ "lighter" \in Batch[r].legs
  <2>1. LegFits(Batch[r], Exchanges, mid["lighter"])
    BY <1>3 DEF BatchFits
  <2> QED
    BY <1>2, <1>3, <2>1 DEF Exchanges
<1>4. CASE ~Batch[r].reduceOnly /\ "lighter" \notin Batch[r].legs
  <2>1. Batch[r].legs = {"bybit"}
    BY <1>4, BatchTyped DEF Exchanges
  <2>2. Projected(Batch[r], {"bybit"}) = Projected(Batch[r], Exchanges)
    BY <2>1 DEF Projected, Ordered, Exchanges
  <2>3. LegFits(Batch[r], {"bybit"}, mid["bybit"])
    BY <2>1 DEF BatchFits
  <2>4. LegFits(Batch[r], Exchanges, mid["bybit"])
    BY <2>2, <2>3 DEF LegFits
  <2> QED
    BY <1>2, <1>4, <2>4 DEF Exchanges
<1> QED
  BY <1>3, <1>4

(* What was waived is worth no less than nothing.                          *)
LEMMA WorthType ==
  ASSUME NEW w \in [Symbols -> Nat]
  PROVE  Worth(w) \in Nat
<1> DEFINE f == [s \in Symbols |-> w[s] * LowestPrices[s]]
<1>1. ASSUME NEW s \in Symbols
      PROVE  f[s] \in Nat
  BY LowestPriceIs
<1>2. SumFunctionOnSet(f, Symbols) \in Nat
  <2> HIDE DEF f
  <2> QED
    BY <1>1, SumNat, SymbolsAssumption
<1> QED
  BY <1>2 DEF Worth, SumFunction

(* Products of a sum that is at most another.                              *)
LEMMA DearerProduct ==
  ASSUME NEW a \in Nat, NEW b \in Nat, NEW c \in Nat, NEW p \in Nat, a <= b + c
  PROVE  /\ a * p \in Int /\ b * p \in Int /\ c * p \in Int
         /\ a * p <= b * p + c * p /\ (b + c) * p = b * p + c * p
OBVIOUS

(* A book that grows in one symbol by no more than a quantity is worth no  *)
(* more than before and that quantity.                                     *)
LEMMA WorthGrows ==
  ASSUME NEW old \in [Symbols -> [Exchanges -> Int]], NEW k \in Symbols,
         NEW new \in [Exchanges -> Int], NEW w \in [Symbols -> Nat], NEW n \in Nat,
         Gross(new) <= Gross(old[k]) + n
  PROVE  Lowest([old EXCEPT ![k] = new]) - Lowest(old)
           <= Worth([w EXCEPT ![k] = @ + n]) - Worth(w)
<1> DEFINE f == [s \in Symbols |-> Gross(old[s]) * LowestPrices[s]]
           g == [s \in Symbols |-> Gross([old EXCEPT ![k] = new][s]) * LowestPrices[s]]
           u == [s \in Symbols |-> w[s] * LowestPrices[s]]
           v == [s \in Symbols |-> [w EXCEPT ![k] = @ + n][s] * LowestPrices[s]]
<1>1. ASSUME NEW s \in Symbols
      PROVE  f[s] \in Int /\ g[s] \in Int /\ u[s] \in Int /\ v[s] \in Int
  <2>1. [old EXCEPT ![k] = new] \in [Symbols -> [Exchanges -> Int]]
        /\ [w EXCEPT ![k] = @ + n] \in [Symbols -> Nat]
    OBVIOUS
  <2>2. /\ Gross(old[s]) \in Nat /\ Gross([old EXCEPT ![k] = new][s]) \in Nat
        /\ w[s] \in Nat /\ [w EXCEPT ![k] = @ + n][s] \in Nat
    BY <2>1, GrossIs
  <2> QED BY <2>2, LowestPriceIs, CheaperProduct
<1>2. \A s \in Symbols : s # k => f[s] = g[s] /\ u[s] = v[s]
  OBVIOUS
<1>3. g[k] - f[k] <= v[k] - u[k]
  <2>1. /\ f[k] = Gross(old[k]) * LowestPrices[k] /\ g[k] = Gross(new) * LowestPrices[k]
        /\ u[k] = w[k] * LowestPrices[k] /\ v[k] = (w[k] + n) * LowestPrices[k]
    OBVIOUS
  <2>2. /\ Gross(old[k]) \in Nat /\ Gross(new) \in Nat /\ LowestPrices[k] \in Nat
        /\ w[k] \in Nat
    BY GrossIs, LowestPriceIs
  <2>3. /\ n * LowestPrices[k] \in Int
        /\ g[k] <= f[k] + n * LowestPrices[k]
    BY <2>1, <2>2, DearerProduct
  <2>4. v[k] = u[k] + n * LowestPrices[k]
    BY <2>1, <2>2, DearerProduct
  <2> HIDE DEF f, g, u, v
  <2> QED BY <1>1, <2>3, <2>4
<1>4. /\ SumFunctionOnSet(g, Symbols) = SumFunctionOnSet(f, Symbols) + g[k] - f[k]
      /\ SumFunctionOnSet(v, Symbols) = SumFunctionOnSet(u, Symbols) + v[k] - u[k]
      /\ SumFunctionOnSet(f, Symbols) \in Int /\ SumFunctionOnSet(u, Symbols) \in Int
  <2> HIDE DEF f, g, u, v
  <2> QED BY <1>1, <1>2, SumChange, SumInt, SymbolsAssumption
<1>5. SumFunctionOnSet(g, Symbols) - SumFunctionOnSet(f, Symbols)
        <= SumFunctionOnSet(v, Symbols) - SumFunctionOnSet(u, Symbols)
  <2> HIDE DEF f, g, u, v
  <2> QED BY <1>1, <1>3, <1>4
<1> QED
  BY <1>5 DEF Lowest, Exposure, Worth, SumFunction

(* An empty book is worth nothing.                                         *)
LEMMA NothingHeld == Lowest(NoPosition) = 0
<1> DEFINE low == [s \in Symbols |-> Gross(NoPosition[s]) * LowestPrices[s]]
<1>1. ASSUME NEW s \in Symbols
      PROVE  low[s] = 0
  <2>1. NoPosition[s] \in [Exchanges -> Int] /\ NoPosition[s] = [e \in Exchanges |-> 0]
    BY DEF NoPosition
  <2>2. Gross(NoPosition[s]) = 0 /\ LowestPrices[s] \in Nat
    BY <2>1, GrossIs, LowestPriceIs
  <2> QED
    BY <2>2
<1>2. SumFunctionOnSet(low, Symbols) = 0
  <2> HIDE DEF low
  <2> QED
    BY <1>1, SumZero, SymbolsAssumption
<1> QED
  BY <1>2 DEF Lowest, Exposure, SumFunction

(* What the book is worth depends on the recorded positions alone.         *)
LEMMA SameBook ==
  ASSUME pos' = pos
  PROVE  /\ Lowest(pos)' = Lowest(pos)
         /\ \A q \in Requests : Lowest(After(q))' = Lowest(After(q))
BY DEF Lowest, Exposure, LowestPrices, After, Projected, Ordered

LEMMA SameWorth ==
  ASSUME waived' = waived
  PROVE  Worth(waived)' = Worth(waived)
BY DEF Worth, LowestPrices

(* A step that leaves the book alone and sends no request on its way.      *)
LEMMA ExposureKept ==
  ASSUME ExposureInv, pos' = pos, waived' = waived, crowd' = crowd,
         \A q \in Requests : OnItsWay(q)' => OnItsWay(q),
         \A q \in Requests : pc'[q] \in Holding => pc[q] \in Holding
  PROVE  ExposureInv'
BY SameBook, SameWorth DEF ExposureInv

(* The inductive form of SerialExposure.                                   *)
THEOREM ExposureCorrect == Spec => []ExposureInv
<1>1. Init => ExposureInv
  <2> SUFFICES ASSUME Init PROVE ExposureInv
    OBVIOUS
  <2>1. Lowest(pos) <= ExposureCap + Worth(waived)
    <3>1. waived \in [Symbols -> Nat] /\ Lowest(pos) = 0
      BY NothingHeld DEF Init
    <3> QED BY <3>1, WorthType, NumbersAssumption
  <2>2. \A r \in Requests : ~OnItsWay(r) /\ pc[r] \notin Holding
    BY DEF Init, OnItsWay, Approving, Holding, Tasks
  <2> QED BY <2>1, <2>2 DEF ExposureInv
<1>2. TypeOK /\ LockInv /\ MidsKnown /\ ExposureInv /\ [Next]_vars => ExposureInv'
  <2> SUFFICES ASSUME TypeOK, LockInv, MidsKnown, ExposureInv, [Next]_vars
               PROVE ExposureInv'
    OBVIOUS
  <2> USE DEF TypeOK, Tasks
  <2>1. ASSUME NEW r \in Requests, Submit(r) PROVE ExposureInv'
    BY <2>1, GotoMoves, ExposureKept DEF OnItsWay, Approving, Holding, Submit
  <2>2. ASSUME NEW r \in Requests, Unhealthy(r) PROVE ExposureInv'
    BY <2>2, GotoMoves, ExposureKept DEF OnItsWay, Approving, Holding, Unhealthy
  <2>3. ASSUME NEW r \in Requests, DecideReject(r) PROVE ExposureInv'
    <3>1. \A q \in Requests : Approving(q)' => Approving(q)
      BY <2>3, GotoMoves DEF DecideReject, Approving, RequestTypes
    <3> QED
      BY <2>3, <3>1, GotoMoves, ExposureKept DEF DecideReject, OnItsWay, Holding
  <2>4. ASSUME NEW r \in Requests, DecideAccept(r) PROVE ExposureInv'
    <3> SUFFICES ASSUME ~crowd PROVE ExposureInv'
      BY <2>4 DEF DecideAccept, ExposureInv
    <3>1. Goto(r, "audit") \/ Goto(r, "queue")
      BY <2>4 DEF DecideAccept, Grab
    <3>2. Lowest(pos) <= ExposureCap + Worth(waived)
      BY DEF ExposureInv
    <3>3. ~Batch[r].reduceOnly => Lowest(After(r)) <= ExposureCap
      BY <2>4, FittingExposure DEF DecideAccept
    <3>4. \A q \in Requests \ {r} : Approving(q)' => Approving(q)
      BY <2>4, <3>1, GotoMoves DEF DecideAccept, Grab, Approving, RequestTypes
    <3>5. pos' = pos /\ waived' = waived /\ crowd' = crowd
      BY <2>4 DEF DecideAccept
    <3>6. /\ Lowest(pos)' = Lowest(pos) /\ Worth(waived)' = Worth(waived)
          /\ \A q \in Requests : Lowest(After(q))' = Lowest(After(q))
      BY <3>5, SameBook, SameWorth
    <3>7. \A q \in Requests : pc'[q] \in Holding => pc[q] \in Holding
      BY <3>1, GotoMoves DEF Holding
    <3> QED
      BY <3>2, <3>3, <3>4, <3>6, <3>7 DEF ExposureInv, OnItsWay
  <2>5. ASSUME NEW r \in Requests, QueueWake(r) PROVE ExposureInv'
    <3>1. Goto(r, "audit") \/ Goto(r, "queue")
      BY <2>5 DEF QueueWake, Grab
    <3>2. Approving(r)
      BY <2>5 DEF QueueWake, Approving
    <3>3. \A q \in Requests \ {r} : Approving(q)' => Approving(q)
      BY <2>5, <3>1, GotoMoves DEF QueueWake, Grab, Approving, RequestTypes
    <3> QED
      BY <2>5, <3>1, <3>2, <3>3, GotoMoves, ExposureKept DEF QueueWake, OnItsWay, Holding
  <2>6. ASSUME NEW r \in Requests, QueueTimeout(r) PROVE ExposureInv'
    <3>1. \A q \in Requests : Approving(q)' => Approving(q)
      BY <2>6, GotoMoves DEF QueueTimeout, Approving, RequestTypes
    <3> QED
      BY <2>6, <3>1, GotoMoves, ExposureKept DEF QueueTimeout, OnItsWay, Holding
  <2>7. ASSUME NEW r \in Requests, AuditDone(r) PROVE ExposureInv'
    <3>1. CASE decision[r] = "approve"
      <4>1. Approving(r) /\ pc'[r] = "approved" /\ \A u \in Tasks \ {r} : pc'[u] = pc[u]
        BY <2>7, <3>1, GotoMoves DEF AuditDone, Approving
      <4>2. ~crowd' => ~crowd /\ \A q \in Requests : pc[q] \notin Holding
        BY <2>7, <3>1, BatchTyped DEF AuditDone, Outstanding
      <4>3. pos' = pos /\ waived' = waived /\ decision' = decision
        BY <2>7 DEF AuditDone
      <4>4. /\ Lowest(pos)' = Lowest(pos) /\ Worth(waived)' = Worth(waived)
            /\ \A q \in Requests : Lowest(After(q))' = Lowest(After(q))
        BY <4>3, SameBook, SameWorth
      <4>5. \A q \in Requests : OnItsWay(q)' => OnItsWay(q)
        BY <4>1, <4>3 DEF OnItsWay, Approving
      <4> QED
        BY <4>1, <4>2, <4>4, <4>5 DEF ExposureInv
    <3>2. CASE decision[r] # "approve"
      BY <2>7, <3>2, GotoMoves, ExposureKept DEF AuditDone, OnItsWay, Approving, Holding
    <3> QED BY <3>1, <3>2
  <2>8. ASSUME NEW r \in Requests, Execute(r) PROVE ExposureInv'
    BY <2>8, GotoMoves, ExposureKept DEF OnItsWay, Approving, Holding, Execute
  <2>9. ASSUME NEW r \in Requests, Executed(r) PROVE ExposureInv'
    <3>1. Goto(r, "succeeded") \/ Goto(r, "failed")
      BY <2>9 DEF Executed
    <3> QED
      BY <2>9, <3>1, GotoMoves, ExposureKept DEF Executed, OnItsWay, Approving, Holding
  <2>10. ASSUME NEW r \in Requests, EvalLock(r) PROVE ExposureInv'
    BY <2>10, GotoMoves, ExposureKept DEF OnItsWay, Approving, Holding, EvalLock
  <2>11. ASSUME NEW r \in Requests, RecordSuccess(r) PROVE ExposureInv'
    <3> SUFFICES ASSUME ~crowd PROVE ExposureInv'
      BY <2>11 DEF RecordSuccess, ExposureInv
    <3>1. /\ pc[r] \in Holding /\ pc'[r] = "done"
          /\ \A u \in Tasks \ {r} : pc'[u] = pc[u]
          /\ decision' = decision
      BY <2>11, GotoMoves DEF RecordSuccess, Holding
    <3>2. \A q \in Requests : ~Approving(q)
      BY <2>11, TasksAssumption DEF RecordSuccess, LockInv, Critical, Approving
    <3>3. \A q \in Requests : ~OnItsWay(q)' /\ pc'[q] \notin Holding
      BY <3>1, <3>2 DEF ExposureInv, OnItsWay, Approving, Holding
    <3>4. pos' = After(r)
      BY <2>11 DEF RecordSuccess, After
    <3>5. Lowest(pos)' = Lowest(After(r))
      BY <3>4 DEF Lowest, Exposure, LowestPrices
    <3>6. /\ waived' = [waived EXCEPT ![Batch[r].symbol] = @ + Waives(Batch[r])]
          /\ waived' \in [Symbols -> Nat] /\ Worth(waived)' = Worth(waived')
      <4>1. Waives(Batch[r]) \in Nat
        BY OrderedType
      <4>2. waived' = [waived EXCEPT ![Batch[r].symbol] = @ + Waives(Batch[r])]
        BY <2>11 DEF RecordSuccess
      <4>3. waived' \in [Symbols -> Nat]
        <5>1. waived \in [Symbols -> Nat]
          BY DEF NumberTypes
        <5> QED BY <4>1, <4>2, <5>1, BatchTyped, WaivedType
      <4>4. Worth(waived)' = Worth(waived')
        BY DEF Worth, LowestPrices
      <4> QED BY <4>2, <4>3, <4>4
    <3>7. /\ Projected(Batch[r], Exchanges) \in [Exchanges -> Int]
          /\ Batch[r].symbol \in Symbols
      BY ProjectedType, BatchTyped
    <3>8. /\ After(r) \in [Symbols -> [Exchanges -> Int]]
          /\ pos \in [Symbols -> [Exchanges -> Int]] /\ waived \in [Symbols -> Nat]
      BY <3>7 DEF After, NumberTypes
    <3>9. /\ Lowest(After(r)) \in Int /\ Lowest(pos) \in Int
          /\ Worth(waived) \in Nat /\ Worth(waived') \in Nat /\ ExposureCap \in Nat
      BY <3>6, <3>8, LowestType, WorthType, NumbersAssumption
    <3>10. Lowest(After(r)) <= ExposureCap + Worth(waived')
      <4>1. CASE Batch[r].reduceOnly
        <5>1. Lowest(pos) <= ExposureCap + Worth(waived)
          BY DEF ExposureInv
        <5>2. Waives(Batch[r]) \in Nat
          BY OrderedType
        <5>3. Lowest(After(r)) - Lowest(pos) <= Worth(waived') - Worth(waived)
          BY <3>6, <3>7, <3>8, <4>1, <5>2, WaivingBatch, WorthGrows DEF After
        <5> QED BY <3>9, <5>1, <5>3
      <4>2. CASE ~Batch[r].reduceOnly
        <5>1. Lowest(After(r)) <= ExposureCap
          BY <3>1, <4>2 DEF ExposureInv, OnItsWay
        <5> QED BY <3>9, <5>1
      <4> QED BY <4>1, <4>2
    <3> QED
      BY <3>3, <3>5, <3>6, <3>10 DEF ExposureInv
  <2>12. ASSUME NEW r \in Requests, RecordFailure(r) PROVE ExposureInv'
    <3>1. Goto(r, "done") \/ Goto(r, "recordKill") \/ Goto(r, "recordLast")
      BY <2>12 DEF RecordFailure
    <3> QED
      BY <2>12, <3>1, GotoMoves, ExposureKept
      DEF RecordFailure, OnItsWay, Approving, Holding
  <2>13. ASSUME NEW a \in Admins, KillLock(a) PROVE ExposureInv'
    BY <2>13, GotoMoves, ExposureKept DEF OnItsWay, Approving, Holding, KillLock
  <2>14. ASSUME NEW a \in Admins, ResetLock(a) PROVE ExposureInv'
    BY <2>14, GotoMoves, ExposureKept DEF OnItsWay, Approving, Holding, ResetLock
  <2>15. ASSUME NEW a \in Admins, NEW op \in {"killWait", "resetWait"}, Ask(a, op)
        PROVE  ExposureInv'
    BY <2>15, GotoMoves, ExposureKept DEF OnItsWay, Approving, Holding, Ask
  <2>16. ASSUME NEW t \in Tasks, KillPersisted(t) PROVE ExposureInv'
    <3>1. /\ pc'[t] \in {"checked", "done", "idle"}
          /\ \A u \in Tasks \ {t} : pc'[u] = pc[u]
      BY <2>16, GotoMoves, LeaveWrite DEF KillPersisted, KillWrites
    <3> QED
      BY <2>16, <3>1, ExposureKept DEF KillPersisted, OnItsWay, Approving, Holding
  <2>17. ASSUME NEW t \in Tasks, ResetPersisted(t) PROVE ExposureInv'
    <3>1. pc'[t] = "idle" /\ \A u \in Tasks \ {t} : pc'[u] = pc[u]
      BY <2>17, GotoMoves, LeaveWrite DEF ResetPersisted
    <3> QED
      BY <2>17, <3>1, ExposureKept DEF ResetPersisted, OnItsWay, Approving, Holding
  <2>18. ASSUME NEW t \in Tasks, WriteFails(t) PROVE ExposureInv'
    <3>1. Goto(t, "done") \/ Goto(t, "idle") \/ Goto(t, "failedAgain")
      BY <2>18 DEF WriteFails, AfterRaise
    <3> QED
      BY <2>18, <3>1, GotoMoves, ExposureKept
      DEF WriteFails, OnItsWay, Approving, Holding
  <2>19. CASE Environment
    BY <2>19, ExposureKept
    DEF OnItsWay, Approving, Environment, LegacyFlip, DryRunFlip, Tick, Expire
  <2>20. CASE Restart
    <3>1. \A r \in Requests : pc'[r] \in {"done", "idle"}
      BY <2>20 DEF Restart
    <3>2. pos' = NoPosition
      BY <2>20 DEF Restart
    <3>3. Lowest(pos)' = Lowest(NoPosition)
      BY <3>2 DEF Lowest, Exposure, LowestPrices
    <3>4. waived' \in [Symbols -> Nat] /\ Worth(waived)' = Worth(waived')
      BY <2>20 DEF Restart, Worth, LowestPrices
    <3>5. Lowest(pos)' <= ExposureCap + Worth(waived)'
      BY <3>3, <3>4, NothingHeld, WorthType, NumbersAssumption
    <3> QED
      BY <3>1, <3>5 DEF ExposureInv, OnItsWay, Approving, Holding
  <2>21. CASE UNCHANGED vars
    BY <2>21, ExposureKept DEF OnItsWay, Approving, vars
  <2> QED
    BY <2>1, <2>2, <2>3, <2>4, <2>5, <2>6, <2>7, <2>8, <2>9, <2>10, <2>11,
      <2>12, <2>13, <2>14, <2>15, <2>16, <2>17, <2>18, <2>19, <2>20, <2>21
    DEF Next, RequestRuns, RequestLocks, AdminLocks, Write
<1> QED
  BY <1>1, <1>2, TypeCorrect, LockCorrect, MidsAreKnown, PTL DEF Spec

(* If requests are never approved while another is outstanding, the        *)
(* recorded book, at the lowest prices of its symbols, exceeds the cap by  *)
(* no more than what reduce-only requests have recorded is worth, whatever *)
(* prices the checks used.                                                 *)
THEOREM SerialExposureHolds == Spec => []SerialExposure
<1>1. ExposureInv => SerialExposure
  BY DEF ExposureInv, SerialExposure, Lowest, Worth, WaivedExposure
<1> QED BY <1>1, ExposureCorrect, PTL

-----------------------------------------------------------------------------
(***************************************************************************)
(* The end of a request.                                                   *)
(***************************************************************************)

(* Steps a request can still take; asleep in the rate queue it can take    *)
(* one for Bybit's window and one for Lighter's.                           *)
AtPlace ==
  [idle |-> 14, evalWait |-> 13, check |-> 12, checkKill |-> 11, checked |-> 10,
   audit |-> 7, approved |-> 6, executing |-> 5, failed |-> 4, recordKill |-> 3,
   failedAgain |-> 2, succeeded |-> 1, recordLast |-> 1, done |-> 0]
StepsLeft(r) ==
  IF pc[r] = "queue" THEN IF "bybit" \in todo[r] THEN 9 ELSE 8 ELSE AtPlace[pc[r]]

Acts(r) == Submit(r) \/ RequestRuns(r) \/ RequestLocks(r) \/ Write(r)

LEMMA PlacesLeft ==
  /\ AtPlace["idle"] = 14 /\ AtPlace["evalWait"] = 13 /\ AtPlace["check"] = 12
  /\ AtPlace["checkKill"] = 11 /\ AtPlace["checked"] = 10 /\ AtPlace["audit"] = 7
  /\ AtPlace["approved"] = 6 /\ AtPlace["executing"] = 5 /\ AtPlace["failed"] = 4
  /\ AtPlace["recordKill"] = 3 /\ AtPlace["failedAgain"] = 2
  /\ AtPlace["succeeded"] = 1 /\ AtPlace["recordLast"] = 1 /\ AtPlace["done"] = 0
BY DEF AtPlace

LEMMA StepsBounded ==
  ASSUME PlaceTypes, NEW r \in Requests
  PROVE  StepsLeft(r) \in 0 .. 14
<1>1. pc[r] \in RequestPlaces
  BY DEF PlaceTypes
<1> QED BY <1>1, PlacesLeft DEF StepsLeft, RequestPlaces, Holding

(* A request that is where it was, with the same legs to wait for, has as  *)
(* many steps left.                                                        *)
LEMMA SameSteps ==
  ASSUME NEW r \in Requests, pc'[r] = pc[r], todo'[r] = todo[r]
  PROVE  StepsLeft(r)' = StepsLeft(r)
BY DEF StepsLeft

LEMMA GrabShrinks ==
  ASSUME TypeOK, NEW r \in Requests, NEW want \in SUBSET Exchanges, Grab(r, want)
  PROVE  /\ pc'[r] \in {"queue", "audit"}
         /\ pc'[r] = "queue" /\ Free("bybit") => "bybit" \notin todo'[r]
         /\ pc'[r] = "queue" /\ "bybit" \notin want => ~Free("lighter")
         /\ todo'[r] \subseteq want
<1>1. /\ pc' = [pc EXCEPT ![r] = IF want = Granted(want) THEN "audit" ELSE "queue"]
      /\ todo' = [todo EXCEPT ![r] = want \ Granted(want)]
  BY DEF Grab, Goto
<1>2. pc'[r] = (IF want = Granted(want) THEN "audit" ELSE "queue")
      /\ todo'[r] = want \ Granted(want)
  BY <1>1 DEF TypeOK, PlaceTypes, RequestTypes, Tasks
<1> QED BY <1>2 DEF Granted, Exchanges

LEMMA ActsShrink ==
  ASSUME TypeOK, NEW r \in Requests, Acts(r)
  PROVE  StepsLeft(r)' < StepsLeft(r)
<1> USE PlacesLeft DEF StepsLeft
<1>t. r \in Tasks /\ r \notin Admins /\ PlaceTypes /\ pc[r] \in RequestPlaces
  BY TasksAssumption DEF Tasks, TypeOK, PlaceTypes
<1>g. ASSUME NEW l, Goto(r, l) PROVE pc'[r] = l
  BY <1>g, <1>t, GotoMoves
<1>1. CASE Submit(r) \/ EvalLock(r) \/ Unhealthy(r)
  BY <1>1, <1>g DEF Submit, EvalLock, Unhealthy
<1>2. CASE DecideReject(r) \/ QueueTimeout(r)
  BY <1>2, <1>g DEF DecideReject, QueueTimeout
<1>3. CASE DecideAccept(r)
  <2>1. pc[r] \in {"check", "checked"} /\ Batch[r].legs \in SUBSET Exchanges
    BY <1>3, BatchAssumption DEF DecideAccept, BatchType
  <2>2. pc'[r] \in {"queue", "audit"}
    <3>1. CASE dryRun
      BY <1>3, <3>1, <1>g DEF DecideAccept
    <3>2. CASE ~dryRun
      BY <1>3, <2>1, <3>2, GrabShrinks DEF DecideAccept
    <3> QED BY <3>1, <3>2
  <2> QED BY <2>1, <2>2
<1>4. CASE QueueWake(r)
  <2>1. todo[r] \in SUBSET Exchanges
    BY DEF TypeOK, RequestTypes
  <2>2. CASE "bybit" \in todo[r]
    <3>1. Free("bybit") /\ pc[r] = "queue" /\ Grab(r, todo[r])
      BY <1>4, <2>2 DEF QueueWake, QueueHead
    <3> QED BY <2>1, <2>2, <3>1, GrabShrinks
  <2>3. CASE "bybit" \notin todo[r]
    <3>1. Free("lighter") /\ pc[r] = "queue" /\ Grab(r, todo[r])
      BY <1>4, <2>3 DEF QueueWake, QueueHead
    <3> QED BY <2>1, <2>3, <3>1, GrabShrinks
  <2> QED BY <2>2, <2>3
<1>5. CASE AuditDone(r)
  BY <1>5, <1>g DEF AuditDone
<1>6. CASE Execute(r) \/ Executed(r)
  BY <1>6, <1>g DEF Execute, Executed
<1>7. CASE RecordSuccess(r)
  BY <1>7, <1>g DEF RecordSuccess
<1>8. CASE RecordFailure(r)
  BY <1>8, <1>g DEF RecordFailure
<1>9. CASE KillPersisted(r)
  BY <1>9, <1>g, <1>t, LeaveWrite DEF KillPersisted, KillWrites, RequestPlaces, Holding
<1>10. CASE ResetPersisted(r)
  BY <1>10, <1>t DEF ResetPersisted, RequestPlaces, Holding
<1>11. CASE WriteFails(r)
  BY <1>11, <1>g, <1>t DEF WriteFails, AfterRaise, KillWrites, RequestPlaces, Holding
<1> QED
  BY <1>1, <1>2, <1>3, <1>4, <1>5, <1>6, <1>7, <1>8, <1>9, <1>10, <1>11
  DEF Acts, RequestRuns, RequestLocks, Write

(* What another task does, a write that fails or a restart included, does  *)
(* not take a request back.                                                *)
LEMMA OthersKeep ==
  ASSUME TypeOK, NEW r \in Requests, [Next]_vars, ~Acts(r)
  PROVE  StepsLeft(r)' <= StepsLeft(r)
<1>a. StepsLeft(r) \in 0 .. 14
  BY StepsBounded DEF TypeOK
<1>b. ASSUME pc'[r] = pc[r], todo'[r] = todo[r]
      PROVE  StepsLeft(r)' <= StepsLeft(r)
  BY <1>a, <1>b, SameSteps
<1>c. ASSUME NEW t \in Tasks \ {r}, NEW l, Goto(t, l) PROVE pc'[r] = pc[r]
  BY <1>c, GotoMoves DEF TypeOK, Tasks
<1>1. ASSUME NEW q \in Requests, Submit(q) \/ RequestRuns(q) \/ RequestLocks(q)
      PROVE  StepsLeft(r)' <= StepsLeft(r)
  <2>1. q # r /\ q \in Tasks
    BY <1>1 DEF Acts, Tasks
  <2>2. ASSUME NEW want, Grab(q, want)
        PROVE  pc'[r] = pc[r] /\ todo'[r] = todo[r]
    <3>1. \E l : Goto(q, l)
      BY <2>2 DEF Grab
    <3>2. todo' = [todo EXCEPT ![q] = want \ Granted(want)]
      BY <2>2 DEF Grab
    <3> QED BY <1>c, <2>1, <3>1, <3>2 DEF TypeOK, RequestTypes
  <2>3. CASE DecideAccept(q) \/ QueueWake(q)
    BY <1>b, <1>c, <2>1, <2>2, <2>3 DEF DecideAccept, QueueWake
  <2>4. CASE Submit(q) \/ EvalLock(q) \/ Unhealthy(q) \/ DecideReject(q) \/ QueueTimeout(q)
    BY <1>b, <1>c, <2>1, <2>4 DEF Submit, EvalLock, Unhealthy, DecideReject, QueueTimeout
  <2>5. CASE AuditDone(q) \/ Execute(q) \/ Executed(q)
    BY <1>b, <1>c, <2>1, <2>5 DEF AuditDone, Execute, Executed
  <2>6. CASE RecordSuccess(q) \/ RecordFailure(q)
    BY <1>b, <1>c, <2>1, <2>6 DEF RecordSuccess, RecordFailure
  <2> QED BY <1>1, <2>3, <2>4, <2>5, <2>6 DEF RequestRuns, RequestLocks
<1>2. ASSUME NEW a \in Admins, Ask(a, "killWait") \/ Ask(a, "resetWait") \/ AdminLocks(a)
      PROVE  StepsLeft(r)' <= StepsLeft(r)
  <2>1. a \in Tasks \ {r}
    BY TasksAssumption DEF Tasks
  <2> QED BY <1>2, <1>b, <1>c, <2>1 DEF Ask, AdminLocks, KillLock, ResetLock
<1>3. ASSUME NEW t \in Tasks, Write(t)
      PROVE  StepsLeft(r)' <= StepsLeft(r)
  <2>1. t # r
    BY <1>3 DEF Acts
  <2> QED BY <1>3, <1>b, <1>c, <2>1 DEF Write, KillPersisted, ResetPersisted, WriteFails
<1>4. CASE Environment
  BY <1>4, <1>b DEF Environment, LegacyFlip, DryRunFlip, Tick, Expire
<1>5. CASE Restart
  <2>1. pc'[r] = (IF pc[r] # "idle" THEN "done" ELSE "idle")
    BY <1>5 DEF Restart, Tasks
  <2> QED BY <1>a, <2>1, PlacesLeft DEF StepsLeft
<1>6. CASE UNCHANGED vars
  BY <1>6, <1>b DEF vars
<1> QED BY <1>1, <1>2, <1>3, <1>4, <1>5, <1>6 DEF Next

(* Every step of a request brings its end nearer, and nothing else puts it *)
(* off: not another request or an operator, a failed write or a restart.   *)
(* It takes at most fourteen, and no request is approved twice.            *)
EveryStepCounts ==
  /\ [](\A r \in Requests : StepsLeft(r) \in 0 .. 14)
  /\ [][\A r \in Requests :
          /\ StepsLeft(r)' <= StepsLeft(r)
          /\ Acts(r) => StepsLeft(r)' < StepsLeft(r)]_vars
THEOREM RequestsRunOut == Spec => EveryStepCounts
<1>1. TypeOK => \A r \in Requests : StepsLeft(r) \in 0 .. 14
  BY StepsBounded DEF TypeOK
<1>2. (TypeOK => \A r \in Requests : StepsLeft(r) \in 0 .. 14)'
  BY <1>1, PTL
<1>3. TypeOK /\ TypeOK' /\ [Next]_vars =>
        \A r \in Requests :
          /\ StepsLeft(r)' <= StepsLeft(r)
          /\ Acts(r) => StepsLeft(r)' < StepsLeft(r)
  <2> SUFFICES ASSUME TypeOK, TypeOK', [Next]_vars, NEW r \in Requests
               PROVE  /\ StepsLeft(r)' <= StepsLeft(r)
                      /\ Acts(r) => StepsLeft(r)' < StepsLeft(r)
    OBVIOUS
  <2>1. StepsLeft(r) \in 0 .. 14
    BY <1>1
  <2>2. StepsLeft(r)' \in 0 .. 14
    BY <1>2
  <2> QED BY <2>1, <2>2, ActsShrink, OthersKeep
<1> QED BY <1>1, <1>3, TypeCorrect, PTL DEF Spec, EveryStepCounts

=============================================================================
