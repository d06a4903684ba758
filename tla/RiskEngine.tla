----------------------------- MODULE RiskEngine -----------------------------
(***************************************************************************)
(* The pre-trade risk engine of backend/app/risk: the kill switch (memory  *)
(* and its SQLite row), the risk breaker's cooldown, the legacy breaker,   *)
(* the order rate window and its queue, the position projections, and the  *)
(* API requests that go through it.                                        *)
(*                                                                         *)
(* The program is one asyncio loop: a step of this model is what one task  *)
(* runs between two suspension points.  The engine's asyncio.Lock is the   *)
(* variable lock; it is held across the two awaits that matter, the write  *)
(* of the kill-switch row and the wait for a slot of the rate window.      *)
(*                                                                         *)
(* Left out, because no decision reads it: reasons, timestamps, the        *)
(* breaker's reported "tripped" flag, the audit rows.                      *)
(***************************************************************************)
EXTENDS Integers, FiniteSetsExt, Functions

CONSTANTS
  Requests,          \* tasks of POST /execute, /execute/close_all, ...
  Admins,            \* tasks that activate or reset the kill switch
  NoTask,            \* the engine lock is free
  Symbols,
  Batch,             \* [Requests -> batch]: the orders of each request
  Mids,              \* [Symbols -> set of mids]: what an exchange's tick can show
  Limit,             \* max_position_per_symbol
  ExposureCap,       \* max_notional_exposure_usd
  MaxRate,           \* max_order_rate_per_minute
  FailureThreshold,  \* kill_switch_consecutive_failures
  Cooldown,          \* cooldown_minutes, in ticks of the model's clock
  BootDryRun         \* risk_dry_run_enabled of the settings

Tasks == Requests \cup Admins
Exchanges == {"bybit", "lighter"}

(***************************************************************************)
(* The orders of a request: at most one per exchange, all of one symbol.   *)
(* qty holds the signed quantities (OrderRequest.signed_qty): none in the  *)
(* reduce-only batches of POST /execute/close_all, the whole quantity in   *)
(* those of POST /execute/iceberg.                                         *)
(***************************************************************************)
BatchType ==
  [symbol : Symbols, legs : SUBSET Exchanges, qty : [Exchanges -> Int],
   reduceOnly : BOOLEAN]

ASSUME TasksAssumption == Requests \cap Admins = {} /\ NoTask \notin Tasks
ASSUME SymbolsAssumption == IsFiniteSet(Symbols)
ASSUME BatchAssumption ==
  /\ Batch \in [Requests -> BatchType]
  /\ \A r \in Requests : Batch[r].legs # {}
ASSUME NumbersAssumption ==
  /\ Mids \in [Symbols -> SUBSET (Nat \ {0})]
  /\ \A s \in Symbols : Mids[s] # {}
  /\ Limit \in Nat /\ ExposureCap \in Nat /\ Cooldown \in Nat
  /\ MaxRate \in Nat \ {0} /\ FailureThreshold \in Nat \ {0}
  /\ BootDryRun \in BOOLEAN

VARIABLES
  killActive,  \* KillSwitch.active
  killDb,      \* the row of risk_kill_switch_state
  cooldown,    \* ticks until RiskCircuitBreaker.cooldown_until_ts
  legacy,      \* services.circuit_breaker.tripped
  dryRun,      \* config.dry_run_enabled
  failures,    \* _consecutive_failures
  lock,        \* holder of RiskEngine._lock
  used,        \* events of each exchange's 60 s window
  pos,         \* PositionTracker._positions
  mids,        \* _reference_mids, 0 when the symbol has none
  pc,          \* where each task is
  decision,    \* what evaluate_orders returns to each request
  todo,        \* the legs of a request still without a rate slot
  dbFailed,    \* history: a write of the kill-switch row has failed
  waived,      \* history: what reduce-only requests have recorded of a symbol
  overlap,     \* history: two approved requests of a symbol were outstanding
  crowd        \* history: two approved requests were outstanding

vars == <<killActive, killDb, cooldown, legacy, dryRun, failures, lock, used,
          pos, mids, pc, decision, todo, dbFailed, waived, overlap, crowd>>

switchVars == <<killActive, killDb, cooldown, dbFailed>>
bookVars == <<pos, mids, waived, overlap, crowd>>

NoPosition == [s \in Symbols |-> [e \in Exchanges |-> 0]]
NoEvents == [e \in Exchanges |-> 0]

Init ==
  /\ killActive = FALSE /\ killDb = FALSE
  /\ cooldown = 0 /\ legacy = FALSE
  /\ dryRun = BootDryRun
  /\ failures = 0
  /\ lock = NoTask
  /\ used = NoEvents
  /\ pos = NoPosition /\ mids = [s \in Symbols |-> 0]
  /\ pc = [t \in Tasks |-> "idle"]
  /\ decision = [r \in Requests |-> "none"]
  /\ todo = [r \in Requests |-> {}]
  /\ dbFailed = FALSE /\ overlap = FALSE /\ crowd = FALSE
  /\ waived = [s \in Symbols |-> 0]

Goto(t, l) == pc' = [pc EXCEPT ![t] = l]

-----------------------------------------------------------------------------
(* Projections: PositionTracker, NotionalCalculator and _validate_batch.   *)

Magnitude(n) == IF n < 0 THEN -n ELSE n

(* Gross position of one symbol's book p over the exchanges.               *)
Gross(p) == Magnitude(p["bybit"]) + Magnitude(p["lighter"])

(* The orders of b for the exchanges in legs, and the book of its symbol   *)
(* after them.                                                             *)
Ordered(b, legs) ==
  [e \in Exchanges |-> IF e \in legs \cap b.legs THEN b.qty[e] ELSE 0]
Projected(b, legs) ==
  [e \in Exchanges |-> pos[b.symbol][e] + Ordered(b, legs)[e]]

(* What b adds to the recorded position without a look at the limits.      *)
Waives(b) == IF b.reduceOnly THEN Gross(Ordered(b, Exchanges)) ELSE 0

(* A symbol without a reference mid counts for nothing.                    *)
Exposure(book, mid) == SumFunction([s \in Symbols |-> Gross(book[s]) * mid[s]])

(* One turn of the loop of _validate_batch, the orders in legs applied and *)
(* m the mid of the last of them: a reduce-only order passes both limits.  *)
LegFits(b, legs, m) ==
  LET p == Projected(b, legs)
  IN  b.reduceOnly
      \/ /\ Gross(p) <= Limit
         /\ Exposure([pos EXCEPT ![b.symbol] = p], [mids EXCEPT ![b.symbol] = m])
              <= ExposureCap

(* Every prefix of the batch fits, bybit's order first.                    *)
BatchFits(b, mid) ==
  /\ "bybit" \in b.legs => LegFits(b, {"bybit"}, mid["bybit"])
  /\ "lighter" \in b.legs => LegFits(b, Exchanges, mid["lighter"])

(* Variant of LastMid: the batch leaves _reference_mids as it was.         *)
LastMidForgotten(b, mid) == mids[b.symbol]

(* The mid the last order of the batch leaves in _reference_mids.          *)
LastMid(b, mid) == IF "lighter" \in b.legs THEN mid["lighter"] ELSE mid["bybit"]

(* Requests of symbol s approved and not yet recorded.                     *)
Holding == {"approved", "executing", "succeeded", "failed"}
Outstanding(s) == {r \in Requests : pc[r] \in Holding /\ Batch[r].symbol = s}

-----------------------------------------------------------------------------
(* evaluate_orders, by request r.                                          *)

Submit(r) ==
  /\ pc[r] = "idle"
  /\ Goto(r, "evalWait")
  /\ UNCHANGED <<switchVars, bookVars, legacy, dryRun, failures, lock, used,
                 decision, todo>>

EvalLock(r) ==
  /\ pc[r] = "evalWait" /\ lock = NoTask
  /\ lock' = r
  /\ Goto(r, "check")
  /\ UNCHANGED <<switchVars, bookVars, legacy, dryRun, failures, used,
                 decision, todo>>

(* _check_feed_health_unlocked or _check_spread_inversion_unlocked finds a *)
(* stale feed or a lasting inversion: the switch is set in memory, and the *)
(* task suspends in the write of the row.                                  *)
Unhealthy(r) ==
  /\ pc[r] = "check"
  /\ killActive' = TRUE
  /\ Goto(r, "checkKill")
  /\ UNCHANGED <<killDb, cooldown, dbFailed, bookVars, legacy, dryRun, failures,
                 lock, used, decision, todo>>

(* _global_reject_reason, after the legacy breaker has re-tripped the risk *)
(* breaker.                                                                *)
Blocked == killActive \/ legacy \/ cooldown > 0

LegacyRetrip == cooldown' = IF legacy THEN Cooldown ELSE cooldown

(* OrderRateLimiter.acquire for the legs in want, one after the other: a   *)
(* leg gets its slot unless it or one before it finds its window full.     *)
Free(e) == used[e] < MaxRate
Granted(want) ==
  {e \in want : Free(e) /\ ("bybit" \in want => Free("bybit"))}

Grab(r, want) ==
  LET got == Granted(want)
  IN  /\ used' = [e \in Exchanges |-> IF e \in got THEN used[e] + 1 ELSE used[e]]
      /\ todo' = [todo EXCEPT ![r] = want \ got]
      /\ IF want = got
           THEN /\ decision' = [decision EXCEPT ![r] = "approve"]
                /\ Goto(r, "audit")
           ELSE /\ Goto(r, "queue")
                /\ UNCHANGED decision

(* usable: the price validator finds a fresh two-sided tick on each leg's  *)
(* exchange and the order's price within the band of its mid.              *)
DecideReject(r) ==
  /\ pc[r] \in {"check", "checked"}
  /\ \E usable \in BOOLEAN, mid \in [Exchanges -> Mids[Batch[r].symbol]] :
       Blocked \/ ~usable \/ ~BatchFits(Batch[r], mid)
  /\ LegacyRetrip
  /\ decision' = [decision EXCEPT ![r] = "reject"]
  /\ Goto(r, "audit")
  /\ UNCHANGED <<killActive, killDb, dbFailed, bookVars, legacy, dryRun, failures,
                 lock, used, todo>>

DecideAccept(r) ==
  /\ pc[r] \in {"check", "checked"}
  /\ ~Blocked
  /\ \E mid \in [Exchanges -> Mids[Batch[r].symbol]] :
       /\ BatchFits(Batch[r], mid)
       /\ mids' = [mids EXCEPT ![Batch[r].symbol] = LastMid(Batch[r], mid)]
  /\ IF dryRun
       THEN /\ decision' = [decision EXCEPT ![r] = "simulate"]
            /\ Goto(r, "audit")
            /\ UNCHANGED <<used, todo>>
       ELSE Grab(r, Batch[r].legs)
  /\ UNCHANGED <<switchVars, legacy, dryRun, failures, lock, pos, waived, overlap,
                 crowd>>

(* The queue of the rate window: the task sleeps, engine lock held, until  *)
(* the window of the next leg has room or its deadline passes.  The        *)
(* discard event is set and cleared within one step of a task that holds   *)
(* the engine lock, so no sleeping task ever sees it.                      *)
QueueHead(r) == IF "bybit" \in todo[r] THEN "bybit" ELSE "lighter"

QueueWake(r) ==
  /\ pc[r] = "queue" /\ Free(QueueHead(r))
  /\ Grab(r, todo[r])
  /\ UNCHANGED <<switchVars, bookVars, legacy, dryRun, failures, lock>>

(* Variant of QueueTimeout: the deadline is never looked at.               *)
QueueNoTimeout(r) ==
  /\ pc[r] = "queue" /\ ~Free(QueueHead(r))
  /\ UNCHANGED vars

QueueTimeout(r) ==
  /\ pc[r] = "queue" /\ ~Free(QueueHead(r))
  /\ decision' = [decision EXCEPT ![r] = "reject"]
  /\ Goto(r, "audit")
  /\ UNCHANGED <<switchVars, bookVars, legacy, dryRun, failures, lock, used, todo>>

(* _decide_all has awaited the audit write, whose failure it swallows;     *)
(* evaluate_orders returns and frees the lock.  _guard_orders and the      *)
(* handler stop a rejected or simulated request here.                      *)
AuditDone(r) ==
  /\ pc[r] = "audit"
  /\ lock' = NoTask
  /\ IF decision[r] = "approve"
       THEN /\ Goto(r, "approved")
            /\ overlap' = (overlap \/ Outstanding(Batch[r].symbol) # {})
            /\ crowd' = (crowd \/ \E s \in Symbols : Outstanding(s) # {})
       ELSE /\ Goto(r, "done")
            /\ UNCHANGED <<overlap, crowd>>
  /\ UNCHANGED <<switchVars, legacy, dryRun, failures, used, pos, mids, waived,
                 decision, todo>>

-----------------------------------------------------------------------------
(* The handler submits the orders, and records the result.                 *)

(* Variant of Execute: the projection is recorded when the orders go out,  *)
(* and again with their result.                                            *)
ExecuteRecorded(r) ==
  /\ pc[r] = "approved"
  /\ pos' = [pos EXCEPT ![Batch[r].symbol] = Projected(Batch[r], Exchanges)]
  /\ Goto(r, "executing")
  /\ UNCHANGED <<switchVars, mids, waived, overlap, crowd, legacy, dryRun, failures,
                 lock, used, decision, todo>>

Execute(r) ==
  /\ pc[r] = "approved"
  /\ Goto(r, "executing")
  /\ UNCHANGED <<switchVars, bookVars, legacy, dryRun, failures, lock, used,
                 decision, todo>>

Executed(r) ==
  /\ pc[r] = "executing"
  /\ \E outcome \in {"succeeded", "failed"} : Goto(r, outcome)
  /\ UNCHANGED <<switchVars, bookVars, legacy, dryRun, failures, lock, used,
                 decision, todo>>

(* record_execution_result(success=True): no await under the lock.  Every  *)
(* order counts in full, a reduce-only one that executed nothing included. *)
RecordSuccess(r) ==
  /\ pc[r] = "succeeded" /\ lock = NoTask
  /\ failures' = 0
  /\ pos' = [pos EXCEPT ![Batch[r].symbol] = Projected(Batch[r], Exchanges)]
  /\ waived' = [waived EXCEPT ![Batch[r].symbol] = @ + Waives(Batch[r])]
  /\ Goto(r, "done")
  /\ UNCHANGED <<switchVars, legacy, dryRun, lock, used, mids, decision, todo,
                 overlap, crowd>>

(* Variant of RecordFailure: the threshold is passed, not reached.         *)
RecordFailureLate(r) ==
  /\ pc[r] \in {"failed", "failedAgain"} /\ lock = NoTask
  /\ failures' = failures + 1
  /\ IF failures' > FailureThreshold
       THEN killActive' = TRUE /\ lock' = r /\ Goto(r, "recordKill")
       ELSE Goto(r, "done") /\ UNCHANGED <<killActive, lock>>
  /\ UNCHANGED <<killDb, cooldown, dbFailed, bookVars, legacy, dryRun, used,
                 decision, todo>>

(* record_execution_result(success=False).  When the write below raises in *)
(* the try block of POST /execute, its except block counts once more.      *)
RecordFailure(r) ==
  /\ pc[r] \in {"failed", "failedAgain"} /\ lock = NoTask
  /\ failures' = failures + 1
  /\ IF failures' >= FailureThreshold
       THEN /\ killActive' = TRUE
            /\ lock' = r
            /\ Goto(r, IF pc[r] = "failed" THEN "recordKill" ELSE "recordLast")
       ELSE /\ Goto(r, "done")
            /\ UNCHANGED <<killActive, lock>>
  /\ UNCHANGED <<killDb, cooldown, dbFailed, bookVars, legacy, dryRun, used,
                 decision, todo>>

-----------------------------------------------------------------------------
(* activate_kill_switch and reset_kill_switch, by the API, by record_loss  *)
(* or by the poll loop's background check.                                 *)

Ask(a, op) ==
  /\ pc[a] = "idle"
  /\ Goto(a, op)
  /\ UNCHANGED <<switchVars, bookVars, legacy, dryRun, failures, lock, used,
                 decision, todo>>

(* Variant of KillLock: activation does not wait for the engine lock.      *)
KillWithoutLock(a) ==
  /\ pc[a] = "killWait"
  /\ lock' = a
  /\ killActive' = TRUE
  /\ Goto(a, "adminKill")
  /\ UNCHANGED <<killDb, cooldown, dbFailed, bookVars, legacy, dryRun, failures,
                 used, decision, todo>>

KillLock(a) ==
  /\ pc[a] = "killWait" /\ lock = NoTask
  /\ lock' = a
  /\ killActive' = TRUE
  /\ Goto(a, "adminKill")
  /\ UNCHANGED <<killDb, cooldown, dbFailed, bookVars, legacy, dryRun, failures,
                 used, decision, todo>>

ResetLock(a) ==
  /\ pc[a] = "resetWait" /\ lock = NoTask
  /\ lock' = a
  /\ killActive' = FALSE
  /\ Goto(a, "resetting")
  /\ UNCHANGED <<killDb, cooldown, dbFailed, bookVars, legacy, dryRun, failures,
                 used, decision, todo>>

(* Where a task goes, and whether it keeps the lock, once it leaves the    *)
(* write of the row.                                                       *)
AfterWrite ==
  [checkKill |-> "checked", recordKill |-> "done", recordLast |-> "done",
   adminKill |-> "idle", resetting |-> "idle"]
KillWrites == {"checkKill", "recordKill", "recordLast", "adminKill"}

(* The row is written; then the breaker is tripped and the windows, and    *)
(* with them the count of the last 60 s, are cleared.                      *)
KillPersisted(t) ==
  /\ pc[t] \in KillWrites
  /\ killDb' = TRUE
  /\ cooldown' = Cooldown
  /\ used' = NoEvents
  /\ lock' = IF pc[t] = "checkKill" THEN t ELSE NoTask
  /\ Goto(t, AfterWrite[pc[t]])
  /\ UNCHANGED <<killActive, dbFailed, bookVars, legacy, dryRun, failures,
                 decision, todo>>

(* Variant of ResetPersisted: the row keeps the old state.                 *)
ResetNotWritten(a) ==
  /\ pc[a] = "resetting"
  /\ cooldown' = 0
  /\ used' = NoEvents
  /\ failures' = 0
  /\ lock' = NoTask
  /\ Goto(a, AfterWrite[pc[a]])
  /\ UNCHANGED <<killActive, killDb, dbFailed, bookVars, legacy, dryRun, decision, todo>>

ResetPersisted(a) ==
  /\ pc[a] = "resetting"
  /\ killDb' = FALSE
  /\ cooldown' = 0
  /\ used' = NoEvents
  /\ failures' = 0
  /\ lock' = NoTask
  /\ Goto(a, AfterWrite[pc[a]])
  /\ UNCHANGED <<killActive, dbFailed, bookVars, legacy, dryRun, decision, todo>>

(* Variant of WriteFails: the lock is not released when the write raises.  *)
WriteFailsLocked(t) ==
  /\ pc[t] \in KillWrites \cup {"resetting"}
  /\ dbFailed' = TRUE
  /\ Goto(t, IF t \in Requests THEN "done" ELSE "idle")
  /\ UNCHANGED <<killActive, killDb, cooldown, bookVars, legacy, dryRun, failures,
                 lock, used, decision, todo>>

(* The write raises: the rest of the handler is skipped, the lock freed.   *)
AfterRaise(t) ==
  IF t \in Admins THEN {"idle"}
  ELSE IF pc[t] = "recordKill" THEN {"done", "failedAgain"} ELSE {"done"}

WriteFails(t) ==
  /\ pc[t] \in KillWrites \cup {"resetting"}
  /\ dbFailed' = TRUE
  /\ lock' = NoTask
  /\ \E l \in AfterRaise(t) : Goto(t, l)
  /\ UNCHANGED <<killActive, killDb, cooldown, bookVars, legacy, dryRun, failures,
                 used, decision, todo>>

-----------------------------------------------------------------------------
(* What changes without the engine lock.                                   *)

(* The legacy breaker: tripped by a stale feed or by the executor, reset   *)
(* by the API or by Telegram's /resume.                                    *)
LegacyFlip ==
  /\ legacy' = ~legacy
  /\ UNCHANGED <<switchVars, bookVars, dryRun, failures, lock, used, pc,
                 decision, todo>>

(* update_config: PATCH /risk/config takes no lock.                        *)
DryRunFlip ==
  /\ dryRun' = ~dryRun
  /\ UNCHANGED <<switchVars, bookVars, legacy, failures, lock, used, pc,
                 decision, todo>>

Tick ==
  /\ cooldown > 0
  /\ cooldown' = cooldown - 1
  /\ UNCHANGED <<killActive, killDb, dbFailed, bookVars, legacy, dryRun, failures,
                 lock, used, pc, decision, todo>>

(* An event of e's window turns 60 s old (OrderRateLimiter._prune).        *)
Expire(e) ==
  /\ used[e] > 0
  /\ used' = [used EXCEPT ![e] = @ - 1]
  /\ UNCHANGED <<switchVars, bookVars, legacy, dryRun, failures, lock, pc,
                 decision, todo>>

(* The process dies and starts again: RiskEngine.__init__, then            *)
(* initialize() loads the row.                                             *)
Restart ==
  /\ killActive' = killDb
  /\ cooldown' = 0 /\ legacy' = FALSE
  /\ dryRun' = BootDryRun
  /\ failures' = 0
  /\ lock' = NoTask
  /\ used' = NoEvents
  /\ pos' = NoPosition /\ mids' = [s \in Symbols |-> 0]
  /\ pc' = [t \in Tasks |-> IF t \in Requests /\ pc[t] # "idle" THEN "done" ELSE "idle"]
  /\ todo' = [r \in Requests |-> {}]
  /\ dbFailed' = FALSE /\ overlap' = FALSE /\ crowd' = FALSE
  /\ waived' = [s \in Symbols |-> 0]
  /\ UNCHANGED <<killDb, decision>>

-----------------------------------------------------------------------------

(* Steps a request takes once it holds the lock or needs none.             *)
RequestRuns(r) ==
  \/ Unhealthy(r) \/ DecideReject(r) \/ DecideAccept(r)
  \/ QueueWake(r) \/ QueueTimeout(r) \/ AuditDone(r)
  \/ Execute(r) \/ Executed(r)

RequestLocks(r) == EvalLock(r) \/ RecordSuccess(r) \/ RecordFailure(r)

AdminLocks(a) == KillLock(a) \/ ResetLock(a)

Write(t) == KillPersisted(t) \/ ResetPersisted(t) \/ WriteFails(t)

Environment == LegacyFlip \/ DryRunFlip \/ Tick \/ (\E e \in Exchanges : Expire(e))

Next ==
  \/ \E r \in Requests : Submit(r) \/ RequestRuns(r) \/ RequestLocks(r)
  \/ \E a \in Admins : Ask(a, "killWait") \/ Ask(a, "resetWait") \/ AdminLocks(a)
  \/ \E t \in Tasks : Write(t)
  \/ Environment
  \/ Restart

(***************************************************************************)
(* The event loop runs every ready task, so what a task does with the lock *)
(* or without needing it is weakly fair; a write ends, well or badly.      *)
(* asyncio.Lock wakes its waiters in order, so taking the lock is strongly *)
(* fair.  A task is at one place at a time, so one condition per task and  *)
(* kind of step is enough.  Nothing makes a client submit, an operator     *)
(* act, the process restart, a breaker flip or a clock tick.               *)
(***************************************************************************)
Fairness ==
  /\ \A r \in Requests : WF_vars(RequestRuns(r) \/ Write(r)) /\ SF_vars(RequestLocks(r))
  /\ \A a \in Admins : WF_vars(Write(a)) /\ SF_vars(AdminLocks(a))

Spec == Init /\ [][Next]_vars /\ Fairness

-----------------------------------------------------------------------------
(***************************************************************************)
(* Properties.                                                             *)
(***************************************************************************)

RequestPlaces ==
  {"idle", "evalWait", "check", "checkKill", "checked", "queue", "audit",
   "recordKill", "recordLast", "failedAgain", "done"} \cup Holding
AdminPlaces == {"idle", "killWait", "resetWait", "adminKill", "resetting"}

FlagTypes ==
  /\ killActive \in BOOLEAN /\ killDb \in BOOLEAN
  /\ legacy \in BOOLEAN /\ dryRun \in BOOLEAN
  /\ dbFailed \in BOOLEAN /\ overlap \in BOOLEAN /\ crowd \in BOOLEAN

NumberTypes ==
  /\ cooldown \in 0 .. Cooldown
  /\ failures \in Nat
  /\ used \in [Exchanges -> 0 .. MaxRate]
  /\ pos \in [Symbols -> [Exchanges -> Int]]
  /\ waived \in [Symbols -> Nat]
  /\ mids \in [Symbols -> Nat]
  /\ \A s \in Symbols : mids[s] \in Mids[s] \cup {0}

PlaceTypes ==
  /\ pc \in [Tasks -> RequestPlaces \cup AdminPlaces]
  /\ \A r \in Requests : pc[r] \in RequestPlaces
  /\ \A a \in Admins : pc[a] \in AdminPlaces

RequestTypes ==
  /\ lock \in Tasks \cup {NoTask}
  /\ decision \in [Requests -> {"none", "reject", "simulate", "approve"}]
  /\ todo \in [Requests -> SUBSET Exchanges]

(* Types of the engine's state; no window ever holds more events than the  *)
(* configured rate (OrderRateLimiter).                                     *)
TypeOK == FlagTypes /\ NumberTypes /\ PlaceTypes /\ RequestTypes

(* A request on its way to an approval: past the checks, with a slot or    *)
(* asleep in the rate queue.                                               *)
Approving(r) == pc[r] = "queue" \/ (pc[r] = "audit" /\ decision[r] = "approve")

(* However long a request sleeps between the checks and its approval, it   *)
(* is approved only while the kill switch is off and no cooldown runs: no  *)
(* activation, loss, failure count or background check gets in between     *)
(* (evaluate_orders, _activate_kill_switch_unlocked).                      *)
ApprovalSafe ==
  \A r \in Requests : Approving(r) => ~killActive /\ cooldown = 0

(* Unless a write failed, the switch in memory and its row agree whenever  *)
(* no handler is at work, so a restart then brings back the same switch    *)
(* (KillSwitch.activate, reset and load).                                  *)
KillDurable == lock = NoTask /\ ~dbFailed => killDb = killActive

(* FailureThreshold failures in a row leave the switch on until a reset,   *)
(* whatever other requests, resets and restarts come in between            *)
(* (record_execution_result, reset_kill_switch).                           *)
FailuresKill ==
  lock = NoTask /\ ~dbFailed /\ failures >= FailureThreshold => killActive

(* As long as no two requests of one symbol were approved at once, the     *)
(* recorded gross position exceeds the limit by no more than reduce-only   *)
(* requests have recorded since the start: these are not held to it        *)
(* (_validate_batch checks it before the rate queue,                       *)
(* record_execution_result applies the orders long after).                 *)
SerialLimit == ~overlap => \A s \in Symbols : Gross(pos[s]) <= Limit + waived[s]

(* Every symbol with a recorded position has a reference mid, so the       *)
(* exposure counts it (NotionalCalculator skips a symbol without one).     *)
MidsKnown ==
  \A s \in Symbols : pos[s] # [e \in Exchanges |-> 0] => mids[s] > 0

(* As long as no two requests were approved at once, the recorded book, at *)
(* the lowest prices of its symbols, exceeds the exposure cap by no more   *)
(* than reduce-only requests have recorded, whatever prices its requests   *)
(* were checked at: no symbol escapes the sum, and no order is checked     *)
(* against a book another order is about to change (_validate_batch,       *)
(* record_execution_result).                                               *)
LowestPrices == [s \in Symbols |-> Min(Mids[s])]
WaivedExposure == SumFunction([s \in Symbols |-> waived[s] * LowestPrices[s]])
SerialExposure == ~crowd => Exposure(pos, LowestPrices) <= ExposureCap + WaivedExposure

(* An operator who asks for the kill switch gets the engine lock in the    *)
(* end, even when requests sleep in the rate queue with it; how late that  *)
(* is, QueueDiscarded is about.                                            *)
KillNotStarved == \A a \in Admins : pc[a] = "killWait" ~> pc[a] # "killWait"

(* Every request gets its decision.                                        *)
RequestDecided ==
  \A r \in Requests : pc[r] = "evalWait" ~> pc[r] \in Holding \cup {"done"}

(* risk-framework/requirements.md 2.2: an order that would take the net    *)
(* position of a symbol over the limit is rejected, so the recorded net    *)
(* position never exceeds it.                                              *)
NetWithinLimit ==
  \A s \in Symbols : Magnitude(pos[s]["bybit"] + pos[s]["lighter"]) <= Limit

(* risk-framework/requirements.md 6.1 and 4.7: the operator's request      *)
(* halts all submissions at once, and the queued orders are discarded.  So *)
(* no order leaves the rate queue for an approval while the request waits. *)
QueueDiscarded ==
  [][\A r \in Requests :
       pc[r] = "queue" /\ (\E a \in Admins : pc[a] = "killWait")
         => ~(pc'[r] = "audit" /\ decision'[r] = "approve")]_vars

=============================================================================
