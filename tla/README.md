# Verification of spread-dashboard

TLA+ models of the order-carrying core of spread-dashboard, a FastAPI back end
that watches the spread between Bybit and Lighter and trades it. The modules
are written from the code under `src/backend/app`; each definition is mapped to
its lines in `PROJECT.json`. TLC checks small instances; TLAPS proves the main
invariants for every value of the constants.

## 1. The system

One process, one asyncio event loop. Nothing runs in parallel except the
threads that `thread_with_timeout` starts for Bybit's blocking SDK, and those
survive the timeout of the call that started them. Interleaving therefore
happens at `await`, and an action of the models is what one task runs between
two suspension points.

| Component | State it keeps | Operations | Hard behaviour | What makes it correct |
|---|---|---|---|---|
| Risk engine (`risk/`) | kill switch (memory and SQLite row), cooldown, rate window, failure count, projected positions, reference mids, one lock | evaluate orders, activate/reset, record a result, background checks | the lock is held through a database write and through a sleep in the rate queue; failed writes; restarts | no approval with the switch on, switch durable, limits kept by orders approved one at a time, no starvation |
| API handlers (`api/routes.py`, `risk_routes.py`) | none | evaluate, execute, record, in three separate steps | other requests run between the three | every request is decided, failures counted |
| Legacy breaker (`services/circuit_breaker.py`) | tripped, failure count | trip, reset, count | written without any lock | counts once per failed run |
| Maker engine (`execution/maker_engine.py`) | one working order, fills so far | place, poll, amend, cancel and replace, market fallback | lost calls still act; fills between any two calls | reports what was bought, leaves nothing working, returns |
| Arbitrage executor (`services/executor.py`) | one run | preflight, maker leg, Lighter leg, reversal | a leg that fails after the other was filled | legs match, hedge covered, failure counted once |
| Auto-hedge (`services/auto_hedge.py`) | task, lock, lockout, backoff, error count, clients | poll, hedge, start, stop, recreate clients | Lighter shows orders late; reads fail silently; start during stop | one order at a time, none on stale data, converges, stops |
| Stop-loss (`services/sl_tp.py`) and emergency close | task, flag, clients; one record per close | poll, trigger, start, stop; read both legs, close both | failed reads look flat; a failed close stops the service; a start in the middle of a stop; several closes at once | a running service watches, a stop leaves no task, a close that reports success is flat whatever the others do |
| Iceberg executor (`execution/iceberg_executor.py`) | children, fills, budgets | place, poll, amend, replenish, cancel all | lost placements, failed cancels | never over the total, one order at most out of sight, nothing left working, returns |
| Reconciliation (`services/reconciliation.py`) | last mismatch | compare positions, alert | flat on a failed read | alerts on a lasting mismatch only |
| Alerts (`alerts/`) | state and timestamps per symbol, mute, runtime thresholds | spread update, system alert, bot commands | cooldown, flapping guard and mute interplay; messages nobody awaits | messages of a symbol keep their order |
| Main (`main.py`) and collectors | WebSocket clients, error count, latest ticks | poll cycle, supervision, staleness check, broadcast | cycles given up or broken off, clients that do not read | a failing loop is told of, stale feeds trip the breaker |
| Storage, settings, portfolio, analytics, AI, auth, metrics, frontend | see `PROJECT.json` | | pure I/O, formulas, presentation | |

How they interact. `POST /execute` asks the risk engine (which reads both
breakers), runs the arbitrage executor (which calls the maker engine and then
Lighter, and counts failures in the legacy breaker), and reports the result to
the risk engine. The auto-hedge and stop-loss services and the trading bot place
orders without asking the risk engine. The poll loop feeds ticks to analytics,
alerts and the risk engine's background checks.

## 2. Modules

### RiskEngine, MCRiskEngine, RiskEngineProofs, Sums

Tasks are API requests and operators; `pc` says where each is, `lock` is
`RiskEngine._lock`. A request submits its batch, takes the lock (`EvalLock`),
runs the background checks (`Unhealthy` may have to write the kill switch),
is rejected or simulated or goes to the rate window (`Grab`), where it sleeps
with the lock held (`QueueHead`, `QueueWake`, `QueueTimeout`), and writes its
audit row (`AuditDone`). It then executes and takes the lock again to record
(`RecordSuccess`, `RecordFailure`). The write of the kill-switch row is a step
of its own and may fail (`WriteFails`), which raises in the handler;
`POST /execute` then counts the failure once more (`AfterRaise`). `Restart` may
come at any point and loads the row. `Submit`'s batches carry signed quantities
per exchange, so `LegFits` and `BatchFits` are the arithmetic of
`_validate_batch`. Ticks are folded into `mids` when a batch is validated, as
in the code; a symbol's mids come from a set of its own. `overlap` and `crowd`
are history: two approvals of one symbol, or of any two, outstanding at once.
`waived` is another: a reduce-only batch skips the limit and the cap whatever
its quantity (`engine.py:260`, `:268`), is compared with no position, and is
recorded in full, which `POST /execute/iceberg` makes use of with its whole
quantity; `waived` adds up what was recorded so. `KillNotStarved` says that an
operator's activation gets the lock in the end, `QueueDiscarded` what the
requirements want of the orders in the queue meanwhile (finding 4).

Simplification: an evaluation whose background checks fire writes the switch
at most once; the code may write it twice in a row with the lock held.

### MakerEngine, MakerProofs

One call of `smart_execute_maker` against an exchange that fills and cancels
between any two calls. Every call has three outcomes: answered, refused, lost.
A lost call may still take effect later (`Arrive`, the "late" state of an
order). An action is a call and the code up to the next call. Quantities are
integers; price, VWAP, fees and the wish to reprice are abstracted to a free
choice per turn, because the book decides it. `MinQty` is the instrument's
minimum, any number of quantity steps: a turn that finds less than that to go
returns "filled" and cancels nothing (`maker_engine.py:343`).

### ArbLedger, ArbExecutor, ArbProofs

`ArbExecutor` extends the maker engine and runs it as phase 1 of
`_run_arb_sequential`; orders it leaves behind go on filling
(`LateExchange`) while Lighter is hedged, Bybit reversed and failures counted.
`ArbLedger` is the abstract promise: Lighter at most once and first, at most
one reversal, each for no more than Bybit has executed. `KeepsLedger` is the
refinement, with the stage as the mapped variable.

### AutoHedge, AutoHedgeProofs

The service with two tasks that may live at once (a start during a stop).
A poll is `Begin`, the two reads in any order, and `Decide` (or `Timeout`);
an order is `Execute` at the exchange followed by `Succeed` or `Fail`, in any
combination, then `Recorded`. Lockout, backoff and Lighter's lag count ticks of
one clock. `stop` is four steps (`Stop`, `Cancelled`, `Joined`, `Closed`), as
it suspends in between. Lighter's API shows an order at most `Lag` ticks late.
Any times are allowed: `Patience` is how long the reads of a poll may take for
lockout and first backoff to outlast them and the lag. `excuse` is history, the
first thing that let an order go with an old position: "slow", a poll that took
longer than that, or "other", a failed read of Lighter, a start that forgot a
hedge just sent, or a stop that cut one short. `MaxStarts` bounds the starts.

### ParentOrder, Iceberg, IcebergProofs, Sums

One run of `execute_iceberg`. `order` is what Bybit has, `active` and `seen`
what the code knows of it. A child is the number in its `orderLinkId`: the code
advances it only after a placement it knows of (`Accepted`), so that a lost one
(`LostPlacement`) is followed by another with the same id, which Bybit takes
once (`Fresh`). A pass of the loop is `Going`/`StartPlacing`, a placement per
free slot, `StartPolling`, a `Poll` per child with its fills counted by
difference, `Judge`, and `Guards`, which gives up for the price limit or the
slippage (`Breached`), amends (`Reprice`) or does neither. `Timeout`,
`OutOfCancels` and `Breached` lead to a cancel per child (`CancelChild`), then
the last polls and `Finish`. Prices decide only between these, and are free.
`ParentOrder` is the abstract promise, refined through executed and exposed
units: at most the target, and nothing newly exposed after the return. `Sums`
holds what the proofs need to know of sums of a function over a finite set.

The loop's bodies are inside their own handlers, so the exception path of the
function is reached only from its start, where it ends the run (`Start`).

### EmergencyClose, StopLoss, MCStopLoss, StopLossProofs

`EmergencyClose` has one record per caller of `emergency_close_auto`: the two
reads (a failed one is answered as flat), the two reduce-only orders sent
together, their answers in either order, and the outcome with the breaker's
count. An order may execute and still raise, or be accepted and idle; when the
caller's task is cancelled the threads of its orders go on (`Abandon`,
`LateAnswer`). Reduce-only is modelled by what it does (`Executed`): the
position shrinks by the amount sent, at most to zero. `disturbed` is history:
closes that met a fault or an opening. What another close does between the
reads and the orders is no disturbance.

`StopLoss` puts the service's task around it. Its `_task` is `current`; the
stop is three steps (`Stop`, `StopJoined`, `StopClosed`) with other handlers in
between, a cancellation reaches the task at whatever it awaits (`Cancelled`).
`CloseAll` is every caller other than the service. `Read` decides in one step
from both positions, one of which may be misread. The trigger record and
its reset are left out, as is the position after `stop` and `start` with other
settings.

### SpreadAlerts, Monitor, MonitorProofs

`SpreadAlerts` is the alert engine for one symbol: `Rise` and `Fall` are the
two transitions of `on_spread_update`, `Notify` the message with its cooldown,
mute included; `Attempt` is one try of a message that nobody awaits. The spread
is its `zone` between the thresholds. `Stamp` and `TooSoon` are the cooldown of
`send_system_alert`, which notes its time before it sends. Stamps are kept as
ages, up to the age at which they stop to matter.

`Monitor` is `poll_loop` over it: fetch, process, commit, check both feeds,
broadcast, sleep. A cycle can be given up in the fetch (`FetchTimeout`, which
skips the check of the feeds) or broken off by the database (`Commit`); a
system alert is awaited (`tell`), and `Tick` may come anywhere. `Broadcast` may
have to wait for a client (`send`): `ws.send_text` has no timeout and lies
outside that of the fetches (`main.py:62`), so that `Sent`, its end, is no step
of the loop and may never come. The bot's `/set` and `/resume` come at any time.

## 3. Runs

| Run | Question | Bounds |
|---|---|---|
| `risk_safety` | Approvals, switch, failure count, limit of a symbol, exposure of all | three requests (an arbitrage order that fills the limit, a reduce-only iceberg of the same symbol, a maker order of another), one operator, a rate of one per window, two failures to activate, one tick of cooldown; the first symbol trades at 1 or 2, the other at 1, and a cap of 2 takes one arbitrage order at the price 1 and nothing beside it |
| `risk_liveness` | Does the operator starve behind the rate queue; is every request decided | two requests, one operator |
| `risk_limit_overlap` | Finding: concurrent approvals exceed the net limit | two one-leg requests |
| `risk_kill_queue` | Finding: a queued order is approved although the kill switch was asked for | two one-leg requests, one operator |
| `arb` | Reports, open orders and target of the maker engine; legs, hedge, failure count, refinement, end of the whole run | three units, a minimum of two on both exchanges, so that fills below it, at it and above it occur and a "filled" result can leave one unit on the book; two turns; the second failure trips |
| `arb_aborted` | Finding: an aborted run with a filled leg | two units |
| `auto_hedge` | One order, no stale order, no overshoot; a stop ends, a deaf service stops, the difference goes | two tasks, three starts, a Bybit position of two units that is opened, one failed read, partial executions, an order below Lighter's minimum of two, one error to self-stop, no lag; a lockout and first backoff of one tick, which cover a poll within a tick and not one that takes a tick |
| `auto_hedge_slow_poll` | Finding: a poll longer than the lockout hedges twice | one task, a position that is opened and closed, lockout 3, reads up to 5, lag 1: the proportions of the default settings (6 s, 10 s) |
| `iceberg` | Overfill (the refinement), strays, reports, what a stopped run leaves, budget, return | five units in children of three, a minimum of two, two slots, two cancels of budget, three sleeps, at most four children |
| `stop_loss` | A running service watches, a stop ends and leaves no task, a successful close and one of a hedge are flat, a breach is acted on | two callers, either of which may be the service's task, one opening of an unequal hedge (2, -1), one fault, a breaker of one failure |
| `stop_loss_lone` | Finding: a lone Bybit long cannot be closed | one caller, no fault |
| `monitor` | A silent feed trips, messages keep their order, a failing loop is told of | cooldown 2, flapping guard 3, system cooldown 2, a feed stale after 1, two errors to be degraded |

Why the bounds are enough. Two requests suffice for every race on the engine's
lock, and the third gives the rate window a waiter while another executes. In
the maker engine two turns allow an order to be amended, lost and replaced, and
three units a partial fill with either more or less than the minimum to go. The
auto-hedge clock is scaled, and the service starts three times, which is what a
start in the middle of a stop and one after it need; that the times may be any
is what the theorems add.

The iceberg's five units are no multiple of its children's three: a full child,
a last child of the rest, partial fills of both, a replenishment and a remainder
below the minimum all occur, with both slots taken and a stray beside them; the
budget of two is passed by amending both children at once. In the stop-loss run
the second caller is what every race needs (a second task after a start inside
a stop, a close by the API against the service's), and the legs differ so that a
swapped amount shows. The monitor's guard is longer than its cooldown, and the
cooldown longer than the two units a message lives, as in the default settings (a
message with its three attempts takes 20 s at most, the cooldown is 60 s). The
code sets no lower bound on the cooldown, so that this is an assumption
(`AlertsAssumption`): with a shorter one a recovery can overtake its alert.

Deadlock is checked in the risk, auto-hedge, stop-loss and monitor runs, where
something can always happen. It is not in the arbitrage and iceberg runs:
a run that has returned stops.

Some conditions recur in the properties; each names something the code cannot
see. `lost`/`lostLegs` are calls whose answer never came. `Sole` says that the
order was never cancelled and replaced, since after a replacement the code's
total follows the latest order only. `MinQty` is in the properties of the maker
engine and of the legs as a bound, not as a condition: a "filled" result may
leave less than it on the book, and the legs then differ by less than it.
`excuse` is a poll slower than the lockout, a failed read of Lighter (answered
as "no position"), or a start or stop around a hedge just sent. `waived` is
what reduce-only orders record without a check: by so much the limit and the
cap are passed. `disturbed` is a close that met a fault or an opening, and
`raced` a start made while a stop was in progress. `FeedLossTripsIfComplete`
asks that cycles get to their broadcast time and again, `DegradedTold` that no
client holds up the loop for ever. The models contain all of these; the
properties say what holds without them, and `NeverOverHedged`, `OneOrder`,
`OneStray`, `ParentSpec`, `BudgetKept`, `OneInFlight` and the other liveness
properties hold with them.

Two words about the monitor's properties. "30 seconds" in the comment of
`FeedLossTrips` is the requirement of the risk engine's kill switch; what the
polling loop trips is the legacy breaker, after 60 s by default. And "told" in
`DegradedTold` is the stamp that `send_system_alert` notes before the alert is
stored and sent: whether it arrives is the storage's and Telegram's affair.

The type invariants, `ReportedWasBought` of the maker engine, `Visible` of the
iceberg, `ToldToEnd` of the stop-loss service and `MidsKnown` of the risk engine are proved as theorems and not
repeated by the runs (`NeverOverHedged` would fail without `ReportedWasBought`,
`SerialExposure` without `MidsKnown`).

### Fairness

- Risk engine: steps of a task that holds the lock or needs none are weakly
  fair (the loop runs every ready task, and a write ends). Taking the lock is
  strongly fair, as `asyncio.Lock` wakes its waiters in order. Nothing makes a
  client, an operator, a breaker or the clock act.
- Maker and arbitrage: the engine's own steps are weakly fair, as every call
  answers or times out. Nothing makes the exchange fill.
- Auto-hedge: a task's steps, the end of a stop, the clock and Lighter's
  display are weakly fair. That Lighter executes an order which is sent again
  and again is strong fairness and an assumption on Lighter, needed only by
  `Converges`.
- Iceberg: the engine's steps are weakly fair. Every call answers or times out
  after 10 s, and the token bucket refills. Bybit need not fill or end anything.
- Stop-loss: the steps of tasks and of a stop in progress are weakly fair, as
  every await of them has a timeout or is a cancelled task. Starts, stops,
  closes by others and the price owe nothing.
- Monitor: the loop, the clock and the attempts of a message are weakly fair.
  Every await of the loop has a timeout, or is the lock of the risk engine,
  which is released (`risk_liveness`), but for the sends to WebSocket clients:
  nothing makes a client read, so `Sent` has no fairness.

### Findings

1. `risk/engine.py:228` projects from recorded positions, so two requests
   approved before either is recorded exceed the net limit of
   `requirements.md:45`. `SerialLimit` shows that overlap and what reduce-only
   orders record are the only ways.
2. `maker_engine.py:485` leaves the status "aborted" when the order fills
   between the last poll and the final cancel; the executor then records zero
   and neither hedges nor reverses.
3. `executor.py:416` sends Bybit the opposite of Lighter's side, and a flat
   Lighter account counts as long (`executor.py:502`): a Bybit long that stands
   alone is given a reduce-only Buy, which never closes it. A Lighter leg that
   failed, or an earlier partial close, leaves exactly that. `ClosesHedge` shows
   that every hedge is closed.
4. `risk/engine.py:107` takes the engine's lock before it sets the switch, and
   `engine.py:206` sleeps in the rate queue with that lock, up to the queue's
   timeout (30 s by default). The requirements want all submissions halted
   within 100 ms (`requirements.md:100`) and the queued orders discarded
   (`requirements.md:77`). The queued order is approved instead; `discard_all`
   comes when nothing is queued any more, and sets and clears its event in one
   step (`rate_limiter.py:46`). `KillNotStarved` is what is left: the switch is
   late, not lost.
5. `auto_hedge.py:105` tests the lockout when the reads are answered, not when
   they began, and polls go on during the lockout. A read of 10 s outlasts the
   lockout of 6 s, and the poll then hedges a difference that the last hedge has
   removed, against `auto_hedge.py:5-7`. `NoDoubleFire` and `NeverOvershoots`
   say that a slow poll, a failed read, a start and a stop are the only ways.

Seen while modelling, and in the models, but stated by no run:

- `risk/kill_switch.py:22` sets memory before the row: a crash in between, or a
  failed write, loses the switch at restart. `KillDurable` says where memory and
  row agree.
- `maker_engine.py:487` sends a market order after a deviation abort too, not
  only after a timeout.
- `risk/engine.py:260` and `:268` skip limit and cap for a reduce-only batch, and
  nothing compares it with the position it reduces. `routes.py:715-725` sends
  one with the whole quantity of an iceberg, which `engine.py:172` then records:
  limit and cap can be passed by that much, without any overlap. `SerialLimit`
  and `SerialExposure` bound the excess by `waived`.
- `maker_engine.py:343` returns "filled" when less than the minimum is to go, and
  cancels nothing. What its order still buys after that is hedged by nobody:
  less than the minimum, which `ExactWhenSimple`, `NothingLeftWorking` and
  `LegsMatch` say.
- `alert_engine.py:13` says that the state always transitions at once and that
  only the notification is suppressed. The flapping guard (`:204-207`) holds the
  transition itself back; the model follows the code (`Stays`).
- `main.py:62` awaits a client's `send_text` without a timeout, and outside that
  of the fetches, which `main.py:73` describes as what keeps the loop from
  hanging. While a client does not read, no spread is evaluated and no feed is
  checked. Nothing can be promised of such a loop; the two liveness properties
  of the monitor are stated around it.
- `main.py:97-109` skips the check of the feeds when the fetches time out: if
  every cycle does, a dead feed never trips the breaker. Hence the condition of
  `FeedLossTripsIfComplete`.
- `iceberg_executor.py:426` returns "done" when less than the minimum remains,
  and cancels nothing: what its children may still fill is what `ReportCovers`
  bounds.

Seen, and outside the models: `GET /prices` and the WebSocket snapshots append
to the z-score history of the spread; the numeric risk limits can be changed
while a batch is being checked against them (`engine.py:76` takes no lock); a
restarted bot executes its last command again; the time stamp of a system alert starts at 0.0 on a monotonic clock,
which silences an alert right after a boot of the host.

## 4. Proofs

All theorems are proved by TLAPS for every value of the constants that
satisfies the named assumptions: finite or infinite sets of requests,
operators, callers and tasks, any limits, rates, targets and times. The one set
that has to be finite is that of the symbols (`SymbolsAssumption`), which the
code holds in a dictionary and sums over. Every safety invariant, action
property and refinement that a passing run checks is proved; the theorems and
the properties they state are listed in `PROJECT.json`.

Risk engine (`RiskEngineProofs`). `TypeCorrect` comes first. `LockCorrect`
says that a task is in a critical section exactly when it holds the lock; every
other proof uses it to know that no other handler is inside.
`SwitchCorrect` adds what memory, row and failure count are at each place of a
handler that writes them; `KillIsDurable` and `FailuresActivate` follow from it
when nobody is inside. `ApprovalsAreSafe` is inductive given the lock: whatever
turns the switch on or starts a cooldown needs the lock the approving request
holds. `SerialLimitHolds` rests on an invariant that relates each outstanding
approval to the projection it was checked against, unless two of one symbol
overlapped; a reduce-only order was not checked, and adds to the bound what it
adds to the position.

`SerialExposureHolds` does the same for the exposure, which adds up all symbols.
The code values a position at the last mid it saw, so that the recorded book may
exceed the cap as soon as prices rise; what its checks give is a bound at the
lowest prices, beyond which only reduce-only orders go. `ExposureInv` says that,
unless two approvals overlapped, there is at most one approved batch, and that
the book is within that bound at those prices both as recorded and with that
batch in it. The check only
counts symbols that have a mid, so that it needs `MidsAreKnown`: a symbol with a
position has one.

Sums (`Sums`). The community operator for a sum chooses one element after the
other. That it satisfies its recursive equation for every finite set, that a
change of one value changes the sum by as much, that sums are monotone and
non-negative: each by the choice of a least counterexample, of a number through
the well-foundedness of the naturals and of a finite set through its
cardinality.

Maker engine (`MakerProofs`). `ReportsAreReal` needs an invariant
that bounds `prev` and `total` by the executed units of the orders sent so far;
it covers lost calls and replacements. `NothingIsLeft` rests on `Tidy`: without
lost placements and cancellations only the current order can be live, and every
path to the return has seen it filled, cancelled it, or seen less than `MinQty`
of it to go. `StaysWithinTarget` and
`ResultIsExact` rest on `Totals`, which says where the totals follow the fills
of the one order; that it is the one needs `Fresh` (a replacement has another
id) and `CurSent`.

Arbitrage (`ArbProofs`). The maker's invariants are carried through the
composition. `HedgeIsCovered` and `FailuresCountOnce` add where the run is;
`NoNakedLeg` adds that the two legs together are what the engine reported
(`Matched`), which is what was bought but for the rest of a filled order; `ImplementsLedger` shows that the initial
states map to initial states and each step to a step of `ArbLedger` or a
stutter.

Auto-hedge (`AutoHedgeProofs`), for any number of tasks, any times, any
positions. `HedgeLockHeld` ties `_lock` to the places of the tasks, from which
`OneOrderAtATime` follows. `NeverFiresTwice` assumes nothing of the times: a poll
that takes longer than `Patience`, which is what lockout and first backoff leave
beyond Lighter's lag, is an excuse from then on (with a lockout no longer than
the lag, every poll is). Its invariant says that without an excuse, while
Lighter has not shown an answered order, some wait lasts until it has and for
`Patience` longer (`LateInv`); that a poll with an old position is answered
while a wait lasts (`StaleInv`); and that an order about to be sent has the true
position (`SeenInv`). A tick shortens the waits by as much as it ages what they
wait for, so the three are kept together. `OvershootsNever` then needs only that
every position read was once Bybit's. That the default settings do give the
excuse is finding 5.

Iceberg (`IcebergProofs`), for any target, child size, slots and budgets. The
invariant joins what Bybit has and what was read of it (`Trade`), that a child
has an id below the counter (`Known`), that a pass places no more than it found
room for (`Pass`), what is still to cancel at each place (`Settled`) and the
budget there (`Budget`). `AtMostOneStray`, `VisibleBounded`, `StoppedClean` and
`BudgetBounded` follow.

What sums the orders needs more. `Booked` says that the total is the sum of what
was read of the orders, and that every order is over and fully read unless it is
an active child or has the link id of the next placement. Hence a placement of
what remains beside the active children fits into the target (`PlacementFits`):
a stray, the one order it does not count, has its id and stands in its place.
Executed and working units together never exceed the target (`Within`).
`Untouched` says that ids not used yet hold nothing, `AllRead` that without a
lost call everything is read at the end unless less than a minimum remains. `ReportIsComplete` follows, and
`ImplementsParent`: every step maps to a step of `ParentOrder` or a stutter.

Stop-loss (`StopLossProofs`), for any number of callers, positions and faults.
`Service` relates flag, tasks, cancellations and stop: without a start inside a
stop, the one live task is `_task`. `Kept` is for any number of closes at once.
Its first part is that no leg has grown or turned since an undisturbed close
read it, since all that others do to it is reduce-only; so an order of the right
side for what was seen closes what is left. Its second is that a leg whose order
is answered is flat unless the close knows of an error. `StopWaitsForTheTold`
needs no condition: whatever a stop awaits is over or has its cancellation on
the way.

Monitor (`MonitorProofs`), for any cooldowns and limits. `InFlight` bounds the
age of a message by that of the last stamp, from which `MessagesInOrder`
follows.

Ends. Liveness under fairness is beyond this prover, but that nothing goes round
in circles is not: `MakerRunsOut`, `RunsOut` (arbitrage), `IcebergRunsOut` and
`RequestsRunOut` (risk engine) each give a natural number that every call or
step of the program lowers and that nothing around it can raise: no fill, loss,
late order, other request, failed write or restart. A maker run makes at most
`9 * MaxTurns + 13` calls, an arbitrage run five steps more, an iceberg at most
`(2 * Slots + 5) * MaxRounds + 4 * Slots + 7` calls, and a request takes at most
fourteen steps; the rounds and turns are bounds of the models, which stand for
the run's clock. With a step always possible and weak fairness, which TLC adds,
these are `RunEnds` and `Returns`; `RequestDecided` needs besides that the lock
comes free.

Only model-checked: the liveness properties themselves (`KillNotStarved`,
`RequestDecided`, `RunEnds`, `Returns`, `StopEnds` of both services,
`DeafServiceStops`, `Converges`, `BreachNoticed`, `FeedLossTripsIfComplete`,
`DegradedTold`), because fairness and
ENABLED are out of the prover's reach.

## 5. Not modelled, and the plan

What is left, in the order in which it would add most:

1. The stop-loss service's trigger record and its reset, and several stops at
   once; `POST /execute/close_all`'s own risk evaluation composed with the close.
2. The WebSocket endpoint: the registry of clients and subscriptions against the
   broadcast, with the locks of the sends.
3. The 429 back-off of the Lighter collector as time, and its market-stats
   socket with reconnects; here a fetch just answers nothing for a while.
4. Reconciliation and changes of the risk limits at run time, composed with the
   risk engine.
5. Several symbols in one polling cycle, whose inserts share a commit.
6. The bot's polling with its offset, and its commands that only read.

The token bucket of the iceberg is a wait that ends by itself, and part of the
call it precedes. Funding, clean-up and portfolio-history loops are independent
timers that store what they read.

Out of reach or without a protocol: SQL queries, float formulas of the
analytics (unit-tested), statistical models, settings files, portfolio views,
authentication, metrics, the frontend and the widget.
