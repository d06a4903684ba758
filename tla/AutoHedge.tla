----------------------------- MODULE AutoHedge -----------------------------
(***************************************************************************)
(* AutoHedgeService of backend/app/services/auto_hedge.py: a task that     *)
(* polls the two positions and trades Lighter against the Bybit position.  *)
(*                                                                         *)
(* Lighter's API shows an executed order only after a while, at most Lag   *)
(* ticks; the service waits Wait ticks after an order it saw accepted and  *)
(* backs off after one it saw fail.  start and stop are handlers of their  *)
(* own: stop suspends twice, and a start in between finds the service not  *)
(* running, so tasks of two starts can live at once.                       *)
(*                                                                         *)
(* Left out: the log of hedges, the contents of the journal's row, process *)
(* restarts, after which the service is off, and a second stop while the   *)
(* first still waits.                                                      *)
(***************************************************************************)
EXTENDS Integers

CONSTANTS
  Loops,        \* the tasks that can live at once
  NoLoop,
  MinDelta,     \* _min_delta
  LighterMin,   \* min_base_amount of the market on Lighter
  Wait,         \* POST_HEDGE_WAIT_S, in ticks, as are the next three
  Initial,      \* INITIAL_COOLDOWN_S
  MaxCooldown,  \* MAX_COOLDOWN_S
  ReadTime,     \* the longest the two reads of a poll take
  Lag,          \* the longest Lighter takes to show an executed order
  MaxErrors,    \* MAX_CONSECUTIVE_ERRORS
  Positions,    \* the Bybit positions a trade can lead to
  MaxLighter,   \* bound: the largest Lighter position
  MaxTrades,    \* bound: changes of the Bybit position
  MaxMisreads,  \* bound: failed position reads
  MaxStarts     \* bound: starts of the service

ASSUME LoopsAssumption == NoLoop \notin Loops
ASSUME HedgeNumbers ==
  /\ MinDelta \in Nat \ {0} /\ LighterMin \in Nat
  /\ Wait \in Nat \ {0} /\ Initial \in Nat \ {0}
  /\ MaxCooldown \in Nat /\ MaxCooldown >= 2 * Initial
  /\ ReadTime \in Nat /\ Lag \in Nat
  /\ MaxErrors \in Nat \ {0}
  /\ Positions \subseteq Int /\ MaxLighter \in Nat
  /\ MaxTrades \in Nat /\ MaxMisreads \in Nat /\ MaxStarts \in Nat

VARIABLES
  bybit,     \* the Bybit position, long positive
  lighter,   \* the Lighter position
  shown,     \* the Lighter position its API answers
  age,       \* ticks for which shown has been out of date
  running,   \* _running
  task,      \* _task
  clients,   \* _bybit and _lighter are not None
  stopper,   \* where stop() is
  victim,    \* the task stop() has cancelled and awaits
  lockout,   \* ticks until POST_HEDGE_WAIT_S after _last_hedge_ts
  cool,      \* ticks until _cooldown_s after _last_failed_ts
  backoff,   \* _cooldown_s
  errors,    \* _consecutive_errors
  lock,      \* holder of _lock
  pc,        \* where each task is
  got,       \* the positions a poll has been answered
  readB,     \* bybit_qty of a poll
  readL,     \* lighter_qty of a poll
  waited,    \* ticks since a poll began
  trades, misreads, starts,
  excuse,    \* history: why an order may go with a stale position, see Excuses
  peak       \* history: the largest Bybit position so far

marketVars == <<bybit, lighter, shown, age, trades, peak>>
timerVars == <<lockout, cool, backoff, errors>>
serviceVars == <<running, task, clients, stopper, victim, starts>>
pollVars == <<got, readB, readL, waited>>
vars == <<marketVars, timerVars, serviceVars, pollVars, lock, pc, misreads, excuse>>

Init ==
  /\ bybit = 0 /\ lighter = 0 /\ shown = 0 /\ age = 0 /\ trades = 0 /\ peak = 0
  /\ lockout = 0 /\ cool = 0 /\ backoff = Initial /\ errors = 0
  /\ running = FALSE /\ task = NoLoop /\ clients = FALSE
  /\ stopper = "idle" /\ victim = NoLoop
  /\ got = [l \in Loops |-> {}] /\ waited = [l \in Loops |-> 0]
  /\ readB = [l \in Loops |-> 0] /\ readL = [l \in Loops |-> 0]
  /\ lock = NoLoop /\ pc = [l \in Loops |-> "off"]
  /\ misreads = 0 /\ starts = 0 /\ excuse = "none"

Magnitude(n) == IF n < 0 THEN -n ELSE n
Smaller(m, n) == IF m < n THEN m ELSE n
Larger(m, n) == IF m > n THEN m ELSE n

(* A task that stop() has cancelled does nothing more but end.             *)
At(l, place) == pc[l] = place /\ victim # l
Goto(l, place) == pc' = [pc EXCEPT ![l] = place]

(* A poll is over: its values are gone.                                    *)
Forget(l) ==
  /\ got' = [got EXCEPT ![l] = {}] /\ waited' = [waited EXCEPT ![l] = 0]
  /\ readB' = [readB EXCEPT ![l] = 0] /\ readL' = [readL EXCEPT ![l] = 0]

-----------------------------------------------------------------------------
(* The market and the clock.                                               *)

(* A trade on Bybit by someone else.                                       *)
Trade ==
  /\ trades < MaxTrades /\ trades' = trades + 1
  /\ bybit' \in Positions \ {bybit}
  /\ peak' = Larger(peak, Magnitude(bybit'))
  /\ UNCHANGED <<lighter, shown, age, timerVars, serviceVars, pollVars, lock, pc,
                 misreads, excuse>>

Show ==
  /\ shown # lighter
  /\ shown' = lighter /\ age' = 0
  /\ UNCHANGED <<bybit, lighter, trades, peak, timerVars, serviceVars, pollVars,
                 lock, pc, misreads, excuse>>

Less(n) == IF n > 0 THEN n - 1 ELSE 0
Reading(l) == pc[l] = "reading"

Tick ==
  /\ shown # lighter => age < Lag
  /\ \A l \in Loops : Reading(l) => waited[l] < ReadTime
  /\ age' = IF shown # lighter THEN age + 1 ELSE age
  /\ waited' = [l \in Loops |-> IF Reading(l) THEN waited[l] + 1 ELSE waited[l]]
  /\ lockout' = Less(lockout) /\ cool' = Less(cool)
  /\ UNCHANGED <<bybit, lighter, shown, trades, peak, backoff, errors, serviceVars,
                 got, readB, readL, lock, pc, misreads, excuse>>

-----------------------------------------------------------------------------
(* _poll_loop.                                                             *)

(* Variant of PollError: the error is logged and not counted.              *)
PollErrorUncounted(l) == Goto(l, "sleep") /\ UNCHANGED <<errors, running>>

(* A poll fails: the timeout of the reads, or clients that are None.       *)
PollError(l) ==
  /\ errors' = errors + 1
  /\ IF errors' >= MaxErrors
       THEN running' = FALSE /\ Goto(l, "off")
       ELSE Goto(l, "sleep") /\ UNCHANGED running

(* Variant of Begin: the loop does not look at _running.                   *)
BeginAnyway(l) ==
  /\ At(l, "sleep")
  /\ IF ~clients
       THEN PollError(l)
       ELSE Goto(l, "reading") /\ UNCHANGED <<errors, running>>
  /\ UNCHANGED <<marketVars, lockout, cool, backoff, task, clients, stopper, victim,
                 pollVars, lock, misreads, excuse, starts>>

Begin(l) ==
  /\ At(l, "sleep")
  /\ IF ~running
       THEN Goto(l, "off") /\ UNCHANGED <<errors, running>>
       ELSE IF ~clients
              THEN PollError(l)
              ELSE Goto(l, "reading") /\ UNCHANGED <<errors, running>>
  /\ UNCHANGED <<marketVars, lockout, cool, backoff, task, clients, stopper, victim,
                 pollVars, lock, misreads, excuse, starts>>

(* get_position of either client answers "no position" when it fails.      *)
ReadBybit(l) ==
  /\ At(l, "reading") /\ "bybit" \notin got[l]
  /\ got' = [got EXCEPT ![l] = @ \cup {"bybit"}]
  /\ \/ readB' = [readB EXCEPT ![l] = bybit] /\ UNCHANGED misreads
     \/ /\ misreads < MaxMisreads /\ misreads' = misreads + 1
        /\ readB' = [readB EXCEPT ![l] = 0]
  /\ UNCHANGED <<marketVars, timerVars, serviceVars, readL, waited, lock, pc, excuse>>

ReadLighter(l) ==
  /\ At(l, "reading") /\ "lighter" \notin got[l]
  /\ got' = [got EXCEPT ![l] = @ \cup {"lighter"}]
  /\ \/ readL' = [readL EXCEPT ![l] = shown] /\ UNCHANGED <<misreads, excuse>>
     \/ /\ misreads < MaxMisreads /\ misreads' = misreads + 1
        /\ readL' = [readL EXCEPT ![l] = 0] /\ excuse' = "other"
  /\ UNCHANGED <<marketVars, timerVars, serviceVars, readB, waited, lock, pc>>

Timeout(l) ==
  /\ At(l, "reading") /\ waited[l] = ReadTime
  /\ PollError(l)
  /\ Forget(l)
  /\ UNCHANGED <<marketVars, lockout, cool, backoff, task, clients, stopper, victim,
                 lock, misreads, excuse, starts>>

Net(l) == readB[l] + readL[l]

(* Variant of Amount: the cap is the Lighter position.                     *)
AmountOfLighter(l) == Smaller(Magnitude(Net(l)), Magnitude(readL[l]))

(* The amount of an order, capped by the Bybit position.                   *)
Amount(l) == Smaller(Magnitude(Net(l)), Magnitude(readB[l]))

Waiting == lockout > 0 \/ cool > 0

(* The longest that the reads of a poll may take for the lockout, or the   *)
(* first cooldown, to outlast Lighter's lag and the poll.                  *)
Patience == Smaller(Wait, 2 * Initial) - Lag - 1

(* Variant of Decide: the lock is not looked at.                           *)
DecideUnlocked(l) ==
  /\ At(l, "reading") /\ got[l] = {"bybit", "lighter"}
  /\ errors' = 0
  /\ IF Magnitude(Net(l)) < MinDelta \/ Waiting \/ Amount(l) < MinDelta
       THEN Goto(l, "sleep") /\ Forget(l) /\ UNCHANGED <<lock, excuse>>
       ELSE /\ lock' = l
            /\ excuse' = IF excuse = "none" /\ waited[l] > Patience
                           THEN "slow" ELSE excuse
            /\ Goto(l, IF clients THEN "sending" ELSE "refused")
            /\ UNCHANGED pollVars
  /\ UNCHANGED <<marketVars, lockout, cool, backoff, serviceVars, misreads>>

(* Both positions are there: the lockout and the cooldown are looked at    *)
(* now, not when the poll began, and _lock is skipped when it is taken.    *)
Decide(l) ==
  /\ At(l, "reading") /\ got[l] = {"bybit", "lighter"}
  /\ errors' = 0
  /\ IF \/ Magnitude(Net(l)) < MinDelta \/ Amount(l) < MinDelta
        \/ Waiting \/ lock # NoLoop
       THEN Goto(l, "sleep") /\ Forget(l) /\ UNCHANGED <<lock, excuse>>
       ELSE /\ lock' = l
            /\ excuse' = IF excuse = "none" /\ waited[l] > Patience
                           THEN "slow" ELSE excuse
            /\ Goto(l, IF clients THEN "sending" ELSE "refused")
            /\ UNCHANGED pollVars
  /\ UNCHANGED <<marketVars, lockout, cool, backoff, serviceVars, misreads>>

-----------------------------------------------------------------------------
(* _execute_hedge.                                                         *)

(* Less than Lighter takes: the order is not sent and nothing is noted.    *)
Skip(l) ==
  /\ At(l, "sending") /\ Amount(l) < LighterMin
  /\ lock' = NoLoop
  /\ Goto(l, "sleep") /\ Forget(l)
  /\ UNCHANGED <<marketVars, timerVars, serviceVars, misreads, excuse>>

(* Lighter executes the order, an IOC that may find less than its amount.  *)
Execute(l) ==
  /\ At(l, "sending") /\ Amount(l) >= LighterMin
  /\ \E q \in 1 .. Amount(l) :
       lighter' = IF Net(l) > 0 THEN lighter - q ELSE lighter + q
  /\ Magnitude(lighter') <= MaxLighter
  /\ Goto(l, "sent")
  /\ UNCHANGED <<bybit, shown, age, trades, peak, timerVars, serviceVars, pollVars,
                 lock, misreads, excuse>>

(* Variant of Succeed: no lockout.                                         *)
SucceedUnlocked(l) ==
  /\ \/ At(l, "sent") \/ (At(l, "sending") /\ Amount(l) >= LighterMin)
  /\ backoff' = Initial
  /\ Goto(l, "recording") /\ Forget(l)
  /\ UNCHANGED <<marketVars, lockout, cool, errors, serviceVars, lock, misreads,
                 excuse>>

(* The transaction is accepted, whatever it executed.                      *)
Succeed(l) ==
  /\ \/ At(l, "sent") \/ (At(l, "sending") /\ Amount(l) >= LighterMin)
  /\ lockout' = Wait
  /\ backoff' = Initial
  /\ Goto(l, "recording") /\ Forget(l)
  /\ UNCHANGED <<marketVars, cool, errors, serviceVars, lock, misreads, excuse>>

(* Variant of Fail: no failure is noted.                                   *)
FailUnnoticed(l) ==
  /\ At(l, "sending") \/ At(l, "sent") \/ At(l, "refused")
  /\ Goto(l, "recording") /\ Forget(l)
  /\ UNCHANGED <<marketVars, timerVars, serviceVars, lock, misreads, excuse>>

(* The call raises, whether or not the order was executed.                 *)
Fail(l) ==
  /\ At(l, "sending") \/ At(l, "sent") \/ At(l, "refused")
  /\ backoff' = Smaller(MaxCooldown, 2 * backoff)
  /\ cool' = backoff'
  /\ Goto(l, "recording") /\ Forget(l)
  /\ UNCHANGED <<marketVars, lockout, errors, serviceVars, lock, misreads, excuse>>

(* The journal's row is written, and the lock released.                    *)
Recorded(l) ==
  /\ At(l, "recording")
  /\ lock' = NoLoop
  /\ Goto(l, "sleep")
  /\ UNCHANGED <<marketVars, timerVars, serviceVars, pollVars, misreads, excuse>>

-----------------------------------------------------------------------------
(* The lifecycle.                                                          *)

Start ==
  /\ ~running /\ starts < MaxStarts /\ starts' = starts + 1
  /\ \E l \in Loops : pc[l] = "off" /\ task' = l /\ Goto(l, "sleep")
  /\ lockout' = 0 /\ cool' = 0 /\ backoff' = Initial /\ errors' = 0
  /\ running' = TRUE /\ clients' = TRUE
  /\ excuse' = IF Waiting \/ shown # lighter THEN "other" ELSE excuse
  /\ UNCHANGED <<marketVars, stopper, victim, pollVars, lock, misreads>>

Stop ==
  /\ running /\ stopper = "idle"
  /\ running' = FALSE
  /\ stopper' = IF task = NoLoop THEN "close" ELSE "join"
  /\ victim' = IF task # NoLoop /\ pc[task] = "off" THEN NoLoop ELSE task
  /\ UNCHANGED <<marketVars, timerVars, task, clients, pollVars, lock, pc, misreads,
                 excuse, starts>>

(* The cancelled task ends, wherever it was suspended.                     *)
Cancelled ==
  /\ victim # NoLoop
  /\ lock' = IF lock = victim THEN NoLoop ELSE lock
  /\ excuse' = IF pc[victim] = "sent" THEN "other" ELSE excuse
  /\ Goto(victim, "off") /\ Forget(victim)
  /\ victim' = NoLoop
  /\ UNCHANGED <<marketVars, timerVars, running, task, clients, stopper, misreads,
                 starts>>

(* stop() forgets the task, which a start may have replaced.               *)
Joined ==
  /\ stopper = "join" /\ victim = NoLoop
  /\ task' = NoLoop
  /\ stopper' = "close"
  /\ UNCHANGED <<marketVars, timerVars, running, clients, victim, pollVars, lock, pc,
                 misreads, excuse, starts>>

(* stop() closes the clients, which a start may have replaced.             *)
Closed ==
  /\ stopper = "close"
  /\ clients' = FALSE
  /\ stopper' = "idle"
  /\ UNCHANGED <<marketVars, timerVars, running, task, victim, pollVars, lock, pc,
                 misreads, excuse, starts>>

(* POST /config/reload.                                                    *)
Recreate ==
  /\ running
  /\ clients' = TRUE
  /\ UNCHANGED <<marketVars, timerVars, running, task, stopper, victim, pollVars,
                 lock, pc, misreads, excuse, starts>>

-----------------------------------------------------------------------------
Poll(l) == Begin(l) \/ ReadBybit(l) \/ ReadLighter(l) \/ Timeout(l) \/ Decide(l)
Hedge(l) == Skip(l) \/ Succeed(l) \/ Fail(l) \/ Recorded(l)
Market == Trade \/ Show \/ Tick
Stopping == Cancelled \/ Joined \/ Closed

Next ==
  \/ \E l \in Loops : Poll(l) \/ Execute(l) \/ Hedge(l)
  \/ Market
  \/ Start \/ Stop \/ Stopping \/ Recreate

(***************************************************************************)
(* The event loop runs every ready task, and every call answers or times   *)
(* out.  Nothing makes anyone trade, start or stop.  Lighter is assumed to *)
(* execute an order that is sent again and again, and to show it; the      *)
(* clock runs.                                                             *)
(***************************************************************************)
Fairness ==
  /\ \A l \in Loops : WF_vars(Poll(l) \/ Hedge(l)) /\ SF_vars(Execute(l))
  /\ WF_vars(Stopping) /\ WF_vars(Show) /\ WF_vars(Tick)

Spec == Init /\ [][Next]_vars /\ Fairness

-----------------------------------------------------------------------------
Ordering == {"sending", "sent", "refused", "recording"}
LoopPlaces == {"off", "sleep", "reading"} \cup Ordering

MarketTypes ==
  /\ bybit \in Positions \cup {0} /\ lighter \in Int /\ shown \in Int
  /\ age \in 0 .. Lag /\ trades \in 0 .. MaxTrades /\ peak \in Nat

TimerTypes ==
  /\ lockout \in 0 .. Wait /\ cool \in 0 .. MaxCooldown
  /\ backoff \in Initial .. MaxCooldown /\ errors \in Nat

ServiceTypes ==
  /\ running \in BOOLEAN /\ clients \in BOOLEAN
  /\ task \in Loops \cup {NoLoop} /\ victim \in Loops \cup {NoLoop}
  /\ lock \in Loops \cup {NoLoop} /\ stopper \in {"idle", "join", "close"}

PollTypes ==
  /\ got \in [Loops -> SUBSET {"bybit", "lighter"}]
  /\ waited \in [Loops -> 0 .. ReadTime]
  /\ readB \in [Loops -> Positions \cup {0}] /\ readL \in [Loops -> Int]

(* "slow": an order was decided on after a poll that outlasted the         *)
(* lockout.  "other": a failed read of Lighter was taken for no position,  *)
(* a start forgot a hedge, or a stop cut one short.                        *)
Excuses == {"none", "slow", "other"}

HistoryTypes ==
  /\ misreads \in 0 .. MaxMisreads /\ starts \in 0 .. MaxStarts
  /\ excuse \in Excuses

(* Types of the service's state: every wait within its time, and the       *)
(* backoff between its two bounds (guarantee 4).                           *)
TypeOK ==
  /\ MarketTypes /\ TimerTypes /\ ServiceTypes /\ PollTypes /\ HistoryTypes
  /\ pc \in [Loops -> LoopPlaces]

(* Guarantee 2: however starts and stops overlap, one order is in flight   *)
(* at a time, its place in the journal included (_lock).                   *)
OneOrder ==
  \A k, l \in Loops : pc[k] \in Ordering /\ pc[l] \in Ordering => k = l

(* Guarantee 1, as far as the code keeps it: an order is sent only on a    *)
(* Lighter position that includes every order executed before, those whose *)
(* answer was lost included; except after a failed read, a start that      *)
(* reset the timers too early, or a poll that outlasted the lockout.       *)
NoDoubleFire ==
  excuse = "none"
    => \A l \in Loops : pc[l] = "sending" => readL[l] = lighter

(* Guarantee 3: the Lighter position never outgrows the largest Bybit      *)
(* position there has been, with the same exceptions.                      *)
NeverOvershoots ==
  excuse = "none" => Magnitude(lighter) <= peak

(* Guarantee 1, as the service states it: "Prevents double-firing while    *)
(* Lighter API is still showing stale data", of a service that is neither  *)
(* misled by a failed read nor stopped and started.                        *)
NeverOnStaleData ==
  excuse # "other" => \A l \in Loops : pc[l] = "sending" => readL[l] = lighter

(* Once stopped, and not started again, every task ends, those a start     *)
(* during the stop has left without a handle included.                     *)
StopEnds == ~running ~> (running \/ \A l \in Loops : pc[l] = "off")

(* A service whose clients a stop has closed under it does not stay        *)
(* running: it counts its errors and stops itself (guarantee 5).           *)
DeafServiceStops == running /\ ~clients ~> ~running \/ clients

(* Guarantee 6: a service that keeps running works the difference off, as  *)
(* far as its cap and Lighter's minimum allow.                             *)
Hedgeable ==
  Smaller(Magnitude(bybit + lighter), Magnitude(bybit)) >= Larger(MinDelta, LighterMin)
Converges == <>[](running /\ clients) => <>[]~Hedgeable

=============================================================================
