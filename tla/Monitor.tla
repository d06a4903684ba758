------------------------------- MODULE Monitor -------------------------------
(***************************************************************************)
(* The polling loop of backend/app/main.py for one symbol, over the alert  *)
(* engine of SpreadAlerts: fetch a tick of each exchange, store them,      *)
(* evaluate the alerts, commit, check the age of the feeds for the legacy  *)
(* circuit breaker, broadcast to the WebSocket clients, sleep.             *)
(*                                                                         *)
(* A fetch answers a tick or nothing (a failure, a refusal, Lighter's      *)
(* back-off after HTTP 429); the cycle goes to its end, is given up after  *)
(* 10 s of fetching, or is broken off by an exception of the database.     *)
(* The loop awaits its own system alerts, which have a timeout, and its    *)
(* WebSocket clients, which have none: one that stays connected and does   *)
(* not read holds up the loop for as long as it likes.                     *)
(***************************************************************************)
EXTENDS SpreadAlerts

CONSTANTS
  StaleAfter,  \* circuit_breaker.feed_gap_threshold_s
  ErrorLimit   \* _consecutive_errors from which the loop is degraded

ASSUME MonitorAssumption ==
  /\ StaleAfter \in Nat /\ ErrorLimit \in Nat \ {0}
  /\ Types = {"feed_stale", "poll_degraded"}

VARIABLES
  pc,       \* where poll_loop is
  back,     \* where it goes on after a system alert
  age,      \* age of the latest tick of each exchange
  errors,   \* _consecutive_errors, up to ErrorLimit
  tripped   \* circuit_breaker.tripped

loopVars == <<pc, back, age, errors, tripped>>
vars == <<alertVars, loopVars>>

Exchanges == {"bybit", "lighter"}
NoTick == -1
Stale == StaleAfter + 1

Init ==
  /\ AlertsInit
  /\ pc = "fetch" /\ back = "sleep"
  /\ age = [x \in Exchanges |-> NoTick]
  /\ errors = 0 /\ tripped = FALSE

Goto(l) == pc' = l /\ UNCHANGED back

(* The loop awaits send_system_alert, which returns at once if the last    *)
(* alert of that type is too recent, and goes on at l.                     *)
Tell(t, l) ==
  \/ Stamp(t) /\ pc' = "tell" /\ back' = l
  \/ TooSoon(t) /\ Goto(l)

(* Variant of Failed: the loop leaves it to its supervisor to tell.        *)
FailedUntold ==
  /\ errors' = Aged(errors, ErrorLimit)
  /\ UNCHANGED system /\ Goto("sleep")

(* An error of the cycle, told when there have been too many.              *)
Failed ==
  /\ errors' = Aged(errors, ErrorLimit)
  /\ IF errors' = ErrorLimit
       THEN Tell("poll_degraded", "sleep")
       ELSE UNCHANGED system /\ Goto("sleep")

-----------------------------------------------------------------------------
(* fetch_ticker: a tick, or None for an error of the call or an empty book *)
(* and, from Lighter, while it is backing off.                             *)
FromBybit == {{}, {"bybit"}}
FromLighter == {{}, {"lighter"}}

(* All fetches are answered: the ticks that came become the latest ones.   *)
Fetched ==
  /\ pc = "fetch" /\ Goto("process")
  /\ \E b \in FromBybit, l \in FromLighter :
       /\ age' = [x \in Exchanges |-> IF x \in b \cup l THEN 0 ELSE age[x]]
       /\ zone' \in IF b \cup l = {} THEN {zone} ELSE Zones
  /\ UNCHANGED <<alerting, notified, recovered, mail, system, errors, tripped>>

(* The fetches take more than 10 s: what has been fetched is dropped, and  *)
(* the rest of the cycle is skipped.                                       *)
FetchTimeout ==
  /\ pc = "fetch"
  /\ Failed
  /\ UNCHANGED <<zone, alerting, notified, recovered, mail, age, tripped>>

Both == \A x \in Exchanges : age[x] # NoTick

(* The spread of the latest ticks, however old, is evaluated; an exception *)
(* of the symbol's inserts skips that.                                     *)
Process ==
  /\ pc = "process" /\ Goto("commit")
  /\ \/ Both /\ OnSpreadUpdate
     \/ UNCHANGED <<alerting, notified, recovered, mail>>
  /\ UNCHANGED <<zone, system, age, errors, tripped>>

Commit ==
  /\ pc = "commit"
  /\ \/ Goto("checkBybit") /\ UNCHANGED <<errors, system>>
     \/ Failed
  /\ UNCHANGED <<zone, alerting, notified, recovered, mail, age, tripped>>

(* A feed that has never been seen is not checked.                         *)
IsStale(x) == age[x] = Stale

(* The check of one feed; a new trip is told.                              *)
Check(x, here, next) ==
  /\ pc = here
  /\ IF IsStale(x) /\ ~tripped
       THEN tripped' = TRUE /\ Tell("feed_stale", next)
       ELSE UNCHANGED <<tripped, system>> /\ Goto(next)
  /\ UNCHANGED <<zone, alerting, notified, recovered, mail, age, errors>>

(* Variant of CheckFeeds: the check ends with the first exchange.          *)
CheckFeedsOne == Check("bybit", "checkBybit", "broadcast")

CheckFeeds ==
  \/ Check("bybit", "checkBybit", "checkLighter")
  \/ Check("lighter", "checkLighter", "broadcast")

(* The cycle is completed, which resets the count of errors.               *)
Completed ==
  /\ Goto("sleep") /\ errors' = 0
  /\ UNCHANGED <<alertVars, age, tripped>>

(* Nobody is subscribed to what there is, or the loop awaits a client.     *)
Broadcast ==
  /\ pc = "broadcast"
  /\ \/ Completed
     \/ Goto("send") /\ UNCHANGED <<alertVars, age, errors, tripped>>

(* Every client has its message, or is dropped for an exception.           *)
Sent == pc = "send" /\ Completed

(* The system alert is stored and sent, or given up.                       *)
Told ==
  /\ pc = "tell"
  /\ Goto(back)
  /\ UNCHANGED <<alertVars, age, errors, tripped>>

Wake ==
  /\ pc = "sleep" /\ Goto("fetch")
  /\ UNCHANGED <<alertVars, age, errors, tripped>>

(* What the loop does of itself; a client's answer is not among it.        *)
LoopStep ==
  Fetched \/ FetchTimeout \/ Process \/ Commit \/ CheckFeeds \/ Broadcast \/ Told \/ Wake

(* A unit of time passes, wherever the loop waits.                         *)
Tick ==
  /\ AlertsAge
  /\ age' = [x \in Exchanges |-> IF age[x] = NoTick THEN NoTick ELSE Aged(age[x], Stale)]
  /\ UNCHANGED <<zone, alerting, pc, back, errors, tripped>>

(* /resume of the bot, and the reset of the API.                           *)
ResetBreaker ==
  /\ tripped' = FALSE
  /\ UNCHANGED <<alertVars, pc, back, age, errors>>

Next ==
  \/ LoopStep \/ Sent \/ Tick \/ ResetBreaker
  \/ Attempt /\ UNCHANGED loopVars
  \/ SetThresholds /\ UNCHANGED loopVars

(* The loop goes on, for all that it awaits has a timeout except its       *)
(* WebSocket clients, which owe nothing; so do the tasks that send         *)
(* messages, and time.                                                     *)
Fairness ==
  WF_vars(LoopStep) /\ WF_vars(Tick) /\ WF_vars(Attempt /\ UNCHANGED loopVars)

Spec == Init /\ [][Next]_vars /\ Fairness

-----------------------------------------------------------------------------
MonitorTypeOK ==
  /\ AlertsTypeOK
  /\ pc \in {"fetch", "process", "commit", "checkBybit", "checkLighter", "broadcast", "send",
             "tell", "sleep"}
  /\ back \in {"sleep", "checkLighter", "broadcast"}
  /\ age \in [Exchanges -> NoTick..Stale]
  /\ errors \in 0..ErrorLimit /\ tripped \in BOOLEAN

CyclesComplete == []<>(pc = "broadcast")
SendsReturn == []<>(pc # "send")

(* "WHEN any monitored price feed has no update for longer than 30         *)
(* seconds": a feed that was seen and goes silent trips the breaker.       *)
FeedLossTrips == \A x \in Exchanges : age[x] = Stale ~> tripped \/ age[x] # Stale

(* What holds of that: it does if time and again a cycle gets to its       *)
(* broadcast, whatever the order of cycles, alerts and resets.  A cycle    *)
(* that is given up checks no feed, not even those that were answered, and *)
(* none is checked while a client holds up the loop.                       *)
FeedLossTripsIfComplete == CyclesComplete => FeedLossTrips

(* A loop that fails again and again is told of, or was so less than the   *)
(* cooldown ago, unless it recovers; or a client holds it up for ever      *)
(* after the errors, when nothing more is told.                            *)
DegradedTold ==
  SendsReturn =>
    (errors = ErrorLimit ~> errors < ErrorLimit \/ system["poll_degraded"] < SystemCooldown)

=============================================================================
