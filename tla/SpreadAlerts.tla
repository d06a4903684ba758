---------------------------- MODULE SpreadAlerts ----------------------------
(***************************************************************************)
(* The alert engine of backend/app/alerts for one symbol: the state        *)
(* machine of on_spread_update with its cooldown and its flapping guard,   *)
(* the messages it sends by tasks that nobody awaits, and the system       *)
(* alerts with a cooldown for each type.                                   *)
(*                                                                         *)
(* Time goes in units that a whole send_telegram, three attempts with      *)
(* their back-off, fits into: a message is gone before the second unit     *)
(* after its own.  A time stamp is kept as its age, up to the age at which *)
(* it no longer matters.  What the metric is compared with is its zone:    *)
(* low (at most the lower threshold), high (at least the upper) or dead.   *)
(***************************************************************************)
EXTENDS Integers, FiniteSets

CONSTANTS
  Cooldown,        \* telegram_alert_cooldown_s
  Guard,           \* re_alert_cooldown
  SystemCooldown,  \* _SYSTEM_COOLDOWN_S
  Types            \* alert types of send_system_alert

ASSUME AlertsAssumption ==
  /\ Cooldown \in Nat /\ Cooldown >= 2
  /\ Guard \in Nat \ {0} /\ SystemCooldown \in Nat \ {0}

VARIABLES
  zone,       \* zone of the metric of the latest ticks
  alerting,   \* the symbol's state is ALERTING
  notified,   \* age of last_notified_ts
  recovered,  \* age of last_recovery_ts
  mail,       \* messages of the symbol on their way
  system      \* [Types -> age of _system_last_sent]

alertVars == <<zone, alerting, notified, recovered, mail, system>>

Zones == {"low", "dead", "high"}
Attempts == 3

Messages == [kind : {"alert", "recovery"}, left : 1..Attempts, old : BOOLEAN]

(* Stamps start at zero; the host has been up for long.                    *)
AlertsInit ==
  /\ zone \in Zones
  /\ alerting = FALSE /\ mail = {}
  /\ notified = Cooldown /\ recovered = Guard
  /\ system = [t \in Types |-> SystemCooldown]

Aged(age, limit) == IF age < limit THEN age + 1 ELSE age

(* A unit of time passes, by which the messages of the last one are gone.  *)
AlertsAge ==
  /\ \A m \in mail : ~m.old
  /\ mail' = {[m EXCEPT !.old = TRUE] : m \in mail}
  /\ notified' = Aged(notified, Cooldown)
  /\ recovered' = Aged(recovered, Guard)
  /\ system' = [t \in Types |-> Aged(system[t], SystemCooldown)]

(* Variant of Notify: nothing is asked of the last message.                *)
NotifyAlways(kind) ==
  \/ /\ notified' = 0
     /\ mail' = mail \cup {[kind |-> kind, left |-> Attempts, old |-> FALSE]}
  \/ UNCHANGED <<notified, mail>>

(* The message of a transition, unless the last one is too recent or the   *)
(* operator has muted the alerts, which may be so at any time.             *)
Notify(kind) ==
  \/ /\ notified = Cooldown
     /\ notified' = 0
     /\ mail' = mail \cup {[kind |-> kind, left |-> Attempts, old |-> FALSE]}
  \/ UNCHANGED <<notified, mail>>

(* NORMAL to ALERTING; the flapping guard holds back the transition itself *)
(* and not its message alone.                                              *)
Rise ==
  /\ ~alerting /\ zone = "high"
  /\ IF recovered < Guard
       THEN UNCHANGED <<alerting, notified, recovered, mail>>
       ELSE alerting' = TRUE /\ Notify("alert") /\ UNCHANGED recovered

(* ALERTING to NORMAL.                                                     *)
Fall ==
  /\ alerting /\ zone = "low"
  /\ alerting' = FALSE /\ recovered' = 0
  /\ Notify("recovery")

Stays == IF alerting THEN zone # "low" ELSE zone # "high"

OnSpreadUpdate ==
  \/ Rise
  \/ Fall
  \/ Stays /\ UNCHANGED <<alerting, notified, recovered, mail>>

(* One attempt of send_telegram, the last of them if it is answered.       *)
Attempt ==
  /\ \E m \in mail :
       \/ mail' = mail \ {m}
       \/ /\ m.left > 1
          /\ mail' = (mail \ {m}) \cup {[m EXCEPT !.left = @ - 1]}
  /\ UNCHANGED <<zone, alerting, notified, recovered, system>>

(* /set: other thresholds put the metric into another zone.                *)
SetThresholds ==
  /\ zone' \in Zones
  /\ UNCHANGED <<alerting, notified, recovered, mail, system>>

(* send_system_alert notes its time before it stores and sends.            *)
Stamp(t) == system[t] = SystemCooldown /\ system' = [system EXCEPT ![t] = 0]
TooSoon(t) == system[t] < SystemCooldown /\ UNCHANGED system

-----------------------------------------------------------------------------
AlertsTypeOK ==
  /\ zone \in Zones /\ alerting \in BOOLEAN
  /\ notified \in 0..Cooldown /\ recovered \in 0..Guard
  /\ mail \subseteq Messages
  /\ system \in [Types -> 0..SystemCooldown]

(* The tasks that send a symbol's messages are not ordered: a recovery     *)
(* overtakes its alert if both are on their way.  The cooldown outlasts    *)
(* the three attempts, so that there is never more than one.               *)
OneInFlight == Cardinality(mail) <= 1

=============================================================================
