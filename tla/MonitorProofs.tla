---------------------------- MODULE MonitorProofs ----------------------------
(***************************************************************************)
(* Proofs about the polling loop and its alerts, for every cooldown, every *)
(* staleness threshold and every error limit.                              *)
(*                                                                         *)
(* The argument for the messages: a message on its way is at most as old   *)
(* as the stamp of the last one, and the cooldown is longer than a message *)
(* lives, so that another one is only sent when none is on its way         *)
(* (InFlight).                                                             *)
(***************************************************************************)
EXTENDS Monitor, FiniteSetTheorems, TLAPS

USE AlertsAssumption, MonitorAssumption

LEMMA AgedTypes ==
  ASSUME NEW limit \in Nat, NEW a \in Int, NEW low \in Int, low <= a, a <= limit
  PROVE  Aged(a, limit) \in low..limit
BY DEF Aged

LEMMA StampTypes ==
  ASSUME system \in [Types -> 0..SystemCooldown], NEW t \in Types, Stamp(t) \/ TooSoon(t)
  PROVE  /\ system' \in [Types -> 0..SystemCooldown]
         /\ system'[t] < SystemCooldown
BY DEF Stamp, TooSoon

LEMMA TellTypes ==
  ASSUME AlertsTypeOK, NEW t \in Types, NEW l, Tell(t, l)
  PROVE  /\ system' \in [Types -> 0..SystemCooldown]
         /\ system'[t] < SystemCooldown
         /\ \/ pc' = "tell" /\ back' = l
            \/ pc' = l /\ back' = back
BY StampTypes DEF Tell, AlertsTypeOK, Goto

LEMMA NotifyTypes ==
  ASSUME AlertsTypeOK, NEW kind \in {"alert", "recovery"}, Notify(kind)
  PROVE  notified' \in 0..Cooldown /\ mail' \subseteq Messages
<1>1. [kind |-> kind, left |-> Attempts, old |-> FALSE] \in Messages
  BY DEF Messages, Attempts
<1>2. mail \subseteq Messages /\ notified \in 0..Cooldown
  BY DEF AlertsTypeOK
<1>3. mail' \subseteq Messages
  BY <1>1, <1>2 DEF Notify
<1>4. notified' \in 0..Cooldown
  BY <1>2 DEF Notify
<1>. QED BY <1>3, <1>4

LEMMA UpdateTypes ==
  ASSUME AlertsTypeOK, OnSpreadUpdate
  PROVE  /\ alerting' \in BOOLEAN /\ recovered' \in 0..Guard
         /\ notified' \in 0..Cooldown /\ mail' \subseteq Messages
<1>1. CASE Rise
  BY <1>1, NotifyTypes DEF Rise, AlertsTypeOK
<1>2. CASE Fall
  <2>1. notified' \in 0..Cooldown /\ mail' \subseteq Messages
    BY <1>2, NotifyTypes DEF Fall
  <2>2. alerting' \in BOOLEAN
    BY <1>2 DEF Fall
  <2>3. recovered' \in 0..Guard
    BY <1>2 DEF Fall
  <2>. QED BY <2>1, <2>2, <2>3
<1>3. CASE Stays /\ UNCHANGED <<alerting, notified, recovered, mail>>
  BY <1>3 DEF AlertsTypeOK
<1>. QED BY <1>1, <1>2, <1>3 DEF OnSpreadUpdate

LEMMA AttemptTypes ==
  ASSUME AlertsTypeOK, Attempt
  PROVE  AlertsTypeOK'
<1>1. PICK m \in mail :
        \/ mail' = mail \ {m}
        \/ m.left > 1 /\ mail' = (mail \ {m}) \cup {[m EXCEPT !.left = @ - 1]}
  BY DEF Attempt
<1>2. m \in Messages
  BY DEF AlertsTypeOK
<1>3. m.left > 1 => [m EXCEPT !.left = @ - 1] \in Messages
  BY <1>2 DEF Messages, Attempts
<1>4. mail' \subseteq Messages
  BY <1>1, <1>3 DEF AlertsTypeOK
<1>. QED BY <1>4 DEF Attempt, AlertsTypeOK

LEMMA AgeTypes ==
  ASSUME AlertsTypeOK, AlertsAge, UNCHANGED <<zone, alerting>>
  PROVE  AlertsTypeOK'
<1>1. mail' \subseteq Messages
  BY DEF AlertsAge, AlertsTypeOK, Messages
<1>2. notified' \in 0..Cooldown /\ recovered' \in 0..Guard
  BY AgedTypes DEF AlertsAge, AlertsTypeOK
<1>3. system' \in [Types -> 0..SystemCooldown]
  BY AgedTypes DEF AlertsAge, AlertsTypeOK
<1>. QED BY <1>1, <1>2, <1>3 DEF AlertsTypeOK

-----------------------------------------------------------------------------
Places ==
  {"fetch", "process", "commit", "checkBybit", "checkLighter", "broadcast", "send", "tell", "sleep"}

LoopTypeOK ==
  /\ pc \in Places
  /\ back \in {"sleep", "checkLighter", "broadcast"}
  /\ age \in [Exchanges -> NoTick..Stale]
  /\ errors \in 0..ErrorLimit /\ tripped \in BOOLEAN

LEMMA TypesSplit == MonitorTypeOK <=> AlertsTypeOK /\ LoopTypeOK
BY DEF MonitorTypeOK, LoopTypeOK, Places

LEMMA FailedTypes ==
  ASSUME AlertsTypeOK, LoopTypeOK, Failed
  PROVE  /\ errors' \in 0..ErrorLimit
         /\ system' \in [Types -> 0..SystemCooldown]
         /\ pc' \in Places /\ back' \in {"sleep", "checkLighter", "broadcast"}
<1>1. errors' \in 0..ErrorLimit
  BY AgedTypes DEF Failed, LoopTypeOK
<1>2. CASE Tell("poll_degraded", "sleep")
  BY <1>1, <1>2, TellTypes DEF LoopTypeOK, Places
<1>3. CASE UNCHANGED system /\ Goto("sleep")
  BY <1>1, <1>3 DEF Goto, LoopTypeOK, AlertsTypeOK, Places
<1>. QED BY <1>2, <1>3 DEF Failed

LEMMA CheckTypes ==
  ASSUME AlertsTypeOK, LoopTypeOK,
         NEW x \in Exchanges, NEW here, NEW next \in {"checkLighter", "broadcast"},
         Check(x, here, next)
  PROVE  AlertsTypeOK' /\ LoopTypeOK'
<1>1. CASE Tell("feed_stale", next) /\ tripped' = TRUE
  BY <1>1, TellTypes DEF Check, AlertsTypeOK, LoopTypeOK, Places
<1>2. CASE UNCHANGED <<tripped, system>> /\ Goto(next)
  BY <1>2 DEF Check, Goto, AlertsTypeOK, LoopTypeOK, Places
<1>. QED BY <1>1, <1>2 DEF Check

LEMMA TypeStep == MonitorTypeOK /\ [Next]_vars => MonitorTypeOK'
<1> SUFFICES ASSUME AlertsTypeOK, LoopTypeOK, [Next]_vars PROVE AlertsTypeOK' /\ LoopTypeOK'
  BY TypesSplit DEF MonitorTypeOK, LoopTypeOK, Places
<1>a. UNCHANGED alertVars => AlertsTypeOK'
  BY DEF alertVars, AlertsTypeOK
<1>b. UNCHANGED loopVars => LoopTypeOK'
  BY DEF loopVars, LoopTypeOK
<1>1. CASE Fetched
  <2>1. PICK b \in FromBybit, l \in FromLighter :
          /\ age' = [x \in Exchanges |-> IF x \in b \cup l THEN 0 ELSE age[x]]
          /\ zone' \in IF b \cup l = {} THEN {zone} ELSE Zones
    BY <1>1 DEF Fetched
  <2>2. age' \in [Exchanges -> NoTick..Stale]
    BY <2>1 DEF LoopTypeOK, NoTick, Stale
  <2>3. zone' \in Zones
    BY <2>1 DEF AlertsTypeOK
  <2>. QED BY <1>1, <2>2, <2>3 DEF Fetched, Goto, AlertsTypeOK, LoopTypeOK, Places
<1>2. CASE FetchTimeout
  BY <1>2, FailedTypes DEF FetchTimeout, AlertsTypeOK, LoopTypeOK
<1>3. CASE Process
  <2>1. /\ alerting' \in BOOLEAN /\ recovered' \in 0..Guard
        /\ notified' \in 0..Cooldown /\ mail' \subseteq Messages
    BY <1>3, UpdateTypes DEF Process, AlertsTypeOK
  <2>. QED BY <1>3, <2>1 DEF Process, Goto, AlertsTypeOK, LoopTypeOK, Places
<1>4. CASE Commit
  <2>1. CASE Failed
    BY <1>4, <2>1, FailedTypes DEF Commit, AlertsTypeOK, LoopTypeOK
  <2>2. CASE Goto("checkBybit") /\ UNCHANGED <<errors, system>>
    BY <1>4, <2>2 DEF Commit, Goto, AlertsTypeOK, LoopTypeOK, Places
  <2>. QED BY <1>4, <2>1, <2>2 DEF Commit
<1>5. CASE CheckFeeds
  BY <1>5, CheckTypes DEF CheckFeeds, Exchanges
<1>6. CASE Broadcast \/ Sent
  BY <1>6, <1>a DEF Broadcast, Sent, Completed, Goto, LoopTypeOK, Places
<1>7. CASE Told
  BY <1>7, <1>a DEF Told, Goto, LoopTypeOK, Places
<1>8. CASE Wake
  BY <1>8, <1>a DEF Wake, Goto, LoopTypeOK, Places
<1>9. CASE Tick
  <2>1. AlertsTypeOK'
    BY <1>9, AgeTypes DEF Tick
  <2>2. \A x \in Exchanges : age[x] # NoTick => Aged(age[x], Stale) \in NoTick..Stale
    BY AgedTypes DEF LoopTypeOK, NoTick, Stale
  <2>3. age' \in [Exchanges -> NoTick..Stale]
    BY <1>9, <2>2 DEF Tick, NoTick, Stale
  <2>. QED BY <1>9, <2>1, <2>3 DEF Tick, LoopTypeOK
<1>10. CASE ResetBreaker
  BY <1>10, <1>a DEF ResetBreaker, LoopTypeOK
<1>11. CASE Attempt /\ UNCHANGED loopVars
  BY <1>11, <1>b, AttemptTypes
<1>12. CASE SetThresholds /\ UNCHANGED loopVars
  BY <1>12, <1>b DEF SetThresholds, AlertsTypeOK
<1>13. CASE UNCHANGED vars
  BY <1>13, <1>a, <1>b DEF vars
<1>. QED
  BY <1>1, <1>2, <1>3, <1>4, <1>5, <1>6, <1>7, <1>8, <1>9, <1>10, <1>11, <1>12, <1>13
  DEF Next, LoopStep

(* The variables keep their types.                                         *)
THEOREM TypeCorrect == Spec => []MonitorTypeOK
<1>1. Init => MonitorTypeOK
  <2> SUFFICES ASSUME Init PROVE AlertsTypeOK /\ LoopTypeOK
    BY TypesSplit
  <2>1. mail = {} /\ system = [t \in Types |-> SystemCooldown]
    BY DEF Init, AlertsInit
  <2>2. AlertsTypeOK
    <3>1. alerting \in BOOLEAN /\ zone \in Zones
      BY DEF Init, AlertsInit
    <3>2. notified \in 0..Cooldown /\ recovered \in 0..Guard
      BY DEF Init, AlertsInit
    <3>3. system \in [Types -> 0..SystemCooldown]
      BY <2>1
    <3>. QED BY <2>1, <3>1, <3>2, <3>3 DEF AlertsTypeOK
  <2>3. LoopTypeOK
    <3>1. age \in [Exchanges -> NoTick..Stale]
      BY DEF Init, NoTick, Stale
    <3>2. errors \in 0..ErrorLimit
      BY DEF Init
    <3>3. tripped \in BOOLEAN
      BY DEF Init
    <3>. QED BY <3>1, <3>2, <3>3 DEF Init, LoopTypeOK, Places
  <2>. QED BY <2>2, <2>3
<1>. QED BY <1>1, TypeStep, PTL DEF Spec

-----------------------------------------------------------------------------
(* A message on its way is the only one, and not older than its stamp.     *)
InFlight ==
  /\ \A m, n \in mail : m = n
  /\ \A m \in mail : IF m.old THEN notified <= 1 ELSE notified = 0

LEMMA NotifyKeeps ==
  ASSUME AlertsTypeOK, InFlight, NEW kind, Notify(kind)
  PROVE  InFlight'
<1>1. CASE UNCHANGED <<notified, mail>>
  BY <1>1 DEF InFlight
<1>2. CASE notified = Cooldown /\ notified' = 0
           /\ mail' = mail \cup {[kind |-> kind, left |-> Attempts, old |-> FALSE]}
  <2>1. mail = {}
    BY <1>2 DEF InFlight
  <2>2. mail' = {[kind |-> kind, left |-> Attempts, old |-> FALSE]}
    BY <1>2, <2>1
  <2>3. \A m \in mail' : ~m.old
    BY <2>2
  <2>. QED BY <1>2, <2>2, <2>3 DEF InFlight
<1>. QED BY <1>1, <1>2 DEF Notify

LEMMA InFlightStep == MonitorTypeOK /\ InFlight /\ [Next]_vars => InFlight'
<1> SUFFICES ASSUME AlertsTypeOK, LoopTypeOK, InFlight, [Next]_vars PROVE InFlight'
  BY TypesSplit
<1>a. UNCHANGED <<notified, mail>> => InFlight'
  BY DEF InFlight
<1>1. CASE Fetched \/ FetchTimeout \/ Commit \/ Broadcast \/ Sent \/ Told \/ Wake
           \/ ResetBreaker
  BY <1>1, <1>a DEF Fetched, FetchTimeout, Commit, Broadcast, Sent, Completed, Told, Wake, ResetBreaker, alertVars
<1>2. CASE CheckFeeds
  BY <1>2, <1>a DEF CheckFeeds, Check
<1>3. CASE Process
  BY <1>3, <1>a, NotifyKeeps DEF Process, OnSpreadUpdate, Rise, Fall
<1>4. CASE Tick
  <2>1. /\ \A m \in mail : ~m.old
        /\ mail' = {[m EXCEPT !.old = TRUE] : m \in mail}
        /\ notified' = Aged(notified, Cooldown)
    BY <1>4 DEF Tick, AlertsAge
  <2>2. mail # {} => notified' = 1
    BY <2>1 DEF InFlight, Aged
  <2>3. \A m, n \in mail' : m = n
    BY <2>1 DEF InFlight
  <2>4. \A m \in mail' : m.old /\ notified' <= 1
    BY <2>1, <2>2 DEF AlertsTypeOK, Messages
  <2>. QED BY <2>3, <2>4 DEF InFlight
<1>5. CASE Attempt
  <2>1. PICK m \in mail :
          \/ mail' = mail \ {m}
          \/ m.left > 1 /\ mail' = (mail \ {m}) \cup {[m EXCEPT !.left = @ - 1]}
    BY <1>5 DEF Attempt
  <2>2. mail' = {} \/ mail' = {[m EXCEPT !.left = @ - 1]}
    BY <2>1 DEF InFlight
  <2>3. m \in Messages /\ [m EXCEPT !.left = @ - 1].old = m.old
    BY DEF AlertsTypeOK, Messages
  <2>. QED BY <1>5, <2>2, <2>3 DEF Attempt, InFlight
<1>6. CASE SetThresholds \/ UNCHANGED vars
  BY <1>6, <1>a DEF SetThresholds, vars, alertVars
<1>. QED BY <1>1, <1>2, <1>3, <1>4, <1>5, <1>6 DEF Next, LoopStep

(* Two messages of a symbol are never on their way at once, so that a      *)
(* recovery cannot overtake its alert.                                     *)
THEOREM MessagesInOrder == Spec => []OneInFlight
<1>1. Init => InFlight
  BY DEF Init, AlertsInit, InFlight
<1>2. InFlight => OneInFlight
  <2>1. ASSUME InFlight PROVE mail = {} \/ \E m \in mail : mail = {m}
    BY <2>1 DEF InFlight
  <2>2. Cardinality({}) = 0 /\ \A m \in mail : Cardinality({m}) = 1
    BY FS_EmptySet, FS_Singleton
  <2>. QED BY <2>1, <2>2 DEF OneInFlight
<1>. QED BY <1>1, <1>2, InFlightStep, TypeCorrect, PTL DEF Spec

=============================================================================
