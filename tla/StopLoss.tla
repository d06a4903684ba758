------------------------------ MODULE StopLoss ------------------------------
(***************************************************************************)
(* SlTpService of backend/app/services/sl_tp.py: a task polls both         *)
(* positions and closes them when the mark price leaves the band, over the *)
(* closes of EmergencyClose.  Other callers (POST /execute/close_all, the  *)
(* bot) close at the same time.  The handlers run on one event loop, so    *)
(* that a step is what runs between two awaits.                            *)
(*                                                                         *)
(* An API stop clears the flag, cancels the task, waits for it and closes  *)
(* the clients, each wait letting other handlers in: a start among them is *)
(* accepted, for the flag is already clear, and the stop then drops the    *)
(* new task and the new clients.  raced notes such a start.                *)
(*                                                                         *)
(* A member of Closers is a poll task while task says so, and may be       *)
(* another caller while it does not.                                       *)
(***************************************************************************)
EXTENDS EmergencyClose

CONSTANT NoTask    \* _task = None

ASSUME NoTaskAssumption == NoTask \notin Closers

VARIABLES
  running,    \* _running
  task,       \* [Closers -> where the task is]
  current,    \* _task
  clients,    \* _bybit and _lighter are not None
  cancelled,  \* tasks with a cancellation on its way
  stopper,    \* where the stop in progress is, of which there is at most one
  awaited,    \* the task that stop awaits
  breached,   \* the mark price is outside the band around the entry price
  raced       \* history: a start was made while a stop was in progress

serviceVars ==
  <<running, task, current, clients, cancelled, stopper, awaited, breached, raced>>
vars == <<closeVars, serviceVars>>

LiveTasks == {t \in Closers : task[t] # "none"}

Init ==
  /\ CloseInit
  /\ running = FALSE /\ clients = FALSE
  /\ task = [t \in Closers |-> "none"]
  /\ current = NoTask /\ awaited = NoTask /\ cancelled = {}
  /\ stopper = "none"
  /\ breached = FALSE /\ raced = FALSE

Goto(t, s) == task' = [task EXCEPT ![t] = s]

-----------------------------------------------------------------------------
(* The API.                                                                *)
Start ==
  /\ ~running
  /\ \E t \in Closers \ (LiveTasks \cup {awaited}) :
       /\ close[t].at \in {"idle", "over"}
       /\ Goto(t, "poll") /\ current' = t
  /\ running' = TRUE /\ clients' = TRUE
  /\ raced' = (raced \/ stopper # "none")
  /\ UNCHANGED <<closeVars, cancelled, stopper, awaited, breached>>

(* Variant of Stop: the task is left to find out by itself.                *)
StopUncancelled ==
  /\ running /\ stopper = "none"
  /\ running' = FALSE /\ stopper' = "await" /\ awaited' = current
  /\ UNCHANGED <<closeVars, task, current, clients, cancelled, breached, raced>>

Stop ==
  /\ running /\ stopper = "none"
  /\ running' = FALSE /\ stopper' = "await" /\ awaited' = current
  /\ cancelled' = cancelled \cup ({current} \cap LiveTasks)
  /\ UNCHANGED <<closeVars, task, current, clients, breached, raced>>

(* Variant of Joined: the cancelled task is not awaited.                   *)
JoinedEarly == TRUE

(* The awaited task is over, or there was none.                            *)
Joined == awaited = NoTask \/ awaited \notin LiveTasks

StopJoined ==
  /\ stopper = "await" /\ Joined
  /\ stopper' = "closing" /\ awaited' = NoTask /\ current' = NoTask
  /\ UNCHANGED <<closeVars, running, task, clients, cancelled, breached, raced>>

StopClosed ==
  /\ stopper = "closing"
  /\ stopper' = "none" /\ clients' = FALSE
  /\ UNCHANGED <<closeVars, running, task, current, cancelled, awaited, breached, raced>>

(* POST /config/reload makes new clients for a running service.            *)
RecreateClients ==
  /\ running
  /\ clients' = TRUE
  /\ UNCHANGED <<closeVars, running, task, current, cancelled, stopper, awaited,
                 breached, raced>>

(* A caller other than the service closes everything.                      *)
CloseAll ==
  /\ \E c \in Closers \ LiveTasks : BeginClose(c)
  /\ UNCHANGED <<pos, failures, tripped, openings, faults, serviceVars>>

(* The market.                                                             *)
PriceMoves ==
  /\ breached' = ~breached
  /\ UNCHANGED <<closeVars, running, task, current, clients, cancelled, stopper, awaited,
                 raced>>

-----------------------------------------------------------------------------
(* The poll task: it runs unless a cancellation is on its way.             *)
Runs(t, s) == task[t] = s /\ t \notin cancelled

(* The head of the loop, at the start of the task and after each sleep;    *)
(* without clients the read raises, which is logged, and the loop sleeps.  *)
Poll(t) ==
  /\ Runs(t, "poll")
  /\ Goto(t, CASE ~running -> "none" [] running /\ clients -> "read" [] OTHER -> "poll")
  /\ UNCHANGED <<closeVars, running, current, clients, cancelled, stopper, awaited,
                 breached, raced>>

Quiet(t) == Goto(t, "poll") /\ UNCHANGED <<close, disturbed>>

Trigger(t) == Goto(t, "close") /\ BeginClose(t)

(* Variant of Fires: a lone leg is not looked at.                          *)
FiresHedged(seen) == breached /\ Legs(seen) = Exchanges

(* What the loop makes of two good reads.                                  *)
Fires(seen) == breached /\ Legs(seen) # {}

(* A timeout, or a leg read as flat or without a mark price, hides the     *)
(* breach; a misread leg of two also moves the entry price, so that the    *)
(* band may be left for that reason alone.                                 *)
Read(t) ==
  /\ Runs(t, "read")
  /\ \/ Fires(pos) /\ Trigger(t) /\ NoFault
     \/ ~Fires(pos) /\ Quiet(t) /\ NoFault
     \/ Quiet(t) /\ Fault
     \/ Legs(pos) = Exchanges /\ Trigger(t) /\ Fault
  /\ UNCHANGED <<pos, failures, tripped, openings, running, current, clients, cancelled,
                 stopper, awaited, breached, raced>>

(* Variant of Triggered: the service stays on.                             *)
TriggeredRuns(t) ==
  /\ Runs(t, "close") /\ close[t].at = "over"
  /\ Goto(t, "none")
  /\ UNCHANGED <<closeVars, running, current, clients, cancelled, stopper, awaited,
                 breached, raced>>

(* The close is over, well or not: the service stops.                      *)
Triggered(t) ==
  /\ Runs(t, "close") /\ close[t].at = "over"
  /\ Goto(t, "none") /\ running' = FALSE
  /\ UNCHANGED <<closeVars, current, clients, cancelled, stopper, awaited,
                 breached, raced>>

(* The cancellation arrives at whatever the task awaits.                   *)
Cancelled(t) ==
  /\ t \in cancelled
  /\ Goto(t, "none") /\ cancelled' = cancelled \ {t}
  /\ Abandon(t)
  /\ UNCHANGED <<pos, failures, tripped, openings, faults, disturbed, running, current, clients,
                 stopper, awaited, breached, raced>>

Closing(c) == CloseStep(c) /\ c \notin cancelled /\ UNCHANGED serviceVars

TaskStep(t) ==
  Poll(t) \/ Read(t) \/ Triggered(t) \/ Cancelled(t)

Next ==
  \/ Start \/ Stop \/ StopJoined \/ StopClosed \/ RecreateClients
  \/ CloseAll \/ PriceMoves
  \/ OpenPosition /\ UNCHANGED serviceVars
  \/ \E c \in Closers :
       \/ TaskStep(c) \/ Closing(c)
       \/ LateAnswer(c) /\ UNCHANGED serviceVars

(* Handlers and tasks of the event loop go on; every await of the task has *)
(* a timeout or is answered.  Starts, stops and the market owe nothing.    *)
Fairness ==
  /\ WF_vars(StopJoined) /\ WF_vars(StopClosed)
  /\ \A c \in Closers : WF_vars(Closing(c)) /\ WF_vars(TaskStep(c))

Spec == Init /\ [][Next]_vars /\ Fairness

-----------------------------------------------------------------------------
StopLossTypeOK ==
  /\ CloseTypeOK
  /\ running \in BOOLEAN /\ clients \in BOOLEAN /\ breached \in BOOLEAN
  /\ raced \in BOOLEAN
  /\ task \in [Closers -> {"none", "poll", "read", "close"}]
  /\ current \in Closers \cup {NoTask} /\ awaited \in Closers \cup {NoTask}
  /\ cancelled \subseteq Closers
  /\ stopper \in {"none", "await", "closing"}

(* A service that reports itself running is watching: its task is alive,   *)
(* is not being cancelled, and has clients to read with.  Only a start     *)
(* made in the middle of a stop breaks this.                               *)
Watched ==
  running /\ ~raced =>
    clients /\ current \in LiveTasks /\ current \notin cancelled /\ stopper = "none"

(* A stop that has returned leaves no task behind that could still close a *)
(* position, and there are never two of them.                              *)
NoStrayTask ==
  ~raced => /\ LiveTasks \subseteq {current}
            /\ ~running /\ stopper # "await" => LiveTasks = {}

(* A stop of the service returns, even one that comes while a close is on  *)
(* its way.                                                                *)
StopEnds == stopper # "none" ~> stopper = "none"

(* While the service runs with its clients, a position outside the band    *)
(* does not stay unnoticed: it is closed on, unless the price, the account *)
(* or the service changes first.                                           *)
Unnoticed == running /\ clients /\ breached /\ pos # Flat
BreachNoticed == Unnoticed ~> ~Unnoticed

=============================================================================
