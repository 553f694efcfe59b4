-------------------------------- MODULE Led --------------------------------
(***************************************************************************)
(* A Led as the main task drives it: set_on, set_off and start_blink on    *)
(* one pin, the blinking done by a task of low priority that start_blink   *)
(* creates and stop_blink asks to end.  The two sides share the flags      *)
(* blink_task_running and blink_task_stop and no lock.                     *)
(*                                                                         *)
(* Time appears in one place.  A vTaskDelay lasts at least 100 ms, and no  *)
(* task of the program keeps both cores for that long, so that every blink *)
(* task that is ready reaches its own next delay before it ends (Settled). *)
(* Nothing here makes the main task wait between two commands: that is up  *)
(* to whoever uses the LED (Patient).                                      *)
(***************************************************************************)
EXTENDS Integers, FiniteSets

CONSTANTS Slots,       \* identities of blink tasks; an ended task's is reused
          Delays,      \* the delays set_blink_delay is called with
          min_delay    \* the delay it limits them to

ASSUME LedAssumption == Delays \subseteq Nat /\ min_delay \in Nat \ {0}

BlinkSteps == {"none", "created", "on", "lit", "dark", "clear_running", "clear_stop"}

VARIABLES
  lit,                  \* the level of the pin
  blink_task_running,
  blink_task_stop,
  blink_delay,
  blink,                \* blink[b]: the step blink task b takes next
  caller,               \* the main task: "idle", "stopping" or "sleeping"
  mode                  \* what it last asked for: "on", "off" or "blink"

vars == <<lit, blink_task_running, blink_task_stop, blink_delay, blink, caller, mode>>

TypeOK ==
  /\ {lit, blink_task_running, blink_task_stop} \subseteq BOOLEAN
  /\ blink_delay \in 0 .. min_delay
  /\ blink \in [Slots -> BlinkSteps]
  /\ caller \in {"idle", "stopping", "sleeping"}
  /\ mode \in {"on", "off", "blink"}

Init ==
  /\ lit = FALSE
  /\ blink_task_running = FALSE /\ blink_task_stop = FALSE
  /\ blink_delay = min_delay
  /\ blink = [b \in Slots |-> "none"]
  /\ caller = "idle" /\ mode = "off"

Settled == \A b \in Slots : blink[b] \in {"none", "lit", "dark"}

-----------------------------------------------------------------------------
(* The main task *)

\* Mutation: the longer of the two delays is taken.
LongerDelay(d) == IF d < min_delay THEN min_delay ELSE d
LimitedDelay(d) == IF d < min_delay THEN d ELSE min_delay

\* Mutation: a task is created whether or not one runs.
AlwaysCreate == TRUE
NeedsTask == ~blink_task_running

\* set_blink_delay and start_blink.  Slots has room for the task (SlotIsFree).
StartBlink(d) ==
  /\ caller = "idle"
  /\ blink_delay' = LimitedDelay(d)
  /\ mode' = "blink"
  /\ IF NeedsTask
     THEN \E b \in Slots : blink[b] = "none" /\ blink' = [blink EXCEPT ![b] = "created"]
     ELSE UNCHANGED blink
  /\ UNCHANGED <<lit, blink_task_running, blink_task_stop, caller>>

\* Mutation: the request to stop is not made.
StopNotRequested == blink_task_stop
StopRequested == blink_task_stop \/ blink_task_running

\* set_on or set_off, up to the wait in stop_blink.
Set(level) ==
  /\ caller = "idle"
  /\ mode' = level
  /\ blink_task_stop' = StopRequested
  /\ caller' = "stopping"
  /\ UNCHANGED <<lit, blink_task_running, blink_delay, blink>>

\* Mutation: stop_blink returns without waiting for the task to end.
NoWait == TRUE
Stopped == ~blink_task_running

\* One round of the wait; after the last one the pin is set.
CheckStopped ==
  /\ caller = "stopping"
  /\ IF Stopped
     THEN caller' = "idle" /\ lit' = (mode = "on")
     ELSE caller' = "sleeping" /\ UNCHANGED lit
  /\ UNCHANGED <<blink_task_running, blink_task_stop, blink_delay, blink, mode>>

Sleep ==
  /\ caller = "sleeping" /\ Settled
  /\ caller' = "stopping"
  /\ UNCHANGED <<lit, blink_task_running, blink_task_stop, blink_delay, blink, mode>>

-----------------------------------------------------------------------------
(* blink_task *)

Goto(b, step) == blink' = [blink EXCEPT ![b] = step]

Begin(b) ==
  /\ blink[b] = "created"
  /\ blink_task_running' = TRUE
  /\ Goto(b, "on")
  /\ UNCHANGED <<lit, blink_task_stop, blink_delay, caller, mode>>

LightOn(b) ==
  /\ blink[b] = "on"
  /\ lit' = TRUE
  /\ Goto(b, "lit")
  /\ UNCHANGED <<blink_task_running, blink_task_stop, blink_delay, caller, mode>>

\* The first delay ends.
LightOff(b) ==
  /\ blink[b] = "lit" /\ Settled
  /\ lit' = FALSE
  /\ Goto(b, "dark")
  /\ UNCHANGED <<blink_task_running, blink_task_stop, blink_delay, caller, mode>>

\* The second delay ends.
CheckStop(b) ==
  /\ blink[b] = "dark" /\ Settled
  /\ Goto(b, IF blink_task_stop THEN "clear_running" ELSE "on")
  /\ UNCHANGED <<lit, blink_task_running, blink_task_stop, blink_delay, caller, mode>>

ClearRunning(b) ==
  /\ blink[b] = "clear_running"
  /\ blink_task_running' = FALSE
  /\ Goto(b, "clear_stop")
  /\ UNCHANGED <<lit, blink_task_stop, blink_delay, caller, mode>>

\* Mutation: the request to stop is left for the next task.
ClearStopForgotten(b) ==
  /\ blink[b] = "clear_stop"
  /\ Goto(b, "none")
  /\ UNCHANGED <<lit, blink_task_running, blink_task_stop, blink_delay, caller, mode>>

ClearStop(b) ==
  /\ blink[b] = "clear_stop"
  /\ blink_task_stop' = FALSE
  /\ Goto(b, "none")
  /\ UNCHANGED <<lit, blink_task_running, blink_delay, caller, mode>>

BlinkTask(b) ==
  \/ Begin(b) \/ LightOn(b) \/ LightOff(b) \/ CheckStop(b)
  \/ ClearRunning(b) \/ ClearStop(b)

Next ==
  \/ \E d \in Delays : StartBlink(d)
  \/ \E level \in {"on", "off"} : Set(level)
  \/ CheckStopped \/ Sleep
  \/ \E b \in Slots : BlinkTask(b)

\* The scheduler runs every task that is ready; commands may never come.
Spec ==
  /\ Init /\ [][Next]_vars
  /\ WF_vars(CheckStopped \/ Sleep)
  /\ \A b \in Slots : WF_vars(BlinkTask(b))

-----------------------------------------------------------------------------
(* What Led asks of its user and does not see to itself: between start_blink  *)
(* and the next command enough time for the task it has created to begin, and *)
(* for that task's predecessor to end.                                        *)

Command ==
  \/ \E d \in Delays : StartBlink(d)
  \/ \E level \in {"on", "off"} : Set(level)

Patient == mode = "blink" => \A b \in Slots : blink[b] \notin {"created", "clear_stop"}

Patiently == [][Command => Patient]_vars

-----------------------------------------------------------------------------
(* Properties *)

\* A task that can still write the pin.
Driving(b) == blink[b] \in BlinkSteps \ {"none", "clear_running", "clear_stop"}

\* Two blink tasks never drive the pin together: a second start_blink does not
\* come before the task of the first has set blink_task_running.
OneBlinker == \A b, c \in Slots : Driving(b) /\ Driving(c) => b = c

\* Once set_on or set_off has returned, the pin keeps its level: no blink task
\* is left that would write it.
Steady ==
  caller = "idle" /\ mode # "blink" =>
    /\ lit = (mode = "on")
    /\ \A b \in Slots : ~Driving(b)

\* set_on and set_off return: no ending task takes back the request to stop
\* that its successor should see.
SetReturns == [](caller # "idle" => <>(caller = "idle"))

\* Asked to blink, and left at that, the LED blinks: no request to stop from
\* before ends the new task.
Blinks ==
  <>[](caller = "idle" /\ mode = "blink") => []<>(lit) /\ []<>(~lit)
============================================================================
