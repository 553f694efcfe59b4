----------------------------- MODULE LedProofs -----------------------------
(***************************************************************************)
(* The safety of Led for any set of blink tasks and any delays, if its     *)
(* user leaves it time between commands (Patiently), and why two slots for *)
(* blink tasks are then as good as any number.                             *)
(***************************************************************************)
EXTENDS Led, TLAPS

\* A task between xTaskCreate and the end of its loop.
Alive(b) == blink[b] \in BlinkSteps \ {"none", "clear_stop"}

\* A task that has left its loop has yet to clear blink_task_stop.
Ending(b) == blink[b] = "clear_stop"

\* Beside an ending task there is at most its successor, and that one has not
\* come to the end of its first delay.
EndsAlone ==
  \A b, c \in Slots : Ending(b) /\ b # c => blink[c] \in {"none", "created", "on", "lit"}

\* The task that stop_blink waits for has been asked to stop, and no predecessor
\* of it is left that would take the request back.
StopStands ==
  caller # "idle" /\ blink_task_running =>
    blink_task_stop /\ \A b \in Slots : ~Ending(b)

\* Why two tasks never drive the pin: blink_task_running stands for the one
\* that is alive, but for the time before that task runs; and in that time a patient
\* main task, which has asked to blink, gives no command.
Inv ==
  /\ TypeOK
  /\ \A b, c \in Slots : Alive(b) /\ Alive(c) => b = c
  /\ \A b \in Slots : Alive(b) /\ blink[b] # "created" => blink_task_running
  /\ blink_task_running => \E b \in Slots : Alive(b) /\ blink[b] # "created"
  /\ \A b \in Slots : blink[b] = "created" => caller = "idle" /\ mode = "blink"
  /\ caller = "idle" /\ mode # "blink" => ~blink_task_running /\ lit = (mode = "on")
  /\ EndsAlone /\ StopStands

LEMMA InvInit == Init => Inv
<1> SUFFICES ASSUME Init PROVE Inv
  OBVIOUS
<1>1. \A b \in Slots : blink[b] = "none"
  BY DEF Init
<1>2. TypeOK
  <2>1. min_delay \in 0 .. min_delay
    BY LedAssumption
  <2> QED
    BY <2>1 DEF Init, TypeOK, BlinkSteps
<1> QED
  BY <1>1, <1>2 DEF Init, Inv, BlinkSteps, Alive, EndsAlone, StopStands, Ending

\* A patient command finds no task alive unless blink_task_running says so.
LEMMA CommandSeesTask ==
  ASSUME Inv, Patient, ~blink_task_running
  PROVE  \A b \in Slots : ~Alive(b)
BY DEF Inv, Patient, Alive

LEMMA InvStep ==
  ASSUME Inv, [Next]_vars, [Command => Patient]_vars
  PROVE  Inv'
<1> USE DEF BlinkSteps, EndsAlone, StopStands, Ending
<1>0. CASE UNCHANGED vars
  BY <1>0 DEF vars, Inv, TypeOK, Alive
<1>1. ASSUME NEW d \in Delays, StartBlink(d), Patient PROVE Inv'
  <2>1. blink_delay' \in 0 .. min_delay
    BY <1>1, LedAssumption DEF StartBlink, LimitedDelay
  <2>2. CASE blink_task_running
    <3>1. UNCHANGED <<lit, blink_task_running, blink_task_stop, caller, blink>> /\ mode' = "blink"
      BY <1>1, <2>2 DEF StartBlink, NeedsTask
    <3> QED
      BY <2>1, <3>1 DEF Inv, TypeOK, Alive
  <2>3. CASE ~blink_task_running
    <3>1. PICK b \in Slots : blink' = [blink EXCEPT ![b] = "created"]
      BY <1>1, <2>3 DEF StartBlink, NeedsTask
    <3>2. /\ UNCHANGED <<lit, blink_task_running, blink_task_stop, caller>>
          /\ mode' = "blink" /\ caller = "idle"
      BY <1>1 DEF StartBlink
    <3>3. \A c \in Slots : ~Alive(c)
      BY <1>1, <2>3, CommandSeesTask
    <3> QED
      BY <2>1, <2>3, <3>1, <3>2, <3>3 DEF Inv, TypeOK, Alive
  <2> QED
    BY <2>2, <2>3
<1>2. ASSUME NEW level \in {"on", "off"}, Set(level), Patient PROVE Inv'
  <2>1. \A b \in Slots : blink[b] # "created"
    BY <1>2 DEF Set, Patient, Inv
  <2>2. blink_task_stop' \in BOOLEAN
    BY <1>2 DEF Set, StopRequested, Inv, TypeOK
  <2>3. blink_task_running => \A b \in Slots : blink[b] # "clear_stop"
    BY <1>2 DEF Set, Patient, Inv
  <2>4. /\ blink_task_running => blink_task_stop'
        /\ UNCHANGED <<lit, blink_task_running, blink_delay, blink>>
        /\ mode' = level /\ caller' = "stopping"
    BY <1>2 DEF Set, StopRequested
  <2>5. StopStands' /\ EndsAlone'
    BY <2>3, <2>4 DEF Inv
  <2> QED
    BY <2>1, <2>2, <2>4, <2>5 DEF Inv, TypeOK, Alive
<1>3. CASE CheckStopped
  BY <1>3 DEF CheckStopped, Stopped, Inv, TypeOK, Alive
<1>4. CASE Sleep
  BY <1>4 DEF Sleep, Inv, TypeOK, Alive
<1>5. ASSUME NEW b \in Slots, BlinkTask(b) PROVE Inv'
  <2>1. CASE Begin(b)
    BY <2>1 DEF Begin, Goto, Inv, TypeOK, Alive
  <2>2. CASE LightOn(b)
    BY <2>2 DEF LightOn, Goto, Inv, TypeOK, Alive
  <2>3. CASE LightOff(b)
    <3>1. /\ blink[b] = "lit" /\ blink' = [blink EXCEPT ![b] = "dark"] /\ lit' = FALSE
          /\ UNCHANGED <<blink_task_running, blink_task_stop, blink_delay, caller, mode>>
      BY <2>3 DEF LightOff, Goto
    <3>2. \A c \in Slots : ~Ending(c)
      BY <2>3 DEF LightOff, Settled
    <3> QED
      BY <3>1, <3>2 DEF Inv, TypeOK, Alive
  <2>4. CASE CheckStop(b)
    BY <2>4 DEF CheckStop, Goto, Inv, TypeOK, Alive
  <2>5. CASE ClearRunning(b)
    BY <2>5 DEF ClearRunning, Goto, Inv, TypeOK, Alive
  <2>6. CASE ClearStop(b)
    BY <2>6 DEF ClearStop, Goto, Inv, TypeOK, Alive
  <2> QED
    BY <1>5, <2>1, <2>2, <2>3, <2>4, <2>5, <2>6 DEF BlinkTask
<1> QED
  BY <1>0, <1>1, <1>2, <1>3, <1>4, <1>5 DEF Next, Command

LEMMA InvIsSafe == Inv => OneBlinker /\ Steady
  BY DEF Inv, OneBlinker, Steady, Driving, Alive, BlinkSteps

LEMMA InvAlways == Spec /\ Patiently => []Inv
BY InvInit, InvStep, PTL DEF Spec, Patiently

-----------------------------------------------------------------------------
(* Blinking, once asked for *)

\* Why a request to stop from before never ends the new blinking: while the
\* main task wants the LED to blink, a request that is still pending belongs to
\* a task that is about to take it back.
NoStopPending ==
  /\ blink_task_stop /\ (~blink_task_running \/ mode = "blink") =>
       \E b \in Slots : blink[b] = "clear_stop"
  /\ mode = "blink" => \A b \in Slots : blink[b] # "clear_running"
  /\ mode = "blink" => \E b \in Slots : Driving(b)

BlinkInv == Inv /\ NoStopPending

\* A task that starts or goes on blinking keeps doing so.
LEMMA NoStopStep ==
  ASSUME BlinkInv, [Next]_vars
  PROVE  NoStopPending'
<1> USE DEF BlinkInv, NoStopPending, Driving, BlinkSteps
<1>0. blink \in [Slots -> BlinkSteps]
  BY DEF Inv, TypeOK
<1>1. ASSUME NEW d \in Delays, StartBlink(d) PROVE NoStopPending'
  <2>1. mode' = "blink" /\ caller = "idle" /\ UNCHANGED <<blink_task_running, blink_task_stop>>
    BY <1>1 DEF StartBlink
  <2>2. mode # "blink" => ~blink_task_running
    BY <2>1 DEF Inv
  <2>3. \A b \in Slots : blink[b] # "clear_running"
    BY <2>2 DEF Inv, Alive
  <2>4. blink_task_stop => \E b \in Slots : blink[b] = "clear_stop"
    BY <2>2
  <2>5. CASE blink_task_running
    <3>1. UNCHANGED blink
      BY <1>1, <2>5 DEF StartBlink, NeedsTask
    <3>2. \E b \in Slots : Driving(b)
      BY <2>2, <2>5
    <3> QED
      BY <2>1, <2>3, <2>4, <3>1, <3>2
  <2>6. CASE ~blink_task_running
    <3>1. PICK b \in Slots : blink[b] = "none" /\ blink' = [blink EXCEPT ![b] = "created"]
      BY <1>1, <2>6 DEF StartBlink, NeedsTask
    <3> QED
      BY <1>0, <2>1, <2>3, <2>4, <3>1
  <2> QED
    BY <2>5, <2>6
<1>2. ASSUME NEW level \in {"on", "off"}, Set(level) PROVE NoStopPending'
  BY <1>2 DEF Set, StopRequested
<1>3. CASE CheckStopped \/ Sleep
  BY <1>3 DEF CheckStopped, Sleep
<1>4. ASSUME NEW b \in Slots, BlinkTask(b) PROVE NoStopPending'
  <2>1. CASE Begin(b)
    BY <1>0, <2>1 DEF Begin, Goto
  <2>2. CASE LightOn(b)
    BY <1>0, <2>2 DEF LightOn, Goto
  <2>3. CASE LightOff(b)
    BY <1>0, <2>3 DEF LightOff, Goto
  <2>4. CASE CheckStop(b)
    <3>1. mode = "blink" => ~blink_task_stop
      BY <2>4 DEF CheckStop, Settled
    <3> QED
      BY <1>0, <2>4, <3>1 DEF CheckStop, Goto
  <2>5. CASE ClearRunning(b)
    BY <1>0, <2>5 DEF ClearRunning, Goto
  <2>6. CASE ClearStop(b)
    BY <1>0, <2>6 DEF ClearStop, Goto
  <2> QED
    BY <1>4, <2>1, <2>2, <2>3, <2>4, <2>5, <2>6 DEF BlinkTask
<1>5. CASE UNCHANGED vars
  BY <1>5 DEF vars
<1> QED
  BY <1>1, <1>2, <1>3, <1>4, <1>5 DEF Next

LEMMA BlinkInvInit == Init => BlinkInv
<1> SUFFICES ASSUME Init PROVE BlinkInv
  OBVIOUS
<1>1. NoStopPending
  BY DEF Init, NoStopPending
<1> QED
  BY <1>1, InvInit DEF BlinkInv

LEMMA BlinkInvAlways == Spec /\ Patiently => []BlinkInv
<1>1. BlinkInv /\ [Next]_vars /\ [Command => Patient]_vars => BlinkInv'
  BY InvStep, NoStopStep DEF BlinkInv
<1> QED
  BY BlinkInvInit, <1>1, PTL DEF Spec, Patiently

\* What a step leaves of a blinking LED.
LEMMA DriverStays ==
  ASSUME BlinkInv, [Next]_vars, mode = "blink", mode' = "blink", NEW b \in Slots, Driving(b)
  PROVE  Driving(b)'
<1> USE DEF Driving, BlinkSteps
<1>0. blink \in [Slots -> BlinkSteps]
  BY DEF BlinkInv, Inv, TypeOK
<1>1. ASSUME NEW d \in Delays, StartBlink(d) PROVE Driving(b)'
  BY <1>0, <1>1 DEF StartBlink
<1>2. ASSUME NEW level \in {"on", "off"}, Set(level) PROVE Driving(b)'
  BY <1>2 DEF Set
<1>3. CASE CheckStopped \/ Sleep \/ UNCHANGED vars
  BY <1>3 DEF CheckStopped, Sleep, vars
<1>4. ASSUME NEW c \in Slots, BlinkTask(c) PROVE Driving(b)'
  <2>1. CASE b # c
    BY <1>0, <1>4, <2>1
    DEF BlinkTask, Begin, LightOn, LightOff, CheckStop, ClearRunning, ClearStop, Goto
  <2>2. CASE b = c
    <3>1. ASSUME CheckStop(c) PROVE ~blink_task_stop
      BY <3>1 DEF BlinkInv, NoStopPending, CheckStop, Settled
    <3> QED
      BY <1>0, <1>4, <2>2, <3>1
      DEF BlinkTask, Begin, LightOn, LightOff, CheckStop, ClearRunning, ClearStop, Goto
  <2> QED
    BY <2>1, <2>2
<1> QED
  BY <1>1, <1>2, <1>3, <1>4 DEF Next

-----------------------------------------------------------------------------
(* Theorems.  What the LED does is proved for a user that is patient; that    *)
(* the device is one is UsesLed in PlantMoistureSensorProofs.                 *)

\* The variables keep their types, and no delay exceeds min_delay, whatever
\* commands come when.
THEOREM TypeCorrect == Spec => []TypeOK
<1>1. Init => TypeOK
  BY InvInit DEF Inv
<1>2. ASSUME TypeOK, [Next]_vars PROVE TypeOK'
  <2> USE <1>2 DEF TypeOK, BlinkSteps
  <2>1. ASSUME NEW d \in Delays, StartBlink(d) PROVE TypeOK'
    <3>1. LimitedDelay(d) \in 0 .. min_delay
      BY LedAssumption DEF LimitedDelay
    <3> QED
      BY <2>1, <3>1 DEF StartBlink
  <2>2. ASSUME NEW level \in {"on", "off"}, Set(level) PROVE TypeOK'
    BY <2>2 DEF Set, StopRequested
  <2>3. CASE CheckStopped \/ Sleep \/ UNCHANGED vars
    BY <2>3 DEF CheckStopped, Sleep, vars
  <2>4. ASSUME NEW b \in Slots, BlinkTask(b) PROVE TypeOK'
    BY <2>4 DEF BlinkTask, Begin, LightOn, LightOff, CheckStop, ClearRunning, ClearStop, Goto
  <2> QED
    BY <1>2, <2>1, <2>2, <2>3, <2>4 DEF Next
<1> QED
  BY <1>1, <1>2, PTL DEF Spec

\* Two blink tasks never drive the pin together if no command follows start_blink
\* before its task has begun: led.cpp leaves that to its user, and without it a
\* second start_blink, which sees the flag still down, creates a second blinker.
THEOREM AtMostOneBlinker == Spec /\ Patiently => []OneBlinker
  BY InvIsSafe, InvAlways, PTL

\* After set_on or set_off has returned, nothing else writes the pin, if these too
\* leave the task of a start_blink before them the time to begin: one that has
\* not is not stopped.
THEOREM SetIsSteady == Spec /\ Patiently => []Steady
  BY InvIsSafe, InvAlways, PTL

\* Two blink tasks at most exist at a time, one that is ending and one behind it.
TwoTasks ==
  \A a, b, c \in Slots :
    a # b /\ b # c /\ a # c => "none" \in {blink[a], blink[b], blink[c]}

\* However often a patient user starts and stops the LED, there are no more than two
\* blink tasks: memory for two of them is enough, and so are two slots here.
THEOREM AtMostTwoTasks == Spec /\ Patiently => []TwoTasks
<1>1. ASSUME Inv PROVE TwoTasks
  <2> SUFFICES ASSUME NEW a \in Slots, NEW b \in Slots, NEW c \in Slots,
                      a # b, b # c, a # c,
                      blink[a] # "none", blink[b] # "none", blink[c] # "none"
               PROVE  FALSE
    BY DEF TwoTasks
  <2>1. \A d \in {a, b, c} : Ending(d) \/ Alive(d)
    BY <1>1 DEF Inv, TypeOK, Alive, Ending
  <2>2. \A d, e \in {a, b, c} : Ending(d) /\ Ending(e) => d = e
    BY <1>1 DEF Inv, EndsAlone, Ending
  <2>3. \A d, e \in {a, b, c} : Alive(d) /\ Alive(e) => d = e
    BY <1>1 DEF Inv
  <2> QED
    BY <2>1, <2>2, <2>3
<1> QED
  BY <1>1, InvAlways, PTL

\* With two slots, a patient start_blink always finds one for the task it creates:
\* that there are no more of them restricts nothing.
THEOREM SlotIsFree ==
  ASSUME NEW b1 \in Slots, NEW b2 \in Slots, b1 # b2
  PROVE  Spec /\ Patiently =>
           [](Patient /\ NeedsTask => \E b \in Slots : blink[b] = "none")
<1>1. ASSUME Inv, Patient, NeedsTask PROVE \E b \in Slots : blink[b] = "none"
  <2>1. ~Alive(b1) /\ ~Alive(b2)
    BY <1>1, CommandSeesTask DEF NeedsTask
  <2>2. blink[b1] = "none" \/ blink[b2] = "none"
    BY <1>1, <2>1 DEF Inv, TypeOK, EndsAlone, Ending, Alive
  <2> QED
    BY <2>2
<1> QED
  BY <1>1, InvAlways, PTL

\* While stop_blink waits, no blink task begins another round, and none is created.
LastRound ==
  [][caller # "idle" =>
       \A b \in Slots :
         /\ blink[b] = "none" => blink'[b] = "none"
         /\ blink[b] = "dark" => blink'[b] \in {"dark", "clear_running"}]_vars

\* The task that stop_blink waits for ends with the delay it is in: of SetReturns
\* only that it is scheduled is left to fairness.
THEOREM WaitsOneRound == Spec /\ Patiently => LastRound
<1>1. ASSUME Inv, [Next]_vars, caller # "idle", NEW b \in Slots
      PROVE  /\ blink[b] = "none" => blink'[b] = "none"
             /\ blink[b] = "dark" => blink'[b] \in {"dark", "clear_running"}
  <2>0. blink \in [Slots -> BlinkSteps]
    BY <1>1 DEF Inv, TypeOK
  <2>1. ASSUME UNCHANGED blink
        PROVE  /\ blink[b] = "none" => blink'[b] = "none"
               /\ blink[b] = "dark" => blink'[b] \in {"dark", "clear_running"}
    BY <2>1
  <2>2. CASE CheckStopped \/ Sleep \/ UNCHANGED vars
    BY <2>1, <2>2 DEF CheckStopped, Sleep, vars
  <2>3. ASSUME NEW c \in Slots, BlinkTask(c)
        PROVE  /\ blink[b] = "none" => blink'[b] = "none"
               /\ blink[b] = "dark" => blink'[b] \in {"dark", "clear_running"}
    <3>1. CASE b = c
      <4>1. blink[b] = "dark" => blink_task_stop
        BY <1>1 DEF Inv, Alive, BlinkSteps, StopStands
      <4> QED
        BY <2>0, <2>3, <3>1, <4>1
        DEF BlinkTask, Begin, LightOn, LightOff, CheckStop, ClearRunning, ClearStop, Goto
    <3>2. CASE b # c
      BY <2>0, <2>3, <3>2
      DEF BlinkTask, Begin, LightOn, LightOff, CheckStop, ClearRunning, ClearStop, Goto
    <3> QED
      BY <3>1, <3>2
  <2>4. ~(\E d \in Delays : StartBlink(d)) /\ ~(\E level \in {"on", "off"} : Set(level))
    BY <1>1 DEF StartBlink, Set
  <2> QED
    BY <1>1, <2>2, <2>3, <2>4 DEF Next
<1>2. ASSUME Inv, [Next]_vars
      PROVE  [caller # "idle" =>
                \A b \in Slots :
                  /\ blink[b] = "none" => blink'[b] = "none"
                  /\ blink[b] = "dark" => blink'[b] \in {"dark", "clear_running"}]_vars
  BY <1>1, <1>2
<1> QED
  BY <1>2, InvAlways, PTL DEF Spec, LastRound

\* While the LED is to blink some task drives it, and a task that does goes on.
KeepsBlinking ==
  /\ [](mode = "blink" => \E b \in Slots : Driving(b))
  /\ [][mode = "blink" /\ mode' = "blink" =>
          \A b \in Slots : Driving(b) => Driving(b)']_vars

\* No request to stop, made for an earlier task, ends the blinking, and start_blink
\* during the blinking ends none: of Blinks only that the task is scheduled is left
\* to fairness.
THEOREM BlinksOn == Spec /\ Patiently => KeepsBlinking
<1>1. BlinkInv => (mode = "blink" => \E b \in Slots : Driving(b))
  BY DEF BlinkInv, NoStopPending
<1>2. ASSUME BlinkInv, [Next]_vars
      PROVE  [mode = "blink" /\ mode' = "blink" =>
                \A b \in Slots : Driving(b) => Driving(b)']_vars
  BY <1>2, DriverStays
<1> QED
  BY <1>1, <1>2, BlinkInvAlways, PTL DEF Spec, KeepsBlinking
============================================================================
