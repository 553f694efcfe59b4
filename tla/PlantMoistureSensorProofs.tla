--------------------- MODULE PlantMoistureSensorProofs ---------------------
(***************************************************************************)
(* The device, for any number of join attempts, blink tasks, pins and any  *)
(* length of the queue: init brings up in order what the loop needs or     *)
(* ends with the LED blinking, the LED tells how the last join ended, only *)
(* credentials that a join has succeeded with are stored, and no press is  *)
(* lost.                                                                   *)
(***************************************************************************)
EXTENDS PlantMoistureSensor, LedProofs

\* Steps of the main task after a join at the boot, or in the loop.
Joined == {"queue", "irq", "task", "attach", "start", "sensors", "check", "rejoining"}

\* What the main task has last asked of the LED, by the step it has come to.
Commanded ==
  /\ caller # "idle" => main \in {"lighting", "relighting"}
  /\ main \in {"join", "joining"} => mode = "blink"
  /\ main \in {"lighting", "relighting"} => mode = "on" /\ joined = "yes"
  /\ main \in Joined => mode = IF joined = "yes" THEN "on" ELSE "blink"

\* Credentials that are about to be stored have been proven.
ProvenFirst == main = "lighting" => wifi_config \in proven

AttemptsLeft == joining = "pause" => attempts < WIFI_RETRIES

\* The interrupt never finds the queue missing.
ButtonInv ==
  /\ ButtonTypeOK
  /\ irq_enabled # {} => Created

\* The blink task that was created last may be yet to begin; elsewhere a delay or
\* a join has come in between.
MayNotHaveBegun ==
  \/ main \in {"join", "sensors", "deleted"}
  \/ main = "joining" /\ attempts < 2

DelaysCome == ~MayNotHaveBegun => Patient

DeviceInv ==
  /\ DeviceTypeOK /\ BlinkInv /\ ButtonInv /\ Commanded /\ DelaysCome
  /\ ProvenFirst /\ OnlyProvenStored /\ AttemptsLeft

-----------------------------------------------------------------------------
(* The LED *)

LEMMA BlinkInvRestart ==
  ASSUME Restart
  PROVE  BlinkInv'
<1>1. /\ lit' = FALSE /\ blink_task_running' = FALSE /\ blink_task_stop' = FALSE
      /\ blink_delay' = min_delay /\ blink' = [b \in Slots |-> "none"]
      /\ caller' = "idle" /\ mode' = "off"
  BY DEF Restart
<1>2. TypeOK'
  <2>1. min_delay \in 0 .. min_delay
    BY LedAssumption
  <2> QED
    BY <1>1, <2>1 DEF TypeOK, BlinkSteps
<1>3. Inv'
  BY <1>1, <1>2 DEF Inv, BlinkSteps, Alive, EndsAlone, StopStands, Ending
<1> QED
  BY <1>1, <1>3 DEF BlinkInv, NoStopPending

\* A blink task that has begun stays so, and its predecessor does not come back.
LEMMA PatientStays ==
  ASSUME BlinkInv, Patient, CheckStopped \/ Sleep \/ \E b \in Slots : BlinkTask(b)
  PROVE  Patient'
<1> USE DEF Patient, BlinkInv, NoStopPending
<1>1. blink \in [Slots -> BlinkSteps]
  BY DEF Inv, TypeOK
<1>2. CASE CheckStopped \/ Sleep
  BY <1>2 DEF CheckStopped, Sleep
<1>3. ASSUME NEW b \in Slots, BlinkTask(b) PROVE Patient'
  BY <1>1, <1>3 DEF BlinkTask, Begin, LightOn, LightOff, CheckStop, ClearRunning, ClearStop, Goto
<1> QED
  BY <1>2, <1>3

\* What the LED does by itself is no command.
LEMMA NoCommand ==
  ASSUME TypeOK, CheckStopped \/ Sleep \/ \E b \in Slots : BlinkTask(b)
  PROVE  ~Command
<1> USE DEF Command, StartBlink, Set
<1>1. CASE CheckStopped \/ Sleep
  BY <1>1 DEF CheckStopped, Sleep
<1>2. ASSUME NEW b \in Slots, BlinkTask(b) PROVE ~Command
  <2>1. /\ caller' = caller /\ blink'[b] # blink[b] /\ blink'[b] # "created"
        /\ blink' \in [Slots -> {"created", blink'[b]} \cup BlinkSteps]
    BY <1>2 DEF BlinkTask, Begin, LightOn, LightOff, CheckStop, ClearRunning, ClearStop, Goto,
                TypeOK, BlinkSteps
  <2>2. ASSUME NEW d \in Delays, StartBlink(d) PROVE FALSE
    BY <2>1, <2>2 DEF TypeOK
  <2>3. ASSUME NEW level \in {"on", "off"}, Set(level) PROVE FALSE
    BY <2>1, <2>3
  <2> QED
    BY <2>2, <2>3
<1> QED
  BY <1>1, <1>2

\* A step of the device is a restart or a step of the LED, patient if it is a
\* command, or leaves it alone.
LEMMA LedMoves ==
  ASSUME TypeOK, DelaysCome, [DeviceNext]_deviceVars
  PROVE  Restart \/ ([Next]_vars /\ [Command => Patient]_vars)
<1> USE DEF DelaysCome, MayNotHaveBegun, MainGoes
<1>1. CASE MainTask
  <2>1. CASE InitWifi
    BY <2>1, DeviceAssumption DEF InitWifi, Next
  <2>2. CASE BootJoins
    BY <2>2 DEF BootJoins, Next, Patient, Settled
  <2>3. CASE Fail
    BY <2>3, DeviceAssumption DEF Fail, Next
  <2>4. CASE LoopJoins
    BY <2>4 DEF LoopJoins, Next
  <2>5. CASE LoopJoinFails
    BY <2>5, DeviceAssumption DEF LoopJoinFails, Next
  <2>6. CASE CheckStopped \/ Sleep
    BY <2>6, NoCommand DEF Next
  <2> QED
    BY <1>1, <2>1, <2>2, <2>3, <2>4, <2>5, <2>6
       DEF MainTask, ConfigInit, Credentials, InitWifiFails, Join, JoinGoesOn, BootJoinFails,
           StoreCredentials, ConstructButtons, AttachToButton, StartRestApi, ReadSensors,
           LinkIsUp, Rejoin, LoopLights
<1>2. ASSUME NEW b \in Slots, BlinkTasks(b) PROVE [Next]_vars /\ [Command => Patient]_vars
  BY <1>2, NoCommand DEF BlinkTasks, Next
<1>3. CASE ButtonTask \/ Network \/ Press
  BY <1>3 DEF ButtonTask, Network, Press
<1>4. CASE UNCHANGED deviceVars
  BY <1>4 DEF deviceVars
<1> QED
  BY <1>1, <1>2, <1>3, <1>4 DEF DeviceNext

LEMMA BlinkInvStep ==
  ASSUME BlinkInv, DelaysCome, [DeviceNext]_deviceVars
  PROVE  BlinkInv'
<1>1. TypeOK
  BY DEF BlinkInv, Inv
<1> QED
  BY <1>1, LedMoves, BlinkInvRestart, InvStep, NoStopStep DEF BlinkInv

\* The delays of the code come wherever a command after start_blink is next: two
\* seconds between the attempts of a join, of which there are at least two if it
\* fails, five before the loop looks at the link.
LEMMA DelaysComeStep ==
  ASSUME BlinkInv, WifiTypeOK, DelaysCome, Commanded, [DeviceNext]_deviceVars
  PROVE  DelaysCome'
<1> USE DEF DelaysCome, MayNotHaveBegun, MainGoes
<1>1. Settled => Patient
  BY DEF Settled, Patient
<1>2. ASSUME UNCHANGED vars, Patient PROVE Patient'
  BY <1>2 DEF vars, Patient
<1>3. CASE MainTask
  <2>1. CASE ConfigInit \/ Credentials \/ InitWifiFails
    BY <1>2, <2>1 DEF ConfigInit, Credentials, InitWifiFails
  <2>2. CASE InitWifi \/ Fail \/ LoopJoinFails
    BY <2>2 DEF InitWifi, Fail, LoopJoinFails
  <2>3. CASE Join
    BY <2>3 DEF Join, StartJoin
  <2>4. CASE JoinGoesOn
    BY <1>1, <1>2, <2>4
       DEF JoinGoesOn, AttemptFails, Fails, TryAgain, Delayed, mainVars
  <2>5. CASE BootJoins \/ LoopJoins
    BY <2>5 DEF BootJoins, LoopJoins, Set, Patient
  <2>6. CASE BootJoinFails
    BY <1>2, <2>6, WifiAssumption DEF BootJoinFails, JoinFails, Last, WifiTypeOK
  <2>7. CASE StoreCredentials \/ LoopLights
    BY <1>2, <2>7 DEF StoreCredentials, LoopLights
  <2>8. CASE ConstructButtons \/ AttachToButton \/ StartRestApi
    BY <1>2, <2>8 DEF ConstructButtons, AttachToButton, StartRestApi
  <2>9. CASE ReadSensors
    BY <1>1, <1>2, <2>9 DEF ReadSensors, Delayed
  <2>10. CASE LinkIsUp \/ Rejoin
    BY <1>2, <2>10 DEF LinkIsUp, Rejoin
  <2>11. CASE (CheckStopped \/ Sleep) /\ UNCHANGED <<mainVars, wifiVars, buttonVars>>
    BY <2>11, PatientStays DEF mainVars, wifiVars
  <2> QED
    BY <1>3, <2>1, <2>2, <2>3, <2>4, <2>5, <2>6, <2>7, <2>8, <2>9, <2>10, <2>11 DEF MainTask
<1>4. ASSUME NEW b \in Slots, BlinkTasks(b) PROVE DelaysCome'
  BY <1>4, PatientStays DEF BlinkTasks, mainVars, wifiVars
<1>5. CASE ButtonTask \/ Network \/ Press
  BY <1>2, <1>5
     DEF ButtonTask, Network, LinkLost, NetworkChanges, Press, mainVars, wifiVars
<1>6. CASE Restart
  BY <1>6 DEF Restart, Patient
<1>7. CASE UNCHANGED deviceVars
  BY <1>2, <1>7 DEF deviceVars, mainVars, wifiVars
<1> QED
  BY <1>3, <1>4, <1>5, <1>6, <1>7 DEF DeviceNext

-----------------------------------------------------------------------------
(* The buttons and the network *)

LEMMA ButtonStep ==
  ASSUME ButtonInv, [DeviceNext]_deviceVars
  PROVE  ButtonInv'
<1> USE ButtonAssumption DEF ButtonInv, ButtonTypeOK, Created
<1>1. CASE CreateQueue
  <2>1. queue' = <<>> /\ <<>> \in Seq(Pins) /\ Len(<<>>) = 0
    BY <1>1 DEF CreateQueue
  <2> QED
    BY <1>1, <2>1 DEF CreateQueue
<1>2. ASSUME NEW p \in Pins, EnableIrq(p) PROVE ButtonInv'
  BY <1>2 DEF EnableIrq
<1>3. CASE CreateTask
  <2>1. queue_task' = <<>> /\ <<>> \in Seq(Pins) /\ Len(<<>>) = 0
    BY <1>3 DEF CreateTask
  <2> QED
    BY <1>3, <2>1 DEF CreateTask
<1>4. CASE attach(ButtonC, "main")
  BY <1>4 DEF attach
<1>5. ASSUME NEW p \in Pins, button_press_callback(p) PROVE ButtonInv'
  <2>1. CASE queue \in Seq(Pins) /\ Len(queue) < QueueLength
    <3>1. Append(queue, p) \in Seq(Pins) /\ Len(Append(queue, p)) = Len(queue) + 1
          /\ Len(queue) \in Nat
      BY <2>1
    <3> QED
      BY <1>5, <2>1, <3>1 DEF button_press_callback, Queued
  <2>2. CASE ~(Len(queue) < QueueLength)
    BY <1>5, <2>2 DEF button_press_callback
  <2>3. queue \in Seq(Pins)
    BY <1>5 DEF button_press_callback
  <2> QED
    BY <2>1, <2>2, <2>3
<1>6. CASE Receive
  <2>1. queue \in Seq(Pins) /\ queue # <<>> /\ Len(queue) <= QueueLength
    BY <1>6 DEF Receive
  <2>2. Head(queue) \in Pins /\ Tail(queue) \in Seq(Pins) /\ Len(Tail(queue)) = Len(queue) - 1
        /\ Len(queue) \in Nat
    BY <2>1
  <2>3. <<Head(queue)>> \in Seq(Pins) /\ Len(<<Head(queue)>>) = 1
    BY <2>2
  <2> QED
    BY <1>6, <2>1, <2>2, <2>3 DEF Receive
<1>7. CASE Notify
  <2>1. queue_task' = <<>> /\ <<>> \in Seq(Pins) /\ Len(<<>>) = 0
    BY <1>7 DEF Notify
  <2> QED
    BY <1>7, <2>1 DEF Notify
<1>8. CASE Restart
  BY <1>8 DEF Restart
<1>9. CASE UNCHANGED buttonVars
  BY <1>9 DEF buttonVars
<1> QED
  BY <1>1, <1>2, <1>3, <1>4, <1>5, <1>6, <1>7, <1>8, <1>9
     DEF DeviceNext, MainTask, ConfigInit, Credentials, InitWifi, InitWifiFails, Join, JoinGoesOn,
         BootJoins, BootJoinFails, StoreCredentials, ConstructButtons, AttachToButton,
         StartRestApi, Fail, ReadSensors, LinkIsUp, Rejoin, LoopJoins, LoopLights, LoopJoinFails,
         BlinkTasks, ButtonTask, Network, Press, deviceVars

LEMMA WifiStep ==
  ASSUME WifiTypeOK, AttemptsLeft, [DeviceNext]_deviceVars
  PROVE  WifiTypeOK' /\ AttemptsLeft'
<1> USE WifiAssumption DEF WifiTypeOK, AttemptsLeft
<1>1. CASE StartJoin
  BY <1>1 DEF StartJoin
<1>2. ASSUME NEW credentials, Joins(credentials) PROVE WifiTypeOK' /\ AttemptsLeft'
  BY <1>2 DEF Joins
<1>3. ASSUME NEW credentials, Fails(credentials)
      PROVE  /\ status' \in {CYW43_LINK_DOWN, CYW43_LINK_JOIN, CYW43_LINK_FAIL}
             /\ UNCHANGED network
  BY <1>3 DEF Fails
<1>4. ASSUME NEW credentials, AttemptFails(credentials) PROVE WifiTypeOK' /\ AttemptsLeft'
  BY <1>3, <1>4 DEF AttemptFails, Last
<1>5. ASSUME NEW credentials, JoinFails(credentials) PROVE WifiTypeOK' /\ AttemptsLeft'
  BY <1>3, <1>5 DEF JoinFails
<1>6. CASE TryAgain
  BY <1>6 DEF TryAgain
<1>7. CASE LinkLost \/ NetworkChanges
  BY <1>7 DEF LinkLost, NetworkChanges
<1>8. CASE Restart
  BY <1>8 DEF Restart
<1>9. CASE UNCHANGED wifiVars
  BY <1>9 DEF wifiVars
<1> QED
  BY <1>1, <1>2, <1>4, <1>5, <1>6, <1>7, <1>8, <1>9
     DEF DeviceNext, MainTask, ConfigInit, Credentials, InitWifi, InitWifiFails, Join, JoinGoesOn,
         BootJoins, BootJoinFails, StoreCredentials, ConstructButtons, AttachToButton,
         StartRestApi, Fail, ReadSensors, LinkIsUp, Rejoin, LoopJoins, LoopLights, LoopJoinFails,
         BlinkTasks, ButtonTask, Network, Press, deviceVars

-----------------------------------------------------------------------------
(* The main task *)

\* What the steps of the main task keep.
MainInv ==
  /\ main \in BootSteps \cup LoopSteps \cup {"deleted"}
  /\ {wifi_config, stored} \subseteq {Right, Wrong, Empty}
  /\ joined \in {"none", "yes", "no"}
  /\ proven \subseteq {Right, Wrong, Empty}
  /\ Commanded /\ ProvenFirst /\ OnlyProvenStored

\* Only commands change what has last been asked of the LED, and only the main
\* task gives them.
LEMMA MainStep ==
  ASSUME TypeOK, MainInv, [DeviceNext]_deviceVars
  PROVE  MainInv'
<1> USE DEF MainInv, BootSteps, LoopSteps, Commanded, Joined, ProvenFirst, OnlyProvenStored
<1>1. CASE MainTask
  <2>1. CASE ConfigInit
    BY <2>1 DEF ConfigInit, MainGoes, vars
  <2>2. CASE Credentials
    BY <2>2 DEF Credentials, MainGoes, vars
  <2>3. CASE InitWifi
    BY <2>3 DEF InitWifi, MainGoes, StartBlink
  <2>4. CASE InitWifiFails
    BY <2>4 DEF InitWifiFails, MainGoes, vars
  <2>5. CASE Join
    BY <2>5 DEF Join, MainGoes, vars
  <2>6. CASE JoinGoesOn
    BY <2>6 DEF JoinGoesOn, mainVars, vars
  <2>7. CASE BootJoins
    BY <2>7 DEF BootJoins, MainGoes, Set
  <2>8. CASE BootJoinFails
    BY <2>8 DEF BootJoinFails, MainGoes, vars
  <2>9. CASE StoreCredentials
    BY <2>9 DEF StoreCredentials, MainGoes, Written, vars
  <2>10. CASE ConstructButtons
    BY <2>10 DEF ConstructButtons, MainGoes, vars
  <2>11. CASE AttachToButton
    BY <2>11 DEF AttachToButton, MainGoes, vars
  <2>12. CASE StartRestApi
    BY <2>12 DEF StartRestApi, MainGoes, vars
  <2>13. CASE Fail
    BY <2>13 DEF Fail, MainGoes, StartBlink
  <2>14. CASE ReadSensors
    BY <2>14 DEF ReadSensors, MainGoes, vars
  <2>15. CASE LinkIsUp
    BY <2>15 DEF LinkIsUp, MainGoes, vars
  <2>16. CASE Rejoin
    BY <2>16 DEF Rejoin, MainGoes, vars
  <2>17. CASE LoopJoins
    BY <2>17 DEF LoopJoins, MainGoes, Set
  <2>18. CASE LoopLights
    BY <2>18 DEF LoopLights, MainGoes, vars
  <2>19. CASE LoopJoinFails
    BY <2>19 DEF LoopJoinFails, MainGoes, StartBlink
  <2>20. CASE (CheckStopped \/ Sleep) /\ UNCHANGED <<mainVars, wifiVars, buttonVars>>
    BY <2>20 DEF CheckStopped, Sleep, mainVars
  <2> QED
    BY <1>1, <2>1, <2>2, <2>3, <2>4, <2>5, <2>6, <2>7, <2>8, <2>9, <2>10, <2>11, <2>12,
       <2>13, <2>14, <2>15, <2>16, <2>17, <2>18, <2>19, <2>20 DEF MainTask
<1>2. ASSUME NEW b \in Slots, BlinkTasks(b) PROVE MainInv'
  BY <1>2 DEF BlinkTasks, BlinkTask, Begin, LightOn, LightOff, CheckStop, ClearRunning,
              ClearStop, mainVars
<1>3. CASE ButtonTask \/ Network \/ Press
  BY <1>3 DEF ButtonTask, Network, Press, mainVars, vars
<1>4. CASE Restart
  BY <1>4 DEF Restart
<1>5. CASE UNCHANGED deviceVars
  BY <1>5 DEF deviceVars, mainVars, vars
<1> QED
  BY <1>1, <1>2, <1>3, <1>4, <1>5 DEF DeviceNext

-----------------------------------------------------------------------------
LEMMA DeviceInvInit == DeviceInit => DeviceInv
<1> SUFFICES ASSUME DeviceInit PROVE DeviceInv
  OBVIOUS
<1>1. BlinkInv
  BY BlinkInvInit DEF DeviceInit
<1>2. WifiTypeOK /\ AttemptsLeft
  BY WifiAssumption DEF DeviceInit, WifiInit, WifiTypeOK, AttemptsLeft
<1>3. ButtonInv
  BY DEF DeviceInit, ButtonInit, ButtonInv, ButtonTypeOK
<1>4. MainInv
  BY DEF DeviceInit, Init, MainInv, BootSteps, Commanded, Joined, ProvenFirst, OnlyProvenStored
<1>5. DelaysCome
  BY DEF DeviceInit, Init, DelaysCome, Patient
<1> QED
  BY <1>1, <1>2, <1>3, <1>4, <1>5 DEF DeviceInv, DeviceTypeOK, MainInv, BlinkInv, Inv, ButtonInv

LEMMA DeviceInvStep ==
  ASSUME DeviceInv, [DeviceNext]_deviceVars
  PROVE  DeviceInv'
<1>1. /\ TypeOK /\ BlinkInv /\ DelaysCome /\ WifiTypeOK /\ AttemptsLeft
      /\ ButtonInv /\ MainInv /\ Commanded
  BY DEF DeviceInv, DeviceTypeOK, MainInv
<1>2. BlinkInv' /\ TypeOK'
  BY <1>1, BlinkInvStep DEF BlinkInv, Inv
<1>3. WifiTypeOK' /\ AttemptsLeft'
  BY <1>1, WifiStep
<1>4. ButtonInv' /\ ButtonTypeOK'
  BY <1>1, ButtonStep DEF ButtonInv
<1>5. MainInv'
  BY <1>1, MainStep
<1>6. DelaysCome'
  BY <1>1, DelaysComeStep
<1> QED
  BY <1>2, <1>3, <1>4, <1>5, <1>6 DEF DeviceInv, DeviceTypeOK, MainInv

LEMMA DeviceInvariance == DeviceSpec => []DeviceInv
  BY DeviceInvInit, DeviceInvStep, PTL DEF DeviceSpec

-----------------------------------------------------------------------------
(* Theorems *)

\* Every variable of the device, its LED, its Wi-Fi and its buttons keeps its
\* type, across restarts: no more attempts than WIFI_RETRIES are counted and
\* the queue of presses never holds more than its length.
THEOREM DeviceTypeCorrect == DeviceSpec => []DeviceTypeOK
<1>1. DeviceInv => DeviceTypeOK
  BY DEF DeviceInv
<1> QED
  BY <1>1, DeviceInvariance, PTL

\* With every user of the LED in place there is one blinking task at a time,
\* whatever commands the boot, the loop and a restart give it.
THEOREM OneBlinkerInDevice == DeviceSpec => []OneBlinker
<1>1. DeviceInv => OneBlinker
  BY InvIsSafe DEF DeviceInv, BlinkInv
<1> QED
  BY <1>1, DeviceInvariance, PTL

\* When set_on has returned to the boot or to the loop, no blink task is left
\* that would write the pin, and a restart leaves it dark.
THEOREM SteadyInDevice == DeviceSpec => []Steady
<1>1. DeviceInv => Steady
  BY InvIsSafe DEF DeviceInv, BlinkInv
<1> QED
  BY <1>1, DeviceInvariance, PTL

\* Between two passes of the loop the LED is lit and left alone when the last
\* join succeeded, and driven by a blink task when it failed or none was made:
\* a request to stop that is still pending never ends a later blinking.
THEOREM LedTellsTheJoin == DeviceSpec => []LedTells
<1>1. DeviceInv => LedTells
  <2> SUFFICES ASSUME DeviceInv, main = "sensors"
               PROVE  IF joined = "yes" THEN lit /\ \A b \in Slots : ~Driving(b)
                      ELSE \E b \in Slots : Driving(b)
    BY DEF LedTells
  <2>1. caller = "idle" /\ mode = IF joined = "yes" THEN "on" ELSE "blink"
    BY DEF DeviceInv, DeviceTypeOK, TypeOK, Commanded, Joined
  <2>2. CASE joined = "yes"
    BY <2>1, <2>2, InvIsSafe DEF DeviceInv, BlinkInv, Steady
  <2>3. CASE joined # "yes"
    BY <2>1, <2>3 DEF DeviceInv, BlinkInv, NoStopPending
  <2> QED
    BY <2>2, <2>3
<1> QED
  BY <1>1, DeviceInvariance, PTL

\* Credentials get into flash only after a join has succeeded with them, over
\* any number of boots, lost documents and networks that come and go.
THEOREM OnlyProvenAreStored == DeviceSpec => []OnlyProvenStored
<1>1. DeviceInv => OnlyProvenStored
  BY DEF DeviceInv
<1> QED
  BY <1>1, DeviceInvariance, PTL

\* The device uses the LED as Led says: what it does to it, in whatever states
\* of the network and the buttons, is what a single caller may do, except that a
\* restart brings it back to its beginning.  And it is patient: the delays in join
\* and in loop, and a join that succeeds at the boot, which is taken to last longer
\* than a blink task needs to begin, come between start_blink and the next command.
\* What is proved of Led for a patient user so holds in the device between restarts.
THEOREM UsesLed == DeviceSpec => Init /\ [][(Next /\ (Command => Patient)) \/ Init']_vars
<1>1. DeviceInit => Init
  BY DEF DeviceInit
<1>2. Restart => Init'
  BY DEF Restart, Init
<1>3. DeviceInv /\ [DeviceNext]_deviceVars => [(Next /\ (Command => Patient)) \/ Init']_vars
  BY <1>2, LedMoves DEF DeviceInv, DeviceTypeOK
<1> QED
  BY <1>1, <1>3, DeviceInvariance, PTL DEF DeviceSpec

\* In the device too, a blinking that has been asked for goes on until the main
\* task asks for something else or the device restarts.
THEOREM BlinksOnInDevice == DeviceSpec => KeepsBlinking
<1>1. DeviceInv => (mode = "blink" => \E b \in Slots : Driving(b))
  BY DEF DeviceInv, BlinkInv, NoStopPending
<1>2. ASSUME DeviceInv, [DeviceNext]_deviceVars
      PROVE  [mode = "blink" /\ mode' = "blink" =>
                \A b \in Slots : Driving(b) => Driving(b)']_vars
  <2>1. CASE Restart
    BY <2>1 DEF Restart
  <2>2. CASE [Next]_vars
    BY <1>2, <2>2, DriverStays DEF DeviceInv
  <2> QED
    BY <1>2, <2>1, <2>2, LedMoves DEF DeviceInv, DeviceTypeOK
<1> QED
  BY <1>1, <1>2, DeviceInvariance, PTL DEF DeviceSpec, KeepsBlinking

\* A press of button C stays in the queue, and the main task's subscription stays
\* with it, until the button task takes the press out to call update.
PressStays ==
  [][Waiting(ButtonC) /\ "main" \in list_subscribers[ButtonC] =>
       \/ (Waiting(ButtonC) /\ "main" \in list_subscribers[ButtonC])'
       \/ Updates(ButtonC, "main")' \/ ~Created']_deviceVars

\* For any length of the queue, no press that it took after the main task has
\* subscribed is lost, short of a restart: of PressIsServed only that the button
\* task is scheduled is left to fairness.
THEOREM PressIsNotLost == DeviceSpec => PressStays
<1>1. ASSUME DeviceInv, [DeviceNext]_deviceVars,
             Waiting(ButtonC), "main" \in list_subscribers[ButtonC]
      PROVE  \/ (Waiting(ButtonC) /\ "main" \in list_subscribers[ButtonC])'
             \/ Updates(ButtonC, "main")' \/ ~Created'
  <2>1. queue \in Seq(Pins) /\ ButtonTypeOK
    BY <1>1 DEF DeviceInv, ButtonInv, ButtonTypeOK, Waiting, Created
  <2>2. CASE UNCHANGED <<queue, list_subscribers>>
    BY <1>1, <2>2 DEF Waiting, Created
  <2>3. ASSUME NEW p \in Pins, button_press_callback(p)
        PROVE  (Waiting(ButtonC) /\ "main" \in list_subscribers[ButtonC])'
    <3>1. PICK i \in 1 .. Len(queue) : queue[i] = ButtonC
      BY <1>1 DEF Waiting
    <3>2. queue' \in {queue, Append(queue, p)} /\ UNCHANGED list_subscribers
      BY <2>3 DEF button_press_callback, Queued
    <3>3. Append(queue, p)[i] = ButtonC /\ i \in 1 .. Len(Append(queue, p))
          /\ Append(queue, p) \in Seq(Pins)
      BY <2>1, <3>1
    <3>4. Created'
      BY <2>1, <3>2, <3>3, ButtonAssumption DEF Created
    <3> QED
      BY <1>1, <3>1, <3>2, <3>3, <3>4 DEF Waiting
  <2>4. CASE Receive
    <3>1. PICK i \in 1 .. Len(queue) : queue[i] = ButtonC
      BY <1>1 DEF Waiting
    <3>2. queue_task' = <<Head(queue)>> /\ queue' = Tail(queue) /\ UNCHANGED list_subscribers
      BY <2>4 DEF Receive
    <3>3. CASE i = 1
      BY <1>1, <2>1, <3>1, <3>2, <3>3 DEF Updates, Notifying
    <3>4. CASE i # 1
      <4>1. /\ i - 1 \in 1 .. Len(Tail(queue)) /\ Tail(queue)[i - 1] = ButtonC
            /\ Tail(queue) \in Seq(Pins)
        BY <2>1, <3>1, <3>4
      <4> QED
        BY <1>1, <3>2, <4>1, ButtonAssumption DEF Waiting, Created
    <3> QED
      BY <3>3, <3>4
  <2>5. CASE attach(ButtonC, "main")
    BY <1>1, <2>1, <2>5 DEF attach, Waiting, Created, ButtonTypeOK
  <2>6. CASE Restart
    BY <2>6 DEF Restart, Created
  <2>7. ~CreateQueue
    BY <1>1 DEF CreateQueue, Waiting, Created
  <2> QED
    BY <1>1, <2>2, <2>3, <2>4, <2>5, <2>6, <2>7
       DEF DeviceNext, MainTask, ConfigInit, Credentials, InitWifi, InitWifiFails, Join, JoinGoesOn,
           BootJoins, BootJoinFails, StoreCredentials, ConstructButtons, AttachToButton,
           StartRestApi, Fail, ReadSensors, LinkIsUp, Rejoin, LoopJoins, LoopLights, LoopJoinFails,
           BlinkTasks, ButtonTask, Network, Press, deviceVars, buttonVars,
           EnableIrq, CreateTask, Notify
<1>2. ASSUME DeviceInv, [DeviceNext]_deviceVars
      PROVE  [Waiting(ButtonC) /\ "main" \in list_subscribers[ButtonC] =>
                \/ (Waiting(ButtonC) /\ "main" \in list_subscribers[ButtonC])'
                \/ Updates(ButtonC, "main")' \/ ~Created']_deviceVars
  BY <1>1, <1>2
<1> QED
  BY <1>2, DeviceInvariance, PTL DEF DeviceSpec, PressStays

-----------------------------------------------------------------------------
(* The boot *)

BeforeButtons == {"config", "credentials", "wifi_init", "join", "joining", "lighting", "queue"}

\* How far the Wi-Fi and the buttons have been brought up at each step of init,
\* and that a join is under way only where the main task waits for it.
BroughtUp ==
  /\ (joining # "no") = (main \in {"joining", "rejoining"})
  /\ main \in BeforeButtons => ~Created /\ irq_enabled = {} /\ ~TaskRuns
  /\ main = "irq" => Created /\ ~TaskRuns
  /\ main = "task" => Created /\ irq_enabled = Pins /\ ~TaskRuns
  /\ main \in {"attach", "start"} \cup LoopSteps => Created /\ irq_enabled = Pins /\ TaskRuns
  /\ main \in {"start"} \cup LoopSteps => "main" \in list_subscribers[ButtonC]

\* The main task leaves the joins and the buttons alone but in its own steps.
LEMMA BroughtUpByMain ==
  ASSUME DeviceInv, BroughtUp, MainTask
  PROVE  BroughtUp'
<1> USE DEF BroughtUp, BeforeButtons, LoopSteps, Created, TaskRuns, MainGoes
<1>1. CASE ConfigInit \/ Credentials \/ InitWifi \/ InitWifiFails
  BY <1>1 DEF ConfigInit, Credentials, InitWifi, InitWifiFails, wifiVars, buttonVars
<1>2. CASE Join
  BY <1>2 DEF Join, StartJoin, buttonVars
<1>3. CASE JoinGoesOn
  BY <1>3 DEF JoinGoesOn, AttemptFails, Fails, TryAgain, mainVars, buttonVars
<1>4. CASE BootJoins \/ BootJoinFails
  BY <1>4 DEF BootJoins, BootJoinFails, Joins, JoinFails, buttonVars
<1>5. CASE StoreCredentials
  BY <1>5 DEF StoreCredentials, wifiVars, buttonVars
<1>6. CASE ConstructButtons
  <2>1. CASE MainGoes("queue", "irq") /\ CreateQueue
    <3>1. queue' = <<>> /\ <<>> \in Seq(Pins)
      BY <2>1 DEF CreateQueue
    <3>2. queue' # None
      BY <3>1, ButtonAssumption
    <3> QED
      BY <1>6, <2>1, <3>2 DEF ConstructButtons, CreateQueue, wifiVars
  <2>2. CASE main = "irq" /\ UNCHANGED main /\ \E p \in Pins : EnableIrq(p)
    BY <1>6, <2>2 DEF ConstructButtons, EnableIrq, wifiVars
  <2>3. CASE MainGoes("irq", "task") /\ irq_enabled = Pins /\ UNCHANGED buttonVars
    BY <1>6, <2>3 DEF ConstructButtons, buttonVars, wifiVars
  <2>4. CASE MainGoes("task", "attach") /\ CreateTask
    <3>1. queue_task' = <<>> /\ <<>> \in Seq(Pins)
      BY <2>4 DEF CreateTask
    <3>2. queue_task' # None
      BY <3>1, ButtonAssumption
    <3> QED
      BY <1>6, <2>4, <3>2 DEF ConstructButtons, CreateTask, wifiVars
  <2> QED
    BY <1>6, <2>1, <2>2, <2>3, <2>4 DEF ConstructButtons
<1>7. CASE AttachToButton
  <2>1. "main" \in list_subscribers'[ButtonC]
    BY <1>7, DeviceAssumption
       DEF AttachToButton, attach, DeviceInv, ButtonInv, ButtonTypeOK
  <2> QED
    BY <1>7, <2>1 DEF AttachToButton, attach, wifiVars
<1>8. CASE StartRestApi \/ Fail
  BY <1>8 DEF StartRestApi, Fail, wifiVars, buttonVars
<1>9. CASE ReadSensors \/ LinkIsUp \/ LoopLights
  BY <1>9 DEF ReadSensors, LinkIsUp, LoopLights, wifiVars, buttonVars
<1>10. CASE Rejoin
  BY <1>10 DEF Rejoin, StartJoin, buttonVars
<1>11. CASE LoopJoins \/ LoopJoinFails
  BY <1>11 DEF LoopJoins, LoopJoinFails, Joins, JoinFails, buttonVars
<1>12. CASE UNCHANGED <<mainVars, wifiVars, buttonVars>>
  BY <1>12 DEF mainVars, wifiVars, buttonVars
<1> QED
  BY <1>1, <1>2, <1>3, <1>4, <1>5, <1>6, <1>7, <1>8, <1>9, <1>10, <1>11, <1>12 DEF MainTask

\* Presses, the button task and the network leave what has been brought up as it is.
LEMMA BroughtUpByOthers ==
  ASSUME DeviceInv, BroughtUp, ButtonTask \/ Network \/ Press
  PROVE  BroughtUp'
<1> USE DEF BroughtUp, Created, TaskRuns
<1>1. ButtonTypeOK /\ (irq_enabled # {} => queue # None)
  BY DEF DeviceInv, ButtonInv
<1>2. CASE Receive /\ UNCHANGED <<mainVars, vars, wifiVars>>
  <2>0. <<>> \in Seq(Pins)
    OBVIOUS
  <2>1. queue \in Seq(Pins) /\ queue # <<>> /\ queue_task # None
    BY <1>1, <1>2, <2>0, ButtonAssumption DEF Receive, ButtonTypeOK
  <2>2. Tail(queue) \in Seq(Pins) /\ <<Head(queue)>> \in Seq(Pins)
    BY <2>1
  <2>3. queue # None /\ queue' # None /\ queue_task' # None
    BY <1>2, <2>1, <2>2, ButtonAssumption DEF Receive
  <2> QED
    BY <1>2, <2>1, <2>3 DEF Receive, mainVars, wifiVars
<1>3. CASE Notify /\ UNCHANGED <<mainVars, vars, wifiVars>>
  <2>1. PICK p \in Pins : queue_task = <<p>>
    BY <1>3 DEF Notify, Notifying
  <2>2. <<p>> \in Seq(Pins) /\ <<>> \in Seq(Pins)
    OBVIOUS
  <2>3. queue_task # None /\ queue_task' # None
    BY <1>3, <2>1, <2>2, ButtonAssumption DEF Notify
  <2> QED
    BY <1>3, <2>3 DEF Notify, mainVars, wifiVars
<1>4. CASE Network
  BY <1>4 DEF Network, LinkLost, NetworkChanges, mainVars, buttonVars
<1>5. CASE Press
  <2>1. PICK p \in Pins : button_press_callback(p)
    BY <1>5 DEF Press
  <2>2. queue \in Seq(Pins)
    BY <1>1, <2>1 DEF button_press_callback, ButtonTypeOK
  <2>3. Append(queue, p) \in Seq(Pins)
    BY <2>2
  <2>4. queue # None /\ queue' # None
    BY <2>1, <2>2, <2>3, ButtonAssumption DEF button_press_callback, Queued
  <2> QED
    BY <1>5, <2>1, <2>4 DEF Press, button_press_callback, mainVars, wifiVars
<1> QED
  BY <1>2, <1>3, <1>4, <1>5 DEF ButtonTask

\* Whenever init has come to a step, what it needs has been brought up, and once:
\* join is never entered while one is under way, queue, interrupts and button
\* task are created in this order and never again without a restart, and in the
\* loop a press always finds all three and the subscription.
THEOREM BroughtUpInOrder == DeviceSpec => []BroughtUp
<1>1. DeviceInit => BroughtUp
  BY DEF DeviceInit, WifiInit, ButtonInit, BroughtUp, BeforeButtons, LoopSteps, Created, TaskRuns
<1>2. ASSUME DeviceInv, BroughtUp, [DeviceNext]_deviceVars PROVE BroughtUp'
  <2>1. ASSUME NEW b \in Slots, BlinkTasks(b) PROVE BroughtUp'
    BY <1>2, <2>1 DEF BlinkTasks, mainVars, wifiVars, buttonVars, BroughtUp, Created, TaskRuns
  <2>2. CASE Restart
    BY <2>2 DEF Restart, BroughtUp, BeforeButtons, LoopSteps, Created, TaskRuns
  <2>3. CASE UNCHANGED deviceVars
    BY <1>2, <2>3
       DEF deviceVars, mainVars, wifiVars, buttonVars, BroughtUp, Created, TaskRuns
  <2> QED
    BY <1>2, <2>1, <2>2, <2>3, BroughtUpByMain, BroughtUpByOthers DEF DeviceNext
<1> QED
  BY <1>1, <1>2, DeviceInvariance, PTL DEF DeviceSpec

\* The steps of init in their order; what follows init comes last.
Stage(step) ==
  CASE step = "config" -> 1 [] step = "credentials" -> 2 [] step = "wifi_init" -> 3
    [] step = "join" -> 4 [] step = "joining" -> 5 [] step = "lighting" -> 6
    [] step = "queue" -> 7 [] step = "irq" -> 8 [] step = "task" -> 9
    [] step = "attach" -> 10 [] step = "start" -> 11 [] step = "failed" -> 12
    [] OTHER -> 13

\* The attempts and the pauses that are left of a join.
AttemptSteps == 2 * (WIFI_RETRIES - attempts) + (IF joining = "attempt" THEN 1 ELSE 0)

\* A step of the main task at the boot gets it to a later stage, or the join closer
\* to its last attempt, or enables one more interrupt, or is a round of set_on,
\* during which the blink task it waits for begins no other one (WaitsOneRound).
BootStep ==
  \/ Stage(main') > Stage(main)
  \/ main = "joining" /\ UNCHANGED main /\ AttemptSteps' < AttemptSteps
  \/ /\ main = "irq" /\ UNCHANGED main
     /\ irq_enabled \in (SUBSET irq_enabled') \ {irq_enabled'} /\ irq_enabled' \subseteq Pins
  \/ main = "lighting" /\ UNCHANGED main /\ caller # "idle"

\* No other task moves the boot, and what has ended it is not left again.
BootAdvances ==
  /\ [](AttemptSteps \in Nat)
  /\ [][~Restart /\ main \in BootSteps => IF MainTask THEN BootStep ELSE UNCHANGED main]_deviceVars
  /\ [][~Restart /\ main \in LoopSteps => main' \in LoopSteps]_deviceVars
  /\ [][main = "deleted" /\ ~Restart => UNCHANGED <<main, mode>>]_deviceVars

\* A step of the main task at the boot is one of these.
LEMMA BootStepOfMain ==
  ASSUME DeviceInv, BroughtUp, MainTask, main \in BootSteps
  PROVE  BootStep
<1> USE DEF BootStep, Stage, MainGoes
<1>1. CASE ConfigInit \/ Credentials \/ InitWifi \/ InitWifiFails \/ Join
  BY <1>1 DEF ConfigInit, Credentials, InitWifi, InitWifiFails, Join
<1>2. CASE JoinGoesOn
  <2>1. main = "joining" /\ UNCHANGED main
    BY <1>2 DEF JoinGoesOn, AttemptFails, Fails, TryAgain, mainVars, BroughtUp, BootSteps
  <2>2. attempts \in Int /\ WIFI_RETRIES \in Int
    BY WifiAssumption DEF DeviceInv, DeviceTypeOK, WifiTypeOK
  <2>3. AttemptSteps' < AttemptSteps
    BY <1>2, <2>2 DEF JoinGoesOn, AttemptFails, Fails, TryAgain, AttemptSteps
  <2> QED
    BY <2>1, <2>3
<1>3. CASE BootJoins \/ BootJoinFails \/ StoreCredentials
  BY <1>3 DEF BootJoins, BootJoinFails, StoreCredentials
<1>4. CASE ConstructButtons
  <2>1. ASSUME NEW p \in Pins, EnableIrq(p), main = "irq", UNCHANGED main
        PROVE  BootStep
    BY <2>1 DEF EnableIrq, DeviceInv, ButtonInv, ButtonTypeOK
  <2>2. CASE MainGoes("queue", "irq") \/ MainGoes("irq", "task") \/ MainGoes("task", "attach")
    BY <2>2
  <2> QED
    BY <1>4, <2>1, <2>2 DEF ConstructButtons
<1>5. CASE AttachToButton \/ StartRestApi \/ Fail
  BY <1>5 DEF AttachToButton, StartRestApi, Fail
<1>6. CASE ReadSensors \/ LinkIsUp \/ Rejoin \/ LoopJoins \/ LoopLights \/ LoopJoinFails
  BY <1>6 DEF ReadSensors, LinkIsUp, Rejoin, LoopJoins, LoopLights, LoopJoinFails, BootSteps
<1>7. CASE (CheckStopped \/ Sleep) /\ UNCHANGED <<mainVars, wifiVars, buttonVars>>
  BY <1>7 DEF CheckStopped, Sleep, mainVars, DeviceInv, Commanded, BootSteps
<1> QED
  BY <1>1, <1>2, <1>3, <1>4, <1>5, <1>6, <1>7 DEF MainTask

\* What the main task does behind the boot.
LEMMA StepBehindBoot ==
  ASSUME DeviceInv, BroughtUp, MainTask
  PROVE  /\ main \in LoopSteps => main' \in LoopSteps
         /\ main # "deleted"
<1> USE DEF BroughtUp, LoopSteps, MainGoes
<1>1. CASE JoinGoesOn
  BY <1>1 DEF JoinGoesOn, AttemptFails, Fails, TryAgain, mainVars
<1>2. CASE (CheckStopped \/ Sleep) /\ UNCHANGED <<mainVars, wifiVars, buttonVars>>
  BY <1>2 DEF CheckStopped, Sleep, mainVars, DeviceInv, Commanded
<1> QED
  BY <1>1, <1>2
     DEF MainTask, ConfigInit, Credentials, InitWifi, InitWifiFails, Join, BootJoins,
         BootJoinFails, StoreCredentials, ConstructButtons, AttachToButton, StartRestApi, Fail,
         ReadSensors, LinkIsUp, Rejoin, LoopJoins, LoopLights, LoopJoinFails

\* Without the main task and a restart, the main task's step and its last command
\* stay.
LEMMA OthersLeaveMain ==
  ASSUME [DeviceNext]_deviceVars, ~MainTask, ~Restart
  PROVE  UNCHANGED <<main, mode>>
<1>1. ASSUME NEW b \in Slots, BlinkTasks(b) PROVE UNCHANGED <<main, mode>>
  BY <1>1 DEF BlinkTasks, BlinkTask, Begin, LightOn, LightOff, CheckStop, ClearRunning, ClearStop,
              mainVars
<1> QED
  BY <1>1 DEF DeviceNext, ButtonTask, Network, Press, deviceVars, mainVars, vars

\* A boot that has failed shows: the main task is gone and a blink task drives
\* the LED, whatever the LED was asked for when the boot failed, until a restart.
FailedBootShows == main = "deleted" => mode = "blink" /\ \E b \in Slots : Driving(b)

\* For any failure of init that ends the main task, be it before the first
\* blinking or after the LED had been set on.
THEOREM FailedBootBlinks == DeviceSpec => []FailedBootShows
<1> DEFINE Asked == main = "deleted" => mode = "blink"
<1>1. DeviceInit => Asked
  BY DEF DeviceInit
<1>2. ASSUME DeviceInv, BroughtUp, Asked, [DeviceNext]_deviceVars PROVE Asked'
  <2>1. CASE MainTask
    <3>1. CASE Fail
      BY <3>1 DEF Fail, StartBlink
    <3>2. CASE JoinGoesOn \/ ((CheckStopped \/ Sleep) /\ UNCHANGED <<mainVars, wifiVars, buttonVars>>)
      <4>1. main' = main /\ main # "deleted"
        BY <1>2, <2>1, <3>2, StepBehindBoot DEF JoinGoesOn, mainVars
      <4> QED
        BY <4>1
    <3> QED
      BY <2>1, <3>1, <3>2
         DEF MainTask, ConfigInit, Credentials, InitWifi, InitWifiFails, Join, BootJoins,
             BootJoinFails, StoreCredentials, ConstructButtons, AttachToButton, StartRestApi,
             ReadSensors, LinkIsUp, Rejoin, LoopJoins, LoopLights, LoopJoinFails, MainGoes
  <2>2. CASE Restart
    BY <2>2 DEF Restart
  <2>3. CASE ~MainTask /\ ~Restart
    BY <1>2, <2>3, OthersLeaveMain
  <2> QED
    BY <2>1, <2>2, <2>3
<1>3. DeviceInv /\ Asked => FailedBootShows
  BY DEF DeviceInv, BlinkInv, NoStopPending, FailedBootShows
<1> QED
  BY <1>1, <1>2, <1>3, DeviceInvariance, BroughtUpInOrder, PTL DEF DeviceSpec

\* For any number of attempts, interrupts and blink tasks, and whatever the
\* network and the presses do, every step of the main task at the boot gets it
\* closer to its end, but for the rounds in which set_on waits for a blink task
\* to end; and what it has come to stays: a loop that goes on, or a main task that
\* is gone with the LED asked to blink.  Of BootEnds only that the tasks are
\* scheduled is left to fairness.
THEOREM BootComesToItsEnd == DeviceSpec => BootAdvances
<1>1. DeviceInv => AttemptSteps \in Nat
  <2>1. ASSUME DeviceInv PROVE attempts \in 0 .. WIFI_RETRIES /\ WIFI_RETRIES \in Nat
    BY <2>1, WifiAssumption DEF DeviceInv, DeviceTypeOK, WifiTypeOK
  <2> QED
    BY <2>1 DEF AttemptSteps
<1>2. ASSUME DeviceInv, BroughtUp, [DeviceNext]_deviceVars
      PROVE  [~Restart /\ main \in BootSteps =>
                IF MainTask THEN BootStep ELSE UNCHANGED main]_deviceVars
  BY <1>2, BootStepOfMain, OthersLeaveMain
<1>3. ASSUME DeviceInv, BroughtUp, [DeviceNext]_deviceVars
      PROVE  [~Restart /\ main \in LoopSteps => main' \in LoopSteps]_deviceVars
  BY <1>3, StepBehindBoot, OthersLeaveMain
<1>4. ASSUME DeviceInv, BroughtUp, [DeviceNext]_deviceVars
      PROVE  [main = "deleted" /\ ~Restart => UNCHANGED <<main, mode>>]_deviceVars
  BY <1>4, StepBehindBoot, OthersLeaveMain
<1> QED
  BY <1>1, <1>2, <1>3, <1>4, DeviceInvariance, BroughtUpInOrder, PTL DEF DeviceSpec, BootAdvances
============================================================================
