------------------------ MODULE PlantMoistureSensor ------------------------
(***************************************************************************)
(* The device: the main task with the LED, the Wi-Fi and the buttons it    *)
(* uses.  init brings them up one after the other; some of its failures    *)
(* end the main task with the LED blinking, others it only logs.  loop     *)
(* then joins the network again when the driver reports that the link      *)
(* failed, and the LED is meant to tell.  Blink tasks, the button task and *)
(* the interrupt run beside it, whether or not the main task still does.   *)
(***************************************************************************)
EXTENDS Led, WifiHelper, ButtonControl

CONSTANTS Wrong,      \* credentials the network does not accept
          Empty,      \* no credentials
          ButtonC     \* the pin of button C

ASSUME DeviceAssumption ==
  /\ Right # Wrong /\ Empty \notin {Right, Wrong}
  /\ ButtonC \in Pins
  /\ {500, 3000} \subseteq Delays

VARIABLES
  main,          \* what the main task does next, or "deleted"
  wifi_config,   \* the credentials in use
  stored,        \* the credentials in flash
  joined,        \* history: what the last join since the boot returned, or "none"
  proven         \* history: the credentials a join has succeeded with

mainVars == <<main, wifi_config, stored, joined, proven>>
deviceVars == <<mainVars, vars, wifiVars, buttonVars>>

BootSteps == {"config", "credentials", "wifi_init", "join", "joining", "lighting",
              "queue", "irq", "task", "attach", "start", "failed"}
LoopSteps == {"sensors", "check", "rejoining", "relighting"}

DeviceTypeOK ==
  /\ TypeOK /\ WifiTypeOK /\ ButtonTypeOK
  /\ main \in BootSteps \cup LoopSteps \cup {"deleted"}
  /\ {wifi_config, stored} \subseteq {Right, Wrong, Empty}
  /\ joined \in {"none", "yes", "no"}
  /\ proven \subseteq {Right, Wrong, Empty}

DeviceInit ==
  /\ Init /\ WifiInit /\ ButtonInit
  /\ main = "config" /\ wifi_config = Empty /\ joined = "none"
  /\ stored \in {Right, Empty}
  /\ proven = {stored} \ {Empty}

MainGoes(from, to) == main = from /\ main' = to

\* Mutation: the main task does not wait.
NoDelay == TRUE
\* A vTaskDelay of the main task, of two seconds or five, has ended.
Delayed == Settled

\* ConfigHandler::write_config may succeed, fail, or lose the document.
Written(credentials) == {credentials, stored, Empty}

-----------------------------------------------------------------------------
(* init *)

ConfigInit ==
  /\ MainGoes("config", "credentials") \/ MainGoes("config", "failed")
  /\ UNCHANGED <<wifi_config, stored, joined, proven, vars, wifiVars, buttonVars>>

\* The stored credentials, or what is entered on the serial line.
Credentials ==
  /\ MainGoes("credentials", "wifi_init")
  /\ wifi_config' \in IF stored # Empty THEN {stored} ELSE {Right, Wrong, Empty}
  /\ UNCHANGED <<stored, joined, proven, vars, wifiVars, buttonVars>>

\* cyw43_arch_init succeeds.
InitWifi ==
  /\ MainGoes("wifi_init", "join")
  /\ StartBlink(500)
  /\ UNCHANGED <<wifi_config, stored, joined, proven, wifiVars, buttonVars>>

InitWifiFails ==
  /\ MainGoes("wifi_init", "failed")
  /\ UNCHANGED <<wifi_config, stored, joined, proven, vars, wifiVars, buttonVars>>

Join ==
  /\ MainGoes("join", "joining") /\ StartJoin
  /\ UNCHANGED <<wifi_config, stored, joined, proven, vars, buttonVars>>

\* An attempt of join that is not its last, at the boot or in the loop.
JoinGoesOn ==
  /\ AttemptFails(wifi_config) \/ (Delayed /\ TryAgain)
  /\ UNCHANGED <<mainVars, vars, buttonVars>>

\* join returns true; the LED is set on.  An exchange of keys and of an address
\* with the network has taken longer than a blink task needs to begin.
BootJoins ==
  /\ MainGoes("joining", "lighting") /\ Joins(wifi_config) /\ Settled
  /\ Set("on")
  /\ joined' = "yes" /\ proven' = proven \cup {wifi_config}
  /\ UNCHANGED <<wifi_config, stored, buttonVars>>

\* Mutation: the credentials are stored whether or not they were accepted.
BootJoinFailsStoring ==
  /\ MainGoes("joining", "queue") /\ JoinFails(wifi_config)
  /\ joined' = "no" /\ stored' \in Written(wifi_config)
  /\ UNCHANGED <<wifi_config, proven, vars, buttonVars>>

\* It returns false, which is logged.
BootJoinFails ==
  /\ MainGoes("joining", "queue") /\ JoinFails(wifi_config)
  /\ joined' = "no"
  /\ UNCHANGED <<wifi_config, stored, proven, vars, buttonVars>>

StoreCredentials ==
  /\ MainGoes("lighting", "queue") /\ caller = "idle"
  /\ stored' \in Written(wifi_config)
  /\ UNCHANGED <<wifi_config, joined, proven, vars, wifiVars, buttonVars>>

\* The constructor of ButtonControl.
ConstructButtons ==
  /\ \/ MainGoes("queue", "irq") /\ CreateQueue
     \/ main = "irq" /\ UNCHANGED main /\ \E p \in Pins : EnableIrq(p)
     \/ MainGoes("irq", "task") /\ irq_enabled = Pins /\ UNCHANGED buttonVars
     \/ MainGoes("task", "attach") /\ CreateTask
  /\ UNCHANGED <<wifi_config, stored, joined, proven, vars, wifiVars>>

AttachToButton ==
  /\ MainGoes("attach", "start") /\ attach(ButtonC, "main")
  /\ UNCHANGED <<wifi_config, stored, joined, proven, vars, wifiVars>>

\* RestApi::start, after the sensors and the command handler have been created.
StartRestApi ==
  /\ MainGoes("start", "sensors") \/ MainGoes("start", "failed")
  /\ UNCHANGED <<wifi_config, stored, joined, proven, vars, wifiVars, buttonVars>>

\* Mutation: the main task is deleted before it starts the blinking.
FailDark ==
  /\ MainGoes("failed", "deleted")
  /\ UNCHANGED <<wifi_config, stored, joined, proven, vars, wifiVars, buttonVars>>

\* set_led_in_failed_mode and vTaskDelete.
Fail ==
  /\ MainGoes("failed", "deleted")
  /\ StartBlink(3000)
  /\ UNCHANGED <<wifi_config, stored, joined, proven, wifiVars, buttonVars>>

-----------------------------------------------------------------------------
(* loop *)

\* The delays, the sensors, and the store when they have calibrated, which
\* may lose the document.
ReadSensors ==
  /\ MainGoes("sensors", "check") /\ Delayed
  /\ stored' \in {stored, Empty}
  /\ UNCHANGED <<wifi_config, joined, proven, vars, wifiVars, buttonVars>>

LinkIsUp ==
  /\ MainGoes("check", "sensors") /\ isJoined
  /\ UNCHANGED <<wifi_config, stored, joined, proven, vars, wifiVars, buttonVars>>

Rejoin ==
  /\ MainGoes("check", "rejoining") /\ ~isJoined /\ StartJoin
  /\ UNCHANGED <<wifi_config, stored, joined, proven, vars, buttonVars>>

LoopJoins ==
  /\ MainGoes("rejoining", "relighting") /\ Joins(wifi_config)
  /\ Set("on")
  /\ joined' = "yes" /\ proven' = proven \cup {wifi_config}
  /\ UNCHANGED <<wifi_config, stored, buttonVars>>

LoopLights ==
  /\ MainGoes("relighting", "sensors") /\ caller = "idle"
  /\ UNCHANGED <<wifi_config, stored, joined, proven, vars, wifiVars, buttonVars>>

\* Mutation: the LED is left as it was.
LoopJoinFailsSilently ==
  /\ MainGoes("rejoining", "sensors") /\ JoinFails(wifi_config)
  /\ joined' = "no"
  /\ UNCHANGED <<wifi_config, stored, proven, vars, buttonVars>>

LoopJoinFails ==
  /\ MainGoes("rejoining", "sensors") /\ JoinFails(wifi_config)
  /\ StartBlink(500)
  /\ joined' = "no"
  /\ UNCHANGED <<wifi_config, stored, proven, buttonVars>>

-----------------------------------------------------------------------------
MainTask ==
  \/ ConfigInit \/ Credentials \/ InitWifi \/ InitWifiFails \/ Join \/ JoinGoesOn
  \/ BootJoins \/ BootJoinFails \/ StoreCredentials \/ ConstructButtons
  \/ AttachToButton \/ StartRestApi \/ Fail
  \/ ReadSensors \/ LinkIsUp \/ Rejoin \/ LoopJoins \/ LoopLights \/ LoopJoinFails
  \/ (CheckStopped \/ Sleep) /\ UNCHANGED <<mainVars, wifiVars, buttonVars>>

BlinkTasks(b) == BlinkTask(b) /\ UNCHANGED <<mainVars, wifiVars, buttonVars>>

ButtonTask == (Receive \/ Notify) /\ UNCHANGED <<mainVars, vars, wifiVars>>

Network == (LinkLost \/ NetworkChanges) /\ UNCHANGED <<mainVars, vars, buttonVars>>

Press ==
  /\ \E p \in Pins : button_press_callback(p)
  /\ UNCHANGED <<mainVars, vars, wifiVars>>

\* A power failure, or the reboot that a POST or button C has asked for.
Restart ==
  /\ main' = "config" /\ wifi_config' = Empty /\ joined' = "none"
  /\ lit' = FALSE /\ blink_task_running' = FALSE /\ blink_task_stop' = FALSE
  /\ blink_delay' = min_delay /\ blink' = [b \in Slots |-> "none"]
  /\ caller' = "idle" /\ mode' = "off"
  /\ status' = CYW43_LINK_DOWN /\ joining' = "no" /\ attempts' = 0
  /\ queue' = None /\ irq_enabled' = {} /\ queue_task' = None
  /\ list_subscribers' = [p \in Pins |-> {}]
  /\ UNCHANGED <<network, stored, proven>>

DeviceNext ==
  \/ MainTask \/ ButtonTask \/ Network \/ Press \/ Restart
  \/ \E b \in Slots : BlinkTasks(b)

\* The scheduler runs every task that is ready, joins time out, someone answers
\* on the serial line.  The main task waits for Settled only where time passes: no
\* blink task can keep it from its next step.
DeviceSpec ==
  /\ DeviceInit /\ [][DeviceNext]_deviceVars
  /\ SF_deviceVars(MainTask) /\ WF_deviceVars(ButtonTask)
  /\ \A b \in Slots : WF_deviceVars(BlinkTasks(b))

-----------------------------------------------------------------------------
(* Properties *)

\* Between two passes of the loop the LED tells how the last join ended: it is
\* lit and no blink task is left to touch it, or a blink task drives it.
LedTells ==
  main = "sensors" =>
    IF joined = "yes" THEN lit /\ \A b \in Slots : ~Driving(b)
    ELSE \E b \in Slots : Driving(b)

\* No credentials get into flash that no join has succeeded with: a mistyped
\* password is asked for again after a restart.
OnlyProvenStored == stored \in proven \cup {Empty}

NoMoreRestarts == <>[][~Restart]_deviceVars

\* Every boot gets to the loop, or ends with the LED blinking for good.
BootEnds ==
  NoMoreRestarts => <>[](main \in LoopSteps \/ (main = "deleted" /\ mode = "blink"))

\* With a network that stays and credentials it accepts, the loop leaves no
\* link in a state of failure, whether it was up before or has never been.
FailedLinkIsJoined ==
  NoMoreRestarts /\ <>[](network = "on" /\ wifi_config = Right /\ main # "deleted")
    => []<>(status # CYW43_LINK_FAIL)

\* A press that the queue took after the main task has subscribed calls its
\* update, unless the device restarts first: whatever the main task is busy
\* with, and also when it is gone.
PressIsServed ==
  Waiting(ButtonC) /\ "main" \in list_subscribers[ButtonC]
    ~> Updates(ButtonC, "main") \/ ~Created
============================================================================
