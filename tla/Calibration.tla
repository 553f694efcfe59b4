---------------------------- MODULE Calibration ----------------------------
(***************************************************************************)
(* The life of the sensor configuration: the copy in flash, the copies the *)
(* Ads1115Adc objects work on, and the copy the REST server reports.  The  *)
(* main task reads every sensor once per pass of its loop; a sensor whose  *)
(* configuration asks for it calibrates over its first samples; when the   *)
(* calibration is complete the loop stores the configurations of all its   *)
(* sensors that have a type.  Meanwhile a POST can store another           *)
(* configuration, which takes effect at the reboot it schedules, or fail   *)
(* to, and the power can fail.                                             *)
(*                                                                         *)
(* A write_config is one step here; ConfigHandler opens it up.             *)
(***************************************************************************)
EXTENDS Integers

CONSTANTS
  Pins,              \* pins a configuration can name
  Usable,            \* pins of the converters in use
  Readings,          \* values of the converter
  FullScale,         \* the largest of them, 65535
  SAMPLES_TO_COMPLETE_CALIBRATION,
  Posts,             \* the configurations that are stored at first or posted
  Faults             \* {"error"} if erasing and programming flash can fail

\* A configuration is typed unless its type is the empty string.
Configs == [typed : BOOLEAN, min_value : Readings, max_value : Readings,
            calibrate_min_value : BOOLEAN, calibrate_max_value : BOOLEAN]
Sensors == UNION {[S -> Configs] : S \in SUBSET Pins}

NoSensors == [p \in {} |-> 0]

ASSUME CalibrationAssumption ==
  /\ Pins \subseteq Int /\ Usable \subseteq Pins
  /\ FullScale \in Nat
  /\ Readings \subseteq 0 .. FullScale /\ {0, FullScale} \subseteq Readings
  /\ SAMPLES_TO_COMPLETE_CALIBRATION \in Nat \ {0}
  /\ Posts \subseteq Sensors
  /\ Faults \subseteq {"error"}

VARIABLES
  flash,       \* the sensors section of the stored document
  sensors,     \* config_ of the sensor on each pin
  samples,     \* calibration_samples_
  reported,    \* rest_api_data_["config"]
  todo,        \* the pins still to be read in this pass
  statuses,    \* what read returned in this pass
  rebooting,   \* a POST has been stored and its reboot is due
  started,     \* history: the sensors as created at the last boot
  seen,        \* history: the values sampled while calibrating
  acked,       \* history: the configuration a POST stored since the last boot
  unsaved,     \* history: storing the calibration failed since the last boot
  writer       \* history: whose write since the last boot flash is left from:
               \* "none", the "loop", a "post" or a POST that "failed"

vars == <<flash, sensors, samples, reported, todo, statuses, rebooting,
          started, seen, acked, unsaved, writer>>

Calibrating(c) == c.calibrate_min_value \/ c.calibrate_max_value

TypeOK ==
  /\ {flash, sensors, reported, started, acked} \subseteq Sensors
  /\ DOMAIN sensors \subseteq Usable
  /\ samples \in [Pins -> 0 .. SAMPLES_TO_COMPLETE_CALIBRATION]
  /\ todo \subseteq DOMAIN sensors
  /\ statuses \subseteq {"Ok", "Calibrating", "CalibrationComplete"}
  /\ {rebooting, unsaved} \subseteq BOOLEAN
  /\ seen \in [Pins -> SUBSET Readings]
  /\ writer \in {"none", "loop", "post", "failed"}

-----------------------------------------------------------------------------
(* Boot *)

\* SensorFactory::create: a range that is empty becomes the full range, and
\* only pins of converters in use get a sensor.
FullRange(c) ==
  IF c.max_value = c.min_value
  THEN [c EXCEPT !.min_value = 0, !.max_value = FullScale] ELSE c
create(configs) == [p \in DOMAIN configs \cap Usable |-> FullRange(configs[p])]

Fresh(configs) ==
  /\ sensors = create(configs) /\ started = sensors
  /\ samples = [p \in Pins |-> 0] /\ seen = [p \in Pins |-> {}]
  /\ reported = NoSensors /\ acked = NoSensors
  /\ todo = {} /\ statuses = {}
  /\ rebooting = FALSE /\ unsaved = FALSE /\ writer = "none"

Init == flash \in Posts /\ Fresh(flash)

Boot ==
  /\ sensors' = create(flash) /\ started' = sensors'
  /\ samples' = [p \in Pins |-> 0] /\ seen' = [p \in Pins |-> {}]
  /\ reported' = NoSensors /\ acked' = NoSensors
  /\ todo' = {} /\ statuses' = {}
  /\ rebooting' = FALSE /\ unsaved' = FALSE /\ writer' = "none"
  /\ UNCHANGED flash

Reboot == rebooting /\ Boot

PowerFailure == Boot

-----------------------------------------------------------------------------
(* A pass of the main loop *)

StartPass ==
  /\ todo = {} /\ statuses = {} /\ sensors # NoSensors
  /\ todo' = DOMAIN sensors
  /\ UNCHANGED <<flash, sensors, samples, reported, statuses, rebooting,
                 started, seen, acked, unsaved, writer>>

Smaller(a, b) == IF a < b THEN a ELSE b
Larger(a, b) == IF a > b THEN a ELSE b

\* Mutation: the stored limits are where the search starts.
SampledFromStored(c, n, v) ==
  [c EXCEPT !.min_value = IF c.calibrate_min_value THEN Smaller(@, v) ELSE @,
            !.max_value = IF c.calibrate_max_value THEN Larger(@, v) ELSE @]
\* The limits after a value read when n samples were taken before it.
Sampled(c, n, v) ==
  [c EXCEPT
     !.min_value = IF c.calibrate_min_value
                   THEN Smaller(IF n = 0 THEN FullScale ELSE @, v) ELSE @,
     !.max_value = IF c.calibrate_max_value
                   THEN Larger(IF n = 0 THEN 0 ELSE @, v) ELSE @]

\* Mutation: samples are not counted.
NotCounted(p) == samples[p]
\* Mutation: only the samples for a lower limit are counted.
CountedForMin(p) == IF sensors[p].calibrate_min_value THEN samples[p] + 1 ELSE samples[p]
Counted(p) == samples[p] + 1

\* Mutation: one sample more is taken.
EnoughLate(n) == n > SAMPLES_TO_COMPLETE_CALIBRATION
\* Mutation: one sample is enough.
EnoughAtOnce(n) == n >= 1
Enough(n) == n >= SAMPLES_TO_COMPLETE_CALIBRATION

FlagsCleared(c) == [c EXCEPT !.calibrate_min_value = FALSE, !.calibrate_max_value = FALSE]

\* Ads1115Adc::read of a sensor that calibrates.
Calibrate(p, v) ==
  LET c == Sampled(sensors[p], samples[p], v)
  IN  /\ samples' = [samples EXCEPT ![p] = Counted(p)]
      /\ sensors' = [sensors EXCEPT ![p] = IF Enough(Counted(p)) THEN FlagsCleared(c) ELSE c]
      /\ statuses' = statuses \cup
           {IF Enough(Counted(p)) THEN "CalibrationComplete" ELSE "Calibrating"}
      /\ seen' = [seen EXCEPT ![p] = @ \cup {v}]

\* Mutation: the name reports are filed under leaves out the pin.
reportUnderType(p) == [q \in DOMAIN sensors |-> sensors'[p]]
\* RestApiCommandHandler::update, notified at the end of every read.
report(p) ==
  [q \in DOMAIN reported \cup {d \in {p} : sensors[d].typed} |->
     IF q = p THEN sensors'[p] ELSE reported[q]]

\* The next sensor is read.  Its report is lost when the semaphore is not free
\* within ten ticks.
Read(p) ==
  /\ p \in todo /\ \A q \in todo : p <= q
  /\ todo' = todo \ {p}
  /\ IF Calibrating(sensors[p])
     THEN \E v \in Readings : Calibrate(p, v)
     ELSE statuses' = statuses \cup {"Ok"} /\ UNCHANGED <<sensors, samples, seen>>
  /\ reported' \in {reported, report(p)}
  /\ UNCHANGED <<flash, rebooting, started, acked, unsaved, writer>>

\* Mutation: the loop waits for every sensor to have calibrated.
AllCalibrated == statuses = {"CalibrationComplete"}
CalibrationComplete == "CalibrationComplete" \in statuses /\ "Calibrating" \notin statuses

PassRead == todo = {} /\ statuses # {}

\* What the loop has collected: the configurations that have a type.
Collected == [p \in {q \in DOMAIN sensors : sensors[q].typed} |-> sensors[p]]

\* The loop stores what it has collected, or has nothing to store.
EndPass ==
  /\ PassRead
  /\ IF CalibrationComplete
     THEN flash' = Collected /\ writer' = "loop"
     ELSE UNCHANGED <<flash, writer>>
  /\ statuses' = {}
  /\ UNCHANGED <<sensors, samples, reported, todo, rebooting, started, seen, acked, unsaved>>

\* write_config returns false: the document is too long and flash as it was, or
\* erasing or programming has failed, with or without its effect.
FailedWrite(configs, who) ==
  /\ flash' \in {flash} \cup (IF "error" \in Faults THEN {NoSensors, configs} ELSE {})
  /\ writer' = IF flash' = flash THEN writer ELSE who

\* The loop ignores that its write has failed.
StoreFails ==
  /\ PassRead /\ CalibrationComplete
  /\ FailedWrite(Collected, "loop")
  /\ unsaved' = TRUE
  /\ statuses' = {}
  /\ UNCHANGED <<sensors, samples, reported, todo, rebooting, started, seen, acked>>

-----------------------------------------------------------------------------
\* POST /SENSORS in the lwIP thread: stored, and a reboot in three seconds.
Post(configs) ==
  /\ flash' = configs /\ acked' = configs
  /\ rebooting' = TRUE
  /\ writer' = "post"
  /\ UNCHANGED <<sensors, samples, reported, todo, statuses, started, seen, unsaved>>

\* The same when write_config returns false: refused, and no reboot.
PostFails(configs) ==
  /\ FailedWrite(configs, "failed")
  /\ UNCHANGED <<sensors, samples, reported, todo, statuses, rebooting, started, seen, acked,
                 unsaved>>

Loop == StartPass \/ (\E p \in Pins : Read(p)) \/ EndPass \/ StoreFails

Next ==
  \/ Loop \/ Reboot \/ PowerFailure
  \/ \E configs \in Posts : Post(configs) \/ PostFails(configs)

\* The main task comes back from its delays, and the reboot timer fires.
Spec == Init /\ [][Next]_vars /\ WF_vars(Loop) /\ WF_vars(Reboot)

-----------------------------------------------------------------------------
(* Properties *)

\* A calibrated limit is the extreme of the values sampled since the boot, not
\* of anything older; the other limit is the one the sensor was created with.
Exact ==
  \A p \in DOMAIN sensors :
    LET c == sensors[p]  s == started[p]
    IN  IF samples[p] = 0 THEN c = s
        ELSE /\ IF s.calibrate_min_value
                THEN c.min_value \in seen[p] /\ \A v \in seen[p] : c.min_value <= v
                ELSE c.min_value = s.min_value
             /\ IF s.calibrate_max_value
                THEN c.max_value \in seen[p] /\ \A v \in seen[p] : c.max_value >= v
                ELSE c.max_value = s.max_value

\* Sensors that calibrate complete in the same pass, so that the loop never
\* holds back a completed calibration: it stores only when none is under way,
\* and a completed sensor says so just once.
CompleteTogether == ~({"Calibrating", "CalibrationComplete"} \subseteq statuses)

\* Flash is as the boot found it or as the loop left it: no POST has had an effect
\* on it since, stored or failed.
OwnFlash == writer \in {"none", "loop"}

\* Between passes a sensor that has a type and has calibrated since the boot is
\* stored as it is, so that a restart does not calibrate again.
CalibrationStored ==
  todo = {} /\ statuses = {} /\ ~unsaved /\ OwnFlash =>
    \A p \in DOMAIN sensors :
      sensors[p].typed /\ samples[p] > 0 /\ ~Calibrating(sensors[p]) =>
        p \in DOMAIN flash /\ flash[p] = sensors[p]

\* Until then the request to calibrate stays in flash, whenever the power fails:
\* no write of the loop, one that fails included, takes it out, alone or with the
\* whole section, while the sensor is short of samples.
RequestKept ==
  [][OwnFlash /\ OwnFlash' =>
       \A p \in DOMAIN flash \cap Usable :
         Calibrating(flash[p]) /\ ~(p \in DOMAIN flash' /\ Calibrating(flash'[p])) =>
           samples[p] >= SAMPLES_TO_COMPLETE_CALIBRATION]_vars

\* What the REST server reports without a calibration flag is final.
ReportedFinal ==
  \A p \in DOMAIN reported :
    ~Calibrating(reported[p]) => p \in DOMAIN sensors /\ reported[p] = sensors[p]

\* Left alone, every sensor ends its calibration.
CalibrationEnds ==
  <>[][~PowerFailure /\ ~\E configs \in Posts : Post(configs)]_vars
    => <>[](\A p \in DOMAIN sensors : ~Calibrating(sensors[p]))

\* A configuration a POST reported stored is the one the reboot finds.
PostSurvives == rebooting => flash = acked

\* A sensor that measures divides by its range, which is not empty.
RangeNotEmpty ==
  \A p \in DOMAIN sensors :
    ~Calibrating(sensors[p]) => sensors[p].max_value # sensors[p].min_value
============================================================================
