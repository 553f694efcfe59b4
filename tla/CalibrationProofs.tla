------------------------- MODULE CalibrationProofs -------------------------
(***************************************************************************)
(* For any pins, readings and number of samples: calibrated limits are the *)
(* extremes of the samples, sensors complete together, a completed         *)
(* calibration is stored, what is reported without a calibration flag is   *)
(* final, and only a calibration, or a later POST that fails, loses a      *)
(* posted configuration, and only a calibration empties a range.           *)
(***************************************************************************)
EXTENDS Calibration, TLAPS

N == SAMPLES_TO_COMPLETE_CALIBRATION

\* A sensor that was created to calibrate.
Asked(p) == Calibrating(started[p])

\* What a sensor keeps of what it was created with: its flags until its samples
\* are complete, everything if it was not asked to calibrate.
KeepsRequest ==
  /\ DOMAIN started = DOMAIN sensors
  /\ \A p \in DOMAIN sensors :
       /\ ~Asked(p) => samples[p] = 0 /\ sensors[p] = started[p]
       /\ Asked(p) /\ samples[p] < N =>
            /\ sensors[p].calibrate_min_value = started[p].calibrate_min_value
            /\ sensors[p].calibrate_max_value = started[p].calibrate_max_value
       /\ Asked(p) /\ samples[p] = N => ~Calibrating(sensors[p])
       /\ samples[p] = 0 => seen[p] = {}

\* One more sample, if one is missing.
Bumped(n) == IF n < N THEN n + 1 ELSE N

\* Sensors that calibrate have the same number of samples, but for those that
\* this pass has still to read.
Together ==
  \A p, q \in DOMAIN sensors :
    Asked(p) /\ Asked(q) =>
      /\ (p \in todo /\ q \in todo) \/ (p \notin todo /\ q \notin todo) => samples[p] = samples[q]
      /\ p \in todo /\ q \notin todo => samples[q] = Bumped(samples[p])

\* What read returned in this pass is true of a sensor it has read.
StatusesTrue ==
  /\ "CalibrationComplete" \in statuses =>
       \E q \in DOMAIN sensors \ todo : Asked(q) /\ samples[q] = N
  /\ "Calibrating" \in statuses =>
       \E q \in DOMAIN sensors \ todo : Asked(q) /\ samples[q] < N

\* A sensor with a type and all its samples is stored, or will be at the end of the
\* pass.
StoredOrDue ==
  ~unsaved /\ OwnFlash =>
    \A p \in DOMAIN sensors :
      sensors[p].typed /\ Asked(p) /\ samples[p] = N =>
        \/ p \in DOMAIN flash /\ flash[p] = sensors[p]
        \/ "CalibrationComplete" \in statuses

\* Without a POST, flash asks no sensor to calibrate that was not created to.
FlashKept ==
  OwnFlash =>
    \A p \in DOMAIN flash \cap Usable :
      p \in DOMAIN sensors /\ (Calibrating(flash[p]) => Asked(p))

IInv ==
  /\ TypeOK /\ KeepsRequest /\ Exact /\ Together /\ StatusesTrue
  /\ StoredOrDue /\ FlashKept
  /\ DOMAIN reported \subseteq DOMAIN sensors /\ ReportedFinal

USE CalibrationAssumption

-----------------------------------------------------------------------------
(* Configurations *)

LEMMA SensorsAreConfigs ==
  ASSUME NEW f \in Sensors
  PROVE  DOMAIN f \subseteq Pins /\ f \in [DOMAIN f -> Configs]
  BY DEF Sensors

LEMMA ConfigsAreSensors ==
  ASSUME NEW S \in SUBSET Pins, NEW f \in [S -> Configs]
  PROVE  f \in Sensors
  BY DEF Sensors

LEMMA NoneAreSensors == NoSensors \in Sensors /\ DOMAIN NoSensors = {}
<1>1. {} \in SUBSET Pins /\ NoSensors \in [{} -> Configs]
  BY DEF NoSensors
<1> QED
  BY <1>1, ConfigsAreSensors

LEMMA PostsAreSensors == Posts \subseteq Sensors
  OBVIOUS

\* What the factory makes of a configuration keeps its flags.
LEMMA FullRangeEffect ==
  ASSUME NEW c \in Configs
  PROVE  FullRange(c) \in Configs /\ (Calibrating(FullRange(c)) <=> Calibrating(c))
  BY DEF Configs, FullRange, Calibrating

LEMMA CreateEffect ==
  ASSUME NEW configs \in Sensors
  PROVE  /\ create(configs) \in Sensors
         /\ DOMAIN create(configs) = DOMAIN configs \cap Usable
         /\ \A p \in DOMAIN configs \cap Usable :
              Calibrating(create(configs)[p]) <=> Calibrating(configs[p])
<1>1. \A p \in DOMAIN configs : configs[p] \in Configs /\ p \in Pins
  BY SensorsAreConfigs
<1>2. create(configs) \in [DOMAIN configs \cap Usable -> Configs]
  BY <1>1, FullRangeEffect DEF create
<1>3. DOMAIN configs \cap Usable \in SUBSET Pins
  BY <1>1
<1>4. create(configs) \in Sensors
  BY <1>2, <1>3, ConfigsAreSensors
<1> QED
  BY <1>1, <1>2, <1>4, FullRangeEffect DEF create

LEMMA FlagsClearedEffect ==
  ASSUME NEW c \in Configs
  PROVE  /\ FlagsCleared(c) \in Configs /\ ~Calibrating(FlagsCleared(c))
         /\ FlagsCleared(c).min_value = c.min_value
         /\ FlagsCleared(c).max_value = c.max_value
  BY DEF FlagsCleared, Configs, Calibrating

\* One sample of a sensor that calibrates.
LEMMA CalibrateEffect ==
  ASSUME TypeOK, KeepsRequest,
         NEW p \in DOMAIN sensors, NEW v \in Readings,
         Calibrating(sensors[p]), Calibrate(p, v)
  PROVE  /\ Asked(p) /\ samples[p] < N
         /\ samples' = [samples EXCEPT ![p] = samples[p] + 1]
         /\ samples'[p] = Bumped(samples[p])
         /\ seen' = [seen EXCEPT ![p] = seen[p] \cup {v}]
         /\ sensors' \in Sensors /\ DOMAIN sensors' = DOMAIN sensors
         /\ \A q \in DOMAIN sensors : q # p => sensors'[q] = sensors[q]
         /\ sensors'[p].min_value =
              IF started[p].calibrate_min_value
              THEN Smaller(IF samples[p] = 0 THEN FullScale ELSE sensors[p].min_value, v)
              ELSE sensors[p].min_value
         /\ sensors'[p].max_value =
              IF started[p].calibrate_max_value
              THEN Larger(IF samples[p] = 0 THEN 0 ELSE sensors[p].max_value, v)
              ELSE sensors[p].max_value
         /\ samples[p] + 1 < N =>
              /\ sensors'[p].calibrate_min_value = started[p].calibrate_min_value
              /\ sensors'[p].calibrate_max_value = started[p].calibrate_max_value
              /\ statuses' = statuses \cup {"Calibrating"}
         /\ samples[p] + 1 = N =>
              ~Calibrating(sensors'[p]) /\ statuses' = statuses \cup {"CalibrationComplete"}
<1> DEFINE c == Sampled(sensors[p], samples[p], v)
           d == IF Enough(Counted(p)) THEN FlagsCleared(c) ELSE c
<1>1. p \in Pins /\ samples[p] \in 0 .. N /\ sensors[p] \in Configs /\ v \in Readings
      /\ sensors \in [DOMAIN sensors -> Configs] /\ DOMAIN sensors \in SUBSET Pins
  BY SensorsAreConfigs DEF TypeOK, N
<1>2. Asked(p) /\ samples[p] < N
      /\ sensors[p].calibrate_min_value = started[p].calibrate_min_value
      /\ sensors[p].calibrate_max_value = started[p].calibrate_max_value
  BY <1>1 DEF KeepsRequest, Calibrating, Asked, N
<1>3. c \in Configs
  BY <1>1 DEF Sampled, Configs, Smaller, Larger
<1>4. /\ c.min_value =
            IF started[p].calibrate_min_value
            THEN Smaller(IF samples[p] = 0 THEN FullScale ELSE sensors[p].min_value, v)
            ELSE sensors[p].min_value
      /\ c.max_value =
            IF started[p].calibrate_max_value
            THEN Larger(IF samples[p] = 0 THEN 0 ELSE sensors[p].max_value, v)
            ELSE sensors[p].max_value
      /\ c.calibrate_min_value = started[p].calibrate_min_value
      /\ c.calibrate_max_value = started[p].calibrate_max_value
  BY <1>1, <1>2 DEF Sampled, Configs
<1>5. /\ samples' = [samples EXCEPT ![p] = samples[p] + 1]
      /\ sensors' = [sensors EXCEPT ![p] = d]
      /\ statuses' = statuses \cup
           {IF Enough(Counted(p)) THEN "CalibrationComplete" ELSE "Calibrating"}
      /\ seen' = [seen EXCEPT ![p] = seen[p] \cup {v}]
  BY DEF Calibrate, Counted
<1>6. samples'[p] = Bumped(samples[p])
  BY <1>1, <1>2, <1>5 DEF Bumped, TypeOK, N
<1>7. Enough(Counted(p)) <=> samples[p] + 1 = N
  BY <1>1, <1>2 DEF Enough, Counted, N
<1>8. d \in Configs /\ d.min_value = c.min_value /\ d.max_value = c.max_value
      /\ (samples[p] + 1 = N => ~Calibrating(d))
      /\ (samples[p] + 1 < N => d = c)
  <2> HIDE DEF c
  <2>1. CASE Enough(Counted(p))
    <3>1. d = FlagsCleared(c) /\ samples[p] + 1 = N
      BY <1>7, <2>1
    <3> QED
      BY <1>1, <1>3, <3>1, FlagsClearedEffect DEF N
  <2>2. CASE ~Enough(Counted(p))
    <3>1. d = c /\ samples[p] + 1 # N
      BY <1>7, <2>2
    <3> QED
      BY <1>3, <3>1
  <2> QED
    BY <2>1, <2>2
<1> HIDE DEF c, d
<1>9. sensors' \in [DOMAIN sensors -> Configs] /\ sensors'[p] = d
      /\ \A q \in DOMAIN sensors : q # p => sensors'[q] = sensors[q]
  BY <1>1, <1>5, <1>8
<1>10. sensors' \in Sensors
  BY <1>1, <1>9, ConfigsAreSensors
<1> QED
  BY <1>1, <1>2, <1>4, <1>5, <1>6, <1>7, <1>8, <1>9, <1>10 DEF N

-----------------------------------------------------------------------------
(* The invariant after a boot *)

LEMMA IInvInit == Init => IInv
<1> SUFFICES ASSUME Init PROVE IInv
  OBVIOUS
<1>1. /\ flash \in Sensors /\ sensors = create(flash) /\ started = sensors
      /\ samples = [p \in Pins |-> 0] /\ seen = [p \in Pins |-> {}]
      /\ reported = NoSensors /\ acked = NoSensors
      /\ todo = {} /\ statuses = {} /\ rebooting = FALSE /\ unsaved = FALSE /\ writer = "none"
  BY PostsAreSensors DEF Init, Fresh
<1>2. /\ sensors \in Sensors /\ DOMAIN sensors = DOMAIN flash \cap Usable
      /\ DOMAIN sensors \subseteq Pins
      /\ \A p \in DOMAIN sensors : Calibrating(sensors[p]) <=> Calibrating(flash[p])
  BY <1>1, CreateEffect
<1>3. TypeOK
  <2>1. (samples \in [Pins -> 0 .. SAMPLES_TO_COMPLETE_CALIBRATION])
        /\ (seen \in [Pins -> SUBSET Readings])
    BY <1>1
  <2>2. ({flash, sensors, reported, started, acked} \subseteq Sensors)
    BY <1>1, <1>2, NoneAreSensors
  <2>3. ({rebooting, unsaved} \subseteq BOOLEAN)
    BY <1>1, Zenon
  <2> QED
    BY <1>1, <1>2, <2>1, <2>2, <2>3 DEF TypeOK
<1>4. \A p \in DOMAIN sensors : samples[p] = 0 /\ seen[p] = {}
  BY <1>1, <1>2
<1>5. KeepsRequest /\ Exact /\ Together /\ StoredOrDue /\ StatusesTrue
  <2>1. KeepsRequest
    BY <1>1, <1>4 DEF KeepsRequest, N
  <2>2. Exact /\ Together
    BY <1>1, <1>4 DEF Exact, Together
  <2>3. StoredOrDue
    BY <1>1, <1>4 DEF StoredOrDue, N
  <2>4. StatusesTrue
    BY <1>1 DEF StatusesTrue
  <2> QED
    BY <2>1, <2>2, <2>3, <2>4
<1>6. FlashKept
  BY <1>1, <1>2 DEF FlashKept, Asked
<1>7. DOMAIN reported \subseteq DOMAIN sensors /\ ReportedFinal
  BY <1>1, NoneAreSensors DEF ReportedFinal
<1> QED
  BY <1>3, <1>5, <1>6, <1>7 DEF IInv

LEMMA IInvBoot ==
  ASSUME TypeOK, Boot
  PROVE  IInv'
<1>1. /\ flash' = flash /\ sensors' = create(flash) /\ started' = sensors'
      /\ samples' = [p \in Pins |-> 0] /\ seen' = [p \in Pins |-> {}]
      /\ reported' = NoSensors /\ acked' = NoSensors
      /\ todo' = {} /\ statuses' = {} /\ rebooting' = FALSE /\ unsaved' = FALSE /\ writer' = "none"
      /\ flash \in Sensors
  BY DEF Boot, TypeOK
<1>2. /\ sensors' \in Sensors /\ DOMAIN sensors' = DOMAIN flash' \cap Usable
      /\ DOMAIN sensors' \subseteq Pins
      /\ \A p \in DOMAIN sensors' : Calibrating(sensors'[p]) <=> Calibrating(flash'[p])
  BY <1>1, CreateEffect
<1>3. TypeOK'
  <2>1. (samples \in [Pins -> 0 .. SAMPLES_TO_COMPLETE_CALIBRATION])'
        /\ (seen \in [Pins -> SUBSET Readings])'
    BY <1>1
  <2>2. ({flash, sensors, reported, started, acked} \subseteq Sensors)'
    BY <1>1, <1>2, NoneAreSensors
  <2>3. ({rebooting, unsaved} \subseteq BOOLEAN)'
    BY <1>1, Zenon
  <2> QED
    BY <1>1, <1>2, <2>1, <2>2, <2>3 DEF TypeOK
<1>4. \A p \in DOMAIN sensors' : samples'[p] = 0 /\ seen'[p] = {}
  BY <1>1, <1>2
<1>5. (KeepsRequest /\ Exact /\ Together /\ StoredOrDue /\ StatusesTrue)'
  <2>1. KeepsRequest'
    BY <1>1, <1>4 DEF KeepsRequest, N
  <2>2. Exact' /\ Together'
    BY <1>1, <1>4 DEF Exact, Together
  <2>3. StoredOrDue'
    BY <1>1, <1>4 DEF StoredOrDue, N
  <2>4. StatusesTrue'
    BY <1>1 DEF StatusesTrue
  <2> QED
    BY <2>1, <2>2, <2>3, <2>4
<1>6. FlashKept'
  BY <1>1, <1>2 DEF FlashKept, Asked
<1>7. (DOMAIN reported \subseteq DOMAIN sensors /\ ReportedFinal)'
  BY <1>1, NoneAreSensors DEF ReportedFinal
<1> QED
  BY <1>3, <1>5, <1>6, <1>7 DEF IInv

-----------------------------------------------------------------------------
(* The invariant after a read *)

\* A sensor that does not calibrate has all its samples or was never asked to.
LEMMA Finished ==
  ASSUME TypeOK, KeepsRequest, NEW p \in DOMAIN sensors, ~Calibrating(sensors[p])
  PROVE  Asked(p) => samples[p] = N
<1>1. samples[p] \in 0 .. N
  BY SensorsAreConfigs DEF TypeOK, N
<1> QED
  BY <1>1 DEF KeepsRequest, Asked, Calibrating, N

\* What a read changes, whether or not the sensor calibrates.
LEMMA ReadEffect ==
  ASSUME TypeOK, KeepsRequest, NEW p \in Pins, Read(p)
  PROVE  /\ p \in todo /\ p \in DOMAIN sensors /\ todo' = todo \ {p}
         /\ sensors' \in Sensors /\ DOMAIN sensors' = DOMAIN sensors
         /\ samples' \in [Pins -> 0 .. N] /\ seen' \in [Pins -> SUBSET Readings]
         /\ \A q \in DOMAIN sensors : q # p =>
              sensors'[q] = sensors[q] /\ samples'[q] = samples[q] /\ seen'[q] = seen[q]
         /\ Asked(p) => samples'[p] = Bumped(samples[p])
         /\ ~Asked(p) \/ samples[p] = N =>
              samples'[p] = samples[p] /\ sensors'[p] = sensors[p] /\ seen'[p] = seen[p]
         /\ statuses \subseteq statuses'
         /\ statuses' \subseteq {"Ok", "Calibrating", "CalibrationComplete"}
         /\ "CalibrationComplete" \in statuses' =>
              "CalibrationComplete" \in statuses \/ (Asked(p) /\ samples'[p] = N)
         /\ "Calibrating" \in statuses' =>
              "Calibrating" \in statuses \/ (Asked(p) /\ samples'[p] < N)
         /\ Asked(p) /\ samples[p] # N /\ samples'[p] = N => "CalibrationComplete" \in statuses'
<1>1. /\ p \in todo /\ p \in DOMAIN sensors /\ todo' = todo \ {p}
      /\ samples \in [Pins -> 0 .. N] /\ seen \in [Pins -> SUBSET Readings]
      /\ samples[p] \in 0 .. N /\ sensors \in Sensors
      /\ DOMAIN sensors \subseteq Pins
  BY SensorsAreConfigs DEF Read, TypeOK, N
<1>2. CASE ~Calibrating(sensors[p])
  <2>1. statuses' = statuses \cup {"Ok"} /\ UNCHANGED <<sensors, samples, seen>>
    BY <1>2 DEF Read
  <2>2. Asked(p) => samples[p] = N /\ Bumped(samples[p]) = N
    BY <1>1, <1>2, Finished DEF Bumped
  <2> QED
    BY <1>1, <2>1, <2>2 DEF TypeOK
<1>3. CASE Calibrating(sensors[p])
  <2>1. PICK v \in Readings : Calibrate(p, v)
    BY <1>3 DEF Read
  <2>2. /\ Asked(p) /\ samples[p] < N
        /\ samples' = [samples EXCEPT ![p] = samples[p] + 1]
        /\ samples'[p] = Bumped(samples[p])
        /\ seen' = [seen EXCEPT ![p] = seen[p] \cup {v}]
        /\ sensors' \in Sensors /\ DOMAIN sensors' = DOMAIN sensors
        /\ \A q \in DOMAIN sensors : q # p => sensors'[q] = sensors[q]
        /\ samples[p] + 1 < N => statuses' = statuses \cup {"Calibrating"}
        /\ samples[p] + 1 = N => statuses' = statuses \cup {"CalibrationComplete"}
    BY <1>1, <1>3, <2>1, CalibrateEffect
  <2>3. samples' \in [Pins -> 0 .. N] /\ samples'[p] = samples[p] + 1
        /\ seen' \in [Pins -> SUBSET Readings]
        /\ \A q \in DOMAIN sensors : q # p => samples'[q] = samples[q] /\ seen'[q] = seen[q]
    <3>1. samples[p] + 1 \in 0 .. N
      BY <1>1, <2>2 DEF N
    <3>2. samples' \in [Pins -> 0 .. N]
      BY <1>1, <2>2, <3>1
    <3>3. seen[p] \cup {v} \in SUBSET Readings
      BY <1>1
    <3>4. seen' \in [Pins -> SUBSET Readings]
      BY <1>1, <2>2, <3>3
    <3> QED
      BY <1>1, <2>2, <3>2, <3>4
  <2>4. statuses \subseteq {"Ok", "Calibrating", "CalibrationComplete"}
    BY DEF TypeOK
  <2>5. CASE samples[p] + 1 < N
    <3>1. statuses' = statuses \cup {"Calibrating"} /\ samples'[p] < N
      BY <2>2, <2>3, <2>5
    <3> QED
      BY <1>1, <2>2, <2>3, <2>4, <3>1
  <2>6. CASE samples[p] + 1 = N
    <3>1. statuses' = statuses \cup {"CalibrationComplete"} /\ samples'[p] = N
      BY <2>2, <2>3, <2>6
    <3> QED
      BY <1>1, <2>2, <2>3, <2>4, <3>1
  <2>7. samples[p] + 1 < N \/ samples[p] + 1 = N
    BY <1>1, <2>2 DEF N
  <2> QED
    BY <2>5, <2>6, <2>7
<1> QED
  BY <1>2, <1>3

LEMMA TypeRead ==
  ASSUME TypeOK, KeepsRequest, DOMAIN reported \subseteq DOMAIN sensors, NEW p \in Pins, Read(p)
  PROVE  TypeOK' /\ (DOMAIN reported \subseteq DOMAIN sensors)'
<1>1. p \in DOMAIN sensors /\ sensors' \in Sensors /\ DOMAIN sensors' = DOMAIN sensors
  BY ReadEffect
<1>2. UNCHANGED <<flash, rebooting, started, acked, unsaved, writer>>
      /\ (reported' = reported \/ reported' = report(p))
  BY DEF Read
<1>3. report(p) \in Sensors /\ DOMAIN report(p) \subseteq DOMAIN reported \cup {p}
  <2>1. DOMAIN reported \cup {p} \in SUBSET Pins /\ reported \in [DOMAIN reported -> Configs]
        /\ sensors'[p] \in Configs
    BY <1>1, SensorsAreConfigs DEF TypeOK
  <2> DEFINE S == DOMAIN reported \cup {d \in {p} : sensors[d].typed}
  <2>2. S \in SUBSET Pins /\ S \subseteq DOMAIN reported \cup {p}
    BY <2>1
  <2>3. report(p) \in [S -> Configs]
    BY <2>1 DEF report
  <2> HIDE DEF S
  <2> QED
    BY <2>2, <2>3, ConfigsAreSensors
<1>4. reported' \in Sensors /\ DOMAIN reported' \subseteq DOMAIN sensors'
  BY <1>1, <1>2, <1>3 DEF TypeOK
<1> QED
  BY <1>1, <1>2, <1>4, ReadEffect DEF TypeOK, N

LEMMA KeepsRequestRead ==
  ASSUME TypeOK, KeepsRequest, NEW p \in Pins, Read(p)
  PROVE  KeepsRequest'
<1>1. /\ p \in DOMAIN sensors /\ DOMAIN sensors' = DOMAIN sensors /\ started' = started
      /\ \A q \in DOMAIN sensors : q # p =>
           sensors'[q] = sensors[q] /\ samples'[q] = samples[q] /\ seen'[q] = seen[q]
      /\ \A q \in DOMAIN sensors : Asked(q)' <=> Asked(q)
  BY ReadEffect DEF Read, Asked
<1>2. samples[p] \in 0 .. N
  BY DEF TypeOK, N
<1>3. CASE ~Calibrating(sensors[p])
  <2>1. UNCHANGED <<sensors, samples, seen>>
    BY <1>3 DEF Read
  <2> QED
    BY <1>1, <2>1 DEF KeepsRequest
<1>4. CASE Calibrating(sensors[p])
  <2>1. PICK v \in Readings : Calibrate(p, v)
    BY <1>4 DEF Read
  <2>2. /\ Asked(p) /\ samples[p] < N
        /\ samples' = [samples EXCEPT ![p] = samples[p] + 1]
        /\ samples[p] + 1 < N =>
              /\ sensors'[p].calibrate_min_value = started[p].calibrate_min_value
              /\ sensors'[p].calibrate_max_value = started[p].calibrate_max_value
        /\ samples[p] + 1 = N => ~Calibrating(sensors'[p])
    BY <1>1, <1>4, <2>1, CalibrateEffect
  <2>3. samples'[p] = samples[p] + 1 /\ samples'[p] # 0
    BY <1>1, <1>2, <2>2 DEF TypeOK
  <2> QED
    BY <1>1, <2>2, <2>3 DEF KeepsRequest
<1> QED
  BY <1>3, <1>4

LEMMA TogetherRead ==
  ASSUME TypeOK, KeepsRequest, Together, StatusesTrue, NEW p \in Pins, Read(p)
  PROVE  Together' /\ StatusesTrue'
<1>1. /\ p \in todo /\ p \in DOMAIN sensors /\ todo' = todo \ {p}
      /\ DOMAIN sensors' = DOMAIN sensors
      /\ \A q \in DOMAIN sensors : q # p => samples'[q] = samples[q]
      /\ Asked(p) => samples'[p] = Bumped(samples[p])
      /\ \A q \in DOMAIN sensors : Asked(q)' <=> Asked(q)
  BY ReadEffect DEF Read, Asked
<1>2. Together'
  <2> SUFFICES ASSUME NEW q \in DOMAIN sensors, NEW r \in DOMAIN sensors, Asked(q), Asked(r)
               PROVE  /\ (q \in todo' /\ r \in todo') \/ (q \notin todo' /\ r \notin todo')
                           => samples'[q] = samples'[r]
                      /\ q \in todo' /\ r \notin todo' => samples'[r] = Bumped(samples'[q])
    BY <1>1 DEF Together, Bumped
  <2>1. CASE q = p /\ r = p
    BY <1>1, <2>1
  <2>2. CASE q = p /\ r # p
    BY <1>1, <2>2 DEF Together
  <2>3. CASE q # p /\ r = p
    BY <1>1, <2>3 DEF Together
  <2>4. CASE q # p /\ r # p
    BY <1>1, <2>4 DEF Together
  <2> QED
    BY <2>1, <2>2, <2>3, <2>4
<1>3. StatusesTrue'
  BY <1>1, ReadEffect DEF StatusesTrue
<1> QED
  BY <1>2, <1>3

LEMMA StoredRead ==
  ASSUME TypeOK, KeepsRequest, StoredOrDue, FlashKept, NEW p \in Pins, Read(p)
  PROVE  StoredOrDue' /\ FlashKept'
<1>1. /\ p \in DOMAIN sensors /\ DOMAIN sensors' = DOMAIN sensors
      /\ \A q \in DOMAIN sensors : q # p => sensors'[q] = sensors[q] /\ samples'[q] = samples[q]
      /\ \A q \in DOMAIN sensors : Asked(q)' <=> Asked(q)
      /\ UNCHANGED <<flash, unsaved, writer>>
      /\ statuses \subseteq statuses'
      /\ samples[p] = N => samples'[p] = samples[p] /\ sensors'[p] = sensors[p]
      /\ Asked(p) /\ samples[p] # N /\ samples'[p] = N => "CalibrationComplete" \in statuses'
  BY ReadEffect DEF Read, Asked
<1>2. StoredOrDue'
  BY <1>1 DEF StoredOrDue, OwnFlash
<1>3. FlashKept'
  BY <1>1 DEF FlashKept, OwnFlash
<1> QED
  BY <1>2, <1>3

LEMMA ReportedRead ==
  ASSUME TypeOK, KeepsRequest, ReportedFinal, DOMAIN reported \subseteq DOMAIN sensors,
         NEW p \in Pins, Read(p)
  PROVE  ReportedFinal'
<1>1. /\ p \in DOMAIN sensors /\ DOMAIN sensors' = DOMAIN sensors
      /\ \A q \in DOMAIN sensors : q # p => sensors'[q] = sensors[q]
      /\ ~Calibrating(sensors[p]) => sensors'[p] = sensors[p]
      /\ reported' = reported \/ reported' = report(p)
  BY ReadEffect DEF Read
<1>2. CASE reported' = reported
  BY <1>1, <1>2 DEF ReportedFinal
<1>3. CASE reported' = report(p)
  BY <1>1, <1>3 DEF ReportedFinal, report
<1> QED
  BY <1>1, <1>2, <1>3

\* The extreme of the values seen and one more.
LEMMA ExactRead ==
  ASSUME TypeOK, KeepsRequest, Exact, NEW p \in Pins, Read(p)
  PROVE  Exact'
<1>1. /\ p \in DOMAIN sensors /\ DOMAIN sensors' = DOMAIN sensors /\ started' = started
      /\ \A q \in DOMAIN sensors : q # p =>
           sensors'[q] = sensors[q] /\ samples'[q] = samples[q] /\ seen'[q] = seen[q]
      /\ samples[p] \in 0 .. N /\ seen[p] \in SUBSET Readings
      /\ sensors[p].min_value \in Readings /\ sensors[p].max_value \in Readings
  BY ReadEffect, SensorsAreConfigs DEF Read, TypeOK, N, Configs
<1>2. CASE ~Calibrating(sensors[p])
  <2>1. UNCHANGED <<sensors, samples, seen>>
    BY <1>2 DEF Read
  <2> QED
    BY <1>1, <2>1 DEF Exact
<1>3. CASE Calibrating(sensors[p])
  <2>1. PICK v \in Readings : Calibrate(p, v)
    BY <1>3 DEF Read
  <2>2. /\ Asked(p) /\ samples[p] < N
        /\ samples' = [samples EXCEPT ![p] = samples[p] + 1]
        /\ seen' = [seen EXCEPT ![p] = seen[p] \cup {v}]
        /\ sensors'[p].min_value =
              IF started[p].calibrate_min_value
              THEN Smaller(IF samples[p] = 0 THEN FullScale ELSE sensors[p].min_value, v)
              ELSE sensors[p].min_value
        /\ sensors'[p].max_value =
              IF started[p].calibrate_max_value
              THEN Larger(IF samples[p] = 0 THEN 0 ELSE sensors[p].max_value, v)
              ELSE sensors[p].max_value
    BY <1>1, <1>3, <2>1, CalibrateEffect
  <2>3. samples'[p] # 0 /\ seen'[p] = seen[p] \cup {v}
    BY <1>1, <2>2 DEF TypeOK
  <2>4. /\ v \in Int /\ 0 <= v /\ v <= FullScale
        /\ \A w \in seen[p] : w \in Int
        /\ sensors[p].min_value \in Int /\ sensors[p].max_value \in Int
        /\ FullScale \in Int
    <3>1. \A w \in Readings : w \in Int /\ 0 <= w /\ w <= FullScale
      OBVIOUS
    <3> QED
      BY <1>1, <3>1
  <2>5. CASE samples[p] = 0
    <3>1. seen[p] = {} /\ sensors[p] = started[p]
      BY <1>1, <2>5 DEF KeepsRequest, Exact
    <3>2. IF started[p].calibrate_min_value
          THEN sensors'[p].min_value = v ELSE sensors'[p].min_value = started[p].min_value
      BY <2>2, <2>4, <2>5, <3>1 DEF Smaller
    <3>3. IF started[p].calibrate_max_value
          THEN sensors'[p].max_value = v ELSE sensors'[p].max_value = started[p].max_value
      BY <2>2, <2>4, <2>5, <3>1 DEF Larger
    <3>4. seen'[p] = {v}
      BY <2>3, <3>1
    <3> QED
      BY <1>1, <2>3, <2>4, <3>2, <3>3, <3>4 DEF Exact
  <2>6. CASE samples[p] # 0
    <3>1. IF started[p].calibrate_min_value
          THEN /\ sensors'[p].min_value \in seen'[p]
               /\ \A w \in seen'[p] : sensors'[p].min_value <= w
          ELSE sensors'[p].min_value = started[p].min_value
      BY <1>1, <2>2, <2>3, <2>4, <2>6 DEF Exact, Smaller
    <3>2. IF started[p].calibrate_max_value
          THEN /\ sensors'[p].max_value \in seen'[p]
               /\ \A w \in seen'[p] : sensors'[p].max_value >= w
          ELSE sensors'[p].max_value = started[p].max_value
      BY <1>1, <2>2, <2>3, <2>4, <2>6 DEF Exact, Larger
    <3> QED
      BY <1>1, <2>3, <3>1, <3>2 DEF Exact
  <2> QED
    BY <2>5, <2>6
<1> QED
  BY <1>2, <1>3

-----------------------------------------------------------------------------
(* The invariant after the end of a pass, a POST and any step *)

\* When a calibration has completed none is under way.
LEMMA TogetherComplete ==
  ASSUME TypeOK, Together, StatusesTrue
  PROVE  CompleteTogether
<1> SUFFICES ASSUME "Calibrating" \in statuses, "CalibrationComplete" \in statuses
             PROVE  FALSE
  BY DEF CompleteTogether
<1>1. PICK q \in DOMAIN sensors \ todo : Asked(q) /\ samples[q] = N
  BY DEF StatusesTrue
<1>2. PICK r \in DOMAIN sensors \ todo : Asked(r) /\ samples[r] < N
  BY DEF StatusesTrue
<1>3. samples[q] = samples[r]
  BY <1>1, <1>2 DEF Together
<1> QED
  BY <1>1, <1>2, <1>3 DEF N

\* What the loop stores are sensors as they are in memory.
LEMMA CollectedEffect ==
  ASSUME TypeOK
  PROVE  /\ Collected \in Sensors /\ DOMAIN Collected \subseteq DOMAIN sensors
         /\ \A p \in DOMAIN sensors : p \in DOMAIN Collected <=> sensors[p].typed
         /\ \A p \in DOMAIN Collected : Collected[p] = sensors[p]
<1> DEFINE S == {q \in DOMAIN sensors : sensors[q].typed}
<1>1. sensors \in [DOMAIN sensors -> Configs] /\ S \in SUBSET Pins
  BY SensorsAreConfigs DEF TypeOK
<1>2. Collected \in [S -> Configs]
  BY <1>1 DEF Collected
<1>3. Collected \in Sensors
  BY <1>1, <1>2, ConfigsAreSensors
<1> QED
  BY <1>3 DEF Collected

\* When a calibration is complete all sensors that were asked to calibrate have
\* their samples.
LEMMA AllHaveSamples ==
  ASSUME TypeOK, Together, StatusesTrue, PassRead, CalibrationComplete,
         NEW p \in DOMAIN sensors, Asked(p)
  PROVE  samples[p] = N
<1>1. PICK q \in DOMAIN sensors \ todo : Asked(q) /\ samples[q] = N
  BY DEF StatusesTrue, CalibrationComplete
<1> QED
  BY <1>1 DEF Together, PassRead

\* A failing write of the loop leaves flash as it was, without a section, or as if
\* it had been stored.
LEMMA StoreFailsEffect ==
  ASSUME TypeOK, StoreFails
  PROVE  /\ flash' \in Sensors
         /\ (flash' = flash /\ writer' = writer) \/ flash' \in {NoSensors, Collected}
         /\ writer' \in {"none", "loop", "post", "failed"}
         /\ statuses' = {} /\ unsaved' = TRUE
         /\ UNCHANGED <<sensors, samples, reported, todo, rebooting, started, seen, acked>>
  BY NoneAreSensors, CollectedEffect DEF StoreFails, FailedWrite, TypeOK

\* The loop stores its sensors, all of which that have completed.
LEMMA IInvStores ==
  ASSUME IInv, EndPass, CalibrationComplete
  PROVE  IInv'
<1>1. /\ flash' = Collected /\ statuses' = {} /\ todo = {} /\ writer' = "loop"
      /\ UNCHANGED <<sensors, samples, reported, todo, rebooting, started, seen, acked, unsaved>>
  BY DEF EndPass, PassRead
<1>2. /\ Collected \in Sensors /\ DOMAIN Collected \subseteq DOMAIN sensors
      /\ \A p \in DOMAIN sensors : p \in DOMAIN Collected <=> sensors[p].typed
      /\ \A p \in DOMAIN Collected : Collected[p] = sensors[p]
  BY CollectedEffect DEF IInv
<1>3. TypeOK'
  BY <1>1, <1>2 DEF IInv, TypeOK
<1>4. (KeepsRequest /\ Exact /\ Together /\ StatusesTrue)'
  BY <1>1 DEF IInv, KeepsRequest, Exact, Together, StatusesTrue, Asked
<1>5. StoredOrDue'
  BY <1>1, <1>2 DEF StoredOrDue
<1>6. FlashKept'
  <2>1. \A p \in DOMAIN sensors : Calibrating(sensors[p]) => Asked(p)
    BY DEF IInv, KeepsRequest, Asked
  <2> QED
    BY <1>1, <1>2, <2>1 DEF FlashKept, Asked
<1>7. (DOMAIN reported \subseteq DOMAIN sensors /\ ReportedFinal)'
  BY <1>1 DEF IInv, ReportedFinal
<1> QED
  BY <1>3, <1>4, <1>5, <1>6, <1>7 DEF IInv

\* The loop has nothing to store: every sensor that has completed is in flash.
LEMMA IInvStoresNothing ==
  ASSUME IInv, EndPass, ~CalibrationComplete
  PROVE  IInv'
<1>1. /\ statuses' = {} /\ "CalibrationComplete" \notin statuses
      /\ UNCHANGED <<flash, sensors, samples, reported, todo, rebooting, started, seen, acked,
                     unsaved, writer>>
  BY TogetherComplete DEF IInv, EndPass, CalibrationComplete, CompleteTogether
<1>2. TypeOK'
  BY <1>1 DEF IInv, TypeOK
<1>3. (KeepsRequest /\ Exact /\ Together /\ StatusesTrue)'
  BY <1>1 DEF IInv, KeepsRequest, Exact, Together, StatusesTrue, Asked
<1>4. (StoredOrDue /\ FlashKept)'
  BY <1>1 DEF IInv, StoredOrDue, FlashKept, OwnFlash, Asked
<1>5. (DOMAIN reported \subseteq DOMAIN sensors /\ ReportedFinal)'
  BY <1>1 DEF IInv, ReportedFinal
<1> QED
  BY <1>2, <1>3, <1>4, <1>5 DEF IInv

LEMMA IInvStoreFails ==
  ASSUME IInv, StoreFails
  PROVE  IInv'
<1>1. /\ flash' \in Sensors
      /\ (flash' = flash /\ writer' = writer) \/ flash' \in {NoSensors, Collected}
      /\ writer' \in {"none", "loop", "post", "failed"}
      /\ statuses' = {} /\ unsaved' = TRUE
      /\ UNCHANGED <<sensors, samples, reported, todo, rebooting, started, seen, acked>>
  BY StoreFailsEffect DEF IInv
<1>2. TypeOK'
  BY <1>1 DEF IInv, TypeOK
<1>3. (KeepsRequest /\ Exact /\ Together /\ StatusesTrue)'
  BY <1>1 DEF IInv, KeepsRequest, Exact, Together, StatusesTrue, Asked
<1>4. StoredOrDue'
  BY <1>1 DEF StoredOrDue
<1>5. FlashKept'
  <2>1. CASE flash' = flash /\ writer' = writer
    BY <1>1, <2>1 DEF IInv, FlashKept, OwnFlash, Asked
  <2>2. CASE flash' = NoSensors
    BY <2>2, NoneAreSensors DEF FlashKept
  <2>3. CASE flash' = Collected
    <3>1. \A p \in DOMAIN sensors : Calibrating(sensors[p]) => Asked(p)
      BY DEF IInv, KeepsRequest, Asked
    <3>2. \A p \in DOMAIN Collected : p \in DOMAIN sensors /\ Collected[p] = sensors[p]
      BY CollectedEffect DEF IInv
    <3> QED
      BY <1>1, <2>3, <3>1, <3>2 DEF FlashKept, Asked
  <2> QED
    BY <1>1, <2>1, <2>2, <2>3
<1>6. (DOMAIN reported \subseteq DOMAIN sensors /\ ReportedFinal)'
  BY <1>1 DEF IInv, ReportedFinal
<1> QED
  BY <1>2, <1>3, <1>4, <1>5, <1>6 DEF IInv

\* A POST, stored or failed, changes nothing but flash and what it promises.
LEMMA IInvPosts ==
  ASSUME IInv, NEW configs \in Posts, Post(configs) \/ PostFails(configs)
  PROVE  IInv'
<1>1. /\ flash' \in Sensors /\ acked' \in Sensors /\ rebooting' \in BOOLEAN
      /\ (flash' = flash /\ writer' = writer) \/ writer' \in {"post", "failed"}
      /\ UNCHANGED <<sensors, samples, reported, todo, statuses, started, seen, unsaved>>
  <2>1. CASE Post(configs)
    BY <2>1, PostsAreSensors DEF Post
  <2>2. CASE PostFails(configs)
    BY <2>2, PostsAreSensors, NoneAreSensors DEF PostFails, FailedWrite, IInv, TypeOK
  <2> QED
    BY <2>1, <2>2
<1>2. TypeOK'
  BY <1>1 DEF IInv, TypeOK
<1>3. (KeepsRequest /\ Exact /\ Together /\ StatusesTrue)'
  BY <1>1 DEF IInv, KeepsRequest, Exact, Together, StatusesTrue, Asked
<1>4. (StoredOrDue /\ FlashKept)'
  BY <1>1 DEF IInv, StoredOrDue, FlashKept, OwnFlash, Asked
<1>5. (DOMAIN reported \subseteq DOMAIN sensors /\ ReportedFinal)'
  BY <1>1 DEF IInv, ReportedFinal
<1> QED
  BY <1>2, <1>3, <1>4, <1>5 DEF IInv

LEMMA IInvStartPass ==
  ASSUME IInv, StartPass
  PROVE  IInv'
<1>1. /\ todo = {} /\ statuses = {} /\ todo' = DOMAIN sensors
      /\ UNCHANGED <<flash, sensors, samples, reported, statuses, rebooting, started, seen,
                     acked, unsaved, writer>>
  BY DEF StartPass
<1>2. TypeOK'
  BY <1>1 DEF IInv, TypeOK
<1>3. (KeepsRequest /\ Exact /\ Together /\ StatusesTrue)'
  BY <1>1 DEF IInv, KeepsRequest, Exact, Together, StatusesTrue, Asked
<1>4. (StoredOrDue /\ FlashKept)'
  BY <1>1 DEF IInv, StoredOrDue, FlashKept, OwnFlash, Asked
<1>5. (DOMAIN reported \subseteq DOMAIN sensors /\ ReportedFinal)'
  BY <1>1 DEF IInv, ReportedFinal
<1> QED
  BY <1>2, <1>3, <1>4, <1>5 DEF IInv

LEMMA IInvStep ==
  ASSUME IInv, [Next]_vars
  PROVE  IInv'
<1>1. ASSUME NEW p \in Pins, Read(p)
      PROVE  IInv'
  BY <1>1, TypeRead, KeepsRequestRead, TogetherRead, StoredRead, ReportedRead, ExactRead DEF IInv
<1>2. CASE Boot
  BY <1>2, IInvBoot DEF IInv
<1>3. CASE UNCHANGED vars
  BY <1>3 DEF IInv, vars, TypeOK, KeepsRequest, Exact, Together, StatusesTrue, StoredOrDue,
              FlashKept, OwnFlash, ReportedFinal, Asked
<1> QED
  BY <1>1, <1>2, <1>3, IInvStartPass, IInvStores, IInvStoresNothing, IInvStoreFails, IInvPosts
     DEF Next, Loop, Reboot, PowerFailure

LEMMA IInvHolds == Spec => []IInv
  BY IInvInit, IInvStep, PTL DEF Spec

-----------------------------------------------------------------------------
(* The theorems *)

\* The type invariant: the samples never exceed what a calibration takes.
THEOREM TypeCorrect == Spec => []TypeOK
<1>1. IInv => TypeOK
  BY DEF IInv
<1> QED
  BY <1>1, IInvHolds, PTL

\* A limit that Ads1115Adc::read has calibrated is the extreme of its samples
\* since the boot; the other one is as it was created.
THEOREM LimitsAreExact == Spec => []Exact
<1>1. IInv => Exact
  BY DEF IInv
<1> QED
  BY <1>1, IInvHolds, PTL

\* Sensors that calibrate end in the same pass, so that the loop's condition
\* for the store holds in the one pass in which they say that they are complete.
THEOREM AllCompleteTogether == Spec => []CompleteTogether
<1>1. IInv => CompleteTogether
  BY TogetherComplete DEF IInv
<1> QED
  BY <1>1, IInvHolds, PTL

\* Between passes a calibrated sensor that has a type is in flash as it is in
\* memory, unless a POST has written there, stored or failed, or the store failed.
THEOREM CalibrationIsStored == Spec => []CalibrationStored
<1>1. ASSUME IInv PROVE CalibrationStored
  <2> SUFFICES ASSUME statuses = {}, ~unsaved, OwnFlash,
                      NEW p \in DOMAIN sensors, sensors[p].typed, samples[p] > 0,
                      ~Calibrating(sensors[p])
               PROVE  p \in DOMAIN flash /\ flash[p] = sensors[p]
    BY DEF CalibrationStored
  <2>1. Asked(p) /\ samples[p] = N
    BY <1>1, Finished DEF IInv, KeepsRequest
  <2> QED
    BY <1>1, <2>1 DEF IInv, StoredOrDue
<1> QED
  BY <1>1, IInvHolds, PTL

\* What the REST server reports without a calibration flag is what the sensor
\* has, however many reports have been lost.
THEOREM ReportsAreFinal == Spec => []ReportedFinal
<1>1. IInv => ReportedFinal
  BY DEF IInv
<1> QED
  BY <1>1, IInvHolds, PTL

\* No write of the loop, failed or not, takes a request to calibrate out of flash
\* before all samples have been taken, be it with the whole section.
THEOREM RequestIsKept == Spec => RequestKept
<1>1. ASSUME IInv, [Next]_vars, OwnFlash, OwnFlash',
             NEW p \in DOMAIN flash \cap Usable, Calibrating(flash[p]),
             ~(p \in DOMAIN flash' /\ Calibrating(flash'[p]))
      PROVE  samples[p] >= SAMPLES_TO_COMPLETE_CALIBRATION
  <2>1. p \in DOMAIN sensors /\ Asked(p)
    BY <1>1 DEF IInv, FlashKept
  <2>2. CASE PassRead /\ CalibrationComplete
    <3>1. samples[p] = N
      BY <1>1, <2>1, <2>2, AllHaveSamples DEF IInv
    <3> QED
      BY <3>1 DEF N
  <2>3. CASE \E configs \in Posts : Post(configs) \/ PostFails(configs)
    <3>1. flash' = flash
      BY <1>1, <2>3 DEF Post, PostFails, FailedWrite, OwnFlash
    <3> QED
      BY <1>1, <3>1
  <2>4. CASE UNCHANGED flash
    BY <1>1, <2>4
  <2> QED
    BY <1>1, <2>2, <2>3, <2>4
       DEF Next, Loop, StartPass, Read, EndPass, StoreFails, Reboot, PowerFailure, Boot, vars
<1>2. ASSUME IInv, [Next]_vars
      PROVE  [OwnFlash /\ OwnFlash' =>
                \A p \in DOMAIN flash \cap Usable :
                  Calibrating(flash[p]) /\ ~(p \in DOMAIN flash' /\ Calibrating(flash'[p])) =>
                    samples[p] >= SAMPLES_TO_COMPLETE_CALIBRATION]_vars
  BY <1>1, <1>2
<1> QED
  BY <1>2, IInvHolds, PTL DEF Spec, RequestKept

-----------------------------------------------------------------------------
(* Where the two properties end that the code does not have.  TLC finds a      *)
(* posted configuration overwritten and a range that is empty; what follows    *)
(* says how alone it can happen.                                               *)

\* A configuration that a POST has stored is lost before the reboot only to a later
\* POST that has failed, or where a sensor that was asked to calibrate has completed
\* since the boot.
OnlyOverwritten ==
  rebooting /\ flash # acked =>
    \/ writer = "failed"
    \/ \E p \in DOMAIN sensors : Calibrating(started[p]) /\ samples[p] >= N

LEMMA OverwritesStep ==
  ASSUME IInv, OnlyOverwritten, [Next]_vars
  PROVE  OnlyOverwritten'
<1> USE DEF OnlyOverwritten, N
<1>1. CASE EndPass \/ StoreFails
  <2>1. UNCHANGED <<sensors, samples, rebooting, started, acked>>
    BY <1>1 DEF EndPass, StoreFails
  <2>2. CASE CalibrationComplete
    BY <2>1, <2>2 DEF CalibrationComplete, IInv, StatusesTrue, Asked
  <2>3. CASE ~CalibrationComplete
    <3>1. UNCHANGED <<flash, writer>>
      BY <1>1, <2>3 DEF EndPass, StoreFails
    <3> QED
      BY <2>1, <3>1
  <2> QED
    BY <2>2, <2>3
<1>2. ASSUME NEW p \in Pins, Read(p) PROVE OnlyOverwritten'
  <2>1. UNCHANGED <<flash, rebooting, started, acked, writer>>
    BY <1>2 DEF Read
  <2>2. /\ DOMAIN sensors' = DOMAIN sensors
        /\ \A q \in DOMAIN sensors : q # p => samples'[q] = samples[q]
        /\ Asked(p) => samples'[p] = Bumped(samples[p])
        /\ p \in DOMAIN sensors
    BY <1>2, ReadEffect DEF IInv
  <2>3. samples[p] \in 0 .. SAMPLES_TO_COMPLETE_CALIBRATION
    BY <1>2 DEF IInv, TypeOK
  <2>4. Asked(p) /\ samples[p] >= N => samples'[p] >= N
    BY <2>2, <2>3 DEF Bumped
  <2> QED
    BY <2>1, <2>2, <2>4 DEF Asked
<1>3. CASE Boot
  BY <1>3, Zenon DEF Boot
<1>4. ASSUME NEW configs \in Posts, Post(configs) PROVE OnlyOverwritten'
  BY <1>4 DEF Post
<1>5. ASSUME NEW configs \in Posts, PostFails(configs) PROVE OnlyOverwritten'
  BY <1>5 DEF PostFails, FailedWrite
<1>6. CASE StartPass \/ UNCHANGED vars
  BY <1>6 DEF StartPass, vars
<1> QED
  BY <1>1, <1>2, <1>3, <1>4, <1>5, <1>6 DEF Next, Loop, Reboot, PowerFailure

\* For any pins, posts, failing writes and power failures, an acknowledged POST is
\* lost before its reboot in two ways only: to the loop's store after a calibration
\* has completed since the boot, or to a later POST that was refused.  Where neither
\* happens it is what the reboot finds.
THEOREM PostsAreLostInTwoWays == Spec => []OnlyOverwritten
<1>1. Init => OnlyOverwritten
  BY Zenon DEF Init, Fresh, OnlyOverwritten
<1>2. IInv /\ OnlyOverwritten /\ [Next]_vars => OnlyOverwritten'
  BY OverwritesStep
<1> QED
  BY <1>1, <1>2, IInvHolds, PTL DEF Spec

\* The range of a sensor that measures is empty only when it has been calibrated,
\* and then every sample was at the other limit or beyond it: with both limits
\* calibrated, all samples were the same.
EmptyOnlyIfFlat ==
  \A p \in DOMAIN sensors :
    ~Calibrating(sensors[p]) /\ sensors[p].max_value = sensors[p].min_value =>
      /\ samples[p] = N
      /\ \A v \in seen[p] :
           /\ started[p].calibrate_min_value => v >= sensors[p].max_value
           /\ started[p].calibrate_max_value => v <= sensors[p].min_value

\* SensorFactory::create gives no sensor an empty range.
CreatedWithRange ==
  \A p \in DOMAIN started : started[p].max_value # started[p].min_value

LEMMA CreateGivesRange ==
  ASSUME FullScale # 0, NEW configs \in Sensors, NEW p \in DOMAIN create(configs)
  PROVE  create(configs)[p].max_value # create(configs)[p].min_value
<1>1. p \in DOMAIN configs \cap Usable /\ create(configs)[p] = FullRange(configs[p])
  BY DEF create
<1>2. configs[p] \in Configs
  BY <1>1, SensorsAreConfigs
<1> QED
  BY <1>1, <1>2 DEF FullRange, Configs

\* What Exact says of an empty range.
LEMMA FlatIfEmpty ==
  ASSUME IInv, CreatedWithRange
  PROVE  EmptyOnlyIfFlat
<1> SUFFICES ASSUME NEW p \in DOMAIN sensors,
                    ~Calibrating(sensors[p]),
                    sensors[p].max_value = sensors[p].min_value
             PROVE  /\ samples[p] = N
                    /\ \A v \in seen[p] :
                         /\ started[p].calibrate_min_value => v >= sensors[p].max_value
                         /\ started[p].calibrate_max_value => v <= sensors[p].min_value
  BY DEF EmptyOnlyIfFlat
<1>1. p \in DOMAIN started
  BY DEF IInv, KeepsRequest
<1>2. samples[p] # 0
  BY <1>1 DEF IInv, Exact, CreatedWithRange
<1>3. samples[p] = N
  BY <1>2, Finished DEF IInv, KeepsRequest
<1>4. /\ p \in Pins /\ seen[p] \subseteq Int
      /\ sensors[p].min_value \in Int /\ sensors[p].max_value \in Int
  <2>1. p \in Pins /\ sensors[p] \in Configs
    BY SensorsAreConfigs DEF IInv, TypeOK
  <2>2. Readings \subseteq Int
    BY CalibrationAssumption
  <2>3. seen \in [Pins -> SUBSET Readings]
    BY DEF IInv, TypeOK
  <2>4. seen[p] \subseteq Int
    BY <2>1, <2>2, <2>3
  <2>5. sensors[p].min_value \in Readings /\ sensors[p].max_value \in Readings
    BY <2>1 DEF Configs
  <2> QED
    BY <2>1, <2>2, <2>4, <2>5
<1>5. ASSUME NEW v \in seen[p]
      PROVE  /\ started[p].calibrate_min_value => v >= sensors[p].max_value
             /\ started[p].calibrate_max_value => v <= sensors[p].min_value
  BY <1>2, <1>4 DEF IInv, Exact
<1> QED
  BY <1>3, <1>5

\* For any converter with more than one value, read divides by an empty range only
\* after a calibration in which the input did not move from the other limit.
THEOREM EmptyRangesAreFlat ==
  ASSUME FullScale # 0
  PROVE  Spec => []EmptyOnlyIfFlat
<1>1. Init => CreatedWithRange
  BY CreateGivesRange, PostsAreSensors DEF Init, Fresh, CreatedWithRange
<1>2. ASSUME IInv, CreatedWithRange, [Next]_vars PROVE CreatedWithRange'
  <2>1. CASE Boot
    <3>1. flash \in Sensors /\ started' = create(flash)
      BY <1>2, <2>1 DEF IInv, TypeOK, Boot
    <3> QED
      BY <3>1, CreateGivesRange DEF CreatedWithRange
  <2>2. CASE UNCHANGED started
    BY <1>2, <2>2 DEF CreatedWithRange
  <2> QED
    BY <1>2, <2>1, <2>2
       DEF Next, Loop, StartPass, Read, EndPass, StoreFails, Reboot, PowerFailure, Post,
           PostFails, vars
<1> QED
  BY <1>1, <1>2, FlatIfEmpty, IInvHolds, PTL DEF Spec

-----------------------------------------------------------------------------
(* What CalibrationEnds rests on *)

\* A sensor calibrates exactly while it was asked to and is short of samples; and
\* until the next boot only its own reads change the number, by one, and nothing
\* makes a sensor calibrate that does not.
CalibrationAdvances ==
  /\ [](\A p \in DOMAIN sensors : Calibrating(sensors[p]) = (Asked(p) /\ samples[p] < N))
  /\ [][~Boot =>
          /\ DOMAIN sensors' = DOMAIN sensors
          /\ \A p \in DOMAIN sensors :
               /\ Calibrating(sensors'[p]) => Calibrating(sensors[p])
               /\ samples'[p] = IF Read(p) /\ Calibrating(sensors[p]) THEN samples[p] + 1
                                ELSE samples[p]]_vars

\* What one step other than a boot does to one sensor.
LEMMA AdvanceStep ==
  ASSUME IInv, [Next]_vars, ~Boot
  PROVE  /\ DOMAIN sensors' = DOMAIN sensors
         /\ \A p \in DOMAIN sensors :
              /\ Calibrating(sensors'[p]) => Calibrating(sensors[p])
              /\ samples'[p] = IF Read(p) /\ Calibrating(sensors[p]) THEN samples[p] + 1
                               ELSE samples[p]
<1>1. ASSUME NEW q \in Pins, Read(q), Calibrating(sensors[q])
      PROVE  /\ DOMAIN sensors' = DOMAIN sensors
             /\ \A p \in DOMAIN sensors : Calibrating(sensors'[p]) => Calibrating(sensors[p])
             /\ \A p \in DOMAIN sensors :
                  samples'[p] = IF p = q THEN samples[p] + 1 ELSE samples[p]
             /\ \A p \in DOMAIN sensors : Read(p) => p = q
  <2>1. TypeOK /\ KeepsRequest /\ q \in DOMAIN sensors /\ q \in todo
    BY <1>1, ReadEffect DEF IInv
  <2>2. PICK v \in Readings : Calibrate(q, v)
    BY <1>1 DEF Read
  <2>3. /\ samples' = [samples EXCEPT ![q] = samples[q] + 1]
        /\ DOMAIN sensors' = DOMAIN sensors
        /\ \A p \in DOMAIN sensors : p # q => sensors'[p] = sensors[p]
    BY <1>1, <2>1, <2>2, CalibrateEffect
  <2>4. samples \in [Pins -> 0 .. N] /\ DOMAIN sensors \subseteq Pins
    BY <2>1, SensorsAreConfigs DEF TypeOK, N
  <2>5. \A p \in Pins : samples'[p] = IF p = q THEN samples[p] + 1 ELSE samples[p]
    BY <2>3, <2>4
  <2>6. \A p \in DOMAIN sensors : Calibrating(sensors'[p]) => Calibrating(sensors[p])
    BY <1>1, <2>3
  <2>7. \A p \in DOMAIN sensors : Read(p) => p = q
    BY <1>1, <2>1, <2>4 DEF Read
  <2> QED
    BY <2>3, <2>4, <2>5, <2>6, <2>7
<1>2. ASSUME NEW q \in Pins, Read(q), ~Calibrating(sensors[q])
      PROVE  UNCHANGED <<sensors, samples>> /\ \A p \in DOMAIN sensors : Read(p) => p = q
  BY <1>2 DEF Read
<1>3. CASE ~\E q \in Pins : Read(q)
  <2>1. UNCHANGED <<sensors, samples>>
    BY <1>3 DEF Next, Loop, Reboot, PowerFailure, StartPass, EndPass, StoreFails, Post,
                  PostFails, vars
  <2>2. \A p \in DOMAIN sensors : ~Read(p)
    BY <1>3, SensorsAreConfigs DEF IInv, TypeOK
  <2> QED
    BY <2>1, <2>2
<1> QED
  BY <1>1, <1>2, <1>3

\* For any pins, readings and number of samples, each sensor is done after as
\* many of its reads as a calibration takes samples, in whatever order posts and
\* failing stores come between, and does not begin again before a boot.  Of
\* CalibrationEnds only that the loop goes on is left to fairness.
THEOREM CalibrationsAdvance == Spec => CalibrationAdvances
<1>1. ASSUME IInv
      PROVE  \A p \in DOMAIN sensors : Calibrating(sensors[p]) = (Asked(p) /\ samples[p] < N)
  <2> SUFFICES ASSUME NEW p \in DOMAIN sensors
               PROVE  Calibrating(sensors[p]) = (Asked(p) /\ samples[p] < N)
    OBVIOUS
  <2>1. samples[p] \in 0 .. N /\ N \in Nat \ {0}
    BY <1>1, SensorsAreConfigs DEF IInv, TypeOK, N
  <2>2. sensors[p] \in Configs
    BY <1>1, SensorsAreConfigs DEF IInv, TypeOK
  <2>3. CASE ~Asked(p)
    <3>1. ~Calibrating(sensors[p])
      BY <1>1, <2>3 DEF IInv, KeepsRequest, Asked
    <3> QED
      BY <2>2, <2>3, <3>1 DEF Calibrating, Configs
  <2>4. CASE Asked(p) /\ samples[p] < N
    <3>1. Calibrating(sensors[p])
      BY <1>1, <2>4 DEF IInv, KeepsRequest, Asked, Calibrating
    <3> QED
      BY <2>2, <2>4, <3>1 DEF Calibrating, Configs
  <2>5. CASE Asked(p) /\ samples[p] = N
    <3>1. ~Calibrating(sensors[p])
      BY <1>1, <2>5 DEF IInv, KeepsRequest
    <3> QED
      BY <2>1, <2>2, <2>5, <3>1 DEF Calibrating, Configs
  <2> QED
    BY <2>1, <2>3, <2>4, <2>5
<1>2. ASSUME IInv, [Next]_vars
      PROVE  [~Boot =>
                /\ DOMAIN sensors' = DOMAIN sensors
                /\ \A p \in DOMAIN sensors :
                     /\ Calibrating(sensors'[p]) => Calibrating(sensors[p])
                     /\ samples'[p] = IF Read(p) /\ Calibrating(sensors[p]) THEN samples[p] + 1
                                      ELSE samples[p]]_vars
  BY <1>2, AdvanceStep
<1> QED
  BY <1>1, <1>2, IInvHolds, PTL DEF Spec, CalibrationAdvances
============================================================================
