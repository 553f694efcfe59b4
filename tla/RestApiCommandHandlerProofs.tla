-------------------- MODULE RestApiCommandHandlerProofs --------------------
(***************************************************************************)
(* For any number of sensors, any measurements and any buffer sizes: every *)
(* answer to a GET is whole and of one moment, the semaphore is given      *)
(* back, the unguarded look at the data races only before a key's first    *)
(* answer, and decoding stays inside its buffers.                          *)
(***************************************************************************)
EXTENDS RestApiCommandHandler, TLAPS

\* The semaphore keeps the two tasks apart.
Holding == {"value", "raw_value", "config", "give"}
Mutex ==
  /\ semaphore = "main" => update.step \in Holding
  /\ update.step \in Holding => semaphore = "main"
  /\ semaphore = "tcpip" => get.step = "dump"
  /\ get.step = "dump" => semaphore = "tcpip"

\* How far the measurement under way has been stored; the numbers of every
\* other sensor are a pair.
StoredSoFar ==
  /\ Publishing => sensors[update.sensor].value = update.measurement
  /\ update.step \in {"config", "give"} => sensors[update.sensor].raw_value = update.measurement
  /\ update.step = "give" /\ HasConfig(update.sensor) => config[update.sensor] = update.measurement
  /\ \A s \in Sensors : sensors[s].value = sensors[s].raw_value
                          \/ (update.step = "raw_value" /\ s = update.sensor)

\* What has been copied is what the data still are.
Copied ==
  /\ get.step \in {"contains", "take"} => get.left = Known(get.resource) /\ get.payload = NothingYet
  /\ get.step = "dump" =>
       get.payload = [s \in Known(get.resource) \ get.left |-> Entry(get.resource, s)]

\* Until the first value is stored no task waits and no GET gets to the data.
BeforeFirst ==
  ~contains("SENSORS") =>
    /\ ~contains("CONFIG")
    /\ update.step \in {"idle", "take", "value"}
    /\ update.step = "idle" => update.sensor = NumberOfSensors
    /\ update.step # "idle" => update.sensor = 1
    /\ get.step = "take" => update.step = "value"
    /\ get.step # "dump"
    /\ answered = {}

\* From the first value to the first configuration the main task keeps the semaphore
\* if the first sensor has both.
DuringFirst ==
  contains("SENSORS") /\ ~contains("CONFIG") /\ 1 \in typed =>
    /\ update.step \in {"raw_value", "config"}
    /\ update.sensor = 1
    /\ answered = {}

\* Until the first configuration is stored no GET gets to the configurations.
BeforeConfig ==
  ~contains("CONFIG") =>
    /\ "CONFIG" \notin answered
    /\ get.resource = "CONFIG" =>
         get.step # "dump" /\ (get.step = "take" => update.step = "config")

IInv ==
  /\ TypeOK /\ Mutex /\ StoredSoFar /\ Copied
  /\ BeforeFirst /\ DuringFirst /\ BeforeConfig

USE HandlerAssumption

-----------------------------------------------------------------------------
(* Decoding *)

\* Of n digits the bytes written are the first n / 2, rounded up.
LEMMA DecodedIsPrefix ==
  ASSUME NEW n \in Nat, NEW size \in Nat, n <= 2 * size
  PROVE  Decoded(n) \subseteq 0 .. size - 1
<1> SUFFICES ASSUME NEW j \in 0 .. n - 1, j % 2 = 0
             PROVE  j \div 2 \in 0 .. size - 1
  BY DEF Decoded
<1>1. j \in Int /\ j >= 0 /\ j <= 2 * size - 1
  OBVIOUS
<1> QED
  BY <1>1

\* An even number of digits fills its bytes.
LEMMA DecodedIsAll ==
  ASSUME NEW size \in Nat
  PROVE  Decoded(2 * size) = 0 .. size - 1
<1>1. Decoded(2 * size) \subseteq 0 .. size - 1
  BY DecodedIsPrefix
<1>2. ASSUME NEW k \in 0 .. size - 1
      PROVE  k \in Decoded(2 * size)
  <2>1. 2 * k \in 0 .. 2 * size - 1 /\ (2 * k) % 2 = 0 /\ (2 * k) \div 2 = k
    OBVIOUS
  <2> QED
    BY <2>1 DEF Decoded
<1> QED
  BY <1>1, <1>2

LEMMA DecodedIsNat ==
  ASSUME NEW n \in Lengths \cup {Null}
  PROVE  DecodedIfSent(n) \subseteq Nat
<1>1. CASE n = Null
  BY <1>1 DEF DecodedIfSent
<1>2. CASE n \in Nat
  <2>1. Decoded(n) \subseteq 0 .. n - 1
    BY <1>2, DecodedIsPrefix
  <2> QED
    BY <2>1 DEF DecodedIfSent
<1> QED
  BY <1>1, <1>2

-----------------------------------------------------------------------------
(* Types *)

\* Which sensors have a type is settled at the boot.
LEMMA TypedStays ==
  ASSUME [Next]_vars
  PROVE  typed' = typed
  BY DEF Next, MainTask, Measure, Update, UpdateTakes, UpdateTimesOut, UpdateGives,
         StoreValue, StoreRawValue, StoreConfig, Callback, GetCallback, Get, Look, GetTakes,
         GetTimesOut, Dump, GetGives, Post, PostReturns, vars

LEMMA KnownSensors == TypeOK => \A r \in Resources : Known(r) \subseteq Sensors
  BY DEF Known, TypeOK, Resources

\* Copying one more sensor gives a payload again.
LEMMA PayloadGrows ==
  ASSUME NEW payload \in Payloads, NEW s \in Sensors,
         NEW entry \in Numbers \cup Measurements \cup {Null}
  PROVE  [q \in DOMAIN payload \cup {s} |-> IF q = s THEN entry ELSE payload[q]] \in Payloads
<1>1. PICK S \in SUBSET Sensors : payload \in [S -> Numbers \cup Measurements \cup {Null}]
  BY DEF Payloads
<1>2. S \cup {s} \in SUBSET Sensors /\ DOMAIN payload = S
  BY <1>1
<1>3. [q \in S \cup {s} |-> IF q = s THEN entry ELSE payload[q]]
        \in [S \cup {s} -> Numbers \cup Measurements \cup {Null}]
  BY <1>1
<1> QED
  BY <1>2, <1>3 DEF Payloads

LEMMA NothingIsPayload == NothingYet \in Payloads
<1>1. {} \in SUBSET Sensors /\ NothingYet \in [{} -> Numbers \cup Measurements \cup {Null}]
  BY DEF NothingYet
<1> QED
  BY <1>1 DEF Payloads

LEMMA TypeInit == Init => TypeOK
<1> SUFFICES ASSUME Init PROVE TypeOK
  OBVIOUS
<1>1. NoData \in Numbers
  BY DEF NoData, Numbers
<1>2. NumberOfSensors \in Sensors
  BY DEF Sensors
<1>3. update \in [step : UpdateSteps, sensor : Sensors, measurement : Measurements]
      /\ update.step = "idle"
  BY <1>2 DEF Init, UpdateSteps
<1>4. decoded \in [hash : SUBSET Nat, block : SUBSET Nat]
  BY DEF Init, NotDecoded
<1>5. get \in [step : GetSteps, resource : Resources, payload : Payloads, left : SUBSET Sensors]
      /\ get.left = {}
  BY NothingIsPayload DEF Init, GetSteps, Resources
<1> QED
  BY <1>1, <1>3, <1>4, <1>5 DEF Init, TypeOK

\* Every step of the two tasks keeps the types.
LEMMA TypeStep ==
  ASSUME TypeOK, [Next]_vars
  PROVE  TypeOK'
<1>0. typed' = typed
  BY TypedStays
<1> USE <1>0 DEF HasConfig, Known
<1>1. CASE Measure
  <2>1. NextSensor(update.sensor) \in Sensors
    BY DEF TypeOK, NextSensor, Sensors
  <2>2. /\ update' \in [step : UpdateSteps, sensor : Sensors, measurement : Measurements]
        /\ update'.step = "take"
    BY <1>1, <2>1 DEF Measure, UpdateSteps
  <2> QED
    BY <1>1, <2>2 DEF Measure, TypeOK
<1>2. CASE UpdateTakes \/ UpdateTimesOut \/ UpdateGives
  BY <1>2 DEF UpdateTakes, UpdateTimesOut, UpdateGives, UpdateGoes, UpdateSteps, Given, TypeOK
<1>3. CASE StoreValue
  BY <1>3 DEF StoreValue, UpdateGoes, UpdateSteps, Numbers, TypeOK
<1>4. CASE StoreRawValue
  BY <1>4 DEF StoreRawValue, UpdateGoes, UpdateSteps, Numbers, TypeOK
<1>5. CASE StoreConfig
  BY <1>5 DEF StoreConfig, UpdateGoes, UpdateSteps, HasConfig, TypeOK
<1>6. ASSUME NEW r \in Resources, Get(r)
      PROVE  TypeOK'
  <2>1. get' \in [step : GetSteps, resource : Resources, payload : Payloads, left : SUBSET Sensors]
        /\ get'.left = Known(get'.resource)
    BY <1>6, KnownSensors, NothingIsPayload DEF Get, GetSteps
  <2> QED
    BY <1>6, <2>1 DEF Get, TypeOK
<1>7. CASE Look
  BY <1>7 DEF Look, GetGoes, GetSteps, TypeOK
<1>8. CASE GetTakes \/ GetTimesOut \/ PostReturns
  BY <1>8 DEF GetTakes, GetTimesOut, PostReturns, GetGoes, GetSteps, NotDecoded, TypeOK
<1>9. CASE Dump
  <2>1. PICK s \in get.left :
          get' = [get EXCEPT !.left = @ \ {s},
                    !.payload = [q \in DOMAIN @ \cup {s} |->
                                   IF q = s THEN Entry(get.resource, s) ELSE @[q]]]
    BY <1>9 DEF Dump
  <2>2. s \in Sensors /\ Entry(get.resource, s) \in Numbers \cup Measurements \cup {Null}
    BY DEF TypeOK, Entry, Known, Resources
  <2>3. get'.payload \in Payloads
    BY <2>1, <2>2, PayloadGrows DEF TypeOK
  <2>4. get' \in [step : GetSteps, resource : Resources, payload : Payloads, left : SUBSET Sensors]
        /\ get'.left \subseteq get.left /\ get'.resource = get.resource
    BY <2>1, <2>3 DEF TypeOK
  <2> QED
    BY <1>9, <2>4 DEF Dump, TypeOK
<1>10. CASE GetGives
  BY <1>10 DEF GetGives, GetGoes, GetSteps, Given, TypeOK
<1>11. ASSUME NEW hash \in Lengths \cup {Null}, NEW binary \in Lengths \cup {Null},
              Post(hash, binary)
       PROVE  TypeOK'
  <2>1. decoded' \in [hash : SUBSET Nat, block : SUBSET Nat]
    BY <1>11, DecodedIsNat DEF Post, NotDecoded
  <2>2. get' \in [step : GetSteps, resource : Resources, payload : Payloads, left : SUBSET Sensors]
        /\ get'.left = get.left /\ get'.resource = get.resource
    BY <1>11 DEF Post, GetSteps, TypeOK
  <2> QED
    BY <1>11, <2>1, <2>2 DEF Post, TypeOK
<1>12. CASE UNCHANGED vars
  BY <1>12 DEF vars, TypeOK
<1> QED
  BY <1>1, <1>2, <1>3, <1>4, <1>5, <1>6, <1>7, <1>8, <1>9, <1>10, <1>11, <1>12
     DEF Next, MainTask, Update, Callback, GetCallback

-----------------------------------------------------------------------------
(* The invariant *)

\* A POST or its end, as far as the data are concerned.
Posting ==
  /\ get.step \in {"idle", "post"} /\ get'.step \in {"idle", "post"}
  /\ UNCHANGED <<typed, sensors, config, semaphore, update, answer, answered>>

LEMMA PostIsPosting ==
  ASSUME TypeOK,
         PostReturns \/ \E hash, binary \in Lengths \cup {Null} : Post(hash, binary)
  PROVE  Posting
  BY DEF Posting, Post, PostReturns, GetGoes, TypeOK

\* The semaphore is taken by whom it says.
LEMMA MutexStep ==
  ASSUME TypeOK, Mutex, [Next]_vars
  PROVE  Mutex'
<1> USE DEF TypeOK, Mutex, Holding, HasConfig, Known
<1>1. CASE Measure
  BY <1>1 DEF Measure
<1>2. CASE Update
  BY <1>2 DEF Update, UpdateTakes, UpdateTimesOut, StoreValue, StoreRawValue, StoreConfig,
              UpdateGives, UpdateGoes, Free, Given
<1>3. ASSUME NEW r \in Resources, Get(r)
      PROVE  Mutex'
  BY <1>3 DEF Get
<1>4. CASE Look \/ GetTakes \/ GetTimesOut \/ GetGives
  BY <1>4 DEF Look, GetTakes, GetTimesOut, GetGives, GetGoes, Free, Given
<1>5. CASE Dump
  BY <1>5 DEF Dump
<1>6. CASE Posting
  BY <1>6 DEF Posting
<1>7. CASE UNCHANGED vars
  BY <1>7 DEF vars
<1> QED
  BY <1>1, <1>2, <1>3, <1>4, <1>5, <1>6, <1>7, PostIsPosting
     DEF Next, MainTask, Callback, GetCallback

\* The measurement under way is stored key by key, the others stay pairs.
LEMMA StoredStep ==
  ASSUME TypeOK, StoredSoFar, [Next]_vars
  PROVE  StoredSoFar'
<1>0. typed' = typed
  BY TypedStays
<1> USE <1>0 DEF TypeOK, StoredSoFar, Publishing, Numbers, HasConfig, Known
<1>1. CASE Measure
  BY <1>1 DEF Measure
<1>2. CASE UpdateTakes \/ UpdateTimesOut \/ UpdateGives
  BY <1>2 DEF UpdateTakes, UpdateTimesOut, UpdateGives, UpdateGoes
<1>3. CASE StoreValue
  BY <1>3 DEF StoreValue, UpdateGoes
<1>4. CASE StoreRawValue
  BY <1>4 DEF StoreRawValue, UpdateGoes
<1>5. CASE StoreConfig
  BY <1>5 DEF StoreConfig, UpdateGoes, HasConfig
<1>6. CASE UNCHANGED <<typed, sensors, config, update>>
  BY <1>6
<1> QED
  BY <1>1, <1>2, <1>3, <1>4, <1>5, <1>6
     DEF Next, MainTask, Update, Callback, GetCallback, Get, Look, GetTakes, GetTimesOut,
         Dump, GetGives, Post, PostReturns, vars

\* While the lwIP thread copies, the data do not change.
LEMMA CopiedStep ==
  ASSUME TypeOK, Mutex, Copied, [Next]_vars
  PROVE  Copied'
<1>0. typed' = typed
  BY TypedStays
<1> USE <1>0 DEF TypeOK, Copied, HasConfig, Known
<1>1. CASE Measure
  BY <1>1 DEF Measure, Entry
<1>2. CASE UpdateTakes \/ UpdateTimesOut \/ UpdateGives
  BY <1>2 DEF UpdateTakes, UpdateTimesOut, UpdateGives, Entry
<1>3. CASE StoreValue \/ StoreRawValue \/ StoreConfig
  <2>1. get.step # "dump" /\ UNCHANGED get
    BY <1>3 DEF StoreValue, StoreRawValue, StoreConfig, UpdateGoes, Mutex, Holding
  <2> QED
    BY <2>1 DEF Entry, Known
<1>4. ASSUME NEW r \in Resources, Get(r)
      PROVE  Copied'
  BY <1>4 DEF Get
<1>5. CASE Look \/ GetTimesOut \/ GetGives
  BY <1>5 DEF Look, GetTimesOut, GetGives, GetGoes
<1>6. CASE GetTakes
  <2>1. /\ get'.step = "dump" /\ get'.payload = NothingYet
        /\ Known(get'.resource) \ get'.left = {}
    BY <1>6 DEF GetTakes, GetGoes
  <2>2. NothingYet = [s \in {} |-> Entry(get.resource, s)']
    BY Zenon DEF NothingYet
  <2>3. get'.payload = [s \in Known(get'.resource) \ get'.left |-> Entry(get.resource, s)']
    BY <2>1, <2>2
  <2>4. get'.resource = get.resource
    BY <1>6 DEF GetTakes, GetGoes
  <2> QED
    BY <2>1, <2>3, <2>4 DEF Entry, Known
<1>7. CASE Dump
  <2>1. PICK s \in get.left :
          get' = [get EXCEPT !.left = @ \ {s},
                    !.payload = [q \in DOMAIN @ \cup {s} |->
                                   IF q = s THEN Entry(get.resource, s) ELSE @[q]]]
    BY <1>7 DEF Dump
  <2>2. get.payload = [q \in Known(get.resource) \ get.left |-> Entry(get.resource, q)]
    BY <1>7 DEF Dump
  <2>3. (Known(get.resource) \ get.left) \cup {s} = Known(get.resource) \ (get.left \ {s})
    OBVIOUS
  <2>4. get'.payload = [q \in Known(get.resource) \ (get.left \ {s}) |-> Entry(get.resource, q)]
    BY <2>1, <2>2, <2>3
  <2>5. \A q : Entry(get.resource, q)' = Entry(get.resource, q)
    BY <1>7, <2>1 DEF Dump, Entry
  <2> QED
    BY <1>7, <2>1, <2>4, <2>5 DEF Dump, Entry
<1>8. CASE Posting
  BY <1>8 DEF Posting
<1>9. CASE UNCHANGED vars
  BY <1>9 DEF vars, Entry, Known
<1> QED
  BY <1>1, <1>2, <1>3, <1>4, <1>5, <1>6, <1>7, <1>8, <1>9, PostIsPosting
     DEF Next, MainTask, Update, Callback, GetCallback

LEMMA FirstSensor ==
  1 \in Sensors /\ NumberOfSensors \in Sensors /\ NextSensor(NumberOfSensors) = 1
  BY DEF Sensors, NextSensor

\* Storing a value leaves data behind, and no step takes data away.
LEMMA ContainsStays ==
  ASSUME TypeOK, [Next]_vars
  PROVE  /\ typed' = typed
         /\ contains("SENSORS") => contains("SENSORS")'
         /\ contains("CONFIG") => contains("CONFIG")'
         /\ StoreValue => contains("SENSORS")'
         /\ StoreConfig => contains("CONFIG")'
         /\ ~StoreValue => (contains("SENSORS")' => contains("SENSORS"))
         /\ ~StoreConfig => (contains("CONFIG")' => contains("CONFIG"))
<1>1. update.measurement # Null /\ update.sensor \in Sensors /\ typed' = typed
  BY TypedStays DEF TypeOK
<1>2. CASE StoreValue
  <2>1. \A s \in Sensors : sensors'[s].value =
                            IF s = update.sensor THEN update.measurement ELSE sensors[s].value
    BY <1>2 DEF StoreValue, TypeOK, Numbers
  <2>2. config' = config /\ ~StoreConfig
    BY <1>2 DEF StoreValue, StoreConfig, UpdateGoes
  <2> QED
    BY <1>1, <1>2, <2>1, <2>2 DEF contains
<1>3. CASE StoreRawValue
  <2>1. \A s \in Sensors : sensors'[s].value = sensors[s].value
    BY <1>3 DEF StoreRawValue, TypeOK, Numbers
  <2>2. config' = config /\ ~StoreConfig /\ ~StoreValue
    BY <1>3 DEF StoreValue, StoreRawValue, StoreConfig, UpdateGoes
  <2> QED
    BY <1>1, <2>1, <2>2 DEF contains
<1>4. CASE StoreConfig
  <2>1. update.sensor \in typed
    BY <1>1, <1>4 DEF StoreConfig, UpdateGoes, TypeOK, HasConfig
  <2>2. \A s \in typed : config'[s] =
                              IF s = update.sensor THEN update.measurement ELSE config[s]
    BY <1>4 DEF StoreConfig, TypeOK
  <2>3. sensors' = sensors /\ ~StoreValue
    BY <1>4 DEF StoreValue, StoreConfig, UpdateGoes
  <2> QED
    BY <1>1, <1>4, <2>1, <2>2, <2>3 DEF contains
<1>5. CASE UNCHANGED <<typed, sensors, config>> /\ ~StoreValue /\ ~StoreConfig
  BY <1>1, <1>5 DEF contains
<1>6. \/ StoreValue \/ StoreRawValue \/ StoreConfig
      \/ UNCHANGED <<typed, sensors, config>>
  BY DEF Next, MainTask, Measure, Update, UpdateTakes, UpdateTimesOut, UpdateGives, Callback,
         GetCallback, Get, Look, GetTakes, GetTimesOut, Dump, GetGives, Post, PostReturns, vars
<1> QED
  BY <1>2, <1>3, <1>4, <1>5, <1>6

\* A first sensor with a type inserts both keys in its first report, and keeps the
\* semaphore until it has; in any case the key of the configurations is inserted
\* under the semaphore.
LEMMA FirstStep ==
  ASSUME TypeOK, Mutex, BeforeFirst, DuringFirst, BeforeConfig, [Next]_vars
  PROVE  (BeforeFirst /\ DuringFirst /\ BeforeConfig)'
<1> USE ContainsStays, FirstSensor DEF TypeOK, BeforeFirst, DuringFirst, BeforeConfig
<1>1. CASE Measure
  <2>1. ~StoreValue /\ ~StoreConfig
    BY <1>1 DEF Measure, StoreValue, StoreConfig, UpdateGoes
  <2> QED
    BY <1>1, <2>1 DEF Measure
<1>2. CASE UpdateTakes
  <2>1. ~StoreValue /\ ~StoreConfig
    BY <1>2 DEF UpdateTakes, StoreValue, StoreConfig, UpdateGoes
  <2> QED
    BY <1>2, <2>1 DEF UpdateTakes, UpdateGoes
<1>3. CASE UpdateTimesOut
  <2>1. ~StoreValue /\ ~StoreConfig
    BY <1>3 DEF UpdateTimesOut, StoreValue, StoreConfig, UpdateGoes
  <2>2. contains("SENSORS")
    BY <1>3 DEF UpdateTimesOut, UpdateGoes, Free, Mutex, Holding
  <2> QED
    BY <1>3, <2>1, <2>2 DEF UpdateTimesOut, UpdateGoes
<1>4. CASE StoreValue
  <2>1. ~StoreConfig
    BY <1>4 DEF StoreValue, StoreConfig, UpdateGoes
  <2> QED
    BY <1>4, <2>1 DEF StoreValue, UpdateGoes
<1>5. CASE StoreRawValue
  <2>1. ~StoreValue /\ ~StoreConfig /\ contains("SENSORS")
    BY <1>5 DEF StoreRawValue, StoreValue, StoreConfig, UpdateGoes
  <2> QED
    BY <1>5, <2>1 DEF StoreRawValue, UpdateGoes, HasConfig
<1>6. CASE StoreConfig
  <2>1. ~StoreValue /\ contains("SENSORS")
    BY <1>6 DEF StoreValue, StoreConfig, UpdateGoes
  <2> QED
    BY <1>6, <2>1
<1>7. CASE UpdateGives
  <2>1. ~StoreValue /\ ~StoreConfig /\ contains("SENSORS")
        /\ (contains("CONFIG") \/ 1 \notin typed)
    BY <1>7 DEF UpdateGives, StoreValue, StoreConfig, UpdateGoes
  <2> QED
    BY <1>7, <2>1 DEF UpdateGives, UpdateGoes
<1>8. CASE UNCHANGED <<typed, sensors, config, update>>
  <2>1. /\ contains("SENSORS")' <=> contains("SENSORS")
        /\ contains("CONFIG")' <=> contains("CONFIG")
        /\ typed' = typed
    BY <1>8 DEF contains
  <2>2. CASE \E r \in Resources : Get(r)
    BY <1>8, <2>1, <2>2 DEF Get
  <2>3. CASE Look
    <3>1. /\ ~contains("SENSORS") /\ get'.step = "take" => update.step = "value"
          /\ ~contains("CONFIG") /\ get.resource = "CONFIG" /\ get'.step = "take" =>
               update.step = "config"
          /\ get'.resource = get.resource
      BY <2>3 DEF Look, GetGoes, Found, BeingInserted, Resources
    <3> QED
      BY <1>8, <2>1, <2>3, <3>1 DEF Look, GetGoes
  <2>4. CASE GetTakes
    <3>1. update.step \notin Holding
      BY <2>4 DEF GetTakes, Free, Mutex
    <3> QED
      BY <1>8, <2>1, <2>4, <3>1 DEF GetTakes, GetGoes, Holding
  <2>5. CASE GetTimesOut
    BY <1>8, <2>1, <2>5 DEF GetTimesOut, GetGoes
  <2>6. CASE Dump
    BY <1>8, <2>1, <2>6 DEF Dump
  <2>7. CASE GetGives
    <3>1. update.step \notin Holding
      BY <2>7 DEF GetGives, GetGoes, Mutex
    <3> QED
      BY <1>8, <2>1, <2>7, <3>1 DEF GetGives, GetGoes, Holding
  <2>8. CASE Posting
    BY <1>8, <2>1, <2>8 DEF Posting
  <2>9. CASE UNCHANGED vars
    BY <2>1, <2>9 DEF vars
  <2> QED
    BY <1>8, <2>2, <2>3, <2>4, <2>5, <2>6, <2>7, <2>8, <2>9, PostIsPosting
       DEF Next, MainTask, Measure, Update, UpdateTakes, UpdateTimesOut, StoreValue,
           StoreRawValue, StoreConfig, UpdateGives, UpdateGoes, Callback, GetCallback
<1> QED
  BY <1>1, <1>2, <1>3, <1>4, <1>5, <1>6, <1>7, <1>8
     DEF Next, MainTask, Update, Callback, GetCallback, Get, Look, GetTakes, GetTimesOut,
         Dump, GetGives, Post, PostReturns, vars

LEMMA IInvInit == Init => IInv
<1> SUFFICES ASSUME Init PROVE IInv
  OBVIOUS
<1>1. TypeOK
  BY TypeInit
<1>2. update.step = "idle" /\ get.step = "idle" /\ semaphore = Null
      /\ update.sensor = NumberOfSensors /\ answered = {}
  BY DEF Init
<1>3. Mutex /\ Copied
  BY <1>2 DEF Mutex, Copied, Holding
<1>4. StoredSoFar
  BY <1>2 DEF Init, StoredSoFar, Publishing, NoData
<1>5. ~contains("SENSORS") /\ ~contains("CONFIG")
  BY DEF Init, contains, NoData
<1>6. BeforeFirst /\ DuringFirst /\ BeforeConfig
  BY <1>2, <1>5 DEF BeforeFirst, DuringFirst, BeforeConfig
<1> QED
  BY <1>1, <1>3, <1>4, <1>6 DEF IInv

LEMMA IInvStep ==
  ASSUME IInv, [Next]_vars
  PROVE  IInv'
  BY TypeStep, MutexStep, StoredStep, CopiedStep, FirstStep DEF IInv

LEMMA IInvHolds == Spec => []IInv
  BY IInvInit, IInvStep, PTL DEF Spec

\* The type invariant: two tasks, a semaphore with one holder, data per sensor.
THEOREM TypeCorrect == Spec => []TypeOK
<1>1. IInv => TypeOK
  BY DEF IInv
<1> QED
  BY <1>1, IInvHolds, PTL

\* For any sensors, with and without a type: contains, which get_callback asks
\* without the semaphore, can meet the insertion of a key only before a GET of that
\* key has been answered, and, when the first sensor read has a type, before any.
THEOREM RaceOnlyAtFirst == Spec => []RaceIsFirst
<1>1. ASSUME IInv, get.step = "contains", NEW r \in Resources, BeingInserted(r)
      PROVE  /\ "CONFIG" \notin answered
             /\ BeingInserted("SENSORS") \/ 1 \in typed => answered = {}
  <2>1. ~contains("SENSORS") => answered = {} /\ ~contains("CONFIG")
    BY <1>1 DEF IInv, BeforeFirst
  <2>2. ~contains("CONFIG")
    BY <1>1, <2>1 DEF BeingInserted, Resources
  <2> QED
    BY <1>1, <2>1, <2>2 DEF IInv, DuringFirst, BeforeConfig, BeingInserted
<1>2. IInv => RaceIsFirst
  BY <1>1 DEF RaceIsFirst, Inserting
<1> QED
  BY <1>2, IInvHolds, PTL

\* The keys that the holder of the semaphore has still to store, with giving it back.
StoresLeft ==
  CASE update.step = "value" -> 4 [] update.step = "raw_value" -> 3
    [] update.step = "config" -> 2 [] update.step = "give" -> 1 [] OTHER -> 0

\* A step of the holder in the lwIP thread: it gives the semaphore back, or one
\* more sensor is copied.
Gives == semaphore' = Null
CopiesOne == semaphore' = "tcpip" /\ get'.left \in (SUBSET get.left) \ {get.left}

\* The semaphore is taken exactly by who is between take and give; each of its
\* steps leaves fewer to give it back, and no step of another one delays it or
\* takes the semaphore from it.
HolderGoesOn ==
  /\ []((semaphore = "main") = (StoresLeft > 0))
  /\ []((semaphore = "tcpip") = (get.step = "dump"))
  /\ [][semaphore = "main" =>
          IF MainTask THEN StoresLeft' < StoresLeft /\ semaphore' \in {"main", Null}
          ELSE UNCHANGED <<update, semaphore>>]_vars
  /\ [][semaphore = "tcpip" =>
          IF Callback THEN Gives \/ CopiesOne
          ELSE UNCHANGED <<get, semaphore>>]_vars

\* For any number of sensors, each of the two tasks gives the semaphore back
\* after at most as many of its own steps as it has keys to store or sensors to
\* copy: no path from take misses give.  Of GivenBack only that the tasks are
\* scheduled is left to fairness.
THEOREM HolderGivesBack == Spec => HolderGoesOn
<1>1. ASSUME IInv PROVE ((semaphore = "main") = (StoresLeft > 0))
  BY <1>1 DEF IInv, TypeOK, UpdateSteps, Mutex, Holding, StoresLeft
<1>2. ASSUME IInv PROVE ((semaphore = "tcpip") = (get.step = "dump"))
  BY <1>2 DEF IInv, Mutex
<1>3. ASSUME IInv, [Next]_vars, semaphore = "main"
      PROVE  IF MainTask THEN StoresLeft' < StoresLeft /\ semaphore' \in {"main", Null}
             ELSE UNCHANGED <<update, semaphore>>
  <2>1. update.step \in Holding /\ get.step # "dump"
    BY <1>3 DEF IInv, Mutex
  <2>2. update \in [step : UpdateSteps, sensor : Sensors, measurement : Measurements]
    BY <1>3 DEF IInv, TypeOK
  <2>3. CASE MainTask
    <3>1. ~Measure /\ ~UpdateTakes /\ ~UpdateTimesOut
      BY <2>1 DEF Holding, Measure, UpdateTakes, UpdateTimesOut, UpdateGoes
    <3>2. CASE StoreValue
      <4>1. update.step = "value" /\ update'.step = "raw_value" /\ semaphore' = semaphore
        BY <2>2, <3>2 DEF StoreValue, UpdateGoes
      <4> QED
        BY <1>3, <2>3, <4>1 DEF StoresLeft
    <3>3. CASE StoreRawValue
      <4>1. /\ update.step = "raw_value" /\ update'.step \in {"config", "give"}
            /\ semaphore' = semaphore
        BY <2>2, <3>3 DEF StoreRawValue, UpdateGoes
      <4> QED
        BY <1>3, <2>3, <4>1 DEF StoresLeft
    <3>4. CASE StoreConfig
      <4>1. update.step = "config" /\ update'.step = "give" /\ semaphore' = semaphore
        BY <2>2, <3>4 DEF StoreConfig, UpdateGoes
      <4> QED
        BY <1>3, <2>3, <4>1 DEF StoresLeft
    <3>5. CASE UpdateGives
      <4>1. update.step = "give" /\ update'.step = "idle" /\ semaphore' = Null
        BY <2>2, <3>5 DEF UpdateGives, UpdateGoes, Given
      <4> QED
        BY <2>3, <4>1 DEF StoresLeft
    <3> QED
      BY <2>3, <3>1, <3>2, <3>3, <3>4, <3>5 DEF MainTask, Update
  <2>4. CASE ~MainTask
    BY <1>3, <2>1, <2>4 DEF Next, Callback, GetCallback, Look, GetTakes, GetTimesOut, GetGives,
       GetGoes, Free, Dump, Get, Post, PostReturns, vars
  <2> QED
    BY <2>3, <2>4
<1>4. ASSUME IInv, [Next]_vars, semaphore = "tcpip"
      PROVE  IF Callback THEN Gives \/ CopiesOne
             ELSE UNCHANGED <<get, semaphore>>
  <2>1. get.step = "dump" /\ update.step \notin Holding
    BY <1>4 DEF IInv, Mutex
  <2>2. get \in [step : GetSteps, resource : Resources, payload : Payloads,
                left : SUBSET Sensors]
    BY <1>4 DEF IInv, TypeOK
  <2>3. CASE Callback
    <3>1. Dump \/ GetGives
      BY <2>1, <2>3 DEF Callback, GetCallback, Look, GetTakes, GetTimesOut, PostReturns, GetGoes
    <3>2. CASE GetGives
      BY <2>3, <3>2 DEF GetGives, Given, Gives
    <3>3. CASE Dump
      <4>1. PICK s \in get.left : get'.left = get.left \ {s}
        BY <2>2, <3>3 DEF Dump
      <4>2. semaphore' = "tcpip"
        BY <1>4, <3>3 DEF Dump
      <4> QED
        BY <2>3, <4>1, <4>2 DEF CopiesOne
    <3> QED
      BY <3>1, <3>2, <3>3
  <2>4. CASE ~Callback
    BY <1>4, <2>1, <2>4
       DEF Next, MainTask, Measure, Update, UpdateTakes, UpdateTimesOut, StoreValue,
       StoreRawValue, StoreConfig, UpdateGives, UpdateGoes, Free, Holding, Get, Post, vars
  <2> QED
    BY <2>3, <2>4
<1>5. ASSUME IInv, [Next]_vars
      PROVE  [semaphore = "main" =>
                IF MainTask THEN StoresLeft' < StoresLeft /\ semaphore' \in {"main", Null}
                ELSE UNCHANGED <<update, semaphore>>]_vars
  BY <1>3, <1>5
<1>6. ASSUME IInv, [Next]_vars
      PROVE  [semaphore = "tcpip" =>
                IF Callback THEN Gives \/ CopiesOne
                ELSE UNCHANGED <<get, semaphore>>]_vars
  BY <1>4, <1>6
<1> QED
  BY <1>1, <1>2, <1>5, <1>6, IInvHolds, PTL DEF Spec, HolderGoesOn

\* The digits that post_callback accepts are decoded inside the two buffers.
THEOREM DecodingStaysInside == Spec => []InsideBuffers
<1>1. Init => InsideBuffers
  BY DEF Init, NotDecoded, InsideBuffers
<1>2. ASSUME InsideBuffers, [Next]_vars PROVE InsideBuffers'
  <2>1. ASSUME NEW hash \in Lengths \cup {Null}, NEW binary \in Lengths \cup {Null},
               Post(hash, binary)
        PROVE  InsideBuffers'
    <3>1. hash = Null \/ ValidHash(hash) =>
            DecodedIfSent(hash) \in {{}, 0 .. SHA256_DIGEST_SIZE - 1}
      BY DecodedIsAll DEF ValidHash, DecodedIfSent
    <3>2. binary = Null \/ ValidBinary(binary) =>
            DecodedIfSent(binary) \subseteq 0 .. DOWNLOAD_BLOCK_SIZE - 1
      <4>1. CASE binary = Null
        BY <4>1 DEF DecodedIfSent
      <4>2. CASE binary # Null /\ ValidBinary(binary)
        <5>1. binary \in Nat /\ binary <= 2 * DOWNLOAD_BLOCK_SIZE
          BY <4>2 DEF ValidBinary
        <5> QED
          BY <4>2, <5>1, DecodedIsPrefix DEF DecodedIfSent
      <4> QED
        BY <4>1, <4>2
    <3> QED
      BY <2>1, <3>1, <3>2 DEF Post, NotDecoded, InsideBuffers
  <2>2. CASE PostReturns
    BY <2>2 DEF PostReturns, NotDecoded, InsideBuffers
  <2>3. CASE UNCHANGED decoded
    BY <1>2, <2>3 DEF InsideBuffers
  <2> QED
    BY <1>2, <2>1, <2>2, <2>3
       DEF Next, MainTask, Measure, Update, UpdateTakes, UpdateTimesOut, StoreValue,
           StoreRawValue, StoreConfig, UpdateGives, Callback, GetCallback, Get, Look,
           GetTakes, GetTimesOut, Dump, GetGives, vars
<1> QED
  BY <1>1, <1>2, PTL DEF Spec

-----------------------------------------------------------------------------
(* The refinement of RestData *)

LEMMA InitRefines == Init => Published!Init
  BY DEF Init, Published!Init, publishedData, publishedConfigs, seen, Publishing, NoData

\* The keys stored after the first change nothing that is published.
LEMMA KeyStoredStutters ==
  ASSUME IInv, StoreRawValue \/ StoreConfig \/ UpdateGives
  PROVE  UNCHANGED <<typed, publishedData, publishedConfigs, seen>>
<1> USE DEF IInv, TypeOK, StoredSoFar, Publishing, publishedData, publishedConfigs, seen
<1>1. CASE StoreRawValue
  BY <1>1 DEF StoreRawValue, UpdateGoes
<1>2. CASE StoreConfig
  BY <1>2 DEF StoreConfig, UpdateGoes
<1>3. CASE UpdateGives
  BY <1>3 DEF UpdateGives, UpdateGoes, HasConfig
<1> QED
  BY <1>1, <1>2, <1>3

\* The first key publishes the measurement.
LEMMA ValueStoredPublishes ==
  ASSUME IInv, StoreValue
  PROVE  Published!Publish(update.sensor, update.measurement)
  BY DEF IInv, TypeOK, Publishing, publishedData, publishedConfigs, seen, StoreValue,
         UpdateGoes, Published!Publish

\* What GetGives answers is what is published.
LEMMA GivesPublished ==
  ASSUME IInv, GetGives
  PROVE  Published!Answer
<1> USE DEF IInv, TypeOK
<1>1. /\ get.step = "dump" /\ get.left = {}
      /\ answer' = [resource |-> get.resource, payload |-> get.payload]
      /\ UNCHANGED <<typed, sensors, config, update>>
  BY DEF GetGives, GetGoes
<1>2. UNCHANGED <<typed, publishedData, publishedConfigs>>
  BY <1>1 DEF publishedData, publishedConfigs, Publishing
<1>3. ~Publishing
  BY <1>1 DEF Mutex, Holding, Publishing
<1>4. CASE answer' = Null
  BY <1>2, <1>4 DEF seen, Published!Answer
<1>5. CASE answer' # Null /\ get.resource = "CONFIG"
  <2>1. get.payload = [s \in typed |-> config[s]]
    BY <1>1, <1>5 DEF Copied, Known, Entry
  <2>2. publishedConfigs = [s \in typed |-> config[s]]
    BY <1>3 DEF publishedConfigs
  <2>3. seen' = [resource |-> "CONFIG", payload |-> publishedConfigs]
    BY <1>1, <1>5, <2>1, <2>2 DEF seen
  <2> QED
    BY <1>2, <2>3 DEF Published!Answer
<1>6. CASE answer' # Null /\ get.resource = "SENSORS"
  <2>1. get.payload = [s \in Sensors |-> sensors[s]]
    BY <1>1, <1>6 DEF Copied, Known, Entry
  <2>2. \A s \in Sensors : sensors[s].value = sensors[s].raw_value
    BY <1>3 DEF StoredSoFar, Publishing
  <2>3. Pairs(get.payload) = [s \in Sensors |-> sensors[s].value]
    BY <2>1, <2>2 DEF Pairs
  <2>4. publishedData = [s \in Sensors |-> sensors[s].value]
    BY <1>3 DEF publishedData
  <2>5. seen' = [resource |-> "SENSORS", payload |-> publishedData]
    BY <1>1, <1>6, <2>3, <2>4 DEF seen
  <2> QED
    BY <1>2, <2>5 DEF Published!Answer
<1> QED
  BY <1>4, <1>5, <1>6 DEF Resources

\* A refusal is one in RestData.
LEMMA RefusalIsAnswer ==
  ASSUME answer' = Null, UNCHANGED <<typed, sensors, config, update>>
  PROVE  Published!Answer
  BY DEF seen, publishedData, publishedConfigs, Publishing, Published!Answer

LEMMA StepRefines ==
  ASSUME IInv, [Next]_vars
  PROVE  [Published!Next]_<<typed, publishedData, publishedConfigs, seen>>
<1>1. CASE Measure \/ UpdateTakes \/ UpdateTimesOut
  BY <1>1 DEF Measure, UpdateTakes, UpdateTimesOut, UpdateGoes, IInv, TypeOK, Publishing,
              publishedData, publishedConfigs, seen
<1>2. CASE StoreValue
  BY <1>2, ValueStoredPublishes DEF Published!Next, IInv, TypeOK
<1>3. CASE StoreRawValue \/ StoreConfig \/ UpdateGives
  BY <1>3, KeyStoredStutters
<1>4. CASE GetGives
  BY <1>4, GivesPublished DEF Published!Next
<1>5. CASE answer' = Null /\ UNCHANGED <<typed, sensors, config, update>>
  BY <1>5, RefusalIsAnswer DEF Published!Next
<1>6. CASE UNCHANGED <<typed, sensors, config, update, answer>>
  BY <1>6 DEF seen, publishedData, publishedConfigs, Publishing, Pairs
<1> QED
  BY <1>1, <1>2, <1>3, <1>4, <1>5, <1>6
     DEF Next, MainTask, Update, Callback, GetCallback, Get, Look, GetTakes, GetTimesOut,
         Dump, Post, PostReturns, vars

\* RestApiCommandHandler implements RestData: a client is answered with every
\* sensor's latest published measurement as they are at one moment, whole.
THEOREM ImplementsRestData == Spec => Whole
<1>1. ASSUME IInv, [Next]_vars
      PROVE  [Published!Next]_<<typed, publishedData, publishedConfigs, seen>>
  BY <1>1, StepRefines
<1> QED
  BY <1>1, InitRefines, IInvHolds, PTL DEF Spec, Whole, Published!Spec
=============================================================================
