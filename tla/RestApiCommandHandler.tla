----------------------- MODULE RestApiCommandHandler -----------------------
(***************************************************************************)
(* The data behind GET: the main task publishes a measurement after every  *)
(* read of a sensor, key by key under the semaphore, and the lwIP thread   *)
(* copies the data into an answer under the same semaphore.  Either gives  *)
(* up when it does not get the semaphore within ten ticks.  Before that    *)
(* the lwIP thread looks without the semaphore whether there is any data.  *)
(* The lwIP thread also decodes the hexadecimal fields of POST SWDL into   *)
(* buffers of fixed size.                                                  *)
(*                                                                         *)
(* A measurement is a value that its number, its raw number and the        *)
(* configuration sent along with it have in common.                        *)
(***************************************************************************)
EXTENDS Integers

CONSTANTS
  NumberOfSensors,        \* sensors_, in the order in which the loop reads them
  Measurements,
  SHA256_DIGEST_SIZE, DOWNLOAD_BLOCK_SIZE,
  Lengths,                \* of the texts that a POST SWDL carries
  Null

ASSUME HandlerAssumption ==
  /\ NumberOfSensors \in Nat \ {0}
  /\ SHA256_DIGEST_SIZE \in Nat \ {0} /\ DOWNLOAD_BLOCK_SIZE \in Nat \ {0}
  /\ Lengths \subseteq Nat
  /\ Null \notin Measurements \cup {"main", "tcpip"}

Sensors == 1 .. NumberOfSensors

VARIABLES
  typed,       \* the sensors whose configuration has a type, from the boot on
  sensors,     \* rest_api_data_["sensors"]: per sensor the two numbers, Null while absent
  config,      \* rest_api_data_["config"]
  semaphore,   \* the task that has taken it, or Null
  update,      \* the main task: the step of update, the sensor and its measurement
  get,         \* the lwIP thread: the step of its callback, the resource, what is copied
  answer,      \* what the last GET was answered: a resource and its payload, or Null
  decoded,     \* the bytes that the POST SWDL under way has written, per buffer
  answered     \* history: the resources of which a GET has been answered

vars == <<typed, sensors, config, semaphore, update, get, answer, decoded, answered>>

\* Mutation: the first sensor's configuration is left out.
FirstSkipped(s) == s \in typed /\ s > 1
HasConfig(s) == s \in typed

Resources == {"SENSORS", "CONFIG"}
Known(r) == IF r = "SENSORS" THEN Sensors ELSE typed

UpdateSteps == {"idle", "take", "value", "raw_value", "config", "give"}
GetSteps == {"idle", "contains", "take", "dump", "post"}

Numbers == [value : Measurements \cup {Null}, raw_value : Measurements \cup {Null}]
NoData == [value |-> Null, raw_value |-> Null]

\* What can be copied of the data, sensor by sensor.
Payloads == UNION {[S -> Numbers \cup Measurements \cup {Null}] : S \in SUBSET Sensors}
NothingYet == [s \in {} |-> NoData]

NotDecoded == [hash |-> {}, block |-> {}]

\* A POST may leave out a sensor's type; the temperature sensor, which is created
\* last, sends an empty configuration.
Init ==
  /\ typed \in SUBSET (Sensors \ {NumberOfSensors})
  /\ sensors = [s \in Sensors |-> NoData]
  /\ config = [s \in typed |-> Null]
  /\ semaphore = Null
  /\ update \in [step : {"idle"}, sensor : {NumberOfSensors}, measurement : Measurements]
  /\ get = [step |-> "idle", resource |-> "SENSORS", payload |-> NothingYet, left |-> {}]
  /\ answer = Null
  /\ decoded = NotDecoded
  /\ answered = {}

\* A key of rest_api_data_ is inserted with the first sensor that is filed under it.
contains(r) ==
  IF r = "SENSORS" THEN \E s \in Sensors : sensors[s].value # Null
                   ELSE \E s \in typed : config[s] # Null

-----------------------------------------------------------------------------
(* The main task: Ads1115Adc::read or TempAdc::read notifies update *)

UpdateGoes(from, to) ==
  update.step = from /\ update' = [update EXCEPT !.step = to]

\* Mutation: the loop runs past the last sensor.
PastTheLast(s) == s + 1
\* Mutation: the loop stops short of the last sensor.
ShortOfTheLast(s) == IF s + 1 < NumberOfSensors THEN s + 1 ELSE 1
NextSensor(s) == IF s < NumberOfSensors THEN s + 1 ELSE 1

\* The next sensor is read.
Measure ==
  /\ update.step = "idle"
  /\ \E m \in Measurements :
       update' = [step |-> "take", sensor |-> NextSensor(update.sensor), measurement |-> m]
  /\ UNCHANGED <<typed, sensors, config, semaphore, get, answer, decoded, answered>>

\* Mutation: the data are written whether or not the semaphore is free.
Always == TRUE
Free == semaphore = Null

UpdateTakes ==
  /\ UpdateGoes("take", "value") /\ Free
  /\ semaphore' = "main"
  /\ UNCHANGED <<typed, sensors, config, get, answer, decoded, answered>>

\* Ten ticks pass: the measurement is dropped.
UpdateTimesOut ==
  /\ UpdateGoes("take", "idle") /\ ~Free
  /\ UNCHANGED <<typed, sensors, config, semaphore, get, answer, decoded, answered>>

StoreValue ==
  /\ UpdateGoes("value", "raw_value")
  /\ sensors' = [sensors EXCEPT ![update.sensor].value = update.measurement]
  /\ UNCHANGED <<typed, config, semaphore, get, answer, decoded, answered>>

StoreRawValue ==
  /\ UpdateGoes("raw_value", IF HasConfig(update.sensor) THEN "config" ELSE "give")
  /\ sensors' = [sensors EXCEPT ![update.sensor].raw_value = update.measurement]
  /\ UNCHANGED <<typed, config, semaphore, get, answer, decoded, answered>>

StoreConfig ==
  /\ UpdateGoes("config", "give")
  /\ config' = [config EXCEPT ![update.sensor] = update.measurement]
  /\ UNCHANGED <<typed, sensors, semaphore, get, answer, decoded, answered>>

\* Mutation: the semaphore is kept.
Kept == semaphore
Given == Null

UpdateGives ==
  /\ UpdateGoes("give", "idle")
  /\ semaphore' = Given
  /\ UNCHANGED <<typed, sensors, config, get, answer, decoded, answered>>

Update ==
  \/ UpdateTakes \/ UpdateTimesOut \/ StoreValue \/ StoreRawValue
  \/ StoreConfig \/ UpdateGives

-----------------------------------------------------------------------------
(* The lwIP thread: get_callback *)

GetGoes(from, to) == get.step = from /\ get' = [get EXCEPT !.step = to]

Get(r) ==
  /\ get.step = "idle"
  /\ get' = [step |-> "contains", resource |-> r, payload |-> NothingYet, left |-> Known(r)]
  /\ UNCHANGED <<typed, sensors, config, semaphore, update, answer, decoded, answered>>

\* The main task is inserting a key into the object that contains searches.
BeingInserted(r) ==
  /\ ~contains(r)
  /\ update.step = IF r = "SENSORS" THEN "value" ELSE "config"
Inserting == \E r \in Resources : BeingInserted(r)

\* What contains returns: anything while the very key is inserted; the search
\* compares keys, so that another one's insertion does not make it find or miss it.
Found(r) == IF BeingInserted(r) THEN BOOLEAN ELSE {contains(r)}

Look ==
  /\ \E found \in Found(get.resource) :
       IF found THEN GetGoes("contains", "take") /\ UNCHANGED answer
                ELSE GetGoes("contains", "idle") /\ answer' = Null
  /\ UNCHANGED <<typed, sensors, config, semaphore, update, decoded, answered>>

GetTakes ==
  /\ GetGoes("take", "dump") /\ Free
  /\ semaphore' = "tcpip"
  /\ UNCHANGED <<typed, sensors, config, update, answer, decoded, answered>>

GetTimesOut ==
  /\ GetGoes("take", "idle") /\ ~Free
  /\ answer' = Null
  /\ UNCHANGED <<typed, sensors, config, semaphore, update, decoded, answered>>

\* What is written of sensor s: its two numbers, or its configuration.
Entry(r, s) == IF r = "SENSORS" THEN sensors[s] ELSE config[s]

\* dump, or the loop over items(), gets to the next sensor.
Dump ==
  /\ get.step = "dump" /\ get.left # {}
  /\ \E s \in get.left :
       /\ \A q \in get.left : s <= q
       /\ get' = [get EXCEPT !.left = @ \ {s},
                    !.payload = [q \in DOMAIN @ \cup {s} |->
                                   IF q = s THEN Entry(get.resource, s) ELSE @[q]]]
  /\ UNCHANGED <<typed, sensors, config, semaphore, update, answer, decoded, answered>>

GetGives ==
  /\ GetGoes("dump", "idle") /\ get.left = {}
  /\ semaphore' = Given
  /\ answer' = [resource |-> get.resource, payload |-> get.payload]
  /\ answered' = answered \cup {get.resource}
  /\ UNCHANGED <<typed, sensors, config, update, decoded>>

GetCallback == Look \/ GetTakes \/ GetTimesOut \/ Dump \/ GetGives

-----------------------------------------------------------------------------
(* The lwIP thread: post_callback for SWDL.  What it does with the boot loader *)
(* is SoftwareDownload's subject; a text is its length here, or Null.          *)

\* Mutation: an odd digit too many is accepted.
ValidBinaryRoundedUp(n) == n \div 2 <= DOWNLOAD_BLOCK_SIZE
ValidBinary(n) == n <= DOWNLOAD_BLOCK_SIZE * 2
ValidHash(n) == n = SHA256_DIGEST_SIZE * 2

\* The bytes that from_chars writes, two digits at a time.
Decoded(n) == {i \div 2 : i \in {j \in 0 .. n - 1 : j % 2 = 0}}
DecodedIfSent(n) == IF n = Null THEN {} ELSE Decoded(n)

\* init_download, set_hash or write_app may fail; what would follow is then
\* not decoded.
Post(hash, binary) ==
  /\ get.step = "idle" /\ get' = [get EXCEPT !.step = "post"]
  /\ decoded' \in
       IF (hash = Null \/ ValidHash(hash)) /\ (binary = Null \/ ValidBinary(binary))
       THEN { NotDecoded,
              [hash |-> DecodedIfSent(hash), block |-> {}],
              [hash |-> DecodedIfSent(hash), block |-> DecodedIfSent(binary)] }
       ELSE {NotDecoded}
  /\ UNCHANGED <<typed, sensors, config, semaphore, update, answer, answered>>

PostReturns ==
  /\ GetGoes("post", "idle")
  /\ decoded' = NotDecoded
  /\ UNCHANGED <<typed, sensors, config, semaphore, update, answer, answered>>

-----------------------------------------------------------------------------
MainTask == Measure \/ Update
Callback == GetCallback \/ PostReturns

Next ==
  \/ MainTask \/ Callback
  \/ \E r \in Resources : Get(r)
  \/ \E hash, binary \in Lengths \cup {Null} : Post(hash, binary)

\* The loop goes on reading, and a callback goes on to its end.
Spec == Init /\ [][Next]_vars /\ WF_vars(MainTask) /\ WF_vars(Callback)

-----------------------------------------------------------------------------
(* Properties *)

TypeOK ==
  /\ sensors \in [Sensors -> Numbers]
  /\ typed \subseteq Sensors
  /\ config \in [typed -> Measurements \cup {Null}]
  /\ semaphore \in {Null, "main", "tcpip"}
  /\ update \in [step : UpdateSteps, sensor : Sensors, measurement : Measurements]
  /\ update.step = "config" => HasConfig(update.sensor)
  /\ get \in [step : GetSteps, resource : Resources, payload : Payloads,
              left : SUBSET Sensors]
  /\ get.left \subseteq Known(get.resource)
  /\ decoded \in [hash : SUBSET Nat, block : SUBSET Nat]
  /\ answered \subseteq Resources

\* RestData: a measurement counts as published from its first key on, which is
\* when the semaphore hides the data until the last.
Publishing == update.step \in {"raw_value", "config", "give"}

publishedData ==
  [s \in Sensors |-> IF Publishing /\ s = update.sensor THEN update.measurement
                                                      ELSE sensors[s].value]
publishedConfigs ==
  [s \in typed |-> IF Publishing /\ s = update.sensor THEN update.measurement
                                                    ELSE config[s]]

\* A client sees the numbers of a sensor as the pair they are.
Pairs(payload) == [s \in DOMAIN payload |->
  IF payload[s].value = payload[s].raw_value THEN payload[s].value ELSE payload[s]]

seen ==
  IF answer = Null \/ answer.resource = "CONFIG" THEN answer
  ELSE [answer EXCEPT !.payload = Pairs(answer.payload)]

Published == INSTANCE RestData
  WITH data <- publishedData, configs <- publishedConfigs, answer <- seen

\* Every answer is whole and of one moment: no number is paired with another
\* measurement's, no sensor is shown before another's older report, and
\* a configuration belongs to the measurement it came with.
Whole == Published!Spec

\* contains, asked without the semaphore, meets an insertion only before a GET of
\* that key has been answered, and before any GET has if the first sensor read has a
\* type and so inserts both keys.
RaceIsFirst ==
  get.step = "contains" /\ Inserting =>
    /\ "CONFIG" \notin answered
    /\ BeingInserted("SENSORS") \/ 1 \in typed => answered = {}

\* Whichever task has the semaphore gives it back: without that the other's
\* takes would time out for ever.
GivenBack == []<>(semaphore = Null)

\* When no GET or POST keeps the semaphore busy, every sensor's latest
\* measurement gets published, again and again.
CatchesUp ==
  <>[](get.step = "idle") =>
    \A s \in Sensors :
      []<>(/\ update.step = "idle" /\ update.sensor = s
           /\ sensors[s] = [value |-> update.measurement, raw_value |-> update.measurement])

\* Decoding stays inside the buffers, and a hash fills its own.
InsideBuffers ==
  /\ decoded.hash \in {{}, 0 .. SHA256_DIGEST_SIZE - 1}
  /\ decoded.block \subseteq 0 .. DOWNLOAD_BLOCK_SIZE - 1
============================================================================
