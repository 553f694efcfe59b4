# Verification of the Pico W plant moisture sensor

TLA+ models, TLC configurations and TLAPS proofs for the application in `src/`
(paths below are relative to the repository). A module is named after the class
it models, and its actions and variables keep the code's names.

    tlc -config rest.cfg MCRestApi     # a run: the MC module of the table below
    tlapm LedProofs.tla                # the proofs of one component

## The system

A Raspberry Pi Pico W runs FreeRTOS on both cores. The *main task*
(`plant_moisture_sensor.cpp`) boots the device and then reads the sensors every
few seconds; the *lwIP thread* runs the callbacks of the REST server; *blink
tasks* and the *button task* are created on the way. There is one lock in the
program, the semaphore in `RestApiCommandHandler`.

| component | state | operations | interacts with |
|---|---|---|---|
| Configuration store (`ConfigHandlerImpl`, `PicoInterfaceImpl`) | one flash sector with one JSON document | `init`, `write_config`, `read_config` | called by the main task and by the lwIP thread, without a lock |
| Sensors (`SensorFactory`, `Ads1115Adc`) | configuration, sample count, filtered value per sensor | `create`, `read` with its calibration | `read` notifies the command handler and the MQTT client |
| Main task (`init`, `loop`) | the stages of the boot; a pass over the sensors | read all, store a finished calibration, watch the link | every other component |
| REST server (`RestApi`) | `server_pcb`, `client_pcb` | `start`, callbacks accept, receive, error | lwIP; calls the command handler; lights `led_b` |
| Command handler (`RestApiCommandHandler`) | `rest_api_data_`, semaphore | GET, POST of SENSORS, MQTT, SWDL; `update` | store, software download, sensors |
| Software download | in an external library (git submodule) | `init_download`, `set_hash`, `write_app`, `download_complete`, `reboot`, `restore` | command handler, button, the upload script |
| LED (`Led`) | `blink_task_running`, `blink_task_stop`, `blink_delay`, the pin | `set_on`, `set_off`, `start_blink`, `blink_task` | main task against blink task |
| Wi-Fi (`WifiHelper`) | in the driver | `init`, `join`, `isJoined` | main task |
| Button (`ButtonControl`) | a queue of eight | interrupt, task, attach | interrupt, task, main task |
| MQTT client | in lwIP | `connect` once, `update` publishes | sensors |

What makes it hard, and what has to be true of it:

- **Store.** Erasing and programming are two steps with the only copy of the
  document in RAM between them; either can fail, and the power can. Two tasks
  may write at once. The length of the document meets the page boundary sooner
  or later. *Stored settings are readable afterwards; a write changes its own
  section only; no fault brings an old setting back; after any number of power
  failures the device comes up.*
- **Calibration.** A request to calibrate is persistent, its result is computed
  over several passes and stored once, while posts, refused posts, reboots, failing
  stores and lost reports may come between. *A limit is the extreme of exactly the values
  sampled; a calibration is never half done; its result is what flash and the
  REST report end up with.*
- **LED.** Two flags and no lock between the main task and a task it creates
  and forgets, and which the next command may overtake before it has begun. *Never two blinkers; a LED that was set stays as it was set;
  the main task is not stuck in `stop_blink`; what is asked to blink blinks.*
- **REST server.** One pointer for "the" client, and clients that overlap,
  reset or fall silent, or are all aborted when the device's address changes.
  *No connection meets a dangling pointer; clients that come one after the other
  are answered before they are closed, and none is lost; the server goes on
  serving.*
- **Software download.** A file sent in hundreds of connections, by a script
  that retries what it takes for failed, to a library whose operations can
  fail one after the other. *Nothing is written before size and hash are
  accepted; no block is missing, doubled or out of order; what is completed is
  the file.*
- **Command handler.** The main task inserts a measurement key by key while the
  lwIP thread copies the data for an answer; the semaphore is taken and given
  back by hand, with a limit of ten ticks, and `contains` is asked without it.
  *Every answer is whole and of one moment; the semaphore is always given back;
  a dropped measurement is made up for; `contains` does not meet the insertion of
  a key once a GET of that key has been answered.*
- **Boot and supervision.** Six steps of `init` can fail, three of them end the
  main task, and the LED, the interrupt and the button task outlive it. The loop
  joins again when the driver reports a failed link. *Every boot gets to the
  loop or ends with the LED blinking; the LED tells how the last join ended;
  only credentials that worked are stored; a failed link is joined again.*
- **Button.** An interrupt, a queue of eight and a task, with a subscriber that
  is attached when all three are running. *A press that the queue took after the
  attach reaches its subscriber.*

## Modules

| module | models | state and actions |
|---|---|---|
| `ConfigStore` | abstract: what callers of the handler rely on | one setting per section; `Update` of one section; `Lose` everything, if `Lossy` |
| `ConfigHandler` | `config_handler_impl.cpp`, `pico_interface_impl.cpp`, the boot's call of `init` | `flash`; per task the step (`pc`), request and document of its call. `Call`, `ReadJson` (read, insert, check the length), `EraseFlash`, `ProgramFlash`, `EraseFails`, `ProgramFails`, `Restart` |
| `Led` | `led.cpp` | the two flags, the pin, the step of every blink task and of the caller, one step per access to a flag; `Patient` is what it asks of its user |
| `Calibration` | `SensorFactory::create`, `Ads1115Adc::read`, the sensor pass of `loop`, `update` and POST SENSORS | flash, sensors and report side by side. `StartPass`, `Read` (one sensor), `EndPass`, `StoreFails`, `Post`, `PostFails`, `Reboot`, `PowerFailure` |
| `RestApi` | `rest_api.cpp` | `server_pcb`, `client_pcb`, a pool of pcbs. One action per callback and outcome: `Accept`, `AcceptFails`, `Receive`, `ReceiveUnanswered`, `ClientLeaves`, `ClientResets`, `GiveUp`, `AddressChanges`; `Syn`, `HandshakeFails` and `Release` are lwIP's |
| `SoftwareDownload` | `upload_new_binary.py`, POST SWDL, and the external `SoftwareDownloadApi` | the script's position and tries, the request under way, the image on the device. `WriteBlock`, `HeaderFails`, `WriteFails`, `Complete`, `RequestLost` on the device; `SendReturns`, `SendRaises`, `Rerun` of the script |
| `RestData` | abstract: what a client of GET relies on | one measurement per sensor, with its configuration; `Publish` of one, `Answer` with all as they are, or a refusal |
| `RestApiCommandHandler` | `get_callback`, `update`, the decoding in `post_callback`, `validate_swdl_content` | `rest_api_data_`, `semaphore_`, which sensors have a type, and the step of `update` and of the callback. One action per key that is stored (`StoreValue`, `StoreRawValue`, `StoreConfig`) and per sensor that is copied (`Dump`); `Look` is `contains` without the semaphore |
| `WifiHelper` | `wifi_helper.cpp`: `join`, `isJoined` | the driver's link status, the attempts of a join, and the network as environment (`LinkLost`, `NetworkChanges`) |
| `ButtonControl` | `button_control.cpp`, `button.cpp` | the queue, the enabled interrupts, the task and the subscribers. The constructor in its three stages, `button_press_callback`, `Receive`, `Notify`, `attach` |
| `PlantMoistureSensor` | `init` and `loop`, over `Led`, `WifiHelper` and `ButtonControl` | the main task's step, the credentials in use and in flash. One action per step of `init` and `loop` and its outcome; blink tasks, button task, interrupt, network and `Restart` beside it |
| `*Proofs` | the theorems of a component | |
| `MC*` | the constants of its runs | |

Next to some definitions stands another one marked *Mutation*: the same
operator with a plausible mistake. It is used by no specification;
`PROJECT.json` says which property refutes it, which shows that the property
depends on that line of the code.

What the models abstract from:

- **`ConfigHandler`.** The content of a section is a value with a length in
  bytes; the document's length follows from its sections, as `dump` makes it.
  Pages and the sector are constants. `json::parse` gets a C string, so that a
  document is readable only if a zero byte follows it (`Parse`); behind a
  document of exactly one sector the stack buffer ends, and either outcome is
  possible. Programming over bytes that are not erased leaves a mixture
  (`Overlay`). Reading the sector is one step. The flag for a fault that
  `flash_safe_execute` reports covers both orders, before and after the
  operation has had its effect.
- **`Calibration`.** A `write_config` is one step, which may fail;
  `ConfigHandler` opens it up: a failing one, of the loop or of a POST, leaves
  flash as it was, without the section, or with the new one in place. A sensor
  list is a function from pins, so order and duplicate pins are left out; types
  are only empty or not, and a sensor without one calibrates like the others and
  is neither reported nor stored. The temperature sensor, which has no
  configuration, the measured value and its filter are left out. The history
  `writer` tells whose write flash is left from.
- **`Led`.** Time is one condition, `Settled`: a `vTaskDelay` lasts at
  least 100 ms, and no task keeps both cores busy for that long, so that every
  blink task that is ready gets to its own next delay before a delay ends.
  Commands may come at any time, access by access between the steps of the
  blink tasks. That they do not come before the task of the last `start_blink`
  has begun is nothing that `led.cpp` sees to; the theorems about the LED alone
  name it as their hypothesis (`Patiently`), and in the device it is a
  consequence of where the main task delays (`UsesLed`).
- **`RestApiCommandHandler`.** A measurement is one value, which its number, its
  raw number and the configuration sent along with it share: what the
  properties tell apart is which measurement a key in the data comes from. `contains`
  during the insertion of the very key it looks for may return anything (`Found`). Two threads on one JSON
  object are undefined behaviour, so that it may also crash the device; what the
  model shows (`RaceIsFirst`) is when they can meet. Texts are their lengths. The loop's
  sensors are numbered in the order of their creation. Any of them may be without a
  type (`typed`), which a POST may leave out, and then has no `config` key; the
  last one, which is the temperature sensor, never has.
- **`WifiHelper`.** The driver's `CYW43_LINK_FAIL` stands for its three failure
  codes. A join fails when there is no network, the credentials are wrong, or
  the network associates and gives no address; the status it leaves is the
  driver's choice among those that fit.
- **`ButtonControl`.** A press is one queued pin. Whether the queue drops one
  is decided by its length alone; `notify` is one step with its `update`, which
  only asks the boot loader for a restore.
- **`PlantMoistureSensor`.** Credentials are right, wrong or empty. `scanf` may
  fail, which leaves them empty. `write_config` is one step that stores,
  fails, or loses the document; `ConfigHandler` opens it up. The sensor pass is
  one step; `Calibration` opens it up. `Fail` is reached from three failures of
  `init`; the LED's attributes are on the heap and outlive the main task. MQTT
  is left out: nothing in `init` depends on its result. The main task takes no
  time but where the code delays (`Delayed`: two seconds between the attempts of
  a join, the delays of the loop), where it waits in `stop_blink` (`Sleep`), and in
  one place by assumption: a join that succeeds at the boot has taken longer
  than a blink task needs to begin (`BootJoins`). Everywhere else its next command
  to the LED may come before the blink task has run. `WIFI_RETRIES` is at least
  two (the code calls `join` with its default, three), so that a join that fails
  has paused.
- **`RestApi`.** A request is valid or not; bytes, headers and pbufs are left
  out. Callbacks are atomic because lwIP runs them all in one thread. `start` is
  modelled as done: its failures are part of the boot. After a close, lwIP may
  keep the pcb for a while or free it at once. A pcb is taken for the handshake,
  which may fail without a callback. lwIP aborts connections of its own in
  two cases: one whose client acknowledges nothing (`GiveUp`), which needs something
  to have been sent, and all of them when the netif's address changes.
- **`SoftwareDownload`.** A block is its number. The library is not part of the
  sources; the model assumes what its use suggests: `init_download` starts
  over, `write_app` adds a block, and an operation that fails has added none.
  A connection may end without an answer, which the script takes for a failure
  (`"empty"`), or by a reset, whose exception ends it (`"reset"`), each before or
  after the device has acted. Restarts of the device during an upload are left out:
  what the library keeps across one is not in the sources.

## Runs

| run | expectation | shows |
|---|---|---|
| `config_faults` | pass | Failing operations, power failures at any step and documents of every length up to and over the sector: `read_config` reports the last stored setting, an interrupted newer one, or none, but nothing older (`NeverStale`) |
| `config_restarts` | pass | Power failures at any step, lengths off the page boundary: stored settings survive (`Durable`), the handler implements `ConfigStore` (`Atomic`), the device comes up again (`Recovers`) |
| `config_boundary` | violation of `Durable` | Without any fault, a document that ends at the end of a page is reported stored and is unreadable |
| `config_race` | violation of `Durable` | Without any fault, two tasks in `write_config` lose what both were told is stored |
| `calibration` | pass | `Exact`, `CompleteTogether`, `CalibrationStored`, `RequestKept`, `ReportedFinal`, and `CalibrationEnds`, with writes of the loop and of POSTs that fail, before or after their effect, and sensors without a type |
| `calibration_post` | violation of `PostSurvives` | The loop stores a finished calibration over a configuration posted in the three seconds before the reboot |
| `calibration_range` | violation of `RangeNotEmpty` | A calibration over equal samples leaves the empty range that `create` excludes because `read` divides by it |
| `rest` | pass | `SlotLive`, `Listening`, `NoOrphan`, `AnsweredFirst`, `Drains`. The last three are about clients that do not overlap: what happens to those that do is under the limitations below |
| `upload` | pass | `HeaderFirst`, `InOrder`, `NoneMissing`, `FileArrives`, `UploadEnds` |
| `rest_reset` | violation of `Serving` | One client's reset closes the listening pcb; nothing opens it again |
| `rest_data` | pass | The handler implements `RestData` (`Whole`); `RaceIsFirst`, whichever sensors have a type; `InsideBuffers`; `GivenBack`, `CatchesUp` |
| `device` | pass | The LED in the hands of the main task, whose delays are all that keeps its commands apart: `OneBlinker`, `Steady`, `LedTells`, `SetReturns`, `Blinks`; the boot and the link: `OnlyProvenStored`, `BootEnds`, `FailedLinkIsJoined`; the button: `PressIsServed` |

The runs that expect a violation are findings in `PROJECT.json`, each with the
line of the code and the line it disagrees with.

### Bounds, and why they are enough

- **`config_*`**: three sections with two values each, a page of 8 bytes and a
  sector of two pages. The sizes are chosen so that documents end inside a
  page, at the end of the first, at the end of the sector and beyond it
  (`SizesOnBoundary`), or never on a boundary (`SizesOffBoundary`). The code
  treats all pages but the last alike. One task for what holds of calls that do
  not overlap, two for the race. `phase` and `pc` bound a call; the number of
  calls and restarts is not bounded.
- **`calibration`**: two sensors that complete together or not, with and without
  a type, a pin without converter, three values of the converter (both ends of
  its range and one between), two samples per calibration (the code's 100 only
  repeat the step between first and last). Posts calibrate one limit, the other,
  both, or none, with full, partial and empty ranges. The first configuration is
  one of these too. Posts, failing writes and power failures may come at every
  step and any number of times.
- **`rest`**: three pcbs, for two clients that overlap and a connection that is
  still being closed, and for an empty pool. Each can do everything any number
  of times, handshakes may fail, and the address may change whenever somebody
  is connected. Deadlock is not an error: after a reset nothing
  listens, and when the last pcb is free nothing can happen.
- **`upload`**: three blocks, one sent with size and hash, one between and the
  last, with two tries each (the code has five: what matters is that there is a
  next try and a last one). The script can be run again any number of times,
  until an image has been completed; there the model stops, so that deadlock
  is not an error either.

- **`rest_data`**: two sensors with a configuration and the temperature sensor,
  so that there is a first, a middle and a last one, and every choice of those of
  the two that have a type; two measurements, to tell
  an old from a new one. A digest of two bytes and a block of three, with texts
  that are empty, odd, exact, and one and two digits too long. No step is
  bounded.
- **`device`**: two attempts per join (a first and a last; the code has three),
  two of the three buttons, a queue of two (the code's has eight; what matters
  is that it holds more than one press, and can be full). Two slots for blink
  tasks: one that is ending and its successor. A
  command that needs a slot that is not there would block and fail `BootEnds`;
  the mutants that create a task too many do get theirs. Networks, presses and
  restarts may come at every step and any number of times. That two slots
  restrict nothing is proved: `AtMostTwoTasks` for any number of slots and
  `SlotIsFree`, that with two a start finds one, both for a patient user of the
  LED, which `UsesLed` shows the device to be.

### Fairness

- `ConfigHandler`: weak fairness on each task's steps inside a call, which
  always return: `flash_safe_execute` has a timeout of one second. Calls and
  restarts are not fair; `Recovers` is conditional on restarts ending.
- `PlantMoistureSensor`: weak fairness on each blink task and on the button
  task, which the scheduler owes every ready task once the others delay: the
  main and the button task have the same priority and block in every round. The
  main task is strongly fair, because some of its steps wait for `Settled`,
  which stands for time that passes and not for a condition that the task
  polls: blink tasks that leave `Settled` again and again cannot keep time from
  passing. These steps are the delays of the code, `Sleep`, and `BootJoins`. This also says that joins time out (60 s) and that someone answers on
  the serial line when there are no stored credentials. Networks, presses and
  restarts are not fair; `BootEnds` and `FailedLinkIsJoined` are conditional on
  restarts ending, the latter also on a network that stays.
- `RestApiCommandHandler`: weak fairness on the main task, which reads its
  sensors for ever, and on a callback that has begun. Requests may never come.
  `CatchesUp` is conditional on GETs and POSTs ending: a client that asks all
  the time may make every update time out.
- `Calibration`: weak fairness on the loop, which only waits in delays, and on
  the reboot, which a timer fires. `CalibrationEnds` is conditional on posts
  and power failures ending.
- `RestApi`: every connected client leaves in the end, and lwIP frees what has
  been closed and ends a handshake that takes too long. The first is an assumption about clients: the server has no
  timeout for a silent one. `Drains` asks for it only where clients do not
  overlap; where they do, a connection is lost for good once its client has
  closed it, because the close goes to the pcb in `client_pcb`.
- `SoftwareDownload`: the script and the server go on with the upload, since
  the server answers or ends every connection. Running the script again is not
  fair. A server that has stopped listening (`rest_reset`) or a device without
  power is outside this assumption.

## Proofs

For every value of the constants that satisfies the modules' assumptions:

| theorem | of | under | from |
|---|---|---|---|
| `TypeCorrect` | `ConfigHandler` | nothing more | types alone; that no more than a sector is written comes from the check in `ReadJson` |
| `ReadsAreNeverStale` | `NeverStale` | `[]Exclusive` | `ReportInv` |
| `WritesAreDurable` | `Durable` | `[]Exclusive`, `OffBoundary` | `ReportInv` |
| `ImplementsStore` | `Atomic` | `[]Exclusive`, `NeverFull` | `StoreInv` and a step-by-step refinement |
| `BootsSucceed` | `Serviceable` | `[]Exclusive`, `OffBoundary`, no `"error"` in `Faults` | `BootInv` |
| `LockIsEnough` | the first three properties | `Locked`, `OffBoundary`, `NeverFull` | the three theorems |
| `OneTaskIsEnough` | the first three properties | `Tasks = {Main}`, `OffBoundary`, `NeverFull` | the three theorems |
| `TypeCorrect` | `Led` | nothing more | types alone |
| `AtMostOneBlinker`, `SetIsSteady`, `AtMostTwoTasks` | `Led` | `Patiently` | `Inv` |
| `SlotIsFree` | `Led` | `Patiently`, two slots | `Inv` |
| `WaitsOneRound`, `BlinksOn` | `LastRound`, `KeepsBlinking` of `Led` | `Patiently` | `Inv`, `BlinkInv` |
| `TypeCorrect`, `SlotIsLive`, `ListensUntilReset`, `NoneOrphaned`, `ClosedOnesAreAnswered` | `RestApi` | nothing more | `Inv` |
| `ConnectionsGoOneWay` | `OneWay` of `RestApi` | nothing more | `Inv`, `Rank` |
| `TypeCorrect`, `HeaderComesFirst`, `ImageInOrder`, `NoBlockMissing`, `TheFileArrives` | `SoftwareDownload` | nothing more | `Inv` |
| `TriesAreBounded` | `StepsShrink` of `SoftwareDownload` | nothing more | `AtEnd`, `StepsLeft` |
| `TypeCorrect`, `LimitsAreExact`, `AllCompleteTogether`, `CalibrationIsStored`, `ReportsAreFinal`, `RequestIsKept` | `Calibration` | nothing more | `IInv` |
| `PostsAreLostInTwoWays`, `CalibrationsAdvance` | `OnlyOverwritten`, `CalibrationAdvances` | nothing more | `IInv` |
| `EmptyRangesAreFlat` | `EmptyOnlyIfFlat` | `FullScale # 0` | `IInv`, `CreatedWithRange` |
| `TypeCorrect`, `RaceOnlyAtFirst`, `DecodingStaysInside`, `ImplementsRestData` | `RestApiCommandHandler` | nothing more | `IInv` |
| `HolderGivesBack` | `HolderGoesOn` of `RestApiCommandHandler` | nothing more | `IInv`, `StoresLeft` |
| `DeviceTypeCorrect`, `OneBlinkerInDevice`, `SteadyInDevice`, `LedTellsTheJoin`, `OnlyProvenAreStored` | `PlantMoistureSensor` | nothing more | `DeviceInv` |
| `UsesLed` (and patiently), `BlinksOnInDevice`, `PressIsNotLost` | `PlantMoistureSensor` | nothing more | `LedMoves`, `DeviceInv` |
| `BroughtUpInOrder`, `FailedBootBlinks`, `BootComesToItsEnd` | `PlantMoistureSensor` | nothing more | `DeviceInv`, `BroughtUp` |

Besides the properties that the runs check, two kinds of theorems are stated in
the `*Proofs` modules only:

- *The limits of a violation.* A run shows that something goes wrong; a theorem
  says that it goes wrong in this way only. `config_race`: a lock is enough
  (`LockIsEnough`), and one task needs none. `config_boundary`: off the boundary
  settings are durable, and on it they are never stale. `calibration_post`: a posted configuration
  is lost to the loop's store after a completed calibration or to a later POST
  that is refused although its write had an effect, and to nothing else. `calibration_range`: only flat
  samples empty a range. `rest_reset`: nothing but a reset ends the listening.
- *The safety behind a liveness property.* That something must happen cannot be
  proved here, but that nothing is lost meanwhile, and that every step of the
  task in question gets closer to it, can. Then only the fairness is left to
  TLC, which checks the whole on small constants.

| liveness | what is proved of it for every constant |
|---|---|
| `Recovers` | `BootsSucceed`: no boot fails, whatever the last one left in the sector |
| `SetReturns` | `WaitsOneRound`: the blink task that is waited for begins no other round, and none is created |
| `Blinks` | `BlinksOn`: some task drives the pin, and none that does is stopped by a stale request |
| `BootEnds` | `BootComesToItsEnd`, but for the rounds of `set_on`; `FailedBootBlinks` |
| `PressIsServed` | `PressIsNotLost`: it stays queued and subscribed until `update` is called |
| `CalibrationEnds` | `CalibrationsAdvance`: each read of a calibrating sensor counts, nothing sets it back |
| `Drains` | `ConnectionsGoOneWay`: at most four steps from the handshake to the pool |
| `UploadEnds` | `TriesAreBounded`: at most `Blocks * RETRIES + 1` requests |
| `GivenBack` | `HolderGivesBack`: a bounded number of steps of the holder, which nobody else disturbs |

The arguments:

- *Store.* `Exclusive` says that between reading the sector and having
  programmed it a task is alone, and `OffBoundary` that no
  document ends with a page: the two violations show that neither can be
  dropped. That tasks exclude each other is not an assumption on the constants but on
  the behaviour; `LockExcludes` derives it from `Locked`, what a lock in
  `write_config` would enforce, and a single task has it by itself. With it any
  number of tasks may be in calls, reading, checking and returning in any
  order. `NeverStale` is not inductive, because in the middle of a call the
  setting that is about to appear in flash is in the task's document.
  `ReportInv` relates the sector, that document and the request at each step of
  a call to the settings that may be reported. For the refinement, a
  write takes effect when the sector is erased, so the abstract store is the
  task's document from there until it is programmed, and what can be read from
  flash otherwise. `StoreInv` says that a document held by a task was made from
  the store as it is. `BootInv` says that a sector about to be
  programmed is erased, that of a device that is up is otherwise readable, and
  until `init` returns no other task is in a call; the empty document that `init`
  writes passes the check of the length (`InitWritesNull`).
- *LED.* `OneBlinker` depends on the flags agreeing with where the blink task
  is, and on the user's patience: a second `start_blink` before the first one's
  task has set `blink_task_running` creates another task, and a `set_on` there
  finds nothing to stop. `led.cpp` has no guard against either, so that the
  theorems about `Led` have the hypothesis `Patiently`: each command that follows a
  `start_blink` finds no task that is yet to begin, and none that is about to take
  back a request to stop. `Inv` says which values of `blink_task_running`, `blink_task_stop` and
  the caller go with each step of the one task that is not ended, and that a
  second task can only be one that has cleared `blink_task_running` already.
  Two further conjuncts make it inductive for more than two tasks and for
  liveness: `EndsAlone`, that beside an ending task there is at most its
  successor, still in its first delay; and `StopStands`, that no predecessor
  is left to take back the request that `stop_blink` is waiting on.
  `BlinkInv` adds `NoStopPending`: while the LED is to blink, a request to stop that is
  still pending belongs to a task that is about to take it back, and some task
  drives the pin.
- *Device.* Every step of the device is a restart or a step of `Led` that is no
  command or a patient one (`LedMoves`), so that `Inv` and `BlinkInv` carry over.
  That it is patient depends on where the main task delays: `DelaysCome` says that
  only at the steps of `MayNotHaveBegun`, which lie between a `start_blink` and the
  next delay behind it, a blink task may still have to begin, and the only
  command to the LED there is that of a first attempt that succeeds (`BootJoins`). Without the delay between two attempts the
  `device` run finds two blinkers (its mutant of `OneBlinker`). `Commanded` ties what was last asked of the
  LED to the step the main task has come to and to the result of its last join;
  `LedTells` follows from the two. `ProvenFirst` bridges the join and the write of
  the credentials behind it. `BroughtUp` ties every step of `init` to what of
  queue, interrupts, task and subscription exists there. The measure of the boot is the
  stage of `init` (`Stage`), within a join the attempts and pauses left
  (`AttemptSteps`), and within the enabling the interrupts that are still off.
- *Calibration.* Each property depends on where in a pass the loop is, and those
  about flash on whose write flash is left from. `Together`
  says that calibrating sensors have the same number of samples, but for those
  that this pass has still to read; `StatusesTrue` that what `read` returned in
  this pass is true of some sensor that has been read; with both, no pass sees one
  sensor complete and another still calibrating, so that the store is never
  held back (`StoredOrDue`). `KeepsRequest` and `FlashKept` relate flash and
  sensors to what the sensors were created with, as long as no POST has had an
  effect on flash (`OwnFlash`): one that is refused may have erased the section, or
  replaced it, with no reboot to follow. `RequestKept` covers the loss of the
  whole section: until a sensor has its samples the loop does not write at all, so
  that not even a failing store can take the request with it. That an empty range needs flat
  samples joins three facts: `create` gives none, `Exact`, and that a
  calibration which is over has all its samples.
- *REST data.* A measurement counts as published when its first key is stored:
  from there to the end of `update` the semaphore is held (`Mutex`), so that no
  answer is made of what is half there, and what has been copied of the data is
  what they still are (`Copied`). The race of `contains` is bounded by
  `BeforeFirst`, `DuringFirst` and `BeforeConfig`: a key that has been answered
  stands in the data, and what stands is not inserted again. Where the first
  sensor to be read has a type it creates both keys before it gives the semaphore
  back; where it has none, `sensors` is answered before `config` is inserted by the
  first one that has. `StoresLeft` and the sensors still to be copied count the steps to `give`.
- *REST.* lwIP frees a pcb that times out without emptying the slot. That does
  not leave a dangling pointer because only a connection on which something has
  been sent can time out, and everything sent on the connection in the slot is
  followed, in the same callback, by closing it: `NothingSentYet`. A change of
  address does free the pcb in the slot, and the pointer stays; but it frees all
  the others with it, so that the pointer is stale only while nobody is
  connected, and the next accept replaces it. For the first reason a connection that is
  closed without an answer is not one that lwIP gave up on; and without overlap the
  one that the server closes is the one that was answered (`NoOrphan`).
- *Upload.* Whether a block is in the image depends on the answer that is on its
  way: `Acknowledged`. `HashInv`, `OrderInv`, `CoverInv` and `FileInv` each say what
  holds before and after it. The last says that the image is the file up to the
  block being sent, as long as no block has been given up; `CoverInv` supplies
  that the script can reach the end with `first_iteration` still set only by
  giving every block up. What the properties except are the two ways in which
  the script does damage: a block behind the first that was written although
  the script did not learn of it is sent, and written, again; and a block whose
  tries are used up is left out, and the download completed without it. `AtEnd` says that the script asks for
  completion with no tries used, which keeps the last request inside the count.

Model-checked only: all liveness (`Recovers`, `SetReturns`, `Blinks`, `BootEnds`,
`FailedLinkIsJoined`, `PressIsServed`, `CalibrationEnds`, `Drains`, `UploadEnds`,
`GivenBack`, `CatchesUp`), and the violations. Liveness under fairness is out of
the prover's reach. `FailedLinkIsJoined` and `CatchesUp` have no theorem behind them:
in both the environment may undo every step towards the goal, and only its
coming to rest, which is an assumption about the future, makes it count.

## Known limitations of the code

Seen while modelling, and not stated as properties, because nothing in the
repository promises the contrary or the model would fail by construction:

- `isJoined` counts `CYW43_LINK_DOWN` (0) as joined, although its comment says
  that it returns whether "we have a link". When the access point goes away
  without a failure of authentication or scan, the loop does not join again.
  `FailedLinkIsJoined` is about the statuses of failure.
- A network that associates but gives no address fails the join and leaves a status
  that counts as joined: the LED blinks, and the loop does not try again.
- Credentials that were typed in and are accepted only by a join in the loop are
  never stored, and have to be typed again after a restart.
- `set_blink_delay` limits every delay to 100 ms, so that the blinking of a
  failed boot and that of a missing network look alike.
- After a failed start of the REST server the main task, and the
  `PlantMoistureSensor` on its stack, are gone, and `ButtonControl` still calls
  its `update`.
- The store after a calibration writes the sensors that exist and have a type:
  entries for pins without a converter disappear from flash, and so does a
  sensor without a type, with its request and its calibration.
- A POST that is refused because `write_config` failed may have erased the section
  or have replaced it, and nothing tells the device to restart: the sensors go on
  with the old configuration, a calibration that has been stored is gone, and
  so is an earlier POST whose reboot is due.
- After a change of address `client_pcb` names a pcb that lwIP has freed, until the
  next accept. In between only an accept without a pcb uses it: it closes whatever
  has got that pcb since, which may be another client's handshake.
- With clients that overlap, the server closes the connection accepted last,
  whichever it has answered: it may close one before its request has been
  answered (`AnsweredFirst` excepts this), and the one it has answered is never
  closed and its pcb lost when the client leaves (`NoOrphan`, `Drains`).
- Two blink tasks are possible if a command follows `start_blink` before its
  task has begun. The main task's delays exclude it, and a join that succeeds at
  the boot taking longer than that; with a single attempt per join
  a failed one would not, since its `start_blink` comes before any delay.
- A block behind the first that was written without the script's learning of it
  is written again, and one given up after five tries is left out (`InOrder` and
  `NoneMissing` except the two): the image is then not the file, and only the
  check of its hash, in the library, can tell.
- With a first sensor that has no type, the time in which `contains` can meet an
  insertion lasts from the first read to that of the first sensor with one, and
  GETs of `sensors` are answered meanwhile.

## Not modelled, and why

- **`MqttClient`**: it connects once, in `init`, and ignores the results of its
  publishes. Its state is that of lwIP's client, which is not part of the
  sources, and no other component looks at it.
- **POST of MQTT**: a `write_config` and a reboot, as POST of SENSORS is in
  `Calibration`.
- **`restore` against an upload**, and what an upload leaves across a restart:
  inside `SoftwareDownloadApi`, a git submodule that is not part of the sources.
- **Races inside library objects**: lwIP's raw API called from the main task, a
  list that grows while it is iterated, the JSON object under `contains`. What
  such a race can do is not a property of this code; the models say when it can
  happen where the code decides that (`RaceIsFirst`).
- **Measured values and their filter**, the conversion of documents, the
  addresses of `WifiHelper`, `detach` and the destructors (which never run), the
  run time statistics (compiled out), logging, board files and drivers, and the
  boot loader.

What could be added: POST of MQTT as a third writer beside the two of
`config_race`.
