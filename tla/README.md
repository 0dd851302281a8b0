# A TLA+ model of the AISG antenna tilt controller

The repository holds two programs that talk over an RS-485 bus with AISG 2.0
(HDLC, XID and RETAP) or AISG 3.0: the firmware of a *RET*, a secondary device
that tilts an antenna (`RET/`, C), and a *controller*, the primary that finds
such devices and moves them (`src/`, C++ with a Qt interface). This project
models the parts whose behaviour is hard to see in a test: what a device does
under any frame at any time, what a restart brings back, what power loss does to
its flash, where its motor stops, what two threads make of one service, what
lost and late frames make of an exchange, and what collisions make of a scan.

## The system

| Part | State | Operations |
|---|---|---|
| RET core, layer 7 (`ret_protocol.c`) | answer queue (6 slots), alarms with a *changed* mark, the running time consuming command (TCC), configuration in RAM, segments of a configuration transfer, subscription | one procedure per request (`handle_l7`), `poll_tcc`, `ret_device_set_*_alarm` |
| RET core, layer 2 (`ret_protocol.c`) | link state, address, N(S)/N(R), one outstanding I frame, one response slot, two promised resets | `ret_device_init`, `ret_device_receive` (I, RR, RNR, SNRM, DISC, XID), `ret_device_poll` (TCC, three minutes of silence, transmission) |
| Flash journal (`ret_flash_storage.c`) | records in one flash sector | `storage_load`, `storage_save` |
| STM32 platform (`ret_stm32_platform.c`, `main.c`) | motor operation, phase and direction, ADC calibration, UART ring | `motor_start`, `motor_poll`, `motor_stop`, resets, the receive interrupt, the main loop |
| Host platform (`ret_host.c`) | a simulated motor, a file | the same callbacks on a PC |
| `ControllerService` (`controller.cpp`) | work queue, cancellation flags, event list, device list, one `ControlSequence` per address | connect, scan, refresh, moveRet, calibrate, ...; a worker thread runs them one at a time |
| GUI backend (`backend.cpp`) | the current operation | start an operation, drain events until it ends or a deadline passes, cancel |
| Window (`main_window.cpp`) | the future of a scan, enabled buttons | connect, scan in a future, cancel, disconnect, close |
| Codecs (`ret_hdlc.c`, `hdlc.cpp`, `aisg.cpp`, `aisg3.cpp`, `adb.cpp`) | a decoder's buffer | frames and records to octets and back |
| Transports, PTY bridge, monitor, widgets | | input and output |

The parts interact in five ways. Controller and device exchange frames on a
half-duplex line that loses them, and several devices share that line; the core
calls the platform through callbacks (`ret_platform_t`) that may fail; the main
loop alternates between receiving and polling while an interrupt fills a ring;
the callers and the worker of `ControllerService` share a queue, flags and an
event list under three mutexes; the GUI thread and the future of a scan share
the service and its event list.
What is hard: sessions that begin and end in the middle of an exchange,
retransmissions, resets that wait for an acknowledgement, commands that outlive
the exchange that started them, deadlines racing results, saves that fail,
power loss inside a save, cancellation, and answers that destroy each other.

The correctness of each component, in a sentence:

* *layer 7*: every change that is promised to last is stored when it is
  answered; a command starts only when it may and is never replaced; the motor
  never runs unsupervised; no change of an alarm is forgotten.
* *layer 2*: only the newest I frame of the present session is on the line; a
  promised reset happens once, after its answer.
* *journal*: a confirmed save survives everything until the next one; nothing
  torn is ever loaded.
* *platform*: the motor stops at its target, at a limit, on a stall and on a
  reset; the core counts it as calibrated only when the platform has a range.
* *service*: operations run one at a time in the order they were queued, each
  ends once, and a cancelled one leaves the bus; a listed device answered a scan
  over the present connection, unless a connect kept the list of the one before.
* *backend and window*: a call returns the outcome of its own operation; nothing
  is destroyed in use; both threads always come back, without a deadline as long
  as their calls do not overlap.
* *exchanges*: an answer is taken for the request it answers, so that what is
  shown is what the device does.
* *scan*: it finds every device, and no two get one address.

## Modules

* `RetProcedures`: layer 7. A device is a record with the fields of
  `ret_device_t`, plus the platform state behind its callbacks (`storage`,
  `motor`) and one history field (`dirty`: the last save failed). Each operator
  is one C function from the device before the call to the device after it, in
  the order of the C code: refusals first, in the order the code makes them,
  then the effect. What the platform answers is an argument (`e`).
* `RetLink`: extends it with layer 2. The state is one variable, `dev`. The
  actions are the ways the main loop enters the core: one per frame type
  (`ReceiveI`, `ReceiveSupervisory`, `ReceiveUnnumbered`, `ReceiveXid`),
  `AlarmInput`, `Poll` and `PowerCycle`. An action is the whole call: receiving
  an I frame acknowledges, executes, saves and schedules the answer in one step,
  as the single-threaded main loop does.
* `FlashJournal`: the save of a record, one step per word and per erase, with
  every way power may be lost or the flash may fail in between.
* `PersistentStore`: what the journal promises, as a specification of its own.
  `FlashJournal` implements it under the mapping `stored <- Loaded(flash)`.
* `Stm32Motor`: the motor callbacks, the calibration of the ADC and its stored
  copy, the start-up rule of `main.c`, and an actuator that turns, jams and runs
  into its ends. One step per callback, per turn and per trouble.
* `MotorContract`: what the core expects of a motor; it is what `RetProcedures`
  assumes when it takes the answers of `motor_poll` as inputs. `Stm32Motor`
  implements it.
* `ControllerService`: the callers (`Draw` and `Push` are the two halves of
  `enqueue`, which draws the identifier before it takes the lock; `Cancel`,
  `DrainEvents`, the destructor) and the worker, one step per locked section or
  look at a flag. `connect`, `disconnect` and `scan` are actions; the device
  operations share the shape of `Command`: `requireDevice`, exchanges,
  `storeDevice`.
* `SingleFlight`: the promise of the queue ("fila single-flight" in README.md)
  as a specification of its own; `ControllerService` implements it. An operation
  counts as ended there when its terminal event is in the list, not when the
  worker forgets it.
* `Backend`: extends `ControllerService` with `CoreBackend` and the window: the
  states of `wait` for each of the two threads (`call`, with the end of its
  operation as history: `fate`), `currentOperation_`, what the GUI thread does
  (`gui`) and what the future does (`future`). Both may be in `wait` at once: the
  window disables most device buttons during a scan (`PressCommand`), but not
  *self-test*, *clear alarms* and the *calibrate* of the menu
  (`PressDiagnostics`). Its actions contain those of the service.
* `TiltSystem`: extends `RetLink` with the controller's side of an exchange:
  `transact`, `ControlSequence`, `isResponseFor` and the operations of a RET as
  sequences of exchanges (`Plans`), over a line (`down`, `up`) that loses frames
  and keeps late ones in the input buffer.
* `Discovery`: `scanAisg2` and `scanAisg3` against several devices: queries with
  patterns of the unique identifier, the recursion of `resolveCollision` as a
  stack, confirmation, assignment, SNRM. The profile chooses between the two
  protocols where they differ: what is heard of a collision, how identifiers are
  compared, when devices are connected.
* `RetLink_proofs` (invariants) and `RetLinkSteps_proofs` (action properties),
  `FlashJournal_proofs`, `Stm32Motor_proofs`, `ControllerService_proofs`,
  `Backend_proofs`, `Discovery_proofs`, `TiltSystem_proofs`: the proofs.
  `Backend_proofs` extends the proofs of the service as `Backend` extends the
  service, and `TiltSystem_proofs` those of the RET.
* `MC...`: constants for TLC.

Names are those of the code, in TLA+ spelling. Definitions marked *Mutant* are
deliberately wrong variants; replacing a definition by its mutant must make a
property fail, which shows that the property depends on that code.

### Abstractions

* Time: a delay in milliseconds becomes a choice of the step that finds it over
  (`expired`, `silent`, `due`, `late`, `Deadline`). What is shown holds for any
  timing, with one exception: in `TiltSystem` a frame on the wire arrives before
  the deadline of the one who waits for it, while the device may take any time to
  answer. In `Backend` a deadline may pass at any moment of a wait.
* Frames are whole: the HDLC decoders hand on only frames with a valid CRC, and
  damage is a frame that does not arrive, or noise in `Discovery`. The primary of
  `RetLink` is unrestricted, so a property of `RetLink` needs no assumption
  about it.
* XID fields become a Boolean in `RetLink`: whether the identity in the command
  is the device's. `Discovery` has the identifiers themselves, as bits. Lengths
  negotiated by XID become the request shape `long`.
* Device fields become three kinds (writable, read only, unknown) with one
  writable value per antenna; tilts, user data and segments are small integers.
* Alarms of a source are a set of codes: the bound of 16 entries per source
  (`RET_MAX_ALARMS`) is not reached by the platform, which reports one.
* A save succeeds, fails, or fails after the stored copy is gone. A sector whose
  erase was cut short, and that may bring an older record back, is
  `FlashJournal`'s; in `RetLink` both make `dirty` true.
* Power loss falls between two calls into the core. A loss inside a save is the
  subject of `FlashJournal`.
* An aborted configuration transfer sets the length to zero in RAM without a
  save. The length is therefore not part of `Durable`; the antenna is not
  configured at that point, which is.
* `Stm32Motor`: tilts and ADC readings are small integers with the formula of
  `adc_to_tilt`, division included; the actuator has a position and one trouble
  at a time (jammed, driver fault, a switch that reports closed).
* `ControllerService`: of the events only the terminal ones are kept; what a
  device answers is a choice. The steps of a task between two looks at the flag
  are one, since only the worker touches the connection, the list and the
  transport. A flag dies with the work that holds it. An exchange that gets no
  answer ends a command, except that the refresh of an AISG 3 device goes on
  without it (`controller.cpp:776`): `NoAnswer` has both. Two histories say which
  addresses answered the latest scan over this connection (`found`), and that a
  connect found a list and left it (`kept`).
* `Backend`: `Room` keeps the number of operations within the bound of the
  model, counting those the scan still needs. The user presses what
  `updateActionState` enables and the three controls it never disables; the
  button that cancels is disabled once it was pressed (`scanCancelled`). A
  diagnosis before the first connection, of a device added by hand, reaches a null
  controller; the program ends there (`crashed`).
* `TiltSystem`: one device; the search for it is one step (`Found`), and
  `Discovery` is about that step. `stray` and `missed` are histories: how many
  requests were made since the last answer, and whether the session holds answers
  that none of its requests asked for. There are four ways to come by one: an alarm
  indication; the result of a command that was already running when the session
  began; numbers that have come round because `Modulus` requests went unanswered;
  and a UA of an earlier SNRM, which has no number, is not removed from the input
  before the next SNRM (`controller.cpp:313`) and may be taken for the new one, with
  everything that still follows it. The next SNRM without any of these clears it.
  The exchange after the UA that negotiates the release is not in `Plans`; it
  changes no state of the device but the numbers, and a lost one leaves what a
  lost request of any other operation leaves.
* `Discovery`: the octets of a query are the pattern they ask for. Reading a
  device after SNRM is one step with it. The vendor code is the same for every
  device. A reset broadcast may be missed by any device that has an address.

## What the runs check

| Run | Instance | Properties | Shows |
|---|---|---|---|
| `link` | a multi-antenna device with one antenna, a common and an antenna alarm, modulus 2, queue of 2 | `TypeOK`, `OnlyCurrentIFrame`, `ResetHasItsTrigger`, `QuietBeforeAddress`, `AlarmChangeReported` | sessions, retransmissions, resets and timeouts in any order keep the link consistent; a full queue, RNR or lost frames never lose a change of an alarm |
| `commands` | moves to two tilts, a first configuration segment, a software reset; motor results and deadlines | `MotorSupervised`, `LegalMove`, `UnfinishedTransfer`, `TccNeverReplaced` | nothing that arrives during a command breaks it |
| `storage` | a calibration and a write; every result of a save, also at boot | `StorageAgrees` | a restart brings back what was promised |
| `reset` | a single-antenna device, modulus 3 | `ResetAfterItsAnswer` | **violated**: see findings |
| `journal` | 2 slots, 2 valid payloads and an invalid one, sequence numbers modulo 5 | `ConfirmedIsLoaded`, `NothingInvented`, `StoreSpec` | power loss at every word, for several rounds of the sector |
| `journal_keep` | as `journal` | `LastRecordKept` | **violated**: see findings |
| `motor` | 4 positions, 3 tilts, both mountings of the potentiometer, every trouble, every result of a save | `TypeOK`, `DrivenUnderCommand`, `CalibratedAgree`, `NeverIntoLimit`, `KeepsContract` | the motor stops when it must, ends by itself, and keeps what the core expects |
| `service` | 2 callers, 3 operations, 1 address, 2 frames | `TypeOK`, `CancelCutsOff`, `ListedAnswered`, `KeepsFlight` | single flight, cancellation and the device list under every interleaving |
| `window` | GUI thread and future, 4 operations, 1 address | `AnswerIsOwn`, `NotDestroyedInUse`, `EveryCallReturns`, `DeadlinesRelease` | scanning, diagnosing, cancelling, disconnecting, reconnecting and closing at any moment; calls of both threads at once lose events and end with their deadlines |
| `exchange` | scans and moves, numbers modulo 3, a line that holds one frame | `SystemTypeOK`, `MoveDone`, `InStep` | what is shown as done is done, in sessions without stray frames |
| `moves` | as `exchange`, with an alarm of the driver and modulus 8 | `MoveReportedIsDone` | **violated**: see findings |
| `discovery` | 3 devices with identifiers of 4 bits on two benches, both profiles, with and without echo and reset, 2 addresses, 2 faults | `TypeOK`, `UniqueAddresses`, `AddressedAreListed`, `FindsAll` | scans find all devices and never hand out an address twice |

Bounds. A sequence number only matters relative to the other end's: equal, one
behind, or neither; modulus 3 has all three, and modulus 2, in `link`, has the
first two (a frame that is neither only causes FRMR; the invariants are proved
for every modulus). `moves` uses the modulus 8 of the protocol, because SNRM
reads as a request with N(R) = 4. `Patience` bounds the requests a user makes
without any answer before scanning again; it is above the modulus of `exchange`,
so that numbers that come round are seen. A queue of 1 or 2 is full after one or
two answers, which is the case that matters. Two tilts tell a target from the
present position. Two slots fill the sector after two saves, and five sequence
numbers wrap after five; the assumption `2 * SlotCount < SequenceCount` is what
makes the signed comparison of the code work, and 2^32 numbers with a 128 KiB
sector satisfy it amply. A torn sequence number is bounded to the lowest and the
highest (`TornNumbers`). The two payloads of the journal are only compared, so
they are symmetric. Three operations are one that runs, one that waits and one
whose caller has its identifier but not the lock; `window` needs
four for a connection, a scan, the alarms of the device it finds and a diagnosis
beside either; with three the threads are never in calls at once.
One address is enough for a list to be stale. Four positions have two ends and a
way between them, with default readings that lie inside and a minimum span that a
short run violates. Three devices give collisions inside a branch of a collision,
identifiers that differ in the first bit, in the last and in length, and more
devices than the two addresses; `MaxQueries` is `2 * Width + 1`, the most a search
takes (305 for the 152 bits of AISG 2, within the 512 of the code).

Preconditions. `fresh`: no device had an address when the scan began. Without a
reset (which the program sends only on its virtual bench) a second scan does hand
out addresses that devices of the first still hold; `docs/COMPATIBILITY.md` says
that a discovery finds only ports without an address. `Separate`: no identifier
ends with the whole of another one. `assignment_uid_matches`
(`ret_protocol.c:681`) compares the end only, so that two such devices would both
take the address; serial numbers of one length satisfy it. `Distinct`: a
confirmation tells the devices apart, which follows from identifiers of one
length as well. `stray`: see `TiltSystem` above; without it the
property is `MoveReportedIsDone`, which fails. The late UA is outside the bound of
`exchange`, whose line holds one frame: it came up in the proof, for any depth.

Fairness. The threads of the controller run: `WF(WorkerStep)` in
`ControllerService`, and one weak fairness per thread (worker, GUI, future) in
`Backend`. The worker is a `std::thread` whose reads have deadlines, the GUI
thread is the Qt event loop and polls every few milliseconds in `wait`, the future
is `std::async(std::launch::async)`. Nothing is assumed of the user (`Press`), nor
that a deadline ever passes. `EveryCallReturns` needs neither, but speaks of runs
in which the two threads are never in calls at once. `DeadlinesRelease` speaks of
all runs and supposes, in the property, that the deadline of a call that waits
passes in the end: `wait` reads `steady_clock` in its loop. In `Stm32Motor` the
main loop polls for ever, and the clock runs, so that a poll finds a time over
that has not been started again (`WF(PollLate)`). Deadlock is not looked for in
`service` and `window`, where the service may be destroyed and the window closed.

## Findings

* `reset`: `acknowledge_transmit` (`ret_protocol.c:592`) performs the
  application reset on the acknowledgement of whatever frame is outstanding. If
  RESET_SOFTWARE arrives while an older answer is unacknowledged, the reset
  comes with that older acknowledgement, and the answer to RESET_SOFTWARE is
  still queued. `RET/tests/test_ret.c:341` tests the order for an idle link.
* `journal_keep`: `RET/docs/HARDWARE.md:50` says that a power loss during a save
  keeps the last valid record. When the sector is full it is erased first
  (`ret_flash_storage.c:167`), and until the new record is complete there is
  nothing to load.
* `moves`: `README.md:184` says that *Set Tilt* waits for the conclusion of the
  move before it updates the position shown. `transact` (`controller.cpp:1271`)
  drops a frame it does not expect although the device has counted it. When an
  alarm indication answers the poll for the result of a move, that exchange runs
  into its deadline; the two ends then count one apart, and the next move accepts
  the result of the first one as its own while the antenna is still on its way.

Observations that no run is about, and no document or only a remark contradicts:

* an answer that finds the queue full is dropped silently (`queue_l7`'s result
  is ignored), and SNRM or DISC discards alarm indications whose marks are
  already cleared;
* a second calibration that fails after its first limit leaves a new `adc_min`
  beside the old `adc_max` with `adc_calibrated` still true
  (`ret_stm32_platform.c:180`): the calibration that `HARDWARE.md:34` calls
  rejected has replaced half of the range the next positions are computed from;
* `cancelCurrent` (`backend.cpp:145`) may find no operation while the window
  says that the discovery was cancelled; this includes any scan beside which a
  diagnosis has returned, since `wait` then stores 0 over the scan's identifier;
* a *self-test*, *clear alarms* or *calibrate* pressed during a scan makes both
  threads drain the one event list, and each drops the events of the other
  (`backend.cpp:253`). The call that loses its own returns only at its deadline,
  with a timeout although its operation ended: 120 s for a scan, and as long for
  who closes the window meanwhile, since `disconnectBackend` joins the future;
* the same controls are enabled before the first connection, and a device can be
  added by hand there (`main_window.cpp:1083`): `controller_` is still null
  (`backend.cpp:188`);
* the confirmation dialogs of `runCalibrate` and `runClearAlarms`
  (`main_window.cpp:984`, `994`) run an event loop while a pointer into `devices_`
  is held, in which `finishScan` may replace `devices_`. The model has no
  pointers;
* `connect` (`controller.cpp:69`) closes the open transport and leaves the device
  list, and, when `open` throws, `connected_`: commands are then accepted for
  devices of a connection that is closed, until the next scan or disconnection;
* `worker_` (`controller.hpp:129`) is declared before the mutexes, the queue and
  the event list, so that the thread may run before they are constructed;
* a command that is cancelled in the middle of an exchange reports a timeout, so
  it ends *failed*; a scan that is cancelled in `resolveCollision` fails with an
  unresolved collision; a scan that connects what it found lists a device after
  a cancellation with whatever it had not read left at its default;
* on an adapter that echoes, AISG 2 takes its own echo for activity
  (`controller.cpp:181`), so that every empty branch looks like a collision.

## What is proved

`RetLink_proofs` proves, for every number of antennas, addresses and queue
slots, every modulus of at least 2, every set of requests and every behaviour of
the platform, these invariants of the runs above:
`TypeOK`, `OnlyCurrentIFrame`, `ResetHasItsTrigger`, `QuietBeforeAddress`,
`MotorSupervised`, `LegalMove`, `UnfinishedTransfer` and `StorageAgrees`.

The assumptions are `DeviceAssumption`, `LinkAssumption` and `NoneAssumption`:
the ranges `ret_config_is_valid` enforces, well-typed sets of inputs, and that
`None` is no frame, command or configuration.

The inductive invariant is `Good(dev)`, the conjunction of the invariants: none
is inductive alone. `OnlyCurrentIFrame` needs the link state to know that no
frame is held outside a session; `ResetHasItsTrigger` needs that every request
that promises a reset leaves an answer in the queue, which needs the queue's
bound; `LegalMove` needs `UnfinishedTransfer` and the list of procedures allowed
during a command; `MotorSupervised` needs that a command starts only when none
runs. The argument goes operator by operator: a lemma for each one says which
fields it leaves alone (`Keeps`, `SameLink`, `SameDevice`) and that it keeps
`GoodDevice`, the layer 7 half. `HandleL7Handled` puts the procedures together,
`ProcessIGood` to `DevicePollGood` add layer 2, `InitGood` and `NextGood` are the
two halves of the induction.

`RetLinkSteps_proofs` proves the action properties `TccNeverReplaced` and
`AlarmChangeReported`. It goes through the same operators once more and relates
the device before each to the one after: most are *calm* (neither the command nor
the alarms change), and those that are not either end a command or start one where
there was none (`CommandKept`), and drop the mark of a changed alarm only when its
indication found room, or with the subscription (`MarksKept`). A power cycle and
a software reset may do anything to both, which is what the properties allow.

`FlashJournal_proofs` proves `ConfirmedIsLoaded`, `NothingInvented` and
`StoreSpec`, the whole refinement, which has no fairness, for any number of slots
and sequence numbers with `2 * SlotCount < SequenceCount`. `JournalAssumption`
says beside this that an erased word is not a torn one, a marker or a number, and
that `None` is no save in progress. What `newest_record` returns is an induction
over its slots; `SetInduction` is that principle for sets of numbers, from the
well-foundedness of `<`, and gives for the loop that the newest of consecutively
numbered records is the last valid one. The invariant has two parts. `Genuine` and
`Passed` hold on any flash: a marker with a matching CRC stands over a payload that
some save was called with. `Tidy` holds unless an erase was cut short (`scarred`):
the slots are filled from the first on, their numbers are consecutive, and a save
in progress has filled the first free slot up to its word with the number after
the newest. That is what makes the record of a confirmed save the one that is
loaded. The refinement adds nothing to it: the last word of a save is `Commit`,
every other word a stutter.

`Stm32Motor_proofs` proves `TypeOK`, `DrivenUnderCommand`, `CalibratedAgree` and
`NeverIntoLimit` for every travel, range, mounting and pair of default readings,
under `MotorAssumption`. The outputs are off without a command only if every
callback that ends one switches them off, and the core agrees with the ADC only
because a calibration that comes back has its range already: `CalibrationRuns`
says so and makes the conjunction inductive. The types rest on the arithmetic of
`adc_to_tilt`, whose result stays in range for any reading and any stored range,
equal limits included (`LimitedTyped`, `AdcToTiltTyped`). `NeverIntoLimit` needs
the course of a calibration (`Course`: which way its phases drive) and, for a
move, that a position at a limit is never short of its target on that side
(`WholeShare`). `ContractIsKept` is the safety half of `KeepsContract`: initial
states are initial, and every step is one of `MotorContract` or a stutter.

`ControllerService_proofs` proves `TypeOK`, `CancelCutsOff` and
`ListedAnswered` for any callers, operations, addresses and number of
frames, under `ServiceAssumption`. Cancellation needs three facts beside itself:
the worker holds work unless it rests (`HoldsWork`); an operation cancelled while
it waited has its flag set and never reaches the bus, and after a late frame the
worker is not about to write another (`CutOff`); and no identifier is in two
places (`Apart`), since `cancel` counts on an operation in the queue not being the
one that runs. The identifier is drawn before the lock is taken, so `Apart` speaks
of callers between the two as well. `TaskConnected` says that a task on the bus
has its connection and an address in range, since only the worker disconnects.
`ListedAnswered` needs more of such a task (`Lists`): a scan that reads a device has
its answer to SNRM already, a command is for a device of the list, and the transport
is open while a frame is exchanged.
`QueueIsSingleFlight` is the safety half of `KeepsFlight`. Beside `Inv` it needs
that nobody can cancel an operation before it is in the queue, and that a task
that throws was not cancelled while it waited (`FlightKept`): `SingleFlight` lets a
failure be the outcome only of an operation that ran.

`Backend_proofs` proves `AnswerIsOwn` and `NotDestroyedInUse` for any number of
operations and addresses, with calls of both threads at once. `wait` drops the
events of other operations; what could still go wrong is that the end it returns is
not the end of the operation, since one that timed out goes on and others are asked
for meanwhile. The invariant `CallInv` excludes it. The calls of the two threads have
different operations (`CallShape`), and an identifier is never drawn twice from one
controller. What was reported is over: no work in the hands of a caller, in the queue
or in service has its identifier, so that it is not reported again, and the call that
asked for it knows it as its fate (`Reported`). `Turns` says which calls each thread
can be in, and that a connection lasts as long as the future of a scan: no
disconnection is left that would take effect behind it, since only the GUI thread asks
for one, after it joined the future, and what nobody awaits any more was cancelled
(`Known`, `AllAwaited`). `NotDestroyedInUse` follows from `Turns`: a controller that
is no longer up has the GUI thread where no future runs, or is not connected.

`Discovery_proofs` proves `TypeOK`, `UniqueAddresses`, `AddressedAreListed` and
`FindsAll` for any devices and identifiers, both profiles and any number of faults,
under `DiscoveryAssumption`.
`UniqueAddresses` is not inductive: it needs that during a fresh scan every
address in use is below the one that is handed out next (`HandedOut`), and the
types need that a device is looked for only while there is an address for it
(`PoolHolds`). `QueryFinds` says that what a query finds is a device,
`SameAddressesUnique` disposes of every step that assigns nothing, `AssignInv` is
the step that does: only the candidate hears it, and nobody has the address.
`AddressedAreListed` needs the account of what was handed out (`Accounted`): a
device with an address is on the list or in `assigned`, which are a function of the
address between them, so that a device that is listed replaces nobody. AISG 3 has
at most one device waiting (`OneAtATime`).

`FindsAll` is proved for `MaxQueries > 2 * Width` and `Width > 0`, which the code
meets (512 queries, 152 bits in AISG 2 and 168 in AISG 3). `Searching` is its
invariant, of a scan that nothing disturbs (`Quiet`). Each call of `resolveCollision`
looks at a bit of at least two devices that match its pattern, and once the branch of
0 was silent all of them have a 1 there (`Narrows`); two devices that agree on every
bit are one, so that a call finds somebody before it runs out of bits
(`NarrowsWithin`) and takes two queries per bit at most (`FoundInTime`). The device
that was found is the only one that matches its whole identifier, and the only one
to take its address: the rule for AISG 2, the end of the identifier without padding,
singles it out when the mask of the confirmation does (`DistinctAreSeparate`). What
was handed out is in use and has no gaps (`InUse`, `NoGaps`), so that the list is
complete when the devices or the addresses are at an end.

`TiltSystem_proofs` proves `SystemTypeOK`, `MoveDone` and `InStep` for any modulus,
jobs, depth of the line and patience, under the assumptions of `RetLink` and
`SystemAssumption` (an address to give, an input of at least one frame, and the
alarm code of the driver fault where there can be one). `SystemTypeOK` follows from
`SystemSound`: `Good(dev)` of `RetLink_proofs`, what the answers a device holds may
say (`Truthful`), a device that is at rest outside a connection, a controller that is
where an operation can be (`Planned`), and on its way to the device only what a
controller sends.

`MoveDone` and `InStep` are far from inductive. Their invariant, `SystemInv`, speaks
of both ends and of every frame between them. While the controller waits for the UA
(`Opening`), no answer may follow a UA on the line, and the device has heard nothing
in the session if it has a UA to give. From then on (`Session`) there is an `a`, at
most `missed`, such that the device expects the request that was made `a` requests ago
or works on it: its numbers say which (`Placed(a)`), it owes one answer at most
(`Attuned`), and every answer on the line carries the number of an earlier request.
Answers arrive in order and none before its request has gone out (`Ordered`), so that
the one that fits the last request is the last, and `a` is 0. Numbers do not collide
because `missed` is below the modulus (`Back`, `Apart`, `Shifted`). For a move,
whatever the device has yet to say of the last request, it says OK only once the
antenna stands at the target and the storage says so (`Moving`, `Promises`, `Stands`),
which survives a restart. The lemmas before it say what the handlers do to a device in a
session: a poll, a request, a frame out of order and a pass of the main loop leave it
owing what it owed or deliver the answer (`ServesPoll`, `ServesRequest`,
`ServesReject`, `ServesPass`). There is one lemma for each action (`StartScanInv` to
`RunInv`).

Only model-checked: everything about liveness (`EveryCallReturns`, `DeadlinesRelease`,
and the fairness halves of `KeepsFlight` and `KeepsContract`), which is out of reach of
the prover, and the three runs whose property is violated.

## Plan

What could follow, in this order:

1. The procedures of an amplifier and of AISG 3 in the manner of `TiltSystem`.
2. `HdlcDecoder` and `UartRing`: resynchronisation after damage, the ring
   against its interrupt.

Not modelled, with the reason, as in `PROJECT.json`: the widgets of the Qt
interface, the termios transport, the PTY tools (input and output only), the
antenna database and domain types (pure values), the HDLC codecs and the UART
ring (octets; the models take frames), the host adapter (the same core on
another platform) and the simulated transport (a test double).
