# DATA_CONCENTRATOR: a TLA+ development

The repository is the firmware of a street-lighting data concentrator: an
STM32F4 with FreeRTOS that talks to a server over 4G and Ethernet, switches
relays, collects inputs, an electricity meter and a lumeter over RS485,
controls lamps over the power line, raises alarms and keeps a history of them
on flash.  This directory holds TLA+ models of its control logic, TLC
configurations that check them on small instances, and proofs checked by
TLAPS.  File and line references are to `src/`.

Contents: 1 the system; 2 the models, module by module, with what the runs show;
3 the proofs; 4 bounds and fairness; 5 what disagrees with its documentation;
6 what is not modelled; 7 the plan; 8 how to run.

## 1. The system

### Tasks

`rtos_task.c` creates one task per line (priority = configMAX_PRIORITIES - n, so
a smaller n runs first; preemption is on, the tick is 1 ms) and the queues they
exchange pointers through.

| n | task | what its loop does |
|---|------|--------------------|
| 0 | 4G | brings the modem up, moves bytes to and from it |
| 3 | TCP_CLIENT | the same for Ethernet |
| 4 | HANDLE_SERVER_FRAME | checks frames, routes them by message id to the device tasks |
| 5 | CONCENTRATOR | handles its messages, sends login, heartbeat, alarm and state reports, polls the power alarm, reboots |
| 6 | RELAY | handles relay messages, applies strategies, executes commands, collects states |
| 7-10 | LAMP, INPUT_COLLECTOR, ELECTRICITY_METER, LUMETER | handle messages, collect, detect alarms |
| 11 | PLC | runs lamp tasks over the power line |
| 12 | RS485 | sends one frame at a time, waits for the answer, up to three times |
| 13 | LED/MMI | the alarm LED; the local panel on a serial port |
| 14, 16 | DHCP, STORE | addresses; writes alarms to flash |

### Components, their state, operations and properties

- **Alarm sender** (`SendAlarmReportToServer`).  State: `xQueue_AlarmReportSend`, the static `alarm_report`
  and `retry_times5`, the global `AlarmReportResponse`.  Operations: take the
  next report, transmit, retransmit, give up; other tasks clear
  `AlarmReportResponse` when an acknowledgement of their device type arrives.
  *Hard*: acknowledgements carry no identity, come late, and are
  handled by other tasks in the midst of a transmission.  *Correct*: each report
  freed once, never a NULL one sent, in order, settled in the end.
- **Alarm push** (`PushAlarmReportToAlarmQueue`).  State: `SysAlarmState`, two queues with a
  mutex each.  Called by six tasks of different priority.  *Hard*: unlocked
  read-modify-write, full queues, no memory, a consumer that is a producer.
  *Correct*: each copy and report has one owner, each detector's reports stay in
  order, no push blocks for ever.
- **Input alarms** (`input_collector_event.c`).  State: static `cnt`, `occur`, `record` per
  function and loop; shared `RunMode`, `last_run_mode`, abnormal loops, `RelayForceSwitchOffAllRelays`.
  *Hard*: overlapping alarms, commands, configurations and reboots between
  polls, s8 counters.  *Correct*: debounced, raised in bounded time, reports tell
  the truth, the run mode comes back.
- **Relays** (`task_relay.c`, `relay_comm.c`, `kc.c`).  State: `RelayModuleState` per module
  (current and last command, task command, controller, execute_immediately, collected state),
  strategies, `RunMode`, the RS485 queue.  Commands come from the server, the
  strategy of the hour, a temporary strategy, the panel and alarms.  *Hard*: all of
  them write one record, the panel field by field; executing waits after
  each relay; the bus queue is bounded.  *Correct*: a quiet module is as
  commanded; a mode is obeyed; a forced switch-off arrives; relays come to rest.
- **Meter and lumeter alarms**: counters like those of the inputs, with flags
  shared between thresholds.
- **Lamps and the power line**: messages become tasks with one in progress and one
  backup; retries over lamps; suspension, from which no command resumes.
- **Links and login**: two link tasks and one `LoginResponse`; login and heartbeat with
  timeouts.
- **Frames**: a block FIFO between interrupt and task, reassembly of a byte stream,
  escaping, CRC, queues to both links.
- **RS485**: one outstanding frame, 4 s timeout, three attempts, an
  end-of-frame flag set by the interrupt.
- **History**: one file per day and device type whose name holds its record count.
- **Firmware update**: packets requested one by one, the state in flash, resets.
- **Configuration**: structures with a CRC in EEPROM, reset to defaults when it
  fails.
- **Panel**: register reads and writes of one field each, and `SetDO_State`.

They interact through queues (frames, reports, lamp tasks), through globals
that any task writes (`RunMode`, `RelayForceSwitchOffAllRelays`, `LoginResponse`, `AlarmReportResponse`,
`SysAlarmState`) and, for relays, through the shared `RelayModuleState`.

## 2. The models

Each run is one question; its properties are exactly those named.  `PROJECT.json`
holds for each property a mutated definition of the model that breaks it.  Eleven
more configurations, outside the listed runs, belong to section 5.

### AlarmReport, OrderedDelivery

`AlarmReport` is the reporting of alarms as the CONCENTRATOR task does it.  `pc`
follows the loop of `vTaskCONCENTRATOR` ("recv", "auto", "sending", "sent", "poll"), the places
where it can be preempted or blocks.  `TakeNext`, `NoneQueued`, `KeepWaiting`, `Resend`
and `GiveUp` are the branches of `SendAlarmReportToServer` (`concentrator_comm.c:661`), `Offer` is a push
as the sender sees it, `ConcentratorRecv` and `DeviceTaskRecv` handle
an acknowledgement in the sender's own task or in another.  `Timeout` makes
`GetSysTick1s() - time_5 >= command_response_timeout` true.  Frames and
acknowledgements are sets: the network delays, reorders and loses.  A frame
is a report and the number of the transmission.

`OrderedDelivery` is what the sender promises: reports opened one at a time in the
order they were queued, transmitted at most `1 + command_retransmission_times`
times, closed as acknowledged (after a transmission) or abandoned (after all of
them).  It has no queue, task, network or timeout.  `AlarmReport!DeliverySpec` is it under
the mapping `attempts <- sent`.

Run `alarm_report`: two reports of two tasks, a send queue of one, two
retransmissions, one disconnection.  `OneOwner`: no report leaks, is freed twice or
is used after it was freed.  `MisackBound` bounds what goes wrong with timeouts: an
answer that comes late closes the report sent after it, at most once for each
timeout.  `DeliverySpec` is the refinement, `EveryReportSettles` its liveness:
every queued report is acknowledged or given up.

### AlarmPush

The other half of the path: detector tasks push a report.  A detector runs
`PushAlarmReportToAlarmQueue` (`history_record.c:844`) step by step: read and write of `SysAlarmState`, copy, each mutex
and each queue.  Detector 1 is the CONCENTRATOR task, which is the highest and
also the consumer of the send queue.  `Runs` is the scheduler as far as it
matters: between another's load and store only a task of higher priority comes.
`Detect` toggles an alarm, whichever it is; the counters are in `InputAlarm`.

Run `alarm_push`: 2 detectors, 3 reports, queues of 1 and 2, one failed allocation.
`OneOwner` is the ownership of both queues' reports,
`DetectorOrder` their order, `CountDrift` bounds the error of `SysAlarmState` by the number of
interrupted updates and failed allocations (it is not exact: an alarm LED may
stay on), `PushReturns` is the absence of deadlock, `QueuedIsStored` that the store task
hands each copy to flash.

### InputAlarm

One input module.  A detector is one loop of one of the functions
`InputCollectorD_QuantityAbnormal` (`input_collector_event.c:133`), `...A_OverQuantityAbnormal`, `...A_UnderQuantityAbnormal`, in
polling order.  `Count`, `Raise`, `Switch`, `Clear` are one iteration of the loop; between `Raise`
(which reads `RunMode`) and `Switch` (which writes it) the CONCENTRATOR task may run.
`Record` is the end of a function, with `record_type` and the counting in
`PushAlarmReportToAlarmQueue`.  Around it: changed inputs, `SetRunMode`, `SetAlarmConfiguration`, `WriteInputCollectorConfig`,
`ResetConfigParameters` and `Reboot` with what is in the EEPROM.  Inputs of an analog loop are five
values: the two limits, each with its margin; `Zeros` says on which side of the limits a cleared state's value of 0 lies.  `confirm_time` and the s8 counter
keep their width.

Run `input`: two digital loops, one of which switches the run mode, and the upper
limit of an analog one.  `Debounced` and `ConfirmedInTwice` bound the delay of an
alarm from both sides: at least `confirm_time` polls, at most twice as many.
`AbnormalLoopsExact` relates the set that reports are made of to the flags.
`LastReportTells` says what the server can rely on: between functions the last
report of a class is 1 exactly when the class has abnormal loops, or a reboot or a new
configuration has taken them away in silence: both clear the state of the module (`ClearState`,
`input_collector_conf.c:111` and `:171`), neither reports, and the alarm stands at the server until
the class reports again (`overtaken`).
`RunModeRestored`: the run mode from before a switching alarm comes back, although
the server sets modes and other alarms come and go meanwhile.
`PersistentAlarmRaised` and `PersistentClearCleared` are the liveness: what stays
is reported.

### RelayControl

`pc` is the place in the loop of `vTaskRELAY` (`task_relay.c:19`): `Receive` (one message of the server at
most), `RelayExecuteStrategyGroup`, `RelayExecuteTemporaryStrategyGroup`,
`RelayCheckForce`, then module by module `Pass`, `Execute` and `ExecuteEnd`, or `HoldBack` when the
run mode does not permit the controller, then collecting and an answer from a device.
Between `Execute` and `ExecuteEnd` the task waits for relays or the bus queue, and tasks of lower
priority run: the panel (`MmiChannel`, `MmiWriteState`, `MmiController`, `MmiImmediate`, the four
assignments of `SetDO_State`), alarms (`RaiseForce`) and the RS485 task. `SetRunMode` comes at any step, as the
CONCENTRATOR task has the higher priority.  `Decode` is the decoding of the
hexadecimal parameters by their number of digits, with the variables that are not
reset between modules.  A command is two sets of loops, the bits of
`loop_current_channel` and `loop_current_state`.  Module 1 is built in, module 2 on the bus.
`origin`, `held` and `missed` are history: who wrote fields of the command and of its controller, whether
the run mode held it back, whether its last frame was lost.  `origin` has one member where one source wrote all of
them in one go, as a message and a strategy do and the panel does unless it is overtaken.

| run | properties | shows |
|-----|-----------|-------|
| `relay` | `QuietMeansApplied QuietMeansSent Settles` | every source, three inputs in any order, one lost frame: no command is lost, and the relays come to rest |
| `relay_modes` | `ModeObeyed ForceSwitchesOff` | four modes, three inputs; messages, strategies, temporary strategies, the panel and alarms: a command is executed or held back as the mode says of the one who gave it, and a forced switch-off reaches every module |

`QuietMeansApplied` is the point of the component.  It depends on an order that nobody
states: `execute_immediately` is cleared before the command is executed, and set last by the
panel, so that a command overwritten while the task waits is executed again
although `last := current` has recorded it.  `QuietMeansSent` adds the queue of the RS485
task: frames of a superseded command leave before those of the newer one.
`Settles` says that a command is executed or held back once and not for ever again.
`ModeObeyed` is exact for a command of one source.  The panel writes `controller` after the command,
so that the RELAY task may take its command under the mode of the one before, and a temporary strategy
writes it at the index of the action instead of the module's: where two wrote, the mode is obeyed of one of them only.

### StrategySelect

Which strategy `RelayControl`'s "task of the hour" comes from.  Messages store
strategies, appointments and the switch of groups; `RelayExecuteStrategyGroup`
(`task_relay.c:69`) builds the lists when the switch was set, chooses the group in
force, moves the times of that group with the sun and the light
(`RefreshRelayStrategyActionTime`), and scans its list for the strategy the clock is
at, with the wrap at midnight.  The clock is written by the LED task in two steps,
hour then minute, and a pass may see half of it.

Run `strategy`: a day of eight minutes, a year of three days, two groups, two
messages or changes of sun and light.  `FollowsClock` compares the scan with its
reference, "the last strategy that acts at or before now, or the last of the day
before", wherever the times have moved; `HighestPriority` compares the group with
"an appointment that holds, and none of higher priority".  Run `strategy_unsorted`
is the violation of section 5.

### PlcExecutor

Lamp commands over the power line.  A `Request` is a message or a panel command that
becomes a task (`LampPlcExecuteTask`); `vTaskPLC` (`task_plc.c`) takes one, makes and
transmits a frame of it per loop (`Broadcast`, `BroadcastFirst`, `ToNextLamp`, `ToNamedLamp`, `SendStrategy`: the
branches of `CombinePlcUserFrame`), waits, looks into the one receive buffer, counts
(`Settled`), and notifies the server through `fromPlc`.  `Stop` and `Suspend` act on a
firmware update only, `task_backup` holds what it interrupted.  Lost, late and unasked
answers, a changed lamp list, retransmissions, full queues are the environment.  A NULL task
dereferenced ends in `HardFault_Handler`, which loops.

Run `plc`: two lamps, a command one by one, then a query, a firmware update of two
packets, or the strategies; one stop, suspension, report or changed list, and one
retransmission.  `FalseSuccessBound`: a
command counted as executed that did not arrive costs one expired wait.
`OneTaskOwner`: a task is queued, under way, in backup or freed, in one of these.
`NoticesTell`: successes and failures told at the end are as many as the frames.
`EachLampOnce`: a command to all lamps goes to each once, whatever was lost.
`TaskSettles`: every task ends, is suspended for good, or the processor halts.

### FrameStream

From bytes to frames.  Pieces cut anywhere arrive in the interrupt (4G) or in the
TCP client's task; both put them into the pool of blocks of `fifo.c`/`memb.c`, the TCP client
in three steps (`Find`, `Mark`, `Fill`) that the 4G task and the interrupt preempt.
`RecvNetFrameAndPushToRxQueue` (`server_protocol.c`) takes a block a pass; `Analysis`
cuts frames as the code does, including what it leaves when bytes precede a head;
`Second` and `Timeout` throw away what stays incomplete.

Run `frames`: two frames of three bytes, two blocks, pieces up to three bytes, either
or both links, one change of the 4G link.  `ExactStream` is conservation: as long as
pieces do not pile up, come over both links or time out, what was handled, queued,
buffered and pooled is, in this order, exactly what arrived.  `HandledOnce`: no request is handled twice
even then, unless a block was torn.  `Resynchronises`: no unfinished frame stays.

### Rs485Bus

`vTaskRS485` and the tasks that ask and decode.  `Put` queues requests, `TakeAndSend`
transmits, `UART5_IRQHandler` flags what arrives, `Answered`, `TooShort`, `TimeOut` end or repeat an
exchange, `RecvAnsAnalysisHCI_Frame` is the maintenance tool on the same wire.  A meter is read in
two requests, a six-loop module (addresses 48 to 53) in one, and the answers of all of them meet in the static
`meter_state` (`AnalysisMeter`, `CopyMeter`), those of `TransparentTransmission` too:
what the server asks through a device task is decoded like that task's own requests.
Each field of a module's record is modelled by whose answer it holds; `Writes` says which fields a frame
sets, `UpdateOf` when the record is complete: after a meter's second frame, or a six-loop module's one.

Run `rs485`: two meters, a six-loop module and a lumeter, two rounds, reads of the server's, a byte of noise, one late answer
or tool frame.  `OwnAnswersOnly`: the fields of the answer that completes a record are never another device's.
`WholeUnlessMissed`: both halves of a meter's record are its own while each first
request was answered in its own exchange and the server asked for no second half alone.  `EndsHeard`: without lateness an exchange
ends early only if the device heard the request.

### ServerSession

Both link tasks and the login.  `ec20_get_AT_QISTATE` asks the modem, and its answer
is applied in a later step (`Asked`), so the interrupt's "closed" may come in between; `Opening`,
`Switch`, `ReInit` are the other branches of `vTask4G`, `EthConnect`, `EthLoop`, `EthKeptOff` those of the TCP client.
`SendLogin` and `HandleLogin` are the login of `concentrator_comm.c` over the one flag
`LoginResponse`, `ReConnectToServer` and `SetBasicConfiguration` the messages.  `known` is what the server believes.
`dl_buf` are the blocks of answers, which both links share and no end of a connection empties: an answer in one, or
in the queue behind it, is "old" once its connection is gone, and believed all the same.  A connection over Ethernet ends
"closed" when the task is told (`ERR_CLSD`, `ERR_ABRT`), or "reset" when the reset comes while it does
not wait to receive: lwIP reports `ERR_RST` then, for which `task_tcp_client.c:108` does not leave its loop.

Run `session`: three modes, two disturbances.  `KnownUnlessExcused`: a device that
takes itself for logged in is known on the connection it uses, but for three named
excuses, each a line of the code where the flag is left behind.  `LostLinkNoticed`:
a socket the server closed does not stay unnoticed.  `LoginSettles`: the device is
logged in in the end, or its mode is Ethernet and it is kept by a connection that was reset.

### HistoryStore

The directory of alarm records.  `RecvAndStoreAlarmReport`, `GetAlarmReportHistory` and
`RecvAndSendEventHistoryToServer` hold one mutex each in turn; the sweep goes entry by entry
(`SweepStore`, `SweepCount`, `SweepSend`) and deletes what is too old; storing then opens, writes and
renames; `Crash` loses the queues between any two.  A file is a number (in its name), a day
and its records.

Days are compared by `get_days_by_calendar` (`common.c:446`), which adds up the lengths of all years from 2000 on, the
day's own included: the number of a day is the days before it and the length of its own year.  `LeapDays` are
the days in leap years; within a year numbers are consecutive, into a leap year they grow by two, and December 31 of a
leap year has the number of the January 1 after it.

Run `history`: three reports over four days (the first and the last in leap years), files of two records kept two days, two
power failures, a query, a clock set once.  `NamesCount`: names never promise records that are
not there, and leave out at most one per power failure.  `RecordsKept`: each record
is there once for `Keep` days, and for one fewer across a new year that begins a leap year.  `AnswerExact`: a query gets exactly the records of its
days, by their numbers, once, in order, and no fewer than it was told.

## 3. The proofs

All of them hold for every value of the constants that the named assumption of
the module allows, without the bounds of the runs.  Each rests on an inductive
invariant, which TLC checked on the instance of the run before it was proved.

- `AlarmReportProofs`.  `IInv`: `TypeOK`, `OutstandingIsReport`, `QueueInv` (the queue holds distinct offered
  reports in order, none of which is the outstanding one), `FateInv` (the fate of a report
  says where it is: queued, outstanding or freed), `SentInv` (transmissions agree with
  `retry_times5` and `pc`), `FreshInv` (until a timeout every frame and acknowledgement
  under way is of the outstanding report) and `ExactUntilTimeout`.  The
  strengthening is needed because an acknowledgement carries no identity: that it
  is of the outstanding report follows only from what can be under way.
  `Ownership`, `NeverSendsNull`, `ExactAcknowledgement` and `TypeCorrect` follow; `Refinement` maps each step to one of
  `OrderedDelivery` or a stutter, and needs `IInv` for the order of the queue and the
  number of transmissions.
  `MisackAlwaysBounded` counts transmissions: each was paid for by the timeout before it, but for the one being waited for
  (`Credit`).  Those under way, answered but unread, or never heard (`Unspent`) are therefore no more than the timeouts, and a
  report wrongly taken for received has one of its own among them.
- `AlarmPushProofs`.  `IInv`: `TypeOK`, `HolderInv` (a detector that is pushing has the last
  report it made), `CopyInv`, `CopyOwner` and `ReportOwner` (each in one place, counted),
  `OrderInv` (each queue is in its makers' order and behind what was taken from it) and
  `DriftInv`.  `CountDrift` alone is not inductive: a detector stores a number it read
  earlier, so `DriftInv` says that whoever is about to store has read one
  that is near.  `OwnedOnce`, `OrderKept` and `DriftBounded` hold for any number of detectors.
- `InputAlarmProofs`.  `DebouncedAlways` rests on `DebounceInv`: the counter is never further from 0 than
  the number of polls in a row; this holds through the wrap of s8.
  `ConfirmedInTwiceAlways` assumes `ConfirmFixed` (confirm times from 1 to 127 that do not change) and rests on
  `BoundInv`, which bounds the counter on both sides; section 5 shows that neither
  half of the assumption can be dropped.  `AbnormalLoopsAlwaysExact` and `LastReportAlwaysTells` (on `ReportInv`: a pending
  `record` belongs to the function being polled) need no assumption; the former
  speaks of the time until a new configuration, the latter tells a class that a reboot or a configuration has
  silenced from the others (`Standing`).  `RunModeAlwaysRestored` assumes that one
  detector, of any number, switches the mode (`OneSwitching`); `SavedInv`: the saved mode is the one from before its alarm.
- `RelayControlProofs`.  `QuietAlwaysApplied`, and with it `CollectedAlwaysCommanded`, rests on `ApplyInv`: a built-in module that is not to be executed
  immediately nor being written has its relays as its *last* command says
  (`LastMatches`); while one is executed, as its current one (`ExecutingApplies`); and no frame on the bus is for a
  built-in module (`FramesGoOut`).  The property itself is about the current
  command and is not inductive.  `ModeAlwaysObeyed` rests on `SourceInv`: the controller of a command is
  one of those who wrote it, at every step of the panel and whatever overtakes it; that it is the only one is false (section 5).  `QuietAlwaysSent` is the same as `QuietAlwaysApplied` for modules on the bus.  `Ends(m, c)` says that what a
  module's relays come to once its frames in the queue arrive is `c`; `SentInv` says so of the last
  command of each such module of which no frame was lost (`LastSent`), and of the current one while
  it is executed (`ExecutingSends`).  The queue is the point: a collecting query or a second command stands behind the first.
  `PriorityAlwaysHighest` is of `StrategySelect`, of which the module holds an instance.  Its hypothesis `SelectInputs` is
  what the messages' fields can hold: priorities are bytes, times count from the start of the year, a switch names groups there are;
  strategies, sun and light are left open.  An appointment is a candidate exactly when it holds (`AllowedHolds`), and of candidates, finite in number
  or not, some group has the highest priority, being bytes (`BestThere`); the invariant is only that the clock stays in its day and year.
  `OrderedFollowsClock` says of the scan that it takes the strategy in force whenever the lists were just built, or the list is in
  order or has no more than two strategies: of `FollowsClock`, which is false in general (section 5), this is what
  holds for any strategies, sun and light.  `RelayStrategyAdd` puts a strategy where the order stays (`PlaceKeeps`), so a list that is built is in
  order, by induction on the strategies stored (`FoldThere`, `BuiltKeeps`), and moving its times at the same pass changes nothing (`ActionTimeAgain`);
  of a list in order the first place that stops the scan is one in force (`ChosenInForce`).
  `FixedTimesFollowClock` is `FollowsClock` itself for strategies of fixed times, stored in any order; `StrategyListsTyped`
  holds of any.  Their hypothesis `ListInputs` adds to `SelectInputs` that offsets, sun and almanac are integers.
- `Rs485BusProofs`.  `OwnAnswersAlways` rests on `DecodedInv`: the static record never waits with
  `update` set between two answers, so that what is copied was completed by the answer just decoded (six-loop modules and the server's
  reads included).  `EndsAlwaysHeard` rests on `HeardInv`: with nothing late, what is
  under way is at most the one answer to the request just heard.  `WholeAlwaysUnlessMissed` rests on two facts:
  along the static record, the answers to decode, the requests queued and those still to put, the second part
  always follows the first of the same meter, with nothing but six-loop modules' frames between (`Leads`, `Paired`), and what is left over on the line is of the meter accepted last (`InOrder`).
- `FrameStreamProofs`.  The recursion that cuts frames is shown to define a function (`CutTurns`), and by induction on the
  length of the buffer its frames and what stays are parts of the buffer that do not overlap and keep their
  order (`CutParts`).  `RequestsHandledOnce` rests on `OnceInv`: while nothing is torn each frame's number is at one spot
  only, on a wire, in a block, the put, the buffer, the queue or handled; none is there that was not sent; and a
  block is in use once.  A step that moves bytes has an injective map from the spots now to those before (`Traces`).
  `StreamAlwaysExact` rests on `ExactInv`: untroubled, at most one piece is on its way to the buffer (`OneOnTheWay`), and the buffer
  with it and one wire makes whole frames, as does the other wire (`Aligned`).  Alignment is the point: the loop drops what
  stands before a start, and only of a buffer that starts with one do the frames and the rest put together give the buffer (`CutExact`).
  The module also holds an instance of `ServerSession`, with that module's assumption as the hypothesis
  `SessionBounds`.  `KnownAlways` rests on `KnownOpen` (what the server knows is of an open
  connection), `FreshAnswers` (an answer in a block or in the queue that is not old is of the connection still there) and
  `Speaks`: the flag holds for the link in use, or its end, closed or reset, is still to be noticed.
- `PlcExecutorProofs`.  `OneTaskAlwaysOwned` rests on `QueueInOrder` and `OnePlace`, the disjoint form of a sum of
  three; `Waits`: a frame whose answer is waited for was transmitted.  The cardinality
  in the property is bridged by lemmas about queues without repetition.  `FalseSuccessAlwaysBounded`: a success that is none
  needs a late answer, which a wait that ran out left (`Due`, `Unread`), and uses it up.  `NoticesAlwaysTell`:
  `Issued` and `Tally` say of each place a task can be in how its counters relate to the frames sent for it, one more while
  an answer is awaited, and the notice in the queue has them as they were at the end.  `EachLampAddressedOnce`: the lamps
  a task has addressed are those its index has passed (`Walk`), all of them when it ends (`Walked`).
  `GroupsAlwaysAddressed`: a command to groups has gone to no lamp but those `InGroup` matches when the server is told that it
  ended.  It is what holds of `GroupLampsOnly` (section 5): a lamp whose slots are all in use is addressed for one of its
  groups only.  Lamp strategies are left out: they have addresses of their own.
- `HistoryStoreProofs`.  `NamesAlwaysHold` and `RecordsAlwaysOnce` rest on `NumberInv` (while storing, the number
  is that of a file of the day, which after the write has one record more), `NamesDiffer`
  and `OrderInv` (what is in files was pushed before what is being stored, and that before what is queued).
  `NamesAlwaysCount` bounds the records no name counts (`Unnamed`) by the power failures, one more while a file is to be
  renamed, and carries the number over to places in files, a record being at one.  `RecordsAlwaysKept` adds, while the clock runs forward, one file a day
  (`OneADay`), no more in it than were begun (`BegunInv`), and that a record written stays found (`KeptInv`, by the
  program's count of days, `Between`); `NumbersOfDays` relates that count to the days themselves, for any leap years.
  `AnswerAlwaysExact` rests on `GivenInv` (what was sent and is in the frame `Tells` the files already read), `CountInv`
  (the sum never exceeds the records there are) and `PromiseInv`: what a query was told stays true until it is sent, because on one day a
  file loses nothing unless it was full (`Lasting`), whatever is stored and deleted between the two sweeps.
  `TypeCorrect` needs all of these: the sum of the names is a number because each name is.

Only model-checked.  Liveness, which needs fairness and ENABLED: `EveryReportSettles`, `PushReturns`, `QueuedIsStored`,
`PersistentAlarmRaised`, `PersistentClearCleared`, `ForceSwitchesOff`, `Settles`, `TaskSettles`, `Resynchronises`, `LostLinkNoticed`, `LoginSettles`.
Every safety property a run checks is stated by a theorem, `FollowsClock` only under the hypotheses above.  Where a proof
needs what a recursive definition computes (`Cut`, `FlattenSeq`, the fold that builds the lists), the recursion is shown to define a
function and induction goes over sets of numbers or of sequences (`EachNumber`, `EachSequence`, `EachAppend`).

## 4. Bounds and fairness

Bounds are constants named `Max...` (with `NFrame` and `PieceMax`), and every guard that uses one is in an action of the
environment or counts something the environment causes; none stops a
task of the program.

- Alarms: two reports with a queue of one and two retransmissions give a full queue with one
  outstanding, first, middle and last timeouts, an acknowledgement of the first
  arriving when the second is out, and a dropped report.
- Inputs: confirm times 2 and 1 make counters pass each other in both orders; the s8
  counter keeps its width in the model, but no run reaches its wrap; the proof covers it.
- Relays: two modules, one of each kind, are all that commands
  tell apart: modules do not interact except through the task's order and the
  bus queue.  Three inputs are the longest case: a command, one that overwrites it while
  it is executed, and a run mode change.  A bus queue of 2 fills with two commands.
- Strategies: eight minutes are enough for two times to be apart, equal, crossed and
  wrapped; three days for a range over the end of the year.
- Power line: two lamps, so that "the next lamp" and "the last" differ from the first;
  two tasks, so that one can be in backup.
- Frames: two frames in two blocks: the lower block free while the other is full, which is
  what makes the pool no FIFO.  Pieces of up to three bytes cover a frame whole and every cut.
- Bus: two meters are needed to mix their halves, a six-loop module to stand between them, one device of another kind to take an
  answer of the wrong type, two transmissions for first and last.  The server's reads are a second half
  alone, a six-loop module, a device of either task through the other, and one that nothing can decode.
- Session: two disturbances are the shortest way to each excuse.  One block is enough for an answer to outlive its
  connection and for both links to want it; the proof has any number.
- History: files of two records fill, two days kept expire within the four days of the
  calendar, which go out of a leap year and into one (the years between are short, so that both fit); two power failures give two files a record too many.

Fairness.  Weak fairness of each task's steps: `WF(ConcentratorStep)`, `WF(TaskStep)`, `WF(RelayStep)`, `WF(Push(d))`, `WF(Store)`,
`WF(vTaskPLC)`, `WF(Poll4G)` and the like: each task loops for ever and
each wait in it is bounded (`delay_ms(100)`, queue operations with 1 or 10 ticks), except for the
mutexes of the push, which `AlarmPush` models and whose holders give them back.
All tasks of higher priority end each loop with a delay, so the lower
ones run again and again.  `WF(Timeout)`, `WF(Second)` are time.  `SF(Login)`: a server that is reached again and
again answers a login once (the frame may be lost, so it is strong only in
that the state "logged out, at recv" returns each loop).  `SF(MmiNext)`: the panel's task may only go on when RELAY waits, which is
100 ms in each loop, more than it needs.  `SF(PollEth)`, `SF(EthConnect)`, `SF(EthLoop)`, `SF(SendLogin)`: a state that a loop comes back to is
met by the loop of another task in the end; so `SF(EthConnect)` says that an attempt to connect succeeds in the end.  `SF(ec20_get_AT_QISTATE)`: 30 s pass while the loop goes round.
`WF(Bus)`: the RS485 task ends
each frame after at most three timeouts of 4 s.  `WF(ServerAccepts(l))`: the server answers.  No fairness is assumed of the
server's commands, inputs, alarms, answers of lamps or loss.

`CHECK_DEADLOCK` is off in two runs that really may stop: in `frames` when the server has sent its last
frame and all is handled, in `history` when the last day of the calendar is over.

## 5. Where the code and its documentation disagree

Run `strategy_unsorted` ends with a counterexample to `FollowsClock`, and is the finding in `PROJECT.json`: a group's list is
sorted by the times its strategies have when it is built.  The sun then moves times in place
(`relay_conf.c:791`), the list is not sorted again, and the scan of `task_relay.c` takes
the step back for midnight: it follows a strategy that is not in force.

The following configurations show further behaviours; each ends with a counterexample.

| configuration | property | behaviour |
|-----|----------|-----------|
| `InputAlarmModes` | `RunModeRestored` | two overlapping alarms that switch the run mode: the device stays in a mode one of them had set |
| `InputAlarmReset` | `RunModeIsMode` | after a factory reset and a reboot the run mode is 0, in which no relay command is executed |
| `RelayControlTemporary` | `OneSource` | a temporary strategy writes the controller of another module, whose command then runs under a mode it was not given for |
| `RelayControlForcePanel` | `ForceSwitchesOff` | the panel overwrites a pending forced switch-off of a later module |
| `RelayControlShort` | `CommandAsAsked` | a loop state of two digits is written over the channel |
| `PlcExecutorGroups` | `GroupLampsOnly` | an unused group slot of a lamp is 0 and matches a task for group 0; `GroupsAlwaysAddressed` proves what holds instead |
| `Rs485BusWhole` | `MeterWhole` | a missed first answer: a meter's energies are shown with the voltages of the one before it |
| `Rs485BusMixed` | `NothingLeftOver` | with no fault at all: a six-loop module's frame (`e_meter.c:624-700`) leaves in the record the line voltages and the reactive energy of the meter read before, and all of it is copied (`task_electricity_meter.c:99`), reported (`electricity_meter_comm.c:459`, `:474`) and looked at for alarms (`electricity_meter_event.c:367`) |
| `HistoryStoreLeap` | `RecordsKeptThirtyDays` | across the new year of a leap year a file is deleted a day early (`common.c:453`, `history_record.c:98`), against the comment of `history_record.c:110` |
| `ServerSessionKnown` | `EventuallyKnown` | the login flag outlives a socket that was closed and reopened, and the server never hears a login again |
| `ServerSessionReset` | `LoginAlwaysSettles` | a reset outside the wait to receive is `ERR_RST` at each later receive (`api_lib.c:356`, `api_msg.c:360` of lwIP), for which the loop is not left (`task_tcp_client.c:108`): in Ethernet mode the device keeps the dead connection |

Other behaviours that the models exhibit under other constants, and that explain the assumptions of the
proofs:

- `AbnormalLoopsExact` would fail for two limits of one analog loop: they share a bit (`input_collector_event.c:448`),
  and one clears it while the other is on; hence `OwnBit` in the property.
- `PersistentAlarmRaised` fails with a confirm time above 127 (the s8 counter, `:139`), and `ConfirmedInTwice` when a
  configuration lowers `confirm_time` below the counter: the comparison is for equality.
- The factor of two in `ConfirmedInTwice` is needed: a confirmation leaves the counter at `confirm_time`, so the
  opposite may take twice as many polls.
- A report sent because one alarm cleared carries 1 while another loop of the module is abnormal (`:242`);
  `LastReportTells` is what does hold.
- `OneSource` would fail with panel commands too: a message between two of the panel's four writes (`task_led.c:717`)
  leaves the command to the one and the controller to the other.
- Without `m \notin held`, `CollectedIsCommanded` fails: a command held back is collected as if
  executed (`task_relay.c:359`).

### What the reading showed besides

Beside the models, and where these follow the code; none is a documented promise.

- *Power line.*  The index of a task to named lamps wraps when it exceeds their number
  (`task_plc.c:439`), so of several rounds only the first is sent in full.  A suspended task is never
  resumed.  `LampAutoGetCurrentState` leaves `execute_total_num` 0.  The frame of the first broadcast is overwritten
  and leaks.  The `add_index` of strategies is static across tasks, and their `execute_total_num` counts strategies, not
  lamps.  `LampSetExecuteState` parses a hexadecimal code with a decimal parser.  The group index is one off between
  `lamp_comm.c:916` and `:970`, `:4591`.  Notices are dropped unless the device is logged in.
- *Strategies.*  The heads of groups and appointments leak at each refresh (`relay_conf.c:403`, `:462`, `:861`); freed nodes are read
  (`:850`, `:931`).  The group is chosen again only at a switch message or start.  A range over the end of
  the year looks at the weekdays of another range (`:1074-1108`), and its bound leaves out December 31 (`:1072`);
  `HighestPriority` claims nothing there.  More than ten candidates overflow their array (`:975`).  Messages that
  store strategies or appointments do not have the lists built again.
- *Frames.*  The pool hands out the lowest block, not the oldest.  After a lost first half, traffic with
  gaps under 3 s hides the frames behind it.  Both links share one buffer.  On the way out the chunks of two
  tasks may interleave (`server_protocol.c:357-390`), and a length that is a multiple of the chunk gets an empty last one.
- *RS485.*  After one stray frame answers stay shifted by one while requests are back to back, and a command
  "answered" by a stale frame is not transmitted again.  The relay's answer to 0xD1 always goes to the server.
  The lumeter's early return without memory leaks (`task_lumeter.c:146`).
- *Relays' report.*  The mirror of a relay's state is updated before there is memory and room for the report
  (`relay_event.c:27`), so a change may never be reported.
- *Meter alarms.*  Recovery sets `occur` to 1 again, and its condition is on `max + range`
  (`electricity_meter_event.c:421-442`); thresholds share `occur[i][j]` (`:386`), which other parameters reset (`:58`, `:87`);
  the lower limit compares with `max_value` (`:485-487`); the mirror is updated before there is memory (`:50`).
- *Session.*  Heartbeats that fail do not clear the login (`concentrator_comm.c:579`, `:751`).  A failed AT command at the
  refresh reopens a live connection (`ec20.c:485`, `:556`).  A reconnection in Ethernet mode leaves
  `FlagReConnectToServer` at 2.  With `command_retransmission_times` 0 no login is ever sent.  `SetBasicConfiguration` parses the address
  four times from its start (`concentrator_comm.c:1659-1690`).
- *History.*  A query that ends on December 31 of a leap year is sent January 1 as well, one that begins on January 1 the day before.
  A clock set back deletes every later file.  The 256th report of a day deletes the
  255 before it.  A record whose renaming was cut off is not counted, and a query that is told 0 is
  sent nothing.  `task_store.c:46` and `:51` use the flash without its mutex.
- *Firmware.*  `RecvFrameWareBag` loops up to a field of a frame that is still NULL (`concentrator_comm.c:2164`) and checks a CRC over
  `bag_size - 2` bytes with `bag_size` 0 (`:2149`, `:2197`).

## 6. What is not modelled

In the modelled parts:

- `InputAlarm`: `switch_run_mode`, `resume_run_mode` and the relay action of an alarm are constants (the
  server may change them).
- `RelayControl`: `RunMode` is read once by the filter (the code
  reads it up to three times); relays of a module are switched together, not one by one;
  there is no reboot, no query that only reads, and the strategy of the hour is an input, which
  `StrategySelect` computes on its own; at least one module is configured.
- `StrategySelect`: the almanac is the same every day, and the sun is an input (floating point).
- `PlcExecutor`: what is in a packet; a lamp's answer is whose it is and what it answers.
- `FrameStream`: the contents of a frame are one escaped byte; CRC failures are left out, as is the
  way out but for a full queue (`AlarmReport`).  Two of the three blocks suffice.
- `Rs485Bus`: the values; a field is whose answer it holds.  Addresses outside 32 to 53, whose frames set nothing.  The relays' side of the queue is in `RelayControl`.
- `ServerSession`: other frames than logins in the blocks and queues; the text of the AT dialogue, and the heartbeat, which changes nothing the login depends on.
- `HistoryStore`: FatFs is external: a record is durable when its file is closed, renaming and deleting are one step, the
  flash is never full.  One device type; the SPI bus between tasks is left out.

Not modelled at all, with the reason in `PROJECT.json`: the firmware update (each download rests on undefined
behaviour, and the installing is a bootloader that is not here); the relays' state-change report; the limit
alarms of meter and lumeter; device drivers (register and bus I/O); string conversion, CRC and the
sunrise computation (data and floating point); the AT text; and third-party code (FreeRTOS, lwIP with
its web server, FatFs, the ST library), which is most of the repository's lines.

## 7. Plan

Done: alarm reporting and its refinement, pushing, inputs, relays, strategies, the power line, frames in, the
bus, the session and the history; proofs for all ten modules.  Left, in the order of importance:

1. `MeterAlarm`: the shared flags of the thresholds of a channel, with `InputAlarm` an instance
   of an abstract debouncer (`Debounce`), each shown to implement it or not.
2. `StrategySelect` in the place of `RelayControl`'s input, and `Rs485Bus` in that of its bus.
3. The frames' way out: chunks, and both links' queues.
4. `ServerSession` under the `Login` and `Disconnect` of `AlarmReport`.
5. Proofs: which strategies with the sun or the light keep a list in order for ever, so that `FollowsClock` holds of
   them as it does of fixed times; how often a pass that reads half a clock can be off.

## 8. Running

In this directory `tlc -config X.cfg M` for the pairs listed in `PROJECT.json` (`runs`), `tlapm M.tla` for the eight
`*Proofs` modules.  The configurations of section 5's table run with the MC module of the same name
(`RelayControl*.cfg` with `MCRelayControl`, and so on), `ServerSessionKnown.cfg` and `ServerSessionReset.cfg` with `ServerSession`.  `PROJECT.json` also maps each definition to the lines it models, lists
for each property a mutated definition that breaks it, the hazards of the code with
the properties that watch them, and the theorems.
