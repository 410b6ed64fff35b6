----------------------------- MODULE InputAlarm -----------------------------
(***************************************************************************)
(* Alarms of one input module and the run mode they switch                  *)
(* (input_collector_event.c, RunMode of concentrator_conf.c).               *)
(*                                                                          *)
(* The INPUT_COLLECTOR task polls three functions in turn: digital loops at *)
(* their alarm level, analog loops over their maximum, analog loops under   *)
(* their minimum.  Each (function, loop) is a detector with its own static  *)
(* counter and flag; what they share is the run mode of the device, the set *)
(* of abnormal loops of the module and, for the two analog functions, the   *)
(* saved run mode of the loop.  Meanwhile the server sets the run mode,     *)
(* resets the configuration and reboots the device.                         *)
(***************************************************************************)
EXTENDS Integers

CONSTANTS
  NDetector,    \* number of configured detectors, in polling order
  Kind,         \* the function of each: "digital", "over" or "under"
  Loop,         \* its loop
  ConfirmTimes, \* values the server gives confirm_time
  Zeros,        \* where inputs of 0 can be with respect to their limits and alarm levels
  switch_run_mode,  \* run mode to switch to, 0: none
  resume_run_mode,  \* TRUE: switch back when the alarm clears
  relay_action,     \* TRUE: the alarm switches all relays off
  MaxChange,    \* bound: changes of the inputs
  MaxCommand,   \* bound: run modes and enables set by the server
  MaxConfigure, \* bound: module configurations written by the server
  MaxReboot,    \* bound: reboots
  MaxNoMemory   \* bound: reports lost for want of memory

Detector == 1 .. NDetector
Mode == 1 .. 4      \* RUN_MODE_E: auto, manual, task, stop
BadCrc == -1        \* the EEPROM bytes fail their CRC
Class == {"digital", "analog"}
Value == {"low", "above low", "normal", "below high", "high"}

ClassOf(d) == IF Kind[d] = "digital" THEN "digital" ELSE "analog"
Bit(d) == <<ClassOf(d), Loop[d]>>
Bits == {Bit(d) : d \in Detector}

ASSUME InputAssumption ==
  /\ NDetector \in Nat \ {0}
  /\ Kind \in [Detector -> {"digital", "over", "under"}]
  /\ ConfirmTimes \subseteq [Detector -> 0 .. 255]
  /\ Zeros \subseteq [Bits -> Value]
  /\ switch_run_mode \in [Detector -> Mode \cup {0}]
  /\ resume_run_mode \in [Detector -> BOOLEAN]
  /\ relay_action \in [Detector -> BOOLEAN]
  /\ \A m \in {MaxChange, MaxCommand, MaxConfigure, MaxReboot, MaxNoMemory} : m \in Nat

VARIABLES
  value,          \* the input of each loop
  enabled,        \* the alarm enables of InputCollectorAlarmConfig
  confirm_time,   \* 确认次数: polls that confirm a change of each detector
  at,             \* the detector being polled
  pc,             \* "check", "switch" (between reading and writing RunMode), "record"
  cnt,            \* static s8 cnt
  occur,          \* static u8 occur
  record,         \* static u8 record of the function being polled
  abnormal_loop,  \* d_abnormal_loop and a_abnormal_loop
  last_run_mode,  \* saved run mode of each loop
  RunMode,        \* 0 is no mode at all
  stored,         \* run mode in the EEPROM, or BadCrc
  storedLast,     \* last_run_mode in the EEPROM
  RelayForceSwitchOffAllRelays,
  SysAlarmState,  \* counts reported alarms, lights the alarm LED
  lastReport,     \* history: record_type of the last report of each class, which the server keeps
  overtaken,      \* history: classes with loops the server was told of, taken away by a reset or
                  \* a configuration since
  streak,         \* history: polls in a row that contradict occur
  before,         \* history: RunMode before the first of the alarms that switched it
  changes, commands, configures, reboots, noMemory

config    == <<enabled, confirm_time>>
eeprom    == <<stored, storedLast>>
detectors == <<cnt, occur, abnormal_loop, streak>>
modes     == <<last_run_mode, RunMode, before>>
reporting == <<record, SysAlarmState, lastReport, overtaken>>
bounds    == <<changes, commands, configures, reboots, noMemory>>
place     == <<at, pc>>
vars == <<value, config, place, detectors, modes, eeprom, RelayForceSwitchOffAllRelays,
          reporting, bounds>>

TypeOK ==
  /\ value \in [Bits -> Value]
  /\ enabled \in [Class -> BOOLEAN]
  /\ confirm_time \in [Detector -> 0 .. 255]
  /\ at \in Detector
  /\ pc \in {"check", "switch", "record"}
  /\ cnt \in [Detector -> -128 .. 127]
  /\ occur \in [Detector -> BOOLEAN]
  /\ record \in BOOLEAN
  /\ abnormal_loop \in SUBSET Bits
  /\ last_run_mode \in [Bits -> Mode \cup {0}]
  /\ RunMode \in Mode \cup {0}
  /\ stored \in {BadCrc, 0}
  /\ storedLast \in [Bits -> Mode \cup {0}]
  /\ RelayForceSwitchOffAllRelays \in BOOLEAN
  /\ SysAlarmState \in Nat
  /\ lastReport \in [Class -> {0, 1}]
  /\ overtaken \subseteq Class
  /\ streak \in [Detector -> 0 .. 510]
  /\ before \in Mode \cup {0}
  /\ changes \in 0 .. MaxChange /\ commands \in 0 .. MaxCommand
  /\ configures \in 0 .. MaxConfigure
  /\ reboots \in 0 .. MaxReboot /\ noMemory \in 0 .. MaxNoMemory

-----------------------------------------------------------------------------
(* The conditions of the three functions.  Between "high" and clearing an   *)
(* over-limit alarm there is a margin ("below high"), and for "low" alike.  *)
AlarmValues(d) == IF Kind[d] = "under" THEN {"low"} ELSE {"high"}
ClearValues(d) ==
  CASE Kind[d] = "digital" -> Value \ {"high"}
    [] Kind[d] = "over"    -> Value \ {"high", "below high"}
    [] Kind[d] = "under"   -> Value \ {"low", "above low"}

(* The input contradicts occur, so the counter moves; else it restarts.     *)
ContradictsAlarmOnly(d) == value[Bit(d)] \in AlarmValues(d)
Contradicts(d) == value[Bit(d)] \in (IF occur[d] THEN ClearValues(d) ELSE AlarmValues(d))

(* s8 arithmetic.                                                           *)
S8(n) == ((n + 128) % 256) - 128

CountedNoReset(d) == S8(IF ~Contradicts(d) THEN cnt[d]
                        ELSE IF occur[d] THEN cnt[d] - 1 ELSE cnt[d] + 1)
Counted(d) == IF ~Contradicts(d) THEN 0
              ELSE S8(IF occur[d] THEN cnt[d] - 1 ELSE cnt[d] + 1)

ConfirmedAtZero(d) ==
  /\ Contradicts(d)
  /\ Counted(d) = (IF occur[d] THEN 0 ELSE confirm_time[d])
Confirmed(d) ==
  /\ Contradicts(d)
  /\ Counted(d) = (IF occur[d] THEN -confirm_time[d] ELSE confirm_time[d])

(* Bound of streak, twice the largest u8 confirm_time: no property looks    *)
(* further.                                                                 *)
MaxStreak == 510

(* A function is left, and its report sent, after its last detector.        *)
LastOfFunction(d) == d = NDetector \/ Kind[d + 1] # Kind[d]

(* The handlers and the collecting run in the task, before and after each   *)
(* function, never within one.                                              *)
BetweenFunctions ==
  pc = "check" /\ \A d \in Detector : d = at - 1 => LastOfFunction(d)

FollowingOneShort == IF at >= NDetector - 1 THEN 1 ELSE at + 1
Following == IF at = NDetector THEN 1 ELSE at + 1

Advance ==
  IF LastOfFunction(at) THEN pc' = "record" /\ UNCHANGED at
                        ELSE pc' = "check" /\ at' = Following

Poll(d) ==
  /\ pc = "check" /\ at = d /\ enabled[ClassOf(d)]
  /\ cnt' = [cnt EXCEPT ![d] = Counted(d)]
  /\ streak' = [streak EXCEPT ![d] = IF Confirmed(d) \/ ~Contradicts(d) THEN 0
                                          ELSE IF @ < MaxStreak THEN @ + 1 ELSE @]

(* Nothing is confirmed yet.                                                *)
Count ==
  /\ Poll(at) /\ ~Confirmed(at)
  /\ Advance
  /\ UNCHANGED <<value, config, occur, abnormal_loop, modes, eeprom,
                 RelayForceSwitchOffAllRelays, reporting, bounds>>

(* The alarm is raised; the run mode is read to be saved.                   *)
Switching == {d \in Detector : switch_run_mode[d] # 0}

Saved(d) == IF d \in Switching
            THEN [last_run_mode EXCEPT ![Bit(d)] = RunMode] ELSE last_run_mode

Raise ==
  /\ Poll(at) /\ Confirmed(at) /\ ~occur[at]
  /\ occur' = [occur EXCEPT ![at] = TRUE]
  /\ abnormal_loop' = abnormal_loop \cup {Bit(at)}
  /\ last_run_mode' = Saved(at)
  /\ before' = IF \E d \in Switching : occur[d] THEN before ELSE RunMode
  /\ record' = TRUE
  /\ pc' = "switch"
  /\ UNCHANGED <<value, config, at, RunMode, eeprom, RelayForceSwitchOffAllRelays,
                 SysAlarmState, lastReport, overtaken, bounds>>

(* The run mode is written, and the relays told to switch off.              *)
Switch ==
  /\ pc = "switch"
  /\ RunMode' = IF switch_run_mode[at] # 0 THEN switch_run_mode[at] ELSE RunMode
  /\ RelayForceSwitchOffAllRelays' = (RelayForceSwitchOffAllRelays \/ relay_action[at])
  /\ Advance
  /\ UNCHANGED <<value, config, detectors, last_run_mode, before, eeprom, reporting, bounds>>

(* The alarm clears; the saved run mode is restored when so configured.     *)
RestoredNever(d) == RunMode
Restored(d) ==
  IF switch_run_mode[d] # 0 /\ resume_run_mode[d] THEN last_run_mode[Bit(d)] ELSE RunMode

ClearedBitKept(d) == abnormal_loop
ClearedBit(d) == abnormal_loop \ {Bit(d)}

Clear ==
  /\ Poll(at) /\ Confirmed(at) /\ occur[at]
  /\ occur' = [occur EXCEPT ![at] = FALSE]
  /\ abnormal_loop' = ClearedBit(at)
  /\ RunMode' = Restored(at)
  /\ record' = TRUE
  /\ Advance
  /\ UNCHANGED <<value, config, last_run_mode, before, eeprom,
                 RelayForceSwitchOffAllRelays, SysAlarmState, lastReport, overtaken, bounds>>

(* A function whose alarms are disabled does nothing; its counters stay.    *)
Disabled ==
  /\ pc = "check" /\ ~enabled[ClassOf(at)]
  /\ at' = Following
  /\ UNCHANGED <<value, config, pc, detectors, modes, eeprom,
                 RelayForceSwitchOffAllRelays, reporting, bounds>>

(* The report of the function, sent by PushAlarmReportToAlarmQueue: 1 as    *)
(* long as any loop of the class is abnormal.                               *)
record_typeOfLast == IF Bit(at) \in abnormal_loop THEN 1 ELSE 0
record_type == IF \E b \in abnormal_loop : b[1] = ClassOf(at) THEN 1 ELSE 0

AfterRecord == pc' = "check" /\ at' = Following

NothingToRecord ==
  /\ pc = "record" /\ ~record
  /\ AfterRecord
  /\ UNCHANGED <<value, config, detectors, modes, eeprom, RelayForceSwitchOffAllRelays,
                 reporting, bounds>>

Record ==
  /\ pc = "record" /\ record
  /\ record' = FALSE
  /\ lastReport' = [lastReport EXCEPT ![ClassOf(at)] = record_type]
  /\ overtaken' = overtaken \ {ClassOf(at)}
  /\ SysAlarmState' = IF record_type = 1 THEN SysAlarmState + 1
                      ELSE IF SysAlarmState >= 1 THEN SysAlarmState - 1 ELSE 0
  /\ AfterRecord
  /\ UNCHANGED <<value, config, detectors, modes, eeprom, RelayForceSwitchOffAllRelays,
                 bounds>>

RecordNoMemory ==
  /\ pc = "record" /\ record /\ noMemory < MaxNoMemory
  /\ record' = FALSE
  /\ noMemory' = noMemory + 1
  /\ AfterRecord
  /\ UNCHANGED <<value, config, detectors, modes, eeprom, RelayForceSwitchOffAllRelays,
                 SysAlarmState, lastReport, overtaken, changes, commands, configures, reboots>>

TaskStep == Count \/ Raise \/ Switch \/ Clear \/ Disabled
              \/ NothingToRecord \/ Record \/ RecordNoMemory

-----------------------------------------------------------------------------
(* The rest of the device and its environment.                              *)

(* What the input of a loop can be, as far as its detectors tell.           *)
Inputs(b) == {"normal"} \cup UNION {Value \ ClearValues(d) : d \in {e \in Detector : Bit(e) = b}}

(* The task collects a changed input.                                       *)
Change ==
  /\ changes < MaxChange
  /\ BetweenFunctions
  /\ changes' = changes + 1
  /\ \E b \in Bits : \E v \in Inputs(b) \ {value[b]} : value' = [value EXCEPT ![b] = v]
  /\ UNCHANGED <<config, place, detectors, modes, eeprom, RelayForceSwitchOffAllRelays,
                 reporting, commands, configures, reboots, noMemory>>

(* The server sets the run mode; the CONCENTRATOR task has the higher       *)
(* priority, so it does so between any two steps of the INPUT_COLLECTOR's.  *)
SetRunMode ==
  /\ commands < MaxCommand
  /\ commands' = commands + 1
  /\ RunMode' \in Mode
  /\ UNCHANGED <<value, config, place, detectors, last_run_mode, before, eeprom,
                 RelayForceSwitchOffAllRelays, reporting, changes, configures, reboots, noMemory>>

(* The server enables or disables a class of alarms.                        *)
SetAlarmConfiguration ==
  /\ commands < MaxCommand
  /\ commands' = commands + 1
  /\ BetweenFunctions
  /\ \E c \in Class : enabled' = [enabled EXCEPT ![c] = ~@]
  /\ UNCHANGED <<value, confirm_time, place, detectors, modes, eeprom,
                 RelayForceSwitchOffAllRelays, reporting, changes, configures, reboots, noMemory>>

NewConfirmTimes == confirm_time' \in ConfirmTimes

(* InputCollectorState is cleared: the inputs are 0 until they are          *)
(* collected, and no loop is abnormal.                                      *)
ClearState ==
  /\ abnormal_loop' = {}
  /\ value' \in Zeros
  /\ overtaken' = overtaken \cup {c \in Class : lastReport[c] = 1}

(* The server writes the configuration of the module: its state is cleared, *)
(* the static counters and flags of the functions are not.                  *)
WriteInputCollectorConfig ==
  /\ configures < MaxConfigure
  /\ configures' = configures + 1
  /\ BetweenFunctions
  /\ NewConfirmTimes
  /\ storedLast' = last_run_mode
  /\ ClearState
  /\ UNCHANGED <<enabled, place, cnt, occur, streak, modes, stored,
                 RelayForceSwitchOffAllRelays, record, SysAlarmState, lastReport, changes,
                 commands, reboots, noMemory>>

(* Factory reset: WriteRunMode(1,1) sets the mode to auto and writes the    *)
(* EEPROM, but the byte it writes is that of the local buffer, 0.           *)
WriteRunMode ==
  /\ RunMode' = 1
  /\ stored' = 0

ResetConfigParameters ==
  /\ commands < MaxCommand
  /\ commands' = commands + 1
  /\ WriteRunMode
  /\ UNCHANGED <<value, config, place, detectors, last_run_mode, before, storedLast,
                 RelayForceSwitchOffAllRelays, reporting, changes, configures, reboots, noMemory>>

(* A reset of the processor: static variables start again, ReadRunMode      *)
(* takes the stored mode, or auto when its CRC is wrong, and the saved modes *)
(* are those last written with the configuration.  The alarms are polled    *)
(* before the inputs are collected.  The server is told nothing.            *)
ReadRunMode == RunMode' = IF stored = BadCrc THEN 1 ELSE stored

Reboot ==
  /\ reboots < MaxReboot
  /\ reboots' = reboots + 1
  /\ ReadRunMode
  /\ last_run_mode' = storedLast
  /\ at' = 1 /\ pc' = "check"
  /\ cnt' = [d \in Detector |-> 0]
  /\ occur' = [d \in Detector |-> FALSE]
  /\ streak' = [d \in Detector |-> 0]
  /\ ClearState
  /\ record' = FALSE
  /\ RelayForceSwitchOffAllRelays' = FALSE
  /\ SysAlarmState' = 0
  /\ before' = RunMode'
  /\ UNCHANGED <<config, eeprom, lastReport, changes, commands, configures, noMemory>>

(* RelayCheckForceSwitchOffAllRelays of the RELAY task.                     *)
RelayCheckForce ==
  /\ RelayForceSwitchOffAllRelays
  /\ RelayForceSwitchOffAllRelays' = FALSE
  /\ UNCHANGED <<value, config, place, detectors, modes, eeprom, reporting, bounds>>

-----------------------------------------------------------------------------
Init ==
  /\ value \in Zeros
  /\ enabled = [c \in Class |-> TRUE]
  /\ confirm_time \in ConfirmTimes
  /\ at = 1 /\ pc = "check"
  /\ cnt = [d \in Detector |-> 0]
  /\ occur = [d \in Detector |-> FALSE]
  /\ record = FALSE
  /\ abnormal_loop = {}
  /\ last_run_mode = [b \in Bits |-> 0]
  /\ RunMode = 1
  /\ stored = BadCrc
  /\ storedLast = [b \in Bits |-> 0]
  /\ RelayForceSwitchOffAllRelays = FALSE
  /\ SysAlarmState = 0
  /\ lastReport = [c \in Class |-> 0]
  /\ overtaken = {}
  /\ streak = [d \in Detector |-> 0]
  /\ before = 1
  /\ changes = 0 /\ commands = 0 /\ configures = 0 /\ reboots = 0 /\ noMemory = 0

Next ==
  \/ TaskStep \/ Change \/ SetRunMode \/ SetAlarmConfiguration
  \/ WriteInputCollectorConfig \/ ResetConfigParameters \/ Reboot \/ RelayCheckForce

Spec == Init /\ [][Next]_vars

(* The INPUT_COLLECTOR task runs again and again.                           *)
FairSpec == Spec /\ WF_vars(TaskStep)

-----------------------------------------------------------------------------
(* Properties.                                                              *)

(* An alarm is raised or cleared only after confirm_time polls in a row saw *)
(* the input contradict it: a glitch shorter than that never gets through.  *)
Debounced ==
  [][\A d \in Detector :
       occur'[d] # occur[d] /\ reboots' = reboots => streak[d] + 1 >= confirm_time[d]]_vars

(* ... and after twice as many polls at the latest, the counter having at   *)
(* worst to come back from the confirmation of the opposite.                *)
ConfirmedInTwice == \A d \in Detector : streak[d] < 2 * confirm_time[d]

(* Until a new module configuration clears them, the abnormal loops the     *)
(* reports are made of are those whose alarm is on, for a loop that has one *)
(* alarm only: both limits of an analog loop share its bit, which the first *)
(* to clear takes away from the other.                                      *)
OwnBit(d) == \A e \in Detector \ {d} : Bit(e) # Bit(d)

AbnormalLoopsExact ==
  configures = 0 => \A d \in Detector : OwnBit(d) => (Bit(d) \in abnormal_loop <=> occur[d])

(* Between functions the server, which keeps the last report of each class, *)
(* knows whether the class has abnormal loops, if there was memory for every *)
(* report.  What a reset or a new configuration takes away is not reported: *)
(* such an alarm stands at the server until the next report of its class,   *)
(* and nothing else leaves one standing there.                              *)
LastReportTells ==
  ~record /\ noMemory = 0 =>
    \A c \in Class :
      lastReport[c] = 1 <=> (\E b \in abnormal_loop : b[1] = c) \/ c \in overtaken

(* When the last alarm that switched the run mode clears, the mode is the   *)
(* one from before the first, where each of them is to switch it back:       *)
(* commands of the server, other alarms and configurations come meanwhile.   *)
RunModeRestored ==
  [][(\E d \in Switching : occur[d]) /\ (\A d \in Switching : ~occur'[d])
       /\ reboots' = reboots => RunMode' = before]_vars

(* The run mode is one of RUN_MODE_E: otherwise no command ever reaches a   *)
(* relay, as RelayExecuteActions obeys none in a mode it does not know.     *)
RunModeIsMode == RunMode \in Mode

(* An input that stays at the alarm level is reported in the end, if its    *)
(* class stays enabled.                                                     *)
PersistentAlarmRaised ==
  \A d \in Detector :
    <>[](value[Bit(d)] \in AlarmValues(d) /\ enabled[ClassOf(d)]) => <>[]occur[d]

(* One that stays away from it is reported as cleared in the end.           *)
PersistentClearCleared ==
  \A d \in Detector :
    <>[](value[Bit(d)] \in ClearValues(d) /\ enabled[ClassOf(d)]) => <>[]~occur[d]
=============================================================================
