-------------------------- MODULE InputAlarmProofs --------------------------
(***************************************************************************)
(* Proofs about InputAlarm, for any detectors, limits and configurations:   *)
(* the types, the debouncing, its delay, and the abnormal loops and reports *)
(* of a device whose module configuration is not rewritten.                 *)
(***************************************************************************)
EXTENDS InputAlarm, TLAPS

(* s8 arithmetic stays in s8, and is exact but at its two ends.             *)
Byte == -128 .. 127
Wide == -129 .. 128

LEMMA S8Range ==
  ASSUME NEW n \in Wide
  PROVE  /\ S8(n) \in Byte
         /\ n \in Byte => S8(n) = n
         /\ n = 128 => S8(n) = -128
         /\ n = -129 => S8(n) = 127
<1>1. (n + 128) % 256 = IF n = 128 THEN 0 ELSE IF n = -129 THEN 255 ELSE n + 128
  BY DEF Wide
<1>2. QED BY <1>1 DEF S8, Wide, Byte

(* What a poll leaves in the counter.                                       *)
LEMMA CountedRange ==
  ASSUME TypeOK, NEW d \in Detector
  PROVE  /\ Counted(d) \in -128 .. 127
         /\ ~Contradicts(d) => Counted(d) = 0
         /\ Contradicts(d) /\ occur[d] /\ cnt[d] # -128 => Counted(d) = cnt[d] - 1
         /\ Contradicts(d) /\ occur[d] /\ cnt[d] = -128 => Counted(d) = 127
         /\ Contradicts(d) /\ ~occur[d] /\ cnt[d] # 127 => Counted(d) = cnt[d] + 1
         /\ Contradicts(d) /\ ~occur[d] /\ cnt[d] = 127 => Counted(d) = -128
<1>1. PICK k \in Byte : k = cnt[d]
  BY DEF TypeOK, Byte
<1>2. /\ k - 1 \in Wide /\ (k # -128 => k - 1 \in Byte) /\ (k = -128 => k - 1 = -129)
      /\ k + 1 \in Wide /\ (k # 127 => k + 1 \in Byte) /\ (k = 127 => k + 1 = 128)
  BY DEF Byte, Wide
<1>3. /\ k # -128 => S8(k - 1) = k - 1
      /\ k = -128 => S8(k - 1) = 127
      /\ S8(k - 1) \in Byte
  BY <1>2, S8Range
<1>4. /\ k # 127 => S8(k + 1) = k + 1
      /\ k = 127 => S8(k + 1) = -128
      /\ S8(k + 1) \in Byte
  BY <1>2, S8Range
<1>5. Counted(d) \in Byte
  <2>1. S8(0) = 0 /\ 0 \in Byte
    BY DEF S8, Byte
  <2>2. QED BY <1>1, <1>3, <1>4, <2>1 DEF Counted
<1>6. QED BY <1>1, <1>3, <1>4, <1>5 DEF Counted, Byte

(* A configured detector is one of the module's.                            *)
LEMMA FirstDetector == 1 \in Detector
BY InputAssumption DEF InputAssumption, Detector

(* Polling goes from detector to detector.                                  *)
LEMMA FollowingDetector ==
  ASSUME at \in Detector
  PROVE  Following \in Detector
BY InputAssumption DEF InputAssumption, Detector, Following

(* ... and, at its end, to the report.                                      *)
LEMMA AdvanceType ==
  ASSUME TypeOK, Advance
  PROVE  at' \in Detector /\ pc' \in {"check", "record"}
BY FollowingDetector DEF TypeOK, Advance

(* The loop and the class of a detector are of the module.                  *)
LEMMA BitType == ASSUME NEW d \in Detector PROVE Bit(d) \in Bits /\ ClassOf(d) \in Class
BY DEF Bits, Bit, ClassOf, Class

(* The counters of a polled detector keep their types.                      *)
LEMMA PollType ==
  ASSUME TypeOK, Poll(at)
  PROVE  cnt' \in [Detector -> -128 .. 127] /\ streak' \in [Detector -> 0 .. 510]
<1>1. at \in Detector
  BY DEF TypeOK
<1>2. Counted(at) \in -128 .. 127
  BY <1>1, CountedRange
<1>3. cnt' \in [Detector -> -128 .. 127]
  BY <1>2 DEF TypeOK, Poll
<1>4. ASSUME NEW n \in 0 .. 510
      PROVE  (IF Confirmed(at) \/ ~Contradicts(at) THEN 0
              ELSE IF n < MaxStreak THEN n + 1 ELSE n) \in 0 .. 510
  BY DEF MaxStreak
<1>5. streak[at] \in 0 .. 510
  BY <1>1 DEF TypeOK
<1>6. streak' \in [Detector -> 0 .. 510]
  BY <1>4, <1>5 DEF TypeOK, Poll
<1>7. QED BY <1>3, <1>6

(* A run mode that is restored is a mode, or 0 before the first was saved.  *)
LEMMA RestoredType ==
  ASSUME TypeOK, NEW d \in Detector
  PROVE  Restored(d) \in Mode \cup {0}
BY BitType DEF TypeOK, Restored

(* What the cleared state of the module is.                                 *)
LEMMA ClearedType ==
  ASSUME TypeOK, ClearState
  PROVE  value' \in [Bits -> Value] /\ abnormal_loop' \in SUBSET Bits /\ overtaken' \subseteq Class
BY InputAssumption DEF TypeOK, ClearState, InputAssumption

(* Types: no step of the task, the server or the processor leaves them.     *)
LEMMA TypeInit == Init => TypeOK
<1> SUFFICES ASSUME Init PROVE TypeOK
  OBVIOUS
<1>2. confirm_time \in [Detector -> 0 .. 255]
  BY InputAssumption DEF Init, InputAssumption
<1>3. MaxChange \in Nat /\ MaxCommand \in Nat /\ MaxConfigure \in Nat /\ MaxReboot \in Nat
      /\ MaxNoMemory \in Nat
  BY InputAssumption DEF InputAssumption
<1>4. /\ value \in [Bits -> Value] /\ enabled \in [Class -> BOOLEAN]
      /\ occur \in [Detector -> BOOLEAN] /\ last_run_mode \in [Bits -> Mode \cup {0}]
      /\ storedLast \in [Bits -> Mode \cup {0}] /\ lastReport \in [Class -> {0, 1}]
      /\ overtaken \subseteq Class
  BY InputAssumption DEF Init, InputAssumption
<1>5. cnt \in [Detector -> -128 .. 127] /\ streak \in [Detector -> 0 .. 510]
  BY DEF Init
<1>6. RunMode \in Mode \cup {0} /\ before \in Mode \cup {0} /\ stored \in {BadCrc, 0}
  BY DEF Init, Mode
<1>7. /\ changes \in 0 .. MaxChange /\ commands \in 0 .. MaxCommand
      /\ configures \in 0 .. MaxConfigure
      /\ reboots \in 0 .. MaxReboot /\ noMemory \in 0 .. MaxNoMemory
  BY <1>3 DEF Init
<1>8. /\ at \in Detector /\ pc \in {"check", "switch", "record"} /\ record \in BOOLEAN
      /\ abnormal_loop \in SUBSET Bits /\ RelayForceSwitchOffAllRelays \in BOOLEAN
      /\ SysAlarmState \in Nat
  BY FirstDetector DEF Init
<1>9. QED BY <1>2, <1>4, <1>5, <1>6, <1>7, <1>8 DEF TypeOK

(* Each step of the task, the server and the processor keeps the types.     *)
LEMMA TypeNext == TypeOK /\ [Next]_vars => TypeOK'
<1> SUFFICES ASSUME TypeOK, [Next]_vars PROVE TypeOK'
  OBVIOUS
<1> USE DEF config, eeprom, detectors, modes, reporting, bounds, place
<1>a. at \in Detector
  BY DEF TypeOK
<1>1. CASE Count
  <2>1. cnt' \in [Detector -> -128 .. 127] /\ streak' \in [Detector -> 0 .. 510]
    BY <1>1, PollType DEF Count
  <2>2. at' \in Detector /\ pc' \in {"check", "record"}
    BY <1>1, AdvanceType DEF Count
  <2>3. QED BY <1>1, <2>1, <2>2 DEF Count, TypeOK
<1>2. CASE Raise
  <2>1. cnt' \in [Detector -> -128 .. 127] /\ streak' \in [Detector -> 0 .. 510]
    BY <1>2, PollType DEF Raise
  <2>2. occur' \in [Detector -> BOOLEAN]
    BY <1>2 DEF Raise, TypeOK
  <2>3. last_run_mode' \in [Bits -> Mode \cup {0}]
    BY <1>2, <1>a, BitType DEF Raise, TypeOK, Saved
  <2>4. abnormal_loop' \in SUBSET Bits
    BY <1>2, <1>a, BitType DEF Raise, TypeOK
  <2>5. before' \in Mode \cup {0}
        /\ record' \in BOOLEAN /\ pc' \in {"check", "switch", "record"}
    BY <1>2 DEF Raise, TypeOK
  <2>6. QED BY <1>2, <2>1, <2>2, <2>3, <2>4, <2>5 DEF Raise, TypeOK
<1>3. CASE Switch
  <2>1. at' \in Detector /\ pc' \in {"check", "record"}
    BY <1>3, AdvanceType DEF Switch
  <2>2. RunMode' \in Mode \cup {0}
    BY <1>3, <1>a, InputAssumption DEF Switch, TypeOK, InputAssumption
  <2>3. RelayForceSwitchOffAllRelays' \in BOOLEAN
    BY <1>3 DEF Switch
  <2>4. QED BY <1>3, <2>1, <2>2, <2>3 DEF Switch, TypeOK
<1>4. CASE Clear
  <2>1. cnt' \in [Detector -> -128 .. 127] /\ streak' \in [Detector -> 0 .. 510]
    BY <1>4, PollType DEF Clear
  <2>2. occur' \in [Detector -> BOOLEAN]
    BY <1>4 DEF Clear, TypeOK
  <2>3. RunMode' \in Mode \cup {0}
    BY <1>4, <1>a, RestoredType DEF Clear
  <2>4. abnormal_loop' \in SUBSET Bits
    BY <1>4 DEF Clear, TypeOK, ClearedBit
  <2>5. at' \in Detector /\ pc' \in {"check", "record"}
    BY <1>4, AdvanceType DEF Clear
  <2>6. record' \in BOOLEAN
    BY <1>4 DEF Clear, TypeOK
  <2>7. QED BY <1>4, <2>1, <2>2, <2>3, <2>4, <2>5, <2>6 DEF Clear, TypeOK
<1>5. CASE Disabled
  BY <1>5, <1>a, FollowingDetector DEF Disabled, TypeOK
<1>6. CASE NothingToRecord
  BY <1>6, <1>a, FollowingDetector DEF NothingToRecord, AfterRecord, TypeOK
<1>7. CASE Record
  <2>1. lastReport' \in [Class -> {0, 1}]
    BY <1>7 DEF Record, record_type, TypeOK
  <2>2. SysAlarmState' \in Nat
    BY <1>7 DEF Record, record_type, TypeOK
  <2>3. at' \in Detector /\ pc' = "check" /\ record' \in BOOLEAN
    BY <1>7, <1>a, FollowingDetector DEF Record, AfterRecord
  <2>4. overtaken' \subseteq Class
    BY <1>7 DEF Record, TypeOK
  <2>5. QED BY <1>7, <2>1, <2>2, <2>3, <2>4 DEF Record, TypeOK
<1>8. CASE RecordNoMemory
  <2>1. at' \in Detector /\ pc' = "check" /\ record' \in BOOLEAN
    BY <1>8, <1>a, FollowingDetector DEF RecordNoMemory, AfterRecord
  <2>2. noMemory' \in 0 .. MaxNoMemory
    BY <1>8, InputAssumption DEF RecordNoMemory, TypeOK, InputAssumption
  <2>3. QED BY <1>8, <2>1, <2>2 DEF RecordNoMemory, TypeOK
<1>9. CASE Change
  <2>0. \A b \in Bits : Inputs(b) \subseteq Value
    BY DEF Inputs, Value
  <2>1. value' \in [Bits -> Value]
    BY <1>9, <2>0 DEF Change, TypeOK
  <2>2. changes' \in 0 .. MaxChange
    BY <1>9, InputAssumption DEF Change, TypeOK, InputAssumption
  <2>3. QED BY <1>9, <2>1, <2>2 DEF Change, TypeOK
<1>10. CASE SetRunMode
  <2>1. commands' \in 0 .. MaxCommand
    BY <1>10, InputAssumption DEF SetRunMode, TypeOK, InputAssumption
  <2>2. QED BY <1>10, <2>1 DEF SetRunMode, TypeOK
<1>11. CASE SetAlarmConfiguration
  <2>1. commands' \in 0 .. MaxCommand
    BY <1>11, InputAssumption DEF SetAlarmConfiguration, TypeOK, InputAssumption
  <2>2. enabled' \in [Class -> BOOLEAN]
    BY <1>11 DEF SetAlarmConfiguration, TypeOK
  <2>3. QED BY <1>11, <2>1, <2>2 DEF SetAlarmConfiguration, TypeOK
<1>12. CASE WriteInputCollectorConfig
  <2>1. configures' \in 0 .. MaxConfigure
    BY <1>12, InputAssumption DEF WriteInputCollectorConfig, TypeOK, InputAssumption
  <2>2. confirm_time' \in [Detector -> 0 .. 255]
    BY <1>12, InputAssumption DEF WriteInputCollectorConfig, NewConfirmTimes, InputAssumption
  <2>3. value' \in [Bits -> Value] /\ abnormal_loop' \in SUBSET Bits /\ overtaken' \subseteq Class
    BY <1>12, ClearedType DEF WriteInputCollectorConfig
  <2>4. QED BY <1>12, <2>1, <2>2, <2>3 DEF WriteInputCollectorConfig, TypeOK
<1>13. CASE ResetConfigParameters
  <2>1. commands' \in 0 .. MaxCommand
    BY <1>13, InputAssumption DEF ResetConfigParameters, TypeOK, InputAssumption
  <2>2. RunMode' \in Mode \cup {0} /\ stored' \in {BadCrc, 0}
    BY <1>13 DEF ResetConfigParameters, WriteRunMode, Mode
  <2>3. QED BY <1>13, <2>1, <2>2 DEF ResetConfigParameters, TypeOK
<1>14. CASE Reboot
  <2>1. RunMode' \in Mode \cup {0} /\ before' \in Mode \cup {0}
    BY <1>14 DEF Reboot, ReadRunMode, TypeOK, Mode, BadCrc
  <2>2. reboots' \in 0 .. MaxReboot
    BY <1>14, InputAssumption DEF Reboot, TypeOK, InputAssumption
  <2>3. occur' \in [Detector -> BOOLEAN]
    BY <1>14 DEF Reboot
  <2>4. cnt' \in [Detector -> -128 .. 127] /\ streak' \in [Detector -> 0 .. 510]
    BY <1>14 DEF Reboot
  <2>5. value' \in [Bits -> Value] /\ abnormal_loop' \in SUBSET Bits /\ overtaken' \subseteq Class
    BY <1>14, ClearedType DEF Reboot
  <2>6. QED BY <1>14, <2>1, <2>2, <2>3, <2>4, <2>5, FirstDetector DEF Reboot, TypeOK
<1>15. CASE RelayCheckForce
  BY <1>15 DEF RelayCheckForce, TypeOK
<1>16. CASE UNCHANGED vars
  BY <1>16 DEF vars, TypeOK
<1>17. QED
  BY <1>1, <1>2, <1>3, <1>4, <1>5, <1>6, <1>7, <1>8, <1>9, <1>10, <1>11, <1>12, <1>13,
     <1>14, <1>15, <1>16 DEF Next, TaskStep

(* In every state the counters fit in s8, the detector polled is one of the *)
(* module's and each set, flag and mode is of its type.                     *)
THEOREM TypeCorrect == Spec => []TypeOK
BY TypeInit, TypeNext, PTL DEF Spec

-----------------------------------------------------------------------------
(* The numbers of one detector, as inequalities.                            *)
LEMMA CounterTypes ==
  ASSUME TypeOK, NEW d \in Detector
  PROVE  /\ cnt[d] \in Int /\ -128 <= cnt[d] /\ cnt[d] <= 127
         /\ streak[d] \in Int /\ 0 <= streak[d] /\ streak[d] <= 510
         /\ confirm_time[d] \in Int /\ 0 <= confirm_time[d] /\ confirm_time[d] <= 255
<1>1. cnt[d] \in -128 .. 127 /\ streak[d] \in 0 .. 510 /\ confirm_time[d] \in 0 .. 255
  BY DEF TypeOK
<1>2. \A n \in -128 .. 127 : n \in Int /\ -128 <= n /\ n <= 127
  OBVIOUS
<1>3. \A n \in 0 .. 510 : n \in Int /\ 0 <= n /\ n <= 510
  OBVIOUS
<1>4. \A n \in 0 .. 255 : n \in Int /\ 0 <= n /\ n <= 255
  OBVIOUS
<1>5. QED BY <1>1, <1>2, <1>3, <1>4

(* Only the polls and a reboot touch the counters and the flags.            *)
LEMMA CounterCases ==
  ASSUME [Next]_vars
  PROVE  Count \/ Raise \/ Clear \/ Reboot \/ UNCHANGED <<cnt, occur, streak>>
BY DEF Next, TaskStep, Switch, Disabled, NothingToRecord, Record, RecordNoMemory, Change,
       SetRunMode, SetAlarmConfiguration, WriteInputCollectorConfig, ResetConfigParameters,
       RelayCheckForce, vars, detectors

(* What a poll does to the counters of the detector polled, and only there. *)
LEMMA PollFacts ==
  ASSUME TypeOK, Poll(at), NEW d \in Detector
  PROVE  /\ cnt'[d] = IF d = at THEN Counted(d) ELSE cnt[d]
         /\ d # at => streak'[d] = streak[d]
         /\ Confirmed(at) \/ ~Contradicts(at) => streak'[at] = 0
         /\ streak'[at] \in 0 .. streak[at] + 1
         /\ ~Confirmed(at) /\ Contradicts(at) /\ streak[at] < 510 =>
              streak'[at] = streak[at] + 1
<1>1. at \in Detector /\ streak[at] \in 0 .. 510
  BY DEF TypeOK
<1>2. streak'[at] = IF Confirmed(at) \/ ~Contradicts(at) THEN 0
                    ELSE IF streak[at] < MaxStreak THEN streak[at] + 1 ELSE streak[at]
  BY <1>1 DEF Poll, TypeOK
<1>3. cnt'[d] = IF d = at THEN Counted(d) ELSE cnt[d]
  BY <1>1 DEF Poll, TypeOK
<1>4. d # at => streak'[d] = streak[d]
  BY <1>1 DEF Poll, TypeOK
<1>5. QED BY <1>1, <1>2, <1>3, <1>4 DEF MaxStreak

(* A counter has moved no further than the polls that contradicted occur.   *)
DebounceInv ==
  \A d \in Detector : IF occur[d] THEN cnt[d] >= -streak[d] ELSE cnt[d] <= streak[d]

(* The counters start at 0.                                                 *)
LEMMA DebounceInit == Init => DebounceInv
BY DEF Init, DebounceInv

(* A poll moves the counter and streak together, or restarts both; a        *)
(* wrapped counter is on the safe side.                                     *)
LEMMA DebounceNext == TypeOK /\ DebounceInv /\ [Next]_vars => DebounceInv'
<1> SUFFICES ASSUME TypeOK, DebounceInv, [Next]_vars, NEW d \in Detector
             PROVE  IF occur'[d] THEN cnt'[d] >= -streak'[d] ELSE cnt'[d] <= streak'[d]
  BY DEF DebounceInv
<1>a. /\ cnt[d] \in Int /\ -128 <= cnt[d] /\ cnt[d] <= 127
      /\ streak[d] \in Int /\ 0 <= streak[d] /\ streak[d] <= 510
      /\ confirm_time[d] \in Int /\ 0 <= confirm_time[d]
      /\ at \in Detector
  BY CounterTypes DEF TypeOK
<1>b. /\ occur[d] => cnt[d] >= -streak[d]
      /\ ~occur[d] => cnt[d] <= streak[d]
  BY DEF DebounceInv
<1>1. CASE Count
  <2>1. Poll(at) /\ ~Confirmed(at) /\ occur' = occur
    BY <1>1 DEF Count
  <2>2. CASE d # at
    BY <1>a, <1>b, <2>1, <2>2, PollFacts
  <2>3. CASE d = at /\ ~Contradicts(at)
    BY <1>a, <2>1, <2>3, PollFacts, CountedRange
  <2>4. CASE d = at /\ Contradicts(at) /\ occur[at]
    <3>1. (cnt[d] # -128 => cnt'[d] = cnt[d] - 1) /\ (cnt[d] = -128 => cnt'[d] = 127)
      BY <2>1, <2>4, PollFacts, CountedRange
    <3>2. streak[d] < 510 => streak'[d] = streak[d] + 1
      BY <2>1, <2>4, PollFacts
    <3>3. streak[d] = 510 => streak'[d] = 510
      BY <1>a, <2>1, <2>4 DEF Poll, TypeOK, MaxStreak
    <3>4. cnt[d] >= -streak[d] /\ occur'[d]
      BY <1>b, <2>1, <2>4
    <3>5. cnt'[d] >= -streak'[d]
      BY <1>a, <3>1, <3>2, <3>3, <3>4
    <3>6. QED BY <3>4, <3>5
  <2>5. CASE d = at /\ Contradicts(at) /\ ~occur[at]
    <3>1. (cnt[d] # 127 => cnt'[d] = cnt[d] + 1) /\ (cnt[d] = 127 => cnt'[d] = -128)
      BY <2>1, <2>5, PollFacts, CountedRange
    <3>2. streak[d] < 510 => streak'[d] = streak[d] + 1
      BY <2>1, <2>5, PollFacts
    <3>3. streak[d] = 510 => streak'[d] = 510
      BY <1>a, <2>1, <2>5 DEF Poll, TypeOK, MaxStreak
    <3>4. cnt[d] <= streak[d] /\ ~occur'[d]
      BY <1>b, <2>1, <2>5
    <3>5. cnt'[d] <= streak'[d]
      BY <1>a, <3>1, <3>2, <3>3, <3>4
    <3>6. QED BY <3>4, <3>5
  <2>6. QED BY <2>2, <2>3, <2>4, <2>5
<1>2. CASE Raise
  <2>1. Poll(at) /\ Confirmed(at) /\ ~occur[at] /\ occur' = [occur EXCEPT ![at] = TRUE]
    BY <1>2 DEF Raise
  <2>2. d # at => cnt'[d] = cnt[d] /\ streak'[d] = streak[d] /\ occur'[d] = occur[d]
    BY <2>1, PollFacts DEF TypeOK
  <2>3. d = at => cnt'[d] = confirm_time[d] /\ streak'[d] = 0 /\ occur'[d]
    BY <1>a, <2>1, PollFacts DEF TypeOK, Confirmed
  <2>4. QED BY <1>a, <1>b, <2>2, <2>3
<1>3. CASE Clear
  <2>1. Poll(at) /\ Confirmed(at) /\ occur[at] /\ occur' = [occur EXCEPT ![at] = FALSE]
    BY <1>3 DEF Clear
  <2>2. d # at => cnt'[d] = cnt[d] /\ streak'[d] = streak[d] /\ occur'[d] = occur[d]
    BY <2>1, PollFacts DEF TypeOK
  <2>3. d = at => cnt'[d] = -confirm_time[d] /\ streak'[d] = 0 /\ ~occur'[d]
    BY <1>a, <2>1, PollFacts DEF TypeOK, Confirmed
  <2>4. QED BY <1>a, <1>b, <2>2, <2>3
<1>4. CASE Reboot
  BY <1>4 DEF Reboot
<1>5. CASE UNCHANGED <<cnt, occur, streak>>
  BY <1>5, <1>b
<1>6. QED BY <1>1, <1>2, <1>3, <1>4, <1>5, CounterCases

(* A step that changes a flag comes after enough contradicting polls.       *)
LEMMA DebounceStep ==
  ASSUME TypeOK, DebounceInv, [Next]_vars, NEW d \in Detector,
         occur'[d] # occur[d], reboots' = reboots
  PROVE  streak[d] + 1 >= confirm_time[d]
<1>a. /\ cnt[d] \in Int /\ -128 <= cnt[d] /\ cnt[d] <= 127
      /\ streak[d] \in Int /\ 0 <= streak[d] /\ streak[d] <= 510
      /\ confirm_time[d] \in Int /\ 0 <= confirm_time[d]
      /\ at \in Detector /\ reboots \in Int
  BY CounterTypes DEF TypeOK
<1>b. /\ occur[d] => cnt[d] >= -streak[d]
      /\ ~occur[d] => cnt[d] <= streak[d]
  BY DEF DebounceInv
<1>1. CASE Raise
  <2>1. Confirmed(at) /\ ~occur[at] /\ occur' = [occur EXCEPT ![at] = TRUE]
    BY <1>1 DEF Raise
  <2>2. d = at
    BY <2>1 DEF TypeOK
  <2>3. Contradicts(d) /\ Counted(d) = confirm_time[d]
    BY <2>1, <2>2 DEF Confirmed
  <2>4. /\ cnt[d] # 127 => Counted(d) = cnt[d] + 1
        /\ cnt[d] = 127 => Counted(d) = -128
        /\ cnt[d] <= streak[d]
    BY <1>a, <1>b, <2>1, <2>2, <2>3, CountedRange
  <2>5. QED BY <1>a, <2>3, <2>4
<1>2. CASE Clear
  <2>1. Confirmed(at) /\ occur[at] /\ occur' = [occur EXCEPT ![at] = FALSE]
    BY <1>2 DEF Clear
  <2>2. d = at
    BY <2>1 DEF TypeOK
  <2>3. Contradicts(d) /\ Counted(d) = -confirm_time[d]
    BY <2>1, <2>2 DEF Confirmed
  <2>4. /\ cnt[d] # -128 => Counted(d) = cnt[d] - 1
        /\ cnt[d] = -128 => Counted(d) = 127
        /\ cnt[d] >= -streak[d]
    BY <1>a, <1>b, <2>1, <2>2, <2>3, CountedRange
  <2>5. QED BY <1>a, <2>3, <2>4
<1>3. CASE Reboot
  BY <1>3, <1>a DEF Reboot
<1>4. CASE Count
  BY <1>4 DEF Count
<1>5. CASE UNCHANGED <<cnt, occur, streak>>
  BY <1>5
<1>6. QED BY <1>1, <1>2, <1>3, <1>4, <1>5, CounterCases

(* No input shorter than confirm_time polls raises or clears an alarm,      *)
(* whatever the server writes into the configuration meanwhile.             *)
THEOREM DebouncedAlways == Spec => Debounced
<1>1. TypeOK /\ DebounceInv /\ [Next]_vars =>
        [\A d \in Detector :
           occur'[d] # occur[d] /\ reboots' = reboots => streak[d] + 1 >= confirm_time[d]]_vars
  BY DebounceStep
<1>2. QED BY <1>1, TypeInit, TypeNext, DebounceInit, DebounceNext, PTL DEF Spec, Debounced

-----------------------------------------------------------------------------
(* confirm_time between 1 and 127, and never written anew: outside this the *)
(* counter can miss confirm_time: one of 200, or one it has already passed.  *)
ConfirmFixed ==
  /\ \A f, g \in ConfirmTimes : f = g
  /\ \A f \in ConfirmTimes : \A d \in Detector : 1 <= f[d] /\ f[d] <= 127

(* The counter of a detector is within confirm_time of 0, and the polls     *)
(* that contradict occur are those it has come since the last confirmation. *)
BoundInv ==
  /\ confirm_time \in ConfirmTimes
  /\ \A d \in Detector :
       /\ occur[d] => /\ -confirm_time[d] < cnt[d] /\ cnt[d] <= confirm_time[d]
                      /\ streak[d] <= confirm_time[d] - cnt[d]
       /\ ~occur[d] => /\ -confirm_time[d] <= cnt[d] /\ cnt[d] < confirm_time[d]
                       /\ streak[d] <= cnt[d] + confirm_time[d]

(* With a single value to write, writing the configuration changes nothing. *)
LEMMA ConfirmTimeFixed ==
  ASSUME ConfirmFixed, confirm_time \in ConfirmTimes, [Next]_vars
  PROVE  confirm_time' = confirm_time
<1>1. confirm_time' = confirm_time \/ WriteInputCollectorConfig
  BY DEF Next, TaskStep, Count, Raise, Switch, Clear, Disabled, NothingToRecord, Record,
     RecordNoMemory, Change, SetRunMode, SetAlarmConfiguration, ResetConfigParameters,
     Reboot, RelayCheckForce, vars, config
<1>2. QED BY <1>1 DEF WriteInputCollectorConfig, NewConfirmTimes, ConfirmFixed

(* The bounds hold of counters at 0.                                        *)
LEMMA BoundInit == ASSUME ConfirmFixed PROVE Init => TypeOK /\ BoundInv
<1> SUFFICES ASSUME Init PROVE TypeOK /\ BoundInv
  OBVIOUS
<1>1. TypeOK /\ confirm_time \in ConfirmTimes
  BY TypeInit DEF Init
<1>2. SUFFICES ASSUME NEW d \in Detector
               PROVE  /\ ~occur[d] /\ -confirm_time[d] <= cnt[d] /\ cnt[d] < confirm_time[d]
                      /\ streak[d] <= cnt[d] + confirm_time[d]
  BY <1>1 DEF BoundInv
<1>3. cnt[d] = 0 /\ streak[d] = 0 /\ ~occur[d]
  BY DEF Init
<1>4. confirm_time[d] \in Int /\ 1 <= confirm_time[d]
  BY <1>1, CounterTypes DEF ConfirmFixed
<1>5. QED BY <1>3, <1>4

(* A counter one short of confirm_time is confirmed by the next poll, so it *)
(* never passes it; a confirmation starts the way to the opposite one.      *)
LEMMA BoundNext ==
  ASSUME ConfirmFixed
  PROVE  TypeOK /\ BoundInv /\ [Next]_vars => TypeOK' /\ BoundInv'
<1> SUFFICES ASSUME TypeOK, BoundInv, [Next]_vars PROVE TypeOK' /\ BoundInv'
  OBVIOUS
<1>1. TypeOK' /\ confirm_time' = confirm_time /\ confirm_time' \in ConfirmTimes
  BY TypeNext, ConfirmTimeFixed DEF BoundInv
<1>2. SUFFICES
        ASSUME NEW d \in Detector
        PROVE  /\ occur'[d] => /\ -confirm_time[d] < cnt'[d] /\ cnt'[d] <= confirm_time[d]
                               /\ streak'[d] <= confirm_time[d] - cnt'[d]
               /\ ~occur'[d] => /\ -confirm_time[d] <= cnt'[d] /\ cnt'[d] < confirm_time[d]
                                /\ streak'[d] <= cnt'[d] + confirm_time[d]
  BY <1>1 DEF BoundInv
<1>a. /\ cnt[d] \in Int /\ streak[d] \in Int /\ 0 <= streak[d] /\ streak[d] <= 510
      /\ confirm_time[d] \in Int /\ 1 <= confirm_time[d] /\ confirm_time[d] <= 127
      /\ at \in Detector
  BY CounterTypes DEF BoundInv, ConfirmFixed, TypeOK
<1>b. /\ occur[d] => /\ -confirm_time[d] < cnt[d] /\ cnt[d] <= confirm_time[d]
                     /\ streak[d] <= confirm_time[d] - cnt[d]
      /\ ~occur[d] => /\ -confirm_time[d] <= cnt[d] /\ cnt[d] < confirm_time[d]
                      /\ streak[d] <= cnt[d] + confirm_time[d]
  BY DEF BoundInv
<1>c. CASE d # at /\ Poll(at) /\ occur'[d] = occur[d]
  BY <1>b, <1>c, PollFacts
<1>3. CASE Count
  <2>1. Poll(at) /\ ~Confirmed(at) /\ occur' = occur
    BY <1>3 DEF Count
  <2>2. CASE d = at /\ ~Contradicts(d)
    <3>1. cnt'[d] = 0 /\ streak'[d] = 0
      BY <2>1, <2>2, PollFacts, CountedRange
    <3>2. QED BY <1>a, <3>1
  <2>3. CASE d = at /\ Contradicts(d) /\ occur[d]
    <3>1. cnt[d] # -128
      BY <1>a, <1>b, <2>3
    <3>2. cnt'[d] = cnt[d] - 1
      BY <2>1, <2>3, <3>1, PollFacts, CountedRange
    <3>3. cnt[d] - 1 # -confirm_time[d]
      BY <2>1, <2>3, <3>1, CountedRange DEF Confirmed
    <3>4. streak'[d] \in Int /\ streak'[d] <= streak[d] + 1
      BY <1>a, <2>1, <2>3, PollFacts
    <3>5. occur'[d] /\ -confirm_time[d] < cnt[d] /\ cnt[d] <= confirm_time[d]
          /\ streak[d] <= confirm_time[d] - cnt[d]
      BY <1>a, <1>b, <2>1, <2>3
    <3>6. QED BY <1>a, <3>2, <3>3, <3>4, <3>5
  <2>4. CASE d = at /\ Contradicts(d) /\ ~occur[d]
    <3>1. cnt[d] # 127
      BY <1>a, <1>b, <2>4
    <3>2. cnt'[d] = cnt[d] + 1
      BY <2>1, <2>4, <3>1, PollFacts, CountedRange
    <3>3. cnt[d] + 1 # confirm_time[d]
      BY <2>1, <2>4, <3>1, CountedRange DEF Confirmed
    <3>4. streak'[d] \in Int /\ streak'[d] <= streak[d] + 1
      BY <1>a, <2>1, <2>4, PollFacts
    <3>5. ~occur'[d] /\ -confirm_time[d] <= cnt[d] /\ cnt[d] < confirm_time[d]
          /\ streak[d] <= cnt[d] + confirm_time[d]
      BY <1>b, <2>1, <2>4
    <3>6. QED BY <1>a, <3>2, <3>3, <3>4, <3>5
  <2>5. QED BY <1>c, <2>1, <2>2, <2>3, <2>4
<1>4. CASE Raise
  <2>1. Poll(at) /\ Confirmed(at) /\ ~occur[at] /\ occur' = [occur EXCEPT ![at] = TRUE]
    BY <1>4 DEF Raise
  <2>2. d # at => occur'[d] = occur[d]
    BY <2>1 DEF TypeOK
  <2>3. CASE d = at
    <3>1. cnt'[d] = confirm_time[d] /\ streak'[d] = 0 /\ occur'[d]
      BY <1>a, <2>1, <2>3, PollFacts DEF TypeOK, Confirmed
    <3>2. QED BY <1>a, <3>1
  <2>4. QED BY <1>c, <2>1, <2>2, <2>3
<1>5. CASE Clear
  <2>1. Poll(at) /\ Confirmed(at) /\ occur[at] /\ occur' = [occur EXCEPT ![at] = FALSE]
    BY <1>5 DEF Clear
  <2>2. d # at => occur'[d] = occur[d]
    BY <2>1 DEF TypeOK
  <2>3. CASE d = at
    <3>1. cnt'[d] = -confirm_time[d] /\ streak'[d] = 0 /\ ~occur'[d]
      BY <1>a, <2>1, <2>3, PollFacts DEF TypeOK, Confirmed
    <3>2. QED BY <1>a, <3>1
  <2>4. QED BY <1>c, <2>1, <2>2, <2>3
<1>6. CASE Reboot
  <2>1. cnt'[d] = 0 /\ streak'[d] = 0 /\ ~occur'[d]
    BY <1>6 DEF Reboot
  <2>2. QED BY <1>a, <2>1
<1>7. CASE UNCHANGED <<cnt, occur, streak>>
  BY <1>7, <1>b
<1>8. QED BY <1>3, <1>4, <1>5, <1>6, <1>7, CounterCases

(* A change of an input that lasts is confirmed before the polls that see   *)
(* it are twice confirm_time, for any confirm_time a signed counter holds.  *)
THEOREM ConfirmedInTwiceAlways ==
  ASSUME ConfirmFixed PROVE Spec => []ConfirmedInTwice
<1>1. TypeOK /\ BoundInv => ConfirmedInTwice
  <2> SUFFICES ASSUME TypeOK, BoundInv, NEW d \in Detector
               PROVE  streak[d] < 2 * confirm_time[d]
    BY DEF ConfirmedInTwice
  <2>1. cnt[d] \in Int /\ streak[d] \in Int /\ confirm_time[d] \in Int
    BY CounterTypes
  <2>2. CASE occur[d]
    <3>1. -confirm_time[d] < cnt[d] /\ streak[d] <= confirm_time[d] - cnt[d]
      BY <2>2 DEF BoundInv
    <3>2. QED BY <2>1, <3>1
  <2>3. CASE ~occur[d]
    <3>1. cnt[d] < confirm_time[d] /\ streak[d] <= cnt[d] + confirm_time[d]
      BY <2>3 DEF BoundInv
    <3>2. QED BY <2>1, <3>1
  <2>4. QED BY <2>2, <2>3
<1>2. Init => TypeOK /\ BoundInv
  BY BoundInit
<1>3. TypeOK /\ BoundInv /\ [Next]_vars => (TypeOK /\ BoundInv)'
  BY BoundNext
<1>4. QED BY <1>1, <1>2, <1>3, PTL DEF Spec

-----------------------------------------------------------------------------
(* Only polls, a reboot and a new module configuration touch the abnormal   *)
(* loops.                                                                   *)
LEMMA LoopCases ==
  ASSUME TypeOK, [Next]_vars, configures' = 0
  PROVE  Raise \/ Clear \/ Reboot \/ UNCHANGED <<occur, abnormal_loop>>
<1>1. ~WriteInputCollectorConfig
  BY DEF WriteInputCollectorConfig, TypeOK
<1>2. QED
  BY <1>1 DEF Next, TaskStep, Count, Switch, Disabled, NothingToRecord, Record,
     RecordNoMemory, Change, SetRunMode, SetAlarmConfiguration, ResetConfigParameters,
     RelayCheckForce, vars, detectors

(* Configurations are counted, never taken back.                            *)
LEMMA ConfiguresGrow ==
  ASSUME TypeOK, [Next]_vars, configures' = 0
  PROVE  configures = 0
BY DEF TypeOK, Next, TaskStep, Count, Raise, Switch, Clear, Disabled, NothingToRecord,
   Record, RecordNoMemory, Change, SetRunMode, SetAlarmConfiguration,
   WriteInputCollectorConfig, ResetConfigParameters, Reboot, RelayCheckForce, vars, bounds

(* As long as the configuration is not rewritten, an abnormal loop the      *)
(* server is told of is exactly one whose alarm is on, if it has one alarm. *)
THEOREM AbnormalLoopsAlwaysExact == Spec => []AbnormalLoopsExact
<1>1. Init => AbnormalLoopsExact
  BY DEF Init, AbnormalLoopsExact
<1>2. TypeOK /\ AbnormalLoopsExact /\ [Next]_vars => AbnormalLoopsExact'
  <2> SUFFICES ASSUME TypeOK, AbnormalLoopsExact, [Next]_vars, configures' = 0,
                      NEW d \in Detector, OwnBit(d)
               PROVE  Bit(d) \in abnormal_loop' <=> occur'[d]
    BY DEF AbnormalLoopsExact, OwnBit, Bit, ClassOf
  <2>a. at \in Detector /\ occur \in [Detector -> BOOLEAN]
    BY DEF TypeOK
  <2>b. Bit(d) \in abnormal_loop <=> occur[d]
    BY ConfiguresGrow DEF AbnormalLoopsExact
  <2>c. at # d => Bit(at) # Bit(d)
    BY <2>a DEF OwnBit
  <2>1. CASE Raise
    <3>1. occur' = [occur EXCEPT ![at] = TRUE] /\ abnormal_loop' = abnormal_loop \cup {Bit(at)}
      BY <2>1 DEF Raise
    <3>2. QED BY <2>a, <2>b, <2>c, <3>1
  <2>2. CASE Clear
    <3>1. occur' = [occur EXCEPT ![at] = FALSE] /\ abnormal_loop' = abnormal_loop \ {Bit(at)}
      BY <2>2 DEF Clear, ClearedBit
    <3>2. QED BY <2>a, <2>b, <2>c, <3>1
  <2>3. CASE Reboot
    BY <2>3 DEF Reboot, ClearState
  <2>4. CASE UNCHANGED <<occur, abnormal_loop>>
    BY <2>4, <2>b
  <2>5. QED BY <2>1, <2>2, <2>3, <2>4, LoopCases
<1>3. QED BY <1>1, <1>2, TypeInit, TypeNext, PTL DEF Spec

-----------------------------------------------------------------------------
(* A class whose alarm the server is to have.                               *)
Standing(c) == (\E b \in abnormal_loop : b[1] = c) \/ c \in overtaken

(* The class of the function being polled is left to be reported while      *)
(* record is set, which it is only within a function of an enabled class;   *)
(* the other class, or both while it is not set, has been reported.         *)
ReportInv ==
  /\ record /\ pc = "check" =>
       /\ enabled[ClassOf(at)]
       /\ ~BetweenFunctions
  /\ pc = "switch" => record /\ enabled[ClassOf(at)]
  /\ \A c \in overtaken : lastReport[c] = 1
  /\ noMemory = 0 =>
       \A c \in Class : ~record \/ c # ClassOf(at) => (lastReport[c] = 1 <=> Standing(c))

(* Polling goes on in the same function, or ends with its report.           *)
LEMMA AdvanceFacts ==
  ASSUME TypeOK, Advance
  PROVE  /\ pc' = "record" => at' = at
         /\ pc' # "record" => /\ pc' = "check"
                              /\ at' = at + 1 /\ at + 1 \in Detector
                              /\ ~LastOfFunction(at)
                              /\ ClassOf(at') = ClassOf(at)
<1>1. at \in Detector
  BY DEF TypeOK
<1>2. CASE LastOfFunction(at)
  BY <1>2 DEF Advance
<1>3. CASE ~LastOfFunction(at)
  <2>1. pc' = "check" /\ at' = Following
    BY <1>3 DEF Advance
  <2>2. at # NDetector /\ Kind[at + 1] = Kind[at]
    BY <1>3 DEF LastOfFunction
  <2>3. at' = at + 1 /\ at + 1 \in Detector
    BY <1>1, <2>1, <2>2, InputAssumption DEF Following, Detector, InputAssumption
  <2>4. QED BY <1>3, <2>1, <2>2, <2>3 DEF ClassOf
<1>4. QED BY <1>2, <1>3

(* Only a report, the loops and a reboot matter to what has been reported.  *)
LEMMA ReportCases ==
  ASSUME TypeOK, [Next]_vars
  PROVE  \/ Count \/ Raise \/ Switch \/ Clear \/ Disabled \/ NothingToRecord \/ Record
         \/ RecordNoMemory \/ SetAlarmConfiguration \/ WriteInputCollectorConfig \/ Reboot
         \/ UNCHANGED <<at, pc, record, enabled, lastReport, overtaken, abnormal_loop, noMemory>>
BY DEF Next, TaskStep, Change, SetRunMode, ResetConfigParameters, RelayCheckForce,
   vars, config, place, detectors, reporting, bounds

(* A step that polls on keeps what has been reported of the other class.    *)
LEMMA PollingOn ==
  ASSUME TypeOK, ReportInv, Advance, enabled[ClassOf(at)],
         UNCHANGED <<enabled, lastReport, overtaken, noMemory>>,
         record => record',
         \A c \in Class : c # ClassOf(at) \/ ~record' =>
           ((\E b \in abnormal_loop' : b[1] = c) <=> \E b \in abnormal_loop : b[1] = c)
  PROVE  ReportInv'
<1>1. CASE pc' = "record"
  <2>1. at' = at
    BY <1>1, AdvanceFacts
  <2>2. ClassOf(at') = ClassOf(at)
    BY <2>1
  <2>3. \A c \in Class : noMemory = 0 /\ (~record' \/ c # ClassOf(at)) =>
          (lastReport'[c] = 1 <=> Standing(c)')
    BY DEF ReportInv, Standing
  <2>4. QED BY <1>1, <2>1, <2>2, <2>3 DEF ReportInv, ClassOf
<1>2. CASE pc' # "record"
  <2>1. pc' = "check" /\ at' = at + 1 /\ ~LastOfFunction(at) /\ ClassOf(at') = ClassOf(at)
    BY <1>2, AdvanceFacts
  <2>2. ~BetweenFunctions'
    <3>1. at \in Detector /\ at = at' - 1
      BY <2>1 DEF TypeOK, Detector
    <3>2. QED BY <2>1, <3>1 DEF BetweenFunctions, LastOfFunction
  <2>3. \A c \in Class : noMemory = 0 /\ (~record' \/ c # ClassOf(at)) =>
          (lastReport'[c] = 1 <=> Standing(c)')
    BY DEF ReportInv, Standing
  <2>4. QED BY <1>2, <2>1, <2>2, <2>3 DEF ReportInv, ClassOf
<1>3. QED BY <1>1, <1>2

(* Each step keeps the account of what has been reported.                   *)
LEMMA ReportNext ==
  ASSUME TypeOK, ReportInv, [Next]_vars
  PROVE  ReportInv'
<1>a. at \in Detector /\ ClassOf(at) \in Class /\ record \in BOOLEAN
  BY BitType DEF TypeOK
<1>1. CASE Count
  <2>1. Advance /\ enabled[ClassOf(at)]
    BY <1>1 DEF Count, Poll
  <2>2. UNCHANGED <<enabled, record, lastReport, overtaken, abnormal_loop, noMemory>>
    BY <1>1 DEF Count, config, reporting, bounds
  <2>3. QED BY <2>1, <2>2, PollingOn
<1>2. CASE Raise
  <2>1. /\ pc' = "switch" /\ record' = TRUE /\ at' = at /\ enabled[ClassOf(at)]
        /\ UNCHANGED <<enabled, lastReport, overtaken, noMemory>>
        /\ abnormal_loop' = abnormal_loop \cup {Bit(at)}
    BY <1>2 DEF Raise, Poll, config, bounds
  <2>2. \A c \in Class : c # ClassOf(at) =>
          ((\E b \in abnormal_loop' : b[1] = c) <=> \E b \in abnormal_loop : b[1] = c)
    BY <2>1 DEF Bit
  <2>3. QED BY <2>1, <2>2 DEF ReportInv, ClassOf, Standing
<1>3. CASE Switch
  <2>1. Advance /\ record /\ enabled[ClassOf(at)]
    BY <1>3 DEF Switch, ReportInv
  <2>2. UNCHANGED <<enabled, record, lastReport, overtaken, abnormal_loop, noMemory>>
    BY <1>3 DEF Switch, config, detectors, reporting, bounds
  <2>3. QED BY <2>1, <2>2, PollingOn
<1>4. CASE Clear
  <2>1. /\ Advance /\ enabled[ClassOf(at)] /\ record' = TRUE
        /\ UNCHANGED <<enabled, lastReport, overtaken, noMemory>>
        /\ abnormal_loop' = abnormal_loop \ {Bit(at)}
    BY <1>4 DEF Clear, Poll, config, bounds, ClearedBit
  <2>2. \A c \in Class : c # ClassOf(at) =>
          ((\E b \in abnormal_loop' : b[1] = c) <=> \E b \in abnormal_loop : b[1] = c)
    BY <2>1 DEF Bit
  <2>3. QED BY <2>1, <2>2, PollingOn
<1>5. CASE Disabled
  <2>1. ~record /\ pc' = "check"
    BY <1>5 DEF Disabled, ReportInv
  <2>2. UNCHANGED <<enabled, record, lastReport, overtaken, abnormal_loop, noMemory>>
    BY <1>5 DEF Disabled, config, detectors, reporting, bounds
  <2>3. QED BY <1>5, <2>1, <2>2 DEF Disabled, ReportInv, Standing
<1>6. CASE NothingToRecord
  <2>1. ~record /\ pc' = "check"
    BY <1>6 DEF NothingToRecord, AfterRecord
  <2>2. UNCHANGED <<enabled, record, lastReport, overtaken, abnormal_loop, noMemory>>
    BY <1>6 DEF NothingToRecord, config, detectors, reporting, bounds
  <2>3. QED BY <2>1, <2>2 DEF ReportInv, Standing
<1>7. CASE Record
  <2>1. ~record' /\ pc' = "check" /\ UNCHANGED <<abnormal_loop, noMemory>>
        /\ lastReport' = [lastReport EXCEPT ![ClassOf(at)] = record_type]
        /\ overtaken' = overtaken \ {ClassOf(at)}
    BY <1>7 DEF Record, AfterRecord, detectors, bounds
  <2>2. \A c \in Class : c # ClassOf(at) => lastReport'[c] = lastReport[c]
    BY <2>1 DEF TypeOK
  <2>3. lastReport'[ClassOf(at)] = 1 <=> \E b \in abnormal_loop : b[1] = ClassOf(at)
    BY <1>a, <2>1 DEF TypeOK, record_type
  <2>4. \A c \in Class : noMemory = 0 => (lastReport'[c] = 1 <=> Standing(c)')
    BY <2>1, <2>2, <2>3 DEF ReportInv, Standing
  <2>5. \A c \in overtaken' : lastReport'[c] = 1
    BY <2>1, <2>2 DEF ReportInv, TypeOK
  <2>6. QED BY <2>1, <2>4, <2>5 DEF ReportInv
<1>8. CASE RecordNoMemory
  <2>1. ~record' /\ pc' = "check" /\ noMemory' # 0 /\ UNCHANGED <<lastReport, overtaken>>
    BY <1>8, InputAssumption DEF RecordNoMemory, AfterRecord, TypeOK, InputAssumption
  <2>2. QED BY <2>1 DEF ReportInv
<1>9. CASE SetAlarmConfiguration
  <2>1. BetweenFunctions /\ pc = "check"
    BY <1>9 DEF SetAlarmConfiguration, BetweenFunctions
  <2>2. ~record
    BY <2>1 DEF ReportInv
  <2>3. UNCHANGED <<at, pc, record, lastReport, overtaken, abnormal_loop, noMemory>>
    BY <1>9 DEF SetAlarmConfiguration, place, detectors, reporting
  <2>4. QED BY <2>1, <2>2, <2>3 DEF ReportInv, Standing
<1>10. ASSUME ClearState, ~record', UNCHANGED <<lastReport, noMemory>>
       PROVE  /\ \A c \in overtaken' : lastReport'[c] = 1
              /\ \A c \in Class : lastReport'[c] = 1 <=> Standing(c)'
  <2>1. abnormal_loop' = {} /\ overtaken' = overtaken \cup {c \in Class : lastReport[c] = 1}
    BY <1>10 DEF ClearState
  <2>2. \A c \in overtaken : lastReport[c] = 1
    BY DEF ReportInv
  <2>3. QED BY <1>10, <2>1, <2>2 DEF Standing
<1>11. CASE Reboot
  <2>1. ClearState /\ ~record' /\ pc' = "check" /\ UNCHANGED <<lastReport, noMemory>>
    BY <1>11 DEF Reboot
  <2>2. QED BY <1>10, <2>1 DEF ReportInv
<1>12. CASE WriteInputCollectorConfig
  <2>1. BetweenFunctions /\ pc = "check"
    BY <1>12 DEF WriteInputCollectorConfig, BetweenFunctions
  <2>2. ~record
    BY <2>1 DEF ReportInv
  <2>3. ClearState /\ UNCHANGED <<at, pc, record, enabled, lastReport, noMemory>>
    BY <1>12 DEF WriteInputCollectorConfig, place
  <2>4. QED BY <1>10, <2>1, <2>2, <2>3 DEF ReportInv
<1>13. CASE UNCHANGED <<at, pc, record, enabled, lastReport, overtaken, abnormal_loop, noMemory>>
  BY <1>13 DEF ReportInv, Standing, BetweenFunctions, ClassOf
<1>14. QED
  BY <1>1, <1>2, <1>3, <1>4, <1>5, <1>6, <1>7, <1>8, <1>9, <1>11, <1>12, <1>13, ReportCases

(* Between two functions the server knows of each class whether it has      *)
(* abnormal loops, as long as there is memory for the reports; what a reset *)
(* or a new configuration takes away stands there until the next report of  *)
(* the class, and no change of the loops goes unreported otherwise, for any *)
(* number of detectors.                                                     *)
THEOREM LastReportAlwaysTells == Spec => []LastReportTells
<1>1. Init => ReportInv
  BY DEF Init, ReportInv, Standing
<1>2. TypeOK /\ ReportInv /\ [Next]_vars => ReportInv'
  BY ReportNext
<1>3. ReportInv => LastReportTells
  BY DEF ReportInv, Standing, LastReportTells
<1>4. QED BY <1>1, <1>2, <1>3, TypeInit, TypeNext, PTL DEF Spec

-----------------------------------------------------------------------------
(* With a single detector that switches the mode and is to restore it, the  *)
(* saved mode is the one from before its alarm, whatever the server sets and *)
(* other alarms do meanwhile.  With two it is not (InputAlarmModes.cfg).    *)
OneSwitching == \E s \in Detector : Switching = {s} /\ resume_run_mode[s]

SavedInv == \A s \in Switching : occur[s] => last_run_mode[Bit(s)] = before

(* The saved mode stays the one from before the alarm, and is restored.     *)
LEMMA SavedNext ==
  ASSUME OneSwitching, TypeOK, SavedInv, [Next]_vars, NEW s \in Switching
  PROVE  /\ occur'[s] => last_run_mode'[Bit(s)] = before'
         /\ occur[s] /\ ~occur'[s] /\ reboots' = reboots => RunMode' = before
<1>a. Switching = {s} /\ s \in Detector /\ resume_run_mode[s] /\ switch_run_mode[s] # 0
  BY DEF OneSwitching, Switching
<1>b. /\ occur \in [Detector -> BOOLEAN] /\ last_run_mode \in [Bits -> Mode \cup {0}]
      /\ reboots \in Int /\ at \in Detector /\ Bit(s) \in Bits
  BY <1>a, BitType DEF TypeOK
<1>1. CASE Raise
  <2>1. ~occur[at] /\ occur' = [occur EXCEPT ![at] = TRUE] /\ last_run_mode' = Saved(at)
        /\ before' = (IF \E d \in Switching : occur[d] THEN before ELSE RunMode)
    BY <1>1 DEF Raise
  <2>2. CASE at = s
    <3>1. last_run_mode' = [last_run_mode EXCEPT ![Bit(s)] = RunMode] /\ before' = RunMode
      BY <1>a, <2>1, <2>2 DEF Saved
    <3>2. QED BY <1>b, <2>1, <2>2, <3>1
  <2>3. CASE at # s
    <3>1. last_run_mode' = last_run_mode /\ occur'[s] = occur[s]
      BY <1>a, <1>b, <2>1, <2>3 DEF Saved
    <3>2. occur[s] => before' = before /\ last_run_mode[Bit(s)] = before
      BY <2>1 DEF SavedInv
    <3>3. QED BY <3>1, <3>2
  <2>4. QED BY <2>2, <2>3
<1>2. CASE Clear
  <2>1. /\ occur' = [occur EXCEPT ![at] = FALSE] /\ RunMode' = Restored(at)
        /\ UNCHANGED <<last_run_mode, before>>
    BY <1>2 DEF Clear
  <2>2. CASE at = s
    <3>1. occur[s] /\ ~occur'[s]
      BY <1>2, <1>b, <2>1, <2>2 DEF Clear
    <3>2. RunMode' = last_run_mode[Bit(s)]
      BY <1>a, <2>1, <2>2 DEF Restored
    <3>3. QED BY <3>1, <3>2 DEF SavedInv
  <2>3. CASE at # s
    <3>1. occur'[s] = occur[s]
      BY <1>a, <1>b, <2>1, <2>3
    <3>2. QED BY <2>1, <3>1 DEF SavedInv
  <2>4. QED BY <2>2, <2>3
<1>3. CASE Reboot
  <2>1. ~occur'[s] /\ reboots' = reboots + 1
    BY <1>3, <1>a DEF Reboot
  <2>2. QED BY <1>b, <2>1
<1>4. CASE UNCHANGED <<occur, last_run_mode, before>>
  BY <1>4 DEF SavedInv
<1>5. Raise \/ Clear \/ Reboot \/ UNCHANGED <<occur, last_run_mode, before>>
  BY DEF Next, TaskStep, Count, Switch, Disabled, NothingToRecord, Record, RecordNoMemory,
     Change, SetRunMode, SetAlarmConfiguration, WriteInputCollectorConfig,
     ResetConfigParameters, RelayCheckForce, vars, detectors, modes
<1>6. QED BY <1>1, <1>2, <1>3, <1>4, <1>5

(* The run mode from before an alarm that switches it comes back when the   *)
(* alarm clears, with any other alarms and any commands in between.         *)
THEOREM RunModeAlwaysRestored ==
  ASSUME OneSwitching PROVE Spec => RunModeRestored
<1>1. Init => SavedInv
  BY DEF Init, SavedInv, Switching
<1>2. TypeOK /\ SavedInv /\ [Next]_vars => SavedInv'
  <2> SUFFICES ASSUME TypeOK, SavedInv, [Next]_vars PROVE SavedInv'
    OBVIOUS
  <2>1. \A s \in Switching : occur'[s] => last_run_mode'[Bit(s)] = before'
    BY SavedNext
  <2>2. QED BY <2>1 DEF SavedInv, Switching, Bit, ClassOf
<1>3. TypeOK /\ SavedInv /\ [Next]_vars =>
        [(\E d \in Switching : occur[d]) /\ (\A d \in Switching : ~occur'[d])
           /\ reboots' = reboots => RunMode' = before]_vars
  BY SavedNext
<1>4. QED BY <1>1, <1>2, <1>3, TypeInit, TypeNext, PTL DEF Spec, RunModeRestored
=============================================================================
