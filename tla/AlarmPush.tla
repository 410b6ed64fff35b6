----------------------------- MODULE AlarmPush -----------------------------
(***************************************************************************)
(* Alarms between the tasks that detect them and the two tasks that consume *)
(* them: PushAlarmReportToAlarmQueue (history_record.c) puts a copy of the   *)
(* report into xQueue_AlarmReportStore, for vTaskSTORE, and the report into  *)
(* xQueue_AlarmReportSend, for the sender in vTaskCONCENTRATOR, and counts   *)
(* the alarms that are on in SysAlarmState, which lights LED_ALARM.          *)
(*                                                                          *)
(* Detectors are numbered by priority: detector 1 is the CONCENTRATOR task, *)
(* the highest, which is also the only consumer of the send queue.  A       *)
(* detector runs PushAlarmReportToAlarmQueue step by step; a step of a      *)
(* detector of higher priority may come between any two of them.            *)
(***************************************************************************)
EXTENDS Naturals, Sequences, FiniteSets

CONSTANTS
  NDetector,       \* number of tasks that detect alarms
  StoreQueueLen,   \* length of xQueue_AlarmReportStore (20)
  SendQueueLen,    \* length of xQueue_AlarmReportSend (20)
  MaxReport,       \* bound: reports made
  MaxNoMemory,     \* bound: times pvPortMalloc fails
  Nobody,          \* a mutex nobody holds
  NoReport         \* the NULL pointer

ASSUME PushAssumption ==
  /\ NDetector \in Nat \ {0}
  /\ StoreQueueLen \in Nat \ {0}
  /\ SendQueueLen \in Nat \ {0}
  /\ MaxReport \in Nat
  /\ MaxNoMemory \in Nat
  /\ Nobody \notin Nat
  /\ NoReport \notin Nat

Detector == 1 .. NDetector
Concentrator == 1
Report == 1 .. MaxReport

VARIABLES
  on,             \* occur: the alarm of each detector is on
  made,           \* reports made so far
  maker,          \* history: who made each report
  noMemory,       \* times pvPortMalloc failed
  pc,             \* where each detector is in PushAlarmReportToAlarmQueue
  alarm_report,   \* the report it is pushing
  loaded,         \* the value of SysAlarmState it has read
  SysAlarmState,  \* alarms that are on
  storeMutex,     \* holder of xMutex_Push_xQueue_AlarmReportStore
  sendMutex,      \* holder of xMutex_Push_xQueue_AlarmReportSend
  storeQueue,     \* xQueue_AlarmReportStore: copies
  sendQueue,      \* xQueue_AlarmReportSend: reports
  loop,           \* where vTaskCONCENTRATOR is in its loop
  storing,        \* the copy vTaskSTORE is writing to flash
  stored,         \* history: copies handed to StoreAlarmToSpiFlash
  taken,          \* history: reports taken by the sender
  copyFrees,      \* history: times each copy was freed
  reportFrees,    \* history: times each report was freed by the push
  copies,         \* history: reports a copy was made of
  interrupted     \* history: updates of SysAlarmState made inside another's

alarms == <<on, made, maker, noMemory>>
count  == <<SysAlarmState, loaded, interrupted>>
store  == <<storeMutex, storeQueue, storing, stored, copyFrees, copies>>
send   == <<sendMutex, sendQueue, taken, reportFrees>>
vars   == <<alarms, pc, alarm_report, count, store, send, loop>>

TypeOK ==
  /\ on \in [Detector -> BOOLEAN]
  /\ made \in 0 .. MaxReport
  /\ maker \in [Report -> Detector]
  /\ noMemory \in 0 .. MaxNoMemory
  /\ pc \in [Detector -> {"idle", "read", "write", "copy", "store", "storing",
                          "send", "sending"}]
  /\ alarm_report \in [Detector -> Report \cup {NoReport}]
  /\ loaded \in [Detector -> Nat]
  /\ SysAlarmState \in Nat
  /\ storeMutex \in Detector \cup {Nobody}
  /\ sendMutex \in Detector \cup {Nobody}
  /\ storeQueue \in Seq(Report) /\ Len(storeQueue) <= StoreQueueLen
  /\ sendQueue \in Seq(Report) /\ Len(sendQueue) <= SendQueueLen
  /\ loop \in {"auto", "poll", "polled"}
  /\ storing \in Report \cup {NoReport}
  /\ stored \in Seq(Report)
  /\ taken \in Seq(Report)
  /\ copyFrees \in [Report -> Nat]
  /\ reportFrees \in [Report -> Nat]
  /\ copies \in SUBSET Report
  /\ interrupted \in Nat

Init ==
  /\ on = [d \in Detector |-> FALSE]
  /\ made = 0
  /\ maker = [r \in Report |-> Concentrator]
  /\ noMemory = 0
  /\ pc = [d \in Detector |-> "idle"]
  /\ alarm_report = [d \in Detector |-> NoReport]
  /\ loaded = [d \in Detector |-> 0]
  /\ SysAlarmState = 0
  /\ storeMutex = Nobody
  /\ sendMutex = Nobody
  /\ storeQueue = << >>
  /\ sendQueue = << >>
  /\ loop = "auto"
  /\ storing = NoReport
  /\ stored = << >>
  /\ taken = << >>
  /\ copyFrees = [r \in Report |-> 0]
  /\ reportFrees = [r \in Report |-> 0]
  /\ copies = {}
  /\ interrupted = 0

Goto(d, label) == pc' = [pc EXCEPT ![d] = label]

(* The CONCENTRATOR task detects in the polling part of its loop, once.     *)
MayDetect(d) == pc[d] = "idle" /\ (d = Concentrator => loop = "poll")
AfterDetect(d) == loop' = IF d = Concentrator THEN "polled" ELSE loop

(* xQueueSend to the back of a queue that has room; vPortFree of a report.  *)
HasRoom(queue, length) == Len(queue) < length
EnqueueFront(queue, r) == <<r>> \o queue
Enqueue(queue, r) == Append(queue, r)
NotFreed(frees, r) == frees
Freed(frees, r) == [frees EXCEPT ![r] = @ + 1]

-----------------------------------------------------------------------------
(* A detector finds that its alarm came on or went off, makes a report of   *)
(* it and calls PushAlarmReportToAlarmQueue.                                *)
Detect(d) ==
  /\ MayDetect(d) /\ made < MaxReport
  /\ made' = made + 1
  /\ maker' = [maker EXCEPT ![made'] = d]
  /\ on' = [on EXCEPT ![d] = ~@]
  /\ alarm_report' = [alarm_report EXCEPT ![d] = made']
  /\ Goto(d, "read")
  /\ AfterDetect(d)
  /\ UNCHANGED <<noMemory, count, store, send>>

(* There is no memory for the report: occur has changed, nothing is pushed. *)
DetectNoMemory(d) ==
  /\ MayDetect(d) /\ noMemory < MaxNoMemory
  /\ noMemory' = noMemory + 1
  /\ on' = [on EXCEPT ![d] = ~@]
  /\ AfterDetect(d)
  /\ UNCHANGED <<made, maker, pc, alarm_report, count, store, send>>

(* SysAlarmState ++ or --, never below 0: a load and a store.  A task of    *)
(* lower priority goes on only when none of higher priority is between its  *)
(* own load and store.                                                      *)
Runs(d) == \A h \in 1 .. d - 1 : pc[h] \notin {"read", "write"}

ReadCount(d) ==
  /\ pc[d] = "read" /\ Runs(d)
  /\ loaded' = [loaded EXCEPT ![d] = SysAlarmState]
  /\ Goto(d, "write")
  /\ UNCHANGED <<alarms, alarm_report, SysAlarmState, interrupted, store, send, loop>>

CountedInverted(d) ==
  IF on[d] THEN (IF loaded[d] >= 1 THEN loaded[d] - 1 ELSE loaded[d])
  ELSE loaded[d] + 1
Counted(d) ==
  IF on[d] THEN loaded[d] + 1
  ELSE IF loaded[d] >= 1 THEN loaded[d] - 1 ELSE loaded[d]

WriteCount(d) ==
  /\ pc[d] = "write" /\ Runs(d)
  /\ SysAlarmState' = Counted(d)
  /\ interrupted' = IF \E l \in Detector : l > d /\ pc[l] = "write"
                    THEN interrupted + 1 ELSE interrupted
  /\ Goto(d, "copy")
  /\ UNCHANGED <<alarms, alarm_report, loaded, store, send, loop>>

(* CopyAlarmReport, if there is memory for the copy.                        *)
Copy(d) ==
  /\ pc[d] = "copy"
  /\ \/ /\ copies' = copies \cup {alarm_report[d]}
        /\ Goto(d, "store")
        /\ UNCHANGED noMemory
     \/ /\ noMemory < MaxNoMemory
        /\ noMemory' = noMemory + 1
        /\ Goto(d, "send")
        /\ UNCHANGED copies
  /\ UNCHANGED <<on, made, maker, alarm_report, count, storeMutex, storeQueue,
                 storing, stored, copyFrees, send, loop>>

TakeStoreMutex(d) ==
  /\ pc[d] = "store" /\ storeMutex = Nobody
  /\ storeMutex' = d
  /\ Goto(d, "storing")
  /\ UNCHANGED <<alarms, alarm_report, count, storeQueue, storing, stored, copyFrees,
                 copies, send, loop>>

(* xQueueSend succeeds, or gives up after 10 ticks and the copy is freed.   *)
PushStore(d) ==
  /\ pc[d] = "storing"
  /\ IF HasRoom(storeQueue, StoreQueueLen)
     THEN /\ storeQueue' = Enqueue(storeQueue, alarm_report[d])
          /\ UNCHANGED copyFrees
     ELSE /\ copyFrees' = Freed(copyFrees, alarm_report[d])
          /\ UNCHANGED storeQueue
  /\ storeMutex' = Nobody
  /\ Goto(d, "send")
  /\ UNCHANGED <<alarms, alarm_report, count, storing, stored, copies, send, loop>>

TakeSendMutex(d) ==
  /\ pc[d] = "send" /\ sendMutex = Nobody
  /\ sendMutex' = d
  /\ Goto(d, "sending")
  /\ UNCHANGED <<alarms, alarm_report, count, store, sendQueue, taken, reportFrees, loop>>

PushSendWaiting(d) ==
  /\ pc[d] = "sending" /\ HasRoom(sendQueue, SendQueueLen)
  /\ sendQueue' = Enqueue(sendQueue, alarm_report[d])
  /\ sendMutex' = Nobody
  /\ alarm_report' = [alarm_report EXCEPT ![d] = NoReport]
  /\ Goto(d, "idle")
  /\ UNCHANGED <<alarms, count, store, taken, reportFrees, loop>>

PushSend(d) ==
  /\ pc[d] = "sending"
  /\ IF HasRoom(sendQueue, SendQueueLen)
     THEN /\ sendQueue' = Enqueue(sendQueue, alarm_report[d])
          /\ UNCHANGED reportFrees
     ELSE /\ reportFrees' = Freed(reportFrees, alarm_report[d])
          /\ UNCHANGED sendQueue
  /\ sendMutex' = Nobody
  /\ alarm_report' = [alarm_report EXCEPT ![d] = NoReport]
  /\ Goto(d, "idle")
  /\ UNCHANGED <<alarms, count, store, taken, loop>>

Push(d) ==
  \/ ReadCount(d) \/ WriteCount(d) \/ Copy(d)
  \/ TakeStoreMutex(d) \/ PushStore(d) \/ TakeSendMutex(d) \/ PushSend(d)

-----------------------------------------------------------------------------
(* The sending part of the CONCENTRATOR loop takes a report, or does not    *)
(* (not logged in, one outstanding, none queued).  AlarmReport has the rest.*)
AutoSend ==
  /\ loop = "auto"
  /\ loop' = "poll"
  /\ \/ /\ sendQueue # << >>
        /\ taken' = Append(taken, Head(sendQueue))
        /\ sendQueue' = Tail(sendQueue)
     \/ UNCHANGED <<taken, sendQueue>>
  /\ UNCHANGED <<alarms, pc, alarm_report, count, store, sendMutex, reportFrees>>

EndOfLoop ==
  /\ loop \in {"poll", "polled"} /\ pc[Concentrator] = "idle"
  /\ loop' = "auto"
  /\ UNCHANGED <<alarms, pc, alarm_report, count, store, send>>

(* RecvAndStoreAlarmReport: take a copy, hand it to StoreAlarmToSpiFlash,   *)
(* free it, whatever StoreAlarmToSpiFlash returns.                          *)
TakeToStore ==
  /\ storing = NoReport /\ storeQueue # << >>
  /\ storing' = Head(storeQueue)
  /\ storeQueue' = Tail(storeQueue)
  /\ UNCHANGED <<alarms, pc, alarm_report, count, storeMutex, stored, copyFrees,
                 copies, send, loop>>

StoreSkipped ==
  /\ storing # NoReport
  /\ copyFrees' = Freed(copyFrees, storing)
  /\ storing' = NoReport
  /\ UNCHANGED <<alarms, pc, alarm_report, count, storeMutex, storeQueue, stored,
                 copies, send, loop>>

Store ==
  /\ storing # NoReport
  /\ stored' = Append(stored, storing)
  /\ copyFrees' = Freed(copyFrees, storing)
  /\ storing' = NoReport
  /\ UNCHANGED <<alarms, pc, alarm_report, count, storeMutex, storeQueue, copies,
                 send, loop>>

Next ==
  \/ \E d \in Detector : Detect(d) \/ DetectNoMemory(d) \/ Push(d)
  \/ AutoSend \/ EndOfLoop \/ TakeToStore \/ Store

Spec == Init /\ [][Next]_vars

(* Every task is scheduled again and again: each blocks for a bounded time  *)
(* only, except for the mutexes, which are given back after 10 ticks.       *)
Fairness ==
  /\ \A d \in Detector : WF_vars(Push(d))
  /\ WF_vars(AutoSend) /\ WF_vars(EndOfLoop)
  /\ WF_vars(TakeToStore) /\ WF_vars(Store)

FairSpec == Spec /\ Fairness

-----------------------------------------------------------------------------
(* Properties.                                                              *)

(* How many times r occurs in a queue.                                      *)
Occurrences(queue, r) == Cardinality({i \in DOMAIN queue : queue[i] = r})

(* Whether a detector whose program is at one of labels holds r.            *)
HeldAt(labels, r) ==
  IF \E d \in Detector : pc[d] \in labels /\ alarm_report[d] = r THEN 1 ELSE 0

(* The copy of a report is in one place, the pushing task, the store queue  *)
(* or vTaskSTORE, until it is freed, and it is freed once; the report itself *)
(* is in the pushing task, the send queue or the sender, or has been freed  *)
(* because the send queue stayed full.                                      *)
CopyPlaces(r) ==
  HeldAt({"store", "storing"}, r) + Occurrences(storeQueue, r)
    + (IF storing = r THEN 1 ELSE 0) + copyFrees[r]

ReportPlaces(r) ==
  HeldAt({"read", "write", "copy", "store", "storing", "send", "sending"}, r)
    + Occurrences(sendQueue, r) + Occurrences(taken, r) + reportFrees[r]

OneOwner ==
  \A r \in Report :
    /\ CopyPlaces(r) = IF r \in copies THEN 1 ELSE 0
    /\ ReportPlaces(r) = IF r <= made THEN 1 ELSE 0

(* The two consumers see the reports of one detector in the order they were *)
(* made: that an alarm went off never overtakes that it came on.  (Reports  *)
(* of different detectors may be stored and sent in different orders.)      *)
InMakerOrder(queue) ==
  \A i, j \in DOMAIN queue :
    i < j /\ maker[queue[i]] = maker[queue[j]] => queue[i] < queue[j]
DetectorOrder == InMakerOrder(stored) /\ InMakerOrder(taken)

(* SysAlarmState counts the alarms that are on, up to one for each update   *)
(* that ran inside another task's update and one for each report that was   *)
(* not made for want of memory.                                             *)
AlarmsOn == Cardinality({d \in Detector : on[d] # (pc[d] \in {"read", "write"})})
CountDrift ==
  /\ SysAlarmState <= AlarmsOn + interrupted + noMemory
  /\ AlarmsOn <= SysAlarmState + interrupted + noMemory

(* A push ends, although the CONCENTRATOR task is both the consumer of the  *)
(* send queue and a detector that waits for room in it, with the mutex.     *)
PushReturns == \A d \in Detector : pc[d] # "idle" ~> pc[d] = "idle"

(* What entered the store queue is handed to StoreAlarmToSpiFlash.          *)
QueuedIsStored ==
  \A r \in Report :
    Occurrences(storeQueue, r) > 0 ~> Occurrences(stored, r) > 0
=============================================================================
