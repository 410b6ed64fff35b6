---------------------------- MODULE AlarmReport ----------------------------
(***************************************************************************)
(* Reporting of alarms to the server, one at a time, by the CONCENTRATOR    *)
(* task (SendAlarmReportToServer, concentrator_comm.c).                     *)
(*                                                                          *)
(* Detector tasks put reports into xQueue_AlarmReportSend.  The task loop   *)
(* of vTaskCONCENTRATOR takes one, sends it, and waits for the server's     *)
(* acknowledgement or for the response timeout; on a timeout the report is  *)
(* sent again, at most command_retransmission_times times, and then given   *)
(* up.  An acknowledgement is a frame with the message id of the report's   *)
(* device type: it is routed to the task of that device, which clears       *)
(* AlarmReportResponse without looking at which report it answers.          *)
(*                                                                          *)
(* A report is its number, in the order the reports entered the queue.  A   *)
(* frame is <<report, transmission>>: InitServerFrameStruct gives each      *)
(* frame a serial number of its own, so no two frames are the same.         *)
(***************************************************************************)
EXTENDS Naturals, Sequences, FiniteSets

CONSTANTS
  DeviceTask,         \* the tasks that handle server frames, one per device type
  Concentrator,       \* the one of them that also runs the sender
  MaxReport,          \* bound: reports offered to the queue
  SendQueueLen,       \* length of xQueue_AlarmReportSend (20)
  MaxRetransmission,  \* command_retransmission_times
  MaxDisconnect,      \* bound: times the link goes down
  NoReport            \* the NULL value of the pointer alarm_report

ASSUME ReportAssumption ==
  /\ Concentrator \in DeviceTask
  /\ MaxReport \in Nat \ {0}
  /\ SendQueueLen \in Nat \ {0}
  /\ MaxRetransmission \in Nat
  /\ MaxDisconnect \in Nat
  /\ NoReport \notin Nat

Report == 1 .. MaxReport
Frame  == Report \X (1 .. MaxRetransmission + 1)

VARIABLES
  device,               \* device task of each report (its device_type)
  offered,              \* reports offered to the queue so far
  sendQueue,            \* xQueue_AlarmReportSend
  pc,                   \* where the CONCENTRATOR task is in its loop
  alarm_report,         \* the report being sent, or NULL
  AlarmReportResponse,  \* 1: waiting for an acknowledgement
  retry_times5,         \* retransmissions of alarm_report
  expired,              \* GetSysTick1s() - time_5 >= command_response_timeout
  LoginResponse,        \* 1: logged in to the server
  disconnects,          \* times the link went down
  uplink,               \* frames on their way to the server
  acks,                 \* acknowledgements on their way to the device tasks
  sent,                 \* history: transmissions of each report
  received,             \* history: reports the server has received
  fate,                 \* history: what became of each report
  frees,                \* history: times each report was freed
  timeouts              \* history: response timeouts so far

offers  == <<device, offered>>
waiting == <<alarm_report, AlarmReportResponse, retry_times5, expired>>
login   == <<LoginResponse, disconnects>>
network == <<uplink, acks, received>>
history == <<sent, fate, frees, timeouts>>
vars == <<offers, sendQueue, pc, waiting, login, network, history>>

Fate == {"unborn", "queued", "open", "acked", "abandoned", "dropped"}

TypeOK ==
  /\ device \in [Report -> DeviceTask]
  /\ offered \in 0 .. MaxReport
  /\ sendQueue \in Seq(Report) /\ Len(sendQueue) <= SendQueueLen
  /\ pc \in {"recv", "auto", "sending", "sent", "poll"}
  /\ alarm_report \in Report \cup {NoReport}
  /\ AlarmReportResponse \in {0, 1}
  /\ retry_times5 \in 0 .. MaxRetransmission
  /\ expired \in BOOLEAN
  /\ LoginResponse \in {0, 1}
  /\ disconnects \in 0 .. MaxDisconnect
  /\ uplink \in SUBSET Frame
  /\ acks \in SUBSET Frame
  /\ sent \in [Report -> 0 .. MaxRetransmission + 1]
  /\ received \in SUBSET Report
  /\ fate \in [Report -> Fate]
  /\ frees \in [Report -> Nat]
  /\ timeouts \in Nat

Init ==
  /\ device \in [Report -> DeviceTask]
  /\ offered = 0
  /\ sendQueue = << >>
  /\ pc = "recv"
  /\ alarm_report = NoReport
  /\ AlarmReportResponse = 0
  /\ retry_times5 = 0
  /\ expired = FALSE
  /\ LoginResponse = 0
  /\ disconnects = 0
  /\ uplink = {}
  /\ acks = {}
  /\ sent = [r \in Report |-> 0]
  /\ received = {}
  /\ fate = [r \in Report |-> "unborn"]
  /\ frees = [r \in Report |-> 0]
  /\ timeouts = 0

(* DeleteAlarmReport: the frees after vPortFree(r); NULL is left alone.    *)
DeleteAlarmReport(r) ==
  IF r = NoReport THEN frees ELSE [frees EXCEPT ![r] = @ + 1]

(* The history entry of r becomes f, if there is a report r.               *)
Settle(r, f) == IF r = NoReport THEN fate ELSE [fate EXCEPT ![r] = f]

-----------------------------------------------------------------------------
(* PushAlarmReportToAlarmQueue as the sender sees it: the report enters     *)
(* the queue, or is freed when the queue stayed full for 10 ticks.          *)
Offer ==
  /\ offered < MaxReport
  /\ offered' = offered + 1
  /\ IF Len(sendQueue) < SendQueueLen
     THEN /\ sendQueue' = Append(sendQueue, offered')
          /\ fate' = Settle(offered', "queued")
          /\ UNCHANGED frees
     ELSE /\ fate' = Settle(offered', "dropped")
          /\ frees' = DeleteAlarmReport(offered')
          /\ UNCHANGED sendQueue
  /\ UNCHANGED <<device, pc, waiting, login, network, sent, timeouts>>

-----------------------------------------------------------------------------
(* The loop of vTaskCONCENTRATOR: receive, send, poll for events.           *)

(* An acknowledgement reaches the task of its device, whose handler clears  *)
(* AlarmReportResponse: case 0x00A0 and 0x00A1 of the frame switch.         *)
HandleAck(t) ==
  /\ \E f \in acks : device[f[1]] = t /\ acks' = acks \ {f}
  /\ AlarmReportResponse' = 0

(* ConcentratorRecvAndHandleFrameStruct: at most one frame each round; any  *)
(* other frame, and an empty queue, leave the reporting alone.              *)
ConcentratorRecv ==
  /\ pc = "recv"
  /\ pc' = "auto"
  /\ HandleAck(Concentrator) \/ UNCHANGED <<AlarmReportResponse, acks>>
  /\ UNCHANGED <<offers, sendQueue, alarm_report, retry_times5, expired, login,
                 uplink, received, history>>

(* The other device tasks run when the CONCENTRATOR task blocks, also in    *)
(* the middle of a transmission (PushTheFrameToTxQueue waits).              *)
DeviceTaskRecv ==
  /\ \E t \in DeviceTask \ {Concentrator} : HandleAck(t)
  /\ UNCHANGED <<offers, sendQueue, pc, alarm_report, retry_times5, expired, login,
                 uplink, received, history>>

(* AutoSendFrameToServer while not logged in: only the login frame.         *)
SkipLoggedOutResetting ==
  /\ pc = "auto" /\ LoginResponse = 0
  /\ pc' = "poll"
  /\ AlarmReportResponse' = 0
  /\ UNCHANGED <<offers, sendQueue, alarm_report, retry_times5, expired, login,
                 network, history>>

SkipLoggedOut ==
  /\ pc = "auto" /\ LoginResponse = 0
  /\ pc' = "poll"
  /\ UNCHANGED <<offers, sendQueue, waiting, login, network, history>>

(* SendAlarmReportToServer with AlarmReportResponse = 0: free the report    *)
(* that was answered, take the next one from the queue and send it.         *)
MayTakeNext == pc = "auto" /\ LoginResponse = 1 /\ AlarmReportResponse = 0

TakeNext ==
  /\ MayTakeNext /\ sendQueue # << >>
  /\ frees' = DeleteAlarmReport(alarm_report)
  /\ fate' = [Settle(alarm_report, "acked") EXCEPT ![Head(sendQueue)] = "open"]
  /\ alarm_report' = Head(sendQueue)
  /\ sendQueue' = Tail(sendQueue)
  /\ AlarmReportResponse' = 1
  /\ retry_times5' = 0
  /\ expired' = FALSE
  /\ pc' = "sending"
  /\ UNCHANGED <<offers, login, network, sent, timeouts>>

NoneQueued ==
  /\ MayTakeNext /\ sendQueue = << >>
  /\ frees' = DeleteAlarmReport(alarm_report)
  /\ fate' = Settle(alarm_report, "acked")
  /\ alarm_report' = NoReport
  /\ pc' = "poll"
  /\ UNCHANGED <<offers, sendQueue, AlarmReportResponse, retry_times5, expired,
                 login, network, sent, timeouts>>

(* SendAlarmReportFrameToServer: the frame is built and pushed to the       *)
(* transmit queue of a link; it is lost when there is no memory or the      *)
(* transmit queue is full, which Lose covers.                               *)
SendAlarmReportFrameToServer ==
  /\ pc = "sending"
  /\ pc' = "sent"
  /\ sent' = [sent EXCEPT ![alarm_report] = @ + 1]
  /\ uplink' = uplink \cup {<<alarm_report, sent'[alarm_report]>>}
  /\ UNCHANGED <<offers, sendQueue, waiting, login, acks, received, fate, frees, timeouts>>

(* The second half of SendAlarmReportToServer is reached with a report      *)
(* outstanding, at once or after a transmission (the goto falls into it).   *)
AtTimeoutCheck ==
  \/ pc = "auto" /\ LoginResponse = 1 /\ AlarmReportResponse = 1
  \/ pc = "sent"

RetriesLeftOffByOne == retry_times5 <= MaxRetransmission
RetriesLeft == retry_times5 < MaxRetransmission

(* Nothing to do: answered meanwhile, or the timeout has not elapsed.       *)
KeepWaiting ==
  /\ AtTimeoutCheck
  /\ AlarmReportResponse = 0 \/ ~expired
  /\ pc' = "poll"
  /\ UNCHANGED <<offers, sendQueue, waiting, login, network, history>>

(* Timeout with retransmissions left: goto RE_SEND_ALARM_REPORT.            *)
Resend ==
  /\ AtTimeoutCheck
  /\ AlarmReportResponse = 1 /\ expired /\ RetriesLeft
  /\ retry_times5' = retry_times5 + 1
  /\ expired' = FALSE
  /\ timeouts' = timeouts + 1
  /\ pc' = "sending"
  /\ UNCHANGED <<offers, sendQueue, alarm_report, AlarmReportResponse, login,
                 network, sent, fate, frees>>

(* Timeout with none left: the report is freed and given up.                *)
NotCleared == alarm_report
Cleared == NoReport

GiveUp ==
  /\ AtTimeoutCheck
  /\ AlarmReportResponse = 1 /\ expired /\ ~RetriesLeft
  /\ retry_times5' = 0
  /\ expired' = FALSE
  /\ timeouts' = timeouts + 1
  /\ AlarmReportResponse' = 0
  /\ frees' = DeleteAlarmReport(alarm_report)
  /\ fate' = Settle(alarm_report, "abandoned")
  /\ alarm_report' = Cleared
  /\ pc' = "poll"
  /\ UNCHANGED <<offers, sendQueue, login, network, sent>>

(* The rest of the loop: event polling, battery, delay.                     *)
EndOfLoop ==
  /\ pc = "poll"
  /\ pc' = "recv"
  /\ UNCHANGED <<offers, sendQueue, waiting, login, network, history>>

ConcentratorStepNoGiveUp ==
  \/ ConcentratorRecv \/ SkipLoggedOut \/ TakeNext \/ NoneQueued
  \/ SendAlarmReportFrameToServer \/ KeepWaiting \/ Resend \/ EndOfLoop

ConcentratorStep ==
  \/ ConcentratorRecv \/ SkipLoggedOut \/ TakeNext \/ NoneQueued
  \/ SendAlarmReportFrameToServer \/ KeepWaiting \/ Resend \/ GiveUp \/ EndOfLoop

-----------------------------------------------------------------------------
(* Time, the links and the server.                                          *)

(* command_response_timeout seconds pass since time_5 was set.              *)
Timeout ==
  /\ ~expired /\ alarm_report # NoReport
  /\ expired' = TRUE
  /\ UNCHANGED <<offers, sendQueue, pc, alarm_report, AlarmReportResponse,
                 retry_times5, login, network, history>>

(* The server answers the login frame: case 0x00E0 of the frame switch, so  *)
(* the CONCENTRATOR task is at "recv".                                      *)
Login ==
  /\ pc = "recv" /\ LoginResponse = 0
  /\ LoginResponse' = 1
  /\ pc' = "auto"
  /\ UNCHANGED <<offers, sendQueue, waiting, disconnects, network, history>>

(* The 4G or the TCP client task finds its link closed, at any point of the *)
(* sender: LoginResponse = 0.                                               *)
Disconnect ==
  /\ LoginResponse = 1 /\ disconnects < MaxDisconnect
  /\ LoginResponse' = 0
  /\ disconnects' = disconnects + 1
  /\ UNCHANGED <<offers, sendQueue, pc, waiting, network, history>>

(* The server receives a frame, in any order (there are two links), and     *)
(* answers it or does not.                                                  *)
ServerReceive ==
  /\ \E f \in uplink :
       /\ uplink' = uplink \ {f}
       /\ received' = received \cup {f[1]}
       /\ acks' \in {acks, acks \cup {f}}
  /\ UNCHANGED <<offers, sendQueue, pc, waiting, login, history>>

(* A frame is lost: full queues, no memory, a broken connection.            *)
Lose ==
  /\ \/ \E f \in uplink : uplink' = uplink \ {f} /\ UNCHANGED acks
     \/ \E f \in acks : acks' = acks \ {f} /\ UNCHANGED uplink
  /\ UNCHANGED <<offers, sendQueue, pc, waiting, login, received, history>>

-----------------------------------------------------------------------------
Next ==
  \/ Offer \/ ConcentratorStep \/ DeviceTaskRecv
  \/ Timeout \/ Login \/ Disconnect \/ ServerReceive \/ Lose

Spec == Init /\ [][Next]_vars

(* The task is scheduled again and again (every wait in its loop is         *)
(* bounded), time passes, and a server that is reached answers the login.   *)
Fairness ==
  /\ WF_vars(ConcentratorStep)
  /\ WF_vars(Timeout)
  /\ SF_vars(Login)

FairSpec == Spec /\ Fairness

-----------------------------------------------------------------------------
(* Properties.                                                              *)

(* How many times the queue and the pointer alarm_report refer to r.        *)
References(r) ==
  Cardinality({i \in DOMAIN sendQueue : sendQueue[i] = r})
    + (IF alarm_report = r THEN 1 ELSE 0)

(* A report pushed by a detector is referred to exactly once, by the queue  *)
(* or by alarm_report, until DeleteAlarmReport frees it, and it is freed    *)
(* exactly once: neither lost (a leak), nor freed twice, nor used after.    *)
OneOwner ==
  \A r \in Report : References(r) + frees[r] = IF r <= offered THEN 1 ELSE 0

(* Whenever the task transmits or waits for an answer it has a report to    *)
(* transmit: the goto RE_SEND_ALARM_REPORT never sends a NULL report.       *)
OutstandingIsReport ==
  pc = "sending" \/ AlarmReportResponse = 1 => alarm_report # NoReport

(* As long as no response timeout has expired, every report that was closed *)
(* because AlarmReportResponse was cleared has really reached the server,   *)
(* although the handler does not look at what the answer answers.           *)
ExactUntilTimeout ==
  timeouts = 0 => \A r \in Report : fate[r] = "acked" => r \in received

(* With timeouts an answer that comes late closes a later report: but there *)
(* are never more reports wrongly taken for received than timeouts.         *)
WronglyAcked == {r \in Report : fate[r] = "acked" /\ r \notin received}
MisackBound == Cardinality(WronglyAcked) <= timeouts

(* What the sender promises is OrderedDelivery.                             *)
Delivery == INSTANCE OrderedDelivery
              WITH Attempts <- MaxRetransmission + 1, attempts <- sent
DeliverySpec == Delivery!Spec

(* Every report that entered the queue is acknowledged or given up, if the  *)
(* link stays up in the end: no unanswered report blocks the others.        *)
EveryReportSettles ==
  \A r \in Report : fate[r] = "queued" ~> fate[r] \in {"acked", "abandoned"}
=============================================================================
