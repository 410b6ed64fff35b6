-------------------------- MODULE AlarmReportProofs --------------------------
(***************************************************************************)
(* Proofs about AlarmReport, for any number of reports, any queue length,   *)
(* any number of retransmissions and any device tasks.                      *)
(***************************************************************************)
EXTENDS AlarmReport, FiniteSetTheorems, SequenceTheorems, TLAPS

(* The queue holds exactly the reports whose fate is "queued", oldest first.*)
QueueInv ==
  /\ \A i \in 1 .. Len(sendQueue) : fate[sendQueue[i]] = "queued"
  /\ \A i, j \in 1 .. Len(sendQueue) : i < j => sendQueue[i] < sendQueue[j]
  /\ \A r \in Report : fate[r] = "queued" =>
       \E i \in 1 .. Len(sendQueue) : sendQueue[i] = r

(* The pointer alarm_report is the open report; reports not yet offered are *)
(* unborn; a report has been freed once if it is closed, else not at all.   *)
FateInv ==
  /\ \A r \in Report : fate[r] = "open" <=> alarm_report = r
  /\ \A r \in Report : fate[r] = "unborn" <=> offered < r
  /\ \A r \in Report :
       frees[r] = IF fate[r] \in {"acked", "abandoned", "dropped"} THEN 1 ELSE 0

(* The retransmission counter counts the transmissions of the open report.  *)
SentInv ==
  /\ alarm_report # NoReport =>
       sent[alarm_report] = IF pc = "sending" THEN retry_times5 ELSE retry_times5 + 1
  /\ \A r \in Report : fate[r] \in {"unborn", "queued"} => sent[r] = 0

(* Before the first timeout there is at most one frame under way, the first *)
(* of the open report, and none once its answer has arrived; nothing can    *)
(* have answered a report that is about to be transmitted.                  *)
Fresh ==
  /\ retry_times5 = 0
  /\ uplink \subseteq {<<alarm_report, 1>>}
  /\ acks \subseteq {<<alarm_report, 1>>}
  /\ uplink = {} \/ acks = {}
  /\ acks # {} => alarm_report \in received
  /\ alarm_report = NoReport \/ AlarmReportResponse = 0 \/ pc = "sending" =>
       uplink = {} /\ acks = {}
  /\ alarm_report # NoReport /\ AlarmReportResponse = 0 => alarm_report \in received
  /\ pc = "sending" => AlarmReportResponse = 1

FreshInv == timeouts = 0 => Fresh

IInv ==
  /\ TypeOK
  /\ OutstandingIsReport
  /\ QueueInv
  /\ FateInv
  /\ SentInv
  /\ FreshInv
  /\ ExactUntilTimeout

-----------------------------------------------------------------------------
(* The actions of Next one by one: what [Next]_vars splits into.            *)
LEMMA NextCases ==
  ASSUME [Next]_vars
  PROVE  \/ Offer
         \/ ConcentratorRecv \/ SkipLoggedOut \/ TakeNext \/ NoneQueued
         \/ SendAlarmReportFrameToServer \/ KeepWaiting \/ Resend \/ GiveUp
         \/ EndOfLoop \/ DeviceTaskRecv \/ Timeout \/ Login \/ Disconnect
         \/ ServerReceive \/ Lose \/ UNCHANGED vars
BY DEF Next, ConcentratorStep

(* An acknowledgement leaves fewer answers under way and none waited for.   *)
LEMMA AckFacts ==
  ASSUME TypeOK, NEW t, HandleAck(t)
  PROVE  acks' \in SUBSET Frame /\ acks' \subseteq acks /\ AlarmReportResponse' = 0
BY DEF TypeOK, HandleAck

(* DeleteAlarmReport keeps frees a function to the naturals.                *)
LEMMA DeleteType ==
  ASSUME TypeOK, NEW r \in Report \cup {NoReport}
  PROVE  DeleteAlarmReport(r) \in [Report -> Nat]
BY DEF TypeOK, DeleteAlarmReport

(* Settle keeps fate a function to Fate.                                    *)
LEMMA SettleType ==
  ASSUME TypeOK, NEW r \in Report \cup {NoReport}, NEW f \in Fate
  PROVE  Settle(r, f) \in [Report -> Fate]
BY DEF TypeOK, Settle

(* Every step keeps every variable in its range.                            *)
LEMMA TypeOKStep == IInv /\ [Next]_vars => TypeOK'
<1> SUFFICES ASSUME IInv, [Next]_vars PROVE TypeOK'
  OBVIOUS
<1> USE ReportAssumption
<1>0. TypeOK
  BY DEF IInv
<1>1. CASE Offer
  <2>1. offered' \in Report /\ offered' \in 0 .. MaxReport
    BY <1>0, <1>1 DEF Offer, TypeOK, Report
  <2>2. CASE Len(sendQueue) < SendQueueLen
    <3>1. sendQueue' = Append(sendQueue, offered') /\ frees' = frees
          /\ fate' = Settle(offered', "queued")
      BY <1>1, <2>2 DEF Offer
    <3>2. sendQueue' \in Seq(Report) /\ Len(sendQueue') = Len(sendQueue) + 1
      BY <1>0, <2>1, <3>1, AppendProperties DEF TypeOK
    <3>3. Len(sendQueue') <= SendQueueLen
      BY <1>0, <2>2, <3>2, LenProperties DEF TypeOK
    <3>4. fate' \in [Report -> Fate]
      BY <1>0, <2>1, <3>1, SettleType DEF Fate
    <3> QED
      BY <1>0, <1>1, <2>1, <3>1, <3>2, <3>3, <3>4
      DEF Offer, TypeOK, waiting, login, network
  <2>3. CASE ~(Len(sendQueue) < SendQueueLen)
    <3>1. sendQueue' = sendQueue /\ frees' = DeleteAlarmReport(offered')
          /\ fate' = Settle(offered', "dropped")
      BY <1>1, <2>3 DEF Offer
    <3>2. fate' \in [Report -> Fate]
      BY <1>0, <2>1, <3>1, SettleType DEF Fate
    <3>3. frees' \in [Report -> Nat]
      BY <1>0, <2>1, <3>1, DeleteType
    <3> QED
      BY <1>0, <1>1, <2>1, <3>1, <3>2, <3>3 DEF Offer, TypeOK, waiting, login, network
  <2> QED
    BY <2>2, <2>3
<1>2. CASE ConcentratorRecv
  BY <1>0, <1>2, AckFacts DEF ConcentratorRecv, TypeOK, offers, login, history
<1>3. CASE SkipLoggedOut
  BY <1>0, <1>3 DEF SkipLoggedOut, TypeOK, offers, waiting, login, network, history
<1>4. CASE TakeNext
  <2>1. Head(sendQueue) \in Report /\ Tail(sendQueue) \in Seq(Report)
        /\ Len(Tail(sendQueue)) <= SendQueueLen
    BY <1>0, <1>4, HeadTailProperties, LenProperties DEF TakeNext, TypeOK
  <2>2. frees' \in [Report -> Nat]
    BY <1>0, <1>4, DeleteType DEF TakeNext, TypeOK
  <2>3. Settle(alarm_report, "acked") \in [Report -> Fate]
    BY <1>0, SettleType DEF TypeOK, Fate
  <2>4. fate' \in [Report -> Fate]
    BY <1>4, <2>1, <2>3 DEF TakeNext, Fate
  <2>5. sendQueue' \in Seq(Report) /\ Len(sendQueue') <= SendQueueLen
        /\ alarm_report' \in Report /\ retry_times5' \in 0 .. MaxRetransmission
    BY <1>4, <2>1 DEF TakeNext
  <2>6. /\ device' \in [Report -> DeviceTask] /\ offered' \in 0 .. MaxReport
        /\ LoginResponse' \in {0, 1} /\ disconnects' \in 0 .. MaxDisconnect
        /\ uplink' \in SUBSET Frame /\ acks' \in SUBSET Frame
        /\ received' \in SUBSET Report /\ timeouts' \in Nat
        /\ sent' \in [Report -> 0 .. MaxRetransmission + 1]
    BY <1>0, <1>4 DEF TakeNext, TypeOK, offers, login, network
  <2> QED
    BY <1>4, <2>2, <2>4, <2>5, <2>6 DEF TakeNext, TypeOK
<1>5. CASE NoneQueued
  <2>1. frees' \in [Report -> Nat]
    BY <1>0, <1>5, DeleteType DEF NoneQueued, TypeOK
  <2>2. fate' \in [Report -> Fate]
    BY <1>0, <1>5, SettleType DEF NoneQueued, TypeOK, Fate
  <2> QED
    BY <1>0, <1>5, <2>1, <2>2 DEF NoneQueued, TypeOK, offers, login, network
<1>6. CASE SendAlarmReportFrameToServer
  <2>1. alarm_report \in Report
    BY <1>0, <1>6 DEF SendAlarmReportFrameToServer, IInv, OutstandingIsReport, TypeOK
  <2>2. sent[alarm_report] = retry_times5
    BY <1>6, <2>1 DEF SendAlarmReportFrameToServer, IInv, SentInv, Report
  <2>3. sent[alarm_report] + 1 \in 1 .. MaxRetransmission + 1
    BY <1>0, <2>2 DEF TypeOK
  <2>4. sent' \in [Report -> 0 .. MaxRetransmission + 1]
        /\ sent'[alarm_report] \in 1 .. MaxRetransmission + 1
    BY <1>0, <1>6, <2>1, <2>3 DEF SendAlarmReportFrameToServer, TypeOK
  <2>5. uplink' \in SUBSET Frame
    BY <1>0, <1>6, <2>1, <2>4 DEF SendAlarmReportFrameToServer, TypeOK, Frame
  <2> QED
    BY <1>0, <1>6, <2>4, <2>5
    DEF SendAlarmReportFrameToServer, TypeOK, offers, waiting, login
<1>7. CASE KeepWaiting
  BY <1>0, <1>7 DEF KeepWaiting, TypeOK, offers, waiting, login, network, history
<1>8. CASE Resend
  <2>1. retry_times5' \in 0 .. MaxRetransmission /\ timeouts' \in Nat
    BY <1>0, <1>8 DEF Resend, RetriesLeft, TypeOK
  <2> QED
    BY <1>0, <1>8, <2>1 DEF Resend, TypeOK, offers, login, network
<1>9. CASE GiveUp
  <2>1. frees' \in [Report -> Nat]
    BY <1>0, <1>9, DeleteType DEF GiveUp, TypeOK
  <2>2. fate' \in [Report -> Fate]
    BY <1>0, <1>9, SettleType DEF GiveUp, TypeOK, Fate
  <2>3. retry_times5' \in 0 .. MaxRetransmission /\ timeouts' \in Nat
    BY <1>0, <1>9 DEF GiveUp, TypeOK
  <2> QED
    BY <1>0, <1>9, <2>1, <2>2, <2>3 DEF GiveUp, Cleared, TypeOK, offers, login, network
<1>10. CASE EndOfLoop
  BY <1>0, <1>10 DEF EndOfLoop, TypeOK, offers, waiting, login, network, history
<1>11. CASE DeviceTaskRecv
  BY <1>0, <1>11, AckFacts DEF DeviceTaskRecv, TypeOK, offers, login, history
<1>12. CASE Timeout
  BY <1>0, <1>12 DEF Timeout, TypeOK, offers, login, network, history
<1>13. CASE Login
  BY <1>0, <1>13 DEF Login, TypeOK, offers, waiting, network, history
<1>14. CASE Disconnect
  BY <1>0, <1>14 DEF Disconnect, TypeOK, offers, waiting, network, history
<1>15. CASE ServerReceive
  <2>1. PICK f \in uplink : /\ uplink' = uplink \ {f}
                            /\ received' = received \cup {f[1]}
                            /\ acks' \in {acks, acks \cup {f}}
    BY <1>15 DEF ServerReceive
  <2>2. f \in Frame /\ f[1] \in Report
    BY <1>0, <2>1 DEF TypeOK, Frame
  <2> QED
    BY <1>0, <1>15, <2>1, <2>2 DEF ServerReceive, TypeOK, offers, waiting, login, history
<1>16. CASE Lose
  BY <1>0, <1>16 DEF Lose, TypeOK, offers, waiting, login, history
<1>17. CASE UNCHANGED vars
  BY <1>0, <1>17 DEF vars, TypeOK, offers, waiting, login, network, history
<1> QED
  BY NextCases, <1>1, <1>2, <1>3, <1>4, <1>5, <1>6, <1>7, <1>8, <1>9, <1>10, <1>11,
     <1>12, <1>13, <1>14, <1>15, <1>16, <1>17

-----------------------------------------------------------------------------
(* Every step that transmits or waits has a report: it comes from the queue.*)
LEMMA OutstandingStep == IInv /\ [Next]_vars => OutstandingIsReport'
<1> SUFFICES ASSUME IInv, [Next]_vars PROVE OutstandingIsReport'
  OBVIOUS
<1>0. TypeOK /\ OutstandingIsReport
  BY DEF IInv
<1>1. CASE TakeNext
  <2>1. Head(sendQueue) \in Report
    BY <1>0, <1>1, HeadTailProperties DEF TakeNext, TypeOK
  <2> QED
    BY <1>1, <2>1, ReportAssumption DEF TakeNext, OutstandingIsReport, Report
<1>2. CASE ConcentratorRecv \/ DeviceTaskRecv
  BY <1>0, <1>2, AckFacts DEF ConcentratorRecv, DeviceTaskRecv, OutstandingIsReport
<1>3. CASE Resend \/ GiveUp \/ NoneQueued
  BY <1>0, <1>3 DEF Resend, GiveUp, NoneQueued, MayTakeNext, OutstandingIsReport
<1>4. CASE \/ Offer \/ SkipLoggedOut \/ SendAlarmReportFrameToServer \/ KeepWaiting
           \/ EndOfLoop \/ Timeout \/ Login \/ Disconnect \/ ServerReceive \/ Lose
           \/ UNCHANGED vars
  BY <1>0, <1>4
  DEF Offer, SkipLoggedOut, SendAlarmReportFrameToServer, KeepWaiting, EndOfLoop,
      Timeout, Login, Disconnect, ServerReceive, Lose, vars, waiting, OutstandingIsReport
<1> QED
  BY NextCases, <1>1, <1>2, <1>3, <1>4

(* Only four actions move reports between the queue, the pointer and their  *)
(* ends.                                                                    *)
LEMMA MoveCases ==
  ASSUME [Next]_vars
  PROVE  \/ Offer \/ TakeNext \/ NoneQueued \/ GiveUp
         \/ UNCHANGED <<offered, sendQueue, fate, alarm_report, frees>>
<1>1. CASE \/ ConcentratorRecv \/ SkipLoggedOut \/ SendAlarmReportFrameToServer
           \/ KeepWaiting \/ Resend \/ EndOfLoop
  BY <1>1 DEF ConcentratorRecv, SkipLoggedOut, SendAlarmReportFrameToServer,
              KeepWaiting, Resend, EndOfLoop, offers, waiting, history
<1>2. CASE \/ DeviceTaskRecv \/ Timeout \/ Login \/ Disconnect \/ ServerReceive
           \/ Lose \/ UNCHANGED vars
  BY <1>2 DEF DeviceTaskRecv, Timeout, Login, Disconnect, ServerReceive, Lose,
              vars, offers, waiting, history
<1> QED
  BY NextCases, <1>1, <1>2

(* What a close does: the open report is closed as f and freed once more.   *)
LEMMA CloseFacts ==
  ASSUME IInv, NEW f \in {"acked", "abandoned"}
  PROVE  /\ \A r \in Report : Settle(alarm_report, f)[r]
                                = IF r = alarm_report THEN f ELSE fate[r]
         /\ \A r \in Report : DeleteAlarmReport(alarm_report)[r]
                                = IF r = alarm_report THEN frees[r] + 1 ELSE frees[r]
BY ReportAssumption DEF IInv, TypeOK, Settle, DeleteAlarmReport, Report

(* TakeNext in terms of each report's fate.                                 *)
LEMMA TakeFacts ==
  ASSUME IInv, TakeNext
  PROVE  /\ Len(sendQueue) \in Nat \ {0} /\ Len(sendQueue') = Len(sendQueue) - 1
         /\ \A i \in 1 .. Len(sendQueue') : sendQueue'[i] = sendQueue[i + 1]
         /\ alarm_report' = sendQueue[1] /\ sendQueue[1] \in Report
         /\ fate[sendQueue[1]] = "queued" /\ alarm_report # sendQueue[1]
         /\ \A r \in Report : fate'[r] = IF r = sendQueue[1] THEN "open"
                                ELSE IF r = alarm_report THEN "acked" ELSE fate[r]
<1> USE ReportAssumption
<1>1. sendQueue \in Seq(Report) /\ sendQueue # << >>
  BY DEF IInv, TypeOK, TakeNext
<1>2. /\ Len(sendQueue) \in Nat \ {0} /\ Len(Tail(sendQueue)) = Len(sendQueue) - 1
      /\ Head(sendQueue) = sendQueue[1] /\ sendQueue[1] \in Report
      /\ \A i \in 1 .. Len(Tail(sendQueue)) : Tail(sendQueue)[i] = sendQueue[i + 1]
  BY <1>1, HeadTailProperties, LenProperties, ElementOfSeq, EmptySeq
<1>3. fate[sendQueue[1]] = "queued"
  BY <1>2 DEF IInv, QueueInv
<1>4. alarm_report # sendQueue[1]
  BY <1>2, <1>3 DEF IInv, FateInv
<1>5. Settle(alarm_report, "acked") \in [Report -> Fate]
  BY SettleType DEF IInv, TypeOK, Fate
<1>6. \A r \in Report : fate'[r] = IF r = sendQueue[1] THEN "open"
                                   ELSE Settle(alarm_report, "acked")[r]
  BY <1>2, <1>5 DEF TakeNext
<1>7. \A r \in Report : Settle(alarm_report, "acked")[r]
                          = IF r = alarm_report THEN "acked" ELSE fate[r]
  BY CloseFacts
<1>8. sendQueue' = Tail(sendQueue) /\ alarm_report' = sendQueue[1]
  BY <1>2 DEF TakeNext
<1> QED
  BY <1>2, <1>3, <1>4, <1>6, <1>7, <1>8

(* Offer: the new report is queued at the end, or dropped and freed.        *)
LEMMA OfferFacts ==
  ASSUME IInv, Offer
  PROVE  /\ offered' = offered + 1 /\ offered' \in Report /\ alarm_report' = alarm_report
         /\ fate[offered'] = "unborn"
         /\ \/ /\ Len(sendQueue') = Len(sendQueue) + 1
               /\ \A i \in 1 .. Len(sendQueue) : sendQueue'[i] = sendQueue[i]
               /\ sendQueue'[Len(sendQueue')] = offered'
               /\ frees' = frees
               /\ \A r \in Report : fate'[r] = IF r = offered' THEN "queued" ELSE fate[r]
            \/ /\ sendQueue' = sendQueue
               /\ \A r \in Report : frees'[r] = IF r = offered' THEN frees[r] + 1 ELSE frees[r]
               /\ \A r \in Report : fate'[r] = IF r = offered' THEN "dropped" ELSE fate[r]
<1> USE ReportAssumption
<1>1. /\ offered' = offered + 1 /\ offered' \in Report /\ alarm_report' = alarm_report
      /\ offered \in Nat /\ sendQueue \in Seq(Report) /\ Len(sendQueue) \in Nat
  BY LenProperties DEF IInv, TypeOK, Offer, Report, waiting
<1>2. fate[offered'] = "unborn"
  BY <1>1 DEF IInv, FateInv
<1>3. offered' # NoReport
  BY <1>1 DEF Report
<1>4. CASE Len(sendQueue) < SendQueueLen
  <2>1. sendQueue' = Append(sendQueue, offered') /\ frees' = frees
        /\ fate' = [fate EXCEPT ![offered'] = "queued"]
    BY <1>3, <1>4 DEF Offer, Settle
  <2>2. \A r \in Report : fate'[r] = IF r = offered' THEN "queued" ELSE fate[r]
    BY <2>1 DEF IInv, TypeOK
  <2>3. /\ Len(sendQueue') = Len(sendQueue) + 1
        /\ \A i \in 1 .. Len(sendQueue) : sendQueue'[i] = sendQueue[i]
        /\ sendQueue'[Len(sendQueue')] = offered'
    BY <1>1, <2>1, AppendProperties
  <2> QED
    BY <1>1, <1>2, <2>1, <2>2, <2>3
<1>5. CASE ~(Len(sendQueue) < SendQueueLen)
  <2>1. sendQueue' = sendQueue /\ frees' = [frees EXCEPT ![offered'] = @ + 1]
        /\ fate' = [fate EXCEPT ![offered'] = "dropped"]
    BY <1>3, <1>5 DEF Offer, Settle, DeleteAlarmReport
  <2>2. \A r \in Report : fate'[r] = IF r = offered' THEN "dropped" ELSE fate[r]
    BY <2>1 DEF IInv, TypeOK
  <2>3. \A r \in Report : frees'[r] = IF r = offered' THEN frees[r] + 1 ELSE frees[r]
    BY <2>1 DEF IInv, TypeOK
  <2> QED
    BY <1>1, <1>2, <2>1, <2>2, <2>3
<1> QED
  BY <1>4, <1>5

(* The queue keeps exactly the queued reports, oldest first.                *)
LEMMA QueueStep == IInv /\ [Next]_vars => QueueInv'
<1> SUFFICES ASSUME IInv, [Next]_vars PROVE QueueInv'
  OBVIOUS
<1> USE ReportAssumption
<1>0. /\ QueueInv /\ FateInv /\ Len(sendQueue) \in Nat /\ offered \in Nat
      /\ \A i \in 1 .. Len(sendQueue) : sendQueue[i] \in Report
  BY LenProperties, ElementOfSeq DEF IInv, TypeOK
<1>1. CASE Offer
  <2>1. CASE sendQueue' = sendQueue
    <3>1. \A r \in Report : fate'[r] = "queued" <=> fate[r] = "queued"
      BY <1>1, <2>1, OfferFacts
    <3> QED
      BY <1>0, <2>1, <3>1 DEF QueueInv
  <2>2. CASE sendQueue' # sendQueue
    <3>1. /\ Len(sendQueue') = Len(sendQueue) + 1
          /\ \A i \in 1 .. Len(sendQueue) : sendQueue'[i] = sendQueue[i]
          /\ sendQueue'[Len(sendQueue')] = offered'
          /\ \A r \in Report : fate'[r] = IF r = offered' THEN "queued" ELSE fate[r]
          /\ offered' = offered + 1 /\ offered' \in Report
      BY <1>1, <2>2, OfferFacts
    <3>2. \A i \in 1 .. Len(sendQueue) : sendQueue[i] < offered'
      BY <1>0, <3>1 DEF QueueInv, FateInv, Report
    <3>3. ASSUME NEW i \in 1 .. Len(sendQueue')
          PROVE  fate'[sendQueue'[i]] = "queued"
      <4>1. CASE i = Len(sendQueue')
        BY <3>1, <4>1
      <4>2. CASE i \in 1 .. Len(sendQueue)
        <5>1. fate[sendQueue[i]] = "queued" /\ sendQueue[i] \in Report
          BY <1>0, <4>2 DEF QueueInv
        <5> QED
          BY <3>1, <4>2, <5>1
      <4> QED
        BY <1>0, <3>1, <4>1, <4>2
    <3>4. \A i, j \in 1 .. Len(sendQueue') : i < j => sendQueue'[i] < sendQueue'[j]
      BY <1>0, <3>1, <3>2 DEF QueueInv
    <3>5. ASSUME NEW r \in Report, fate'[r] = "queued"
          PROVE  \E i \in 1 .. Len(sendQueue') : sendQueue'[i] = r
      BY <1>0, <3>1, <3>5 DEF QueueInv
    <3> QED
      BY <3>3, <3>4, <3>5 DEF QueueInv
  <2> QED
    BY <2>1, <2>2
<1>2. CASE TakeNext
  <2>1. /\ Len(sendQueue') = Len(sendQueue) - 1
        /\ \A i \in 1 .. Len(sendQueue') : sendQueue'[i] = sendQueue[i + 1]
        /\ \A r \in Report : fate'[r] = IF r = sendQueue[1] THEN "open"
                               ELSE IF r = alarm_report THEN "acked" ELSE fate[r]
    BY <1>2, TakeFacts
  <2>2. \A i \in 1 .. Len(sendQueue') : sendQueue[i + 1] # sendQueue[1]
                                        /\ sendQueue[i + 1] # alarm_report
    BY <1>0, <2>1 DEF QueueInv, FateInv, Report
  <2>3. \A i \in 1 .. Len(sendQueue') : fate'[sendQueue'[i]] = "queued"
    BY <1>0, <2>1, <2>2 DEF QueueInv
  <2>4. \A i, j \in 1 .. Len(sendQueue') : i < j => sendQueue'[i] < sendQueue'[j]
    BY <1>0, <2>1 DEF QueueInv
  <2>5. ASSUME NEW r \in Report, fate'[r] = "queued"
        PROVE  \E i \in 1 .. Len(sendQueue') : sendQueue'[i] = r
    <3>1. fate[r] = "queued" /\ r # sendQueue[1]
      BY <2>1, <2>5
    <3>2. PICK i \in 1 .. Len(sendQueue) : sendQueue[i] = r
      BY <1>0, <3>1 DEF QueueInv
    <3>3. i - 1 \in 1 .. Len(sendQueue') /\ sendQueue'[i - 1] = r
      BY <1>0, <2>1, <3>1, <3>2
    <3> QED
      BY <3>3
  <2> QED
    BY <2>3, <2>4, <2>5 DEF QueueInv
<1>3. CASE NoneQueued \/ GiveUp
  <2>1. sendQueue' = sendQueue
    BY <1>3 DEF NoneQueued, GiveUp
  <2>2. \A r \in Report : fate'[r] = "queued" <=> fate[r] = "queued"
    BY <1>0, <1>3, CloseFacts DEF NoneQueued, GiveUp, FateInv
  <2> QED
    BY <1>0, <2>1, <2>2 DEF QueueInv
<1>4. CASE UNCHANGED <<offered, sendQueue, fate, alarm_report, frees>>
  BY <1>0, <1>4 DEF QueueInv
<1> QED
  BY MoveCases, <1>1, <1>2, <1>3, <1>4

(* Each report is in the place its fate says and is freed when it closes.   *)
LEMMA FateStep == IInv /\ [Next]_vars => FateInv'
<1> SUFFICES ASSUME IInv, [Next]_vars PROVE FateInv'
  OBVIOUS
<1> USE ReportAssumption
<1>0. FateInv /\ OutstandingIsReport /\ offered \in Nat /\ frees \in [Report -> Nat]
      /\ alarm_report \in Report \cup {NoReport}
  BY DEF IInv, TypeOK
<1>1. CASE Offer
  <2>1. /\ offered' = offered + 1 /\ alarm_report' = alarm_report
        /\ fate[offered'] = "unborn" /\ offered' \in Report
        /\ \/ /\ frees' = frees
              /\ \A r \in Report : fate'[r] = IF r = offered' THEN "queued" ELSE fate[r]
           \/ /\ \A r \in Report : frees'[r] = IF r = offered' THEN frees[r] + 1 ELSE frees[r]
              /\ \A r \in Report : fate'[r] = IF r = offered' THEN "dropped" ELSE fate[r]
    BY <1>1, OfferFacts
  <2>2. alarm_report # offered' /\ frees[offered'] = 0
    BY <1>0, <2>1 DEF FateInv
  <2> QED
    BY <1>0, <2>1, <2>2 DEF FateInv, Report
<1>2. CASE TakeNext
  <2>1. /\ alarm_report' = sendQueue[1] /\ sendQueue[1] \in Report
        /\ fate[sendQueue[1]] = "queued" /\ alarm_report # sendQueue[1]
        /\ \A r \in Report : fate'[r] = IF r = sendQueue[1] THEN "open"
                               ELSE IF r = alarm_report THEN "acked" ELSE fate[r]
    BY <1>2, TakeFacts
  <2>2. /\ \A r \in Report : frees'[r] = IF r = alarm_report THEN frees[r] + 1 ELSE frees[r]
        /\ offered' = offered
    BY <1>2, CloseFacts DEF TakeNext, offers
  <2> QED
    BY <1>0, <2>1, <2>2 DEF FateInv
<1>3. CASE NoneQueued \/ GiveUp
  <2>1. PICK f \in {"acked", "abandoned"} : fate' = Settle(alarm_report, f)
    BY <1>3 DEF NoneQueued, GiveUp
  <2>2. /\ \A r \in Report : fate'[r] = IF r = alarm_report THEN f ELSE fate[r]
        /\ \A r \in Report : frees'[r] = IF r = alarm_report THEN frees[r] + 1 ELSE frees[r]
        /\ offered' = offered /\ alarm_report' = NoReport
    BY <1>3, <2>1, CloseFacts DEF NoneQueued, GiveUp, Cleared, offers
  <2>3. \A r \in Report : r # NoReport
    BY DEF Report
  <2> QED
    BY <1>0, <2>2, <2>3 DEF FateInv
<1>4. CASE UNCHANGED <<offered, sendQueue, fate, alarm_report, frees>>
  BY <1>0, <1>4 DEF FateInv
<1> QED
  BY MoveCases, <1>1, <1>2, <1>3, <1>4

(* The retransmission counter and the transmissions of the open report move *)
(* together.                                                                *)
LEMMA SentStep == IInv /\ [Next]_vars => SentInv'
<1> SUFFICES ASSUME IInv, [Next]_vars PROVE SentInv'
  OBVIOUS
<1> USE ReportAssumption
<1>0. TypeOK /\ OutstandingIsReport /\ SentInv /\ FateInv
  BY DEF IInv
<1>1. CASE Offer
  <2>1. /\ fate[offered'] = "unborn"
        /\ \A r \in Report : r # offered' => fate'[r] = fate[r]
    BY <1>1, OfferFacts
  <2>2. UNCHANGED <<alarm_report, sent, pc, retry_times5>>
    BY <1>1 DEF Offer, waiting
  <2> QED
    BY <1>0, <2>1, <2>2 DEF SentInv
<1>2. CASE TakeNext
  <2>1. /\ alarm_report' = sendQueue[1] /\ sendQueue[1] \in Report
        /\ fate[sendQueue[1]] = "queued"
        /\ \A r \in Report : fate'[r] = IF r = sendQueue[1] THEN "open"
                               ELSE IF r = alarm_report THEN "acked" ELSE fate[r]
    BY <1>2, TakeFacts
  <2>2. sent' = sent /\ pc' = "sending" /\ retry_times5' = 0
    BY <1>2 DEF TakeNext
  <2> QED
    BY <1>0, <2>1, <2>2 DEF SentInv
<1>3. CASE NoneQueued \/ GiveUp
  <2>1. PICK f \in {"acked", "abandoned"} : fate' = Settle(alarm_report, f)
    BY <1>3 DEF NoneQueued, GiveUp
  <2>2. /\ \A r \in Report : fate'[r] = IF r = alarm_report THEN f ELSE fate[r]
        /\ sent' = sent /\ alarm_report' = NoReport
    BY <1>3, <2>1, CloseFacts DEF NoneQueued, GiveUp, Cleared
  <2> QED
    BY <1>0, <2>2 DEF SentInv
<1>4. CASE SendAlarmReportFrameToServer
  <2>1. alarm_report \in Report /\ fate[alarm_report] = "open"
    BY <1>0, <1>4 DEF SendAlarmReportFrameToServer, OutstandingIsReport, TypeOK, FateInv
  <2>2. /\ sent' = [sent EXCEPT ![alarm_report] = @ + 1]
        /\ UNCHANGED <<alarm_report, retry_times5, fate>> /\ pc = "sending" /\ pc' = "sent"
    BY <1>4 DEF SendAlarmReportFrameToServer, waiting
  <2>3. \A r \in Report : sent'[r] = IF r = alarm_report THEN sent[r] + 1 ELSE sent[r]
    BY <1>0, <2>2 DEF TypeOK
  <2> QED
    BY <1>0, <2>1, <2>2, <2>3 DEF SentInv
<1>5. CASE Resend
  BY <1>0, <1>5 DEF Resend, AtTimeoutCheck, TypeOK, SentInv
<1>6. CASE ConcentratorRecv \/ SkipLoggedOut \/ KeepWaiting \/ EndOfLoop \/ Login
  BY <1>0, <1>6
  DEF ConcentratorRecv, SkipLoggedOut, KeepWaiting, EndOfLoop, Login, AtTimeoutCheck,
      waiting, history, SentInv
<1>7. CASE \/ DeviceTaskRecv \/ Timeout \/ Disconnect \/ ServerReceive \/ Lose
           \/ UNCHANGED vars
  BY <1>0, <1>7
  DEF DeviceTaskRecv, Timeout, Disconnect, ServerReceive, Lose, vars, waiting, history,
      SentInv
<1> QED
  BY NextCases, <1>1, <1>2, <1>3, <1>4, <1>5, <1>6, <1>7

(* Before the first timeout a report is open only while its only frame, or  *)
(* the answer to it, is under way, or after the answer was handled.         *)
LEMMA FreshStep == IInv /\ [Next]_vars => FreshInv'
<1> SUFFICES ASSUME IInv, [Next]_vars, timeouts' = 0 PROVE Fresh'
  BY DEF FreshInv
<1> USE ReportAssumption
<1>0. TypeOK /\ OutstandingIsReport /\ SentInv /\ FreshInv
  BY DEF IInv
<1>1. timeouts = 0 /\ Fresh
  <2>1. timeouts' = timeouts \/ timeouts' = timeouts + 1
    <3>1. CASE Resend \/ GiveUp
      BY <3>1 DEF Resend, GiveUp
    <3>2. CASE ~(Resend \/ GiveUp)
      BY <3>2, NextCases
      DEF Offer, ConcentratorRecv, SkipLoggedOut, TakeNext, NoneQueued,
          SendAlarmReportFrameToServer, KeepWaiting, EndOfLoop, DeviceTaskRecv,
          Timeout, Login, Disconnect, ServerReceive, Lose, vars, history
    <3> QED
      BY <3>1, <3>2
  <2> QED
    BY <1>0, <2>1 DEF TypeOK, FreshInv
<1>2. CASE Offer \/ Timeout \/ Disconnect \/ UNCHANGED vars
  BY <1>1, <1>2 DEF Offer, Timeout, Disconnect, vars, waiting, network, Fresh
<1>3. CASE SkipLoggedOut \/ KeepWaiting \/ EndOfLoop \/ Login
  BY <1>1, <1>3
  DEF SkipLoggedOut, KeepWaiting, EndOfLoop, Login, waiting, network, Fresh
<1>4. CASE ConcentratorRecv \/ DeviceTaskRecv
  <2>1. /\ UNCHANGED <<alarm_report, retry_times5, uplink, received>>
        /\ pc' # "sending" \/ pc' = pc
        /\ \/ UNCHANGED <<AlarmReportResponse, acks>>
           \/ \E f \in acks : acks' = acks \ {f} /\ AlarmReportResponse' = 0
    BY <1>4 DEF ConcentratorRecv, DeviceTaskRecv, HandleAck
  <2>2. CASE UNCHANGED <<AlarmReportResponse, acks>>
    BY <1>1, <2>1, <2>2 DEF Fresh
  <2>3. CASE \E f \in acks : acks' = acks \ {f} /\ AlarmReportResponse' = 0
    <3>1. acks # {} /\ acks' = {} /\ AlarmReportResponse' = 0
      BY <1>1, <2>3 DEF Fresh
    <3>2. uplink = {} /\ alarm_report \in received /\ pc # "sending"
      BY <1>1, <3>1 DEF Fresh
    <3> QED
      BY <1>1, <2>1, <3>1, <3>2 DEF Fresh
  <2> QED
    BY <2>1, <2>2, <2>3
<1>5. CASE TakeNext
  BY <1>1, <1>5 DEF TakeNext, MayTakeNext, network, Fresh
<1>6. CASE NoneQueued
  BY <1>1, <1>6 DEF NoneQueued, MayTakeNext, network, Fresh
<1>7. CASE SendAlarmReportFrameToServer
  <2>1. alarm_report \in Report
    BY <1>0, <1>7 DEF SendAlarmReportFrameToServer, OutstandingIsReport, TypeOK
  <2>2. sent[alarm_report] = 0
    BY <1>0, <1>1, <1>7, <2>1 DEF SendAlarmReportFrameToServer, SentInv, Fresh, Report
  <2>3. sent'[alarm_report] = 1
    BY <1>0, <1>7, <2>1, <2>2 DEF SendAlarmReportFrameToServer, TypeOK
  <2>4. uplink' = {<<alarm_report, 1>>}
    BY <1>1, <1>7, <2>3 DEF SendAlarmReportFrameToServer, Fresh
  <2> QED
    BY <1>1, <1>7, <2>1, <2>4 DEF SendAlarmReportFrameToServer, waiting, Fresh, Report
<1>8. CASE Resend \/ GiveUp
  BY <1>1, <1>8 DEF Resend, GiveUp
<1>9. CASE ServerReceive
  <2>1. PICK f \in uplink : /\ uplink' = uplink \ {f}
                            /\ received' = received \cup {f[1]}
                            /\ acks' \in {acks, acks \cup {f}}
    BY <1>9 DEF ServerReceive
  <2>2. f = <<alarm_report, 1>> /\ acks = {} /\ uplink' = {}
    BY <1>1, <2>1 DEF Fresh
  <2>3. /\ acks' = {} \/ acks' = {<<alarm_report, 1>>}
        /\ alarm_report \in received'
    BY <2>1, <2>2
  <2>4. alarm_report # NoReport /\ AlarmReportResponse # 0 /\ pc # "sending"
    BY <1>1, <2>1 DEF Fresh
  <2> QED
    BY <1>1, <1>9, <2>2, <2>3, <2>4 DEF ServerReceive, waiting, Fresh
<1>10. CASE Lose
  BY <1>1, <1>10 DEF Lose, waiting, Fresh
<1> QED
  BY NextCases, <1>2, <1>3, <1>4, <1>5, <1>6, <1>7, <1>8, <1>9, <1>10

(* A report closed as acked before the first timeout had been received.     *)
LEMMA ExactStep == IInv /\ [Next]_vars => ExactUntilTimeout'
<1> SUFFICES ASSUME IInv, [Next]_vars, timeouts' = 0,
                    NEW r \in Report, fate'[r] = "acked"
             PROVE  r \in received'
  BY DEF ExactUntilTimeout
<1> USE ReportAssumption
<1>0. TypeOK /\ ExactUntilTimeout /\ FreshInv
  BY DEF IInv
<1>1. timeouts = 0 /\ received \subseteq received'
  <2>1. CASE Resend \/ GiveUp
    BY <1>0, <2>1 DEF Resend, GiveUp, TypeOK, network
  <2>2. CASE ~(Resend \/ GiveUp)
    BY <2>2, NextCases
    DEF Offer, ConcentratorRecv, SkipLoggedOut, TakeNext, NoneQueued,
        SendAlarmReportFrameToServer, KeepWaiting, EndOfLoop, DeviceTaskRecv,
        Timeout, Login, Disconnect, ServerReceive, Lose, vars, history, network
  <2> QED
    BY <2>1, <2>2
<1>2. CASE fate[r] = "acked"
  BY <1>0, <1>1, <1>2 DEF ExactUntilTimeout
<1>3. CASE fate[r] # "acked"
  <2>1. r = alarm_report /\ AlarmReportResponse = 0
    <3>1. CASE Offer
      BY <1>3, <3>1, OfferFacts
    <3>2. CASE TakeNext
      <4>1. fate'[r] = IF r = sendQueue[1] THEN "open"
                         ELSE IF r = alarm_report THEN "acked" ELSE fate[r]
        BY <3>2, TakeFacts
      <4>2. AlarmReportResponse = 0
        BY <3>2 DEF TakeNext, MayTakeNext
      <4> QED
        BY <1>3, <4>1, <4>2
    <3>3. CASE NoneQueued
      BY <1>3, <3>3, CloseFacts DEF NoneQueued, MayTakeNext
    <3>4. CASE GiveUp
      BY <1>3, <3>4, CloseFacts DEF GiveUp
    <3>5. CASE UNCHANGED <<offered, sendQueue, fate, alarm_report, frees>>
      BY <1>3, <3>5
    <3> QED
      BY MoveCases, <3>1, <3>2, <3>3, <3>4, <3>5
  <2> QED
    BY <1>0, <1>1, <2>1 DEF FreshInv, Fresh, Report
<1> QED
  BY <1>2, <1>3

-----------------------------------------------------------------------------
(* The initial state satisfies the inductive invariant.                     *)
LEMMA InitIInv == Init => IInv
<1> SUFFICES ASSUME Init PROVE IInv
  OBVIOUS
<1> USE ReportAssumption DEF Init
<1>1. sendQueue \in Seq(Report) /\ Len(sendQueue) = 0
  BY EmptySeq
<1>2. TypeOK
  <2>1. /\ sent \in [Report -> 0 .. MaxRetransmission + 1]
        /\ fate \in [Report -> Fate]
        /\ frees \in [Report -> Nat]
    BY DEF Fate
  <2>2. /\ offered \in 0 .. MaxReport
        /\ Len(sendQueue) <= SendQueueLen
        /\ retry_times5 \in 0 .. MaxRetransmission
        /\ disconnects \in 0 .. MaxDisconnect
    BY <1>1
  <2> QED
    BY <1>1, <2>1, <2>2 DEF TypeOK
<1>3. OutstandingIsReport
  BY DEF OutstandingIsReport
<1>4. QueueInv
  BY <1>1 DEF QueueInv
<1>5. FateInv
  BY DEF FateInv, Report
<1>6. SentInv
  BY DEF SentInv
<1>7. FreshInv
  BY DEF FreshInv, Fresh
<1>8. ExactUntilTimeout
  BY DEF ExactUntilTimeout
<1> QED
  BY <1>2, <1>3, <1>4, <1>5, <1>6, <1>7, <1>8 DEF IInv

(* IInv is an inductive invariant of the sender.                            *)
THEOREM Invariance == Spec => []IInv
<1>1. IInv /\ [Next]_vars => IInv'
  BY TypeOKStep, OutstandingStep, QueueStep, FateStep, SentStep, FreshStep, ExactStep
  DEF IInv
<1> QED
  BY InitIInv, <1>1, PTL DEF Spec

(* IInv implies that a report is referred to as often as it is not freed.   *)
LEMMA OwnedOnce == IInv => OneOwner
<1> SUFFICES ASSUME IInv, NEW r \in Report
             PROVE  References(r) + frees[r] = IF r <= offered THEN 1 ELSE 0
  BY DEF OneOwner
<1> USE ReportAssumption
<1> DEFINE Places == {i \in DOMAIN sendQueue : sendQueue[i] = r}
<1>1. /\ Len(sendQueue) \in Nat /\ DOMAIN sendQueue = 1 .. Len(sendQueue)
      /\ \A i \in 1 .. Len(sendQueue) : sendQueue[i] \in Report
      /\ fate[r] \in Fate
  BY LenProperties, ElementOfSeq DEF IInv, TypeOK
<1>2. Cardinality(Places) = IF fate[r] = "queued" THEN 1 ELSE 0
  <2>1. CASE fate[r] = "queued"
    <3>1. PICK i \in 1 .. Len(sendQueue) : sendQueue[i] = r
      BY <2>1 DEF IInv, QueueInv
    <3>2. \A j \in 1 .. Len(sendQueue) : sendQueue[j] = r => j = i
      BY <1>1, <3>1 DEF IInv, QueueInv, Report
    <3>3. Places = {i}
      BY <1>1, <3>1, <3>2
    <3> QED
      BY <2>1, <3>3, FS_Singleton
  <2>2. CASE fate[r] # "queued"
    <3>1. Places = {}
      BY <1>1, <2>2 DEF IInv, QueueInv
    <3> QED
      BY <2>2, <3>1, FS_EmptySet
  <2> QED
    BY <2>1, <2>2
<1>3. References(r) = (IF fate[r] = "queued" THEN 1 ELSE 0)
                        + (IF fate[r] = "open" THEN 1 ELSE 0)
  BY <1>2 DEF References, IInv, FateInv
<1>4. /\ frees[r] = IF fate[r] \in {"acked", "abandoned", "dropped"} THEN 1 ELSE 0
      /\ fate[r] = "unborn" <=> offered < r
  BY DEF IInv, FateInv
<1>5. offered \in Nat /\ r \in Nat
  BY DEF IInv, TypeOK, Report
<1> QED
  BY <1>1, <1>3, <1>4, <1>5 DEF Fate

(* The sender's state always has its type: in particular retry_times5 never *)
(* exceeds command_retransmission_times and the queue its length.           *)
THEOREM TypeCorrect == Spec => []TypeOK
<1>1. IInv => TypeOK
  BY DEF IInv
<1> QED
  BY Invariance, <1>1, PTL

(* Every report is owned once until it is freed, and freed once: the        *)
(* hand-over from queue to pointer to vPortFree neither leaks nor frees     *)
(* twice, whatever acknowledgements and timeouts come.                      *)
THEOREM Ownership == Spec => []OneOwner
BY Invariance, OwnedOnce, PTL

(* The goto RE_SEND_ALARM_REPORT never transmits a NULL report.             *)
THEOREM NeverSendsNull == Spec => []OutstandingIsReport
<1>1. IInv => OutstandingIsReport
  BY DEF IInv
<1> QED
  BY Invariance, <1>1, PTL

(* Until the first response timeout an acknowledgement closes the report it *)
(* answers, although the handler does not look at which one it answers.     *)
THEOREM ExactAcknowledgement == Spec => []ExactUntilTimeout
<1>1. IInv => ExactUntilTimeout
  BY DEF IInv
<1> QED
  BY Invariance, <1>1, PTL

-----------------------------------------------------------------------------
(* Wrong acknowledgements are counted by transmissions: each one costs an   *)
(* answer that the sender no longer waits for, and only a timeout makes the *)
(* sender transmit once more than it waits.                                 *)

(* The transmissions that may still be answered, or were never heard: their *)
(* report was not received, or is the one being waited for.                 *)
Unheard == {f \in Frame : /\ f[2] <= sent[f[1]]
                          /\ \/ f[1] \notin received
                             \/ AlarmReportResponse = 1 /\ f[1] = alarm_report}
Unspent == acks \cup uplink \cup Unheard

(* Only frames that were sent are under way, an answer is to a frame that   *)
(* arrived, and a report is closed as acked only after a transmission.      *)
UnderWay ==
  /\ \A f \in uplink \cup acks : f[2] <= sent[f[1]]
  /\ \A f \in acks : f[1] \in received /\ f \notin uplink
  /\ \A r \in Report : fate[r] = "acked" => sent[r] >= 1

(* A transmission is paid for by the timeout before it or by the answer the *)
(* sender waits for; the one about to be made is counted already.           *)
Credit ==
  Cardinality(Unspent) + (IF pc = "sending" THEN 1 ELSE 0)
    <= timeouts + AlarmReportResponse

SpentInv == UnderWay /\ Credit

(* The transmissions of the model are finitely many.                        *)
LEMMA FrameFinite == IsFiniteSet(Frame)
<1>1. IsFiniteSet(Report) /\ IsFiniteSet(1 .. MaxRetransmission + 1)
  BY ReportAssumption, FS_Interval DEF Report
<1> QED
  BY <1>1, FS_Product DEF Frame

(* Unspent is a finite set of transmissions.                                *)
LEMMA UnspentType ==
  ASSUME TypeOK
  PROVE  Unspent \in SUBSET Frame /\ IsFiniteSet(Unspent) /\ Cardinality(Unspent) \in Nat
<1>1. Unspent \in SUBSET Frame
  BY DEF TypeOK, Unspent, Unheard
<1> QED
  BY <1>1, FrameFinite, FS_Subset, FS_CardinalityType

(* A set inside another one, or inside it without one of its elements.      *)
LEMMA Fewer ==
  ASSUME NEW S, NEW T, IsFiniteSet(S), T \subseteq S
  PROVE  /\ Cardinality(T) <= Cardinality(S)
         /\ \A x \in S : x \notin T => Cardinality(T) <= Cardinality(S) - 1
         /\ Cardinality(S) \in Nat /\ Cardinality(T) \in Nat
<1>1. /\ Cardinality(T) <= Cardinality(S) /\ IsFiniteSet(T)
      /\ Cardinality(S) \in Nat /\ Cardinality(T) \in Nat
  BY FS_Subset, FS_CardinalityType
<1>2. ASSUME NEW x \in S, x \notin T PROVE Cardinality(T) <= Cardinality(S) - 1
  <2>1. IsFiniteSet(S \ {x}) /\ Cardinality(S \ {x}) = Cardinality(S) - 1
    BY FS_RemoveElement
  <2>2. T \in SUBSET (S \ {x})
    BY <1>2
  <2> QED
    BY <2>1, <2>2, FS_Subset
<1> QED
  BY <1>1, <1>2

(* No new transmission to account for when nothing is sent, nothing new is  *)
(* under way and no other report is waited for.                             *)
LEMMA UnspentShrinks ==
  ASSUME acks' \cup uplink' \subseteq acks \cup uplink, sent' = sent,
         received \subseteq received',
         AlarmReportResponse' = 1 =>
           AlarmReportResponse = 1 /\ alarm_report' = alarm_report
  PROVE  Unspent' \subseteq Unspent
BY DEF Unspent, Unheard

(* The bookkeeping of frames is kept: by a transmission, by the server that *)
(* answers and by everything that only loses frames.                        *)
LEMMA UnderWayStep == IInv /\ UnderWay /\ [Next]_vars => UnderWay'
<1> SUFFICES ASSUME IInv, UnderWay, [Next]_vars PROVE UnderWay'
  OBVIOUS
<1> USE ReportAssumption
<1>0. TypeOK /\ SentInv /\ FateInv
  BY DEF IInv
<1>1. \A r \in Report : fate'[r] = "acked" => sent'[r] >= 1
  <2> SUFFICES ASSUME NEW r \in Report, fate'[r] = "acked" PROVE sent'[r] >= 1
    OBVIOUS
  <2>1. sent'[r] >= sent[r] /\ sent[r] \in Nat /\ sent'[r] \in Nat
    <3>1. CASE SendAlarmReportFrameToServer
      BY <1>0, <3>1 DEF SendAlarmReportFrameToServer, TypeOK
    <3>2. CASE ~SendAlarmReportFrameToServer
      <4>1. sent' = sent
        BY <3>2, NextCases
        DEF Offer, ConcentratorRecv, SkipLoggedOut, TakeNext, NoneQueued, KeepWaiting,
            Resend, GiveUp, EndOfLoop, DeviceTaskRecv, Timeout, Login, Disconnect,
            ServerReceive, Lose, vars, history
      <4> QED
        BY <1>0, <4>1 DEF TypeOK
    <3> QED
      BY <3>1, <3>2
  <2>2. CASE fate[r] = "acked"
    BY <2>1, <2>2 DEF UnderWay
  <2>3. CASE fate[r] # "acked"
    <3>1. r = alarm_report /\ pc = "auto"
      <4>1. CASE Offer
        BY <2>3, <4>1, OfferFacts
      <4>2. CASE TakeNext
        <5>1. fate'[r] = IF r = sendQueue[1] THEN "open"
                           ELSE IF r = alarm_report THEN "acked" ELSE fate[r]
          BY <4>2, TakeFacts
        <5>2. pc = "auto"
          BY <4>2 DEF TakeNext, MayTakeNext
        <5> QED
          BY <2>3, <5>1, <5>2
      <4>3. CASE NoneQueued
        BY <2>3, <4>3, CloseFacts DEF NoneQueued, MayTakeNext
      <4>4. CASE GiveUp
        BY <2>3, <4>4, CloseFacts DEF GiveUp
      <4>5. CASE UNCHANGED <<offered, sendQueue, fate, alarm_report, frees>>
        BY <2>3, <4>5
      <4> QED
        BY MoveCases, <4>1, <4>2, <4>3, <4>4, <4>5
    <3>2. sent[r] = retry_times5 + 1 /\ retry_times5 \in Nat
      BY <1>0, <3>1 DEF SentInv, TypeOK, Report
    <3> QED
      BY <2>1, <3>2
  <2> QED
    BY <2>2, <2>3
<1>2. /\ \A f \in uplink' \cup acks' : f[2] <= sent'[f[1]]
      /\ \A f \in acks' : f[1] \in received' /\ f \notin uplink'
  <2>1. CASE SendAlarmReportFrameToServer
    <3>1. alarm_report \in Report
      BY <1>0, <2>1 DEF SendAlarmReportFrameToServer, IInv, OutstandingIsReport, TypeOK
    <3>2. /\ \A r \in Report : sent[r] \in Nat
                               /\ sent'[r] = IF r = alarm_report THEN sent[r] + 1 ELSE sent[r]
          /\ uplink' = uplink \cup {<<alarm_report, sent[alarm_report] + 1>>}
          /\ acks' = acks /\ received' = received
      BY <1>0, <2>1, <3>1 DEF SendAlarmReportFrameToServer, TypeOK
    <3>3. \A f \in uplink \cup acks : f[1] \in Report /\ f[2] \in Nat /\ f[2] <= sent[f[1]]
      BY <1>0 DEF TypeOK, Frame, UnderWay
    <3>4. ASSUME NEW f \in uplink' \cup acks' PROVE f[2] <= sent'[f[1]]
      <4>1. CASE f \in uplink \cup acks
        <5>1. f[1] \in Report /\ f[2] \in Nat /\ f[2] <= sent[f[1]]
          BY <3>3, <4>1
        <5> QED
          BY <3>2, <5>1
      <4>2. CASE f = <<alarm_report, sent[alarm_report] + 1>>
        BY <3>1, <3>2, <4>2
      <4> QED
        BY <3>2, <3>4, <4>1, <4>2
    <3>5. ASSUME NEW f \in acks' PROVE f[1] \in received' /\ f \notin uplink'
      <4>1. f \in acks /\ f[1] \in Report /\ f[2] <= sent[f[1]]
        BY <3>2, <3>3, <3>5
      <4>2. f # <<alarm_report, sent[alarm_report] + 1>>
        BY <3>1, <3>2, <4>1
      <4> QED
        BY <3>2, <4>1, <4>2 DEF UnderWay
    <3> QED
      BY <3>4, <3>5
  <2>2. CASE ServerReceive
    <3>1. sent' = sent
      BY <2>2 DEF ServerReceive, history
    <3> QED
      BY <2>2, <3>1 DEF ServerReceive, UnderWay
  <2>3. CASE ConcentratorRecv \/ DeviceTaskRecv \/ Lose
    <3>1. sent' = sent /\ acks' \subseteq acks /\ uplink' \subseteq uplink
          /\ received' = received
      BY <2>3 DEF ConcentratorRecv, DeviceTaskRecv, HandleAck, Lose, history
    <3> QED
      BY <3>1 DEF UnderWay
  <2>4. CASE \/ Offer \/ SkipLoggedOut \/ TakeNext \/ NoneQueued \/ KeepWaiting \/ Resend
             \/ GiveUp \/ EndOfLoop \/ Timeout \/ Login \/ Disconnect \/ UNCHANGED vars
    <3>1. UNCHANGED <<sent, acks, uplink, received>>
      BY <2>4
      DEF Offer, SkipLoggedOut, TakeNext, NoneQueued, KeepWaiting, Resend, GiveUp,
          EndOfLoop, Timeout, Login, Disconnect, vars, network, history
    <3> QED
      BY <3>1 DEF UnderWay
  <2> QED
    BY NextCases, <2>1, <2>2, <2>3, <2>4
<1> QED
  BY <1>1, <1>2 DEF UnderWay

(* An answer that is handled, whatever it answers, is spent: it is neither  *)
(* under way nor unheard, and no answer is waited for.                      *)
LEMMA AckSpends ==
  ASSUME IInv, SpentInv, NEW t, HandleAck(t),
         UNCHANGED <<uplink, sent, received, timeouts>>,
         (pc' = "sending") = (pc = "sending")
  PROVE  Credit'
<1>1. PICK f \in acks : acks' = acks \ {f}
  BY DEF HandleAck
<1>2. AlarmReportResponse' = 0
  BY DEF HandleAck
<1>3. f \in Unspent /\ f \notin uplink /\ f[1] \in received
  BY DEF SpentInv, UnderWay, Unspent
<1>4. Unspent' \subseteq Unspent
  BY <1>1, <1>2, UnspentShrinks
<1>5. f \notin Unspent'
  BY <1>1, <1>2, <1>3 DEF Unspent, Unheard
<1>6. TypeOK /\ AlarmReportResponse \in {0, 1} /\ timeouts \in Nat
  BY DEF IInv, TypeOK
<1>7. /\ Cardinality(Unspent') <= Cardinality(Unspent) - 1
      /\ Cardinality(Unspent) \in Nat /\ Cardinality(Unspent') \in Nat
  BY <1>3, <1>4, <1>5, <1>6, UnspentType, Fewer
<1> QED
  BY <1>2, <1>6, <1>7 DEF SpentInv, Credit

(* A transmission adds one frame to what is unspent, the one counted before.*)
LEMMA SendSpends ==
  ASSUME IInv, SpentInv, SendAlarmReportFrameToServer
  PROVE  Credit'
<1>1. alarm_report \in Report /\ TypeOK
  BY DEF SendAlarmReportFrameToServer, IInv, OutstandingIsReport, TypeOK
<1> DEFINE f == <<alarm_report, sent[alarm_report] + 1>>
<1>2. /\ \A r \in Report : sent[r] \in Nat
                           /\ sent'[r] = IF r = alarm_report THEN sent[r] + 1 ELSE sent[r]
      /\ uplink' = uplink \cup {f} /\ acks' = acks /\ received' = received
      /\ UNCHANGED <<alarm_report, AlarmReportResponse, timeouts>>
      /\ pc = "sending" /\ pc' = "sent"
  BY <1>1 DEF SendAlarmReportFrameToServer, TypeOK, waiting
<1>3. Unspent' \subseteq Unspent \cup {f}
  <2> SUFFICES ASSUME NEW g \in Unspent', g # f PROVE g \in Unspent
    OBVIOUS
  <2>1. CASE g \in acks' \cup uplink'
    BY <1>2, <2>1 DEF Unspent
  <2>2. CASE g \in Unheard'
    <3>1. /\ g \in Frame /\ g[2] <= sent'[g[1]]
          /\ g[1] \notin received \/ (AlarmReportResponse = 1 /\ g[1] = alarm_report)
      BY <1>2, <2>2 DEF Unheard
    <3>2. g = <<g[1], g[2]>> /\ g[1] \in Report /\ g[2] \in Nat
      BY <3>1 DEF Frame
    <3>3. g[2] <= sent[g[1]]
      BY <1>2, <3>1, <3>2
    <3> QED
      BY <3>1, <3>3 DEF Unspent, Unheard
  <2> QED
    BY <2>1, <2>2 DEF Unspent
<1>4. IsFiniteSet(Unspent) /\ Cardinality(Unspent) \in Nat
  BY <1>1, UnspentType
<1>5. IsFiniteSet(Unspent \cup {f}) /\ Cardinality(Unspent \cup {f}) <= Cardinality(Unspent) + 1
  BY <1>4, FS_AddElement
<1>6. /\ Cardinality(Unspent') <= Cardinality(Unspent \cup {f})
      /\ Cardinality(Unspent') \in Nat /\ Cardinality(Unspent \cup {f}) \in Nat
  BY <1>3, <1>5, Fewer
<1>7. AlarmReportResponse \in Nat /\ timeouts \in Nat
  BY <1>1 DEF TypeOK
<1> QED
  BY <1>2, <1>4, <1>5, <1>6, <1>7 DEF SpentInv, Credit

(* Taking the next report pays for its transmission by waiting for it: none *)
(* of its frames has been sent before.                                      *)
LEMMA TakeSpends ==
  ASSUME IInv, SpentInv, TakeNext
  PROVE  Credit'
<1> USE ReportAssumption
<1>1. /\ alarm_report' \in Report /\ fate[alarm_report'] = "queued" /\ TypeOK
      /\ AlarmReportResponse = 0 /\ pc = "auto"
      /\ AlarmReportResponse' = 1 /\ pc' = "sending"
      /\ UNCHANGED <<acks, uplink, sent, received, timeouts>>
  BY TakeFacts DEF TakeNext, MayTakeNext, network, IInv
<1>2. sent[alarm_report'] = 0
  BY <1>1 DEF IInv, SentInv
<1>3. Unspent' \subseteq Unspent
  <2> SUFFICES ASSUME NEW g \in Unheard', g[1] = alarm_report' PROVE FALSE
    BY <1>1 DEF Unspent, Unheard
  <2>1. g \in Frame /\ g[2] <= sent[g[1]]
    BY <1>1 DEF Unheard
  <2> QED
    BY <1>2, <2>1 DEF Frame
<1>4. /\ Cardinality(Unspent') <= Cardinality(Unspent)
      /\ Cardinality(Unspent) \in Nat /\ Cardinality(Unspent') \in Nat
  BY <1>1, <1>3, UnspentType, Fewer
<1>5. timeouts \in Nat
  BY <1>1 DEF TypeOK
<1> QED
  BY <1>1, <1>4, <1>5 DEF SpentInv, Credit

(* Every step keeps wrong acknowledgements paid for.                        *)
LEMMA CreditStep == IInv /\ SpentInv /\ [Next]_vars => Credit'
<1> SUFFICES ASSUME IInv, SpentInv, [Next]_vars PROVE Credit'
  OBVIOUS
<1>0. TypeOK /\ timeouts \in Nat /\ AlarmReportResponse \in {0, 1}
      /\ Cardinality(Unspent) + (IF pc = "sending" THEN 1 ELSE 0)
           <= timeouts + AlarmReportResponse
  BY DEF IInv, TypeOK, SpentInv, Credit
<1>1. ASSUME Unspent' \subseteq Unspent
      PROVE  /\ Cardinality(Unspent') <= Cardinality(Unspent)
             /\ Cardinality(Unspent) \in Nat /\ Cardinality(Unspent') \in Nat
  BY <1>0, <1>1, UnspentType, Fewer
<1>2. CASE TakeNext
  BY <1>2, TakeSpends
<1>3. CASE SendAlarmReportFrameToServer
  BY <1>3, SendSpends
<1>4. CASE ConcentratorRecv
  <2>1. CASE HandleAck(Concentrator)
    <3>1. pc # "sending" /\ pc' # "sending"
          /\ UNCHANGED <<uplink, sent, received, timeouts>>
      BY <1>4 DEF ConcentratorRecv, history
    <3> QED
      BY <2>1, <3>1, AckSpends
  <2>2. CASE UNCHANGED <<AlarmReportResponse, acks>>
    <3>1. /\ UNCHANGED <<acks, uplink, sent, received, AlarmReportResponse, alarm_report,
                         timeouts>>
          /\ pc # "sending" /\ pc' # "sending"
      BY <1>4, <2>2 DEF ConcentratorRecv, history
    <3>2. Unspent' \subseteq Unspent
      BY <3>1, UnspentShrinks
    <3> QED
      BY <1>0, <1>1, <3>1, <3>2 DEF Credit
  <2> QED
    BY <1>4, <2>1, <2>2 DEF ConcentratorRecv
<1>5. CASE DeviceTaskRecv
  <2>1. PICK t \in DeviceTask : HandleAck(t)
    BY <1>5 DEF DeviceTaskRecv
  <2>2. pc' = pc /\ UNCHANGED <<uplink, sent, received, timeouts>>
    BY <1>5 DEF DeviceTaskRecv, history
  <2> QED
    BY <2>1, <2>2, AckSpends
<1>6. CASE Resend \/ GiveUp
  <2>1. /\ UNCHANGED <<acks, uplink, sent, received>>
        /\ AlarmReportResponse' = 1 =>
             AlarmReportResponse = 1 /\ alarm_report' = alarm_report
        /\ timeouts' = timeouts + 1 /\ AlarmReportResponse = 1 /\ pc # "sending"
        /\ \/ AlarmReportResponse' = 1
           \/ AlarmReportResponse' = 0 /\ pc' = "poll"
    BY <1>6 DEF Resend, GiveUp, AtTimeoutCheck, network
  <2>2. Unspent' \subseteq Unspent
    BY <2>1, UnspentShrinks
  <2>3. (IF pc' = "sending" THEN 1 ELSE 0) <= 1 /\ (IF pc' = "sending" THEN 1 ELSE 0) \in Nat
    OBVIOUS
  <2> QED
    BY <1>0, <1>1, <2>1, <2>2, <2>3 DEF Credit
<1>7. CASE \/ Offer \/ SkipLoggedOut \/ NoneQueued \/ KeepWaiting \/ EndOfLoop \/ Timeout
           \/ Login \/ Disconnect \/ ServerReceive \/ Lose \/ UNCHANGED vars
  <2>1. /\ acks' \cup uplink' \subseteq acks \cup uplink
        /\ UNCHANGED <<sent, AlarmReportResponse, timeouts>>
        /\ received \subseteq received'
        /\ AlarmReportResponse = 0 \/ alarm_report' = alarm_report
        /\ pc' = "sending" <=> pc = "sending"
    BY <1>7
    DEF Offer, SkipLoggedOut, NoneQueued, MayTakeNext, KeepWaiting, AtTimeoutCheck,
        EndOfLoop, Timeout, Login, Disconnect, ServerReceive, Lose, vars, waiting,
        network, history
  <2>2. Unspent' \subseteq Unspent
    BY <2>1, UnspentShrinks
  <2> QED
    BY <1>0, <1>1, <2>1, <2>2 DEF Credit
<1> QED
  BY NextCases, <1>2, <1>3, <1>4, <1>5, <1>6, <1>7

(* Initially nothing is sent and nothing is waited for.                     *)
LEMMA InitSpent == Init => SpentInv
<1> SUFFICES ASSUME Init PROVE SpentInv
  OBVIOUS
<1>1. Unspent = {}
  BY DEF Init, Unspent, Unheard, Frame
<1>2. Credit
  BY <1>1, FS_EmptySet DEF Init, Credit
<1>3. UnderWay
  BY DEF Init, UnderWay
<1> QED
  BY <1>2, <1>3 DEF SpentInv

(* The wrongly acknowledged reports are unheard, each by its first frame;   *)
(* when an answer is waited for, so is the report that waits.               *)
LEMMA SpentBounds == IInv /\ SpentInv => MisackBound
<1> SUFFICES ASSUME IInv, SpentInv PROVE MisackBound
  OBVIOUS
<1> USE ReportAssumption
<1>0. /\ TypeOK /\ timeouts \in Nat /\ AlarmReportResponse \in {0, 1}
      /\ IsFiniteSet(Unspent) /\ Cardinality(Unspent) \in Nat
  BY UnspentType DEF IInv, TypeOK
<1> DEFINE First == [r \in WronglyAcked |-> <<r, 1>>]
<1>1. ASSUME NEW r \in Report, sent[r] >= 1,
             r \notin received \/ (AlarmReportResponse = 1 /\ r = alarm_report)
      PROVE  <<r, 1>> \in Unspent
  <2>1. <<r, 1>> \in Frame
    BY DEF Frame
  <2> QED
    BY <1>1, <2>1 DEF Unspent, Unheard
<1>2. \A r \in WronglyAcked : r \in Report /\ <<r, 1>> \in Unspent
  <2> SUFFICES ASSUME NEW r \in WronglyAcked PROVE r \in Report /\ <<r, 1>> \in Unspent
    OBVIOUS
  <2>1. r \in Report /\ r \notin received /\ fate[r] = "acked"
    BY DEF WronglyAcked
  <2>2. sent[r] >= 1
    BY <2>1 DEF SpentInv, UnderWay
  <2> QED
    BY <1>1, <2>1, <2>2
<1>3. CASE pc = "sending" \/ AlarmReportResponse = 0
  <2>1. First \in Injection(WronglyAcked, Unspent)
    BY <1>2 DEF Injection, IsInjective
  <2>2. Cardinality(WronglyAcked) <= Cardinality(Unspent) /\ IsFiniteSet(WronglyAcked)
    BY <1>0, <2>1, FS_Injection
  <2>3. Cardinality(WronglyAcked) \in Nat
    BY <2>2, FS_CardinalityType
  <2> QED
    BY <1>0, <1>3, <2>2, <2>3 DEF MisackBound, SpentInv, Credit
<1>4. CASE pc # "sending" /\ AlarmReportResponse = 1
  <2> DEFINE w == <<alarm_report, 1>>
  <2>1. alarm_report \in Report /\ fate[alarm_report] = "open"
    BY <1>0, <1>4 DEF IInv, OutstandingIsReport, FateInv, TypeOK
  <2>2. sent[alarm_report] >= 1
    BY <1>0, <1>4, <2>1 DEF IInv, SentInv, TypeOK, Report
  <2>3. w \in Unspent /\ \A r \in WronglyAcked : <<r, 1>> # w
    BY <1>1, <1>4, <2>1, <2>2 DEF WronglyAcked
  <2>4. IsFiniteSet(Unspent \ {w}) /\ Cardinality(Unspent \ {w}) = Cardinality(Unspent) - 1
    BY <1>0, <2>3, FS_RemoveElement
  <2>5. First \in Injection(WronglyAcked, Unspent \ {w})
    BY <1>2, <2>3 DEF Injection, IsInjective
  <2>6. Cardinality(WronglyAcked) <= Cardinality(Unspent) - 1 /\ IsFiniteSet(WronglyAcked)
    BY <2>4, <2>5, FS_Injection
  <2>7. Cardinality(WronglyAcked) \in Nat
    BY <2>6, FS_CardinalityType
  <2> QED
    BY <1>0, <1>4, <2>6, <2>7 DEF MisackBound, SpentInv, Credit
<1> QED
  BY <1>0, <1>3, <1>4

(* However late, lost or out of order the answers are, and whatever reports *)
(* they answer, the handler that clears AlarmReportResponse without looking *)
(* closes no more reports wrongly than response timeouts have passed.       *)
THEOREM MisackAlwaysBounded == Spec => []MisackBound
<1>1. IInv /\ SpentInv /\ [Next]_vars => SpentInv'
  BY UnderWayStep, CreditStep DEF SpentInv
<1> QED
  BY Invariance, InitSpent, SpentBounds, <1>1, PTL DEF Spec

-----------------------------------------------------------------------------
(* Refinement: what the sender does to the fates is OrderedDelivery.        *)

(* The sender starts where OrderedDelivery starts.                          *)
LEMMA DeliveryInit == Init => Delivery!Init
BY DEF Init, Delivery!Init, Report, Delivery!Report

(* Closing the open report and taking the next one is Open or Acknowledge.  *)
LEMMA TakeRefines == IInv /\ TakeNext => Delivery!Open \/ Delivery!Acknowledge
<1> SUFFICES ASSUME IInv, TakeNext PROVE Delivery!Open \/ Delivery!Acknowledge
  OBVIOUS
<1> USE ReportAssumption DEF Delivery!Report, Report
<1> DEFINE n == sendQueue[1]
<1>1. /\ n \in Report /\ fate[n] = "queued" /\ Len(sendQueue) \in Nat \ {0}
      /\ \A r \in Report : fate'[r] = IF r = n THEN "open"
                             ELSE IF r = alarm_report THEN "acked" ELSE fate[r]
      /\ alarm_report # n
  BY TakeFacts
<1>2. offered' = offered /\ sent' = sent /\ pc = "auto" /\ fate' \in [Report -> Fate]
  BY TypeOKStep DEF TakeNext, MayTakeNext, offers, IInv, TypeOK, Next, ConcentratorStep
<1>3. ASSUME NEW q \in 1 .. n - 1 PROVE fate[q] # "queued"
  <2>1. SUFFICES ASSUME fate[q] = "queued" PROVE FALSE
    OBVIOUS
  <2>2. q \in Report /\ q < n
    BY <1>1
  <2>3. PICK i \in 1 .. Len(sendQueue) : sendQueue[i] = q
    BY <2>1, <2>2 DEF IInv, QueueInv
  <2>4. 1 < i => n < q
    BY <1>1, <2>3 DEF IInv, QueueInv
  <2> QED
    BY <1>1, <2>2, <2>3, <2>4
<1>4. Delivery!IsNext(n)
  BY <1>1, <1>3 DEF Delivery!IsNext
<1>5. fate \in [Report -> Fate] /\ sent \in [Report -> 0 .. MaxRetransmission + 1]
      /\ alarm_report \in Report \cup {NoReport} /\ retry_times5 \in Nat
  BY DEF IInv, TypeOK
<1>6. CASE alarm_report = NoReport
  <2>1. fate' = [fate EXCEPT ![n] = "open"]
    BY <1>1, <1>2, <1>5, <1>6
  <2>2. Delivery!NoneOpen
    BY <1>6 DEF Delivery!NoneOpen, IInv, FateInv
  <2> QED
    BY <1>1, <1>2, <1>4, <2>1, <2>2 DEF Delivery!Open
<1>7. CASE alarm_report \in Report
  <2>1. fate' = [fate EXCEPT ![alarm_report] = "acked", ![n] = "open"]
    BY <1>1, <1>2, <1>5, <1>7
  <2>2. fate[alarm_report] = "open"
    BY <1>7 DEF IInv, FateInv
  <2>3. sent[alarm_report] > 0
    BY <1>2, <1>5, <1>7 DEF IInv, SentInv
  <2> QED
    BY <1>1, <1>2, <1>4, <1>7, <2>1, <2>2, <2>3 DEF Delivery!Acknowledge
<1> QED
  BY <1>5, <1>6, <1>7

(* Every step of the sender is a step of OrderedDelivery or leaves it alone.*)
LEMMA DeliveryStep == IInv /\ [Next]_vars => [Delivery!Next]_(Delivery!vars)
<1> SUFFICES ASSUME IInv, [Next]_vars PROVE [Delivery!Next]_(Delivery!vars)
  OBVIOUS
<1> USE ReportAssumption DEF Delivery!Report, Report
<1>0. /\ fate \in [Report -> Fate] /\ sent \in [Report -> 0 .. MaxRetransmission + 1]
      /\ alarm_report \in Report \cup {NoReport} /\ retry_times5 \in 0 .. MaxRetransmission
      /\ NoReport \notin Report
  BY DEF IInv, TypeOK
<1>1. CASE Offer
  <2>1. \E f \in {"queued", "dropped"} : fate' = [fate EXCEPT ![offered'] = f]
    <3>1. offered' # NoReport
      BY <1>1, OfferFacts
    <3> QED
      BY <1>1, <3>1 DEF Offer, Settle
  <2> QED
    BY <1>1, <2>1 DEF Offer, Delivery!Next, Delivery!Offer
<1>2. CASE TakeNext
  BY <1>2, TakeRefines DEF Delivery!Next
<1>3. CASE NoneQueued
  <2>1. \A q \in Report : fate[q] # "queued"
    BY <1>3, EmptySeq DEF NoneQueued, IInv, QueueInv
  <2>2. offered' = offered /\ sent' = sent /\ fate' = Settle(alarm_report, "acked")
    BY <1>3 DEF NoneQueued, offers
  <2>3. CASE alarm_report = NoReport
    BY <2>2, <2>3 DEF Settle, Delivery!vars
  <2>4. CASE alarm_report \in Report
    <3>1. fate[alarm_report] = "open" /\ sent[alarm_report] > 0
      BY <1>0, <1>3, <2>4 DEF NoneQueued, MayTakeNext, IInv, FateInv, SentInv
    <3>2. fate' = [fate EXCEPT ![alarm_report] = "acked"]
      BY <1>0, <2>2, <2>4 DEF Settle
    <3> QED
      BY <2>1, <2>2, <2>4, <3>1, <3>2 DEF Delivery!Next, Delivery!Acknowledge
  <2> QED
    BY <1>0, <2>3, <2>4
<1>4. CASE SendAlarmReportFrameToServer
  <2>1. alarm_report \in Report /\ fate[alarm_report] = "open"
    BY <1>0, <1>4
    DEF SendAlarmReportFrameToServer, IInv, OutstandingIsReport, FateInv
  <2>2. sent[alarm_report] < MaxRetransmission + 1
    BY <1>0, <1>4, <2>1 DEF SendAlarmReportFrameToServer, IInv, SentInv
  <2> QED
    BY <1>4, <2>1, <2>2
    DEF SendAlarmReportFrameToServer, offers, Delivery!Next, Delivery!Transmit
<1>5. CASE GiveUp
  <2>1. alarm_report \in Report /\ fate[alarm_report] = "open"
    BY <1>0, <1>5 DEF GiveUp, IInv, OutstandingIsReport, FateInv
  <2>2. sent[alarm_report] = MaxRetransmission + 1
    BY <1>0, <1>5, <2>1 DEF GiveUp, AtTimeoutCheck, RetriesLeft, IInv, SentInv
  <2>3. fate' = [fate EXCEPT ![alarm_report] = "abandoned"] /\ offered' = offered
        /\ sent' = sent
    BY <1>0, <1>5, <2>1 DEF GiveUp, Settle, offers
  <2> QED
    BY <2>1, <2>2, <2>3 DEF Delivery!Next, Delivery!Abandon
<1>6. CASE ConcentratorRecv \/ SkipLoggedOut \/ KeepWaiting \/ Resend \/ EndOfLoop
  BY <1>6
  DEF ConcentratorRecv, SkipLoggedOut, KeepWaiting, Resend, EndOfLoop, offers, history,
      Delivery!vars
<1>7. CASE \/ DeviceTaskRecv \/ Timeout \/ Login \/ Disconnect \/ ServerReceive \/ Lose
           \/ UNCHANGED vars
  BY <1>7
  DEF DeviceTaskRecv, Timeout, Login, Disconnect, ServerReceive, Lose, vars, offers,
      history, Delivery!vars
<1> QED
  BY NextCases, <1>1, <1>2, <1>3, <1>4, <1>5, <1>6, <1>7

(* The sender implements OrderedDelivery: reports are opened in the order   *)
(* they were queued, one at a time, transmitted at most once more than      *)
(* command_retransmission_times, and closed as acknowledged only after a    *)
(* transmission and as abandoned only after the last one.                   *)
THEOREM Refinement == Spec => DeliverySpec
BY Invariance, DeliveryInit, DeliveryStep, PTL DEF Spec, DeliverySpec, Delivery!Spec
=============================================================================
