-------------------------- MODULE AlarmPushProofs --------------------------
(***************************************************************************)
(* Proofs about AlarmPush, for any number of detectors and reports and any  *)
(* lengths of the queues: the types, the ownership of copies and reports,   *)
(* the order in which each detector's reports are seen, and how far the     *)
(* number of alarms drifts.                                                 *)
(***************************************************************************)
EXTENDS AlarmPush, Integers, SequenceTheorems, FunctionTheorems, FiniteSetTheorems, TLAPS

(* A detector that is pushing has the last report it made, which is no      *)
(* other's.                                                                 *)
Pushing(d) == pc[d] # "idle"

HolderInv ==
  \A d \in Detector : Pushing(d) =>
    /\ alarm_report[d] \in 1 .. made
    /\ maker[alarm_report[d]] = d
    /\ \A r \in 1 .. made : maker[r] = d => r <= alarm_report[d]

(* Copies are made once, of reports that exist; what was stored was freed.  *)
CopyInv ==
  /\ \A r \in copies : r <= made
  /\ \A d \in Detector : pc[d] \in {"read", "write", "copy"} => alarm_report[d] \notin copies
  /\ \A i \in DOMAIN stored : copyFrees[stored[i]] > 0

(* A queue is in order, and behind what was taken from it.                  *)
Behind(front, back) ==
  \A i \in DOMAIN front, j \in DOMAIN back :
    maker[front[i]] = maker[back[j]] => front[i] < back[j]

SendOrder(out, queue) == InMakerOrder(out) /\ InMakerOrder(queue) /\ Behind(out, queue)
StoreOrder(out, now, queue) ==
  /\ SendOrder(out, queue)
  /\ now # NoReport => Behind(out, <<now>>) /\ Behind(<<now>>, queue)

OrderInv == SendOrder(taken, sendQueue) /\ StoreOrder(stored, storing, storeQueue)


-----------------------------------------------------------------------------
(* The types.                                                               *)
Labels == {"idle", "read", "write", "copy", "store", "storing", "send", "sending"}

AlarmsType ==
  /\ on \in [Detector -> BOOLEAN]
  /\ made \in 0 .. MaxReport
  /\ maker \in [Report -> Detector]
  /\ noMemory \in 0 .. MaxNoMemory
PcType == pc \in [Detector -> Labels] /\ alarm_report \in [Detector -> Report \cup {NoReport}]
CountType == loaded \in [Detector -> Nat] /\ SysAlarmState \in Nat /\ interrupted \in Nat
StoreType ==
  /\ storeMutex \in Detector \cup {Nobody}
  /\ storeQueue \in Seq(Report) /\ Len(storeQueue) <= StoreQueueLen
  /\ storing \in Report \cup {NoReport} /\ stored \in Seq(Report)
  /\ copyFrees \in [Report -> Nat] /\ copies \in SUBSET Report
SendType ==
  /\ sendMutex \in Detector \cup {Nobody}
  /\ sendQueue \in Seq(Report) /\ Len(sendQueue) <= SendQueueLen
  /\ taken \in Seq(Report) /\ reportFrees \in [Report -> Nat]
LoopType == loop \in {"auto", "poll", "polled"}

LEMMA TypeParts ==
  TypeOK <=> AlarmsType /\ PcType /\ CountType /\ StoreType /\ SendType /\ LoopType
BY Zenon DEF TypeOK, AlarmsType, PcType, Labels, CountType, StoreType, SendType, LoopType

LEMMA Limits ==
  /\ NDetector \in Nat \ {0} /\ StoreQueueLen \in Nat \ {0} /\ SendQueueLen \in Nat \ {0}
  /\ MaxReport \in Nat /\ MaxNoMemory \in Nat
  /\ Nobody \notin Detector /\ NoReport \notin Report /\ Concentrator \in Detector
BY PushAssumption DEF PushAssumption, Detector, Report, Concentrator

LEMMA InitType == Init => TypeOK
<1>1. ASSUME Init PROVE StoreType /\ SendType
  BY <1>1, Limits DEF Init, StoreType, SendType
<1>2. ASSUME Init PROVE AlarmsType /\ PcType /\ CountType /\ LoopType
  BY <1>2, Limits DEF Init, AlarmsType, PcType, Labels, CountType, LoopType
<1>3. QED BY <1>1, <1>2, TypeParts

(* A report a detector is pushing is a report.                              *)
LEMMA HeldIsReport ==
  ASSUME TypeOK, HolderInv, NEW d \in Detector, Pushing(d)
  PROVE  /\ alarm_report[d] \in Report /\ alarm_report[d] <= made
         /\ alarm_report[d] # NoReport
<1>1. made \in 0 .. MaxReport
  BY DEF TypeOK
<1>2. alarm_report[d] \in 1 .. made
  BY DEF HolderInv
<1>3. QED BY <1>1, <1>2, Limits DEF Report

-----------------------------------------------------------------------------
(* How often a report is in a queue.                                        *)
Places(queue, r) == {i \in DOMAIN queue : queue[i] = r}

LEMMA PlacesFinite ==
  ASSUME NEW queue \in Seq(Report), NEW r
  PROVE  /\ IsFiniteSet(Places(queue, r))
         /\ Occurrences(queue, r) = Cardinality(Places(queue, r))
         /\ Occurrences(queue, r) \in Nat
         /\ Occurrences(queue, r) = 0 <=> \A i \in DOMAIN queue : queue[i] # r
<1>1. Len(queue) \in Nat /\ DOMAIN queue = 1 .. Len(queue)
  OBVIOUS
<1>2. IsFiniteSet(DOMAIN queue)
  BY <1>1, FS_Interval
<1>3. Places(queue, r) \in SUBSET DOMAIN queue
  BY DEF Places
<1>4. IsFiniteSet(Places(queue, r))
  BY <1>2, <1>3, FS_Subset
<1>5. Occurrences(queue, r) = Cardinality(Places(queue, r))
  BY DEF Occurrences, Places
<1>6. Cardinality(Places(queue, r)) \in Nat
  BY <1>4, FS_CardinalityType
<1>7. Cardinality(Places(queue, r)) = 0 <=> Places(queue, r) = {}
  BY <1>4, FS_EmptySet
<1>8. Places(queue, r) = {} <=> \A i \in DOMAIN queue : queue[i] # r
  BY DEF Places
<1>9. QED BY <1>4, <1>5, <1>6, <1>7, <1>8

LEMMA OccurrencesEmpty ==
  ASSUME NEW r
  PROVE  Occurrences(<< >>, r) = 0
<1>1. << >> \in Seq(Report) /\ DOMAIN << >> = {}
  OBVIOUS
<1>2. QED BY <1>1, PlacesFinite

LEMMA OccurrencesAppend ==
  ASSUME NEW queue \in Seq(Report), NEW x \in Report, NEW r
  PROVE  Occurrences(Append(queue, x), r) = Occurrences(queue, r) + (IF x = r THEN 1 ELSE 0)
<1> DEFINE last == Len(queue) + 1
<1>1. /\ Append(queue, x) \in Seq(Report)
      /\ DOMAIN queue = 1 .. Len(queue) /\ Len(queue) \in Nat
      /\ DOMAIN Append(queue, x) = DOMAIN queue \cup {last} /\ last \notin DOMAIN queue
      /\ Append(queue, x)[last] = x
      /\ \A i \in DOMAIN queue : Append(queue, x)[i] = queue[i]
  OBVIOUS
<1>2. Places(Append(queue, x), r) = IF x = r THEN Places(queue, r) \cup {last} ELSE Places(queue, r)
  BY <1>1 DEF Places
<1>3. last \notin Places(queue, r)
  BY <1>1 DEF Places
<1>4. IsFiniteSet(Places(queue, r)) /\ Occurrences(queue, r) = Cardinality(Places(queue, r))
      /\ Occurrences(queue, r) \in Nat
  BY PlacesFinite
<1>5. Cardinality(Places(queue, r) \cup {last}) = Cardinality(Places(queue, r)) + 1
  BY <1>3, <1>4, FS_AddElement
<1>6. Occurrences(Append(queue, x), r) = Cardinality(Places(Append(queue, x), r))
  BY <1>1, PlacesFinite
<1>7. QED BY <1>2, <1>4, <1>5, <1>6

LEMMA OccurrencesTail ==
  ASSUME NEW queue \in Seq(Report), queue # << >>, NEW r
  PROVE  Occurrences(queue, r) = Occurrences(Tail(queue), r) + (IF Head(queue) = r THEN 1 ELSE 0)
<1>1. /\ Tail(queue) \in Seq(Report) /\ Len(queue) \in Nat \ {0}
      /\ DOMAIN queue = 1 .. Len(queue) /\ DOMAIN Tail(queue) = 1 .. Len(queue) - 1
      /\ Head(queue) = queue[1]
      /\ \A i \in DOMAIN Tail(queue) : Tail(queue)[i] = queue[i + 1]
  OBVIOUS
<1> DEFINE rest == Places(queue, r) \ {1}
           shift == [i \in Places(Tail(queue), r) |-> i + 1]
<1>2. /\ IsFiniteSet(Places(queue, r)) /\ IsFiniteSet(Places(Tail(queue), r))
      /\ Occurrences(queue, r) = Cardinality(Places(queue, r))
      /\ Occurrences(Tail(queue), r) = Cardinality(Places(Tail(queue), r))
      /\ Occurrences(queue, r) \in Nat
  BY <1>1, PlacesFinite
<1>3. \A i \in Places(Tail(queue), r) : i \in Nat \ {0} /\ i + 1 \in rest
  BY <1>1 DEF Places
<1>4. \A j \in rest : j - 1 \in Places(Tail(queue), r) /\ j = (j - 1) + 1
  BY <1>1 DEF Places
<1>5. shift \in Bijection(Places(Tail(queue), r), rest)
  <2>1. shift \in [Places(Tail(queue), r) -> rest]
    BY <1>3
  <2>2. \A i, j \in Places(Tail(queue), r) : shift[i] = shift[j] => i = j
    BY <1>3
  <2>3. \A j \in rest : \E i \in Places(Tail(queue), r) : shift[i] = j
    BY <1>4
  <2>4. QED BY <2>1, <2>2, <2>3, Fun_IsBij
<1>6. Cardinality(rest) = Cardinality(Places(Tail(queue), r))
  BY <1>2, <1>5, FS_Bijection DEF ExistsBijection
<1>7. Cardinality(rest) = IF 1 \in Places(queue, r) THEN Cardinality(Places(queue, r)) - 1
                          ELSE Cardinality(Places(queue, r))
  BY <1>2, FS_RemoveElement
<1>8. 1 \in Places(queue, r) <=> Head(queue) = r
  BY <1>1 DEF Places
<1>9. QED BY <1>2, <1>6, <1>7, <1>8

-----------------------------------------------------------------------------
(* The types are kept; a report that is queued is one that was pushed.      *)
LEMMA AlarmsTypeStep ==
  ASSUME TypeOK, HolderInv, [Next]_vars
  PROVE  AlarmsType' /\ PcType' /\ CountType' /\ LoopType'
<1>1. AlarmsType /\ PcType /\ CountType /\ LoopType
  BY TypeParts
<1>2. ASSUME NEW d \in Detector, Detect(d)
      PROVE  AlarmsType' /\ PcType' /\ CountType' /\ LoopType'
  BY <1>1, <1>2, Limits
     DEF Detect, Goto, AfterDetect, count, AlarmsType, PcType, Labels, CountType, LoopType, Report
<1>3. ASSUME NEW d \in Detector, DetectNoMemory(d)
      PROVE  AlarmsType' /\ PcType' /\ CountType' /\ LoopType'
  BY <1>1, <1>3, Limits
     DEF DetectNoMemory, AfterDetect, count, AlarmsType, PcType, CountType, LoopType
<1>4. ASSUME NEW d \in Detector, Push(d)
      PROVE  AlarmsType' /\ PcType' /\ CountType' /\ LoopType'
  <2>1. CASE ReadCount(d)
    BY <1>1, <2>1 DEF ReadCount, Goto, alarms, AlarmsType, PcType, Labels, CountType, LoopType
  <2>2. CASE WriteCount(d)
    <3>1. Counted(d) \in Nat
      BY <1>1 DEF Counted, CountType
    <3>2. QED BY <1>1, <2>2, <3>1
              DEF WriteCount, Goto, alarms, AlarmsType, PcType, Labels, CountType, LoopType
  <2>3. CASE Copy(d)
    BY <1>1, <2>3, Limits DEF Copy, Goto, count, AlarmsType, PcType, Labels, CountType, LoopType
  <2>4. CASE TakeStoreMutex(d) \/ PushStore(d) \/ TakeSendMutex(d)
    BY <1>1, <2>4 DEF TakeStoreMutex, PushStore, TakeSendMutex, Goto, alarms, count,
                      AlarmsType, PcType, Labels, CountType, LoopType
  <2>5. CASE PushSend(d)
    BY <1>1, <2>5 DEF PushSend, Goto, alarms, count, AlarmsType, PcType, Labels, CountType,
                      LoopType
  <2>6. QED BY <1>4, <2>1, <2>2, <2>3, <2>4, <2>5 DEF Push
<1>5. CASE AutoSend \/ EndOfLoop \/ TakeToStore \/ Store
  BY <1>1, <1>5 DEF AutoSend, EndOfLoop, TakeToStore, Store, alarms, count, AlarmsType, PcType,
                    CountType, LoopType
<1>6. CASE UNCHANGED vars
  BY <1>1, <1>6 DEF vars, alarms, count, AlarmsType, PcType, CountType, LoopType
<1>7. QED BY <1>2, <1>3, <1>4, <1>5, <1>6 DEF Next

(* The queues, when one report enters or leaves them.                       *)
LEMMA QueueFacts ==
  ASSUME NEW queue \in Seq(Report)
  PROVE  /\ \A r \in Report : Append(queue, r) \in Seq(Report) /\ Len(Append(queue, r)) = Len(queue) + 1
         /\ queue # << >> => Head(queue) \in Report /\ Tail(queue) \in Seq(Report)
                             /\ Len(Tail(queue)) <= Len(queue)
         /\ Len(queue) \in Nat
OBVIOUS

LEMMA FreedType ==
  ASSUME NEW frees \in [Report -> Nat], NEW r \in Report
  PROVE  /\ Freed(frees, r) \in [Report -> Nat]
         /\ \A x \in Report : Freed(frees, r)[x] = frees[x] + (IF r = x THEN 1 ELSE 0)
BY DEF Freed

LEMMA StoreTypeStep ==
  ASSUME TypeOK, HolderInv, [Next]_vars
  PROVE  StoreType'
<1>1. StoreType
  BY TypeParts
<1>2. ASSUME UNCHANGED store PROVE StoreType'
  BY <1>1, <1>2 DEF store, StoreType
<1>3. ASSUME NEW d \in Detector, Detect(d) \/ DetectNoMemory(d) PROVE StoreType'
  BY <1>2, <1>3 DEF Detect, DetectNoMemory
<1>4. ASSUME NEW d \in Detector, Push(d)
      PROVE  StoreType'
  <2>1. CASE ReadCount(d) \/ WriteCount(d) \/ TakeSendMutex(d) \/ PushSend(d)
    BY <1>2, <2>1 DEF ReadCount, WriteCount, TakeSendMutex, PushSend
  <2>2. CASE Copy(d)
    <3>1. alarm_report[d] \in Report
      BY <2>2, HeldIsReport DEF Copy, Pushing
    <3>2. QED BY <1>1, <2>2, <3>1 DEF Copy, StoreType
  <2>3. CASE TakeStoreMutex(d)
    BY <1>1, <2>3 DEF TakeStoreMutex, StoreType
  <2>4. CASE PushStore(d)
    <3>1. alarm_report[d] \in Report
      BY <2>4, HeldIsReport DEF PushStore, Pushing
    <3>2. CASE HasRoom(storeQueue, StoreQueueLen)
      <4>1. storeQueue' = Append(storeQueue, alarm_report[d])
        BY <2>4, <3>2 DEF PushStore, Enqueue
      <4>2. storeQueue \in Seq(Report) /\ Len(storeQueue) < StoreQueueLen /\ Len(storeQueue) \in Nat
        BY <1>1, <3>2 DEF StoreType, HasRoom
      <4>3. storeQueue' \in Seq(Report) /\ Len(storeQueue') <= StoreQueueLen
        BY <3>1, <4>1, <4>2, Limits
      <4>4. QED BY <1>1, <2>4, <3>2, <4>3 DEF PushStore, StoreType
    <3>3. CASE ~HasRoom(storeQueue, StoreQueueLen)
      BY <1>1, <2>4, <3>1, <3>3, FreedType DEF PushStore, StoreType
    <3>4. QED BY <3>2, <3>3
  <2>5. QED BY <1>4, <2>1, <2>2, <2>3, <2>4 DEF Push
<1>5. CASE AutoSend \/ EndOfLoop
  BY <1>2, <1>5 DEF AutoSend, EndOfLoop, store
<1>6. CASE TakeToStore
  BY <1>1, <1>6, QueueFacts, Limits DEF TakeToStore, StoreType
<1>7. CASE Store
  BY <1>1, <1>7, FreedType, QueueFacts DEF Store, StoreType
<1>8. CASE UNCHANGED vars
  BY <1>2, <1>8 DEF vars
<1>9. QED BY <1>3, <1>4, <1>5, <1>6, <1>7, <1>8 DEF Next

LEMMA SendTypeStep ==
  ASSUME TypeOK, HolderInv, [Next]_vars
  PROVE  SendType'
<1>1. SendType
  BY TypeParts
<1>2. ASSUME UNCHANGED send PROVE SendType'
  BY <1>1, <1>2 DEF send, SendType
<1>3. ASSUME NEW d \in Detector, Detect(d) \/ DetectNoMemory(d) PROVE SendType'
  BY <1>2, <1>3 DEF Detect, DetectNoMemory
<1>4. ASSUME NEW d \in Detector, Push(d)
      PROVE  SendType'
  <2>1. CASE ReadCount(d) \/ WriteCount(d) \/ Copy(d) \/ TakeStoreMutex(d) \/ PushStore(d)
    BY <1>2, <2>1 DEF ReadCount, WriteCount, Copy, TakeStoreMutex, PushStore
  <2>2. CASE TakeSendMutex(d)
    BY <1>1, <2>2 DEF TakeSendMutex, SendType
  <2>3. CASE PushSend(d)
    <3>1. alarm_report[d] \in Report
      BY <2>3, HeldIsReport DEF PushSend, Pushing
    <3>2. CASE HasRoom(sendQueue, SendQueueLen)
      <4>1. sendQueue' = Append(sendQueue, alarm_report[d])
        BY <2>3, <3>2 DEF PushSend, Enqueue
      <4>2. sendQueue \in Seq(Report) /\ Len(sendQueue) < SendQueueLen /\ Len(sendQueue) \in Nat
        BY <1>1, <3>2 DEF SendType, HasRoom
      <4>3. sendQueue' \in Seq(Report) /\ Len(sendQueue') <= SendQueueLen
        BY <3>1, <4>1, <4>2, Limits
      <4>4. QED BY <1>1, <2>3, <3>2, <4>3 DEF PushSend, SendType
    <3>3. CASE ~HasRoom(sendQueue, SendQueueLen)
      BY <1>1, <2>3, <3>1, <3>3, FreedType DEF PushSend, SendType
    <3>4. QED BY <3>2, <3>3
  <2>4. QED BY <1>4, <2>1, <2>2, <2>3 DEF Push
<1>5. CASE AutoSend
  <2>1. CASE UNCHANGED <<taken, sendQueue>>
    BY <1>1, <1>5, <2>1 DEF AutoSend, SendType
  <2>2. CASE /\ sendQueue # << >>
             /\ taken' = Append(taken, Head(sendQueue)) /\ sendQueue' = Tail(sendQueue)
    <3>1. sendQueue \in Seq(Report) /\ taken \in Seq(Report) /\ Len(sendQueue) <= SendQueueLen
      BY <1>1 DEF SendType
    <3>2. Head(sendQueue) \in Report /\ sendQueue' \in Seq(Report)
          /\ Len(sendQueue') <= SendQueueLen
      BY <2>2, <3>1, QueueFacts, Limits
    <3>3. taken' \in Seq(Report)
      BY <2>2, <3>1, <3>2
    <3>4. QED BY <1>1, <1>5, <3>2, <3>3 DEF AutoSend, SendType
  <2>3. QED BY <1>5, <2>1, <2>2 DEF AutoSend
<1>6. CASE EndOfLoop \/ TakeToStore \/ Store
  BY <1>2, <1>6 DEF EndOfLoop, TakeToStore, Store
<1>7. CASE UNCHANGED vars
  BY <1>2, <1>7 DEF vars
<1>8. QED BY <1>3, <1>4, <1>5, <1>6, <1>7 DEF Next

LEMMA TypeStep ==
  ASSUME TypeOK, HolderInv, [Next]_vars
  PROVE  TypeOK'
<1>1. AlarmsType' /\ PcType' /\ CountType' /\ LoopType' /\ StoreType' /\ SendType'
  BY AlarmsTypeStep, StoreTypeStep, SendTypeStep
<1>2. QED BY <1>1, Zenon DEF TypeOK, AlarmsType, PcType, Labels, CountType, StoreType, SendType,
                             LoopType

-----------------------------------------------------------------------------
(* Who holds a report.                                                      *)
LEMMA HolderStep ==
  ASSUME TypeOK, HolderInv, [Next]_vars
  PROVE  HolderInv'
<1>1. /\ made \in 0 .. MaxReport /\ maker \in [Report -> Detector]
      /\ pc \in [Detector -> Labels] /\ alarm_report \in [Detector -> Report \cup {NoReport}]
  BY TypeParts DEF AlarmsType, PcType
<1>2. ASSUME /\ UNCHANGED <<made, maker>>
             /\ \A d \in Detector : Pushing(d)' => Pushing(d) /\ alarm_report'[d] = alarm_report[d]
      PROVE  HolderInv'
  BY <1>2 DEF HolderInv
<1>3. ASSUME NEW d \in Detector, Detect(d)
      PROVE  HolderInv'
  <2>1. /\ made' = made + 1 /\ made' \in Report /\ made' \notin 1 .. made
        /\ 1 .. made' = (1 .. made) \cup {made'} /\ 1 .. made \subseteq Report
    BY <1>1, <1>3, Limits DEF Detect, Report
  <2>2. /\ maker'[made'] = d /\ \A r \in 1 .. made : maker'[r] = maker[r]
        /\ alarm_report'[d] = made' /\ pc'[d] = "read"
        /\ \A e \in Detector \ {d} : alarm_report'[e] = alarm_report[e] /\ pc'[e] = pc[e]
    BY <1>1, <1>3, <2>1 DEF Detect, Goto
  <2>3. ASSUME NEW e \in Detector, Pushing(e)'
        PROVE  /\ alarm_report'[e] \in 1 .. made' /\ maker'[alarm_report'[e]] = e
               /\ \A r \in 1 .. made' : maker'[r] = e => r <= alarm_report'[e]
    <3>1. CASE e = d
      <4>1. \A r \in 1 .. made' : r <= made'
        BY <1>1, <2>1
      <4>2. made' \in 1 .. made'
        BY <2>1
      <4>3. QED BY <2>2, <3>1, <4>1, <4>2
    <3>2. CASE e # d
      <4>1. Pushing(e) /\ alarm_report'[e] = alarm_report[e]
        BY <2>2, <2>3, <3>2 DEF Pushing
      <4>2. /\ alarm_report[e] \in 1 .. made /\ maker[alarm_report[e]] = e
            /\ \A r \in 1 .. made : maker[r] = e => r <= alarm_report[e]
        BY <4>1 DEF HolderInv
      <4>3. QED BY <2>1, <2>2, <3>2, <4>1, <4>2
    <3>3. QED BY <3>1, <3>2
  <2>4. QED BY <2>3 DEF HolderInv
<1>4. ASSUME NEW d \in Detector, DetectNoMemory(d)
      PROVE  HolderInv'
  BY <1>2, <1>4 DEF DetectNoMemory, Pushing
<1>5. ASSUME NEW d \in Detector, Push(d)
      PROVE  HolderInv'
  <2>1. CASE PushSend(d)
    BY <1>1, <1>2, <1>5, <2>1 DEF PushSend, Goto, Pushing, alarms
  <2>2. CASE ReadCount(d) \/ WriteCount(d)
    BY <1>1, <1>2, <2>2 DEF ReadCount, WriteCount, Goto, Pushing, alarms
  <2>3. CASE Copy(d)
    BY <1>1, <1>2, <2>3 DEF Copy, Goto, Pushing
  <2>4. CASE TakeStoreMutex(d) \/ PushStore(d) \/ TakeSendMutex(d)
    BY <1>1, <1>2, <2>4 DEF TakeStoreMutex, PushStore, TakeSendMutex, Goto, Pushing, alarms
  <2>5. QED BY <1>5, <2>1, <2>2, <2>3, <2>4 DEF Push
<1>6. CASE AutoSend \/ EndOfLoop \/ TakeToStore \/ Store
  BY <1>2, <1>6 DEF AutoSend, EndOfLoop, TakeToStore, Store, alarms, Pushing
<1>7. CASE UNCHANGED vars
  BY <1>2, <1>7 DEF vars, alarms, Pushing
<1>8. QED BY <1>3, <1>4, <1>5, <1>6, <1>7 DEF Next

(* Two detectors never push the same report.                                *)
LEMMA OneHolder ==
  ASSUME HolderInv, NEW d \in Detector, Pushing(d), NEW e \in Detector, Pushing(e),
         alarm_report[d] = alarm_report[e]
  PROVE  d = e
BY DEF HolderInv

(* The labels at which a detector has the copy, and those at which it has   *)
(* the report.                                                              *)
CopyLabels == {"store", "storing"}
ReportLabels == {"read", "write", "copy", "store", "storing", "send", "sending"}

LEMMA HeldHere ==
  ASSUME HolderInv, NEW d \in Detector, Pushing(d), NEW L, "idle" \notin L
  PROVE  HeldAt(L, alarm_report[d]) = IF pc[d] \in L THEN 1 ELSE 0
<1>1. ASSUME NEW e \in Detector, pc[e] \in L, alarm_report[e] = alarm_report[d]
      PROVE  e = d
  BY <1>1, OneHolder DEF Pushing
<1>2. QED BY <1>1 DEF HeldAt

LEMMA HeldStep ==
  ASSUME HolderInv, HolderInv', NEW d \in Detector, NEW L, "idle" \notin L,
         \A e \in Detector \ {d} : pc'[e] = pc[e] /\ alarm_report'[e] = alarm_report[e]
  PROVE  /\ \A r : ~(pc[d] \in L /\ alarm_report[d] = r) /\ ~(pc'[d] \in L /\ alarm_report'[d] = r)
                     => HeldAt(L, r)' = HeldAt(L, r)
         /\ \A r : Pushing(d)' /\ alarm_report'[d] = r
                     => HeldAt(L, r)' = IF pc'[d] \in L THEN 1 ELSE 0
         /\ \A r : Pushing(d) /\ alarm_report[d] = r /\ pc'[d] \notin L => HeldAt(L, r)' = 0
<1>1. ASSUME NEW r, ~(pc[d] \in L /\ alarm_report[d] = r), ~(pc'[d] \in L /\ alarm_report'[d] = r)
      PROVE  HeldAt(L, r)' = HeldAt(L, r)
  BY <1>1 DEF HeldAt
<1>2. ASSUME NEW r, Pushing(d)', alarm_report'[d] = r
      PROVE  HeldAt(L, r)' = IF pc'[d] \in L THEN 1 ELSE 0
  <2>1. ASSUME NEW e \in Detector, pc'[e] \in L, alarm_report'[e] = r
        PROVE  e = d
    <3>1. pc'[e] # "idle" /\ pc'[d] # "idle"
      BY <1>2, <2>1 DEF Pushing
    <3>2. maker'[alarm_report'[e]] = e /\ maker'[alarm_report'[d]] = d
      BY <3>1 DEF HolderInv, Pushing
    <3>3. QED BY <1>2, <2>1, <3>2
  <2>2. QED BY <1>2, <2>1 DEF HeldAt
<1>3. ASSUME NEW r, Pushing(d), alarm_report[d] = r, pc'[d] \notin L
      PROVE  HeldAt(L, r)' = 0
  <2>1. ASSUME NEW e \in Detector, pc'[e] \in L, alarm_report'[e] = r
        PROVE  FALSE
    <3>1. e # d
      BY <1>3, <2>1
    <3>2. pc[e] \in L /\ alarm_report[e] = r
      BY <2>1, <3>1
    <3>3. Pushing(e)
      BY <3>2 DEF Pushing
    <3>4. QED BY <1>3, <3>1, <3>2, <3>3, OneHolder
  <2>2. QED BY <2>1 DEF HeldAt
<1>4. QED BY <1>1, <1>2, <1>3, Zenon

LEMMA HeldKept ==
  ASSUME NEW L, alarm_report' = alarm_report, \A e \in Detector : pc'[e] \in L <=> pc[e] \in L
  PROVE  \A r : HeldAt(L, r)' = HeldAt(L, r)
BY DEF HeldAt

-----------------------------------------------------------------------------
(* Copies.                                                                  *)
LEMMA CopyInvStep ==
  ASSUME TypeOK, HolderInv, CopyInv, [Next]_vars
  PROVE  CopyInv'
<1>1. /\ made \in 0 .. MaxReport /\ pc \in [Detector -> Labels]
      /\ alarm_report \in [Detector -> Report \cup {NoReport}]
      /\ copies \in SUBSET Report /\ stored \in Seq(Report) /\ copyFrees \in [Report -> Nat]
  BY TypeParts DEF AlarmsType, PcType, StoreType
<1>2. ASSUME UNCHANGED <<made, copies, stored, copyFrees>>,
             \A d \in Detector : pc'[d] \in {"read", "write", "copy"} =>
               pc[d] \in {"read", "write", "copy"} /\ alarm_report'[d] = alarm_report[d]
      PROVE  CopyInv'
  BY <1>2 DEF CopyInv
<1>3. ASSUME NEW d \in Detector, Detect(d)
      PROVE  CopyInv'
  <2>1. /\ made' = made + 1 /\ made' \notin copies /\ UNCHANGED <<copies, stored, copyFrees>>
        /\ \A r \in copies : r <= made'
    BY <1>1, <1>3, Limits DEF Detect, store, CopyInv, Report
  <2>2. \A e \in Detector : pc'[e] \in {"read", "write", "copy"} =>
          \/ alarm_report'[e] = made'
          \/ pc[e] \in {"read", "write", "copy"} /\ alarm_report'[e] = alarm_report[e]
    BY <1>1, <1>3 DEF Detect, Goto
  <2>3. QED BY <2>1, <2>2 DEF CopyInv
<1>4. ASSUME NEW d \in Detector, DetectNoMemory(d)
      PROVE  CopyInv'
  BY <1>2, <1>4 DEF DetectNoMemory, store
<1>5. ASSUME NEW d \in Detector, Push(d)
      PROVE  CopyInv'
  <2>1. CASE ReadCount(d) \/ WriteCount(d)
    BY <1>1, <1>2, <2>1 DEF ReadCount, WriteCount, Goto, alarms, store
  <2>2. CASE Copy(d)
    <3>1. CASE copies' = copies \cup {alarm_report[d]} /\ Goto(d, "store")
      <4>1. alarm_report[d] <= made /\ alarm_report[d] \in Report
        BY <2>2, HeldIsReport DEF Copy, Pushing
      <4>2. UNCHANGED <<made, stored, copyFrees, alarm_report>>
        BY <2>2 DEF Copy
      <4>3. ASSUME NEW e \in Detector, pc'[e] \in {"read", "write", "copy"}
            PROVE  alarm_report'[e] \notin copies'
        <5>1. e # d /\ pc[e] \in {"read", "write", "copy"}
          BY <1>1, <3>1, <4>3 DEF Goto
        <5>2. alarm_report[e] # alarm_report[d]
          BY <2>2, <5>1, OneHolder DEF Copy, Pushing
        <5>3. alarm_report[e] \notin copies
          BY <5>1 DEF CopyInv
        <5>4. QED BY <3>1, <4>2, <5>2, <5>3
      <4>4. QED BY <3>1, <4>1, <4>2, <4>3 DEF CopyInv
    <3>2. CASE Goto(d, "send") /\ UNCHANGED copies
      BY <1>1, <1>2, <2>2, <3>2 DEF Copy, Goto
    <3>3. QED BY <2>2, <3>1, <3>2 DEF Copy
  <2>3. CASE TakeStoreMutex(d) \/ TakeSendMutex(d)
    BY <1>1, <1>2, <2>3 DEF TakeStoreMutex, TakeSendMutex, Goto, alarms, store
  <2>4. CASE PushStore(d)
    <3>1. \A i \in DOMAIN stored : copyFrees'[stored[i]] > 0
      <4>1. CASE copyFrees' = copyFrees
        BY <4>1 DEF CopyInv
      <4>2. CASE copyFrees' = Freed(copyFrees, alarm_report[d])
        <5>1. alarm_report[d] \in Report
          BY <2>4, HeldIsReport DEF PushStore, Pushing
        <5>2. \A i \in DOMAIN stored : stored[i] \in Report /\ copyFrees[stored[i]] > 0
          BY <1>1 DEF CopyInv
        <5>3. \A x \in Report : copyFrees'[x] = copyFrees[x] + (IF alarm_report[d] = x THEN 1 ELSE 0)
          BY <1>1, <4>2, <5>1, FreedType
        <5>4. \A x \in Report : copyFrees[x] \in Nat
          BY <1>1
        <5>5. QED BY <5>2, <5>3, <5>4
      <4>3. QED BY <2>4, <4>1, <4>2 DEF PushStore
    <3>2. UNCHANGED <<made, copies, stored, alarm_report>>
      BY <2>4 DEF PushStore, alarms
    <3>3. \A e \in Detector : pc'[e] \in {"read", "write", "copy"} => pc[e] \in {"read", "write", "copy"}
      BY <1>1, <2>4 DEF PushStore, Goto
    <3>4. QED BY <3>1, <3>2, <3>3 DEF CopyInv
  <2>5. CASE PushSend(d)
    BY <1>1, <1>2, <2>5 DEF PushSend, Goto, alarms, store
  <2>6. QED BY <1>5, <2>1, <2>2, <2>3, <2>4, <2>5 DEF Push
<1>6. CASE AutoSend \/ EndOfLoop \/ TakeToStore
  BY <1>2, <1>6 DEF AutoSend, EndOfLoop, TakeToStore, alarms, store
<1>7. CASE Store
  <2>1. storing \in Report
    BY <1>7, TypeParts DEF Store, StoreType
  <2>2. \A r \in Report : copyFrees'[r] = copyFrees[r] + (IF storing = r THEN 1 ELSE 0)
    BY <1>1, <1>7, <2>1, FreedType DEF Store
  <2>3. stored' = Append(stored, storing)
    BY <1>7 DEF Store
  <2>4. ASSUME NEW i \in DOMAIN stored'
        PROVE  copyFrees'[stored'[i]] > 0
    <3>1. CASE i \in DOMAIN stored
      <4>1. stored'[i] = stored[i] /\ stored[i] \in Report
        BY <1>1, <2>1, <2>3, <3>1
      <4>2. copyFrees[stored[i]] > 0 /\ copyFrees[stored[i]] \in Nat
        BY <1>1, <3>1, <4>1 DEF CopyInv
      <4>3. QED BY <2>2, <4>1, <4>2
    <3>2. CASE i \notin DOMAIN stored
      <4>1. stored'[i] = storing
        BY <1>1, <2>1, <2>3, <2>4, <3>2
      <4>2. QED BY <1>1, <2>1, <2>2, <4>1
    <3>3. QED BY <3>1, <3>2
  <2>5. UNCHANGED <<made, copies, pc, alarm_report>>
    BY <1>7 DEF Store, alarms
  <2>6. QED BY <2>4, <2>5 DEF CopyInv
<1>8. CASE UNCHANGED vars
  BY <1>2, <1>8 DEF vars, alarms, store
<1>9. QED BY <1>3, <1>4, <1>5, <1>6, <1>7, <1>8 DEF Next

-----------------------------------------------------------------------------
(* The places of copies and reports, as numbers.                            *)
LEMMA PlacesNat ==
  ASSUME TypeOK, NEW r \in Report
  PROVE  /\ Occurrences(storeQueue, r) \in Nat /\ Occurrences(sendQueue, r) \in Nat
         /\ Occurrences(taken, r) \in Nat
         /\ copyFrees[r] \in Nat /\ reportFrees[r] \in Nat
         /\ \A L : HeldAt(L, r) \in 0 .. 1
<1>1. storeQueue \in Seq(Report) /\ sendQueue \in Seq(Report) /\ taken \in Seq(Report)
      /\ copyFrees \in [Report -> Nat] /\ reportFrees \in [Report -> Nat]
  BY TypeParts DEF StoreType, SendType
<1>2. \A L : HeldAt(L, r) \in 0 .. 1
  BY DEF HeldAt
<1>3. QED BY <1>1, <1>2, PlacesFinite

LEMMA CopyPlacesIs ==
  ASSUME NEW r
  PROVE  CopyPlaces(r) = HeldAt(CopyLabels, r) + Occurrences(storeQueue, r)
                           + (IF storing = r THEN 1 ELSE 0) + copyFrees[r]
BY DEF CopyPlaces, CopyLabels

LEMMA ReportPlacesIs ==
  ASSUME NEW r
  PROVE  ReportPlaces(r) = HeldAt(ReportLabels, r) + Occurrences(sendQueue, r)
                             + Occurrences(taken, r) + reportFrees[r]
BY DEF ReportPlaces, ReportLabels

CopyOwner == \A r \in Report : CopyPlaces(r) = IF r \in copies THEN 1 ELSE 0
ReportOwner == \A r \in Report : ReportPlaces(r) = IF r <= made THEN 1 ELSE 0

LEMMA OwnerParts == OneOwner <=> CopyOwner /\ ReportOwner
BY DEF OneOwner, CopyOwner, ReportOwner

LEMMA CopyOwnerStep ==
  ASSUME TypeOK, TypeOK', HolderInv, HolderInv', CopyInv, CopyOwner, [Next]_vars
  PROVE  CopyOwner'
<1>1. /\ pc \in [Detector -> Labels] /\ alarm_report \in [Detector -> Report \cup {NoReport}]
      /\ storeQueue \in Seq(Report) /\ copyFrees \in [Report -> Nat]
      /\ storing \in Report \cup {NoReport}
  BY TypeParts DEF PcType, StoreType
<1>2. ASSUME NEW r \in Report
      PROVE  /\ Occurrences(storeQueue, r) \in Nat /\ copyFrees[r] \in Nat
             /\ HeldAt(CopyLabels, r) \in 0 .. 1
             /\ HeldAt(CopyLabels, r) + Occurrences(storeQueue, r)
                  + (IF storing = r THEN 1 ELSE 0) + copyFrees[r] = IF r \in copies THEN 1 ELSE 0
  BY PlacesNat, CopyPlacesIs DEF CopyOwner
<1>3. ASSUME \A r \in Report :
               HeldAt(CopyLabels, r)' + Occurrences(storeQueue', r)
                 + (IF storing' = r THEN 1 ELSE 0) + copyFrees'[r] = IF r \in copies' THEN 1 ELSE 0
      PROVE  CopyOwner'
  BY <1>3 DEF CopyOwner, CopyPlaces, CopyLabels, HeldAt, Occurrences
<1>4. ASSUME UNCHANGED <<storeQueue, storing, copyFrees, copies>>,
             \A r \in Report : HeldAt(CopyLabels, r)' = HeldAt(CopyLabels, r)
      PROVE  CopyOwner'
  BY <1>2, <1>3, <1>4
<1>5. "idle" \notin CopyLabels
  BY DEF CopyLabels
<1>6. ASSUME NEW d \in Detector, Detect(d)
      PROVE  CopyOwner'
  <2>1. \A e \in Detector \ {d} : pc'[e] = pc[e] /\ alarm_report'[e] = alarm_report[e]
    BY <1>1, <1>6 DEF Detect, Goto
  <2>2. pc[d] \notin CopyLabels /\ pc'[d] \notin CopyLabels
    BY <1>1, <1>6 DEF Detect, Goto, MayDetect, CopyLabels
  <2>3. \A r \in Report : HeldAt(CopyLabels, r)' = HeldAt(CopyLabels, r)
    BY <1>5, <2>1, <2>2, HeldStep
  <2>4. QED BY <1>4, <1>6, <2>3 DEF Detect, store
<1>7. ASSUME NEW d \in Detector, DetectNoMemory(d)
      PROVE  CopyOwner'
  BY <1>4, <1>7, HeldKept DEF DetectNoMemory, store
<1>8. ASSUME NEW d \in Detector, Push(d)
      PROVE  CopyOwner'
  <2>1. CASE ReadCount(d) \/ WriteCount(d) \/ TakeStoreMutex(d) \/ TakeSendMutex(d)
    <3>1. alarm_report' = alarm_report /\ UNCHANGED <<storeQueue, storing, copyFrees, copies>>
      BY <2>1 DEF ReadCount, WriteCount, TakeStoreMutex, TakeSendMutex, store
    <3>2. \A e \in Detector : pc'[e] \in CopyLabels <=> pc[e] \in CopyLabels
      BY <1>1, <2>1 DEF ReadCount, WriteCount, TakeStoreMutex, TakeSendMutex, Goto, CopyLabels
    <3>3. QED BY <1>4, <3>1, <3>2, HeldKept
  <2>2. CASE Copy(d)
    <3>1. CASE Goto(d, "send") /\ UNCHANGED copies
      <4>1. \A e \in Detector : pc'[e] \in CopyLabels <=> pc[e] \in CopyLabels
        BY <1>1, <2>2, <3>1 DEF Copy, Goto, CopyLabels
      <4>2. QED BY <1>4, <2>2, <3>1, <4>1, HeldKept DEF Copy
    <3>2. CASE copies' = copies \cup {alarm_report[d]} /\ Goto(d, "store")
      <4>1. pc[d] = "copy" /\ alarm_report' = alarm_report /\ UNCHANGED <<storeQueue, storing, copyFrees>>
        BY <2>2 DEF Copy
      <4>2. pc'[d] = "store" /\ \A e \in Detector \ {d} : pc'[e] = pc[e]
        BY <1>1, <3>2 DEF Goto
      <4>3. /\ \A r \in Report \ {alarm_report[d]} : HeldAt(CopyLabels, r)' = HeldAt(CopyLabels, r)
            /\ HeldAt(CopyLabels, alarm_report[d])' = 1
        <5>1. pc'[d] \in CopyLabels /\ Pushing(d)'
          BY <4>2 DEF CopyLabels, Pushing
        <5>2. QED BY <1>5, <4>1, <4>2, <5>1, HeldStep
      <4>4. alarm_report[d] \in Report /\ alarm_report[d] \notin copies
        BY <4>1, HeldIsReport DEF Pushing, CopyInv
      <4>5. QED BY <1>2, <1>3, <3>2, <4>1, <4>3, <4>4
    <3>3. QED BY <2>2, <3>1, <3>2 DEF Copy
  <2>3. CASE PushStore(d)
    <3>1. pc[d] = "storing" /\ alarm_report' = alarm_report /\ UNCHANGED <<storing, copies>>
      BY <2>3 DEF PushStore
    <3>2. pc'[d] = "send" /\ \A e \in Detector \ {d} : pc'[e] = pc[e]
      BY <1>1, <2>3 DEF PushStore, Goto
    <3>3. alarm_report[d] \in Report
      BY <3>1, HeldIsReport DEF Pushing
    <3>4. HeldAt(CopyLabels, alarm_report[d]) = 1
      BY <1>5, <3>1, HeldHere DEF Pushing, CopyLabels
    <3>5. /\ \A r \in Report \ {alarm_report[d]} : HeldAt(CopyLabels, r)' = HeldAt(CopyLabels, r)
          /\ HeldAt(CopyLabels, alarm_report[d])' = 0
      <4>1. pc'[d] \notin CopyLabels /\ Pushing(d)
        BY <3>1, <3>2 DEF CopyLabels, Pushing
      <4>2. QED BY <1>5, <3>1, <3>2, <4>1, HeldStep
    <3>6. \/ /\ copyFrees' = copyFrees
             /\ \A r \in Report : Occurrences(storeQueue', r) =
                  Occurrences(storeQueue, r) + (IF alarm_report[d] = r THEN 1 ELSE 0)
          \/ /\ storeQueue' = storeQueue
             /\ \A r \in Report : copyFrees'[r] = copyFrees[r] + (IF alarm_report[d] = r THEN 1 ELSE 0)
      <4>1. CASE HasRoom(storeQueue, StoreQueueLen)
        <5>1. copyFrees' = copyFrees /\ storeQueue' = Append(storeQueue, alarm_report[d])
          BY <2>3, <4>1 DEF PushStore, Enqueue
        <5>2. QED BY <1>1, <3>3, <5>1, OccurrencesAppend
      <4>2. CASE ~HasRoom(storeQueue, StoreQueueLen)
        <5>1. copyFrees' = Freed(copyFrees, alarm_report[d]) /\ storeQueue' = storeQueue
          BY <2>3, <4>2 DEF PushStore
        <5>2. QED BY <1>1, <3>3, <5>1, FreedType
      <4>3. QED BY <4>1, <4>2
    <3>7. QED BY <1>2, <1>3, <3>1, <3>3, <3>4, <3>5, <3>6
  <2>4. CASE PushSend(d)
    <3>1. \A e \in Detector \ {d} : pc'[e] = pc[e] /\ alarm_report'[e] = alarm_report[e]
      BY <1>1, <2>4 DEF PushSend, Goto
    <3>2. pc[d] \notin CopyLabels /\ pc'[d] \notin CopyLabels
      BY <1>1, <2>4 DEF PushSend, Goto, CopyLabels
    <3>3. \A r \in Report : HeldAt(CopyLabels, r)' = HeldAt(CopyLabels, r)
      BY <1>5, <3>1, <3>2, HeldStep
    <3>4. QED BY <1>4, <2>4, <3>3 DEF PushSend, store
  <2>5. QED BY <1>8, <2>1, <2>2, <2>3, <2>4 DEF Push
<1>9. CASE AutoSend \/ EndOfLoop \/ UNCHANGED vars
  BY <1>4, <1>9, HeldKept DEF AutoSend, EndOfLoop, vars, store
<1>10. CASE TakeToStore
  <2>1. /\ storing = NoReport /\ storing' = Head(storeQueue) /\ storeQueue # << >>
        /\ storeQueue' = Tail(storeQueue) /\ UNCHANGED <<copyFrees, copies, pc, alarm_report>>
    BY <1>10 DEF TakeToStore
  <2>2. \A r \in Report : HeldAt(CopyLabels, r)' = HeldAt(CopyLabels, r)
    BY <2>1, HeldKept
  <2>3. \A r \in Report : Occurrences(storeQueue, r) =
          Occurrences(storeQueue', r) + (IF storing' = r THEN 1 ELSE 0)
    BY <1>1, <2>1, OccurrencesTail
  <2>4. \A r \in Report : r # NoReport /\ Occurrences(storeQueue', r) \in Nat
    <3>1. storeQueue' \in Seq(Report)
      BY <1>1, <2>1
    <3>2. QED BY <3>1, PlacesFinite, Limits
  <2>5. QED BY <1>2, <1>3, <2>1, <2>2, <2>3, <2>4
<1>11. CASE Store
  <2>1. /\ storing \in Report /\ storing' = NoReport
        /\ copyFrees' = Freed(copyFrees, storing) /\ UNCHANGED <<storeQueue, copies, pc, alarm_report>>
    BY <1>1, <1>11 DEF Store
  <2>2. \A r \in Report : HeldAt(CopyLabels, r)' = HeldAt(CopyLabels, r)
    BY <2>1, HeldKept
  <2>3. \A r \in Report : r # NoReport /\ copyFrees'[r] = copyFrees[r] + (IF storing = r THEN 1 ELSE 0)
    BY <1>1, <2>1, FreedType, Limits
  <2>4. QED BY <1>2, <1>3, <2>1, <2>2, <2>3
<1>12. QED BY <1>6, <1>7, <1>8, <1>9, <1>10, <1>11 DEF Next

LEMMA ReportOwnerStep ==
  ASSUME TypeOK, TypeOK', HolderInv, HolderInv', ReportOwner, [Next]_vars
  PROVE  ReportOwner'
<1>1. /\ pc \in [Detector -> Labels] /\ alarm_report \in [Detector -> Report \cup {NoReport}]
      /\ sendQueue \in Seq(Report) /\ taken \in Seq(Report) /\ reportFrees \in [Report -> Nat]
      /\ made \in 0 .. MaxReport
  BY TypeParts DEF AlarmsType, PcType, SendType
<1>2. ASSUME NEW r \in Report
      PROVE  /\ Occurrences(sendQueue, r) \in Nat /\ Occurrences(taken, r) \in Nat
             /\ reportFrees[r] \in Nat /\ HeldAt(ReportLabels, r) \in 0 .. 1
             /\ HeldAt(ReportLabels, r) + Occurrences(sendQueue, r) + Occurrences(taken, r)
                  + reportFrees[r] = IF r <= made THEN 1 ELSE 0
  BY PlacesNat, ReportPlacesIs DEF ReportOwner
<1>3. ASSUME \A r \in Report :
               HeldAt(ReportLabels, r)' + Occurrences(sendQueue', r) + Occurrences(taken', r)
                 + reportFrees'[r] = IF r <= made' THEN 1 ELSE 0
      PROVE  ReportOwner'
  BY <1>3 DEF ReportOwner, ReportPlaces, ReportLabels, HeldAt, Occurrences
<1>4. ASSUME UNCHANGED <<sendQueue, taken, reportFrees, made>>,
             \A r \in Report : HeldAt(ReportLabels, r)' = HeldAt(ReportLabels, r)
      PROVE  ReportOwner'
  BY <1>2, <1>3, <1>4
<1>5. "idle" \notin ReportLabels
  BY DEF ReportLabels
<1>6. ASSUME NEW d \in Detector, Detect(d)
      PROVE  ReportOwner'
  <2>1. /\ \A e \in Detector \ {d} : pc'[e] = pc[e] /\ alarm_report'[e] = alarm_report[e]
        /\ pc[d] = "idle" /\ pc'[d] = "read" /\ alarm_report'[d] = made'
        /\ UNCHANGED <<sendQueue, taken, reportFrees>>
    BY <1>1, <1>6 DEF Detect, Goto, MayDetect, send
  <2>2. made' = made + 1 /\ made' \in Report
    BY <1>1, <1>6, Limits DEF Detect, Report
  <2>3. pc[d] \notin ReportLabels /\ pc'[d] \in ReportLabels /\ Pushing(d)'
    BY <2>1 DEF ReportLabels, Pushing
  <2>4. \A r \in Report \ {made'} : HeldAt(ReportLabels, r)' = HeldAt(ReportLabels, r)
    BY <1>5, <2>1, <2>3, HeldStep
  <2>5. \A r : r = made' => HeldAt(ReportLabels, r)' = 1
    BY <1>5, <2>1, <2>3, HeldStep
  <2>6. ASSUME NEW r \in Report
        PROVE  HeldAt(ReportLabels, r)' + Occurrences(sendQueue', r) + Occurrences(taken', r)
                 + reportFrees'[r] = IF r <= made' THEN 1 ELSE 0
    <3>1. CASE r = made'
      BY <1>1, <1>2, <2>1, <2>2, <2>5, <3>1
    <3>2. CASE r # made'
      <4>1. r <= made' <=> r <= made
        BY <1>1, <2>2, <3>2 DEF Report
      <4>2. QED BY <1>2, <2>1, <2>4, <3>2, <4>1
    <3>3. QED BY <3>1, <3>2
  <2>7. QED BY <1>3, <2>6
<1>7. ASSUME NEW d \in Detector, DetectNoMemory(d)
      PROVE  ReportOwner'
  BY <1>4, <1>7, HeldKept DEF DetectNoMemory, send
<1>8. ASSUME NEW d \in Detector, Push(d)
      PROVE  ReportOwner'
  <2>1. CASE ~PushSend(d)
    <3>1. alarm_report' = alarm_report /\ UNCHANGED <<sendQueue, taken, reportFrees, made>>
      BY <1>8, <2>1 DEF Push, ReadCount, WriteCount, Copy, TakeStoreMutex, PushStore, TakeSendMutex,
                        send, alarms
    <3>2. \A e \in Detector : pc'[e] \in ReportLabels <=> pc[e] \in ReportLabels
      <4>1. CASE ReadCount(d) \/ WriteCount(d)
        BY <1>1, <4>1 DEF ReadCount, WriteCount, Goto, ReportLabels
      <4>2. CASE Copy(d)
        BY <1>1, <4>2 DEF Copy, Goto, ReportLabels
      <4>3. CASE TakeStoreMutex(d) \/ PushStore(d) \/ TakeSendMutex(d)
        BY <1>1, <4>3 DEF TakeStoreMutex, PushStore, TakeSendMutex, Goto, ReportLabels
      <4>4. QED BY <1>8, <2>1, <4>1, <4>2, <4>3 DEF Push
    <3>3. QED BY <1>4, <3>1, <3>2, HeldKept
  <2>2. CASE PushSend(d)
    <3>1. pc[d] = "sending" /\ alarm_report'[d] = NoReport /\ UNCHANGED <<taken, made>>
      BY <1>1, <2>2 DEF PushSend, alarms
    <3>2. /\ pc'[d] = "idle"
          /\ \A e \in Detector \ {d} : pc'[e] = pc[e] /\ alarm_report'[e] = alarm_report[e]
      BY <1>1, <2>2 DEF PushSend, Goto
    <3>3. PICK x \in Report : x = alarm_report[d]
      BY <3>1, HeldIsReport DEF Pushing
    <3>4. HeldAt(ReportLabels, x) = 1
      BY <1>5, <3>1, <3>3, HeldHere DEF Pushing, ReportLabels
    <3>5. /\ \A r \in Report \ {x} : HeldAt(ReportLabels, r)' = HeldAt(ReportLabels, r)
          /\ HeldAt(ReportLabels, x)' = 0
      <4>1. pc'[d] \notin ReportLabels /\ Pushing(d)
        BY <3>1, <3>2 DEF ReportLabels, Pushing
      <4>2. QED BY <1>5, <3>1, <3>2, <3>3, <4>1, HeldStep
    <3>6. \/ /\ reportFrees' = reportFrees
             /\ \A r \in Report : Occurrences(sendQueue', r) =
                  Occurrences(sendQueue, r) + (IF x = r THEN 1 ELSE 0)
          \/ /\ sendQueue' = sendQueue
             /\ \A r \in Report : reportFrees'[r] = reportFrees[r] + (IF x = r THEN 1 ELSE 0)
      <4>1. CASE HasRoom(sendQueue, SendQueueLen)
        <5>1. reportFrees' = reportFrees /\ sendQueue' = Append(sendQueue, x)
          BY <2>2, <3>3, <4>1 DEF PushSend, Enqueue
        <5>2. QED BY <1>1, <5>1, OccurrencesAppend
      <4>2. CASE ~HasRoom(sendQueue, SendQueueLen)
        <5>1. reportFrees' = Freed(reportFrees, x) /\ sendQueue' = sendQueue
          BY <2>2, <3>3, <4>2 DEF PushSend
        <5>2. QED BY <1>1, <5>1, FreedType
      <4>3. QED BY <4>1, <4>2
    <3>7. QED BY <1>2, <1>3, <3>1, <3>4, <3>5, <3>6
  <2>3. QED BY <2>1, <2>2
<1>9. CASE EndOfLoop \/ TakeToStore \/ Store \/ UNCHANGED vars
  BY <1>4, <1>9, HeldKept DEF EndOfLoop, TakeToStore, Store, vars, alarms, send
<1>10. CASE AutoSend
  <2>1. UNCHANGED <<reportFrees, made, pc, alarm_report>>
    BY <1>10 DEF AutoSend, alarms
  <2>2. \A r \in Report : HeldAt(ReportLabels, r)' = HeldAt(ReportLabels, r)
    BY <2>1, HeldKept
  <2>3. CASE UNCHANGED <<taken, sendQueue>>
    BY <1>4, <2>1, <2>2, <2>3
  <2>4. CASE /\ sendQueue # << >>
             /\ taken' = Append(taken, Head(sendQueue)) /\ sendQueue' = Tail(sendQueue)
    <3>1. Head(sendQueue) \in Report /\ sendQueue' \in Seq(Report)
      BY <1>1, <2>4
    <3>2. \A r \in Report :
            /\ Occurrences(sendQueue, r) = Occurrences(sendQueue', r) + (IF Head(sendQueue) = r THEN 1 ELSE 0)
            /\ Occurrences(taken', r) = Occurrences(taken, r) + (IF Head(sendQueue) = r THEN 1 ELSE 0)
      BY <1>1, <2>4, <3>1, OccurrencesTail, OccurrencesAppend
    <3>3. \A r \in Report : Occurrences(sendQueue', r) \in Nat
      BY <3>1, PlacesFinite
    <3>4. QED BY <1>2, <1>3, <2>1, <2>2, <3>2, <3>3
  <2>5. QED BY <1>10, <2>3, <2>4 DEF AutoSend
<1>11. QED BY <1>6, <1>7, <1>8, <1>9, <1>10 DEF Next

-----------------------------------------------------------------------------
(* The order.  A report enters a queue behind all its detector's, and       *)
(* leaves it for the end of what was taken.                                 *)
After(queue, r) == \A i \in DOMAIN queue : maker[queue[i]] = maker[r] => queue[i] < r

LEMMA EnterQueue ==
  ASSUME NEW out \in Seq(Report), NEW queue \in Seq(Report), NEW r \in Report,
         SendOrder(out, queue), After(out, r), After(queue, r)
  PROVE  SendOrder(out, Append(queue, r))
<1>1. /\ DOMAIN queue = 1 .. Len(queue) /\ Len(queue) \in Nat
      /\ DOMAIN Append(queue, r) = 1 .. Len(queue) + 1
      /\ Append(queue, r)[Len(queue) + 1] = r
      /\ \A i \in DOMAIN queue : Append(queue, r)[i] = queue[i]
      /\ \A i \in DOMAIN Append(queue, r) : i \in DOMAIN queue \/ i = Len(queue) + 1
  OBVIOUS
<1>2. InMakerOrder(Append(queue, r))
  <2>1. ASSUME NEW i \in DOMAIN Append(queue, r), NEW j \in DOMAIN Append(queue, r), i < j,
               maker[Append(queue, r)[i]] = maker[Append(queue, r)[j]]
        PROVE  Append(queue, r)[i] < Append(queue, r)[j]
    <3>1. i \in DOMAIN queue /\ Append(queue, r)[i] = queue[i]
      BY <1>1, <2>1
    <3>2. CASE j \in DOMAIN queue
      BY <1>1, <2>1, <3>1, <3>2 DEF SendOrder, InMakerOrder
    <3>3. CASE j = Len(queue) + 1
      BY <1>1, <2>1, <3>1, <3>3 DEF After
    <3>4. QED BY <1>1, <2>1, <3>2, <3>3
  <2>2. QED BY <2>1, Zenon DEF InMakerOrder
<1>3. Behind(out, Append(queue, r))
  BY <1>1 DEF SendOrder, Behind, After
<1>4. QED BY <1>2, <1>3 DEF SendOrder

LEMMA LeaveQueue ==
  ASSUME NEW out \in Seq(Report), NEW queue \in Seq(Report), queue # << >>, SendOrder(out, queue)
  PROVE  /\ InMakerOrder(Tail(queue)) /\ Behind(out, Tail(queue))
         /\ Behind(<<Head(queue)>>, Tail(queue))
         /\ Behind(out, <<Head(queue)>>)
<1>1. /\ DOMAIN queue = 1 .. Len(queue) /\ Len(queue) \in Nat \ {0}
      /\ DOMAIN Tail(queue) = 1 .. Len(queue) - 1
      /\ \A i \in DOMAIN Tail(queue) : Tail(queue)[i] = queue[i + 1] /\ i + 1 \in DOMAIN queue
      /\ Head(queue) = queue[1] /\ 1 \in DOMAIN queue
  OBVIOUS
<1>2. DOMAIN <<Head(queue)>> = {1} /\ <<Head(queue)>>[1] = Head(queue)
  OBVIOUS
<1>3. InMakerOrder(Tail(queue))
  BY <1>1 DEF SendOrder, InMakerOrder
<1>4. Behind(out, Tail(queue))
  BY <1>1 DEF SendOrder, Behind
<1>5. Behind(<<Head(queue)>>, Tail(queue))
  BY <1>1, <1>2 DEF SendOrder, InMakerOrder, Behind
<1>6. Behind(out, <<Head(queue)>>)
  BY <1>1, <1>2 DEF SendOrder, Behind
<1>7. QED BY <1>3, <1>4, <1>5, <1>6

LEMMA JoinOut ==
  ASSUME NEW out \in Seq(Report), NEW queue \in Seq(Report), NEW r \in Report,
         InMakerOrder(out), InMakerOrder(queue),
         Behind(out, queue), Behind(out, <<r>>), Behind(<<r>>, queue)
  PROVE  SendOrder(Append(out, r), queue)
<1>1. /\ DOMAIN <<r>> = {1} /\ <<r>>[1] = r
      /\ DOMAIN out = 1 .. Len(out) /\ Len(out) \in Nat
      /\ Append(out, r)[Len(out) + 1] = r
      /\ \A i \in DOMAIN out : Append(out, r)[i] = out[i]
      /\ \A i \in DOMAIN Append(out, r) : i \in DOMAIN out \/ i = Len(out) + 1
  OBVIOUS
<1>2. After(out, r)
  BY <1>1 DEF Behind, After
<1>3. SendOrder(<< >>, out) /\ After(<< >>, r) /\ << >> \in Seq(Report)
  BY DEF SendOrder, InMakerOrder, Behind, After
<1>4. InMakerOrder(Append(out, r))
  BY <1>2, <1>3, EnterQueue DEF SendOrder
<1>5. Behind(Append(out, r), queue)
  BY <1>1 DEF Behind
<1>6. QED BY <1>4, <1>5 DEF SendOrder

(* A report about to be queued comes after all its detector's in the queue  *)
(* and beyond.                                                              *)
LEMMA SendFresh ==
  ASSUME TypeOK, HolderInv, ReportOwner, NEW d \in Detector, Pushing(d)
  PROVE  After(taken, alarm_report[d]) /\ After(sendQueue, alarm_report[d])
<1>1. sendQueue \in Seq(Report) /\ taken \in Seq(Report) /\ made \in 0 .. MaxReport
      /\ pc \in [Detector -> Labels]
  BY TypeParts DEF AlarmsType, PcType, SendType
<1>2. PICK x \in Report : x = alarm_report[d] /\ x <= made
  BY HeldIsReport
<1>3. HeldAt(ReportLabels, x) = 1
  <2>1. "idle" \notin ReportLabels
    BY DEF ReportLabels
  <2>2. pc[d] \in ReportLabels
    BY <1>1 DEF Pushing, ReportLabels, Labels
  <2>3. QED BY <1>2, <2>1, <2>2, HeldHere
<1>4. \A r \in Report :
        /\ Occurrences(sendQueue, r) \in Nat /\ Occurrences(taken, r) \in Nat /\ reportFrees[r] \in Nat
        /\ HeldAt(ReportLabels, r) \in 0 .. 1
        /\ HeldAt(ReportLabels, r) + Occurrences(sendQueue, r) + Occurrences(taken, r)
             + reportFrees[r] = IF r <= made THEN 1 ELSE 0
  BY PlacesNat, ReportPlacesIs DEF ReportOwner
<1>5. Occurrences(sendQueue, x) = 0 /\ Occurrences(taken, x) = 0
  BY <1>2, <1>3, <1>4
<1>6. (\A i \in DOMAIN sendQueue : sendQueue[i] # x) /\ (\A i \in DOMAIN taken : taken[i] # x)
  BY <1>1, <1>5, PlacesFinite
<1>7. \A r \in Report : Occurrences(sendQueue, r) > 0 \/ Occurrences(taken, r) > 0 => r <= made
  BY <1>4
<1>8. \A i \in DOMAIN sendQueue : sendQueue[i] \in Report /\ Occurrences(sendQueue, sendQueue[i]) # 0
  BY <1>1, PlacesFinite
<1>9. \A i \in DOMAIN taken : taken[i] \in Report /\ Occurrences(taken, taken[i]) # 0
  BY <1>1, PlacesFinite
<1>10. \A r \in Report : r <= made /\ maker[r] = maker[x] => r <= x
  <2>1. /\ alarm_report[d] \in 1 .. made /\ maker[alarm_report[d]] = d
        /\ \A r \in 1 .. made : maker[r] = d => r <= alarm_report[d]
    BY DEF HolderInv
  <2>2. \A r \in Report : r <= made => r \in 1 .. made
    BY <1>1 DEF Report
  <2>3. QED BY <1>2, <2>1, <2>2
<1>11. ASSUME NEW queue \in Seq(Report), \A i \in DOMAIN queue : queue[i] # x /\ queue[i] <= made
       PROVE  After(queue, x)
  <2>1. ASSUME NEW i \in DOMAIN queue, maker[queue[i]] = maker[x]
        PROVE  queue[i] < x
    <3>1. queue[i] \in Report /\ queue[i] <= x
      BY <1>10, <1>11, <2>1
    <3>2. QED BY <1>11, <3>1 DEF Report
  <2>2. QED BY <2>1 DEF After
<1>12. \A i \in DOMAIN sendQueue : sendQueue[i] <= made
  BY <1>4, <1>7, <1>8
<1>13. \A i \in DOMAIN taken : taken[i] <= made
  BY <1>4, <1>7, <1>9
<1>14. QED BY <1>1, <1>2, <1>6, <1>11, <1>12, <1>13

LEMMA StoreFresh ==
  ASSUME TypeOK, HolderInv, CopyInv, CopyOwner, NEW d \in Detector, pc[d] = "storing"
  PROVE  /\ After(stored, alarm_report[d]) /\ After(storeQueue, alarm_report[d])
         /\ storing # NoReport => After(<<storing>>, alarm_report[d])
<1>1. /\ storeQueue \in Seq(Report) /\ stored \in Seq(Report) /\ made \in 0 .. MaxReport
      /\ storing \in Report \cup {NoReport} /\ copyFrees \in [Report -> Nat] /\ Pushing(d)
  BY TypeParts DEF AlarmsType, StoreType, Pushing
<1>2. PICK x \in Report : x = alarm_report[d] /\ x <= made
  BY <1>1, HeldIsReport
<1>3. HeldAt(CopyLabels, x) = 1
  BY <1>1, <1>2, HeldHere DEF CopyLabels
<1>4. \A r \in Report :
        /\ Occurrences(storeQueue, r) \in Nat /\ copyFrees[r] \in Nat
        /\ HeldAt(CopyLabels, r) \in 0 .. 1
        /\ HeldAt(CopyLabels, r) + Occurrences(storeQueue, r) + (IF storing = r THEN 1 ELSE 0)
             + copyFrees[r] = IF r \in copies THEN 1 ELSE 0
  BY PlacesNat, CopyPlacesIs DEF CopyOwner
<1>5. Occurrences(storeQueue, x) = 0 /\ storing # x /\ copyFrees[x] = 0
  <2>1. PICK k \in Nat, n \in Nat : k = Occurrences(storeQueue, x) /\ n = copyFrees[x]
    BY <1>4
  <2>2. 1 + k + (IF storing = x THEN 1 ELSE 0) + n = IF x \in copies THEN 1 ELSE 0
    BY <1>3, <1>4, <2>1
  <2>3. QED BY <2>1, <2>2
<1>6. \A r \in Report : Occurrences(storeQueue, r) > 0 \/ storing = r \/ copyFrees[r] > 0 => r <= made
  BY <1>4 DEF CopyInv
<1>7. \A r \in Report : r <= made /\ maker[r] = maker[x] => r <= x
  <2>1. /\ alarm_report[d] \in 1 .. made /\ maker[alarm_report[d]] = d
        /\ \A r \in 1 .. made : maker[r] = d => r <= alarm_report[d]
    BY <1>1 DEF HolderInv
  <2>2. \A r \in Report : r <= made => r \in 1 .. made
    BY <1>1 DEF Report
  <2>3. QED BY <1>2, <2>1, <2>2
<1>8. ASSUME NEW queue \in Seq(Report), \A i \in DOMAIN queue : queue[i] # x /\ queue[i] <= made
      PROVE  After(queue, x)
  <2>1. ASSUME NEW i \in DOMAIN queue, maker[queue[i]] = maker[x]
        PROVE  queue[i] < x
    <3>1. queue[i] \in Report /\ queue[i] <= x
      BY <1>7, <1>8, <2>1
    <3>2. QED BY <1>8, <3>1 DEF Report
  <2>2. QED BY <2>1 DEF After
<1>9. \A i \in DOMAIN stored : stored[i] # x /\ stored[i] <= made
  <2>1. \A i \in DOMAIN stored : stored[i] \in Report /\ copyFrees[stored[i]] > 0
    BY <1>1 DEF CopyInv
  <2>2. QED BY <1>4, <1>5, <1>6, <2>1
<1>10. \A i \in DOMAIN storeQueue : storeQueue[i] # x /\ storeQueue[i] <= made
  <2>1. \A i \in DOMAIN storeQueue : storeQueue[i] \in Report /\ Occurrences(storeQueue, storeQueue[i]) # 0
    BY <1>1, PlacesFinite
  <2>2. QED BY <1>4, <1>5, <1>6, <2>1
<1>11. ASSUME storing # NoReport
       PROVE  After(<<storing>>, x)
  <2>1. storing \in Report /\ storing <= made
    BY <1>1, <1>6, <1>11
  <2>2. <<storing>> \in Seq(Report) /\ \A i \in DOMAIN <<storing>> : <<storing>>[i] = storing
    BY <2>1
  <2>3. \A i \in DOMAIN <<storing>> : <<storing>>[i] # x /\ <<storing>>[i] <= made
    BY <1>5, <2>1, <2>2
  <2>4. QED BY <1>8, <2>2, <2>3
<1>12. QED BY <1>1, <1>2, <1>8, <1>9, <1>10, <1>11

(* The reports that are queued or taken exist.                              *)
LEMMA QueuedExist ==
  ASSUME TypeOK, CopyInv, CopyOwner, ReportOwner
  PROVE  /\ \A i \in DOMAIN sendQueue : sendQueue[i] <= made
         /\ \A i \in DOMAIN taken : taken[i] <= made
         /\ \A i \in DOMAIN storeQueue : storeQueue[i] <= made
         /\ \A i \in DOMAIN stored : stored[i] <= made
         /\ storing # NoReport => storing <= made
<1>1. /\ storeQueue \in Seq(Report) /\ stored \in Seq(Report) /\ sendQueue \in Seq(Report)
      /\ taken \in Seq(Report) /\ storing \in Report \cup {NoReport}
  BY TypeParts DEF StoreType, SendType
<1>2. \A r \in Report :
        /\ Occurrences(storeQueue, r) \in Nat /\ copyFrees[r] \in Nat
        /\ HeldAt(CopyLabels, r) \in 0 .. 1
        /\ HeldAt(CopyLabels, r) + Occurrences(storeQueue, r) + (IF storing = r THEN 1 ELSE 0)
             + copyFrees[r] = IF r \in copies THEN 1 ELSE 0
  BY PlacesNat, CopyPlacesIs DEF CopyOwner
<1>3. \A r \in Report :
        /\ Occurrences(sendQueue, r) \in Nat /\ Occurrences(taken, r) \in Nat /\ reportFrees[r] \in Nat
        /\ HeldAt(ReportLabels, r) \in 0 .. 1
        /\ HeldAt(ReportLabels, r) + Occurrences(sendQueue, r) + Occurrences(taken, r)
             + reportFrees[r] = IF r <= made THEN 1 ELSE 0
  BY PlacesNat, ReportPlacesIs DEF ReportOwner
<1>4. \A r \in Report : Occurrences(storeQueue, r) # 0 \/ storing = r \/ copyFrees[r] > 0 => r <= made
  BY <1>2 DEF CopyInv
<1>5. \A r \in Report : Occurrences(sendQueue, r) # 0 \/ Occurrences(taken, r) # 0 => r <= made
  BY <1>3
<1>6. \A i \in DOMAIN sendQueue : sendQueue[i] \in Report /\ Occurrences(sendQueue, sendQueue[i]) # 0
  BY <1>1, PlacesFinite
<1>7. \A i \in DOMAIN taken : taken[i] \in Report /\ Occurrences(taken, taken[i]) # 0
  BY <1>1, PlacesFinite
<1>8. \A i \in DOMAIN storeQueue : storeQueue[i] \in Report /\ Occurrences(storeQueue, storeQueue[i]) # 0
  BY <1>1, PlacesFinite
<1>9. \A i \in DOMAIN stored : stored[i] \in Report /\ copyFrees[stored[i]] > 0
  BY <1>1 DEF CopyInv
<1>10. storing # NoReport => storing \in Report
  BY <1>1
<1>11. QED BY <1>4, <1>5, <1>6, <1>7, <1>8, <1>9, <1>10

LEMMA OrderStep ==
  ASSUME TypeOK, TypeOK', HolderInv, CopyInv, CopyOwner, ReportOwner, OrderInv, [Next]_vars
  PROVE  OrderInv'
<1>1. /\ storeQueue \in Seq(Report) /\ stored \in Seq(Report) /\ sendQueue \in Seq(Report)
      /\ taken \in Seq(Report) /\ storing \in Report \cup {NoReport}
      /\ made \in 0 .. MaxReport /\ maker \in [Report -> Detector]
  BY TypeParts DEF AlarmsType, StoreType, SendType
<1>2. ASSUME maker' = maker, SendOrder(taken', sendQueue'), StoreOrder(stored', storing', storeQueue')
      PROVE  OrderInv'
  BY <1>2 DEF OrderInv, StoreOrder, SendOrder, InMakerOrder, Behind
<1>3. ASSUME maker' = maker, UNCHANGED <<taken, sendQueue, stored, storing, storeQueue>>
      PROVE  OrderInv'
  BY <1>2, <1>3 DEF OrderInv
<1>4. ASSUME NEW d \in Detector, Detect(d)
      PROVE  OrderInv'
  <2>1. /\ made' = made + 1 /\ made' \in Report
        /\ UNCHANGED <<taken, sendQueue, stored, storing, storeQueue>>
    BY <1>1, <1>4, Limits DEF Detect, Report, send, store
  <2>2. \A r \in Report : r <= made => maker'[r] = maker[r]
    BY <1>1, <1>4, <2>1 DEF Detect, Report
  <2>3. /\ \A i \in DOMAIN sendQueue : maker'[sendQueue[i]] = maker[sendQueue[i]]
        /\ \A i \in DOMAIN taken : maker'[taken[i]] = maker[taken[i]]
        /\ \A i \in DOMAIN storeQueue : maker'[storeQueue[i]] = maker[storeQueue[i]]
        /\ \A i \in DOMAIN stored : maker'[stored[i]] = maker[stored[i]]
        /\ storing # NoReport => maker'[storing] = maker[storing]
    BY <1>1, <2>2, QueuedExist
  <2>4. InMakerOrder(taken)' /\ InMakerOrder(sendQueue)' /\ Behind(taken, sendQueue)'
    BY <2>1, <2>3 DEF OrderInv, SendOrder, InMakerOrder, Behind
  <2>5. InMakerOrder(stored)' /\ InMakerOrder(storeQueue)' /\ Behind(stored, storeQueue)'
    BY <2>1, <2>3 DEF OrderInv, StoreOrder, SendOrder, InMakerOrder, Behind
  <2>6. storing' # NoReport => Behind(stored, <<storing>>)' /\ Behind(<<storing>>, storeQueue)'
    <3>1. DOMAIN <<storing>> = {1} /\ <<storing>>[1] = storing
      OBVIOUS
    <3>2. QED BY <2>1, <2>3, <3>1 DEF OrderInv, StoreOrder, Behind
  <2>7. QED BY <2>4, <2>5, <2>6 DEF OrderInv, StoreOrder, SendOrder
<1>5. ASSUME NEW d \in Detector, DetectNoMemory(d)
      PROVE  OrderInv'
  BY <1>3, <1>5 DEF DetectNoMemory, send, store
<1>6. ASSUME NEW d \in Detector, Push(d)
      PROVE  OrderInv'
  <2>1. CASE ReadCount(d) \/ WriteCount(d) \/ Copy(d) \/ TakeStoreMutex(d) \/ TakeSendMutex(d)
    BY <1>3, <2>1 DEF ReadCount, WriteCount, Copy, TakeStoreMutex, TakeSendMutex, alarms, send, store
  <2>2. CASE PushStore(d)
    <3>1. pc[d] = "storing" /\ maker' = maker /\ UNCHANGED <<taken, sendQueue, stored, storing>>
      BY <2>2 DEF PushStore, alarms, send
    <3>2. CASE HasRoom(storeQueue, StoreQueueLen)
      <4>1. storeQueue' = Append(storeQueue, alarm_report[d])
        BY <2>2, <3>2 DEF PushStore, Enqueue
      <4>2. PICK x \in Report : x = alarm_report[d]
        BY <3>1, HeldIsReport DEF Pushing
      <4>3. /\ After(stored, x) /\ After(storeQueue, x)
            /\ storing # NoReport => After(<<storing>>, x)
        BY <3>1, <4>2, StoreFresh
      <4>4. SendOrder(stored, storeQueue')
        BY <1>1, <4>1, <4>2, <4>3, EnterQueue DEF OrderInv, StoreOrder
      <4>5. ASSUME storing # NoReport
            PROVE  Behind(<<storing>>, storeQueue')
        <5>1. <<storing>> \in Seq(Report) /\ DOMAIN <<storing>> = {1}
          BY <1>1, <4>5
        <5>2. SendOrder(<<storing>>, storeQueue)
          BY <4>5, <5>1 DEF OrderInv, StoreOrder, SendOrder, InMakerOrder
        <5>3. QED BY <1>1, <4>1, <4>2, <4>3, <4>5, <5>1, <5>2, EnterQueue DEF SendOrder
      <4>6. QED BY <1>2, <3>1, <4>4, <4>5 DEF OrderInv, StoreOrder
    <3>3. CASE ~HasRoom(storeQueue, StoreQueueLen)
      BY <1>3, <2>2, <3>1, <3>3 DEF PushStore
    <3>4. QED BY <3>2, <3>3
  <2>3. CASE PushSend(d)
    <3>1. pc[d] = "sending" /\ maker' = maker /\ UNCHANGED <<taken, stored, storing, storeQueue>>
      BY <2>3 DEF PushSend, alarms, store
    <3>2. CASE HasRoom(sendQueue, SendQueueLen)
      <4>1. sendQueue' = Append(sendQueue, alarm_report[d])
        BY <2>3, <3>2 DEF PushSend, Enqueue
      <4>2. PICK x \in Report : x = alarm_report[d]
        BY <3>1, HeldIsReport DEF Pushing
      <4>3. After(taken, x) /\ After(sendQueue, x)
        BY <3>1, <4>2, SendFresh DEF Pushing
      <4>4. SendOrder(taken, sendQueue')
        BY <1>1, <4>1, <4>2, <4>3, EnterQueue DEF OrderInv
      <4>5. QED BY <1>2, <3>1, <4>4 DEF OrderInv
    <3>3. CASE ~HasRoom(sendQueue, SendQueueLen)
      BY <1>3, <2>3, <3>1, <3>3 DEF PushSend
    <3>4. QED BY <3>2, <3>3
  <2>4. QED BY <1>6, <2>1, <2>2, <2>3 DEF Push
<1>7. CASE AutoSend
  <2>1. maker' = maker /\ UNCHANGED <<stored, storing, storeQueue>>
    BY <1>7 DEF AutoSend, alarms, store
  <2>2. CASE UNCHANGED <<taken, sendQueue>>
    BY <1>3, <2>1, <2>2
  <2>3. CASE /\ sendQueue # << >>
             /\ taken' = Append(taken, Head(sendQueue)) /\ sendQueue' = Tail(sendQueue)
    <3>1. Head(sendQueue) \in Report /\ sendQueue' \in Seq(Report)
      BY <1>1, <2>3
    <3>2. SendOrder(taken, sendQueue)
      BY DEF OrderInv
    <3>3. SendOrder(taken', sendQueue')
      BY <1>1, <2>3, <3>1, <3>2, LeaveQueue, JoinOut DEF SendOrder
    <3>4. QED BY <1>2, <2>1, <3>3 DEF OrderInv
  <2>4. QED BY <1>7, <2>2, <2>3 DEF AutoSend
<1>8. CASE EndOfLoop \/ UNCHANGED vars
  BY <1>3, <1>8 DEF EndOfLoop, vars, alarms, send, store
<1>9. CASE TakeToStore
  <2>1. /\ maker' = maker /\ UNCHANGED <<taken, sendQueue, stored>> /\ storeQueue # << >>
        /\ storing' = Head(storeQueue) /\ storeQueue' = Tail(storeQueue)
    BY <1>9 DEF TakeToStore, alarms, send
  <2>2. SendOrder(stored, storeQueue) /\ SendOrder(taken, sendQueue)
    BY DEF OrderInv, StoreOrder
  <2>3. /\ InMakerOrder(storeQueue') /\ Behind(stored, storeQueue')
        /\ Behind(<<storing'>>, storeQueue') /\ Behind(stored, <<storing'>>)
    BY <1>1, <2>1, <2>2, LeaveQueue
  <2>4. StoreOrder(stored', storing', storeQueue')
    BY <2>1, <2>2, <2>3 DEF StoreOrder, SendOrder
  <2>5. QED BY <1>2, <2>1, <2>2, <2>4
<1>10. CASE Store
  <2>1. /\ maker' = maker /\ UNCHANGED <<taken, sendQueue, storeQueue>> /\ storing # NoReport
        /\ stored' = Append(stored, storing) /\ storing' = NoReport
    BY <1>10 DEF Store, alarms, send
  <2>2. /\ InMakerOrder(stored) /\ InMakerOrder(storeQueue) /\ Behind(stored, storeQueue)
        /\ Behind(stored, <<storing>>) /\ Behind(<<storing>>, storeQueue)
        /\ SendOrder(taken, sendQueue)
    BY <2>1 DEF OrderInv, StoreOrder, SendOrder
  <2>3. SendOrder(stored', storeQueue)
    BY <1>1, <2>1, <2>2, JoinOut
  <2>4. StoreOrder(stored', storing', storeQueue')
    BY <2>1, <2>3 DEF StoreOrder
  <2>5. QED BY <1>2, <2>1, <2>2, <2>4
<1>11. QED BY <1>4, <1>5, <1>6, <1>7, <1>8, <1>9, <1>10 DEF Next

-----------------------------------------------------------------------------
(* The number of alarms.                                                    *)
Updating(d) == pc[d] \in {"read", "write"}
AlarmSet == {d \in Detector : on[d] # Updating(d)}
Near(n, m) == n <= m + interrupted + noMemory /\ m <= n + interrupted + noMemory

(* Whoever is about to store the number has read one that is near.          *)
DriftInv ==
  /\ Near(SysAlarmState, AlarmsOn)
  /\ \A d \in Detector : pc[d] = "write" => Near(loaded[d], AlarmsOn)

LEMMA AlarmsOnIs ==
  /\ AlarmsOn = Cardinality(AlarmSet)
  /\ IsFiniteSet(AlarmSet)
  /\ AlarmsOn \in Nat /\ AlarmsOn' \in Nat
<1>1. AlarmsOn = Cardinality(AlarmSet) /\ AlarmsOn' = Cardinality(AlarmSet')
  BY DEF AlarmsOn, AlarmSet, Updating
<1>2. IsFiniteSet(Detector)
  BY FS_Interval, Limits DEF Detector
<1>3. AlarmSet \in SUBSET Detector /\ AlarmSet' \in SUBSET Detector
  BY DEF AlarmSet
<1>4. IsFiniteSet(AlarmSet) /\ IsFiniteSet(AlarmSet')
  BY <1>2, <1>3, FS_Subset
<1>5. QED BY <1>1, <1>4, FS_CardinalityType

LEMMA ChangeOne ==
  ASSUME NEW S, NEW T, NEW x, IsFiniteSet(S), S \ {x} = T \ {x}
  PROVE  /\ x \in S /\ x \in T => Cardinality(T) = Cardinality(S)
         /\ x \notin S /\ x \notin T => Cardinality(T) = Cardinality(S)
         /\ x \in S /\ x \notin T => Cardinality(T) = Cardinality(S) - 1
         /\ x \notin S /\ x \in T => Cardinality(T) = Cardinality(S) + 1
<1>1. (x \in S <=> x \in T) => T = S
  OBVIOUS
<1>2. x \in S /\ x \notin T => T = S \ {x}
  OBVIOUS
<1>3. x \notin S /\ x \in T => T = S \cup {x}
  OBVIOUS
<1>4. QED BY <1>1, <1>2, <1>3, FS_AddElement, FS_RemoveElement

LEMMA AlarmsOnKept ==
  ASSUME \A e \in Detector : (on'[e] # Updating(e)') <=> (on[e] # Updating(e))
  PROVE  AlarmsOn' = AlarmsOn
<1>1. AlarmSet' = AlarmSet
  BY Zenon DEF AlarmSet
<1>2. AlarmsOn = Cardinality(AlarmSet) /\ AlarmsOn' = Cardinality(AlarmSet')
  BY DEF AlarmsOn, AlarmSet, Updating
<1>3. QED BY <1>1, <1>2

(* An alarm that comes on or goes off is counted by at most one.            *)
LEMMA AlarmsOnChanged ==
  ASSUME NEW d \in Detector, \A e \in Detector \ {d} : on'[e] = on[e] /\ pc'[e] = pc[e]
  PROVE  /\ d \notin AlarmSet /\ d \in AlarmSet' => AlarmsOn' = AlarmsOn + 1
         /\ d \in AlarmSet /\ d \notin AlarmSet' => AlarmsOn' = AlarmsOn - 1
         /\ AlarmsOn' <= AlarmsOn + 1 /\ AlarmsOn <= AlarmsOn' + 1
<1>1. \A e \in Detector \ {d} : (on'[e] # Updating(e)') <=> (on[e] # Updating(e))
  BY Zenon DEF Updating
<1>2. AlarmSet \ {d} = AlarmSet' \ {d}
  BY <1>1, Zenon DEF AlarmSet
<1>3. AlarmsOn = Cardinality(AlarmSet) /\ IsFiniteSet(AlarmSet) /\ AlarmsOn \in Nat
  BY AlarmsOnIs
<1>4. AlarmsOn' = Cardinality(AlarmSet')
  BY DEF AlarmsOn, AlarmSet, Updating
<1>5. /\ d \in AlarmSet /\ d \in AlarmSet' => AlarmsOn' = AlarmsOn
      /\ d \notin AlarmSet /\ d \notin AlarmSet' => AlarmsOn' = AlarmsOn
      /\ d \in AlarmSet /\ d \notin AlarmSet' => AlarmsOn' = AlarmsOn - 1
      /\ d \notin AlarmSet /\ d \in AlarmSet' => AlarmsOn' = AlarmsOn + 1
  BY <1>2, <1>3, <1>4, ChangeOne
<1>6. QED BY <1>3, <1>5

LEMMA DriftStep ==
  ASSUME TypeOK, TypeOK', DriftInv, [Next]_vars
  PROVE  DriftInv'
<1>1. /\ pc \in [Detector -> Labels] /\ on \in [Detector -> BOOLEAN] /\ noMemory \in Nat
      /\ loaded \in [Detector -> Nat] /\ SysAlarmState \in Nat /\ interrupted \in Nat
      /\ AlarmsOn \in Nat
  BY TypeParts, Limits, AlarmsOnIs DEF AlarmsType, PcType, CountType
<1>2. noMemory' \in Nat /\ loaded' \in [Detector -> Nat] /\ SysAlarmState' \in Nat
      /\ interrupted' \in Nat
  BY Limits DEF TypeOK
<1>3. ASSUME AlarmsOn' = AlarmsOn, UNCHANGED count, noMemory' >= noMemory,
             \A e \in Detector : pc'[e] = "write" => pc[e] = "write"
      PROVE  DriftInv'
  <2>1. UNCHANGED <<loaded, SysAlarmState, interrupted>>
    BY <1>3 DEF count
  <2>2. ASSUME NEW n \in Nat, n <= AlarmsOn + interrupted + noMemory,
               AlarmsOn <= n + interrupted + noMemory
        PROVE  n <= AlarmsOn' + interrupted' + noMemory' /\ AlarmsOn' <= n + interrupted' + noMemory'
    <3>1. PICK k \in Nat : k = noMemory'
      BY <1>2
    <3>2. noMemory <= k
      BY <1>3, <3>1
    <3>3. n <= AlarmsOn + interrupted + k /\ AlarmsOn <= n + interrupted + k
      BY <1>1, <2>2, <3>2
    <3>4. QED BY <1>3, <2>1, <3>1, <3>3, Zenon
  <2>3. QED BY <1>1, <1>3, <2>1, <2>2 DEF DriftInv, Near
<1>4. ASSUME on' = on, \A e \in Detector : pc'[e] \in {"read", "write"} <=> pc[e] \in {"read", "write"}
      PROVE  AlarmsOn' = AlarmsOn
  <2>1. ASSUME NEW e \in Detector
        PROVE  (on'[e] # Updating(e)') <=> (on[e] # Updating(e))
    <3>1. (pc'[e] \in {"read", "write"}) = (pc[e] \in {"read", "write"})
      BY <1>4
    <3>2. Updating(e)' = Updating(e)
      BY <3>1, Zenon DEF Updating
    <3>3. QED BY <1>4, <3>2, Zenon
  <2>2. QED BY <2>1, AlarmsOnKept
<1>5. ASSUME NEW d \in Detector, Detect(d)
      PROVE  DriftInv'
  <2>1. /\ pc[d] = "idle" /\ pc'[d] = "read" /\ on'[d] = ~on[d]
        /\ \A e \in Detector \ {d} : pc'[e] = pc[e] /\ on'[e] = on[e]
    BY <1>1, <1>5 DEF Detect, Goto, MayDetect
  <2>2. (on'[d] # TRUE) <=> (on[d] # FALSE)
    BY <1>1, <2>1
  <2>3. (Updating(d)' = TRUE) /\ (Updating(d) = FALSE)
    BY <2>1 DEF Updating
  <2>4. \A e \in Detector : (on'[e] # Updating(e)') <=> (on[e] # Updating(e))
    <3>1. (on'[d] # Updating(d)') <=> (on[d] # Updating(d))
      BY <2>2, <2>3, Zenon
    <3>2. \A e \in Detector \ {d} : (on'[e] # Updating(e)') <=> (on[e] # Updating(e))
      BY <2>1, Zenon DEF Updating
    <3>3. QED BY <3>1, <3>2, Zenon
  <2>5. AlarmsOn' = AlarmsOn
    BY <2>4, AlarmsOnKept
  <2>6. \A e \in Detector : pc'[e] = "write" => pc[e] = "write"
    BY <2>1
  <2>7. QED BY <1>1, <1>3, <1>5, <2>5, <2>6 DEF Detect
<1>6. ASSUME NEW d \in Detector, DetectNoMemory(d)
      PROVE  DriftInv'
  <2>1. /\ noMemory' = noMemory + 1 /\ UNCHANGED <<count, pc>>
        /\ \A e \in Detector \ {d} : pc'[e] = pc[e] /\ on'[e] = on[e]
    BY <1>1, <1>6 DEF DetectNoMemory
  <2>2. AlarmsOn' <= AlarmsOn + 1 /\ AlarmsOn <= AlarmsOn' + 1
    BY <2>1, AlarmsOnChanged
  <2>3. AlarmsOn' \in Nat
    BY AlarmsOnIs
  <2>4. UNCHANGED <<loaded, SysAlarmState, interrupted>>
    BY <2>1 DEF count
  <2>5. ASSUME NEW n \in Nat, n <= AlarmsOn + interrupted + noMemory,
               AlarmsOn <= n + interrupted + noMemory
        PROVE  n <= AlarmsOn' + interrupted' + noMemory' /\ AlarmsOn' <= n + interrupted' + noMemory'
    <3>1. PICK k \in Nat : k = AlarmsOn'
      BY <2>3
    <3>2. k <= AlarmsOn + 1 /\ AlarmsOn <= k + 1
      BY <2>2, <3>1, Zenon
    <3>3. n <= k + interrupted + (noMemory + 1) /\ k <= n + interrupted + (noMemory + 1)
      BY <1>1, <2>5, <3>2
    <3>4. QED BY <2>1, <2>4, <3>1, <3>3, Zenon
  <2>6. QED BY <1>1, <2>1, <2>4, <2>5 DEF DriftInv, Near
<1>7. ASSUME NEW d \in Detector, Push(d)
      PROVE  DriftInv'
  <2>1. CASE ReadCount(d)
    <3>1. /\ pc[d] = "read" /\ on' = on /\ loaded'[d] = SysAlarmState
          /\ UNCHANGED <<SysAlarmState, interrupted, noMemory>>
          /\ pc'[d] = "write"
          /\ \A e \in Detector \ {d} : pc'[e] = pc[e] /\ loaded'[e] = loaded[e]
      BY <1>1, <2>1 DEF ReadCount, Goto, alarms
    <3>2. \A e \in Detector : pc'[e] \in {"read", "write"} <=> pc[e] \in {"read", "write"}
      BY <3>1
    <3>3. AlarmsOn' = AlarmsOn
      BY <1>4, <3>1, <3>2
    <3>4. QED BY <3>1, <3>3 DEF DriftInv, Near
  <2>2. CASE WriteCount(d)
    <3>1. /\ pc[d] = "write" /\ on' = on /\ SysAlarmState' = Counted(d) /\ pc'[d] = "copy"
          /\ UNCHANGED <<loaded, noMemory>> /\ Runs(d)
          /\ \A e \in Detector \ {d} : pc'[e] = pc[e]
      BY <1>1, <2>2 DEF WriteCount, Goto, alarms
    <3>2. Updating(d) = TRUE /\ Updating(d)' = FALSE
      BY <3>1 DEF Updating
    <3>3. \A e \in Detector \ {d} : on'[e] = on[e] /\ pc'[e] = pc[e]
      BY <3>1
    <3>4. CASE on[d]
      <4>1. d \notin AlarmSet /\ d \in AlarmSet'
        BY <1>1, <3>1, <3>2, <3>4 DEF AlarmSet
      <4>2. AlarmsOn' = AlarmsOn + 1
        BY <3>3, <4>1, AlarmsOnChanged
      <4>3. SysAlarmState' = loaded[d] + 1
        BY <3>1, <3>4 DEF Counted
      <4>4. interrupted' \in {interrupted, interrupted + 1}
            /\ (\E l \in Detector : l > d /\ pc[l] = "write" => interrupted' = interrupted + 1)
        BY <2>2 DEF WriteCount
      <4>5. Near(SysAlarmState, AlarmsOn)'
        BY <1>1, <3>1, <4>2, <4>3, <4>4 DEF DriftInv, Near
      <4>6. ASSUME NEW e \in Detector, pc'[e] = "write"
            PROVE  Near(loaded[e], AlarmsOn)'
        <5>1. e # d /\ pc[e] = "write" /\ loaded'[e] = loaded[e]
          BY <3>1, <4>6
        <5>2. e > d
          BY <3>1, <5>1, Limits DEF Runs, Detector
        <5>3. interrupted' = interrupted + 1
          BY <2>2, <5>1, <5>2 DEF WriteCount
        <5>4. QED BY <1>1, <3>1, <4>2, <5>1, <5>3 DEF DriftInv, Near
      <4>7. QED BY <4>5, <4>6 DEF DriftInv
    <3>5. CASE ~on[d]
      <4>1. d \in AlarmSet /\ d \notin AlarmSet'
        BY <1>1, <3>1, <3>2, <3>5 DEF AlarmSet
      <4>2. AlarmsOn' = AlarmsOn - 1
        BY <3>3, <4>1, AlarmsOnChanged
      <4>3. SysAlarmState' = IF loaded[d] >= 1 THEN loaded[d] - 1 ELSE loaded[d]
        BY <3>1, <3>5 DEF Counted
      <4>4. interrupted' \in {interrupted, interrupted + 1}
        BY <2>2 DEF WriteCount
      <4>5. AlarmsOn' \in Nat
        <5>1. IsFiniteSet(AlarmSet) /\ AlarmsOn = Cardinality(AlarmSet)
          BY AlarmsOnIs
        <5>2. AlarmsOn # 0
          BY <4>1, <5>1, FS_EmptySet
        <5>3. QED BY <1>1, <4>2, <5>2
      <4>6. Near(SysAlarmState, AlarmsOn)'
        <5>1. loaded[d] <= AlarmsOn + interrupted + noMemory
              /\ AlarmsOn <= loaded[d] + interrupted + noMemory
          BY <3>1 DEF DriftInv, Near
        <5>2. SysAlarmState' <= AlarmsOn' + interrupted' + noMemory'
              /\ AlarmsOn' <= SysAlarmState' + interrupted' + noMemory'
          BY <1>1, <3>1, <4>2, <4>3, <4>4, <4>5, <5>1
        <5>3. QED BY <5>2 DEF Near
      <4>7. ASSUME NEW e \in Detector, pc'[e] = "write"
            PROVE  Near(loaded[e], AlarmsOn)'
        <5>1. e # d /\ pc[e] = "write" /\ loaded'[e] = loaded[e]
          BY <3>1, <4>7
        <5>2. e > d
          BY <3>1, <5>1, Limits DEF Runs, Detector
        <5>3. interrupted' = interrupted + 1
          BY <2>2, <5>1, <5>2 DEF WriteCount
        <5>4. QED BY <1>1, <3>1, <4>2, <5>1, <5>3 DEF DriftInv, Near
      <4>8. QED BY <4>6, <4>7 DEF DriftInv
    <3>6. QED BY <3>4, <3>5
  <2>3. CASE Copy(d)
    <3>1. \A e \in Detector :
            /\ pc'[e] \in {"read", "write"} <=> pc[e] \in {"read", "write"}
            /\ pc'[e] = "write" => pc[e] = "write"
      BY <1>1, <2>3 DEF Copy, Goto
    <3>2. on' = on /\ noMemory' >= noMemory /\ UNCHANGED count
      BY <1>1, <2>3 DEF Copy
    <3>3. QED BY <1>3, <1>4, <3>1, <3>2
  <2>4. CASE TakeStoreMutex(d) \/ PushStore(d) \/ TakeSendMutex(d) \/ PushSend(d)
    <3>1. \A e \in Detector :
            /\ pc'[e] \in {"read", "write"} <=> pc[e] \in {"read", "write"}
            /\ pc'[e] = "write" => pc[e] = "write"
      BY <1>1, <2>4 DEF TakeStoreMutex, PushStore, TakeSendMutex, PushSend, Goto
    <3>2. on' = on /\ noMemory' = noMemory /\ UNCHANGED count
      BY <2>4 DEF TakeStoreMutex, PushStore, TakeSendMutex, PushSend, alarms
    <3>3. QED BY <1>1, <1>3, <1>4, <3>1, <3>2
  <2>5. QED BY <1>7, <2>1, <2>2, <2>3, <2>4 DEF Push
<1>8. CASE AutoSend \/ EndOfLoop \/ TakeToStore \/ Store \/ UNCHANGED vars
  <2>1. on' = on /\ noMemory' = noMemory /\ pc' = pc /\ UNCHANGED count
    BY <1>8 DEF AutoSend, EndOfLoop, TakeToStore, Store, vars, alarms
  <2>2. QED BY <1>1, <1>3, <1>4, <2>1
<1>9. QED BY <1>5, <1>6, <1>7, <1>8 DEF Next

-----------------------------------------------------------------------------
(* The theorems.                                                            *)
IInv == TypeOK /\ HolderInv /\ CopyInv /\ CopyOwner /\ ReportOwner /\ OrderInv /\ DriftInv

LEMMA InitInv == Init => IInv
<1> SUFFICES ASSUME Init PROVE IInv
  OBVIOUS
<1>1. TypeOK
  BY InitType
<1>2. \A d \in Detector : pc[d] = "idle" /\ on[d] = FALSE
  BY DEF Init
<1>3. HolderInv /\ CopyInv
  BY <1>2 DEF Init, HolderInv, Pushing, CopyInv
<1>4. \A r : HeldAt(CopyLabels, r) = 0 /\ HeldAt(ReportLabels, r) = 0
  BY <1>2 DEF HeldAt, CopyLabels, ReportLabels
<1>5. CopyOwner /\ ReportOwner
  <2>1. \A r \in Report : /\ Occurrences(storeQueue, r) = 0 /\ Occurrences(sendQueue, r) = 0
                          /\ Occurrences(taken, r) = 0
    BY OccurrencesEmpty DEF Init
  <2>2. /\ storing = NoReport /\ copies = {} /\ made = 0
        /\ \A r \in Report : r # NoReport /\ copyFrees[r] = 0 /\ reportFrees[r] = 0 /\ ~(r <= 0)
    BY Limits DEF Init, Report
  <2>3. CopyOwner
    BY <1>4, <2>1, <2>2, CopyPlacesIs DEF CopyOwner
  <2>4. ReportOwner
    BY <1>4, <2>1, <2>2, ReportPlacesIs DEF ReportOwner
  <2>5. QED BY <2>3, <2>4
<1>6. OrderInv
  BY DEF Init, OrderInv, StoreOrder, SendOrder, InMakerOrder, Behind
<1>7. DriftInv
  <2>1. AlarmSet = {}
    <3>1. ASSUME NEW d \in Detector
          PROVE  Updating(d) = FALSE
      <4>1. pc[d] = "idle"
        BY <1>2
      <4>2. QED BY <4>1 DEF Updating
    <3>2. QED BY <1>2, <3>1, Zenon DEF AlarmSet
  <2>2. AlarmsOn = 0
    BY <2>1, AlarmsOnIs, FS_EmptySet
  <2>3. SysAlarmState = 0 /\ interrupted = 0 /\ noMemory = 0
    BY DEF Init
  <2>4. QED BY <1>2, <2>2, <2>3 DEF DriftInv, Near
<1>8. QED BY <1>1, <1>3, <1>5, <1>6, <1>7 DEF IInv

LEMMA StepInv == IInv /\ [Next]_vars => IInv'
<1> SUFFICES ASSUME IInv, [Next]_vars PROVE IInv'
  OBVIOUS
<1>1. TypeOK' /\ HolderInv'
  BY TypeStep, HolderStep DEF IInv
<1>2. CopyInv'
  BY CopyInvStep DEF IInv
<1>3. CopyOwner' /\ ReportOwner'
  BY <1>1, CopyOwnerStep, ReportOwnerStep DEF IInv
<1>4. OrderInv'
  BY <1>1, OrderStep DEF IInv
<1>5. DriftInv'
  BY <1>1, DriftStep DEF IInv
<1>6. QED BY <1>1, <1>2, <1>3, <1>4, <1>5 DEF IInv

(* The conjuncts hold together in every behaviour: a detector that is       *)
(* pushing has its latest report, copies are made once, and both queues     *)
(* stay in order behind what was taken from them.                           *)
THEOREM Invariance == Spec => []IInv
<1>1. Init => IInv
  BY InitInv
<1>2. IInv /\ [Next]_vars => IInv'
  BY StepInv
<1>3. QED BY <1>1, <1>2, PTL DEF Spec

(* The state of the push always has its type: mutexes have one holder or    *)
(* none, the queues stay within their lengths.                              *)
THEOREM TypeCorrect == Spec => []TypeOK
<1>1. IInv => TypeOK
  BY DEF IInv
<1>2. QED BY <1>1, Invariance, PTL

(* However many detectors push, through full queues and failed allocations, *)
(* PushAlarmReportToAlarmQueue and its consumers own each copy and each     *)
(* report exactly once, and free it once.                                   *)
THEOREM OwnedOnce == Spec => []OneOwner
<1>1. IInv => OneOwner
  BY OwnerParts DEF IInv
<1>2. QED BY <1>1, Invariance, PTL

(* Neither consumer ever sees the reports of a detector out of order,       *)
(* although the two queues have a mutex each.                               *)
THEOREM OrderKept == Spec => []DetectorOrder
<1>1. IInv => DetectorOrder
  BY DEF IInv, OrderInv, StoreOrder, SendOrder, DetectorOrder
<1>2. QED BY <1>1, Invariance, PTL

(* SysAlarmState, updated by tasks of different priority without a lock,    *)
(* is never further from the number of alarms that are on than the updates  *)
(* that interrupted another and the reports there was no memory for.        *)
THEOREM DriftBounded == Spec => []CountDrift
<1>1. IInv => CountDrift
  BY DEF IInv, DriftInv, Near, CountDrift
<1>2. QED BY <1>1, Invariance, PTL
=============================================================================
