------------------------- MODULE PlcExecutorProofs -------------------------
(***************************************************************************)
(* Proofs about PlcExecutor, for any lamps, groups, strategies, messages    *)
(* and lengths of the queues: the types, that a task has one owner, what    *)
(* its notices tell, how many successes were none, that a command to all    *)
(* lamps addresses each once, and one to groups no other lamp.              *)
(***************************************************************************)
EXTENDS PlcExecutor, WellFoundedInduction, FiniteSetTheorems, SequenceTheorems, TLAPS

(* Where a task can be.                                                     *)
InQueue(t) == \E i \in DOMAIN toPlc : toPlc[i].id = t
InProgress(t) == task_progress # None /\ task_progress.id = t
InBackup(t) == task_backup # None /\ task_backup.id = t

(* The tasks in the queue were made, one after the other.                   *)
QueueInOrder ==
  /\ \A i \in DOMAIN toPlc : toPlc[i].id <= made
  /\ \A i, j \in DOMAIN toPlc : i < j => toPlc[i].id < toPlc[j].id

(* A task that was made is in one place, or was freed once.                 *)
OnePlace ==
  \A t \in TaskId :
    IF t > made
    THEN ~InQueue(t) /\ ~InProgress(t) /\ ~InBackup(t) /\ freed[t] = 0
    ELSE \/ InQueue(t) /\ ~InProgress(t) /\ ~InBackup(t) /\ freed[t] = 0
         \/ ~InQueue(t) /\ InProgress(t) /\ ~InBackup(t) /\ freed[t] = 0
         \/ ~InQueue(t) /\ ~InProgress(t) /\ InBackup(t) /\ freed[t] = 0
         \/ ~InQueue(t) /\ ~InProgress(t) /\ ~InBackup(t) /\ freed[t] = 1

IInv == QueueInOrder /\ OnePlace

(* A frame whose answer is waited for was transmitted, and the attempts are *)
(* counted up to their number.                                              *)
Waits ==
  /\ pc = "wait" => frame \in sent
  /\ pc \in {"send", "wait"} => re_send_times <= retransmission_times

-----------------------------------------------------------------------------
(* The bounds are numbers; NULL is no task, frame or answer.                *)
LEMMA Limits ==
  /\ Bags \in Nat /\ retransmission_times \in Nat /\ ToPlcLen \in Nat /\ StateLen \in Nat
  /\ FromPlcLen \in Nat /\ MaxRequest \in Nat /\ MaxInput \in Nat /\ NLamp \in Nat
BY PlcAssumption DEF PlcAssumption

LEMMA Null == None \notin TaskType /\ None \notin FrameType /\ None \notin AnswerType
BY NoneAssumption DEF NoneAssumption

(* The parts of the types.                                                  *)
Notice == [task : TaskType, state : {"start", "finished"}]
QueueType ==
  /\ toPlc \in Seq(TaskType) /\ Len(toPlc) <= ToPlcLen
  /\ states \in Seq({"stop", "suspend"}) /\ Len(states) <= StateLen
  /\ fromPlc \in Seq(Notice) /\ Len(fromPlc) <= FromPlcLen
LoopType ==
  /\ task_progress \in TaskType \cup {None} /\ task_backup \in TaskType \cup {None}
  /\ add_index \in Nat
  /\ pc \in {"task", "state", "frame", "send", "sent", "wait", "analyse", "halted"}
  /\ frame \in FrameType \cup {None}
  /\ pc \in {"send", "sent", "wait"} => frame # None /\ task_progress # None
  /\ re_send_times \in 0 .. retransmission_times + 1
LineType ==
  /\ list \subseteq Lamp
  /\ rx \in AnswerType \cup {None} /\ air \subseteq AnswerType
  /\ made \in 0 .. MaxRequest /\ inputs \in 0 .. MaxInput
HistoryType ==
  /\ freed \in [TaskId -> Nat]
  /\ sent \subseteq FrameType /\ executed \subseteq sent /\ untrue \subseteq sent
  /\ expiries \in Nat /\ changed \subseteq TaskId

LEMMA TypeParts == QueueType /\ LoopType /\ LineType /\ HistoryType <=> TypeOK
BY DEF TypeOK, QueueType, LoopType, LineType, HistoryType, Notice

-----------------------------------------------------------------------------
(* Lamps, configured lamps and the lamps of groups are finitely many.       *)
LEMMA FiniteLamps ==
  ASSUME list \subseteq Lamp
  PROVE  /\ IsFiniteSet(list) /\ Cardinality(list) \in Nat
         /\ \A t : t.dev_id \in Seq(Int) => IsFiniteSet(GroupsOf(t))
<1>1. IsFiniteSet(Lamp)
  BY Limits, FS_Interval DEF Lamp
<1>2. IsFiniteSet(list) /\ Cardinality(list) \in Nat
  BY <1>1, FS_Subset, FS_CardinalityType
<1>3. ASSUME NEW t, t.dev_id \in Seq(Int) PROVE IsFiniteSet(GroupsOf(t))
  <2>1. DOMAIN t.dev_id = 1 .. Len(t.dev_id) /\ Len(t.dev_id) \in Nat
    BY <1>3
  <2>2. IsFiniteSet(DOMAIN t.dev_id)
    BY <2>1, FS_Interval
  <2> DEFINE S == DOMAIN t.dev_id
             G == {t.dev_id[i] : i \in S}
             f == [i \in S |-> t.dev_id[i]]
  <2>3. f \in Surjection(S, G)
    BY DEF Surjection
  <2>4. IsFiniteSet(G)
    BY <2>2, <2>3, FS_Surjection
  <2>5. QED BY <2>4 DEF GroupsOf
<1>4. QED BY <1>2, <1>3

(* A message of the server becomes a task.                                  *)
LEMMA DevNumType ==
  ASSUME list \subseteq Lamp, NEW r, r.broadcast_type \in 0 .. 2, r.dev_id \in Seq(Int)
  PROVE  dev_num(r) \in Nat
<1>1. CASE r.broadcast_type = 0
  BY <1>1, FiniteLamps DEF dev_num
<1>2. CASE r.broadcast_type = 1
  <2> DEFINE P == {lg \in list \X GroupsOf(r) : Counted(r, lg[2]) \in Group[lg[1]]}
  <2>1. IsFiniteSet(list \X GroupsOf(r))
    BY FiniteLamps, FS_Product
  <2>2. P \subseteq list \X GroupsOf(r)
    OBVIOUS
  <2>3. Cardinality(P) \in Nat
    BY <2>1, <2>2, FS_Subset, FS_CardinalityType
  <2>4. dev_num(r) = Cardinality(P)
    BY <1>2 DEF dev_num
  <2>5. QED BY <2>3, <2>4
<1>3. CASE r.broadcast_type = 2
  BY <1>3 DEF dev_num
<1>4. QED BY <1>1, <1>2, <1>3

LEMMA NewTaskType ==
  ASSUME list \subseteq Lamp, NEW t \in TaskId, NEW r \in Requests[t]
  PROVE  NewTask(t, r) \in TaskType /\ NewTask(t, r).id = t
<1>1. /\ r.cmd_code \in Cmd /\ r.broadcast_type \in 0 .. 2 /\ r.execute_type \in 0 .. 2
      /\ r.dev_id \in Seq(Int)
  BY PlcAssumption DEF PlcAssumption
<1>2. dev_num(r) \in Nat
  BY <1>1, DevNumType
<1>3. Len(r.dev_id) \in Nat /\ Len(Strategies) \in Nat /\ Bags \in Nat
  BY <1>1, Limits, PlcAssumption DEF PlcAssumption
<1>4. \A m, n \in Nat : m * n \in Nat
  OBVIOUS
<1>5. execute_total_num(r) \in Nat
  BY <1>2, <1>3, <1>4 DEF execute_total_num
<1>6. QED BY <1>1, <1>2, <1>5 DEF NewTask, TaskType

(* The strategy that is sent, and to whom.                                  *)
LEMMA StrategyType ==
  ASSUME task_progress \in TaskType, StrategyLeft, add_index \in Nat
  PROVE  /\ Strategy \in Seq(Lamp) /\ StrategyTo \in Int /\ NextAddress \in Nat
<1>1. task_progress.executed_index \in Nat
  BY DEF TaskType
<1>2. Strategies \in Seq(Seq(Lamp))
  BY PlcAssumption DEF PlcAssumption
<1>3. Strategy \in Seq(Lamp)
  BY <1>1, <1>2 DEF Strategy, StrategyLeft
<1>4. StrategyTo \in Int
  <2>1. CASE Strategy = << >>
    BY <2>1 DEF StrategyTo, All
  <2>2. CASE Strategy # << >> /\ add_index < Len(Strategy)
    <3>1. add_index + 1 \in 1 .. Len(Strategy)
      BY <1>3, <2>2
    <3>2. Strategy[add_index + 1] \in Lamp
      BY <1>3, <3>1
    <3>3. QED BY <2>2, <3>2 DEF StrategyTo, Lamp
  <2>3. CASE Strategy # << >> /\ ~(add_index < Len(Strategy))
    BY <2>3 DEF StrategyTo, Nobody
  <2>4. QED BY <2>1, <2>2, <2>3
<1>5. NextAddress \in Nat
  BY DEF NextAddress
<1>6. QED BY <1>3, <1>4, <1>5

-----------------------------------------------------------------------------
(* The effects the actions share.                                           *)
LEMMA NotifyType ==
  ASSUME QueueType, NEW task \in TaskType, NEW state \in {"start", "finished"}, Notify(task, state)
  PROVE  fromPlc' \in Seq(Notice) /\ Len(fromPlc') <= FromPlcLen
<1>1. [task |-> task, state |-> state] \in Notice
  BY DEF Notice
<1>2. fromPlc \in Seq(Notice) /\ Len(fromPlc) \in Nat /\ Len(fromPlc) <= FromPlcLen
  BY DEF QueueType
<1>3. QED BY <1>1, <1>2, Limits DEF Notify

LEMMA DeleteType ==
  ASSUME HistoryType, NEW task \in TaskType, DeleteTask(task)
  PROVE  freed' \in [TaskId -> Nat]
<1>1. task.id \in TaskId
  BY DEF TaskType
<1>2. freed' = [freed EXCEPT ![task.id] = freed[task.id] + 1] /\ freed \in [TaskId -> Nat]
  BY DEF DeleteTask, HistoryType
<1>3. freed[task.id] + 1 \in Nat
  BY <1>1, <1>2
<1>4. QED BY <1>2, <1>3

LEMMA FinishedType ==
  ASSUME QueueType, HistoryType, task_progress \in TaskType, FINISHED
  PROVE  /\ fromPlc' \in Seq(Notice) /\ Len(fromPlc') <= FromPlcLen
         /\ freed' \in [TaskId -> Nat] /\ task_progress' = None /\ frame' = None
BY NotifyType, DeleteType DEF FINISHED

(* A step that only moves on in the loop.                                   *)
Rest == <<list, queues, tasks, frame, re_send_times, line, bounds, history>>

LEMMA StepType ==
  ASSUME TypeOK, pc' \in {"task", "state", "frame", "analyse"}, UNCHANGED Rest
  PROVE  TypeOK' /\ Waits'
<1> USE DEF Rest, queues, tasks, line, bounds, history
<1>1. QueueType /\ LoopType /\ LineType /\ HistoryType
  BY TypeParts
<1>2. QueueType' /\ LineType' /\ HistoryType'
  BY <1>1 DEF QueueType, LineType, HistoryType
<1>3. LoopType'
  BY <1>1 DEF LoopType
<1>4. TypeOK'
  BY <1>2, <1>3 DEF TypeOK, QueueType, LoopType, LineType, HistoryType, Notice
<1>5. QED BY <1>4 DEF Waits

(* A frame is made.                                                         *)
LEMMA MadeType ==
  ASSUME TypeOK, task_progress \in TaskType, NEW to \in Int, NEW task \in TaskType,
         Made(to, task), add_index' \in Nat
  PROVE  TypeOK' /\ Waits'
<1> USE DEF queues, line, bounds, history
<1>1. QueueType /\ LoopType /\ LineType /\ HistoryType
  BY TypeParts
<1>2. Frame(task_progress, to) \in FrameType
  BY DEF Frame, FrameType, TaskType
<1>3. /\ frame' \in FrameType /\ task_progress' \in TaskType /\ re_send_times' = 0 /\ pc' = "send"
      /\ task_backup' = task_backup
  BY <1>2 DEF Made
<1>4. frame' # None /\ task_progress' # None
  BY <1>3, Null
<1>5. LoopType'
  BY <1>1, <1>3, <1>4, Limits DEF LoopType
<1>6. QueueType' /\ LineType' /\ HistoryType'
  BY <1>1 DEF Made, QueueType, LineType, HistoryType
<1>7. TypeOK'
  BY <1>5, <1>6 DEF TypeOK, QueueType, LoopType, LineType, HistoryType, Notice
<1>8. Waits'
  BY <1>3, Limits DEF Waits
<1>9. QED BY <1>7, <1>8

(* A task ends.                                                             *)
LEMMA FinishType ==
  ASSUME TypeOK, task_progress \in TaskType, Finish
  PROVE  TypeOK' /\ Waits'
<1> USE DEF line, bounds, history, queues
<1>1. QueueType /\ LoopType /\ LineType /\ HistoryType
  BY TypeParts
<1>2. /\ fromPlc' \in Seq(Notice) /\ Len(fromPlc') <= FromPlcLen
      /\ freed' \in [TaskId -> Nat] /\ task_progress' = None /\ frame' = None
  BY <1>1, FinishedType DEF Finish
<1>3. QueueType' /\ LineType' /\ HistoryType'
  BY <1>1, <1>2 DEF Finish, QueueType, LineType, HistoryType
<1>4. LoopType'
  BY <1>1, <1>2 DEF Finish, LoopType
<1>5. TypeOK'
  BY <1>3, <1>4 DEF TypeOK, QueueType, LoopType, LineType, HistoryType, Notice
<1>6. QED BY <1>5 DEF Finish, Waits

(* A frame is counted.                                                      *)
Tallied(success) ==
  [task_progress EXCEPT
     !.success_num = IF task_progress.execute_type \in {1, 2} /\ success THEN @ + 1 ELSE @,
     !.failed_num = IF task_progress.execute_type \in {1, 2} /\ ~success THEN @ + 1 ELSE @]

LEMMA TalliedType ==
  ASSUME task_progress \in TaskType, NEW success \in BOOLEAN
  PROVE  Tallied(success) \in TaskType /\ Tallied(success).id = task_progress.id
<1> DEFINE counted == task_progress.execute_type \in {1, 2}
<1>1. task_progress.success_num \in Nat /\ task_progress.failed_num \in Nat
  BY DEF TaskType
<1>2. (IF counted /\ success THEN task_progress.success_num + 1 ELSE task_progress.success_num) \in Nat
  BY <1>1
<1>3. (IF counted /\ ~success THEN task_progress.failed_num + 1 ELSE task_progress.failed_num) \in Nat
  BY <1>1
<1>4. Tallied(success) = [task_progress EXCEPT
        !.success_num = IF counted /\ success THEN task_progress.success_num + 1
                        ELSE task_progress.success_num,
        !.failed_num = IF counted /\ ~success THEN task_progress.failed_num + 1
                       ELSE task_progress.failed_num]
  BY DEF Tallied
<1> HIDE DEF counted
<1>5. QED BY <1>2, <1>3, <1>4 DEF TaskType

LEMMA SettledType ==
  ASSUME TypeOK, task_progress \in TaskType, NEW success \in BOOLEAN, Settled(success),
         re_send_times' \in 0 .. retransmission_times + 1, expiries' \in Nat, untrue' \subseteq sent
  PROVE  TypeOK' /\ Waits'
<1> USE DEF line, bounds, history, queues
<1>1. QueueType /\ LoopType /\ LineType /\ HistoryType
  BY TypeParts
<1>2. Tallied(success) \in TaskType
  BY TalliedType
<1>3. /\ task_progress' = Tallied(success) /\ Notify(Tallied(success), "start")
      /\ frame' = None /\ pc' = "analyse"
      /\ UNCHANGED <<list, toPlc, states, task_backup, add_index, line, bounds, freed, sent, executed,
                     changed>>
  BY DEF Settled, Tallied
<1>4. fromPlc' \in Seq(Notice) /\ Len(fromPlc') <= FromPlcLen
  BY <1>1, <1>2, <1>3, NotifyType
<1>5. QueueType' /\ LineType' /\ HistoryType'
  BY <1>1, <1>3, <1>4 DEF QueueType, LineType, HistoryType
<1>6. LoopType'
  BY <1>1, <1>2, <1>3 DEF LoopType
<1>7. TypeOK'
  BY <1>5, <1>6 DEF TypeOK, QueueType, LoopType, LineType, HistoryType, Notice
<1>8. QED BY <1>3, <1>7 DEF Waits

-----------------------------------------------------------------------------
(* Types: no step of the tasks, the line or the server leaves them.         *)
LEMMA TypeInit == Init => TypeOK /\ Waits
<1> SUFFICES ASSUME Init PROVE TypeOK /\ Waits
  OBVIOUS
<1>1. InitialList \subseteq Lamp
  BY PlcAssumption DEF PlcAssumption
<1>2. QueueType
  <2>1. toPlc = << >> /\ states = << >> /\ fromPlc = << >>
    BY DEF Init
  <2>2. QED BY <2>1, Limits DEF QueueType
<1>3. LoopType
  BY Limits DEF Init, LoopType
<1>4. LineType
  BY <1>1, Limits DEF Init, LineType
<1>5. HistoryType
  BY DEF Init, HistoryType
<1>6. QED BY <1>2, <1>3, <1>4, <1>5, TypeParts DEF Init, Waits

LEMMA MakeFrameType ==
  ASSUME TypeOK, Waits, MakeFrame
  PROVE  TypeOK' /\ Waits'
<1>1. QueueType /\ LoopType /\ LineType /\ HistoryType
  BY TypeParts
<1>2. CASE Idle
  BY <1>2, StepType DEF Idle, Rest
<1> SUFFICES ASSUME AtFrame PROVE TypeOK' /\ Waits'
  BY <1>2 DEF MakeFrame, Broadcast, BroadcastEnd, BroadcastFirst, ToNextLamp, ListEnd, ToNamedLamp,
              NamedEnd, SendStrategy, StrategyEnd
<1>3. task_progress \in TaskType /\ add_index \in Nat
  BY <1>1 DEF AtFrame, LoopType
<1>4. /\ task_progress.executed_num \in Nat /\ task_progress.executed_index \in Nat
      /\ task_progress.dev_num \in Nat /\ task_progress.dev_id \in Seq(Int)
      /\ task_progress.broadcast_state \in BOOLEAN
  BY <1>3, Zenon DEF TaskType
<1>a. /\ task_progress.executed_num + 1 \in Nat /\ task_progress.executed_index + 1 \in Nat
  BY <1>4
<1>b. All \in Int
  BY DEF All
<1>5. CASE BroadcastEnd \/ ListEnd \/ NamedEnd \/ StrategyEnd
  BY <1>3, <1>5, FinishType DEF BroadcastEnd, ListEnd, NamedEnd, StrategyEnd
<1>6. CASE Broadcast
  <2> DEFINE task == [task_progress EXCEPT !.executed_num = @ + 1,
                                           !.success_num = task_progress.dev_num,
                                           !.failed_num = 0]
  <2>1. task \in TaskType
    BY <1>3, <1>4, <1>a DEF TaskType
  <2>2. Made(All, task) /\ add_index' = add_index
    BY <1>6 DEF Broadcast
  <2> HIDE DEF task
  <2>3. QED BY <1>3, <1>b, <2>1, <2>2, MadeType
<1>7. CASE BroadcastFirst
  <2> DEFINE task == [task_progress EXCEPT !.broadcast_state = TRUE, !.executed_index = @ + 1]
  <2>1. task \in TaskType
    BY <1>3, <1>4, <1>a DEF TaskType
  <2>2. Made(All, task) /\ add_index' = add_index
    BY <1>7 DEF BroadcastFirst
  <2> HIDE DEF task
  <2>3. QED BY <1>3, <1>b, <2>1, <2>2, MadeType
<1>8. CASE ToNextLamp
  <2>1. NextLamp \in Lamp
    <3>1. \E l \in Remaining : \A k \in Remaining : l <= k
      <4>1. Remaining \subseteq Nat /\ Remaining # {}
        BY <1>8 DEF Remaining, Lamp, ToNextLamp
      <4> DEFINE R == OpToRel(<, Nat)
      <4>2. PICK l \in Remaining : \A k \in Remaining : <<k, l>> \notin R
        <5> HIDE DEF R
        <5>1. IsWellFoundedOn(R, Nat)
          BY NatLessThanWellFounded DEF R
        <5>2. QED BY <4>1, <5>1, WFMin
      <4>3. \A k \in Remaining : ~(k < l)
        BY <4>1, <4>2 DEF OpToRel
      <4>4. QED BY <4>1, <4>3
    <3>2. NextLamp \in Remaining
      BY <3>1 DEF NextLamp
    <3>3. QED BY <3>2 DEF Remaining
  <2>2. NextLamp \in Int /\ NextLamp + 1 \in Nat
    BY <2>1 DEF Lamp
  <2>3. (task_progress.broadcast_state \/ BroadcastDue) \in BOOLEAN
    BY Zenon
  <2>4. [task_progress EXCEPT !.broadcast_state = @ \/ BroadcastDue, !.executed_index = NextLamp + 1,
                              !.executed_num = @ + 1] \in TaskType
    <3> HIDE DEF NextLamp, BroadcastDue
    <3>1. QED BY <1>3, <1>a, <2>2, <2>3 DEF TaskType
  <2>5. QED BY <1>3, <1>8, <2>2, <2>4, MadeType DEF ToNextLamp
<1>9. CASE ToNamedLamp
  <2>1. task_progress.dev_id[task_progress.executed_index + 1] \in Int
    <3>1. task_progress.executed_index + 1 \in 1 .. Len(task_progress.dev_id)
      BY <1>4, <1>9 DEF ToNamedLamp, AtNamed
    <3>2. QED BY <1>4, <3>1
  <2>2. Wrapped(task_progress.executed_index + 1) \in Nat
    BY <1>a DEF Wrapped
  <2>3. [task_progress EXCEPT !.executed_num = @ + 1, !.executed_index = Wrapped(@ + 1)] \in TaskType
    BY <1>3, <1>a, <2>2 DEF TaskType
  <2>4. QED BY <1>3, <1>9, <2>1, <2>3, MadeType DEF ToNamedLamp
<1>10. CASE SendStrategy
  <2>1. Strategy \in Seq(Lamp) /\ StrategyTo \in Int /\ NextAddress \in Nat
    BY <1>3, <1>10, StrategyType DEF SendStrategy
  <2>2. add_index' \in Nat
    BY <1>3, <1>10, <2>1 DEF SendStrategy
  <2>3. (IF Strategy # << >> /\ NextAddress # 0 THEN task_progress.executed_index
         ELSE task_progress.executed_index + 1) \in Nat
    BY <1>4, <1>a
  <2>4. [task_progress EXCEPT !.executed_num = @ + 1,
                              !.executed_index = IF Strategy # << >> /\ NextAddress # 0
                                                  THEN @ ELSE @ + 1] \in TaskType
    <3> DEFINE I == IF Strategy # << >> /\ NextAddress # 0 THEN task_progress.executed_index
                    ELSE task_progress.executed_index + 1
    <3>1. [task_progress EXCEPT !.executed_num = task_progress.executed_num + 1,
                                !.executed_index = I] \in TaskType
      <4>1. I \in Nat
        BY <2>3
      <4> HIDE DEF I
      <4>2. QED BY <1>3, <1>a, <4>1 DEF TaskType
    <3>2. QED BY <3>1, Zenon
  <2>5. QED BY <1>3, <1>10, <2>1, <2>2, <2>4, MadeType DEF SendStrategy
<1>11. QED
  BY <1>2, <1>5, <1>6, <1>7, <1>8, <1>9, <1>10 DEF MakeFrame

LEMMA TypeNext == TypeOK /\ Waits /\ [Next]_vars => TypeOK' /\ Waits'
<1> SUFFICES ASSUME TypeOK, Waits, [Next]_vars PROVE TypeOK' /\ Waits'
  OBVIOUS
<1> USE DEF queues, tasks, line, bounds, history
<1>1. QueueType /\ LoopType /\ LineType /\ HistoryType
  BY TypeParts
<1>a. ASSUME QueueType', LoopType', LineType', HistoryType' PROVE TypeOK'
  BY <1>a DEF TypeOK, QueueType, LoopType, LineType, HistoryType, Notice
<1>b. ASSUME UNCHANGED <<pc, frame, re_send_times, sent>> PROVE Waits'
  BY <1>b DEF Waits
<1>c. ASSUME UNCHANGED <<tasks, pc, frame, re_send_times>> PROVE LoopType'
  BY <1>1, <1>c DEF LoopType
<1>2. CASE Request
  <2>1. made + 1 \in TaskId /\ made' = made + 1
    BY <1>1, <1>2, Limits DEF Request, LineType, TaskId
  <2>2. toPlc' \in Seq(TaskType) /\ Len(toPlc') <= ToPlcLen /\ freed' \in [TaskId -> Nat]
    <3>1. CASE Len(toPlc) < ToPlcLen
      <4>1. PICK r \in Requests[made'] : toPlc' = Append(toPlc, NewTask(made', r))
        BY <1>2, <3>1 DEF Request
      <4>2. NewTask(made', r) \in TaskType
        BY <1>1, <2>1, NewTaskType DEF LineType
      <4> HIDE DEF NewTask
      <4>3. toPlc \in Seq(TaskType) /\ Len(toPlc) \in Nat
        BY <1>1 DEF QueueType
      <4>4. toPlc' \in Seq(TaskType) /\ Len(toPlc') = Len(toPlc) + 1
        BY <4>1, <4>2, <4>3
      <4>5. QED BY <1>1, <1>2, <3>1, <4>3, <4>4, Limits DEF Request, HistoryType
    <3>2. CASE ~(Len(toPlc) < ToPlcLen)
      <4>1. freed' = [freed EXCEPT ![made'] = freed[made'] + 1] /\ toPlc' = toPlc
        BY <1>2, <3>2 DEF Request
      <4>2. freed[made'] + 1 \in Nat
        BY <1>1, <2>1 DEF HistoryType
      <4>3. QED BY <1>1, <4>1, <4>2 DEF QueueType, HistoryType
    <3>3. QED BY <3>1, <3>2
  <2>3. made' \in 0 .. MaxRequest
    BY <2>1, Limits DEF TaskId
  <2>4. QueueType' /\ LineType' /\ HistoryType'
    BY <1>1, <1>2, <2>2, <2>3 DEF Request, QueueType, LineType, HistoryType
  <2>5. QED BY <1>2, <1>a, <1>b, <1>c, <2>4 DEF Request
<1>3. ASSUME NEW state \in {"stop", "suspend"}, FirmwareCommand(state) PROVE TypeOK' /\ Waits'
  <2>1. states \in Seq({"stop", "suspend"}) /\ Len(states) \in Nat /\ Len(states) <= StateLen
    BY <1>1 DEF QueueType
  <2>2. states' \in Seq({"stop", "suspend"}) /\ Len(states') <= StateLen
    BY <1>3, <2>1, Limits DEF FirmwareCommand
  <2>3. inputs' \in 0 .. MaxInput
    BY <1>1, <1>3, Limits DEF FirmwareCommand, LineType
  <2>4. QueueType' /\ LineType' /\ HistoryType'
    BY <1>1, <1>3, <2>2, <2>3 DEF FirmwareCommand, QueueType, LineType, HistoryType
  <2>5. QED BY <1>3, <1>a, <1>b, <1>c, <2>4 DEF FirmwareCommand
<1>4. CASE ChangeList
  <2>1. list' \subseteq Lamp /\ inputs' \in 0 .. MaxInput
    BY <1>1, <1>4, Limits DEF ChangeList, LineType
  <2>2. changed' \subseteq TaskId
    BY <1>1, <1>4, Limits DEF ChangeList, LineType, TaskId
  <2>3. QueueType' /\ LineType' /\ HistoryType'
    BY <1>1, <1>4, <2>1, <2>2 DEF ChangeList, QueueType, LineType, HistoryType
  <2>4. QED BY <1>4, <1>a, <1>b, <1>c, <2>3 DEF ChangeList
<1>5. CASE LampReport
  <2>1. PICK l \in list : air' = air \cup {[from |-> l, cmd_code |-> "report"]}
    BY <1>5 DEF LampReport
  <2>2. [from |-> l, cmd_code |-> "report"] \in AnswerType
    BY <1>1 DEF LineType, Lamp, AnswerType
  <2>3. air' \subseteq AnswerType
    BY <1>1, <2>1, <2>2 DEF LineType
  <2>4. inputs' \in 0 .. MaxInput
    BY <1>1, <1>5, Limits DEF LampReport, LineType
  <2>5. QueueType' /\ LineType' /\ HistoryType'
    BY <1>1, <1>5, <2>3, <2>4 DEF LampReport, QueueType, LineType, HistoryType
  <2>6. QED BY <1>5, <1>a, <1>b, <1>c, <2>5 DEF LampReport
<1>6. CASE TakeNotice
  <2>1. fromPlc \in Seq(Notice) /\ fromPlc # << >> /\ Len(fromPlc) \in Nat /\ Len(fromPlc) <= FromPlcLen
        /\ fromPlc' = Tail(fromPlc)
    BY <1>1, <1>6 DEF QueueType, TakeNotice
  <2>2. fromPlc' \in Seq(Notice) /\ Len(fromPlc') <= FromPlcLen
    BY <2>1, Limits
  <2>3. QueueType' /\ LineType' /\ HistoryType'
    BY <1>1, <1>6, <2>2 DEF TakeNotice, QueueType, LineType, HistoryType
  <2>4. QED BY <1>6, <1>a, <1>b, <1>c, <2>3 DEF TakeNotice
<1>7. CASE Deliver
  <2>1. rx' \in AnswerType /\ air' \subseteq AnswerType
    BY <1>1, <1>7 DEF Deliver, LineType
  <2>2. QueueType' /\ LineType' /\ HistoryType'
    BY <1>1, <1>7, <2>1 DEF Deliver, QueueType, LineType, HistoryType
  <2>3. QED BY <1>7, <1>a, <1>b, <1>c, <2>2 DEF Deliver
<1>8. CASE TakeTask
  <2>1. CASE task_progress = None /\ toPlc # << >>
    <3>1. toPlc \in Seq(TaskType) /\ Len(toPlc) \in Nat /\ Len(toPlc) <= ToPlcLen
      BY <1>1 DEF QueueType
    <3>2. Head(toPlc) \in TaskType /\ Tail(toPlc) \in Seq(TaskType) /\ Len(Tail(toPlc)) <= ToPlcLen
      BY <2>1, <3>1, Limits
    <3>3. /\ task_progress' = Head(toPlc) /\ toPlc' = Tail(toPlc) /\ Notify(Head(toPlc), "start")
          /\ pc' = "state"
      BY <1>8, <2>1 DEF TakeTask
    <3>4. fromPlc' \in Seq(Notice) /\ Len(fromPlc') <= FromPlcLen
      BY <1>1, <3>2, <3>3, NotifyType
    <3>5. QueueType' /\ LineType' /\ HistoryType'
      BY <1>1, <1>8, <3>2, <3>3, <3>4 DEF TakeTask, QueueType, LineType, HistoryType
    <3>6. LoopType'
      BY <1>1, <1>8, <3>2, <3>3 DEF TakeTask, LoopType
    <3>7. QED BY <1>a, <3>3, <3>5, <3>6 DEF Waits
  <2>2. CASE ~(task_progress = None /\ toPlc # << >>)
    <3>1. pc' = "state" /\ UNCHANGED Rest
      BY <1>8, <2>2 DEF TakeTask, Rest
    <3>2. QED BY <3>1, StepType
  <2>3. QED BY <2>1, <2>2
<1>9. CASE NoCommand
  BY <1>9, StepType DEF NoCommand, Rest
<1>10. CASE IgnoreCommand
  <2>1. states \in Seq({"stop", "suspend"}) /\ states # << >> /\ Len(states) \in Nat
        /\ Len(states) <= StateLen /\ states' = Tail(states)
    BY <1>1, <1>10 DEF QueueType, IgnoreCommand
  <2>2. states' \in Seq({"stop", "suspend"}) /\ Len(states') <= StateLen
    BY <2>1, Limits
  <2>3. QueueType' /\ LineType' /\ HistoryType'
    BY <1>1, <1>10, <2>2 DEF IgnoreCommand, QueueType, LineType, HistoryType
  <2>4. LoopType'
    BY <1>1, <1>10 DEF IgnoreCommand, LoopType
  <2>5. QED BY <1>10, <1>a, <2>3, <2>4 DEF IgnoreCommand, Waits
<1>11. CASE Stop \/ Suspend
  <2>1. /\ states # << >> /\ states' = Tail(states) /\ task_progress \in TaskType
        /\ pc' \in {"analyse", "halted"}
    BY <1>1, <1>11 DEF Stop, Suspend, Commanded, Updating, LoopType
  <2>2. states' \in Seq({"stop", "suspend"}) /\ Len(states') <= StateLen
    <3>1. states \in Seq({"stop", "suspend"}) /\ Len(states) \in Nat /\ Len(states) <= StateLen
      BY <1>1 DEF QueueType
    <3>2. QED BY <2>1, <3>1, Limits
  <2>3. CASE Stop
    <3>1. FINISHED
      BY <2>3 DEF Stop
    <3>2. /\ fromPlc' \in Seq(Notice) /\ Len(fromPlc') <= FromPlcLen
          /\ freed' \in [TaskId -> Nat] /\ task_progress' = None /\ frame' = None
      BY <1>1, <2>1, <3>1, FinishedType
    <3>3. QueueType' /\ LineType' /\ HistoryType'
      BY <1>1, <2>2, <2>3, <3>2 DEF Stop, QueueType, LineType, HistoryType
    <3>4. LoopType'
      BY <1>1, <2>1, <2>3, <3>2 DEF Stop, LoopType
    <3>5. QED BY <1>a, <2>1, <3>3, <3>4 DEF Waits
  <2>4. CASE Suspend
    <3>1. freed' \in [TaskId -> Nat]
      <4>1. CASE task_backup # None
        BY <1>1, <2>4, <4>1, DeleteType DEF Suspend, LoopType
      <4>2. CASE task_backup = None
        BY <1>1, <2>4, <4>2 DEF Suspend, HistoryType
      <4>3. QED BY <4>1, <4>2
    <3>2. /\ task_backup' = task_progress /\ task_progress' = None
          /\ UNCHANGED <<list, toPlc, fromPlc, add_index, frame, re_send_times, line, bounds, sent,
                         executed, untrue, expiries, changed>>
      BY <2>4 DEF Suspend
    <3>3. QueueType' /\ LineType' /\ HistoryType'
      BY <1>1, <2>2, <3>1, <3>2 DEF QueueType, LineType, HistoryType
    <3>4. LoopType'
      BY <1>1, <2>1, <3>2 DEF LoopType
    <3>5. QED BY <1>a, <2>1, <3>3, <3>4 DEF Waits
  <2>5. QED BY <1>11, <2>3, <2>4
<1>12. CASE MakeFrame
  BY <1>12, MakeFrameType
<1>13. CASE Transmit
  <2>1. frame \in FrameType /\ task_progress # None /\ pc = "send"
    BY <1>1, <1>13 DEF Transmit, LoopType
  <2>2. sent' = sent \cup {frame} /\ frame' = frame /\ re_send_times' = re_send_times
        /\ pc' \in {"wait", "sent"}
    BY <1>13 DEF Transmit
  <2>3. executed' \subseteq executed \cup {frame}
    BY <1>13 DEF Transmit, Arrive
  <2>4. Answer \in AnswerType
    BY <2>1 DEF Answer, AnswerType, FrameType
  <2>5. air' \subseteq AnswerType
    BY <1>1, <1>13, <2>4 DEF Transmit, Arrive, LineType
  <2>6. HistoryType'
    BY <1>1, <1>13, <2>1, <2>2, <2>3 DEF Transmit, HistoryType
  <2>7. QueueType' /\ LineType'
    BY <1>1, <1>13, <2>5 DEF Transmit, QueueType, LineType
  <2>8. LoopType'
    BY <1>1, <1>13, <2>1, <2>2 DEF Transmit, LoopType
  <2>9. Waits'
    BY <2>1, <2>2 DEF Waits
  <2>10. QED BY <1>a, <2>6, <2>7, <2>8, <2>9
<1>14. CASE BroadcastDone
  <2>1. task_progress \in TaskType
    BY <1>1, <1>14 DEF BroadcastDone, LoopType
  <2>2. /\ re_send_times' \in 0 .. retransmission_times + 1 /\ expiries' \in Nat
        /\ untrue' \subseteq sent /\ Settled(TRUE)
    BY <1>1, <1>14 DEF BroadcastDone, LoopType, HistoryType
  <2>3. QED BY <2>1, <2>2, SettledType
<1>15. CASE Answered
  <2>1. task_progress \in TaskType /\ frame \in sent
    BY <1>1, <1>15 DEF Answered, LoopType, Waits
  <2>2. /\ re_send_times' \in 0 .. retransmission_times + 1 /\ expiries' \in Nat
        /\ untrue' \subseteq sent /\ Settled(TRUE)
    BY <1>1, <1>15, <2>1 DEF Answered, LoopType, HistoryType
  <2>3. QED BY <2>1, <2>2, SettledType
<1>16. CASE Expire
  <2>1. /\ task_progress \in TaskType /\ re_send_times \in 0 .. retransmission_times
        /\ re_send_times' = re_send_times + 1 /\ expiries' = expiries + 1 /\ untrue' = untrue
    BY <1>1, <1>16, Limits DEF Expire, LoopType, Waits
  <2>2. /\ re_send_times' \in 0 .. retransmission_times + 1 /\ expiries' \in Nat
        /\ untrue' \subseteq sent
    BY <1>1, <2>1, Limits DEF HistoryType
  <2>3. CASE re_send_times' <= retransmission_times
    <3>1. pc' = "send" /\ UNCHANGED <<list, queues, tasks, frame, line, bounds, freed, sent, executed,
                                      changed>>
      BY <1>16, <2>3 DEF Expire
    <3>2. QueueType' /\ LineType'
      BY <1>1, <3>1 DEF QueueType, LineType
    <3>3. HistoryType'
      BY <1>1, <2>1, <2>2, <3>1 DEF HistoryType
    <3>4. LoopType'
      BY <1>1, <1>16, <2>2, <3>1 DEF Expire, LoopType
    <3>5. QED BY <1>a, <2>3, <3>1, <3>2, <3>3, <3>4 DEF Waits
  <2>4. CASE ~(re_send_times' <= retransmission_times)
    <3>1. Settled(FALSE)
      BY <1>16, <2>4 DEF Expire
    <3>2. QED BY <2>1, <2>2, <3>1, SettledType
  <2>5. QED BY <2>3, <2>4
<1>17. CASE Analyse
  <2>1. QueueType' /\ LineType' /\ HistoryType' /\ LoopType'
    BY <1>1, <1>17 DEF Analyse, QueueType, LineType, HistoryType, LoopType
  <2>2. QED BY <1>17, <1>a, <2>1 DEF Analyse, Waits
<1>18. CASE UNCHANGED vars
  <2>1. QueueType' /\ LineType' /\ HistoryType' /\ LoopType'
    BY <1>1, <1>18 DEF vars, QueueType, LineType, HistoryType, LoopType
  <2>2. QED BY <1>18, <1>a, <1>b, <2>1 DEF vars
<1>19. QED
  BY <1>2, <1>3, <1>4, <1>5, <1>6, <1>7, <1>8, <1>9, <1>10, <1>11, <1>12, <1>13, <1>14, <1>15, <1>16,
     <1>17, <1>18 DEF Next, Environment, vTaskPLC, HardFault_Handler

-----------------------------------------------------------------------------
(* Where a task is told by these alone.                                     *)
LEMMA PlacesKept ==
  ASSUME IInv, UNCHANGED <<toPlc, task_backup, freed, made>>,
         \A t \in TaskId : InProgress(t)' <=> InProgress(t)
  PROVE  IInv'
<1>1. QueueInOrder'
  BY DEF IInv, QueueInOrder
<1>2. \A t \in TaskId : (InQueue(t)' <=> InQueue(t)) /\ (InBackup(t)' <=> InBackup(t))
  BY DEF InQueue, InBackup
<1>3. ASSUME NEW t \in TaskId, t > made'
      PROVE  ~InQueue(t)' /\ ~InProgress(t)' /\ ~InBackup(t)' /\ freed'[t] = 0
  BY <1>2, <1>3 DEF IInv, OnePlace
<1>4. ASSUME NEW t \in TaskId, ~(t > made')
      PROVE  \/ InQueue(t)' /\ ~InProgress(t)' /\ ~InBackup(t)' /\ freed'[t] = 0
             \/ ~InQueue(t)' /\ InProgress(t)' /\ ~InBackup(t)' /\ freed'[t] = 0
             \/ ~InQueue(t)' /\ ~InProgress(t)' /\ InBackup(t)' /\ freed'[t] = 0
             \/ ~InQueue(t)' /\ ~InProgress(t)' /\ ~InBackup(t)' /\ freed'[t] = 1
  BY <1>2, <1>4 DEF IInv, OnePlace
<1>5. OnePlace'
  BY <1>3, <1>4, Zenon DEF OnePlace
<1>6. QED BY <1>1, <1>5 DEF IInv

(* The task in progress is freed.                                           *)
LEMMA ProgressFreed ==
  ASSUME TypeOK, IInv, task_progress \in TaskType, DeleteTask(task_progress), task_progress' = None,
         UNCHANGED <<toPlc, task_backup, made>>
  PROVE  IInv'
<1>1. QueueInOrder'
  BY DEF IInv, QueueInOrder
<1>2. task_progress.id \in TaskId /\ task_progress # None /\ made \in Nat
  BY Null, Limits DEF TaskType, TypeOK
<1>a. PICK id \in TaskId : id = task_progress.id
  BY <1>2
<1>3. freed' = [freed EXCEPT ![id] = freed[id] + 1] /\ freed \in [TaskId -> Nat]
  BY <1>a DEF DeleteTask, TypeOK
<1>4. \A t \in TaskId : (InQueue(t)' <=> InQueue(t)) /\ (InBackup(t)' <=> InBackup(t)) /\ ~InProgress(t)'
  BY DEF InQueue, InBackup, InProgress
<1>5. \A t \in TaskId : InProgress(t) <=> t = id
  BY <1>2, <1>a DEF InProgress
<1>6. ~(id > made) /\ ~InQueue(id) /\ ~InBackup(id) /\ freed[id] = 0
  BY <1>2, <1>5 DEF IInv, OnePlace
<1>7. freed'[id] = 1 /\ \A t \in TaskId \ {id} : freed'[t] = freed[t]
  BY <1>2, <1>3, <1>6
<1>8. ASSUME NEW t \in TaskId \ {id}, t > made'
      PROVE  ~InQueue(t)' /\ ~InProgress(t)' /\ ~InBackup(t)' /\ freed'[t] = 0
  BY <1>4, <1>7, <1>8 DEF IInv, OnePlace
<1>9. ASSUME NEW t \in TaskId \ {id}, ~(t > made')
      PROVE  \/ InQueue(t)' /\ ~InProgress(t)' /\ ~InBackup(t)' /\ freed'[t] = 0
             \/ ~InQueue(t)' /\ ~InProgress(t)' /\ InBackup(t)' /\ freed'[t] = 0
             \/ ~InQueue(t)' /\ ~InProgress(t)' /\ ~InBackup(t)' /\ freed'[t] = 1
  BY <1>4, <1>5, <1>7, <1>9 DEF IInv, OnePlace
<1>10. ~InQueue(id)' /\ ~InProgress(id)' /\ ~InBackup(id)' /\ freed'[id] = 1 /\ ~(id > made')
  BY <1>2, <1>4, <1>6, <1>7
<1>11. OnePlace'
  BY <1>8, <1>9, <1>10, Zenon DEF OnePlace
<1>12. QED BY <1>1, <1>11 DEF IInv

(* A task that is made joins the queue behind the others, or is freed.      *)
LEMMA RequestInv ==
  ASSUME TypeOK, IInv, Request
  PROVE  IInv'
<1>1. PICK id \in TaskId : id = made + 1 /\ made' = id
  BY Limits DEF TypeOK, Request, TaskId
<1>2. made \in Nat /\ id = made + 1
  BY <1>1, Limits DEF TypeOK
<1>3. UNCHANGED <<task_progress, task_backup>>
  BY DEF Request, tasks
<1>4. \A t \in TaskId : (InProgress(t)' <=> InProgress(t)) /\ (InBackup(t)' <=> InBackup(t))
  BY <1>3 DEF InProgress, InBackup
<1>5. ~InQueue(id) /\ ~InProgress(id) /\ ~InBackup(id) /\ freed[id] = 0
  BY <1>2 DEF IInv, OnePlace
<1>6. \A t \in TaskId : t \in Nat
  BY DEF TaskId
<1>7. toPlc \in Seq(TaskType) /\ Len(toPlc) \in Nat
  BY DEF TypeOK
<1>8. \A i \in DOMAIN toPlc : toPlc[i].id \in Nat
  <2>1. \A i \in DOMAIN toPlc : toPlc[i] \in TaskType
    BY <1>7
  <2>2. QED BY <1>6, <2>1 DEF TaskType
<1>9. CASE Len(toPlc) < ToPlcLen
  <2>1. PICK task \in TaskType : toPlc' = Append(toPlc, task) /\ task.id = id
    <3>1. PICK r \in Requests[made'] : toPlc' = Append(toPlc, NewTask(made', r))
      BY <1>9 DEF Request
    <3>2. NewTask(made', r) \in TaskType /\ NewTask(made', r).id = id
      BY <1>1, NewTaskType DEF TypeOK
    <3> HIDE DEF NewTask
    <3>3. QED BY <3>1, <3>2
  <2>2. /\ DOMAIN toPlc' = 1 .. Len(toPlc) + 1 /\ toPlc'[Len(toPlc) + 1] = task
        /\ \A i \in DOMAIN toPlc : i \in 1 .. Len(toPlc) /\ toPlc'[i] = toPlc[i]
    BY <1>7, <2>1
  <2>3. \A i \in DOMAIN toPlc' : i \in DOMAIN toPlc \/ i = Len(toPlc) + 1
    BY <1>7, <2>2
  <2>4. \A t \in TaskId : InQueue(t)' <=> InQueue(t) \/ t = id
    <3>1. ASSUME NEW t \in TaskId, InQueue(t)' PROVE InQueue(t) \/ t = id
      <4>1. PICK i \in DOMAIN toPlc' : toPlc'[i].id = t
        BY <3>1 DEF InQueue
      <4>2. CASE i \in DOMAIN toPlc
        BY <2>2, <4>1, <4>2 DEF InQueue
      <4>3. CASE i = Len(toPlc) + 1
        BY <2>1, <2>2, <4>1, <4>3
      <4>4. QED BY <2>3, <4>2, <4>3
    <3>2. ASSUME NEW t \in TaskId, InQueue(t) PROVE InQueue(t)'
      <4>1. PICK i \in DOMAIN toPlc : toPlc[i].id = t
        BY <3>2 DEF InQueue
      <4>2. i \in DOMAIN toPlc' /\ toPlc'[i].id = t
        BY <1>7, <2>2, <4>1
      <4>3. QED BY <4>2 DEF InQueue
    <3>3. InQueue(id)'
      <4>1. Len(toPlc) + 1 \in DOMAIN toPlc' /\ toPlc'[Len(toPlc) + 1].id = id
        BY <1>7, <2>1, <2>2
      <4>2. QED BY <4>1 DEF InQueue
    <3>4. QED BY <3>1, <3>2, <3>3
  <2>5. QueueInOrder'
    <3>1. ASSUME NEW i \in DOMAIN toPlc' PROVE toPlc'[i].id <= made'
      <4>1. CASE i \in DOMAIN toPlc
        <5>1. toPlc[i].id <= made /\ toPlc'[i] = toPlc[i]
          BY <2>2, <4>1 DEF IInv, QueueInOrder
        <5>2. QED BY <1>1, <1>2, <1>8, <4>1, <5>1
      <4>2. CASE i = Len(toPlc) + 1
        BY <1>1, <1>2, <2>1, <2>2, <4>2
      <4>3. QED BY <2>3, <4>1, <4>2
    <3>2. ASSUME NEW i \in DOMAIN toPlc', NEW j \in DOMAIN toPlc', i < j
          PROVE  toPlc'[i].id < toPlc'[j].id
      <4>1. i \in DOMAIN toPlc /\ toPlc'[i] = toPlc[i]
        BY <1>7, <2>2, <2>3, <3>2
      <4>2. toPlc[i].id <= made /\ toPlc[i].id \in Nat
        BY <1>8, <4>1 DEF IInv, QueueInOrder
      <4>3. CASE j \in DOMAIN toPlc
        <5>1. toPlc[i].id < toPlc[j].id
          BY <3>2, <4>1, <4>3 DEF IInv, QueueInOrder
        <5>2. QED BY <2>2, <4>1, <4>3, <5>1
      <4>4. CASE j = Len(toPlc) + 1
        <5>1. toPlc'[j].id = id
          BY <2>1, <2>2, <4>4
        <5>2. QED BY <1>2, <4>1, <4>2, <5>1
      <4>5. QED BY <2>3, <4>3, <4>4
    <3>3. QED BY <3>1, <3>2 DEF QueueInOrder
  <2>6. freed' = freed
    BY <1>9 DEF Request
  <2>7. ASSUME NEW t \in TaskId \ {id}, t > made'
        PROVE  ~InQueue(t)' /\ ~InProgress(t)' /\ ~InBackup(t)' /\ freed'[t] = 0
    <3>1. t > made
      BY <1>1, <1>2, <1>6, <2>7
    <3>2. QED BY <1>4, <2>4, <2>6, <3>1 DEF IInv, OnePlace
  <2>8. ASSUME NEW t \in TaskId \ {id}, ~(t > made')
        PROVE  \/ InQueue(t)' /\ ~InProgress(t)' /\ ~InBackup(t)' /\ freed'[t] = 0
               \/ ~InQueue(t)' /\ InProgress(t)' /\ ~InBackup(t)' /\ freed'[t] = 0
               \/ ~InQueue(t)' /\ ~InProgress(t)' /\ InBackup(t)' /\ freed'[t] = 0
               \/ ~InQueue(t)' /\ ~InProgress(t)' /\ ~InBackup(t)' /\ freed'[t] = 1
    <3>1. ~(t > made)
      BY <1>1, <1>2, <1>6, <2>8
    <3>2. QED BY <1>4, <2>4, <2>6, <3>1 DEF IInv, OnePlace
  <2>9. InQueue(id)' /\ ~InProgress(id)' /\ ~InBackup(id)' /\ freed'[id] = 0 /\ ~(id > made')
    BY <1>1, <1>2, <1>4, <1>5, <2>4, <2>6
  <2>10. OnePlace'
    BY <2>7, <2>8, <2>9, Zenon DEF OnePlace
  <2>11. QED BY <2>5, <2>10 DEF IInv
<1>10. CASE ~(Len(toPlc) < ToPlcLen)
  <2>1. freed' = [freed EXCEPT ![id] = freed[id] + 1] /\ toPlc' = toPlc
    BY <1>1, <1>10 DEF Request
  <2>2. freed'[id] = 1 /\ \A t \in TaskId \ {id} : freed'[t] = freed[t]
    BY <1>5, <2>1 DEF TypeOK
  <2>3. \A t \in TaskId : InQueue(t)' <=> InQueue(t)
    BY <2>1 DEF InQueue
  <2>4. QueueInOrder'
    <3>1. \A i \in DOMAIN toPlc : toPlc[i].id <= made'
      <4>1. ASSUME NEW i \in DOMAIN toPlc PROVE toPlc[i].id <= made'
        <5>1. toPlc[i].id <= made /\ toPlc[i].id \in Nat
          BY <1>8 DEF IInv, QueueInOrder
        <5>2. QED BY <1>1, <1>2, <5>1
      <4>2. QED BY <4>1
    <3>2. QED BY <2>1, <3>1 DEF IInv, QueueInOrder
  <2>5. ASSUME NEW t \in TaskId \ {id}, t > made'
        PROVE  ~InQueue(t)' /\ ~InProgress(t)' /\ ~InBackup(t)' /\ freed'[t] = 0
    <3>1. t > made
      BY <1>1, <1>2, <1>6, <2>5
    <3>2. QED BY <1>4, <2>2, <2>3, <3>1 DEF IInv, OnePlace
  <2>6. ASSUME NEW t \in TaskId \ {id}, ~(t > made')
        PROVE  \/ InQueue(t)' /\ ~InProgress(t)' /\ ~InBackup(t)' /\ freed'[t] = 0
               \/ ~InQueue(t)' /\ InProgress(t)' /\ ~InBackup(t)' /\ freed'[t] = 0
               \/ ~InQueue(t)' /\ ~InProgress(t)' /\ InBackup(t)' /\ freed'[t] = 0
               \/ ~InQueue(t)' /\ ~InProgress(t)' /\ ~InBackup(t)' /\ freed'[t] = 1
    <3>1. ~(t > made)
      BY <1>1, <1>2, <1>6, <2>6
    <3>2. QED BY <1>4, <2>2, <2>3, <3>1 DEF IInv, OnePlace
  <2>7. ~InQueue(id)' /\ ~InProgress(id)' /\ ~InBackup(id)' /\ freed'[id] = 1 /\ ~(id > made')
    BY <1>1, <1>2, <1>4, <1>5, <2>2, <2>3
  <2>8. OnePlace'
    BY <2>5, <2>6, <2>7, Zenon DEF OnePlace
  <2>9. QED BY <2>4, <2>8 DEF IInv
<1>11. QED BY <1>9, <1>10

(* The first task of the queue becomes the one in progress.                 *)
LEMMA TakenInv ==
  ASSUME TypeOK, IInv, task_progress = None, toPlc # << >>,
         task_progress' = Head(toPlc), toPlc' = Tail(toPlc), UNCHANGED <<task_backup, freed, made>>
  PROVE  IInv'
<1>1. toPlc \in Seq(TaskType) /\ Len(toPlc) \in Nat \ {0} /\ DOMAIN toPlc = 1 .. Len(toPlc)
  BY DEF TypeOK
<1>2. Head(toPlc) = toPlc[1] /\ 1 \in DOMAIN toPlc /\ toPlc[1] \in TaskType
  BY <1>1
<1>3. PICK id \in TaskId : id = toPlc[1].id
  BY <1>2 DEF TaskType
<1>4. /\ DOMAIN toPlc' = 1 .. Len(toPlc) - 1
      /\ \A i \in DOMAIN toPlc' : i + 1 \in DOMAIN toPlc /\ toPlc'[i] = toPlc[i + 1]
  BY <1>1
<1>5. \A i, j \in DOMAIN toPlc : i < j => toPlc[i].id < toPlc[j].id
  BY DEF IInv, QueueInOrder
<1>6. \A t \in TaskId : (InProgress(t)' <=> t = id) /\ ~InProgress(t) /\ (InBackup(t)' <=> InBackup(t))
  BY <1>2, <1>3, Null DEF InProgress, InBackup
<1>7. \A t \in TaskId : InQueue(t)' <=> InQueue(t) /\ t # id
  <2>1. ASSUME NEW t \in TaskId, InQueue(t)' PROVE InQueue(t) /\ t # id
    <3>1. PICK i \in DOMAIN toPlc' : toPlc'[i].id = t
      BY <2>1 DEF InQueue
    <3>2. i + 1 \in DOMAIN toPlc /\ toPlc[i + 1].id = t /\ 1 < i + 1
      BY <1>4, <3>1
    <3>3. toPlc[1].id < toPlc[i + 1].id
      BY <1>2, <1>5, <3>2
    <3>4. t \in Nat /\ id \in Nat
      BY DEF TaskId
    <3>5. QED BY <1>3, <3>2, <3>3, <3>4 DEF InQueue
  <2>2. ASSUME NEW t \in TaskId, InQueue(t), t # id PROVE InQueue(t)'
    <3>1. PICK i \in DOMAIN toPlc : toPlc[i].id = t
      BY <2>2 DEF InQueue
    <3>2. i # 1
      BY <1>3, <2>2, <3>1
    <3>3. i - 1 \in DOMAIN toPlc' /\ (i - 1) + 1 = i
      BY <1>1, <1>4, <3>1, <3>2
    <3>4. toPlc'[i - 1].id = t
      BY <1>4, <3>1, <3>3
    <3>5. QED BY <3>3, <3>4 DEF InQueue
  <2>3. QED BY <2>1, <2>2
<1>8. QueueInOrder'
  <2>1. ASSUME NEW i \in DOMAIN toPlc' PROVE toPlc'[i].id <= made'
    BY <1>4 DEF IInv, QueueInOrder
  <2>2. ASSUME NEW i \in DOMAIN toPlc', NEW j \in DOMAIN toPlc', i < j
        PROVE  toPlc'[i].id < toPlc'[j].id
    <3>1. i + 1 \in DOMAIN toPlc /\ j + 1 \in DOMAIN toPlc /\ i + 1 < j + 1
      BY <1>4, <2>2
    <3>2. toPlc[i + 1].id < toPlc[j + 1].id
      BY <1>5, <3>1
    <3>3. QED BY <1>4, <3>2
  <2>3. QED BY <2>1, <2>2 DEF QueueInOrder
<1>9. ASSUME NEW t \in TaskId, t > made'
      PROVE  ~InQueue(t)' /\ ~InProgress(t)' /\ ~InBackup(t)' /\ freed'[t] = 0
  <2>1. ~InQueue(t) /\ ~InBackup(t) /\ freed[t] = 0
    BY <1>9 DEF IInv, OnePlace
  <2>2. t # id
    BY <1>2, <1>3, <2>1 DEF InQueue
  <2>3. QED BY <1>6, <1>7, <2>1, <2>2
<1>10. ASSUME NEW t \in TaskId, ~(t > made')
       PROVE  \/ InQueue(t)' /\ ~InProgress(t)' /\ ~InBackup(t)' /\ freed'[t] = 0
              \/ ~InQueue(t)' /\ InProgress(t)' /\ ~InBackup(t)' /\ freed'[t] = 0
              \/ ~InQueue(t)' /\ ~InProgress(t)' /\ InBackup(t)' /\ freed'[t] = 0
              \/ ~InQueue(t)' /\ ~InProgress(t)' /\ ~InBackup(t)' /\ freed'[t] = 1
  <2>1. \/ InQueue(t) /\ ~InBackup(t) /\ freed[t] = 0
        \/ ~InQueue(t) /\ InBackup(t) /\ freed[t] = 0
        \/ ~InQueue(t) /\ ~InBackup(t) /\ freed[t] = 1
    BY <1>6, <1>10 DEF IInv, OnePlace
  <2>2. t = id => InQueue(t)
    BY <1>2, <1>3 DEF InQueue
  <2>3. QED BY <1>6, <1>7, <2>1, <2>2
<1>11. OnePlace'
  BY <1>9, <1>10, Zenon DEF OnePlace
<1>12. QED BY <1>8, <1>11 DEF IInv

(* A suspended task replaces, and so frees, the one suspended before it.    *)
LEMMA SuspendInv ==
  ASSUME TypeOK, IInv, Suspend
  PROVE  IInv'
<1>1. /\ task_progress \in TaskType /\ task_backup' = task_progress /\ task_progress' = None
      /\ UNCHANGED <<toPlc, made>>
  BY DEF Suspend, Commanded, Updating, TypeOK, bounds
<1>2. task_progress # None
  BY <1>1, Null
<1>3. PICK id \in TaskId : id = task_progress.id
  BY <1>1 DEF TaskType
<1>4. \A t \in TaskId : (InQueue(t)' <=> InQueue(t)) /\ ~InProgress(t)'
                         /\ (InBackup(t)' <=> t = id) /\ (InProgress(t) <=> t = id)
  BY <1>1, <1>2, <1>3 DEF InQueue, InProgress, InBackup
<1>5. QueueInOrder'
  BY <1>1 DEF IInv, QueueInOrder
<1>6. ~(id > made) /\ ~InQueue(id) /\ ~InBackup(id) /\ freed[id] = 0
  BY <1>4 DEF IInv, OnePlace
<1>7. \A t \in TaskId : freed'[t] = IF InBackup(t) THEN 1 ELSE freed[t]
  <2>1. CASE task_backup = None
    BY <2>1 DEF Suspend, InBackup
  <2>2. CASE task_backup # None
    <3>1. PICK old \in TaskId : old = task_backup.id
      BY <2>2 DEF TypeOK, TaskType
    <3>2. freed' = [freed EXCEPT ![old] = freed[old] + 1] /\ freed \in [TaskId -> Nat]
      BY <2>2, <3>1 DEF Suspend, DeleteTask, TypeOK
    <3>3. \A t \in TaskId : InBackup(t) <=> t = old
      BY <2>2, <3>1 DEF InBackup
    <3>4. freed[old] = 0
      BY <3>3 DEF IInv, OnePlace
    <3>5. QED BY <3>2, <3>3, <3>4
  <2>3. QED BY <2>1, <2>2
<1>8. ASSUME NEW t \in TaskId \ {id}, t > made'
      PROVE  ~InQueue(t)' /\ ~InProgress(t)' /\ ~InBackup(t)' /\ freed'[t] = 0
  <2>1. ~InQueue(t) /\ ~InBackup(t) /\ freed[t] = 0
    BY <1>1, <1>8 DEF IInv, OnePlace
  <2>2. QED BY <1>4, <1>7, <2>1
<1>9. ASSUME NEW t \in TaskId \ {id}, ~(t > made')
      PROVE  \/ InQueue(t)' /\ ~InProgress(t)' /\ ~InBackup(t)' /\ freed'[t] = 0
             \/ ~InQueue(t)' /\ ~InProgress(t)' /\ ~InBackup(t)' /\ freed'[t] = 1
  <2>1. \/ InQueue(t) /\ ~InBackup(t) /\ freed[t] = 0
        \/ ~InQueue(t) /\ InBackup(t) /\ freed[t] = 0
        \/ ~InQueue(t) /\ ~InBackup(t) /\ freed[t] = 1
    BY <1>1, <1>4, <1>9 DEF IInv, OnePlace
  <2>2. QED BY <1>4, <1>7, <2>1
<1>10. ~InQueue(id)' /\ ~InProgress(id)' /\ InBackup(id)' /\ freed'[id] = 0 /\ ~(id > made')
  BY <1>1, <1>4, <1>6, <1>7
<1>11. OnePlace'
  BY <1>8, <1>9, <1>10, Zenon DEF OnePlace
<1>12. QED BY <1>5, <1>11 DEF IInv

(* The counters of the task in progress change, the task does not.          *)
LEMMA SameTaskInv ==
  ASSUME TypeOK, IInv, task_progress \in TaskType, task_progress' \in TaskType,
         task_progress'.id = task_progress.id, UNCHANGED <<toPlc, task_backup, freed, made>>
  PROVE  IInv'
<1>1. \A t \in TaskId : InProgress(t)' <=> InProgress(t)
  BY Null DEF InProgress
<1>2. QED BY <1>1, PlacesKept

LEMMA SettledInv ==
  ASSUME TypeOK, IInv, task_progress \in TaskType, NEW success \in BOOLEAN, Settled(success)
  PROVE  IInv'
<1>1. task_progress' = Tallied(success) /\ UNCHANGED <<toPlc, task_backup, freed, made>>
  BY DEF Settled, Tallied, bounds
<1>2. QED BY <1>1, TalliedType, SameTaskInv

LEMMA InvInit == Init => IInv
<1> SUFFICES ASSUME Init PROVE IInv
  OBVIOUS
<1>1. toPlc = << >> /\ task_progress = None /\ task_backup = None /\ made = 0
      /\ \A t \in TaskId : freed[t] = 0
  BY DEF Init
<1>2. \A t \in TaskId : ~InQueue(t) /\ ~InProgress(t) /\ ~InBackup(t) /\ freed[t] = 0 /\ t > made
  BY <1>1 DEF InQueue, InProgress, InBackup, TaskId
<1>3. QED BY <1>1, <1>2 DEF IInv, QueueInOrder, OnePlace

LEMMA MakeFrameInv ==
  ASSUME TypeOK, Waits, IInv, MakeFrame
  PROVE  IInv'
<1> USE DEF queues, tasks, bounds, history
<1>1. CASE Idle
  BY <1>1, PlacesKept DEF Idle, InProgress
<1> SUFFICES ASSUME AtFrame PROVE IInv'
  BY <1>1 DEF MakeFrame, Broadcast, BroadcastEnd, BroadcastFirst, ToNextLamp, ListEnd, ToNamedLamp,
              NamedEnd, SendStrategy, StrategyEnd
<1>2. task_progress \in TaskType
  BY DEF AtFrame, TypeOK
<1>3. CASE BroadcastEnd \/ ListEnd \/ NamedEnd \/ StrategyEnd
  <2>1. Finish
    BY <1>3 DEF BroadcastEnd, ListEnd, NamedEnd, StrategyEnd
  <2>2. DeleteTask(task_progress) /\ task_progress' = None /\ UNCHANGED <<toPlc, task_backup, made>>
    BY <2>1 DEF Finish, FINISHED
  <2>3. QED BY <1>2, <2>2, ProgressFreed
<1>4. CASE Broadcast \/ BroadcastFirst \/ ToNextLamp \/ ToNamedLamp \/ SendStrategy
  <2>1. UNCHANGED <<toPlc, task_backup, freed, made>>
    BY <1>4 DEF Broadcast, BroadcastFirst, ToNextLamp, ToNamedLamp, SendStrategy, Made
  <2>2. task_progress' \in TaskType /\ task_progress'.id = task_progress.id
    <3>1. TypeOK'
      BY MakeFrameType
    <3>2. pc' = "send"
      BY <1>4 DEF Broadcast, BroadcastFirst, ToNextLamp, ToNamedLamp, SendStrategy, Made
    <3>3. task_progress' \in TaskType
      BY <3>1, <3>2 DEF TypeOK
    <3>4. DOMAIN task_progress = {"id", "cmd_code", "broadcast_type", "execute_type", "dev_id",
                                  "dev_num", "execute_total_num", "executed_num", "executed_index",
                                  "broadcast_state", "success_num", "failed_num"}
      BY <1>2 DEF TaskType
    <3>5. CASE Broadcast
      BY <3>3, <3>4, <3>5 DEF Broadcast, Made
    <3>6. CASE BroadcastFirst
      BY <3>3, <3>4, <3>6 DEF BroadcastFirst, Made
    <3>7. CASE ToNextLamp
      BY <3>3, <3>4, <3>7 DEF ToNextLamp, Made
    <3>8. CASE ToNamedLamp
      BY <3>3, <3>4, <3>8 DEF ToNamedLamp, Made
    <3>9. CASE SendStrategy
      BY <3>3, <3>4, <3>9 DEF SendStrategy, Made
    <3>10. QED BY <1>4, <3>3, <3>5, <3>6, <3>7, <3>8, <3>9
  <2>3. QED BY <1>2, <2>1, <2>2, SameTaskInv
<1>5. QED BY <1>1, <1>3, <1>4 DEF MakeFrame

(* No step takes a task out of its place without putting it in the next.    *)
LEMMA InvNext == TypeOK /\ Waits /\ IInv /\ [Next]_vars => IInv'
<1> SUFFICES ASSUME TypeOK, Waits, IInv, [Next]_vars PROVE IInv'
  OBVIOUS
<1> USE DEF queues, tasks, line, bounds, history
<1>1. CASE Request
  BY <1>1, RequestInv
<1>2. CASE /\ UNCHANGED <<toPlc, task_progress, task_backup, freed, made>>
  BY <1>2, PlacesKept DEF InProgress
<1>3. ASSUME NEW state, FirmwareCommand(state) PROVE IInv'
  BY <1>2, <1>3 DEF FirmwareCommand
<1>4. CASE ChangeList \/ LampReport \/ TakeNotice \/ Deliver
  BY <1>2, <1>4 DEF ChangeList, LampReport, TakeNotice, Deliver
<1>5. CASE TakeTask
  <2>1. CASE task_progress = None /\ toPlc # << >>
    BY <1>5, <2>1, TakenInv DEF TakeTask
  <2>2. CASE ~(task_progress = None /\ toPlc # << >>)
    BY <1>2, <1>5, <2>2 DEF TakeTask
  <2>3. QED BY <2>1, <2>2
<1>6. CASE NoCommand \/ IgnoreCommand \/ Transmit \/ Analyse
  BY <1>2, <1>6 DEF NoCommand, IgnoreCommand, Transmit, Analyse
<1>7. CASE Stop
  <2>1. task_progress \in TaskType
    BY <1>7 DEF Stop, Commanded, Updating, TypeOK
  <2>2. DeleteTask(task_progress) /\ task_progress' = None /\ UNCHANGED <<toPlc, task_backup, made>>
    BY <1>7 DEF Stop, FINISHED
  <2>3. QED BY <2>1, <2>2, ProgressFreed
<1>8. CASE Suspend
  BY <1>8, SuspendInv
<1>9. CASE MakeFrame
  BY <1>9, MakeFrameInv
<1>10. CASE BroadcastDone \/ Answered
  <2>1. Settled(TRUE) /\ task_progress \in TaskType
    BY <1>10 DEF BroadcastDone, Answered, TypeOK
  <2>2. QED BY <2>1, SettledInv
<1>11. CASE Expire
  <2>1. CASE re_send_times' <= retransmission_times
    BY <1>2, <1>11, <2>1 DEF Expire
  <2>2. CASE ~(re_send_times' <= retransmission_times)
    <3>1. Settled(FALSE) /\ task_progress \in TaskType
      BY <1>11, <2>2 DEF Expire, TypeOK
    <3>2. QED BY <3>1, SettledInv
  <2>3. QED BY <2>1, <2>2
<1>12. CASE UNCHANGED vars
  BY <1>2, <1>12 DEF vars
<1>13. QED
  BY <1>1, <1>3, <1>4, <1>5, <1>6, <1>7, <1>8, <1>9, <1>10, <1>11, <1>12
  DEF Next, Environment, vTaskPLC, HardFault_Handler

-----------------------------------------------------------------------------
(* A task is at most once in the queue, as its tasks are in order.          *)
LEMMA QueuedOnce ==
  ASSUME TypeOK, QueueInOrder, NEW t \in TaskId
  PROVE  Cardinality({i \in DOMAIN toPlc : toPlc[i].id = t}) = IF InQueue(t) THEN 1 ELSE 0
<1> DEFINE Q == {i \in DOMAIN toPlc : toPlc[i].id = t}
<1>1. CASE InQueue(t)
  <2>1. PICK i \in DOMAIN toPlc : toPlc[i].id = t
    BY <1>1 DEF InQueue
  <2>2. ASSUME NEW j \in Q PROVE j = i
    <3>1. toPlc \in Seq(TaskType)
      BY DEF TypeOK
    <3>2. i \in Nat /\ j \in Nat /\ t \in Nat
      BY <2>1, <3>1 DEF TaskId
    <3>3. ~(i < j) /\ ~(j < i)
      BY <2>1, <3>2 DEF QueueInOrder
    <3>4. QED BY <3>2, <3>3
  <2>3. Q = {i}
    BY <2>1, <2>2
  <2>4. QED BY <1>1, <2>3, FS_Singleton
<1>2. CASE ~InQueue(t)
  <2>1. Q = {}
    BY <1>2 DEF InQueue
  <2>2. QED BY <1>2, <2>1, FS_EmptySet
<1>3. QED BY <1>1, <1>2

(* The types hold in every state of every instance.                         *)
THEOREM TypeCorrect == Spec => []TypeOK
<1>1. TypeOK /\ Waits /\ [Next]_vars => (TypeOK /\ Waits)'
  BY TypeNext
<1>2. QED BY <1>1, TypeInit, PTL DEF Spec

(* A task is always in the queue, in progress, suspended or freed, and in   *)
(* one of these only: whatever lamps, messages and queues, and whenever the *)
(* server stops or suspends an update, none is leaked or freed twice.       *)
THEOREM OneTaskAlwaysOwned == Spec => []OneTaskOwner
<1>1. TypeOK /\ Waits /\ IInv /\ [Next]_vars => (TypeOK /\ Waits /\ IInv)'
  BY TypeNext, InvNext
<1>2. TypeOK /\ IInv => OneTaskOwner
  <2> SUFFICES ASSUME TypeOK, IInv, NEW t \in 1 .. made PROVE Held(t) + freed[t] = 1
    BY DEF OneTaskOwner
  <2>1. t \in TaskId /\ ~(t > made)
    BY Limits DEF TypeOK, TaskId
  <2>2. Held(t) = (IF InQueue(t) THEN 1 ELSE 0) + (IF InProgress(t) THEN 1 ELSE 0)
                  + (IF InBackup(t) THEN 1 ELSE 0)
    BY <2>1, QueuedOnce DEF IInv, Held, InProgress, InBackup
  <2>3. \/ InQueue(t) /\ ~InProgress(t) /\ ~InBackup(t) /\ freed[t] = 0
        \/ ~InQueue(t) /\ InProgress(t) /\ ~InBackup(t) /\ freed[t] = 0
        \/ ~InQueue(t) /\ ~InProgress(t) /\ InBackup(t) /\ freed[t] = 0
        \/ ~InQueue(t) /\ ~InProgress(t) /\ ~InBackup(t) /\ freed[t] = 1
    BY <2>1, Zenon DEF IInv, OnePlace
  <2>4. QED BY <2>2, <2>3
<1>3. QED BY <1>1, <1>2, TypeInit, InvInit, PTL DEF Spec

-----------------------------------------------------------------------------
(* What the loop does with its frame.                                       *)
Busy == pc \in {"send", "sent", "wait"}

(* There is a frame exactly while it is transmitted and waited for; it      *)
(* belongs to the task in progress, and only one lamp answers it.           *)
FrameInv ==
  /\ frame # None <=> Busy
  /\ Busy => frame.task = task_progress.id /\ (frame.type = 2 <=> frame.to # All)
  /\ pc \in {"wait", "sent"} => frame \in sent

(* The steps that are not of the loop leave its frame and its task alone.   *)
Aside == UNCHANGED <<pc, frame, task_progress, sent, executed, untrue, expiries>>

(* The steps of the loop before a frame is made and after it is settled.    *)
Between ==
  /\ ~Busy /\ ~Busy' /\ frame' \in {frame, None}
  /\ UNCHANGED <<air, sent, executed, untrue, expiries>>
  /\ rx' = None \/ (rx' = rx /\ pc # "analyse")

(* The fields of a task that no frame changes.                              *)
SameTask ==
  /\ task_progress' \in TaskType
  /\ task_progress'.id = task_progress.id
  /\ task_progress'.cmd_code = task_progress.cmd_code
  /\ task_progress'.broadcast_type = task_progress.broadcast_type
  /\ task_progress'.execute_type = task_progress.execute_type
  /\ task_progress'.execute_total_num = task_progress.execute_total_num
  /\ task_progress'.dev_id = task_progress.dev_id

Making == MakeFrame /\ AtFrame /\ SameTask /\ \E to \in Int : Made(to, task_progress')

(* The fields of a task have their types.                                   *)
LEMMA Fields ==
  ASSUME NEW p \in TaskType
  PROVE  /\ p.id \in TaskId /\ p.executed_num \in Nat /\ p.executed_index \in Nat
         /\ p.execute_total_num \in Nat /\ p.success_num \in Nat /\ p.failed_num \in Nat
         /\ p.broadcast_state \in BOOLEAN /\ p.dev_id \in Seq(Int) /\ p # None
BY Null, Zenon DEF TaskType

(* Making a frame: one is made of the task, or the task is finished, or     *)
(* there is none.                                                           *)
LEMMA MakeCases ==
  ASSUME TypeOK, Waits, MakeFrame
  PROVE  Idle \/ (AtFrame /\ Finish) \/ Making
<1>1. CASE Idle
  BY <1>1
<1> SUFFICES ASSUME AtFrame PROVE Finish \/ Making
  BY <1>1 DEF MakeFrame, Broadcast, BroadcastEnd, BroadcastFirst, ToNextLamp, ListEnd, ToNamedLamp,
              NamedEnd, SendStrategy, StrategyEnd
<1>2. CASE BroadcastEnd \/ ListEnd \/ NamedEnd \/ StrategyEnd
  BY <1>2 DEF BroadcastEnd, ListEnd, NamedEnd, StrategyEnd
<1>3. CASE Broadcast \/ BroadcastFirst \/ ToNextLamp \/ ToNamedLamp \/ SendStrategy
  <2>1. pc' = "send"
    BY <1>3 DEF Broadcast, BroadcastFirst, ToNextLamp, ToNamedLamp, SendStrategy, Made
  <2>2. task_progress \in TaskType /\ task_progress' \in TaskType /\ frame' \in FrameType
    <3>1. TypeOK'
      BY MakeFrameType
    <3>2. QED BY <2>1, <3>1 DEF AtFrame, TypeOK
  <2>3. DOMAIN task_progress = {"id", "cmd_code", "broadcast_type", "execute_type", "dev_id",
                                "dev_num", "execute_total_num", "executed_num", "executed_index",
                                "broadcast_state", "success_num", "failed_num"}
    BY <2>2 DEF TaskType
  <2>4. PICK to : Made(to, task_progress')
    BY <1>3 DEF Broadcast, BroadcastFirst, ToNextLamp, ToNamedLamp, SendStrategy, Made
  <2>5. to \in Int
    BY <2>2, <2>4 DEF Made, Frame, FrameType
  <2>6. SameTask
    <3>1. CASE Broadcast
      BY <2>2, <2>3, <3>1 DEF Broadcast, Made, SameTask
    <3>2. CASE BroadcastFirst
      BY <2>2, <2>3, <3>2 DEF BroadcastFirst, Made, SameTask
    <3>3. CASE ToNextLamp
      BY <2>2, <2>3, <3>3 DEF ToNextLamp, Made, SameTask
    <3>4. CASE ToNamedLamp
      BY <2>2, <2>3, <3>4 DEF ToNamedLamp, Made, SameTask
    <3>5. CASE SendStrategy
      BY <2>2, <2>3, <3>5 DEF SendStrategy, Made, SameTask
    <3>6. QED BY <1>3, <3>1, <3>2, <3>3, <3>4, <3>5
  <2>7. QED BY <2>4, <2>5, <2>6 DEF Making
<1>4. QED BY <1>2, <1>3 DEF MakeFrame, Idle, AtFrame

(* All steps, by what they do with the frame.                               *)
LEMMA Kinds ==
  ASSUME TypeOK, Waits, FrameInv, [Next]_vars
  PROVE  \/ Aside /\ (UNCHANGED line \/ Deliver \/ LampReport)
         \/ Between \/ Making \/ Transmit \/ BroadcastDone \/ Answered \/ Expire
<1> USE DEF queues, tasks, line, bounds, history
<1>1. CASE Request \/ ChangeList \/ LampReport \/ TakeNotice \/ Deliver \/ UNCHANGED vars
  BY <1>1 DEF Request, ChangeList, LampReport, TakeNotice, Deliver, Aside, vars
<1>2. ASSUME NEW state, FirmwareCommand(state) PROVE Aside /\ UNCHANGED line
  BY <1>2 DEF FirmwareCommand, Aside
<1>3. CASE TakeTask \/ NoCommand \/ IgnoreCommand
  BY <1>3 DEF TakeTask, NoCommand, IgnoreCommand, Between, Busy
<1>4. CASE Stop \/ Suspend
  BY <1>4 DEF Stop, Suspend, Commanded, FINISHED, Between, Busy
<1>5. CASE Analyse
  BY <1>5 DEF Analyse, Between, Busy
<1>6. CASE MakeFrame
  <2>1. CASE Idle
    BY <2>1 DEF Idle, Between, Busy
  <2>2. CASE AtFrame /\ Finish
    BY <2>2 DEF AtFrame, Finish, FINISHED, Between, Busy
  <2>3. QED BY <1>6, <2>1, <2>2, MakeCases
<1>7. QED
  BY <1>1, <1>2, <1>3, <1>4, <1>5, <1>6 DEF Next, Environment, vTaskPLC, HardFault_Handler

(* After an answer, a broadcast or the last expiry the frame is gone.       *)
LEMMA SettledFacts ==
  ASSUME NEW success, Settled(success)
  PROVE  /\ frame' = None /\ pc' = "analyse" /\ UNCHANGED <<air, rx, sent, executed>>
BY DEF Settled, line

LEMMA FrameStep == TypeOK /\ Waits /\ FrameInv /\ [Next]_vars => FrameInv'
<1> SUFFICES ASSUME TypeOK, Waits, FrameInv, [Next]_vars PROVE FrameInv'
  OBVIOUS
<1>1. CASE Aside
  BY <1>1 DEF Aside, FrameInv, Busy
<1>2. CASE Between
  BY <1>2 DEF Between, FrameInv, Busy
<1>3. CASE Making
  <2>1. PICK to \in Int : Made(to, task_progress')
    BY <1>3 DEF Making
  <2>2. /\ frame'.task = task_progress'.id /\ (frame'.type = 2 <=> frame'.to # All)
        /\ pc' = "send"
    BY <1>3, <2>1 DEF Making, SameTask, Made, Frame
  <2>3. frame' # None
    <3>1. task_progress.id \in TaskId /\ task_progress.executed_num \in Nat
          /\ task_progress.cmd_code \in Cmd
      BY <1>3 DEF Making, AtFrame, TypeOK, TaskType
    <3>2. frame' \in FrameType
      BY <2>1, <3>1 DEF Made, Frame, FrameType
    <3>3. QED BY <3>2, Null
  <2>4. QED BY <2>2, <2>3 DEF FrameInv, Busy
<1>4. CASE Transmit
  BY <1>4 DEF Transmit, tasks, FrameInv, Busy
<1>5. CASE BroadcastDone \/ Answered
  BY <1>5, SettledFacts DEF BroadcastDone, Answered, FrameInv, Busy
<1>6. CASE Expire
  <2>1. CASE re_send_times' <= retransmission_times
    BY <1>6, <2>1 DEF Expire, tasks, FrameInv, Busy
  <2>2. CASE ~(re_send_times' <= retransmission_times)
    BY <1>6, <2>2, SettledFacts DEF Expire, FrameInv, Busy
  <2>3. QED BY <2>1, <2>2
<1>7. QED BY <1>1, <1>2, <1>3, <1>4, <1>5, <1>6, Kinds

LEMMA FrameInit == Init => FrameInv
BY DEF Init, FrameInv, Busy

-----------------------------------------------------------------------------
(* A command counted as executed that did not arrive was answered by a late *)
(* answer: one that is left over because the wait for it ran out.           *)

(* Answers not used yet: under way, or in the buffer until the loop ends.   *)
IsAnswer(a) == a.cmd_code # "report"
Outstanding == {a \in air : IsAnswer(a)}
Unread == IF rx # None /\ IsAnswer(rx) /\ pc # "analyse" THEN 1 ELSE 0

(* The answer that is due: to the frame that is waited for and did arrive.  *)
Due == IF pc = "wait" /\ frame \in executed THEN 1 ELSE 0

Credit == Cardinality(untrue) + Cardinality(Outstanding) + Unread <= expiries + Due

CreditInv == IsFiniteSet(air) /\ IsFiniteSet(untrue) /\ Credit /\ FalseSuccessBound

LEMMA Counts ==
  ASSUME CreditInv
  PROVE  /\ IsFiniteSet(Outstanding) /\ Cardinality(Outstanding) \in Nat
         /\ Cardinality(untrue) \in Nat
BY FS_Subset, FS_CardinalityType DEF CreditInv, Outstanding

(* An answer more under way counts as one at most.                          *)
LEMMA OneMore ==
  ASSUME NEW S, IsFiniteSet(S), NEW a
  PROVE  /\ IsFiniteSet(S \cup {a}) /\ Cardinality(S \cup {a}) <= Cardinality(S) + 1
         /\ Cardinality(S \cup {a}) \in Nat /\ Cardinality(S) \in Nat
BY FS_AddElement, FS_CardinalityType

(* Delivering an answer moves it from the air to the buffer.                *)
LEMMA DeliverCredit ==
  ASSUME TypeOK, CreditInv, Deliver
  PROVE  CreditInv'
<1>1. PICK a \in air : rx' = a /\ air' = air \ {a}
  BY DEF Deliver
<1>2. UNCHANGED <<pc, frame, executed, untrue, expiries>>
  BY DEF Deliver, history
<1>3. IsFiniteSet(air') /\ IsFiniteSet(untrue')
  BY <1>1, <1>2, FS_RemoveElement DEF CreditInv
<1>4. Due' = Due /\ Due \in {0, 1} /\ Unread \in {0, 1} /\ Unread' \in {0, 1} /\ expiries \in Nat
  BY <1>2 DEF Due, Unread, TypeOK
<1>5. CASE IsAnswer(a)
  <2>1. Outstanding' = Outstanding \ {a} /\ a \in Outstanding
    BY <1>1, <1>5 DEF Outstanding, IsAnswer
  <2>2. Cardinality(Outstanding') = Cardinality(Outstanding) - 1
    BY <2>1, Counts, FS_RemoveElement
  <2>3. QED BY <1>2, <1>3, <1>4, <2>2, Counts DEF CreditInv, Credit, FalseSuccessBound
<1>6. CASE ~IsAnswer(a)
  <2>1. Outstanding' = Outstanding
    BY <1>1, <1>6 DEF Outstanding, IsAnswer
  <2>2. Unread' = 0
    BY <1>1, <1>6 DEF Unread, IsAnswer
  <2>3. QED BY <1>2, <1>3, <1>4, <2>1, <2>2, Counts DEF CreditInv, Credit, FalseSuccessBound
<1>7. QED BY <1>5, <1>6

(* A transmission that arrives brings one answer, which is due.             *)
LEMMA TransmitCredit ==
  ASSUME TypeOK, FrameInv, CreditInv, Transmit
  PROVE  CreditInv'
<1>1. /\ UNCHANGED <<frame, rx, untrue, expiries>> /\ pc = "send"
      /\ pc' = IF frame.type = 2 THEN "wait" ELSE "sent"
  BY DEF Transmit
<1>2. Due = 0 /\ Unread' = Unread /\ Unread \in {0, 1} /\ Due' \in {0, 1} /\ expiries \in Nat
  BY <1>1 DEF Due, Unread, TypeOK
<1>3. CASE Arrive({}, {})
  <2>1. air' = air
    BY <1>3 DEF Arrive
  <2>2. Outstanding' = Outstanding
    BY <2>1 DEF Outstanding
  <2>3. QED BY <1>1, <1>2, <2>1, <2>2, Counts DEF CreditInv, Credit, FalseSuccessBound
<1>4. CASE frame.to \in Lamp /\ Arrive({frame}, {Answer})
  <2>1. air' = air \cup {Answer} /\ executed' = executed \cup {frame}
    BY <1>4 DEF Arrive
  <2>2. frame.to # All
    BY <1>4 DEF Lamp, All
  <2>3. Due' = 1
    BY <1>1, <2>1, <2>2 DEF Due, FrameInv, Busy
  <2>4. IsAnswer(Answer)
    BY DEF IsAnswer, Answer
  <2>5. Outstanding' = Outstanding \cup {Answer}
    BY <2>1, <2>4 DEF Outstanding
  <2>6. IsFiniteSet(air') /\ Cardinality(Outstanding') <= Cardinality(Outstanding) + 1
        /\ Cardinality(Outstanding') \in Nat
    BY <2>1, <2>5, OneMore, Counts DEF CreditInv
  <2>7. QED BY <1>1, <1>2, <2>3, <2>6, Counts DEF CreditInv, Credit, FalseSuccessBound
<1>5. QED BY <1>3, <1>4 DEF Transmit

(* An answer that settles a frame is used up: it was due, or it is counted. *)
LEMMA AnsweredCredit ==
  ASSUME TypeOK, CreditInv, Answered
  PROVE  CreditInv'
<1>1. /\ pc = "wait" /\ pc' = "analyse" /\ UNCHANGED <<air, rx, executed, expiries>>
      /\ untrue' = IF frame \in executed THEN untrue ELSE untrue \cup {frame}
  BY SettledFacts DEF Answered
<1>2. rx # None /\ rx.cmd_code \in {"ack", frame.cmd_code}
  BY DEF Answered, Matches
<1>3. IsAnswer(rx)
  <2>1. frame.cmd_code \in Cmd
    BY <1>1 DEF TypeOK, FrameType
  <2>2. QED BY <1>2, <2>1 DEF IsAnswer, Cmd
<1>4. Unread = 1 /\ Unread' = 0 /\ Due' = 0 /\ expiries \in Nat /\ Outstanding' = Outstanding
  BY <1>1, <1>2, <1>3 DEF Unread, Due, TypeOK, Outstanding
<1>5. CASE frame \in executed
  <2>1. Due = 1 /\ untrue' = untrue
    BY <1>1, <1>5 DEF Due
  <2>2. QED BY <1>1, <1>4, <2>1, Counts DEF CreditInv, Credit, FalseSuccessBound
<1>6. CASE frame \notin executed
  <2>1. Due = 0 /\ untrue' = untrue \cup {frame}
    BY <1>1, <1>6 DEF Due
  <2>2. IsFiniteSet(untrue') /\ Cardinality(untrue') <= Cardinality(untrue) + 1
        /\ Cardinality(untrue') \in Nat
    BY <2>1, OneMore DEF CreditInv
  <2>3. QED BY <1>1, <1>4, <2>1, <2>2, Counts DEF CreditInv, Credit, FalseSuccessBound
<1>7. QED BY <1>5, <1>6

LEMMA CreditStep ==
  TypeOK /\ Waits /\ FrameInv /\ CreditInv /\ [Next]_vars => CreditInv'
<1> SUFFICES ASSUME TypeOK, Waits, FrameInv, CreditInv, [Next]_vars PROVE CreditInv'
  OBVIOUS
<1>1. Due \in {0, 1} /\ Unread \in {0, 1} /\ Due' \in {0, 1} /\ Unread' \in {0, 1} /\ expiries \in Nat
  BY DEF Due, Unread, TypeOK
<1>2. CASE Aside /\ UNCHANGED line
  <2>1. Due' = Due /\ Unread' = Unread /\ Outstanding' = Outstanding
        /\ UNCHANGED <<air, untrue, expiries>>
    BY <1>2 DEF Aside, line, Due, Unread, Outstanding
  <2>2. QED BY <2>1 DEF CreditInv, Credit, FalseSuccessBound
<1>3. CASE Deliver
  BY <1>3, DeliverCredit
<1>4. CASE Aside /\ LampReport
  <2>1. PICK l \in list : air' = air \cup {[from |-> l, cmd_code |-> "report"]}
    BY <1>4 DEF LampReport
  <2>2. Due' = Due /\ Unread' = Unread /\ UNCHANGED <<untrue, expiries>>
    BY <1>4 DEF Aside, LampReport, Due, Unread
  <2>3. Outstanding' = Outstanding
    BY <2>1 DEF Outstanding, IsAnswer
  <2>4. IsFiniteSet(air')
    BY <2>1, OneMore DEF CreditInv
  <2>5. QED BY <2>2, <2>3, <2>4 DEF CreditInv, Credit, FalseSuccessBound
<1>5. CASE Between
  <2>1. Due = 0 /\ Due' = 0 /\ Unread' <= Unread /\ Outstanding' = Outstanding
        /\ UNCHANGED <<air, untrue, expiries>>
    BY <1>5 DEF Between, Busy, Due, Unread, Outstanding
  <2>2. QED BY <1>1, <2>1, Counts DEF CreditInv, Credit, FalseSuccessBound
<1>6. CASE Making
  <2>1. /\ pc = "frame" /\ pc' = "send" /\ UNCHANGED <<air, rx, untrue, expiries>>
    BY <1>6 DEF Making, AtFrame, Made, line, history
  <2>2. Due = 0 /\ Due' = 0 /\ Unread' = Unread /\ Outstanding' = Outstanding
    BY <2>1 DEF Due, Unread, Outstanding
  <2>3. QED BY <2>1, <2>2 DEF CreditInv, Credit, FalseSuccessBound
<1>7. CASE Transmit
  BY <1>7, TransmitCredit
<1>8. CASE BroadcastDone
  <2>1. pc = "sent" /\ pc' = "analyse" /\ UNCHANGED <<air, rx, untrue, expiries>>
    BY <1>8, SettledFacts DEF BroadcastDone
  <2>2. Due = 0 /\ Due' = 0 /\ Unread' <= Unread /\ Outstanding' = Outstanding
    BY <2>1 DEF Due, Unread, Outstanding
  <2>3. QED BY <1>1, <2>1, <2>2, Counts DEF CreditInv, Credit, FalseSuccessBound
<1>9. CASE Answered
  BY <1>9, AnsweredCredit
<1>10. CASE Expire
  <2>1. /\ expiries' = expiries + 1 /\ untrue' = untrue /\ UNCHANGED <<air, rx>>
        /\ pc' \in {"send", "analyse"} /\ pc = "wait"
    BY <1>10, SettledFacts DEF Expire, line
  <2>2. Due' = 0 /\ Unread' <= Unread /\ Outstanding' = Outstanding
    BY <2>1 DEF Due, Unread, Outstanding
  <2>3. QED BY <1>1, <2>1, <2>2, Counts DEF CreditInv, Credit, FalseSuccessBound
<1>11. QED BY <1>2, <1>3, <1>4, <1>5, <1>6, <1>7, <1>8, <1>9, <1>10, Kinds

LEMMA CreditInit == Init => CreditInv
<1> SUFFICES ASSUME Init PROVE CreditInv
  OBVIOUS
<1>1. Outstanding = {} /\ Unread = 0 /\ Due = 0
  BY DEF Init, Outstanding, Unread, Due
<1>2. QED BY <1>1, FS_EmptySet DEF Init, CreditInv, Credit, FalseSuccessBound

(* For any lamps, messages and attempts, and any order of answers, losses   *)
(* and reports, no more commands are counted as executed without having     *)
(* reached their lamp than waits for an answer ran out.                     *)
THEOREM FalseSuccessAlwaysBounded == Spec => []FalseSuccessBound
<1> DEFINE Inv == TypeOK /\ Waits /\ FrameInv /\ CreditInv
<1>1. Init => Inv
  BY TypeInit, FrameInit, CreditInit
<1>2. Inv /\ [Next]_vars => Inv'
  BY TypeNext, FrameStep, CreditStep
<1>3. Inv => FalseSuccessBound
  BY DEF CreditInv
<1>4. QED BY <1>1, <1>2, <1>3, PTL DEF Spec

-----------------------------------------------------------------------------
(* The frames of a task: transmitted, or made and about to be.              *)
Issued(t) == {f \in sent : f.task = t} \cup (IF frame # None /\ frame.task = t THEN {frame} ELSE {})

(* A task in the queue has done nothing yet; frames are of tasks that left  *)
(* it.                                                                      *)
QueuedInv ==
  /\ \A i \in DOMAIN toPlc : /\ toPlc[i].executed_num = 0 /\ toPlc[i].executed_index = 0
                             /\ toPlc[i].success_num = 0 /\ toPlc[i].failed_num = 0
                             /\ toPlc[i].broadcast_state = FALSE
  /\ \A f \in sent : f.task <= made /\ ~InQueue(f.task)

(* The number of a frame is used once, but for the broadcast before a list. *)
NumberedInv ==
  \A t \in TaskId : InProgress(t) =>
    /\ \A f \in Issued(t) : \/ f.num < task_progress.executed_num
                            \/ f.to = All /\ task_progress.broadcast_state
    /\ task_progress.broadcast_state => IsListed

(* Frames executed lamp by lamp are counted, but for the one under way.     *)
TallyInv ==
  \A t \in TaskId : InProgress(t) /\ task_progress.execute_type \in {1, 2} =>
    task_progress.success_num + task_progress.failed_num + (IF Busy THEN 1 ELSE 0)
      = Cardinality(Issued(t))

IssuedInv == IsFiniteSet(sent) /\ QueuedInv /\ NumberedInv /\ TallyInv

(* The frames of a task are finitely many.                                  *)
LEMMA IssuedFinite ==
  ASSUME IsFiniteSet(sent), NEW t
  PROVE  IsFiniteSet(Issued(t)) /\ Cardinality(Issued(t)) \in Nat
<1>1. IsFiniteSet(sent \cup {frame})
  BY FS_AddElement
<1>2. Issued(t) \in SUBSET (sent \cup {frame})
  BY DEF Issued
<1>3. QED BY <1>1, <1>2, FS_Subset, FS_CardinalityType

(* A new task has done nothing yet.                                         *)
LEMMA NewTaskIdle ==
  ASSUME NEW t, NEW r
  PROVE  LET p == NewTask(t, r)
         IN p.executed_num = 0 /\ p.executed_index = 0 /\ p.success_num = 0 /\ p.failed_num = 0
            /\ p.broadcast_state = FALSE
BY DEF NewTask

(* The queue changes at its ends: a new task joins it, the first leaves it. *)
LEMMA QueueCases ==
  ASSUME TypeOK, Waits, [Next]_vars
  PROVE  \/ UNCHANGED <<toPlc, made>>
         \/ /\ made' = made + 1 /\ made' \in TaskId
            /\ UNCHANGED <<list, task_progress, frame, pc, sent, changed>>
            /\ \/ toPlc' = toPlc
               \/ \E r \in Requests[made'] : toPlc' = Append(toPlc, NewTask(made', r))
         \/ /\ toPlc # << >> /\ toPlc' = Tail(toPlc) /\ task_progress' = Head(toPlc)
            /\ task_progress = None /\ pc' = "state" /\ pc = "task"
            /\ UNCHANGED <<list, frame, sent, made, changed>>
<1> USE DEF queues, tasks, line, bounds, history
<1>1. CASE Request
  <2>1. made' \in TaskId
    BY <1>1, Limits DEF Request, TypeOK, TaskId
  <2>2. QED BY <1>1, <2>1 DEF Request
<1>2. CASE TakeTask
  BY <1>2 DEF TakeTask
<1>3. ASSUME NEW state, FirmwareCommand(state) PROVE UNCHANGED <<toPlc, made>>
  BY <1>3 DEF FirmwareCommand
<1>4. CASE ChangeList \/ LampReport \/ TakeNotice \/ Deliver \/ UNCHANGED vars
  BY <1>4 DEF ChangeList, LampReport, TakeNotice, Deliver, vars
<1>5. CASE NoCommand \/ IgnoreCommand \/ Stop \/ Suspend \/ Analyse \/ Transmit
  BY <1>5 DEF NoCommand, IgnoreCommand, Stop, Suspend, Analyse, Transmit
<1>6. CASE BroadcastDone \/ Answered \/ Expire
  BY <1>6 DEF BroadcastDone, Answered, Expire, Settled
<1>7. CASE MakeFrame
  <2>1. CASE Idle
    BY <2>1 DEF Idle
  <2>2. CASE Finish
    BY <2>2 DEF Finish
  <2>3. CASE Making
    BY <2>3 DEF Making, Made
  <2>4. QED BY <1>7, <2>1, <2>2, <2>3, MakeCases
<1>8. QED
  BY <1>1, <1>2, <1>3, <1>4, <1>5, <1>6, <1>7 DEF Next, Environment, vTaskPLC, HardFault_Handler

(* Frames are transmitted for the task in progress only.                    *)
LEMMA SentCases ==
  ASSUME TypeOK, Waits, FrameInv, [Next]_vars
  PROVE  \/ sent' = sent
         \/ /\ sent' = sent \cup {frame} /\ task_progress # None /\ frame.task = task_progress.id
            /\ UNCHANGED <<toPlc, made, list, freed, changed>>
<1>1. CASE Transmit
  BY <1>1 DEF Transmit, TypeOK, FrameInv, Busy, queues, bounds
<1>2. CASE BroadcastDone \/ Answered \/ Expire
  BY <1>2 DEF BroadcastDone, Answered, Expire, Settled
<1>3. CASE Making
  BY <1>3 DEF Making, Made, history
<1>4. QED BY <1>1, <1>2, <1>3, Kinds DEF Aside, Between

(* The elements of the queue after one joined it or the first left it.      *)
LEMMA QueueElements ==
  ASSUME TypeOK
  PROVE  /\ \A task : toPlc' = Append(toPlc, task) =>
              \A i \in DOMAIN toPlc' :
                (i \in DOMAIN toPlc /\ toPlc'[i] = toPlc[i]) \/ toPlc'[i] = task
         /\ toPlc # << >> /\ toPlc' = Tail(toPlc) =>
              \A i \in DOMAIN toPlc' : i + 1 \in DOMAIN toPlc /\ toPlc'[i] = toPlc[i + 1]
         /\ toPlc # << >> => /\ 1 \in DOMAIN toPlc /\ Head(toPlc) = toPlc[1]
                             /\ toPlc[1] \in TaskType
<1>1. toPlc \in Seq(TaskType) /\ Len(toPlc) \in Nat /\ DOMAIN toPlc = 1 .. Len(toPlc)
  BY DEF TypeOK
<1>2. ASSUME NEW task, toPlc' = Append(toPlc, task), NEW i \in DOMAIN toPlc'
      PROVE  (i \in DOMAIN toPlc /\ toPlc'[i] = toPlc[i]) \/ toPlc'[i] = task
  BY <1>1, <1>2
<1>3. ASSUME toPlc # << >>, toPlc' = Tail(toPlc), NEW i \in DOMAIN toPlc'
      PROVE  i + 1 \in DOMAIN toPlc /\ toPlc'[i] = toPlc[i + 1]
  BY <1>1, <1>3
<1>4. toPlc # << >> => 1 \in DOMAIN toPlc /\ Head(toPlc) = toPlc[1] /\ toPlc[1] \in TaskType
  BY <1>1
<1>5. QED BY <1>2, <1>3, <1>4

LEMMA QueuedStep ==
  TypeOK /\ Waits /\ FrameInv /\ IInv /\ QueuedInv /\ [Next]_vars => QueuedInv'
<1> SUFFICES ASSUME TypeOK, Waits, FrameInv, IInv, QueuedInv, [Next]_vars PROVE QueuedInv'
  OBVIOUS
<1> DEFINE New(p) == /\ p.executed_num = 0 /\ p.executed_index = 0
                     /\ p.success_num = 0 /\ p.failed_num = 0 /\ p.broadcast_state = FALSE
<1>a. \A i \in DOMAIN toPlc : New(toPlc[i])
  BY DEF QueuedInv
<1>b. \A f \in sent : f.task <= made /\ ~InQueue(f.task) /\ f.task \in Nat
  BY DEF QueuedInv, TypeOK, FrameType, TaskId
<1>c. made \in Nat
  BY Limits DEF TypeOK
<1>1. CASE UNCHANGED <<toPlc, made>>
  <2>1. \A f \in sent' : f.task <= made /\ ~InQueue(f.task)
    <3>1. CASE sent' = sent
      BY <1>b, <3>1
    <3>2. CASE sent' # sent
      <4>1. /\ sent' = sent \cup {frame} /\ task_progress # None /\ frame.task = task_progress.id
        BY <3>2, SentCases
      <4>2. PICK id \in TaskId : id = task_progress.id
        BY <4>1, Fields DEF TypeOK
      <4>3. InProgress(id)
        BY <4>1, <4>2 DEF InProgress
      <4>4. ~(id > made) /\ ~InQueue(id)
        BY <4>3, Zenon DEF IInv, OnePlace
      <4>5. id <= made
        BY <1>c, <4>4 DEF TaskId
      <4>6. QED BY <1>b, <4>1, <4>2, <4>4, <4>5
    <3>3. QED BY <3>1, <3>2
  <2>2. QED BY <1>1, <1>a, <2>1 DEF QueuedInv, InQueue
<1>2. CASE /\ made' = made + 1 /\ made' \in TaskId /\ sent' = sent
           /\ toPlc' = toPlc \/ \E r \in Requests[made'] : toPlc' = Append(toPlc, NewTask(made', r))
  <2>1. CASE toPlc' = toPlc
    <3>1. \A f \in sent : f.task <= made'
      BY <1>2, <1>b, <1>c
    <3>2. QED BY <1>2, <1>a, <1>b, <2>1, <3>1 DEF QueuedInv, InQueue
  <2>2. ASSUME NEW r \in Requests[made'], toPlc' = Append(toPlc, NewTask(made', r))
        PROVE  QueuedInv'
    <3>1. New(NewTask(made', r))
      BY NewTaskIdle
    <3>2. NewTask(made', r).id = made'
      BY <1>2, NewTaskType DEF TypeOK
    <3>3. \A i \in DOMAIN toPlc' :
            (i \in DOMAIN toPlc /\ toPlc'[i] = toPlc[i]) \/ toPlc'[i] = NewTask(made', r)
      BY <2>2, QueueElements
    <3>4. ASSUME NEW i \in DOMAIN toPlc' PROVE New(toPlc'[i])
      BY <1>a, <3>1, <3>3
    <3>5. ASSUME NEW f \in sent' PROVE f.task <= made' /\ ~InQueue(f.task)'
      <4>1. f.task <= made /\ f.task \in Nat /\ ~InQueue(f.task)
        BY <1>2, <1>b
      <4>2. f.task < made'
        BY <1>2, <1>c, <4>1
      <4>3. ASSUME NEW i \in DOMAIN toPlc', toPlc'[i].id = f.task PROVE FALSE
        <5>1. CASE i \in DOMAIN toPlc /\ toPlc'[i] = toPlc[i]
          BY <4>1, <4>3, <5>1 DEF InQueue
        <5>2. CASE toPlc'[i] = NewTask(made', r)
          BY <3>2, <4>1, <4>2, <4>3, <5>2
        <5>3. QED BY <3>3, <5>1, <5>2
      <4>4. QED BY <1>c, <1>2, <4>1, <4>2, <4>3 DEF InQueue
    <3>6. QED BY <3>4, <3>5 DEF QueuedInv
  <2>3. QED BY <1>2, <2>1, <2>2
<1>3. CASE /\ toPlc # << >> /\ toPlc' = Tail(toPlc) /\ UNCHANGED <<sent, made>>
  <2>1. \A i \in DOMAIN toPlc' : i + 1 \in DOMAIN toPlc /\ toPlc'[i] = toPlc[i + 1]
    BY <1>3, QueueElements
  <2>2. \A f \in sent' : f.task <= made' /\ ~InQueue(f.task)'
    BY <1>3, <1>b, <2>1 DEF InQueue
  <2>3. QED BY <1>a, <2>1, <2>2 DEF QueuedInv
<1>4. QED BY <1>1, <1>2, <1>3, QueueCases

(* The frames made of a task, and how its counters move on.                 *)
LEMMA MadeCases ==
  ASSUME TypeOK, Waits, Making
  PROVE  LET p == task_progress q == task_progress'
         IN \/ /\ BroadcastFirst /\ IsListed /\ frame'.to = All
               /\ ~p.broadcast_state /\ q.broadcast_state
               /\ q.executed_num = p.executed_num /\ q.executed_index = p.executed_index + 1
               /\ q.success_num = p.success_num /\ q.failed_num = p.failed_num
            \/ /\ ToNextLamp /\ IsListed /\ frame'.to = NextLamp
               /\ q.executed_num = p.executed_num + 1 /\ q.executed_index = NextLamp + 1
               /\ q.success_num = p.success_num /\ q.failed_num = p.failed_num
               /\ p.broadcast_state => q.broadcast_state
            \/ /\ ~IsListed
               /\ q.broadcast_state = p.broadcast_state
               /\ q.executed_num = p.executed_num + 1
               /\ p.execute_type # 0 =>
                    q.success_num = p.success_num /\ q.failed_num = p.failed_num
<1>1. /\ DOMAIN task_progress = {"id", "cmd_code", "broadcast_type", "execute_type", "dev_id",
                                "dev_num", "execute_total_num", "executed_num", "executed_index",
                                "broadcast_state", "success_num", "failed_num"}
      /\ task_progress.broadcast_state \in BOOLEAN
  BY DEF Making, AtFrame, TypeOK, TaskType
<1>2. CASE Broadcast
  BY <1>1, <1>2 DEF Broadcast, Made, IsBroadcast, IsListed
<1>3. CASE BroadcastFirst
  <2>1. task_progress' = [task_progress EXCEPT !.broadcast_state = TRUE, !.executed_index = @ + 1]
        /\ frame' = Frame(task_progress, All) /\ BroadcastDue /\ IsListed
    BY <1>3 DEF BroadcastFirst, Made
  <2>2. ~task_progress.broadcast_state
    BY <2>1 DEF BroadcastDue
  <2>3. QED BY <1>1, <1>3, <2>1, <2>2 DEF Frame
<1>4. CASE ToNextLamp
  <2>1. task_progress' = [task_progress EXCEPT !.broadcast_state = @ \/ BroadcastDue,
                                               !.executed_index = NextLamp + 1, !.executed_num = @ + 1]
        /\ frame' = Frame(task_progress, NextLamp) /\ IsListed
    BY <1>4, Zenon DEF ToNextLamp, Made
  <2>2. /\ task_progress'.executed_num = task_progress.executed_num + 1
        /\ task_progress'.executed_index = NextLamp + 1
        /\ task_progress'.success_num = task_progress.success_num
        /\ task_progress'.failed_num = task_progress.failed_num
    <3> HIDE DEF NextLamp, BroadcastDue
    <3>1. QED BY <1>1, <2>1
  <2>3. task_progress'.broadcast_state = (task_progress.broadcast_state \/ BroadcastDue)
    <3> HIDE DEF NextLamp, BroadcastDue
    <3>1. QED BY <1>1, <2>1
  <2>4. frame'.to = NextLamp
    BY <2>1 DEF Frame
  <2>5. QED BY <1>4, <2>1, <2>2, <2>3, <2>4
<1>5. CASE ToNamedLamp
  BY <1>1, <1>5 DEF ToNamedLamp, Made, IsNamed, IsListed
<1>6. CASE SendStrategy
  BY <1>1, <1>6 DEF SendStrategy, Made, IsListed
<1>7. ~Idle /\ ~BroadcastEnd /\ ~ListEnd /\ ~NamedEnd /\ ~StrategyEnd
  <2>1. pc' = "send" /\ pc = "frame" /\ task_progress # None
    BY DEF Making, Made, AtFrame
  <2>2. QED BY <2>1 DEF Idle, BroadcastEnd, ListEnd, NamedEnd, StrategyEnd, Finish
<1>8. QED BY <1>2, <1>3, <1>4, <1>5, <1>6, <1>7 DEF Making, MakeFrame

(* The next lamp of a list is the first that remains.                       *)
LEMMA NextLampFacts ==
  ASSUME Remaining # {}
  PROVE  NextLamp \in Remaining /\ NextLamp \in Lamp /\ NextLamp # All
         /\ \A k \in Remaining : NextLamp <= k
<1>1. Remaining \subseteq Nat
  BY DEF Remaining, Lamp
<1> DEFINE R == OpToRel(<, Nat)
<1>2. PICK l \in Remaining : \A k \in Remaining : <<k, l>> \notin R
  <2> HIDE DEF R
  <2>1. IsWellFoundedOn(R, Nat)
    BY NatLessThanWellFounded DEF R
  <2>2. QED BY <1>1, <2>1, WFMin
<1>3. \A k \in Remaining : ~(k < l)
  BY <1>1, <1>2 DEF OpToRel
<1>4. \A k \in Remaining : l <= k
  BY <1>1, <1>3
<1>5. NextLamp \in Remaining /\ \A k \in Remaining : NextLamp <= k
  BY <1>4 DEF NextLamp
<1>6. QED BY <1>5 DEF Remaining, Lamp, All

(* The frames of a task change when one is made of it, never when one is    *)
(* transmitted or settled.                                                  *)
LEMMA IssuedCases ==
  ASSUME TypeOK, Waits, FrameInv, [Next]_vars, NEW t
  PROVE  \/ Issued(t)' = Issued(t)
         \/ /\ Making /\ t = task_progress.id /\ frame = None /\ sent' = sent
            /\ Issued(t)' = Issued(t) \cup {frame'}
<1>1. CASE Aside
  BY <1>1 DEF Aside, Issued
<1>2. CASE Between
  <2>1. frame = None /\ frame' = None /\ sent' = sent
    BY <1>2 DEF Between, FrameInv
  <2>2. QED BY <2>1 DEF Issued
<1>3. CASE Making
  <2>1. PICK to \in Int : Made(to, task_progress')
    BY <1>3 DEF Making
  <2>2. frame = None /\ sent' = sent /\ frame'.task = task_progress.id
    BY <1>3, <2>1 DEF Making, AtFrame, FrameInv, Busy, Made, Frame, history
  <2>3. frame' # None
    BY <1>3, <2>1, FrameStep DEF Making, Made, FrameInv, Busy
  <2>4. QED BY <1>3, <2>2, <2>3 DEF Issued
<1>4. CASE Transmit
  <2>1. frame' = frame /\ sent' = sent \cup {frame} /\ frame # None
    BY <1>4 DEF Transmit, FrameInv, Busy
  <2>2. QED BY <2>1 DEF Issued
<1>5. CASE BroadcastDone \/ Answered
  <2>1. frame' = None /\ sent' = sent /\ frame \in sent
    BY <1>5, SettledFacts DEF BroadcastDone, Answered, FrameInv
  <2>2. QED BY <2>1 DEF Issued
<1>6. CASE Expire
  <2>1. CASE re_send_times' <= retransmission_times
    <3>1. frame' = frame /\ sent' = sent
      BY <1>6, <2>1 DEF Expire
    <3>2. QED BY <3>1 DEF Issued
  <2>2. CASE ~(re_send_times' <= retransmission_times)
    <3>1. frame' = None /\ sent' = sent /\ frame \in sent
      BY <1>6, <2>2, SettledFacts DEF Expire, FrameInv
    <3>2. QED BY <3>1 DEF Issued
  <2>3. QED BY <2>1, <2>2
<1>7. QED BY <1>1, <1>2, <1>3, <1>4, <1>5, <1>6, Kinds

(* How the task in progress changes.                                        *)
Taken ==
  /\ pc = "task" /\ pc' = "state" /\ task_progress = None
  /\ toPlc # << >> /\ task_progress' = Head(toPlc) /\ toPlc' = Tail(toPlc)
  /\ UNCHANGED <<list, frame, sent, made, changed, freed>>

(* A frame is counted, as a success or as a failure.                        *)
Counting ==
  /\ Busy /\ pc' = "analyse" /\ task_progress \in TaskType
  /\ \E success \in BOOLEAN : Settled(success) /\ task_progress' = Tallied(success)

LEMMA ProgressCases ==
  ASSUME TypeOK, Waits, FrameInv, [Next]_vars
  PROVE  \/ UNCHANGED task_progress /\ (Busy' <=> Busy)
         \/ task_progress' = None \/ Taken \/ Making \/ Counting
<1>1. CASE Aside
  BY <1>1 DEF Aside, Busy
<1>2. CASE Between
  <2>1. CASE TakeTask
    BY <2>1 DEF TakeTask, Taken, Busy, queues, tasks, bounds, history
  <2>2. CASE NoCommand \/ IgnoreCommand \/ Analyse
    BY <2>2 DEF NoCommand, IgnoreCommand, Analyse, Busy, tasks
  <2>3. CASE Stop \/ Suspend
    BY <2>3 DEF Stop, Suspend, FINISHED
  <2>4. CASE MakeFrame
    <3>1. CASE Idle
      BY <3>1 DEF Idle, Busy, tasks
    <3>2. CASE Finish
      BY <3>2 DEF Finish, FINISHED
    <3>3. QED BY <2>4, <3>1, <3>2, MakeCases
  <2>5. CASE Transmit \/ BroadcastDone \/ Answered \/ Expire
    BY <1>2, <2>5 DEF Between, Busy, Transmit, BroadcastDone, Answered, Expire
  <2>6. CASE HardFault_Handler \/ TakeNotice \/ Deliver \/ Environment \/ UNCHANGED vars
    <3>1. UNCHANGED <<pc, task_progress>>
      BY <2>6 DEF HardFault_Handler, TakeNotice, Deliver, Environment, Request, FirmwareCommand,
                  ChangeList, LampReport, vars, tasks
    <3>2. QED BY <3>1 DEF Busy
  <2>7. QED BY <2>1, <2>2, <2>3, <2>4, <2>5, <2>6 DEF Next, vTaskPLC
<1>3. CASE Making
  BY <1>3
<1>4. CASE Transmit
  BY <1>4 DEF Transmit, Busy, tasks
<1>5. ASSUME NEW success \in BOOLEAN, Settled(success), pc \in {"sent", "wait"} PROVE Counting
  <2>1. task_progress \in TaskType
    BY <1>5 DEF TypeOK
  <2>2. QED BY <1>5, <2>1 DEF Settled, Tallied, Counting, Busy
<1>6. CASE BroadcastDone \/ Answered
  BY <1>5, <1>6 DEF BroadcastDone, Answered
<1>7. CASE Expire
  <2>1. CASE re_send_times' <= retransmission_times
    BY <1>7, <2>1 DEF Expire, Busy, tasks
  <2>2. CASE ~(re_send_times' <= retransmission_times)
    BY <1>5, <1>7, <2>2 DEF Expire
  <2>3. QED BY <2>1, <2>2
<1>8. QED BY <1>1, <1>2, <1>3, <1>4, <1>6, <1>7, Kinds

(* What counting a frame does to the task.                                  *)
LEMMA CountingFacts ==
  ASSUME Counting
  PROVE  /\ SameTask
         /\ task_progress'.executed_num = task_progress.executed_num
         /\ task_progress'.executed_index = task_progress.executed_index
         /\ task_progress'.broadcast_state = task_progress.broadcast_state
         /\ task_progress.execute_type \in {1, 2} =>
              task_progress'.success_num + task_progress'.failed_num
                = task_progress.success_num + task_progress.failed_num + 1
<1>1. PICK success \in BOOLEAN : task_progress' = Tallied(success)
  BY DEF Counting
<1> DEFINE counted == task_progress.execute_type \in {1, 2}
           S == IF counted /\ success THEN task_progress.success_num + 1
                ELSE task_progress.success_num
           F == IF counted /\ ~success THEN task_progress.failed_num + 1
                ELSE task_progress.failed_num
<1>2. task_progress' = [task_progress EXCEPT !.success_num = S, !.failed_num = F]
  BY <1>1 DEF Tallied
<1>3. task_progress \in TaskType /\ task_progress' \in TaskType
  BY <1>1, TalliedType DEF Counting
<1>4. task_progress.success_num \in Nat /\ task_progress.failed_num \in Nat
  BY <1>3 DEF TaskType
<1>5. counted => S + F = task_progress.success_num + task_progress.failed_num + 1
  BY <1>4
<1>6. DOMAIN task_progress = {"id", "cmd_code", "broadcast_type", "execute_type", "dev_id",
                              "dev_num", "execute_total_num", "executed_num", "executed_index",
                              "broadcast_state", "success_num", "failed_num"}
  BY <1>3 DEF TaskType
<1> HIDE DEF S, F
<1>7. task_progress'.success_num = S /\ task_progress'.failed_num = F
  BY <1>2, <1>6
<1>8. QED BY <1>2, <1>3, <1>5, <1>6, <1>7 DEF SameTask

(* A task that is taken from the queue has no frames.                       *)
LEMMA TakenFacts ==
  ASSUME TypeOK, FrameInv, QueuedInv, Taken
  PROVE  /\ task_progress' \in TaskType /\ ~Busy' /\ InQueue(task_progress'.id)
         /\ task_progress'.executed_num = 0 /\ task_progress'.executed_index = 0
         /\ task_progress'.success_num = 0 /\ task_progress'.failed_num = 0
         /\ task_progress'.broadcast_state = FALSE
         /\ \A t \in TaskId : InProgress(t)' => Issued(t)' = {}
<1>1. 1 \in DOMAIN toPlc /\ toPlc[1] \in TaskType /\ task_progress' = toPlc[1]
  BY QueueElements DEF Taken
<1>2. InQueue(task_progress'.id)
  BY <1>1 DEF InQueue
<1>3. \A f \in sent : f.task # task_progress'.id
  BY <1>2 DEF QueuedInv
<1>4. frame = None /\ frame' = None /\ sent' = sent /\ ~Busy'
  BY DEF Taken, FrameInv, Busy
<1>5. ASSUME NEW t \in TaskId, InProgress(t)' PROVE Issued(t)' = {}
  BY <1>3, <1>4, <1>5 DEF Issued, InProgress
<1>6. QED BY <1>1, <1>2, <1>4, <1>5 DEF QueuedInv

(* The task in progress is in progress before a step that makes or counts   *)
(* a frame of it.                                                           *)
LEMMA StillInProgress ==
  ASSUME TypeOK, UNCHANGED task_progress \/ Making \/ Counting, NEW t \in TaskId, InProgress(t)'
  PROVE  InProgress(t) /\ task_progress \in TaskType
<1>1. CASE UNCHANGED task_progress
  BY <1>1 DEF InProgress, TypeOK
<1>2. CASE Making
  BY <1>2 DEF InProgress, TypeOK, Making, AtFrame, SameTask
<1>3. CASE Counting
  <2>1. SameTask /\ task_progress \in TaskType
    BY <1>3, CountingFacts DEF Counting
  <2>2. QED BY <2>1, Null DEF SameTask, InProgress
<1>4. QED BY <1>1, <1>2, <1>3

(* The frames of a task and the frame under way have their types.           *)
LEMMA IssuedType ==
  ASSUME TypeOK, NEW t
  PROVE  Issued(t) \subseteq FrameType /\ \A f \in Issued(t) : f.num \in Nat /\ f.to \in Int
BY DEF TypeOK, Issued, FrameType

LEMMA NumberedStep ==
  TypeOK /\ Waits /\ FrameInv /\ QueuedInv /\ NumberedInv /\ [Next]_vars => NumberedInv'
<1> SUFFICES ASSUME TypeOK, Waits, FrameInv, QueuedInv, NumberedInv, [Next]_vars,
                    NEW t \in TaskId, InProgress(t)'
             PROVE  /\ \A f \in Issued(t)' : \/ f.num < task_progress'.executed_num
                                             \/ f.to = All /\ task_progress'.broadcast_state
                    /\ task_progress'.broadcast_state => IsListed'
  BY DEF NumberedInv
<1>1. IsListed' = (task_progress'.broadcast_type # 2 /\ task_progress'.execute_type # 0
                   /\ task_progress'.cmd_code # "strategy")
  BY DEF IsListed
<1>2. CASE Taken
  BY <1>2, TakenFacts
<1>3. CASE Making \/ Counting \/ UNCHANGED task_progress
  <2>1. InProgress(t) /\ task_progress \in TaskType
    BY <1>3, StillInProgress
  <2>2. /\ \A f \in Issued(t) : \/ f.num < task_progress.executed_num
                                \/ f.to = All /\ task_progress.broadcast_state
        /\ task_progress.broadcast_state => IsListed
    BY <2>1 DEF NumberedInv
  <2>3. task_progress.executed_num \in Nat /\ task_progress.broadcast_state \in BOOLEAN
    BY <2>1, Fields
  <2>4. CASE Making
    <3>1. SameTask /\ frame'.num = task_progress.executed_num
      BY <2>4 DEF Making, Made, Frame
    <3>2. IsListed' = IsListed
      BY <1>1, <3>1 DEF SameTask, IsListed
    <3>3. \A f \in Issued(t)' : f \in Issued(t) \/ f = frame'
      BY IssuedCases
    <3>4. \A f \in Issued(t) : f.num \in Nat
      BY IssuedType
    <3>5. CASE /\ IsListed /\ frame'.to = All
               /\ ~task_progress.broadcast_state /\ task_progress'.broadcast_state
               /\ task_progress'.executed_num = task_progress.executed_num
      BY <2>2, <3>2, <3>3, <3>5
    <3>6. CASE /\ task_progress.broadcast_state => task_progress'.broadcast_state
               /\ task_progress'.executed_num = task_progress.executed_num + 1
               /\ IsListed \/ task_progress'.broadcast_state = task_progress.broadcast_state
      BY <2>2, <2>3, <3>1, <3>2, <3>3, <3>4, <3>6
    <3>7. QED BY <2>4, <3>5, <3>6, MadeCases
  <2>5. CASE ~Making
    <3>1. Issued(t)' = Issued(t)
      BY <2>5, IssuedCases
    <3>2. /\ task_progress'.executed_num = task_progress.executed_num
          /\ task_progress'.broadcast_state = task_progress.broadcast_state
          /\ IsListed' = IsListed
      <4>1. CASE Counting
        BY <1>1, <4>1, CountingFacts DEF SameTask, IsListed
      <4>2. CASE UNCHANGED task_progress
        BY <1>1, <4>2 DEF IsListed
      <4>3. QED BY <1>3, <2>5, <4>1, <4>2
    <3>3. QED BY <2>2, <3>1, <3>2
  <2>6. QED BY <2>4, <2>5
<1>4. CASE task_progress' = None
  BY <1>4 DEF InProgress
<1>5. QED BY <1>2, <1>3, <1>4, ProgressCases

(* A frame that is made is none of those before.                            *)
LEMMA FreshFrame ==
  ASSUME TypeOK, Waits, NumberedInv, Making, NEW t \in TaskId, InProgress(t)
  PROVE  frame' \notin Issued(t)
<1> SUFFICES ASSUME frame' \in Issued(t) PROVE FALSE
  OBVIOUS
<1>1. task_progress \in TaskType /\ frame'.num = task_progress.executed_num
  BY DEF Making, AtFrame, TypeOK, Made, Frame
<1>2. task_progress.executed_num \in Nat
  BY <1>1, Fields
<1>3. frame'.to = All /\ task_progress.broadcast_state /\ IsListed
  BY <1>1, <1>2 DEF NumberedInv
<1>4. CASE ToNextLamp /\ frame'.to = NextLamp
  BY <1>3, <1>4, NextLampFacts DEF ToNextLamp
<1>5. QED BY <1>3, <1>4, MadeCases

LEMMA TallyStep ==
  TypeOK /\ Waits /\ FrameInv /\ IssuedInv /\ [Next]_vars => TallyInv'
<1> SUFFICES ASSUME TypeOK, Waits, FrameInv, IssuedInv, [Next]_vars,
                    NEW t \in TaskId, InProgress(t)', task_progress'.execute_type \in {1, 2}
             PROVE  task_progress'.success_num + task_progress'.failed_num
                      + (IF Busy' THEN 1 ELSE 0) = Cardinality(Issued(t)')
  BY DEF TallyInv
<1> DEFINE Sum == task_progress.success_num + task_progress.failed_num
<1>1. CASE Taken
  BY <1>1, TakenFacts, FS_EmptySet DEF IssuedInv
<1>2. CASE Making \/ Counting \/ (UNCHANGED task_progress /\ (Busy' <=> Busy))
  <2>1. InProgress(t) /\ task_progress \in TaskType
    BY <1>2, StillInProgress
  <2>2. task_progress'.execute_type = task_progress.execute_type
    BY <1>2, CountingFacts DEF Making, SameTask
  <2>3. Sum + (IF Busy THEN 1 ELSE 0) = Cardinality(Issued(t))
    BY <2>1, <2>2 DEF IssuedInv, TallyInv
  <2>4. IsFiniteSet(Issued(t)) /\ Cardinality(Issued(t)) \in Nat
    BY IssuedFinite DEF IssuedInv
  <2>5. task_progress.success_num \in Nat /\ task_progress.failed_num \in Nat
    BY <2>1, Fields
  <2>6. CASE Making
    <3>1. Issued(t)' = Issued(t) \cup {frame'}
      <4>1. t = task_progress.id
        BY <2>1 DEF InProgress
      <4>2. PICK to \in Int : Made(to, task_progress')
        BY <2>6 DEF Making
      <4>3. frame'.task = t /\ frame' # None /\ sent' = sent /\ frame = None
        BY <2>6, <4>1, <4>2, FrameStep
        DEF Making, AtFrame, Made, Frame, FrameInv, Busy, history
      <4>4. QED BY <4>3 DEF Issued
    <3>2. frame' \notin Issued(t)
      BY <2>1, <2>6, FreshFrame DEF IssuedInv
    <3>3. Cardinality(Issued(t)') = Cardinality(Issued(t)) + 1
      BY <2>4, <3>1, <3>2, FS_AddElement
    <3>4. task_progress'.success_num = task_progress.success_num
          /\ task_progress'.failed_num = task_progress.failed_num
      BY <2>2, <2>6, MadeCases
    <3>5. ~Busy /\ Busy'
      BY <2>6 DEF Making, AtFrame, Made, Busy
    <3>6. QED BY <2>3, <2>5, <3>3, <3>4, <3>5
  <2>7. CASE ~Making
    <3>1. Issued(t)' = Issued(t)
      BY <2>7, IssuedCases
    <3>2. CASE Counting
      <4>1. Busy /\ ~Busy'
        BY <3>2 DEF Counting, Busy
      <4>2. Sum' = Sum + 1
        BY <2>2, <3>2, CountingFacts
      <4>3. QED BY <2>3, <2>5, <3>1, <4>1, <4>2
    <3>3. CASE UNCHANGED task_progress /\ (Busy' <=> Busy)
      BY <2>3, <3>1, <3>3
    <3>4. QED BY <1>2, <2>7, <3>2, <3>3
  <2>8. QED BY <2>6, <2>7
<1>3. CASE task_progress' = None
  BY <1>3 DEF InProgress
<1>4. QED BY <1>1, <1>2, <1>3, ProgressCases

LEMMA IssuedStep ==
  TypeOK /\ Waits /\ FrameInv /\ IInv /\ IssuedInv /\ [Next]_vars => IssuedInv'
<1> SUFFICES ASSUME TypeOK, Waits, FrameInv, IInv, IssuedInv, [Next]_vars PROVE IssuedInv'
  OBVIOUS
<1>1. IsFiniteSet(sent')
  BY SentCases, FS_AddElement DEF IssuedInv
<1>2. QED BY <1>1, QueuedStep, NumberedStep, TallyStep DEF IssuedInv

LEMMA IssuedInit == Init => IssuedInv
<1> SUFFICES ASSUME Init PROVE IssuedInv
  OBVIOUS
<1>1. toPlc = << >> /\ sent = {} /\ task_progress = None
  BY DEF Init
<1>2. QED BY <1>1, FS_EmptySet DEF IssuedInv, QueuedInv, NumberedInv, TallyInv, InProgress

-----------------------------------------------------------------------------
(* A walk: a command to all lamps one by one, the list staying as it was.   *)
Walk(p) == /\ p.broadcast_type = 0 /\ p.execute_type # 0
           /\ p.cmd_code \in {"adjust", "query"} /\ p.id \notin changed

(* The lamps of the list before a place of it.                              *)
Before(n) == {l \in list : l < n}

(* The walk has addressed the lamps before its place, each by one frame, as *)
(* many as it has counted.                                                  *)
Walked(t) ==
  /\ task_progress.execute_total_num = Cardinality(list)
  /\ {f.to : f \in Issued(t)} \ {All} = Before(task_progress.executed_index)
  /\ \A f, g \in Issued(t) : f.to # All /\ f.to = g.to => f = g
  /\ task_progress.executed_num = Cardinality(Before(task_progress.executed_index))

WalkInv ==
  /\ changed \subseteq 1 .. made
  /\ \A i \in DOMAIN toPlc :
       Walk(toPlc[i]) => toPlc[i].execute_total_num = Cardinality(list)
  /\ \A t \in TaskId : InProgress(t) /\ Walk(task_progress) => Walked(t)

(* A change of the list makes an end of all walks that were made before.    *)
LEMMA ChangeCases ==
  ASSUME TypeOK, Waits, [Next]_vars
  PROVE  \/ UNCHANGED <<list, changed>>
         \/ /\ changed' = 1 .. made
            /\ UNCHANGED <<toPlc, task_progress, frame, pc, sent, made, freed, fromPlc>>
<1> USE DEF queues, tasks, line, bounds, history
<1>1. CASE ChangeList
  BY <1>1 DEF ChangeList
<1>2. CASE Request \/ LampReport \/ TakeNotice \/ Deliver \/ UNCHANGED vars
  BY <1>2 DEF Request, LampReport, TakeNotice, Deliver, vars
<1>3. ASSUME NEW state, FirmwareCommand(state) PROVE UNCHANGED <<list, changed>>
  BY <1>3 DEF FirmwareCommand
<1>4. CASE TakeTask \/ NoCommand \/ IgnoreCommand \/ Stop \/ Suspend \/ Analyse
  BY <1>4 DEF TakeTask, NoCommand, IgnoreCommand, Stop, Suspend, Analyse
<1>5. CASE MakeFrame
  <2>1. CASE Idle
    BY <2>1 DEF Idle
  <2>2. CASE Finish
    BY <2>2 DEF Finish
  <2>3. CASE Making
    BY <2>3 DEF Making, Made
  <2>4. QED BY <1>5, <2>1, <2>2, <2>3, MakeCases
<1>6. CASE Transmit \/ BroadcastDone \/ Answered \/ Expire
  BY <1>6 DEF Transmit, BroadcastDone, Answered, Expire, Settled
<1>7. QED
  BY <1>1, <1>2, <1>3, <1>4, <1>5, <1>6 DEF Next, Environment, vTaskPLC, HardFault_Handler

(* The tasks in the queue and in progress were made.                        *)
LEMMA MadeBefore ==
  ASSUME TypeOK, IInv
  PROVE  /\ \A t \in TaskId : InProgress(t) \/ freed[t] = 1 => t \in 1 .. made
         /\ \A i \in DOMAIN toPlc : toPlc[i].id \in TaskId /\ toPlc[i].id \in 1 .. made
<1>1. made \in Nat /\ \A t \in TaskId : t \in Nat /\ t >= 1
  BY Limits DEF TypeOK, TaskId
<1>2. ASSUME NEW t \in TaskId, InProgress(t) \/ freed[t] = 1 PROVE t \in 1 .. made
  <2>1. t > made => ~InProgress(t) /\ freed[t] = 0
    BY Zenon DEF IInv, OnePlace
  <2>2. QED BY <1>1, <1>2, <2>1
<1>3. ASSUME NEW i \in DOMAIN toPlc PROVE toPlc[i].id \in TaskId /\ toPlc[i].id \in 1 .. made
  <2>1. toPlc[i] \in TaskType
    BY DEF TypeOK
  <2>2. toPlc[i].id \in TaskId /\ toPlc[i].id <= made
    BY <2>1, Fields DEF IInv, QueueInOrder
  <2>3. QED BY <1>1, <2>2
<1>4. QED BY <1>2, <1>3

(* A walk's task asks for one frame for each lamp configured.               *)
LEMMA NewWalk ==
  ASSUME NEW t, NEW r, NewTask(t, r).broadcast_type = 0, NewTask(t, r).execute_type # 0,
         NewTask(t, r).cmd_code \in {"adjust", "query"}
  PROVE  NewTask(t, r).execute_total_num = Cardinality(list)
<1>1. r.broadcast_type = 0 /\ r.execute_type # 0 /\ r.cmd_code \in {"adjust", "query"}
      /\ NewTask(t, r).execute_total_num = execute_total_num(r)
  BY DEF NewTask
<1>2. execute_total_num(r) = dev_num(r) /\ dev_num(r) = Cardinality(list)
  BY <1>1 DEF execute_total_num, dev_num
<1>3. QED BY <1>1, <1>2

LEMMA QueuedWalks ==
  ASSUME TypeOK, Waits, IInv, WalkInv, [Next]_vars, NEW i \in DOMAIN toPlc', Walk(toPlc[i])'
  PROVE  toPlc'[i].execute_total_num = Cardinality(list')
<1>1. /\ toPlc'[i].broadcast_type = 0 /\ toPlc'[i].execute_type # 0
      /\ toPlc'[i].cmd_code \in {"adjust", "query"} /\ toPlc'[i].id \notin changed'
  BY DEF Walk
<1>2. CASE changed' = 1 .. made /\ toPlc' = toPlc
  BY <1>1, <1>2, MadeBefore
<1>3. CASE UNCHANGED <<list, changed>>
  <2>1. CASE UNCHANGED toPlc
    BY <1>1, <1>3, <2>1 DEF WalkInv, Walk
  <2>2. ASSUME NEW r, toPlc' = Append(toPlc, NewTask(made', r))
        PROVE  toPlc'[i].execute_total_num = Cardinality(list')
    <3>1. (i \in DOMAIN toPlc /\ toPlc'[i] = toPlc[i]) \/ toPlc'[i] = NewTask(made', r)
      BY <2>2, QueueElements
    <3>2. CASE i \in DOMAIN toPlc /\ toPlc'[i] = toPlc[i]
      BY <1>1, <1>3, <3>2 DEF WalkInv, Walk
    <3>3. CASE toPlc'[i] = NewTask(made', r)
      <4>1. \A t : /\ NewTask(t, r).broadcast_type = 0 /\ NewTask(t, r).execute_type # 0
                   /\ NewTask(t, r).cmd_code \in {"adjust", "query"}
                   => NewTask(t, r).execute_total_num = Cardinality(list)
        BY NewWalk
      <4>2. QED BY <1>1, <1>3, <3>3, <4>1
    <3>4. QED BY <3>1, <3>2, <3>3
  <2>3. CASE toPlc # << >> /\ toPlc' = Tail(toPlc)
    <3>1. i + 1 \in DOMAIN toPlc /\ toPlc'[i] = toPlc[i + 1]
      BY <2>3, QueueElements
    <3>2. QED BY <1>1, <1>3, <3>1 DEF WalkInv, Walk
  <2>4. QED BY <2>1, <2>2, <2>3, QueueCases
<1>4. QED BY <1>2, <1>3, ChangeCases

(* The lamps before a place of the list are finitely many.                  *)
LEMMA BeforeFinite ==
  ASSUME TypeOK, NEW n
  PROVE  /\ IsFiniteSet(list) /\ Cardinality(list) \in Nat
         /\ Before(n) \subseteq list /\ IsFiniteSet(Before(n)) /\ Cardinality(Before(n)) \in Nat
<1>1. IsFiniteSet(list) /\ Cardinality(list) \in Nat
  BY FiniteLamps DEF TypeOK
<1>2. Before(n) \in SUBSET list
  BY DEF Before
<1>3. QED BY <1>1, <1>2, FS_Subset, FS_CardinalityType

(* The addressees of some frames and one more.                              *)
LEMMA OneAddressee ==
  ASSUME NEW S, NEW x
  PROVE  {f.to : f \in S \cup {x}} = {f.to : f \in S} \cup {x.to}
OBVIOUS

(* The next frame of a walk is the broadcast before it, past a place with   *)
(* no lamp, or the first lamp from its place on.                            *)
LEMMA WalkMade ==
  ASSUME TypeOK, Waits, FrameInv, IInv, IssuedInv, WalkInv, Making,
         NEW t \in TaskId, InProgress(t), Walk(task_progress), Walked(t),
         UNCHANGED <<list, changed>>, Issued(t)' = Issued(t) \cup {frame'}
  PROVE  Walked(t)'
<1> DEFINE n == task_progress.executed_index
<1>1. task_progress \in TaskType /\ n \in Nat /\ task_progress.executed_num \in Nat
  BY Fields DEF Making, AtFrame, TypeOK
<1>2. task_progress'.execute_total_num = task_progress.execute_total_num
  BY DEF Making, SameTask
<1>3. IsListed /\ \A l : Eligible(l) <=> l \in list
  BY DEF Walk, IsListed, Eligible
<1>4. \A l \in list : l \in Lamp /\ l \in Nat
  BY DEF TypeOK, Lamp
<1>5. CASE /\ BroadcastFirst /\ frame'.to = All
           /\ task_progress'.executed_num = task_progress.executed_num
           /\ task_progress'.executed_index = n + 1
  <2>1. n \notin list
    BY <1>3, <1>5 DEF BroadcastFirst
  <2>2. Before(n + 1) = Before(n)
    BY <1>1, <1>4, <2>1 DEF Before
  <2>3. Before(task_progress.executed_index)' = Before(n)
    BY <1>5, <2>2 DEF Before
  <2>4. {f.to : f \in Issued(t)'} \ {All} = {f.to : f \in Issued(t)} \ {All}
    BY <1>5, OneAddressee
  <2>5. QED BY <1>2, <1>5, <2>3, <2>4 DEF Walked
<1>6. CASE /\ ToNextLamp /\ frame'.to = NextLamp
           /\ task_progress'.executed_num = task_progress.executed_num + 1
           /\ task_progress'.executed_index = NextLamp + 1
  <2> DEFINE m == NextLamp
  <2>1. /\ m \in Remaining /\ m \in Lamp /\ m # All /\ \A k \in Remaining : m <= k
    BY <1>6, NextLampFacts DEF ToNextLamp
  <2>2. m \in Nat /\ m \in list /\ m >= n /\ \A l \in list : l >= n => m <= l
    BY <1>3, <1>4, <2>1 DEF Remaining, Lamp
  <2> HIDE DEF m
  <2>3. Before(m + 1) = Before(n) \cup {m} /\ m \notin Before(n)
    <3>1. ASSUME NEW l \in list, l < m + 1 PROVE l < n \/ l = m
      BY <1>1, <1>4, <2>2, <3>1
    <3>2. ASSUME NEW l \in list, l < n PROVE l < m + 1
      BY <1>1, <1>4, <2>2, <3>2
    <3>3. m < m + 1 /\ ~(m < n)
      BY <1>1, <2>2
    <3>4. \A l \in list : l < m + 1 <=> l < n \/ l = m
      BY <3>1, <3>2, <3>3
    <3>5. QED BY <2>2, <3>3, <3>4 DEF Before
  <2>4. Before(task_progress.executed_index)' = Before(n) \cup {m}
    BY <1>6, <2>3 DEF Before, m
  <2>5. Cardinality(Before(n) \cup {m}) = Cardinality(Before(n)) + 1
    BY <2>3, BeforeFinite, FS_AddElement
  <2>6. {f.to : f \in Issued(t)'} \ {All} = Before(n) \cup {m}
    BY <1>6, <2>1, OneAddressee DEF Walked, m
  <2>7. \A f, g \in Issued(t)' : f.to # All /\ f.to = g.to => f = g
    <3>1. \A f \in Issued(t) : f.to # m
      BY <2>1, <2>3 DEF Walked
    <3>2. QED BY <1>6, <3>1 DEF Walked, m
  <2>8. QED BY <1>2, <1>6, <2>4, <2>5, <2>6, <2>7 DEF Walked
<1>7. QED BY <1>3, <1>5, <1>6, MadeCases

LEMMA WalkStep ==
  TypeOK /\ Waits /\ FrameInv /\ IInv /\ IssuedInv /\ WalkInv /\ [Next]_vars => WalkInv'
<1> SUFFICES ASSUME TypeOK, Waits, FrameInv, IInv, IssuedInv, WalkInv, [Next]_vars PROVE WalkInv'
  OBVIOUS
<1>1. changed' \subseteq 1 .. made'
  <2>1. made' \in Nat /\ made \in Nat /\ made' >= made
    BY QueueCases, Limits DEF TypeOK
  <2>2. changed \subseteq 1 .. made
    BY DEF WalkInv
  <2>3. 1 .. made \subseteq 1 .. made'
    BY <2>1
  <2>4. changed' = changed \/ changed' = 1 .. made
    BY ChangeCases
  <2>5. QED BY <2>2, <2>3, <2>4
<1>2. ASSUME NEW t \in TaskId, InProgress(t)', Walk(task_progress)' PROVE Walked(t)'
  <2>1. /\ task_progress'.broadcast_type = 0 /\ task_progress'.execute_type # 0
        /\ task_progress'.cmd_code \in {"adjust", "query"} /\ task_progress'.id \notin changed'
        /\ task_progress'.id = t
    BY <1>2 DEF Walk, InProgress
  <2>2. CASE changed' = 1 .. made /\ task_progress' = task_progress
    <3>1. InProgress(t)
      BY <1>2, <2>2 DEF InProgress
    <3>2. QED BY <2>1, <2>2, <3>1, MadeBefore
  <2>3. CASE UNCHANGED <<list, changed>>
    <3>1. CASE Taken
      <4>1. /\ 1 \in DOMAIN toPlc /\ task_progress' = toPlc[1] /\ Issued(t)' = {}
            /\ task_progress'.executed_index = 0 /\ task_progress'.executed_num = 0
        BY <1>2, <3>1, QueueElements, TakenFacts DEF Taken, IssuedInv
      <4>2. task_progress'.execute_total_num = Cardinality(list)
        BY <2>1, <2>3, <4>1 DEF WalkInv, Walk
      <4>3. Before(task_progress.executed_index)' = {}
        <5>1. \A l \in list : ~(l < 0)
          BY DEF TypeOK, Lamp
        <5>2. QED BY <2>3, <4>1, <5>1 DEF Before
      <4>4. QED BY <2>3, <4>1, <4>2, <4>3, FS_EmptySet DEF Walked
    <3>2. CASE Making \/ Counting \/ UNCHANGED task_progress
      <4>1. InProgress(t) /\ task_progress \in TaskType
        BY <1>2, <3>2, StillInProgress
      <4>2. SameTask \/ UNCHANGED task_progress
        BY <3>2, CountingFacts DEF Making
      <4>3. Walk(task_progress) /\ Walked(t)
        BY <2>1, <2>3, <4>1, <4>2 DEF SameTask, Walk, WalkInv
      <4>4. CASE Issued(t)' = Issued(t)
        <5>1. CASE Making
          <6>1. frame' \in Issued(t)'
            <7>1. t = task_progress.id
              BY <4>1 DEF InProgress
            <7>2. frame'.task = t /\ frame' # None
              BY <5>1, <7>1, FrameStep DEF Making, Made, Frame, FrameInv, Busy
            <7>3. QED BY <7>2 DEF Issued
          <6>2. frame' \notin Issued(t)
            BY <4>1, <5>1, FreshFrame DEF IssuedInv
          <6>3. QED BY <4>4, <6>1, <6>2
        <5>2. CASE ~Making
          <6>1. /\ task_progress'.executed_num = task_progress.executed_num
                /\ task_progress'.executed_index = task_progress.executed_index
                /\ task_progress'.execute_total_num = task_progress.execute_total_num
            BY <3>2, <5>2, CountingFacts DEF SameTask
          <6>2. Before(task_progress.executed_index)' = Before(task_progress.executed_index)
            BY <2>3, <6>1 DEF Before
          <6>3. QED BY <2>3, <4>3, <4>4, <6>1, <6>2 DEF Walked
        <5>3. QED BY <5>1, <5>2
      <4>5. CASE Making /\ Issued(t)' = Issued(t) \cup {frame'}
        BY <2>3, <4>1, <4>3, <4>5, WalkMade
      <4>6. QED BY <4>4, <4>5, IssuedCases
    <3>3. CASE task_progress' = None
      BY <1>2, <3>3 DEF InProgress
    <3>4. QED BY <3>1, <3>2, <3>3, ProgressCases
  <2>4. QED BY <2>2, <2>3, ChangeCases
<1>3. \A i \in DOMAIN toPlc' : Walk(toPlc[i])' => toPlc'[i].execute_total_num = Cardinality(list')
  BY QueuedWalks
<1>4. QED BY <1>1, <1>2, <1>3 DEF WalkInv

LEMMA WalkInit == Init => WalkInv
BY DEF Init, WalkInv, InProgress

-----------------------------------------------------------------------------
(* What a notice of the end of a task says stays true: the task is freed,   *)
(* so no frame of it is transmitted any more.                               *)
Told(task) ==
  /\ freed[task.id] = 1
  /\ task.execute_type \in {1, 2} =>
       task.success_num + task.failed_num = Cardinality(FramesOf(task.id))
  /\ Walk(task) => /\ Addressed(task.id) = list
                   /\ Cardinality(ToLamps(task.id)) = Cardinality(list)

NoticeInv ==
  \A i \in DOMAIN fromPlc : fromPlc[i].state = "finished" => Told(fromPlc[i].task)

(* A freed task is nowhere.                                                 *)
LEMMA FreedIsNowhere ==
  ASSUME IInv, NEW t \in TaskId, freed[t] = 1
  PROVE  ~(t > made) /\ ~InProgress(t) /\ ~InBackup(t)
<1>1. \/ freed[t] = 0
      \/ ~(t > made) /\ ~InProgress(t) /\ ~InBackup(t)
  BY Zenon DEF IInv, OnePlace
<1>2. freed[t] # 0
  BY SMT
<1>3. QED BY <1>1, <1>2, Zenon

(* A freed task stays freed.                                                *)
LEMMA FreedKept ==
  ASSUME TypeOK, Waits, IInv, [Next]_vars, NEW t \in TaskId, freed[t] = 1
  PROVE  freed'[t] = 1
<1> USE DEF queues, tasks, line, bounds, history
<1>1. ~(t > made) /\ ~InProgress(t) /\ ~InBackup(t)
  BY FreedIsNowhere
<1>2. freed \in [TaskId -> Nat] /\ made \in Nat /\ t \in Nat
  BY Limits DEF TypeOK, TaskId
<1>3. CASE freed' = freed
  BY <1>3
<1>4. CASE Request
  <2>1. t # made'
    BY <1>1, <1>2, <1>4 DEF Request
  <2>2. CASE Len(toPlc) < ToPlcLen
    BY <1>4, <2>2 DEF Request
  <2>3. CASE ~(Len(toPlc) < ToPlcLen)
    BY <1>2, <1>4, <2>1, <2>3 DEF Request
  <2>4. QED BY <2>2, <2>3
<1>5. CASE FINISHED /\ task_progress # None
  <2>1. t # task_progress.id
    BY <1>1, <1>5 DEF InProgress
  <2>2. freed' = [freed EXCEPT ![task_progress.id] = freed[task_progress.id] + 1]
    BY <1>5 DEF FINISHED, DeleteTask
  <2>3. QED BY <1>2, <2>1, <2>2
<1>6. CASE Suspend
  <2>1. CASE task_backup # None
    <3>1. t # task_backup.id
      BY <1>1, <2>1 DEF InBackup
    <3>2. freed' = [freed EXCEPT ![task_backup.id] = freed[task_backup.id] + 1]
      BY <1>6, <2>1 DEF Suspend, DeleteTask
    <3>3. QED BY <1>2, <3>1, <3>2
  <2>2. CASE task_backup = None
    BY <1>6, <2>2 DEF Suspend
  <2>3. QED BY <2>1, <2>2
<1>7. CASE ChangeList \/ LampReport \/ TakeNotice \/ Deliver \/ UNCHANGED vars
  BY <1>3, <1>7 DEF ChangeList, LampReport, TakeNotice, Deliver, vars
<1>8. ASSUME NEW state, FirmwareCommand(state) PROVE freed' = freed
  BY <1>8 DEF FirmwareCommand
<1>9. CASE TakeTask \/ NoCommand \/ IgnoreCommand \/ Analyse \/ Transmit
  BY <1>3, <1>9 DEF TakeTask, NoCommand, IgnoreCommand, Analyse, Transmit
<1>10. CASE BroadcastDone \/ Answered \/ Expire
  BY <1>3, <1>10 DEF BroadcastDone, Answered, Expire, Settled
<1>11. CASE Stop
  BY <1>5, <1>11 DEF Stop, Commanded, Updating
<1>12. CASE MakeFrame
  <2>1. CASE Idle
    BY <1>3, <2>1 DEF Idle
  <2>2. CASE AtFrame /\ Finish
    BY <1>5, <2>2 DEF AtFrame, Finish
  <2>3. CASE Making
    BY <1>3, <2>3 DEF Making, Made
  <2>4. QED BY <1>12, <2>1, <2>2, <2>3, MakeCases
<1>13. QED
  BY <1>3, <1>4, <1>6, <1>7, <1>8, <1>9, <1>10, <1>11, <1>12
  DEF Next, Environment, vTaskPLC, HardFault_Handler

(* No frame of a freed task is transmitted.                                 *)
LEMMA FramesKept ==
  ASSUME TypeOK, Waits, FrameInv, IInv, [Next]_vars, NEW t \in TaskId, freed[t] = 1
  PROVE  FramesOf(t)' = FramesOf(t)
<1>1. ~InProgress(t)
  BY FreedIsNowhere
<1>2. CASE sent' = sent
  BY <1>2 DEF FramesOf
<1>3. CASE sent' = sent \cup {frame} /\ task_progress # None /\ frame.task = task_progress.id
  BY <1>1, <1>3 DEF FramesOf, InProgress
<1>4. QED BY <1>2, <1>3, SentCases

LEMMA ToldKept ==
  ASSUME TypeOK, Waits, FrameInv, IInv, [Next]_vars, NEW task \in TaskType, Told(task)
  PROVE  Told(task)'
<1>1. task.id \in TaskId /\ freed[task.id] = 1
  BY Fields DEF Told
<1>2. freed'[task.id] = 1
  BY <1>1, FreedKept
<1>3. FramesOf(task.id)' = FramesOf(task.id)
  BY <1>1, FramesKept
<1>4. ASSUME Walk(task)'
      PROVE  Addressed(task.id)' = list' /\ Cardinality(ToLamps(task.id))' = Cardinality(list')
  <2>1. task.id \in 1 .. made
    BY <1>1, MadeBefore
  <2>2. UNCHANGED <<list, changed>>
    BY <1>4, <2>1, ChangeCases DEF Walk
  <2>3. Walk(task)
    BY <1>4, <2>2 DEF Walk
  <2>4. QED BY <1>3, <2>2, <2>3 DEF Told, Addressed, ToLamps
<1>5. QED BY <1>2, <1>3, <1>4 DEF Told

(* A notice that is new is the last.                                        *)
LEMMA NotifyElements ==
  ASSUME TypeOK, NEW task, NEW state, Notify(task, state), NEW i \in DOMAIN fromPlc'
  PROVE  (\E j \in DOMAIN fromPlc : fromPlc'[i] = fromPlc[j])
         \/ fromPlc'[i] = [task |-> task, state |-> state]
<1>1. fromPlc \in Seq(Notice)
  BY DEF TypeOK, Notice
<1>2. QED BY <1>1 DEF Notify

(* A task ends when the server stops it, or when it has no frame left.      *)
Ending == task_progress # None /\ FINISHED /\ (Stop \/ (MakeFrame /\ AtFrame /\ Finish))

LEMMA NoticeCases ==
  ASSUME TypeOK, Waits, [Next]_vars, NEW i \in DOMAIN fromPlc', fromPlc'[i].state = "finished"
  PROVE  (\E j \in DOMAIN fromPlc : fromPlc'[i] = fromPlc[j])
         \/ (Ending /\ fromPlc'[i] = [task |-> task_progress, state |-> "finished"])
<1> USE DEF queues, tasks, line, bounds, history
<1>1. CASE UNCHANGED fromPlc
  BY <1>1
<1>2. ASSUME NEW task, Notify(task, "start")
      PROVE  \E j \in DOMAIN fromPlc : fromPlc'[i] = fromPlc[j]
  BY <1>2, NotifyElements
<1>3. CASE Ending
  <2>1. Notify(task_progress, "finished")
    BY <1>3 DEF Ending, FINISHED
  <2>2. PICK p : p = task_progress
    OBVIOUS
  <2>3. (\E j \in DOMAIN fromPlc : fromPlc'[i] = fromPlc[j])
        \/ fromPlc'[i] = [task |-> p, state |-> "finished"]
    BY <2>1, <2>2, NotifyElements
  <2>4. QED BY <1>3, <2>2, <2>3
<1>4. CASE TakeNotice
  <2>1. fromPlc \in Seq(Notice) /\ fromPlc # << >> /\ fromPlc' = Tail(fromPlc)
    BY <1>4 DEF TypeOK, Notice, TakeNotice
  <2>2. i + 1 \in DOMAIN fromPlc /\ fromPlc'[i] = fromPlc[i + 1]
    BY <2>1
  <2>3. QED BY <2>2
<1>5. CASE Request \/ ChangeList \/ LampReport \/ Deliver \/ UNCHANGED vars
  BY <1>1, <1>5 DEF Request, ChangeList, LampReport, Deliver, vars
<1>6. ASSUME NEW state, FirmwareCommand(state) PROVE UNCHANGED fromPlc
  BY <1>6 DEF FirmwareCommand
<1>7. CASE TakeTask
  <2>1. CASE UNCHANGED fromPlc
    BY <1>1, <2>1
  <2>2. CASE Notify(Head(toPlc), "start")
    BY <1>2, <2>2
  <2>3. QED BY <1>7, <2>1, <2>2 DEF TakeTask
<1>8. CASE NoCommand \/ IgnoreCommand \/ Suspend \/ Analyse \/ Transmit
  BY <1>1, <1>8 DEF NoCommand, IgnoreCommand, Suspend, Analyse, Transmit
<1>9. ASSUME NEW success, Settled(success)
      PROVE  \E j \in DOMAIN fromPlc : fromPlc'[i] = fromPlc[j]
  BY <1>2, <1>9 DEF Settled
<1>10. CASE BroadcastDone \/ Answered
  BY <1>9, <1>10 DEF BroadcastDone, Answered
<1>11. CASE Expire
  BY <1>1, <1>9, <1>11 DEF Expire
<1>12. CASE Stop
  BY <1>3, <1>12 DEF Ending, Stop, Commanded, Updating
<1>13. CASE MakeFrame
  <2>1. CASE Idle
    BY <1>1, <2>1 DEF Idle
  <2>2. CASE AtFrame /\ Finish
    BY <1>3, <1>13, <2>2 DEF AtFrame, Finish, Ending
  <2>3. CASE Making
    BY <1>1, <2>3 DEF Making, Made
  <2>4. QED BY <1>13, <2>1, <2>2, <2>3, MakeCases
<1>14. QED
  BY <1>1, <1>4, <1>5, <1>6, <1>7, <1>8, <1>10, <1>11, <1>12, <1>13
  DEF Next, Environment, vTaskPLC, HardFault_Handler

(* A walk that has no frame left has addressed the whole list.              *)
LEMMA WalkEnded ==
  ASSUME TypeOK, MakeFrame, AtFrame, Finish, NEW t \in TaskId, Walk(task_progress), Walked(t)
  PROVE  {f.to : f \in Issued(t)} \ {All} = list
<1> DEFINE n == task_progress.executed_index
<1>1. task_progress \in TaskType /\ n \in Nat /\ task_progress.executed_num \in Nat
  BY Fields DEF AtFrame, TypeOK
<1>2. pc' = "analyse"
  BY DEF Finish
<1>3. ListEnd
  BY <1>2 DEF Walk, AtFrame, MakeFrame, Idle, Broadcast, BroadcastEnd, IsBroadcast, BroadcastFirst,
              ToNextLamp, ToNamedLamp, NamedEnd, IsNamed, SendStrategy, StrategyEnd, Made
<1>4. \A l : Eligible(l) <=> l \in list
  BY DEF Walk, Eligible
<1>5. Before(n) = list
  <2>1. CASE Remaining = {}
    <3>1. \A l \in list : l \in Lamp /\ l \in Nat
      BY DEF TypeOK, Lamp
    <3>2. \A l \in list : ~(l >= n)
      BY <1>4, <2>1, <3>1 DEF Remaining
    <3>3. \A l \in list : l < n
      BY <1>1, <3>1, <3>2
    <3>4. QED BY <3>3 DEF Before
  <2>2. CASE ~RoundsLeft
    <3>1. ~(Cardinality(Before(n)) < Cardinality(list))
      BY <2>2 DEF RoundsLeft, Walked
    <3>2. IsFiniteSet(list) /\ Before(n) \in SUBSET list /\ Cardinality(list) \in Nat
          /\ Cardinality(Before(n)) \in Nat
      BY BeforeFinite
    <3>3. Cardinality(Before(n)) <= Cardinality(list)
      BY <3>2, FS_Subset
    <3>4. Cardinality(list) = Cardinality(Before(n))
      BY <3>1, <3>2, <3>3
    <3>5. QED BY <3>2, <3>4, FS_Subset
  <2>3. QED BY <1>3, <2>1, <2>2 DEF ListEnd
<1>6. QED BY <1>5 DEF Walked

(* The notice of the end tells the truth when it is made.                   *)
LEMMA ToldAtEnd ==
  ASSUME TypeOK, FrameInv, IInv, IssuedInv, WalkInv, Ending,
         NEW task \in TaskType, task = task_progress
  PROVE  Told(task)'
<1>1. PICK t \in TaskId : t = task.id
  BY Fields
<1>2. InProgress(t) /\ freed[t] = 0
  <2>1. InProgress(t)
    BY <1>1, Null DEF InProgress
  <2>2. QED BY <2>1, Zenon DEF IInv, OnePlace
<1>3. freed'[t] = 1
  BY <1>1, <1>2 DEF Ending, FINISHED, DeleteTask, TypeOK
<1>4. frame = None /\ ~Busy
  BY DEF Ending, Stop, Commanded, AtFrame, FrameInv, Busy
<1>5. Issued(t) = FramesOf(t)
  BY <1>4 DEF Issued, FramesOf
<1>6. UNCHANGED <<sent, list, changed>>
  BY DEF Ending, Stop, Finish
<1>7. FramesOf(t)' = FramesOf(t)
  BY <1>6 DEF FramesOf
<1>8. task.success_num \in Nat /\ task.failed_num \in Nat
  BY Fields
<1>9. task.execute_type \in {1, 2} =>
        task.success_num + task.failed_num = Cardinality(FramesOf(t)')
  BY <1>2, <1>4, <1>5, <1>7, <1>8 DEF IssuedInv, TallyInv
<1>10. ASSUME Walk(task)
       PROVE  Addressed(t) = list /\ Cardinality(ToLamps(t)) = Cardinality(list)
  <2>1. Walked(t)
    BY <1>2, <1>10 DEF WalkInv
  <2>2. MakeFrame /\ AtFrame /\ Finish
    BY <1>10 DEF Ending, Stop, Commanded, Updating, Walk
  <2>3. Addressed(t) = list
    BY <1>5, <1>10, <2>1, <2>2, WalkEnded DEF Addressed
  <2> DEFINE to == [f \in ToLamps(t) |-> f.to]
  <2>4. to \in Bijection(ToLamps(t), list)
    <3>1. \A f, g \in ToLamps(t) : f.to = g.to => f = g
      BY <1>5, <2>1 DEF Walked, ToLamps
    <3>2. \A f \in ToLamps(t) : f.to \in list
      BY <2>3 DEF Addressed, ToLamps
    <3>3. \A l \in list : \E f \in ToLamps(t) : f.to = l
      BY <2>3 DEF Addressed, ToLamps
    <3>4. QED BY <3>1, <3>2, <3>3 DEF Bijection, Injection, Surjection, IsInjective
  <2>5. IsFiniteSet(ToLamps(t))
    <3>1. ToLamps(t) \in SUBSET sent
      BY DEF ToLamps, FramesOf
    <3>2. QED BY <3>1, FS_Subset DEF IssuedInv
  <2>6. Cardinality(ToLamps(t)) = Cardinality(list)
    BY <2>4, <2>5, FS_Bijection DEF ExistsBijection
  <2>7. QED BY <2>3, <2>6
<1>11. Walk(task)' => Addressed(t)' = list' /\ Cardinality(ToLamps(t))' = Cardinality(list')
  BY <1>6, <1>7, <1>10 DEF Walk, Addressed, ToLamps
<1>12. QED BY <1>1, <1>3, <1>9, <1>11 DEF Told

LEMMA NoticeStep ==
  TypeOK /\ Waits /\ FrameInv /\ IInv /\ IssuedInv /\ WalkInv /\ NoticeInv /\ [Next]_vars
    => NoticeInv'
<1> SUFFICES ASSUME TypeOK, Waits, FrameInv, IInv, IssuedInv, WalkInv, NoticeInv, [Next]_vars,
                    NEW i \in DOMAIN fromPlc', fromPlc'[i].state = "finished"
             PROVE  Told(fromPlc[i].task)'
  BY DEF NoticeInv
<1>1. CASE \E j \in DOMAIN fromPlc : fromPlc'[i] = fromPlc[j]
  <2>1. PICK j \in DOMAIN fromPlc : fromPlc'[i] = fromPlc[j]
    BY <1>1
  <2>2. PICK task \in TaskType : task = fromPlc[j].task
    <3>1. fromPlc \in Seq(Notice)
      BY DEF TypeOK, Notice
    <3>2. fromPlc[j] \in Notice
      BY <3>1
    <3>3. QED BY <3>2 DEF Notice
  <2>3. Told(task)'
    BY <2>1, <2>2, ToldKept DEF NoticeInv
  <2>4. QED BY <2>1, <2>2, <2>3
<1>2. CASE Ending /\ fromPlc'[i] = [task |-> task_progress, state |-> "finished"]
  <2>1. PICK task \in TaskType : task = task_progress
    BY <1>2 DEF Ending, TypeOK
  <2>2. Told(task)'
    BY <1>2, <2>1, ToldAtEnd
  <2>3. fromPlc'[i].task = task
    BY <1>2, <2>1
  <2>4. QED BY <2>2, <2>3
<1>3. QED BY <1>1, <1>2, NoticeCases

(* The whole invariant of the executor.                                     *)
FullInv == TypeOK /\ Waits /\ FrameInv /\ IInv /\ IssuedInv /\ WalkInv /\ NoticeInv

LEMMA FullInvariance == Spec => []FullInv
<1>1. Init => FullInv
  <2>1. Init => NoticeInv
    BY DEF Init, NoticeInv
  <2>2. QED BY <2>1, TypeInit, FrameInit, InvInit, IssuedInit, WalkInit DEF FullInv
<1>2. FullInv /\ [Next]_vars => FullInv'
  BY TypeNext, FrameStep, InvNext, IssuedStep, WalkStep, NoticeStep DEF FullInv
<1>3. QED BY <1>1, <1>2, PTL DEF Spec

(* For any tasks, lamps, losses and late answers, the successes and the     *)
(* failures the server is told at the end of a task executed lamp by lamp   *)
(* are its frames, each counted once.                                       *)
THEOREM NoticesAlwaysTell == Spec => []NoticesTell
<1>1. FullInv => NoticesTell
  BY DEF FullInv, NoticeInv, Told, NoticesTell
<1>2. QED BY <1>1, FullInvariance, PTL

(* A command to all lamps one by one has addressed each configured lamp     *)
(* with one frame when the server is told that it is finished, unless the   *)
(* list of lamps was changed meanwhile.                                     *)
THEOREM EachLampAddressedOnce == Spec => []EachLampOnce
<1>1. FullInv => EachLampOnce
  BY DEF FullInv, NoticeInv, Told, Walk, EachLampOnce
<1>2. QED BY <1>1, FullInvariance, PTL

-----------------------------------------------------------------------------
(* Commands to groups, but for the lamp strategies, which have addresses of *)
(* their own.                                                               *)
OfGroups(p) == p.broadcast_type = 1 /\ p.cmd_code # "strategy"

(* A frame of such a task is a broadcast, or for a lamp the task matches.   *)
ForGroups(f, groups) == f.to # All => f.to \in Lamp /\ InGroup(f.to, groups)

GroupsTold(task) ==
  OfGroups(task) => \A f \in FramesOf(task.id) : ForGroups(f, GroupsOf(task))

GroupInv ==
  /\ \A t \in TaskId : InProgress(t) /\ OfGroups(task_progress) =>
       \A f \in Issued(t) : ForGroups(f, GroupsOf(task_progress))
  /\ \A i \in DOMAIN fromPlc : fromPlc[i].state = "finished" => GroupsTold(fromPlc[i].task)

(* When the server is told that a command to groups is finished, it went to *)
(* no lamp but those InGroup matches: a lamp in one of the groups, or one   *)
(* with a free group slot if the command has one too.                       *)
GroupsAddressed ==
  \A i \in DOMAIN fromPlc :
    LET task == fromPlc[i].task
    IN fromPlc[i].state = "finished" /\ OfGroups(task)
       => \A l \in Addressed(task.id) : l \in Lamp /\ InGroup(l, GroupsOf(task))

(* A frame made of a command to groups is for a lamp its task matches.      *)
LEMMA GroupMade ==
  ASSUME TypeOK, Waits, Making, OfGroups(task_progress)
  PROVE  ForGroups(frame', GroupsOf(task_progress))
<1>1. CASE IsListed
  <2>1. CASE BroadcastFirst /\ frame'.to = All
    BY <2>1 DEF ForGroups
  <2>2. CASE ToNextLamp /\ frame'.to = NextLamp
    <3>1. NextLamp \in Remaining
      BY <2>2, NextLampFacts DEF ToNextLamp
    <3>2. NextLamp \in Lamp /\ InGroup(NextLamp, GroupsOf(task_progress))
      BY <3>1 DEF Remaining, Eligible, OfGroups
    <3>3. QED BY <2>2, <3>2 DEF ForGroups
  <2>3. QED BY <1>1, <2>1, <2>2, MadeCases
<1>2. CASE ~IsListed
  <2>1. task_progress.broadcast_type = 1 /\ task_progress.cmd_code # "strategy"
        /\ task_progress.execute_type = 0
    BY <1>2 DEF OfGroups, IsListed
  <2>2. pc' = "send"
    BY DEF Making, Made
  <2>3. Broadcast
    BY <1>2, <2>1, <2>2
    DEF Making, MakeFrame, AtFrame, Idle, BroadcastEnd, BroadcastFirst, ToNextLamp, ListEnd,
        ToNamedLamp, NamedEnd, IsNamed, SendStrategy, StrategyEnd, Finish
  <2>4. frame'.to = All
    BY <2>3 DEF Broadcast, Made, Frame
  <2>5. QED BY <2>4 DEF ForGroups
<1>3. QED BY <1>1, <1>2

(* The frames of the task in progress.                                      *)
LEMMA GroupFrames ==
  ASSUME TypeOK, Waits, FrameInv, IssuedInv, GroupInv, [Next]_vars,
         NEW t \in TaskId, InProgress(t)', OfGroups(task_progress)', NEW f \in Issued(t)'
  PROVE  ForGroups(f, GroupsOf(task_progress'))
<1>1. CASE Taken
  BY <1>1, TakenFacts DEF IssuedInv
<1>2. CASE Making \/ Counting \/ UNCHANGED task_progress
  <2>1. InProgress(t) /\ task_progress \in TaskType
    BY <1>2, StillInProgress
  <2>2. SameTask \/ UNCHANGED task_progress
    BY <1>2, CountingFacts DEF Making
  <2>3. OfGroups(task_progress) /\ GroupsOf(task_progress') = GroupsOf(task_progress)
    BY <2>2 DEF SameTask, OfGroups, GroupsOf
  <2>4. CASE f \in Issued(t)
    BY <2>1, <2>3, <2>4 DEF GroupInv
  <2>5. CASE Making /\ f = frame'
    BY <2>3, <2>5, GroupMade
  <2>6. QED BY <2>4, <2>5, IssuedCases
<1>3. CASE task_progress' = None
  BY <1>3 DEF InProgress
<1>4. QED BY <1>1, <1>2, <1>3, ProgressCases

(* What a notice tells of the frames stays true, and is true when made.     *)
LEMMA GroupNotices ==
  ASSUME FullInv, GroupInv, [Next]_vars, NEW i \in DOMAIN fromPlc', fromPlc'[i].state = "finished"
  PROVE  GroupsTold(fromPlc[i].task)'
<1> USE DEF FullInv
<1>1. CASE \E j \in DOMAIN fromPlc : fromPlc'[i] = fromPlc[j]
  <2>1. PICK j \in DOMAIN fromPlc : fromPlc'[i] = fromPlc[j]
    BY <1>1
  <2>2. PICK task \in TaskType : task = fromPlc[j].task
    <3>1. fromPlc \in Seq(Notice)
      BY DEF TypeOK, Notice
    <3>2. fromPlc[j] \in Notice
      BY <3>1
    <3>3. QED BY <3>2 DEF Notice
  <2>3. task.id \in TaskId /\ freed[task.id] = 1
    BY <2>1, <2>2, Fields DEF NoticeInv, Told
  <2>4. FramesOf(task.id)' = FramesOf(task.id)
    BY <2>3, FramesKept
  <2>5. GroupsTold(task)
    BY <2>1, <2>2 DEF GroupInv
  <2>6. QED BY <2>1, <2>2, <2>4, <2>5 DEF GroupsTold
<1>2. CASE Ending /\ fromPlc'[i] = [task |-> task_progress, state |-> "finished"]
  <2>1. PICK task \in TaskType : task = task_progress
    BY <1>2 DEF Ending, TypeOK
  <2>2. task.id \in TaskId /\ InProgress(task.id)
    BY <2>1, Fields, Null DEF InProgress
  <2>3. frame = None /\ sent' = sent
    BY <1>2 DEF Ending, Stop, Commanded, AtFrame, Finish, FrameInv, Busy
  <2>4. FramesOf(task.id)' = Issued(task.id)
    BY <2>3 DEF FramesOf, Issued
  <2>5. GroupsTold(task)'
    BY <2>1, <2>2, <2>4 DEF GroupsTold, GroupInv
  <2>6. fromPlc'[i].task = task
    BY <1>2, <2>1
  <2>7. QED BY <2>5, <2>6
<1>3. QED BY <1>1, <1>2, NoticeCases

LEMMA GroupStep == FullInv /\ GroupInv /\ [Next]_vars => GroupInv'
<1> SUFFICES ASSUME FullInv, GroupInv, [Next]_vars PROVE GroupInv'
  OBVIOUS
<1>1. ASSUME NEW t \in TaskId, InProgress(t)', OfGroups(task_progress)', NEW f \in Issued(t)'
      PROVE  ForGroups(f, GroupsOf(task_progress'))
  BY <1>1, GroupFrames DEF FullInv
<1>2. ASSUME NEW i \in DOMAIN fromPlc', fromPlc'[i].state = "finished"
      PROVE  GroupsTold(fromPlc[i].task)'
  BY <1>2, GroupNotices
<1>3. QED BY <1>1, <1>2 DEF GroupInv

LEMMA GroupInvariance == Spec => [](FullInv /\ GroupInv)
<1>1. Init => GroupInv
  BY DEF Init, GroupInv, InProgress
<1>2. QED BY <1>1, GroupStep, FullInvariance, PTL DEF Spec

(* A command to groups goes to no other lamps, whatever is lost and however *)
(* the list is changed meanwhile: GroupLampsOnly fails through free group   *)
(* slots alone, never for a lamp whose slots are all in use.                *)
THEOREM GroupsAlwaysAddressed == Spec => []GroupsAddressed
<1>1. GroupInv => GroupsAddressed
  BY DEF GroupInv, GroupsTold, ForGroups, GroupsAddressed, Addressed
<1>2. QED BY <1>1, GroupInvariance, PTL
=============================================================================
