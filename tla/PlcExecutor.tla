---------------------------- MODULE PlcExecutor ----------------------------
(***************************************************************************)
(* Lamp commands over the power line (task_plc.c, plc_protocol.c).          *)
(*                                                                          *)
(* Messages of the server and of the panel become tasks (LampPlcExecuteTask *)
(* of lamp_comm.c) in xQueue_LampPlcExecuteTaskToPlc.  vTaskPLC has one in   *)
(* progress; each of its loops makes and transmits one frame of it: a       *)
(* broadcast, or a command to one lamp, which answers.  An answer is looked *)
(* for in the one receive buffer, which the interrupt overwrites and the    *)
(* end of the loop empties.  Lamps also report on their own.  The server    *)
(* stops or suspends a firmware update through a second queue.  A task      *)
(* whose notify_enable is 0 only skips the notices.                         *)
(***************************************************************************)
EXTENDS Integers, Sequences, FiniteSets

CONSTANTS
  NLamp,        \* MAX_LAMP_CONF_NUM: places for lamps, numbered from 0
  InitialList,  \* lamps configured at first
  Group,        \* the groups of each lamp
  MAX_LAMP_GROUP_NUM,
  Strategies,   \* the configured lamp strategies: who each is sent to, << >> for a broadcast
  Requests,     \* Requests[n]: what the nth message of the server may be
  Bags,         \* FrameWareState.total_bags
  retransmission_times,
  ToPlcLen,     \* length of xQueue_LampPlcExecuteTaskToPlc (20)
  StateLen,     \* length of xQueue_LampPlcExecuteTaskState (5)
  FromPlcLen,   \* length of xQueue_LampPlcExecuteTaskFromPlc (20)
  MaxRequest,   \* bound: tasks made
  MaxInput,     \* bound: commands to stop or suspend, reports of lamps, changes of the list
  None          \* the NULL pointer

Lamp == 0 .. NLamp - 1
All == -1       \* address of a broadcast, 0xFFFFFFFF
Nobody == -2    \* address 0
TaskId == 1 .. MaxRequest
Cmd == {"adjust", "query", "firmware", "strategy"}
    \* 0x0101 to 0x0106, 0x0170 to 0x01D2, 0x01F3, 0x01D5

ASSUME PlcAssumption ==
  /\ NLamp \in Nat \ {0}
  /\ InitialList \subseteq Lamp
  /\ MAX_LAMP_GROUP_NUM \in Nat \ {0}
  /\ \A l \in Lamp : IsFiniteSet(Group[l])
  /\ Strategies \in Seq(Seq(Lamp))
  /\ DOMAIN Requests = TaskId
  /\ \A t \in TaskId : \A r \in Requests[t] :
       /\ r.cmd_code \in Cmd
       /\ r.broadcast_type \in 0 .. 2 /\ r.execute_type \in 0 .. 2
       /\ r.dev_id \in Seq(Int)
  /\ \A n \in {Bags, retransmission_times, ToPlcLen, StateLen, FromPlcLen, MaxRequest,
               MaxInput} : n \in Nat
  /\ None \notin Int /\ None \notin Seq(Int)

VARIABLES
  list,           \* LampNumList: the lamps that are configured
  toPlc,          \* xQueue_LampPlcExecuteTaskToPlc
  states,         \* xQueue_LampPlcExecuteTaskState: "stop" or "suspend"
  fromPlc,        \* xQueue_LampPlcExecuteTaskFromPlc: copies of tasks
  task_progress, task_backup,
  add_index,      \* static u8 add_index of CombinePlcUserFrame
  pc,             \* where vTaskPLC is in its loop, or "halted" in HardFault_Handler
  frame,          \* the frame made
  re_send_times,
  rx,             \* Usart2RxBuf with Usart2RecvEnd: the last frame received, or None
  air,            \* answers and reports under way; of two alike one is lost
  made,           \* tasks made
  inputs,         \* how many of MaxInput are used up
  freed,          \* history: how often each task was freed
  sent,           \* history: frames transmitted
  executed,       \* history: frames that reached the lamp they are for
  untrue,         \* history: commands counted as executed that did not arrive
  expiries,       \* history: times the wait for an answer ran out
  changed         \* history: tasks made before the last change of the list

queues  == <<toPlc, states, fromPlc>>
line    == <<rx, air>>
history == <<freed, sent, executed, untrue, expiries, changed>>
bounds  == <<made, inputs>>
tasks   == <<task_progress, task_backup, add_index>>
vars == <<list, queues, tasks, pc, frame, re_send_times, line, bounds, history>>

Init ==
  /\ list = InitialList
  /\ toPlc = << >> /\ states = << >> /\ fromPlc = << >>
  /\ task_progress = None /\ task_backup = None /\ add_index = 0
  /\ pc = "task" /\ frame = None /\ re_send_times = 0
  /\ rx = None /\ air = {}
  /\ made = 0 /\ inputs = 0
  /\ freed = [t \in TaskId |-> 0]
  /\ sent = {} /\ executed = {} /\ untrue = {} /\ expiries = 0 /\ changed = {}

-----------------------------------------------------------------------------
(* The LAMP task makes tasks of the server's messages.                      *)

(* Unused places of group and of group_dev_id hold 0 and equal each other.  *)
InGroup(l, groups) ==
  \/ Group[l] \cap groups # {}
  \/ Cardinality(Group[l]) < MAX_LAMP_GROUP_NUM /\ Cardinality(groups) < MAX_LAMP_GROUP_NUM

GroupsOf(task) == {task.dev_id[i] : i \in DOMAIN task.dev_id}

(* LampGroupListNum.list is read with the group as index, and with the      *)
(* group less one by the first of these.                                    *)
Counted(r, group) == IF r.cmd_code = "firmware" THEN group + 1 ELSE group

dev_num(r) ==
  CASE r.broadcast_type = 0 -> Cardinality(list)
    [] r.broadcast_type = 1 -> Cardinality({lg \in list \X GroupsOf(r) : Counted(r, lg[2]) \in Group[lg[1]]})
    [] r.broadcast_type = 2 -> Len(r.dev_id)

(* LampGetLampPlcExecuteTaskInfo; LampStartFirmWareUpdate and               *)
(* LampSynchronizeConfig count packets and strategies.                      *)
execute_total_num(r) ==
  CASE r.cmd_code = "firmware" -> IF r.broadcast_type = 2 THEN Len(r.dev_id) * Bags ELSE Bags
    [] r.cmd_code = "strategy" -> Len(Strategies)
    [] OTHER -> IF r.broadcast_type # 2 /\ r.execute_type = 0 THEN 1 ELSE dev_num(r)

NewTask(id, r) ==
  [id |-> id, cmd_code |-> r.cmd_code, broadcast_type |-> r.broadcast_type,
   execute_type |-> r.execute_type, dev_id |-> r.dev_id, dev_num |-> dev_num(r),
   execute_total_num |-> execute_total_num(r), executed_num |-> 0, executed_index |-> 0,
   broadcast_state |-> FALSE, success_num |-> 0, failed_num |-> 0]

RequestUnfreed ==
  /\ made < MaxRequest
  /\ made' = made + 1
  /\ \E r \in Requests[made'] :
       toPlc' = IF Len(toPlc) < ToPlcLen THEN Append(toPlc, NewTask(made', r)) ELSE toPlc
  /\ UNCHANGED <<list, states, fromPlc, tasks, pc, frame, re_send_times, line, inputs, history>>

(* A task there is no room for is deleted.                                  *)
Request ==
  /\ made < MaxRequest
  /\ made' = made + 1
  /\ IF Len(toPlc) < ToPlcLen
     THEN /\ \E r \in Requests[made'] : toPlc' = Append(toPlc, NewTask(made', r))
          /\ UNCHANGED freed
     ELSE freed' = [freed EXCEPT ![made'] = @ + 1] /\ UNCHANGED toPlc
  /\ UNCHANGED <<list, states, fromPlc, tasks, pc, frame, re_send_times, line, inputs,
                 sent, executed, untrue, expiries, changed>>

(* 0x01F4 and 0x01F5; there is no message that starts a suspended task.     *)
FirmwareCommand(state) ==
  /\ inputs < MaxInput
  /\ inputs' = inputs + 1
  /\ states' = IF Len(states) < StateLen THEN Append(states, state) ELSE states
  /\ UNCHANGED <<list, toPlc, fromPlc, tasks, pc, frame, re_send_times, line, made, history>>

(* Lamps are configured one by one, or the list is reset.                   *)
ChangeList ==
  /\ inputs < MaxInput
  /\ inputs' = inputs + 1
  /\ list' = {} \/ \E l \in Lamp \ list : list' = list \cup {l}
  /\ changed' = 1 .. made
  /\ UNCHANGED <<queues, tasks, pc, frame, re_send_times, line, made, freed, sent, executed, untrue, expiries>>

(* The CONCENTRATOR task reports the tasks' states to the server.           *)
TakeNotice ==
  /\ fromPlc # << >>
  /\ fromPlc' = Tail(fromPlc)
  /\ UNCHANGED <<list, toPlc, states, tasks, pc, frame, re_send_times, line, bounds, history>>

-----------------------------------------------------------------------------
(* RecvAndExecuteLampPlcExecuteTask, one loop of vTaskPLC.                  *)

Notify(task, state) ==
  fromPlc' = IF Len(fromPlc) < FromPlcLen
             THEN Append(fromPlc, [task |-> task, state |-> state])
             ELSE fromPlc

DeleteTask(task) == freed' = [freed EXCEPT ![task.id] = @ + 1]

TakeTask ==
  /\ pc = "task" /\ pc' = "state"
  /\ IF task_progress = None /\ toPlc # << >>
     THEN /\ task_progress' = Head(toPlc)
          /\ toPlc' = Tail(toPlc)
          /\ Notify(Head(toPlc), "start")
     ELSE UNCHANGED <<task_progress, toPlc, fromPlc>>
  /\ UNCHANGED <<list, states, task_backup, add_index, frame, re_send_times, line, bounds,
                 history>>

(* A finished task is reported and deleted.                                 *)
FINISHED ==
  /\ Notify(task_progress, "finished")
  /\ DeleteTask(task_progress)
  /\ task_progress' = None
  /\ frame' = None

NoCommand ==
  /\ pc = "state" /\ states = << >>
  /\ pc' = "frame"
  /\ UNCHANGED <<list, queues, tasks, frame, re_send_times, line, bounds, history>>

Updating == task_progress # None /\ task_progress.cmd_code = "firmware"

IgnoreCommandYet ==
  /\ pc = "state" /\ states # << >>
  /\ ~Updating
  /\ pc' = "analyse"
  /\ UNCHANGED <<list, queues, tasks, frame, re_send_times, line, bounds, history>>

IgnoreCommand ==
  /\ pc = "state" /\ states # << >>
  /\ ~Updating
  /\ states' = Tail(states)
  /\ pc' = "frame"
  /\ UNCHANGED <<list, toPlc, fromPlc, tasks, frame, re_send_times, line, bounds, history>>

Commanded(state) ==
  /\ pc = "state" /\ states # << >> /\ Head(states) = state
  /\ Updating
  /\ states' = Tail(states)

(* frame.buf is not initialised at this point: it is freed if it is not     *)
(* NULL, and the stack may hold anything.                                   *)
Stop ==
  /\ Commanded("stop")
  /\ FINISHED
  /\ pc' \in {"analyse", "halted"}
  /\ UNCHANGED <<list, toPlc, task_backup, add_index, re_send_times, line, bounds, sent, executed,
                 untrue, expiries, changed>>

(* FINISHED then writes through task_progress, which is NULL by now: the    *)
(* write faults or is ignored.                                              *)
Suspend ==
  /\ Commanded("suspend")
  /\ IF task_backup # None THEN DeleteTask(task_backup) ELSE UNCHANGED freed
  /\ task_backup' = task_progress
  /\ task_progress' = None
  /\ pc' \in {"analyse", "halted"}
  /\ UNCHANGED <<list, toPlc, fromPlc, add_index, frame, re_send_times, line, bounds, sent,
                 executed, untrue, expiries, changed>>

Idle ==
  /\ pc = "frame" /\ task_progress = None
  /\ pc' = "analyse"
  /\ UNCHANGED <<list, queues, tasks, frame, re_send_times, line, bounds, history>>

-----------------------------------------------------------------------------
(* The frame of this loop, if the task has one left.  It carries its task   *)
(* and its number in the task; its type is 2 for one lamp that answers.     *)

Frame(task, to) ==
  [task |-> task.id, num |-> task.executed_num, cmd_code |-> task.cmd_code,
   to |-> to, type |-> IF to = All THEN 0 ELSE 2]

AtFrame == pc = "frame" /\ task_progress # None

RoundsLeft == task_progress.executed_num < task_progress.execute_total_num

(* The frame is transmitted with the counters of the task as they now are.  *)
Made(to, task) ==
  /\ frame' = Frame(task_progress, to)
  /\ task_progress' = task
  /\ re_send_times' = 0
  /\ pc' = "send"
  /\ UNCHANGED <<list, queues, task_backup, line, bounds, history>>

Finish ==
  /\ FINISHED
  /\ pc' = "analyse"
  /\ UNCHANGED <<list, toPlc, states, task_backup, add_index, re_send_times, line, bounds,
                 sent, executed, untrue, expiries, changed>>

(* Direct broadcast to all or to groups, as many times as there are packets.*)
IsBroadcast == task_progress.broadcast_type # 2 /\ task_progress.execute_type = 0

Broadcast ==
  /\ AtFrame /\ IsBroadcast /\ task_progress.cmd_code # "strategy"
  /\ RoundsLeft
  /\ Made(All, [task_progress EXCEPT !.executed_num = @ + 1,
                                     !.success_num = task_progress.dev_num,
                                     !.failed_num = 0])
  /\ UNCHANGED add_index

BroadcastEnd ==
  /\ AtFrame /\ IsBroadcast /\ task_progress.cmd_code # "strategy"
  /\ ~RoundsLeft
  /\ Finish

(* Commands lamp by lamp, from executed_index on.  Some are preceded by a   *)
(* broadcast: its frame is replaced when the place looked at has a lamp.    *)
IsListed == task_progress.broadcast_type # 2 /\ task_progress.execute_type # 0
            /\ task_progress.cmd_code # "strategy"

Eligible(l) == l \in list /\ (task_progress.broadcast_type = 1 => InGroup(l, GroupsOf(task_progress)))

BroadcastDue == task_progress.cmd_code = "adjust" /\ ~task_progress.broadcast_state

Remaining == {l \in Lamp : l >= task_progress.executed_index /\ Eligible(l)}

NextLamp == CHOOSE l \in Remaining : \A k \in Remaining : l <= k

BroadcastFirst ==
  /\ AtFrame /\ IsListed /\ BroadcastDue
  /\ ~Eligible(task_progress.executed_index)
  /\ Made(All, [task_progress EXCEPT !.broadcast_state = TRUE, !.executed_index = @ + 1])
  /\ UNCHANGED add_index

ToNextLampAgain ==
  /\ AtFrame /\ IsListed
  /\ BroadcastDue => Eligible(task_progress.executed_index)
  /\ Remaining # {} /\ RoundsLeft
  /\ Made(NextLamp, [task_progress EXCEPT !.executed_index = NextLamp,
                                          !.executed_num = @ + 1])
  /\ UNCHANGED add_index

ToNextLamp ==
  /\ AtFrame /\ IsListed
  /\ BroadcastDue => Eligible(task_progress.executed_index)
  /\ Remaining # {} /\ RoundsLeft
  /\ Made(NextLamp, [task_progress EXCEPT !.broadcast_state = @ \/ BroadcastDue,
                                          !.executed_index = NextLamp + 1,
                                          !.executed_num = @ + 1])
  /\ UNCHANGED add_index

ListEnd ==
  /\ AtFrame /\ IsListed
  /\ BroadcastDue => Eligible(task_progress.executed_index)
  /\ Remaining = {} \/ ~RoundsLeft
  /\ Finish

(* Commands to the lamps named in the message.  After the last of them the  *)
(* index is dev_num, not above it, and the place it points to is empty.     *)
IsNamed == task_progress.broadcast_type = 2 /\ task_progress.cmd_code # "strategy"

Wrapped(index) == IF index > task_progress.dev_num THEN 0 ELSE index
AtNamed == task_progress.executed_index < Len(task_progress.dev_id)

ToNamedLamp ==
  /\ AtFrame /\ IsNamed
  /\ AtNamed /\ RoundsLeft
  /\ Made(task_progress.dev_id[task_progress.executed_index + 1],
          [task_progress EXCEPT !.executed_num = @ + 1,
                                !.executed_index = Wrapped(@ + 1)])
  /\ UNCHANGED add_index

NamedEnd ==
  /\ AtFrame /\ IsNamed
  /\ ~AtNamed \/ ~RoundsLeft
  /\ Finish

(* Lamp strategies: each is broadcast, or sent to its addresses in turn,    *)
(* which add_index counts across frames and across tasks.                   *)
Strategy == Strategies[task_progress.executed_index + 1]
StrategyLeft == task_progress.executed_index < Len(Strategies)

StrategyTo == CASE Strategy = << >> -> All
                [] Strategy # << >> /\ add_index < Len(Strategy) -> Strategy[add_index + 1]
                [] OTHER -> Nobody
NextAddress == IF add_index + 1 < Len(Strategy) THEN add_index + 1 ELSE 0

SendStrategy ==
  /\ AtFrame /\ task_progress.cmd_code = "strategy"
  /\ RoundsLeft /\ StrategyLeft
  /\ add_index' = IF Strategy = << >> THEN add_index ELSE NextAddress
  /\ Made(StrategyTo,
          [task_progress EXCEPT !.executed_num = @ + 1,
                                !.executed_index = IF Strategy # << >> /\ NextAddress # 0
                                                    THEN @ ELSE @ + 1])

StrategyEnd ==
  /\ AtFrame /\ task_progress.cmd_code = "strategy"
  /\ ~RoundsLeft \/ ~StrategyLeft
  /\ Finish

-----------------------------------------------------------------------------
(* SendPlcFrameToDeviceAndWaitResponse.                                     *)

(* A broadcast is repeated broadcast_times and always a success; one lamp's *)
(* frame is transmitted and its answer waited for.                          *)
Arrive(frames, answers) == executed' = executed \cup frames /\ air' = air \cup answers

Answer == [from |-> frame.to, cmd_code |-> IF frame.cmd_code = "query" THEN "query" ELSE "ack"]

Transmit ==
  /\ pc = "send"
  /\ sent' = sent \cup {frame}
  /\ pc' = IF frame.type = 2 THEN "wait" ELSE "sent"
  /\ \/ Arrive({}, {})
     \/ frame.to \in Lamp /\ Arrive({frame}, {Answer})
  /\ UNCHANGED <<list, queues, tasks, frame, re_send_times, rx, bounds, freed, untrue,
                 expiries, changed>>

Matches(answer) == answer # None /\ answer.from = frame.to
                   /\ answer.cmd_code \in {"ack", frame.cmd_code}

SettledTimeoutsUncounted(success) ==
  /\ task_progress' = [task_progress EXCEPT !.success_num = IF success THEN @ + 1 ELSE @]
  /\ Notify(task_progress', "start")
  /\ frame' = None
  /\ pc' = "analyse"
  /\ UNCHANGED <<list, toPlc, states, task_backup, add_index, line, bounds, freed, sent, executed,
                 changed>>

(* After a frame: it is counted for the tasks executed lamp by lamp, the    *)
(* task starts the next one, and the server is told.                        *)
Settled(success) ==
  LET counted == task_progress.execute_type \in {1, 2}
      task == [task_progress EXCEPT !.success_num = IF counted /\ success THEN @ + 1 ELSE @,
                                    !.failed_num = IF counted /\ ~success THEN @ + 1 ELSE @]
  IN /\ task_progress' = task
     /\ Notify(task, "start")
     /\ frame' = None
     /\ pc' = "analyse"
     /\ UNCHANGED <<list, toPlc, states, task_backup, add_index, line, bounds, freed, sent,
                    executed, changed>>

BroadcastDone ==
  /\ pc = "sent"
  /\ Settled(TRUE)
  /\ UNCHANGED <<re_send_times, untrue, expiries>>

Answered ==
  /\ pc = "wait" /\ Matches(rx)
  /\ Settled(TRUE)
  /\ untrue' = IF frame \in executed THEN untrue ELSE untrue \cup {frame}
  /\ UNCHANGED <<re_send_times, expiries>>

Expire ==
  /\ pc = "wait" /\ ~Matches(rx)
  /\ re_send_times' = re_send_times + 1
  /\ expiries' = expiries + 1
  /\ UNCHANGED untrue
  /\ IF re_send_times' <= retransmission_times
     THEN /\ pc' = "send"
          /\ UNCHANGED <<list, queues, tasks, frame, line, bounds, freed, sent, executed,
                         changed>>
     ELSE Settled(FALSE)

(* USART2_IRQHandler: whatever was in the buffer is gone.                   *)
Deliver ==
  /\ \E answer \in air : rx' = answer /\ air' = air \ {answer}
  /\ UNCHANGED <<list, queues, tasks, pc, frame, re_send_times, bounds, history>>

LampReport ==
  /\ inputs < MaxInput
  /\ inputs' = inputs + 1
  /\ \E l \in list : air' = air \cup {[from |-> l, cmd_code |-> "report"]}
  /\ UNCHANGED <<list, queues, tasks, pc, frame, re_send_times, rx, made, history>>

AnalyseKeepsFrame ==
  /\ pc = "analyse" /\ pc' = "task"
  /\ UNCHANGED <<list, queues, tasks, frame, re_send_times, line, bounds, history>>

(* The end of the loop of vTaskPLC: what was received is handled and the    *)
(* buffer emptied.                                                          *)
Analyse ==
  /\ pc = "analyse" /\ pc' = "task"
  /\ rx' = None
  /\ UNCHANGED <<list, queues, tasks, frame, re_send_times, air, bounds, history>>

-----------------------------------------------------------------------------
Environment == Request \/ FirmwareCommand("stop")
               \/ FirmwareCommand("suspend") \/ ChangeList \/ LampReport

MakeFrame ==
  \/ Idle \/ Broadcast \/ BroadcastEnd
  \/ BroadcastFirst \/ ToNextLamp \/ ListEnd
  \/ ToNamedLamp \/ NamedEnd
  \/ SendStrategy \/ StrategyEnd

vTaskPLC ==
  \/ TakeTask
  \/ NoCommand \/ IgnoreCommand \/ Stop \/ Suspend
  \/ MakeFrame
  \/ Transmit \/ BroadcastDone \/ Answered \/ Expire
  \/ Analyse

HardFault_Handler == pc = "halted" /\ UNCHANGED vars

Next == Environment \/ TakeNotice \/ Deliver \/ vTaskPLC \/ HardFault_Handler

Spec == Init /\ [][Next]_vars

(* The scheduler runs vTaskPLC whenever it is ready: all its waits end.     *)
FairSpec == Spec /\ WF_vars(vTaskPLC)

-----------------------------------------------------------------------------
TaskType ==
  [id : TaskId, cmd_code : Cmd, broadcast_type : 0 .. 2, execute_type : 0 .. 2,
   dev_id : Seq(Int), dev_num : Nat, execute_total_num : Nat, executed_num : Nat,
   executed_index : Nat, broadcast_state : BOOLEAN, success_num : Nat, failed_num : Nat]

FrameType == [task : TaskId, num : Nat, cmd_code : Cmd, to : Int, type : {0, 2}]

AnswerType == [from : Int, cmd_code : Cmd \cup {"ack", "report"}]

ASSUME NoneAssumption == None \notin TaskType /\ None \notin FrameType /\ None \notin AnswerType

TypeOK ==
  /\ list \subseteq Lamp
  /\ toPlc \in Seq(TaskType) /\ Len(toPlc) <= ToPlcLen
  /\ states \in Seq({"stop", "suspend"}) /\ Len(states) <= StateLen
  /\ fromPlc \in Seq([task : TaskType, state : {"start", "finished"}]) /\ Len(fromPlc) <= FromPlcLen
  /\ task_progress \in TaskType \cup {None} /\ task_backup \in TaskType \cup {None}
  /\ add_index \in Nat
  /\ pc \in {"task", "state", "frame", "send", "sent", "wait", "analyse", "halted"}
  /\ frame \in FrameType \cup {None}
  /\ pc \in {"send", "sent", "wait"} => frame # None /\ task_progress # None
  /\ re_send_times \in 0 .. retransmission_times + 1
  /\ rx \in AnswerType \cup {None} /\ air \subseteq AnswerType
  /\ made \in 0 .. MaxRequest /\ inputs \in 0 .. MaxInput
  /\ freed \in [TaskId -> Nat]
  /\ sent \subseteq FrameType /\ executed \subseteq sent /\ untrue \subseteq sent
  /\ expiries \in Nat /\ changed \subseteq TaskId

(* A lamp is counted as having executed a command that did not reach it     *)
(* only through a late answer: at most once for each wait that ran out.     *)
FalseSuccessBound == Cardinality(untrue) <= expiries

(* A task is in the queue, in progress, suspended or freed, and in one of   *)
(* these only: none is leaked, freed twice or used after it was freed.      *)
Held(t) == Cardinality({i \in DOMAIN toPlc : toPlc[i].id = t})
           + (IF task_progress # None /\ task_progress.id = t THEN 1 ELSE 0)
           + (IF task_backup # None /\ task_backup.id = t THEN 1 ELSE 0)

OneTaskOwner == \A t \in 1 .. made : Held(t) + freed[t] = 1

(* What the server is told at the end adds up: every frame of a task        *)
(* executed lamp by lamp was counted as a success or a failure, once.       *)
FramesOf(t) == {f \in sent : f.task = t}

NoticesTell ==
  \A i \in DOMAIN fromPlc :
    LET task == fromPlc[i].task
    IN fromPlc[i].state = "finished" /\ task.execute_type \in {1, 2}
       => task.success_num + task.failed_num = Cardinality(FramesOf(task.id))

(* A command to all lamps one by one goes to each of them once, whatever    *)
(* was lost on the way, if the list stayed as it was.                       *)
Addressed(t) == {f.to : f \in FramesOf(t)} \ {All}
ToLamps(t) == {f \in FramesOf(t) : f.to # All}

EachLampOnce ==
  \A i \in DOMAIN fromPlc :
    LET task == fromPlc[i].task
    IN fromPlc[i].state = "finished" /\ task.broadcast_type = 0 /\ task.execute_type # 0
       /\ task.cmd_code \in {"adjust", "query"} /\ task.id \notin changed
       => Addressed(task.id) = list /\ Cardinality(ToLamps(task.id)) = Cardinality(list)

(* lamp_conf.h: "group" are the groups a device is in.  A command to groups *)
(* goes to no other lamp.                                                   *)
GroupLampsOnly ==
  \A i \in DOMAIN fromPlc :
    fromPlc[i].task.broadcast_type = 1 =>
      \A l \in Addressed(fromPlc[i].task.id) : Group[l] \cap GroupsOf(fromPlc[i].task) # {}

(* Every task ends, or is suspended for good, unless the processor halts.   *)
Suspended(t) == task_backup # None /\ task_backup.id = t

TaskSettles == \A t \in TaskId : made >= t ~> (freed[t] = 1 \/ Suspended(t) \/ pc = "halted")
=============================================================================
