---------------------------- MODULE RelayControl ----------------------------
(***************************************************************************)
(* The relays (task_relay.c, relay_comm.c, kc.c, SetDO_State of task_led.c). *)
(*                                                                          *)
(* One loop of the RELAY task takes a message of the server, applies the     *)
(* strategy of the hour, a temporary strategy and a forced switch-off, then  *)
(* executes, module by module, the commands that differ from the ones it     *)
(* executed last.  While it waits for a relay or a queue, tasks of lower     *)
(* priority run: the panel (MMI) writes a command field by field, an alarm   *)
(* asks for the switch-off, the RS485 task sends frames.  The CONCENTRATOR   *)
(* task, of higher priority, changes the run mode at any time.               *)
(***************************************************************************)
EXTENDS Integers, Sequences

CONSTANTS
  NumModules,        \* RelayModuleConfigNum.number
  BuiltIn,           \* modules at address 0, channel 0; the others are on the bus
  LowLoops,          \* the loops of the low byte of a u16
  HighLoops,         \* the loops of the high byte
  loop_channel_bit,  \* the loops each module is configured with
  loop_enable,       \* the loops of each module that may be commanded
  loop_group,        \* the groups of each loop of each module
  Wired,             \* the loops each module has a relay for
  Slots, Plan,       \* hours, and the commands of the strategy for each
  LoopRequests,      \* parameters of messages 0x0201
  GroupRequests,     \* parameters of messages 0x0202
  TempPlans,         \* actions of the groups of messages 0x0203
  MmiRequests,       \* commands of the panel
  RunModes,          \* run modes the server sets
  CanForce,          \* TRUE: alarms switch the relays off
  CanConfigure,      \* TRUE: the server writes configurations
  MaxInputs,         \* bound: commands, alarms, mode changes and hours
  MaxLost,           \* bound: frames lost
  BusSize            \* length of xQueue_Rs485Rs485Frame

Module == 1 .. NumModules
Loops == LowLoops \cup HighLoops
Command == [ch : SUBSET Loops, st : SUBSET Loops]
NoCommand == [ch |-> {}, st |-> {}]
Source == 0 .. 6   \* 控制来源: 1 server, 3 temporary, 4 panel, 5 forced, 6 task
Unfinished == 7    \* among the origins: the panel still writes, alone so far
Mode == {"auto", "manual", "task", "stop"}

ASSUME RelayAssumption ==
  /\ NumModules \in Nat \ {0}
  /\ BuiltIn \subseteq Module
  /\ LowLoops \cap HighLoops = {}
  /\ loop_channel_bit \in [Module -> SUBSET Loops]
  /\ loop_enable \in [Module -> SUBSET Loops]
  /\ Wired \in [Module -> SUBSET Loops]
  /\ \A s \in Slots : \E S \in SUBSET Module : Plan[s] \in [S -> Command]
  /\ TempPlans \subseteq Seq([m : Module, cmd : Command])
  /\ MmiRequests \subseteq [m : Module, st : SUBSET Loops]
  /\ RunModes \subseteq Mode
  /\ CanForce \in BOOLEAN /\ CanConfigure \in BOOLEAN
  /\ MaxInputs \in Nat /\ MaxLost \in Nat /\ BusSize \in Nat

VARIABLES
  pc,          \* where the RELAY task is
  at,          \* the module it executes
  RunMode,
  RelayForceSwitchOffAllRelays,
  slot,        \* the strategy in force at this hour
  temp,        \* RelayStrategyGroupSwitchTemp: the actions of its group
  current,     \* loop_current_channel, loop_current_state
  last,        \* loop_last_channel, loop_last_state
  task,        \* loop_task_* (loop_last_task_* equals it between two loops)
  controller,
  execute_immediately,
  collect,     \* loop_collect_state
  mmi,         \* the panel command being written, and its next field
  bus,         \* frames of the queue of the RS485 task
  replies,     \* frames of xQueue_RelayRs485Frame
  contacts,    \* the loops that are on
  origin,      \* history: those who wrote fields of current and controller
  held,        \* history: modules whose last command the run mode held back
  missed,      \* history: modules whose last frame was lost
  inputs, lost

flags    == <<RunMode, RelayForceSwitchOffAllRelays, slot, temp>>
commands == <<current, controller, execute_immediately, origin>>
outside  == <<bus, replies, contacts, missed>>
place    == <<pc, at>>
bounds   == <<inputs, lost>>
vars == <<place, flags, commands, last, task, collect, mmi, outside, held, bounds>>

Frame == [m : Module, query : BOOLEAN, cmd : Command]
Idle == [step |-> "idle"]
MmiState == [step : {"channel", "state", "controller", "immediate"},
             m : Module, st : SUBSET Loops]

TypeOK ==
  /\ pc \in {"receive", "strategy", "temporary", "force", "execute", "executing",
             "collect", "collecting", "device"}
  /\ at \in 1 .. NumModules + 1
  /\ RunMode \in Mode
  /\ RelayForceSwitchOffAllRelays \in BOOLEAN
  /\ slot \in Slots
  /\ temp \in Seq([m : Module, cmd : Command])
  /\ current \in [Module -> Command]
  /\ last \in [Module -> Command]
  /\ task \in [Module -> Command]
  /\ controller \in [Module -> Source]
  /\ execute_immediately \in [Module -> BOOLEAN]
  /\ collect \in [Module -> SUBSET Loops]
  /\ mmi \in MmiState \cup {Idle}
  /\ bus \in Seq(Frame) /\ Len(bus) <= BusSize
  /\ replies \in Seq([m : Module, st : SUBSET Loops])
  /\ contacts \in [Module -> SUBSET Loops]
  /\ origin \in [Module -> SUBSET (Source \cup {Unfinished})]
  /\ held \in SUBSET Module /\ missed \in SUBSET Module
  /\ inputs \in 0 .. MaxInputs /\ lost \in 0 .. MaxLost

Init ==
  /\ pc = "receive" /\ at = 1
  /\ RunMode \in RunModes
  /\ RelayForceSwitchOffAllRelays = FALSE
  /\ slot \in Slots
  /\ temp = << >>
  /\ current = [m \in Module |-> NoCommand]
  /\ last = current /\ task = current
  /\ controller = [m \in Module |-> 0] /\ origin = [m \in Module |-> {0}]
  /\ execute_immediately = [m \in Module |-> FALSE]
  /\ collect = [m \in Module |-> {}] /\ contacts = collect
  /\ mmi = Idle
  /\ bus = << >> /\ replies = << >>
  /\ held = {} /\ missed = {}
  /\ inputs = 0 /\ lost = 0

Input == inputs < MaxInputs /\ inputs' = inputs + 1 /\ UNCHANGED lost

-----------------------------------------------------------------------------
(* Commands and what they do.                                               *)
Mask(m, c) == [ch |-> c.ch \cap loop_enable[m], st |-> c.st \cap loop_enable[m]]
Switched(on, c, m) == (on \ (c.ch \cap Wired[m])) \cup (c.st \cap c.ch \cap Wired[m])

Replaced(f, g) == [m \in Module |-> IF m \in DOMAIN g THEN g[m] ELSE f[m]]
Marked(f, S, v) == [m \in Module |-> IF m \in S THEN v ELSE f[m]]

Give(cmds, source) ==
  /\ current' = Replaced(current, cmds)
  /\ controller' = Marked(controller, DOMAIN cmds, source)
  /\ origin' = Marked(origin, DOMAIN cmds, {source})

GiveNow(cmds, source) ==
  /\ Give(cmds, source)
  /\ execute_immediately' = Marked(execute_immediately, DOMAIN cmds, TRUE)

(* A parameter of message 0x0201 has two or four hexadecimal digits.  The    *)
(* variables are not reset between the modules of one message, and a short   *)
(* loop_state is written to the low byte of loop_ch.                          *)
Decode(before, p) ==
  LET ch == IF p.chWide THEN p.ch ELSE (before.ch \cap HighLoops) \cup p.ch
  IN [ch |-> IF p.stWide THEN ch ELSE (ch \cap HighLoops) \cup p.st,
      st |-> IF p.stWide THEN p.st ELSE before.st]

Decoded(r) ==
  LET f[i \in 0 .. Len(r)] ==
        IF i = 0 THEN NoCommand ELSE Mask(r[i].m, Decode(f[i - 1], r[i]))
  IN f

LastFor(r, m) == CHOOSE i \in DOMAIN r : r[i].m = m /\ \A j \in DOMAIN r : r[j].m = m => j <= i
Asked(r) == [m \in {r[i].m : i \in DOMAIN r} |->
               LET i == LastFor(r, m) IN Mask(m, Decode(Decoded(r)[i - 1], r[i]))]

(* Group 0 alone means all loops that have a group.                         *)
LoopsOf(m, groups) ==
  {l \in loop_channel_bit[m] : IF groups = {0} THEN loop_group[m][l] # {}
                                               ELSE loop_group[m][l] \cap groups # {}}
AskedGroup(groups, on) ==
  [m \in {n \in Module : LoopsOf(n, groups) # {}} |->
     Mask(m, [ch |-> LoopsOf(m, groups), st |-> IF on THEN LoopsOf(m, groups) ELSE {}])]

-----------------------------------------------------------------------------
(* RelayRecvAndHandleFrameStruct: at most one message of the server.        *)
Received == pc = "receive" /\ pc' = "strategy"
            /\ UNCHANGED <<at, RunMode, RelayForceSwitchOffAllRelays, slot, mmi, outside, held>>

RelayLoopControl(r) ==
  Received /\ Input /\ GiveNow(Asked(r), 1) /\ UNCHANGED <<temp, last, task, collect>>

RelayLoopGroupControl(g) ==
  /\ Received /\ Input
  /\ GiveNow(AskedGroup(g.groups, g.on), 1)
  /\ UNCHANGED <<temp, last, task, collect>>

(* A switch of type 3; types 1 and 2 change the plan, as SlotChange does.   *)
RelaySetStrategyGroupSwitch(plan) ==
  /\ Received /\ Input
  /\ temp' = plan
  /\ UNCHANGED <<commands, last, task, collect>>

(* WriteRelayModuleConfig of every module of the message clears its state.  *)
RelaySetBasicConfiguration ==
  /\ Received /\ Input /\ CanConfigure
  /\ current' = [m \in Module |-> NoCommand]
  /\ last' = current' /\ task' = current'
  /\ controller' = [m \in Module |-> 0] /\ origin' = [m \in Module |-> {0}]
  /\ execute_immediately' = [m \in Module |-> FALSE]
  /\ collect' = [m \in Module |-> {}]
  /\ UNCHANGED temp

NoMessage == Received /\ UNCHANGED <<bounds, temp, commands, last, task, collect>>

(* RelayExecuteStrategyGroup: the plan of the hour becomes the task of its   *)
(* modules, and a task that changed becomes the current command.            *)
TaskNow == Replaced(task, [m \in DOMAIN Plan[slot] |->
             [ch |-> Plan[slot][m].ch \cap loop_enable[m], st |-> Plan[slot][m].st]])
Changed == {m \in Module : TaskNow[m] # task[m]}

RelayExecuteStrategyGroupUnsigned ==
  /\ pc = "strategy" /\ pc' = "temporary"
  /\ task' = TaskNow
  /\ current' = Replaced(current, [m \in Changed |-> TaskNow[m]])
  /\ origin' = Marked(origin, Changed, {6})
  /\ UNCHANGED <<at, flags, controller, execute_immediately, last, collect, mmi, outside,
                 held, bounds>>

RelayExecuteStrategyGroup ==
  /\ pc = "strategy" /\ pc' = "temporary"
  /\ task' = TaskNow
  /\ Give([m \in Changed |-> TaskNow[m]], 6)
  /\ UNCHANGED <<at, flags, execute_immediately, last, collect, mmi, outside, held, bounds>>

(* RelayExecuteTemporaryStrategyGroup writes the controller of the module    *)
(* whose index is the number of the action, not of the action's module: the  *)
(* command is of one source only where the two agree.                       *)
TempFor == [m \in {temp[i].m : i \in DOMAIN temp} |->
              LET c == temp[LastFor(temp, m)].cmd
              IN [ch |-> c.ch \cap loop_enable[m], st |-> c.st]]

OriginsAfterTemp ==
  [m \in Module |->
     IF m \in DOMAIN TempFor \cap DOMAIN temp THEN {3}
     ELSE IF m \in DOMAIN TempFor \cup DOMAIN temp THEN (origin[m] \ {Unfinished}) \cup {3}
     ELSE origin[m]]

RelayExecuteTemporaryStrategyGroup ==
  /\ pc = "temporary" /\ pc' = "force"
  /\ current' = Replaced(current, TempFor)
  /\ controller' = Marked(controller, DOMAIN temp, 3)
  /\ origin' = OriginsAfterTemp
  /\ temp' = << >>
  /\ UNCHANGED <<at, RunMode, RelayForceSwitchOffAllRelays, slot, execute_immediately, last,
                 task, collect, mmi, outside, held, bounds>>

(* RelayCheckForceSwitchOffAllRelays.                                       *)
AllOff == [m \in Module |-> [ch |-> loop_channel_bit[m], st |-> {}]]

RelayCheckForceUnsigned ==
  /\ pc = "force" /\ pc' = "execute" /\ at' = 1
  /\ IF RelayForceSwitchOffAllRelays
     THEN /\ current' = AllOff
          /\ execute_immediately' = [m \in Module |-> TRUE]
          /\ last' = [m \in Module |-> NoCommand]
          /\ UNCHANGED <<controller, origin>>
     ELSE UNCHANGED <<commands, last>>
  /\ RelayForceSwitchOffAllRelays' = FALSE
  /\ UNCHANGED <<RunMode, slot, temp, task, collect, mmi, outside, held, bounds>>

RelayCheckForce ==
  /\ pc = "force" /\ pc' = "execute" /\ at' = 1
  /\ IF RelayForceSwitchOffAllRelays
     THEN GiveNow(AllOff, 5) /\ last' = [m \in Module |-> NoCommand]
     ELSE UNCHANGED <<commands, last>>
  /\ RelayForceSwitchOffAllRelays' = FALSE
  /\ UNCHANGED <<RunMode, slot, temp, task, collect, mmi, outside, held, bounds>>

-----------------------------------------------------------------------------
(* RelayExecuteActions.                                                     *)
Permitted(source, mode) ==
  \/ mode = "auto"
  \/ mode = "manual" /\ source \in {1, 2, 4}
  \/ mode = "task" /\ source \in {3, 6}
  \/ source = 5

Due(m) == current[m] # last[m] \/ execute_immediately[m]

(* ControlAllBuiltInRelay, which waits after each relay.                    *)
ControlAllBuiltInRelay(m) ==
  /\ contacts' = [contacts EXCEPT ![m] = Switched(@, current[m], m)]
  /\ UNCHANGED <<bus, missed, lost>>

ControlAllBuiltOutRelayToFront(m) ==
  /\ Len(bus) < BusSize
  /\ bus' = <<[m |-> m, query |-> FALSE, cmd |-> current[m]]>> \o bus
  /\ missed' = missed \ {m}
  /\ UNCHANGED <<lost, contacts>>

(* ControlAllBuiltOutRelay: without memory, or room for ten ticks, the frame *)
(* is dropped.                                                              *)
ControlAllBuiltOutRelay(m) ==
  /\ \/ /\ Len(bus) < BusSize
        /\ bus' = Append(bus, [m |-> m, query |-> FALSE, cmd |-> current[m]])
        /\ missed' = missed \ {m}
        /\ UNCHANGED lost
     \/ /\ lost < MaxLost /\ lost' = lost + 1
        /\ missed' = missed \cup {m}
        /\ UNCHANGED bus
  /\ UNCHANGED contacts

Executed(m) == last' = [last EXCEPT ![m] = current[m]]

InExecute == UNCHANGED <<flags, current, controller, origin, task, collect, mmi, replies, inputs>>

Pass ==
  /\ pc = "execute" /\ at <= NumModules /\ ~Due(at)
  /\ at' = at + 1
  /\ UNCHANGED <<pc, last, execute_immediately, held, bus, missed, contacts, lost>>
  /\ InExecute

Execute ==
  /\ pc = "execute" /\ at <= NumModules /\ Due(at)
  /\ Permitted(controller[at], RunMode)
  /\ execute_immediately' = [execute_immediately EXCEPT ![at] = FALSE]
  /\ IF at \in BuiltIn THEN ControlAllBuiltInRelay(at) ELSE ControlAllBuiltOutRelay(at)
  /\ held' = held \ {at}
  /\ pc' = "executing"
  /\ UNCHANGED <<at, last>>
  /\ InExecute

ExecuteEndClears ==
  /\ pc = "executing" /\ pc' = "execute"
  /\ Executed(at)
  /\ execute_immediately' = [execute_immediately EXCEPT ![at] = FALSE]
  /\ at' = at + 1
  /\ UNCHANGED <<held, bus, missed, contacts, lost>>
  /\ InExecute

ExecuteEnd ==
  /\ pc = "executing" /\ pc' = "execute"
  /\ Executed(at)
  /\ at' = at + 1
  /\ UNCHANGED <<execute_immediately, held, bus, missed, contacts, lost>>
  /\ InExecute

HoldBackForLater ==
  /\ pc = "execute" /\ at <= NumModules /\ Due(at)
  /\ ~Permitted(controller[at], RunMode)
  /\ execute_immediately' = [execute_immediately EXCEPT ![at] = FALSE]
  /\ held' = held \cup {at}
  /\ at' = at + 1
  /\ UNCHANGED <<pc, last, bus, missed, contacts, lost>>
  /\ InExecute

(* The run mode holds the command back: it counts as executed all the same. *)
HoldBack ==
  /\ pc = "execute" /\ at <= NumModules /\ Due(at)
  /\ ~Permitted(controller[at], RunMode)
  /\ execute_immediately' = [execute_immediately EXCEPT ![at] = FALSE]
  /\ held' = held \cup {at}
  /\ Executed(at)
  /\ at' = at + 1
  /\ UNCHANGED <<pc, bus, missed, contacts, lost>>
  /\ InExecute

ExecuteDone ==
  /\ pc = "execute" /\ at = NumModules + 1
  /\ pc' = "collect" /\ at' = 1
  /\ UNCHANGED <<last, execute_immediately, held, bus, missed, contacts, lost>>
  /\ InExecute

-----------------------------------------------------------------------------
(* RelayCollectCurrentState, once per state_monitoring_cycle: the command of *)
(* a built-in module is taken for its state, the others are queried; a query *)
(* that finds no room in the queue is dropped.                              *)
InCollect == UNCHANGED <<flags, commands, last, task, mmi, contacts, missed, held>>

RelayCollectCurrentState ==
  /\ pc = "collect" /\ pc' = "collecting" /\ Input
  /\ UNCHANGED <<at, collect, bus, replies>> /\ InCollect

NotYetCollect ==
  /\ pc = "collect" /\ pc' = "device"
  /\ UNCHANGED <<at, collect, bus, replies, bounds>> /\ InCollect

GetBuiltOutRelayState(m) ==
  bus' = IF Len(bus) < BusSize
         THEN Append(bus, [m |-> m, query |-> TRUE, cmd |-> NoCommand]) ELSE bus

CollectedState(m) == current[m].st

CollectModule ==
  /\ pc = "collecting" /\ at <= NumModules /\ at' = at + 1
  /\ IF at \in BuiltIn
     THEN collect' = [collect EXCEPT ![at] = CollectedState(at)] /\ UNCHANGED bus
     ELSE GetBuiltOutRelayState(at) /\ UNCHANGED collect
  /\ UNCHANGED <<pc, replies, bounds>> /\ InCollect

CollectDone ==
  /\ pc = "collecting" /\ at = NumModules + 1 /\ pc' = "device"
  /\ UNCHANGED <<at, collect, bus, replies, bounds>> /\ InCollect

(* RelayRecvAndHandleDeviceFrame.                                           *)
RelayRecvAndHandleDeviceFrame ==
  /\ pc = "device" /\ pc' = "receive"
  /\ IF replies = << >> THEN UNCHANGED <<collect, replies>>
     ELSE /\ collect' = [collect EXCEPT ![Head(replies).m] = Head(replies).st]
          /\ replies' = Tail(replies)
  /\ UNCHANGED <<at, bus, bounds>> /\ InCollect

-----------------------------------------------------------------------------
(* The panel's command (SetDO_State), one field after the other; its task    *)
(* runs when the RELAY task waits.                                          *)
Waiting == pc \in {"receive", "executing"}
ByPanel(m) == origin' = [origin EXCEPT ![m] = @ \cup {4}]
InMmi == UNCHANGED <<place, flags, last, task, collect, outside, held>>

MmiChannel ==
  /\ Waiting /\ mmi = Idle /\ Input
  /\ \E r \in MmiRequests :
       /\ mmi' = [step |-> "state", m |-> r.m, st |-> r.st]
       /\ current' = [current EXCEPT ![r.m].ch = Loops]
       /\ origin' = [origin EXCEPT ![r.m] = @ \cup {4, Unfinished}]
  /\ UNCHANGED <<controller, execute_immediately>> /\ InMmi

MmiWriteState ==
  /\ Waiting /\ mmi.step = "state"
  /\ mmi' = [mmi EXCEPT !.step = "controller"]
  /\ current' = [current EXCEPT ![mmi.m].st = mmi.st]
  /\ ByPanel(mmi.m)
  /\ UNCHANGED <<controller, execute_immediately, bounds>> /\ InMmi

MmiController ==
  /\ Waiting /\ mmi.step = "controller"
  /\ mmi' = [mmi EXCEPT !.step = "immediate"]
  /\ controller' = [controller EXCEPT ![mmi.m] = 4]
  /\ IF Unfinished \in origin[mmi.m] THEN origin' = [origin EXCEPT ![mmi.m] = {4}]
                                     ELSE ByPanel(mmi.m)
  /\ UNCHANGED <<current, execute_immediately, bounds>> /\ InMmi

MmiImmediate ==
  /\ Waiting /\ mmi.step = "immediate"
  /\ mmi' = Idle
  /\ execute_immediately' = [execute_immediately EXCEPT ![mmi.m] = TRUE]
  /\ UNCHANGED <<current, controller, origin, bounds>> /\ InMmi

MmiNext == MmiWriteState \/ MmiController \/ MmiImmediate

-----------------------------------------------------------------------------
(* The other tasks.                                                         *)
SetRunMode ==
  /\ Input
  /\ RunMode' \in RunModes \ {RunMode}
  /\ UNCHANGED <<place, RelayForceSwitchOffAllRelays, slot, temp, commands, last, task,
                 collect, mmi, outside, held>>

(* An alarm with a relay action, in the tasks of the input modules and the   *)
(* meters, which run when the RELAY task waits.                             *)
RaiseForce ==
  /\ CanForce /\ Waiting /\ ~RelayForceSwitchOffAllRelays /\ Input
  /\ RelayForceSwitchOffAllRelays' = TRUE
  /\ UNCHANGED <<place, RunMode, slot, temp, commands, last, task, collect, mmi, outside, held>>

(* The next hour of the strategy, or a new strategy group.                  *)
SlotChange ==
  /\ Input
  /\ slot' \in Slots \ {slot}
  /\ UNCHANGED <<place, RunMode, RelayForceSwitchOffAllRelays, temp, commands, last, task,
                 collect, mmi, outside, held>>

InBus == UNCHANGED <<place, flags, commands, last, task, collect, mmi, held, inputs>>

(* The RS485 task sends a frame up to three times and passes the answer on.  *)
Rs485Deliver ==
  /\ bus # << >> /\ bus' = Tail(bus)
  /\ LET f == Head(bus)
     IN IF f.query
        THEN /\ replies' = IF Len(replies) < BusSize
                           THEN Append(replies, [m |-> f.m, st |-> contacts[f.m]])
                           ELSE replies
             /\ UNCHANGED contacts
        ELSE /\ contacts' = [contacts EXCEPT ![f.m] = Switched(@, f.cmd, f.m)]
             /\ UNCHANGED replies
  /\ UNCHANGED <<missed, lost>> /\ InBus

OnBus(m, s) == \E i \in DOMAIN s : s[i].m = m /\ ~s[i].query

Rs485NoAnswer ==
  /\ bus # << >> /\ bus' = Tail(bus)
  /\ lost < MaxLost /\ lost' = lost + 1
  /\ LET f == Head(bus)
     IN missed' = IF f.query \/ OnBus(f.m, Tail(bus)) THEN missed ELSE missed \cup {f.m}
  /\ UNCHANGED <<replies, contacts>> /\ InBus

-----------------------------------------------------------------------------
Receive ==
  \/ \E r \in LoopRequests : RelayLoopControl(r)
  \/ \E g \in GroupRequests : RelayLoopGroupControl(g)
  \/ \E p \in TempPlans : RelaySetStrategyGroupSwitch(p)
  \/ RelaySetBasicConfiguration
  \/ NoMessage

RelayStep ==
  \/ Receive
  \/ RelayExecuteStrategyGroup \/ RelayExecuteTemporaryStrategyGroup \/ RelayCheckForce
  \/ Pass \/ Execute \/ ExecuteEnd \/ HoldBack \/ ExecuteDone
  \/ RelayCollectCurrentState \/ NotYetCollect \/ CollectModule \/ CollectDone
  \/ RelayRecvAndHandleDeviceFrame

Others == SetRunMode \/ RaiseForce \/ SlotChange
Bus == Rs485Deliver \/ Rs485NoAnswer

Next == RelayStep \/ MmiChannel \/ MmiNext \/ Others \/ Bus

Spec == Init /\ [][Next]_vars

(* The RELAY and the RS485 tasks loop for ever.  The panel's task finishes   *)
(* the command it writes: each loop of the RELAY task waits 100 ms.         *)
FairSpec == Spec /\ WF_vars(RelayStep) /\ WF_vars(Bus) /\ SF_vars(MmiNext)

-----------------------------------------------------------------------------
(* Nothing is left to do for module m.                                      *)
Writing(m) == mmi # Idle /\ mmi.m = m
Quiet(m) == ~Due(m) /\ ~Writing(m) /\ ~(pc = "executing" /\ at = m)

(* The relays of m are as command c says.                                   *)
Matches(m, c) == contacts[m] \cap c.ch \cap Wired[m] = c.st \cap c.ch \cap Wired[m]
Applied(m) == Matches(m, current[m])

(* A built-in module with nothing left to do has its relays as the current   *)
(* command says, unless the run mode held that command back: neither a panel *)
(* command written while the RELAY task waits in the midst of executing nor  *)
(* a mode change loses a command.                                           *)
QuietMeansApplied == \A m \in BuiltIn : Quiet(m) /\ m \notin held => Applied(m)

(* The same of a module on the bus, once its frames have left the queue and  *)
(* unless the last of them was lost: frames reach the module in the order of *)
(* the commands.                                                            *)
QuietMeansSent ==
  \A m \in Module \ BuiltIn :
    Quiet(m) /\ m \notin held \cup missed /\ ~OnBus(m, bus) => Applied(m)

(* Whether a command is executed or held back is what the run mode says of   *)
(* the one who gave it, 控制来源 of relay_conf.h:72; where a temporary        *)
(* strategy or the panel's writing, field by field and overtaken by others,  *)
(* has mixed the command of two or three, of one of them.                    *)
ModeObeyed ==
  [][pc = "execute" /\ at \in Module /\ Due(at) /\ place' # place =>
       \E s \in origin[at] \ {Unfinished} :
         Permitted(s, RunMode) <=> pc' = "executing"]_vars

(* Every command that is not being written has one source; a temporary       *)
(* strategy for another module than the first of its index, or a panel       *)
(* command overtaken by a message, refutes it.                               *)
OneSource == \A m \in Module : Writing(m) \/ \E s \in Source : origin[m] = {s}

(* What is collected, and reported, of a quiet built-in module is the state   *)
(* of the relays its last command was for, unless the run mode held it back. *)
CollectedIsCommanded ==
  [][\A m \in BuiltIn :
       collect'[m] # collect[m] /\ pc = "collecting" /\ Quiet(m) /\ m \notin held =>
         collect'[m] \cap current[m].ch \cap Wired[m]
           = contacts[m] \cap current[m].ch \cap Wired[m]]_vars

(* After an alarm asks for the switch-off the configured loops of each       *)
(* module are switched off, whatever the run mode, when no frame is lost     *)
(* (强制关闭所有继电器, task_relay.c:259).                                    *)
ForceSwitchesOff ==
  \A m \in Module :
    RelayForceSwitchOffAllRelays
      ~> contacts[m] \cap loop_channel_bit[m] \cap Wired[m] = {}

(* When no more commands come each of them is executed or held back once and *)
(* the relays rest.                                                         *)
Settles == \A m \in Module : <>[](Quiet(m) /\ ~OnBus(m, bus))

(* Message 0x0201 makes the current command of a module what the message     *)
(* last says for it.                                                        *)
CommandAsAsked ==
  [][\A r \in LoopRequests : RelayLoopControl(r) =>
       \A i \in DOMAIN r :
         (\A j \in DOMAIN r : r[j].m = r[i].m => j <= i) =>
            current'[r[i].m] = Mask(r[i].m, [ch |-> r[i].ch, st |-> r[i].st])]_vars
=============================================================================
