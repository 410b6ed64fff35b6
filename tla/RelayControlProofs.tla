------------------------ MODULE RelayControlProofs ------------------------
(***************************************************************************)
(* Proofs about RelayControl, for any modules, loops, strategies, messages  *)
(* and panel commands: the types, and that no command is lost, for a        *)
(* built-in module or for one on the bus; and about StrategySelect, that    *)
(* the group in force has the highest priority and its strategy is the one  *)
(* the clock is at, as long as its list is in order.                        *)
(***************************************************************************)
EXTENDS RelayControl, SequenceTheorems, NaturalsInduction, WellFoundedInduction, TLAPS

(* The last of the actions for a module is one of them.                     *)
LEMMA LastForExists ==
  ASSUME NEW S, NEW r \in Seq(S), NEW m, \E i \in DOMAIN r : r[i].m = m
  PROVE  LastFor(r, m) \in DOMAIN r /\ r[LastFor(r, m)].m = m
<1> DEFINE T == {n \in Nat : \E i \in DOMAIN r : r[i].m = m /\ n = Len(r) - i}
<1>0. DOMAIN r = 1 .. Len(r) /\ Len(r) \in Nat
  OBVIOUS
<1>1. T \subseteq Nat /\ T # {}
  <2>1. PICK i \in DOMAIN r : r[i].m = m
    OBVIOUS
  <2>2. Len(r) - i \in Nat
    BY <1>0, <2>1
  <2>3. QED BY <2>1, <2>2
<1>2. PICK n \in T : \A y \in T : ~(<<y, n>> \in OpToRel(<, Nat))
  BY <1>1, NatLessThanWellFounded, WFMin
<1>3. \A y \in T : ~(y < n)
  BY <1>1, <1>2 DEF OpToRel
<1>4. PICK i \in DOMAIN r : r[i].m = m /\ n = Len(r) - i
  BY <1>2
<1>5. ASSUME NEW j \in DOMAIN r, r[j].m = m PROVE j <= i
  <2>1. Len(r) - j \in Nat
    BY <1>0
  <2>2. Len(r) - j \in T
    BY <2>1, <1>5
  <2>3. ~(Len(r) - j < Len(r) - i)
    BY <2>2, <1>3, <1>4
  <2>4. QED BY <2>3, <1>0
<1>6. QED BY <1>4, <1>5 DEF LastFor

-----------------------------------------------------------------------------
(* Masked commands are commands.                                            *)
LEMMA MaskType ==
  ASSUME NEW m \in Module, NEW c PROVE Mask(m, c) \in Command
BY RelayAssumption DEF RelayAssumption, Mask, Command

(* So are those a message asks for, ...                                     *)
LEMMA AskedType ==
  ASSUME NEW r, NEW m \in Module, m \in DOMAIN Asked(r) PROVE Asked(r)[m] \in Command
BY MaskType DEF Asked

(* the loops of a group, ...                                                *)
LEMMA AskedGroupType ==
  ASSUME NEW g, NEW on, NEW m \in DOMAIN AskedGroup(g, on)
  PROVE  m \in Module /\ AskedGroup(g, on)[m] \in Command
BY MaskType DEF AskedGroup

(* ... the tasks of the hour, ...                                           *)
LEMMA TaskNowType ==
  ASSUME TypeOK PROVE TaskNow \in [Module -> Command]
<1>1. PICK S \in SUBSET Module : Plan[slot] \in [S -> Command]
  BY RelayAssumption DEF RelayAssumption, TypeOK
<1>2. ASSUME NEW m \in S
      PROVE  [ch |-> Plan[slot][m].ch \cap loop_enable[m], st |-> Plan[slot][m].st] \in Command
  BY <1>1 DEF Command
<1>3. QED BY <1>1, <1>2 DEF TaskNow, Replaced, TypeOK

(* ... those of a temporary strategy ...                                    *)
LEMMA TempForType ==
  ASSUME TypeOK, NEW m \in DOMAIN TempFor
  PROVE  m \in Module /\ TempFor[m] \in Command
<1>1. temp \in Seq([m : Module, cmd : Command])
  BY DEF TypeOK
<1>2. PICK i \in DOMAIN temp : temp[i].m = m
  BY DEF TempFor
<1>3. LastFor(temp, m) \in DOMAIN temp
  BY <1>1, <1>2, LastForExists
<1>4. temp[LastFor(temp, m)].cmd \in Command /\ m \in Module
  <2> DEFINE S == [m : Module, cmd : Command]
  <2>1. temp \in Seq(S)
    BY <1>1
  <2> HIDE DEF S
  <2>2. DOMAIN temp = 1 .. Len(temp)
    BY <2>1
  <2>3. \A j \in DOMAIN temp : temp[j] \in S
    BY <2>1, <2>2, ElementOfSeq
  <2>4. QED BY <1>2, <1>3, <2>3 DEF S
<1>5. QED BY <1>4 DEF TempFor, Command

(* ... and the forced switch-off.                                           *)
LEMMA AllOffType == AllOff \in [Module -> Command]
BY RelayAssumption DEF RelayAssumption, AllOff, Command

(* Origins are given a name of their own: its members are seldom of interest. *)
Origins == Source \cup {Unfinished}

(* The type of origin, by that name.                                        *)
LEMMA OriginType == TypeOK => origin \in [Module -> SUBSET Origins]
BY DEF TypeOK, Origins

(* Those who may be an origin.                                              *)
LEMMA OriginsHave ==
  {0, 1, 3, 4, 5, 6, Unfinished} \subseteq Origins /\ Source \subseteq Origins
BY DEF Origins, Source

(* A strategy for this hour and a temporary one leave origins.              *)
LEMMA OriginsAfterTempType == TypeOK => OriginsAfterTemp \in [Module -> SUBSET Origins]
BY OriginType, OriginsHave DEF OriginsAfterTemp

(* Giving commands keeps the types.                                         *)
LEMMA GiveType ==
  ASSUME TypeOK, NEW cmds, \A m \in Module \cap DOMAIN cmds : cmds[m] \in Command,
         NEW source \in Source, Give(cmds, source)
  PROVE  /\ current' \in [Module -> Command]
         /\ controller' \in [Module -> Source] /\ origin' \in [Module -> SUBSET Origins]
<1>1. current' \in [Module -> Command] /\ controller' \in [Module -> Source]
  BY DEF TypeOK, Give, Replaced, Marked
<1>2. origin' = Marked(origin, DOMAIN cmds, {source}) /\ {source} \in SUBSET Origins
  BY OriginsHave DEF Give
<1>3. QED BY <1>1, <1>2, OriginType DEF Marked

(* So does giving them for execution in the next pass.                      *)
LEMMA GiveNowType ==
  ASSUME TypeOK, NEW cmds, \A m \in Module \cap DOMAIN cmds : cmds[m] \in Command,
         NEW source \in Source, GiveNow(cmds, source)
  PROVE  /\ current' \in [Module -> Command]
         /\ controller' \in [Module -> Source] /\ origin' \in [Module -> SUBSET Origins]
         /\ execute_immediately' \in [Module -> BOOLEAN]
BY GiveType DEF TypeOK, GiveNow, Marked

(* Switching relays leaves a set of loops.                                  *)
LEMMA SwitchedType ==
  ASSUME NEW m \in Module, NEW on \in SUBSET Loops, NEW c \in Command
  PROVE  Switched(on, c, m) \in SUBSET Loops
BY RelayAssumption DEF RelayAssumption, Switched, Command

(* The counts of inputs and of lost frames stay within their bounds.         *)
LEMMA InputType ==
  ASSUME TypeOK, Input PROVE inputs' \in 0 .. MaxInputs /\ lost' \in 0 .. MaxLost
BY RelayAssumption DEF RelayAssumption, TypeOK, Input

(* No request at all is a command too, the empty one.                       *)
LEMMA NoCommandType == NoCommand \in Command
BY DEF NoCommand, Command

(* The state after start-up.                                                *)
LEMMA TypeInit == Init => TypeOK
<1> SUFFICES ASSUME Init PROVE TypeOK
  OBVIOUS
<1>1. /\ current \in [Module -> Command] /\ last \in [Module -> Command]
      /\ task \in [Module -> Command]
  BY NoCommandType DEF Init
<1>2. /\ controller \in [Module -> Source] /\ origin \in [Module -> SUBSET Origins]
      /\ execute_immediately \in [Module -> BOOLEAN]
      /\ collect \in [Module -> SUBSET Loops] /\ contacts \in [Module -> SUBSET Loops]
  BY OriginsHave DEF Init, Source
<1>3. /\ bus \in Seq(Frame) /\ Len(bus) <= BusSize
      /\ replies \in Seq([m : Module, st : SUBSET Loops])
      /\ temp \in Seq([m : Module, cmd : Command])
  BY RelayAssumption DEF RelayAssumption, Init
<1>4. /\ at \in 1 .. NumModules + 1 /\ RunMode \in Mode /\ slot \in Slots
      /\ pc = "receive" /\ RelayForceSwitchOffAllRelays \in BOOLEAN
      /\ inputs \in 0 .. MaxInputs /\ lost \in 0 .. MaxLost
  <2>1. NumModules \in Nat /\ RunModes \subseteq Mode /\ MaxInputs \in Nat /\ MaxLost \in Nat
    BY RelayAssumption DEF RelayAssumption
  <2>2. /\ at = 1 /\ RunMode \in RunModes /\ slot \in Slots /\ pc = "receive"
        /\ RelayForceSwitchOffAllRelays = FALSE /\ inputs = 0 /\ lost = 0
    BY DEF Init
  <2>3. 1 \in 1 .. NumModules + 1 /\ 0 \in 0 .. MaxInputs /\ 0 \in 0 .. MaxLost
    BY <2>1
  <2>4. RelayForceSwitchOffAllRelays \in BOOLEAN
    BY <2>2
  <2>5. QED BY <2>1, <2>2, <2>3, <2>4
<1>5. mmi \in MmiState \cup {Idle} /\ held \in SUBSET Module /\ missed \in SUBSET Module
  BY DEF Init
<1>6. QED BY <1>1, <1>2, <1>3, <1>4, <1>5 DEF TypeOK, Origins

(* Every action keeps the types.                                            *)
LEMMA TypeReceive == TypeOK /\ Receive => TypeOK'
<1> SUFFICES ASSUME TypeOK, Receive PROVE TypeOK'
  OBVIOUS
<1>0. pc' = "strategy" /\ UNCHANGED <<at, RunMode, RelayForceSwitchOffAllRelays, slot, mmi,
                                      outside, held>>
  BY DEF Receive, RelayLoopControl, RelayLoopGroupControl, RelaySetStrategyGroupSwitch,
     RelaySetBasicConfiguration, NoMessage, Received
<1>1. CASE \E r \in LoopRequests : RelayLoopControl(r)
  <2>1. PICK r \in LoopRequests : RelayLoopControl(r)
    BY <1>1
  <2>2. GiveNow(Asked(r), 1) /\ Input /\ UNCHANGED <<temp, last, task, collect>>
    BY <2>1 DEF RelayLoopControl
  <2>3. /\ current' \in [Module -> Command]
        /\ controller' \in [Module -> Source] /\ origin' \in [Module -> SUBSET Origins]
        /\ execute_immediately' \in [Module -> BOOLEAN]
    BY <2>2, GiveNowType, AskedType DEF Source
  <2>4. inputs' \in 0 .. MaxInputs /\ lost' \in 0 .. MaxLost
    BY <2>2, InputType
  <2>5. QED BY <1>0, <2>2, <2>3, <2>4 DEF TypeOK, outside, Origins
<1>2. CASE \E g \in GroupRequests : RelayLoopGroupControl(g)
  <2>1. PICK g \in GroupRequests : RelayLoopGroupControl(g)
    BY <1>2
  <2>2. GiveNow(AskedGroup(g.groups, g.on), 1) /\ Input /\ UNCHANGED <<temp, last, task, collect>>
    BY <2>1 DEF RelayLoopGroupControl
  <2>3. /\ current' \in [Module -> Command]
        /\ controller' \in [Module -> Source] /\ origin' \in [Module -> SUBSET Origins]
        /\ execute_immediately' \in [Module -> BOOLEAN]
    BY <2>2, GiveNowType, AskedGroupType DEF Source
  <2>4. inputs' \in 0 .. MaxInputs /\ lost' \in 0 .. MaxLost
    BY <2>2, InputType
  <2>5. QED BY <1>0, <2>2, <2>3, <2>4 DEF TypeOK, outside, Origins
<1>3. CASE \E p \in TempPlans : RelaySetStrategyGroupSwitch(p)
  BY <1>0, <1>3, InputType, RelayAssumption
  DEF TypeOK, RelayAssumption, RelaySetStrategyGroupSwitch, outside, commands
<1>4. CASE RelaySetBasicConfiguration
  <2>1. /\ current' \in [Module -> Command] /\ last' \in [Module -> Command]
        /\ task' \in [Module -> Command]
    BY <1>4, NoCommandType DEF RelaySetBasicConfiguration
  <2>2. /\ controller' \in [Module -> Source] /\ origin' \in [Module -> SUBSET Origins]
        /\ execute_immediately' \in [Module -> BOOLEAN] /\ collect' \in [Module -> SUBSET Loops]
        /\ temp' = temp /\ Input
    BY <1>4, OriginsHave DEF RelaySetBasicConfiguration, Source
  <2>3. QED BY <1>0, <2>1, <2>2, InputType DEF TypeOK, outside, Origins
<1>5. CASE NoMessage
  BY <1>0, <1>5 DEF TypeOK, NoMessage, outside, commands, bounds
<1>6. QED BY <1>1, <1>2, <1>3, <1>4, <1>5 DEF Receive

(* The strategies and the check of the forced switch-off keep the types.    *)
LEMMA TypeStrategies ==
  ASSUME TypeOK,
         RelayExecuteStrategyGroup \/ RelayExecuteTemporaryStrategyGroup \/ RelayCheckForce
  PROVE  TypeOK'
<1>1. CASE RelayExecuteStrategyGroup
  <2>1. Give([m \in Changed |-> TaskNow[m]], 6) /\ task' = TaskNow
    BY <1>1 DEF RelayExecuteStrategyGroup
  <2>2. \A m \in Module \cap DOMAIN [n \in Changed |-> TaskNow[n]] :
          [n \in Changed |-> TaskNow[n]][m] \in Command
    BY TaskNowType
  <2>3. QED BY <1>1, <2>1, <2>2, GiveType, TaskNowType
            DEF TypeOK, Origins, RelayExecuteStrategyGroup, Source, flags, outside, bounds
<1>2. CASE RelayExecuteTemporaryStrategyGroup
  <2>1. current' \in [Module -> Command]
    BY <1>2, TempForType DEF RelayExecuteTemporaryStrategyGroup, Replaced, TypeOK
  <2>2. controller' \in [Module -> Source] /\ origin' \in [Module -> SUBSET Origins]
    BY <1>2, OriginsAfterTempType DEF RelayExecuteTemporaryStrategyGroup, Marked, TypeOK, Source
  <2>3. temp' \in Seq([m : Module, cmd : Command])
    BY <1>2 DEF RelayExecuteTemporaryStrategyGroup
  <2>4. QED BY <1>2, <2>1, <2>2, <2>3
            DEF TypeOK, Origins, RelayExecuteTemporaryStrategyGroup, outside, bounds
<1>3. CASE RelayCheckForce
  <2>1. at' \in 1 .. NumModules + 1
    BY <1>3, RelayAssumption DEF RelayAssumption, RelayCheckForce
  <2>2. CASE RelayForceSwitchOffAllRelays
    <3>1. GiveNow(AllOff, 5) /\ last' = [m \in Module |-> NoCommand]
      BY <1>3, <2>2 DEF RelayCheckForce
    <3>2. last' \in [Module -> Command]
      BY <3>1, NoCommandType
    <3>3. \A m \in Module \cap DOMAIN AllOff : AllOff[m] \in Command
      BY AllOffType
    <3>4. /\ current' \in [Module -> Command]
          /\ controller' \in [Module -> Source] /\ origin' \in [Module -> SUBSET Origins]
          /\ execute_immediately' \in [Module -> BOOLEAN]
      BY <3>1, <3>3, GiveNowType DEF Source
    <3>5. QED BY <1>3, <2>1, <3>2, <3>4 DEF TypeOK, Origins, RelayCheckForce, outside, bounds
  <2>3. CASE ~RelayForceSwitchOffAllRelays
    BY <1>3, <2>1, <2>3 DEF TypeOK, RelayCheckForce, commands, outside, bounds
  <2>4. QED BY <2>2, <2>3
<1>4. QED BY <1>1, <1>2, <1>3

(* The RELAY task executes only for a module.                               *)
ExecutingIsModule == pc = "executing" => at \in Module

(* Appending a frame the queue has room for, or taking one, keeps its type. *)
LEMMA BusAppend ==
  ASSUME TypeOK, NEW f \in Frame, Len(bus) < BusSize, bus' = Append(bus, f)
  PROVE  bus' \in Seq(Frame) /\ Len(bus') <= BusSize
<1>1. bus \in Seq(Frame) /\ BusSize \in Nat
  BY RelayAssumption DEF RelayAssumption, TypeOK
<1>2. QED BY <1>1, AppendProperties

(* What the RS485 task takes from its queue is a frame, and shortens it.    *)
LEMMA BusTail ==
  ASSUME TypeOK, bus # << >>, bus' = Tail(bus)
  PROVE  /\ bus' \in Seq(Frame) /\ Len(bus') <= BusSize
         /\ Head(bus) \in Frame
<1>1. bus \in Seq(Frame) /\ BusSize \in Nat /\ Len(bus) <= BusSize
  BY RelayAssumption DEF RelayAssumption, TypeOK
<1>2. QED BY <1>1, HeadTailProperties

(* A frame names a module and carries a command.                            *)
LEMMA FrameType ==
  ASSUME NEW m \in Module, NEW q \in BOOLEAN, NEW c \in Command
  PROVE  [m |-> m, query |-> q, cmd |-> c] \in Frame
BY DEF Frame

(* In the loop over the modules `at' is a module or one past the last.      *)
LEMMA AtModule ==
  ASSUME TypeOK, at <= NumModules
  PROVE  at \in Module /\ at + 1 \in 1 .. NumModules + 1
BY RelayAssumption DEF RelayAssumption, TypeOK, Module

(* Executing the commands keeps the types, ...                              *)
LEMMA TypeExecute ==
  ASSUME TypeOK, ExecutingIsModule,
         Pass \/ Execute \/ ExecuteEnd \/ HoldBack \/ ExecuteDone
  PROVE  TypeOK'
<1>a. NumModules \in Nat /\ MaxLost \in Nat /\ BusSize \in Nat
  BY RelayAssumption DEF RelayAssumption
<1>b. UNCHANGED <<flags, current, controller, origin, task, collect, mmi, replies, inputs>>
  BY DEF Pass, Execute, ExecuteEnd, HoldBack, ExecuteDone, InExecute
<1>c. at \in 1 .. NumModules + 1 /\ current \in [Module -> Command] /\ last \in [Module -> Command]
      /\ execute_immediately \in [Module -> BOOLEAN]
  BY DEF TypeOK
<1>1. CASE Pass
  BY <1>1, <1>b, AtModule DEF TypeOK, Pass, flags
<1>2. CASE Execute
  <2>1. at \in Module /\ execute_immediately' \in [Module -> BOOLEAN]
        /\ held' \in SUBSET Module
    BY <1>2, <1>c, AtModule DEF Execute, TypeOK
  <2>2. /\ contacts' \in [Module -> SUBSET Loops]
        /\ bus' \in Seq(Frame) /\ Len(bus') <= BusSize
        /\ missed' \in SUBSET Module /\ lost' \in 0 .. MaxLost
    <3>1. CASE at \in BuiltIn
      <4>1. ControlAllBuiltInRelay(at)
        BY <1>2, <3>1 DEF Execute
      <4>2. Switched(contacts[at], current[at], at) \in SUBSET Loops
        BY <2>1, <1>c, SwitchedType DEF TypeOK
      <4>3. QED BY <4>1, <4>2, <2>1 DEF ControlAllBuiltInRelay, TypeOK
    <3>2. CASE at \notin BuiltIn
      <4>1. ControlAllBuiltOutRelay(at)
        BY <1>2, <3>2 DEF Execute
      <4>2. [m |-> at, query |-> FALSE, cmd |-> current[at]] \in Frame
        BY <2>1, <1>c, FrameType
      <4>3. CASE Len(bus) < BusSize
                 /\ bus' = Append(bus, [m |-> at, query |-> FALSE, cmd |-> current[at]])
                 /\ missed' = missed \ {at} /\ UNCHANGED <<lost, contacts>>
        BY <4>2, <4>3, BusAppend DEF TypeOK
      <4>4. CASE lost < MaxLost /\ lost' = lost + 1
                 /\ missed' = missed \cup {at} /\ UNCHANGED <<bus, contacts>>
        BY <4>4, <1>a, <2>1 DEF TypeOK
      <4>5. QED BY <4>1, <4>3, <4>4 DEF ControlAllBuiltOutRelay
    <3>3. QED BY <3>1, <3>2
  <2>3. pc' = "executing" /\ UNCHANGED <<at, last>>
    BY <1>2 DEF Execute
  <2>4. QED BY <1>b, <2>1, <2>2, <2>3 DEF TypeOK, flags
<1>3. CASE ExecuteEnd
  <2>1. at \in Module /\ at <= NumModules
    BY <1>3, <1>a DEF ExecuteEnd, ExecutingIsModule, Module
  <2>2. last' \in [Module -> Command]
    BY <1>3, <1>c, <2>1 DEF ExecuteEnd, Executed
  <2>3. at' \in 1 .. NumModules + 1
    BY <1>3, <2>1, AtModule DEF ExecuteEnd
  <2>4. QED BY <1>3, <1>b, <2>2, <2>3 DEF TypeOK, ExecuteEnd, flags
<1>4. CASE HoldBack
  <2>1. at \in Module /\ at + 1 \in 1 .. NumModules + 1
    BY <1>4, AtModule DEF HoldBack
  <2>2. /\ last' \in [Module -> Command] /\ execute_immediately' \in [Module -> BOOLEAN]
        /\ held' \in SUBSET Module /\ at' \in 1 .. NumModules + 1
    BY <1>4, <1>c, <2>1 DEF HoldBack, Executed, TypeOK
  <2>3. QED BY <1>4, <1>b, <2>2 DEF TypeOK, HoldBack, flags
<1>5. CASE ExecuteDone
  <2>1. at' \in 1 .. NumModules + 1 /\ pc' = "collect"
    BY <1>5, <1>a DEF ExecuteDone
  <2>2. QED BY <1>5, <1>b, <2>1 DEF TypeOK, ExecuteDone, flags
<1>6. QED BY <1>1, <1>2, <1>3, <1>4, <1>5

(* ... as do collecting the states and taking an answer from a module, ...  *)
LEMMA TypeCollect ==
  ASSUME TypeOK,
         RelayCollectCurrentState \/ NotYetCollect \/ CollectModule \/ CollectDone
           \/ RelayRecvAndHandleDeviceFrame
  PROVE  TypeOK'
<1>a. UNCHANGED <<flags, commands, last, task, mmi, contacts, missed, held>>
  BY DEF RelayCollectCurrentState, NotYetCollect, CollectModule, CollectDone,
     RelayRecvAndHandleDeviceFrame, InCollect
<1>1. CASE RelayCollectCurrentState
  BY <1>1, <1>a, InputType DEF TypeOK, RelayCollectCurrentState, flags, commands
<1>2. CASE NotYetCollect
  BY <1>2, <1>a DEF TypeOK, NotYetCollect, flags, commands, bounds
<1>3. CASE CollectModule
  <2>1. at \in Module /\ at' \in 1 .. NumModules + 1
    BY <1>3, AtModule DEF CollectModule
  <2>2. collect' \in [Module -> SUBSET Loops]
    <3>1. current[at].st \in SUBSET Loops
      BY <2>1 DEF TypeOK, Command
    <3>2. QED BY <1>3, <2>1, <3>1 DEF CollectModule, CollectedState, TypeOK
  <2>3. bus' \in Seq(Frame) /\ Len(bus') <= BusSize
    <3>1. [m |-> at, query |-> TRUE, cmd |-> NoCommand] \in Frame
      BY <2>1, FrameType, NoCommandType
    <3>2. CASE bus' = bus
      BY <3>2 DEF TypeOK
    <3>3. CASE Len(bus) < BusSize
               /\ bus' = Append(bus, [m |-> at, query |-> TRUE, cmd |-> NoCommand])
      BY <3>1, <3>3, BusAppend
    <3>4. QED BY <1>3, <3>2, <3>3 DEF CollectModule, GetBuiltOutRelayState
  <2>4. pc' = pc /\ replies' = replies /\ UNCHANGED bounds
    BY <1>3 DEF CollectModule
  <2>5. QED BY <1>a, <2>1, <2>2, <2>3, <2>4 DEF TypeOK, flags, commands, bounds
<1>4. CASE CollectDone
  BY <1>4, <1>a DEF TypeOK, CollectDone, flags, commands, bounds
<1>5. CASE RelayRecvAndHandleDeviceFrame
  <2> DEFINE R == [m : Module, st : SUBSET Loops]
  <2>1. replies \in Seq(R) /\ collect \in [Module -> SUBSET Loops]
    BY DEF TypeOK
  <2>2. replies' \in Seq(R) /\ collect' \in [Module -> SUBSET Loops]
    <3>1. CASE replies = << >>
      BY <1>5, <2>1, <3>1 DEF RelayRecvAndHandleDeviceFrame
    <3>2. CASE replies # << >>
      <4> HIDE DEF R
      <4>1. Head(replies) \in R /\ Tail(replies) \in Seq(R)
        BY <2>1, <3>2, HeadTailProperties
      <4>2. Head(replies).m \in Module /\ Head(replies).st \in SUBSET Loops
        BY <4>1 DEF R
      <4>3. QED BY <1>5, <2>1, <3>2, <4>1, <4>2 DEF RelayRecvAndHandleDeviceFrame
    <3>3. QED BY <3>1, <3>2
  <2>3. pc' = "receive" /\ UNCHANGED <<at, bus, bounds>>
    BY <1>5 DEF RelayRecvAndHandleDeviceFrame
  <2>4. QED BY <1>a, <2>2, <2>3 DEF TypeOK, flags, commands, bounds
<1>6. QED BY <1>1, <1>2, <1>3, <1>4, <1>5

(* A panel command that is not idle has a module and a state.               *)
LEMMA MmiType ==
  ASSUME TypeOK, NEW r \in {"state", "controller", "immediate"}, mmi.step = r
  PROVE  mmi \in MmiState
<1>1. mmi # Idle
  BY DEF Idle
<1>2. QED BY <1>1 DEF TypeOK

(* ... the commands of the panel, ...                                       *)
LEMMA TypeMmi ==
  ASSUME TypeOK, MmiChannel \/ MmiNext
  PROVE  TypeOK'
<1>a. UNCHANGED <<place, flags, last, task, collect, outside, held>>
  BY DEF MmiChannel, MmiNext, MmiWriteState, MmiController, MmiImmediate, InMmi
<1>b. current \in [Module -> Command] /\ origin \in [Module -> SUBSET Origins]
      /\ controller \in [Module -> Source] /\ execute_immediately \in [Module -> BOOLEAN]
  BY OriginType DEF TypeOK
<1>1. CASE MmiChannel
  <2>1. PICK r \in MmiRequests :
          /\ mmi' = [step |-> "state", m |-> r.m, st |-> r.st]
          /\ current' = [current EXCEPT ![r.m].ch = Loops]
          /\ origin' = [origin EXCEPT ![r.m] = @ \cup {4, Unfinished}]
    BY <1>1 DEF MmiChannel
  <2>2. r.m \in Module /\ r.st \in SUBSET Loops
    BY RelayAssumption DEF RelayAssumption
  <2>3. mmi' \in MmiState
    BY <2>1, <2>2 DEF MmiState
  <2>4. current' \in [Module -> Command]
    BY <1>b, <2>1, <2>2 DEF Command
  <2>5. origin' \in [Module -> SUBSET Origins]
    BY <1>b, <2>1, <2>2, OriginsHave
  <2>6. QED BY <1>1, <1>a, <2>3, <2>4, <2>5, InputType
            DEF TypeOK, Origins, MmiChannel, place, flags, outside
<1>2. CASE MmiWriteState
  <2>1. mmi \in MmiState
    BY <1>2, MmiType DEF MmiWriteState
  <2>2. mmi' \in MmiState /\ mmi.m \in Module /\ mmi.st \in SUBSET Loops
    BY <1>2, <2>1 DEF MmiWriteState, MmiState
  <2>3. current' \in [Module -> Command]
    BY <1>b, <1>2, <2>2 DEF MmiWriteState, Command
  <2>4. origin' \in [Module -> SUBSET Origins]
    BY <1>b, <1>2, <2>2, OriginsHave DEF MmiWriteState, ByPanel
  <2>5. QED BY <1>2, <1>a, <2>2, <2>3, <2>4
            DEF TypeOK, Origins, MmiWriteState, place, flags, outside, bounds
<1>3. CASE MmiController
  <2>1. mmi \in MmiState
    BY <1>3, MmiType DEF MmiController
  <2>2. mmi' \in MmiState /\ mmi.m \in Module
    BY <1>3, <2>1 DEF MmiController, MmiState
  <2>3. controller' \in [Module -> Source]
    BY <1>b, <1>3, <2>2 DEF MmiController, Source
  <2>4. origin' \in [Module -> SUBSET Origins]
    BY <1>b, <1>3, <2>2, OriginsHave DEF MmiController, ByPanel
  <2>5. QED BY <1>3, <1>a, <2>2, <2>3, <2>4
            DEF TypeOK, Origins, MmiController, place, flags, outside, bounds
<1>4. CASE MmiImmediate
  <2>1. mmi \in MmiState
    BY <1>4, MmiType DEF MmiImmediate
  <2>2. mmi.m \in Module
    BY <2>1 DEF MmiState
  <2>3. execute_immediately' \in [Module -> BOOLEAN]
    BY <1>b, <1>4, <2>2 DEF MmiImmediate
  <2>4. QED BY <1>4, <1>a, <2>3 DEF TypeOK, MmiImmediate, place, flags, outside, bounds
<1>5. QED BY <1>1, <1>2, <1>3, <1>4 DEF MmiNext

(* ... the flags that other tasks and the clock write, ...                  *)
LEMMA TypeOthers ==
  ASSUME TypeOK, Others
  PROVE  TypeOK'
<1>1. CASE SetRunMode
  BY <1>1, InputType, RelayAssumption
  DEF RelayAssumption, TypeOK, SetRunMode, place, commands, outside
<1>2. CASE RaiseForce
  BY <1>2, InputType DEF TypeOK, RaiseForce, place, commands, outside
<1>3. CASE SlotChange
  BY <1>3, InputType DEF TypeOK, SlotChange, place, commands, outside
<1>4. QED BY <1>1, <1>2, <1>3 DEF Others

(* ... and the frames on the RS485 bus.                                     *)
LEMMA TypeBus ==
  ASSUME TypeOK, Bus
  PROVE  TypeOK'
<1> DEFINE f == Head(bus)
           R == [m : Module, st : SUBSET Loops]
<1>a. UNCHANGED <<place, flags, commands, last, task, collect, mmi, held, inputs>>
  BY DEF Bus, Rs485Deliver, Rs485NoAnswer, InBus
<1>b. bus # << >> /\ bus' = Tail(bus)
  BY DEF Bus, Rs485Deliver, Rs485NoAnswer
<1>c. bus' \in Seq(Frame) /\ Len(bus') <= BusSize /\ f \in Frame
  BY <1>b, BusTail
<1>d. f.m \in Module /\ f.query \in BOOLEAN /\ f.cmd \in Command
  BY <1>c DEF Frame
<1> HIDE DEF f
<1>1. CASE Rs485Deliver
  <2>1. CASE f.query
    <3>1. [m |-> f.m, st |-> contacts[f.m]] \in R
      BY <1>d DEF TypeOK
    <3>2. replies \in Seq(R) /\ contacts' = contacts
      BY <1>1, <2>1 DEF TypeOK, Rs485Deliver, f
    <3>3. replies' = replies \/ replies' = Append(replies, [m |-> f.m, st |-> contacts[f.m]])
      BY <1>1, <2>1 DEF Rs485Deliver, f
    <3> HIDE DEF R
    <3>4. replies' \in Seq(R)
      BY <3>1, <3>2, <3>3, AppendProperties
    <3>5. UNCHANGED <<missed, lost>>
      BY <1>1 DEF Rs485Deliver
    <3> USE DEF R
    <3>6. QED BY <1>a, <1>c, <3>2, <3>4, <3>5 DEF TypeOK, place, flags, commands
  <2>2. CASE ~f.query
    <3>1. Switched(contacts[f.m], f.cmd, f.m) \in SUBSET Loops
      BY <1>d, SwitchedType DEF TypeOK
    <3>2. contacts' \in [Module -> SUBSET Loops] /\ UNCHANGED <<replies, missed, lost>>
      BY <1>1, <1>d, <2>2, <3>1 DEF TypeOK, Rs485Deliver, f
    <3>3. QED BY <1>a, <1>c, <3>2 DEF TypeOK, place, flags, commands
  <2>3. QED BY <2>1, <2>2
<1>2. CASE Rs485NoAnswer
  <2>1. lost' \in 0 .. MaxLost
    BY <1>2, RelayAssumption DEF RelayAssumption, TypeOK, Rs485NoAnswer
  <2>2. missed' \in SUBSET Module /\ UNCHANGED <<replies, contacts>>
    BY <1>2, <1>d DEF TypeOK, Rs485NoAnswer, f
  <2>3. QED BY <1>a, <1>c, <2>1, <2>2 DEF TypeOK, place, flags, commands
<1>3. QED BY <1>1, <1>2 DEF Bus

(* The task starts executing, and waits, only at a module.                  *)
LEMMA ExecutingNext ==
  ASSUME TypeOK, ExecutingIsModule, [Next]_vars PROVE ExecutingIsModule'
<1>1. CASE Execute
  BY <1>1, AtModule DEF ExecutingIsModule, Execute, Module
<1>2. CASE pc' # "executing"
  BY <1>2 DEF ExecutingIsModule
<1>3. CASE UNCHANGED place
  BY <1>3 DEF ExecutingIsModule, place
<1>4. CASE pc' = pc /\ pc \in {"execute", "collecting"}
  BY <1>4 DEF ExecutingIsModule
<1>5. Execute \/ pc' # "executing" \/ UNCHANGED place
      \/ (pc' = pc /\ pc \in {"execute", "collecting"})
  <2>1. Receive => pc' = "strategy"
    BY DEF Receive, RelayLoopControl, RelayLoopGroupControl, RelaySetStrategyGroupSwitch,
       RelaySetBasicConfiguration, NoMessage, Received
  <2>2. RelayExecuteStrategyGroup \/ RelayExecuteTemporaryStrategyGroup \/ RelayCheckForce
          => pc' # "executing"
    BY DEF RelayExecuteStrategyGroup, RelayExecuteTemporaryStrategyGroup, RelayCheckForce
  <2>3. Pass \/ HoldBack \/ CollectModule => pc' = pc /\ pc \in {"execute", "collecting"}
    BY DEF Pass, HoldBack, CollectModule
  <2>4. ExecuteEnd \/ ExecuteDone \/ RelayCollectCurrentState \/ NotYetCollect \/ CollectDone
          \/ RelayRecvAndHandleDeviceFrame => pc' # "executing"
    BY DEF ExecuteEnd, ExecuteDone, RelayCollectCurrentState, NotYetCollect, CollectDone,
       RelayRecvAndHandleDeviceFrame
  <2>5. MmiChannel \/ MmiNext => UNCHANGED place
    BY DEF MmiChannel, MmiNext, MmiWriteState, MmiController, MmiImmediate, InMmi
  <2>6. Others => UNCHANGED place
    BY DEF Others, SetRunMode, RaiseForce, SlotChange
  <2>7. Bus => UNCHANGED place
    BY DEF Bus, Rs485Deliver, Rs485NoAnswer, InBus
  <2>8. UNCHANGED vars => UNCHANGED place
    BY DEF vars
  <2>9. QED BY <2>1, <2>2, <2>3, <2>4, <2>5, <2>6, <2>7, <2>8 DEF Next, RelayStep
<1>6. QED BY <1>1, <1>2, <1>3, <1>4, <1>5

(* Together: no step leaves the types.                                      *)
LEMMA TypeNext == TypeOK /\ ExecutingIsModule /\ [Next]_vars => TypeOK'
<1> SUFFICES ASSUME TypeOK, ExecutingIsModule, [Next]_vars PROVE TypeOK'
  OBVIOUS
<1>1. CASE UNCHANGED vars
  BY <1>1 DEF TypeOK, vars, place, flags, commands, outside, bounds
<1>2. CASE Next
  BY <1>2, TypeReceive, TypeStrategies, TypeExecute, TypeCollect, TypeMmi, TypeOthers, TypeBus
  DEF Next, RelayStep
<1>3. QED BY <1>1, <1>2

(* The state of the relays always has its type: the index of the module      *)
(* being executed and the queue of the RS485 task stay within their limits.  *)
THEOREM TypeCorrect == Spec => []TypeOK
<1>1. Init => ExecutingIsModule
  BY DEF Init, ExecutingIsModule
<1>2. TypeOK /\ ExecutingIsModule /\ [Next]_vars => ExecutingIsModule'
  BY ExecutingNext
<1>3. QED BY <1>1, <1>2, TypeInit, TypeNext, PTL DEF Spec

-----------------------------------------------------------------------------
(* Why it holds: the relays of a built-in module match the last command      *)
(* executed, unless more is coming for it, and while one is being executed   *)
(* the current command is applied or written anew.                          *)
LastMatches ==
  \A m \in BuiltIn :
    \/ m \in held \/ Matches(m, last[m])
    \/ execute_immediately[m] \/ Writing(m)
    \/ pc = "executing" /\ at = m

ExecutingApplies ==
  pc = "executing" /\ at \in BuiltIn =>
    Applied(at) \/ execute_immediately[at] \/ Writing(at)

FramesGoOut == \A i \in 1 .. Len(bus) : bus[i].query \/ bus[i].m \notin BuiltIn

ApplyInv == FramesGoOut /\ LastMatches /\ ExecutingApplies

(* At start-up no command has been executed, and all relays are off.        *)
LEMMA ApplyInit == Init => ApplyInv
<1> SUFFICES ASSUME Init PROVE ApplyInv
  OBVIOUS
<1>1. FramesGoOut
  BY DEF Init, FramesGoOut
<1>2. LastMatches
  <2>1. \A m \in BuiltIn : last[m] = NoCommand
    BY RelayAssumption DEF RelayAssumption, Init
  <2>2. QED BY <2>1 DEF LastMatches, Matches, NoCommand
<1>3. ExecutingApplies
  BY DEF Init, ExecutingApplies
<1>4. QED BY <1>1, <1>2, <1>3 DEF ApplyInv

(* The RELAY task puts only modules of the bus in the queue, and queries.   *)
LEMMA FramesNext ==
  ASSUME TypeOK, FramesGoOut, [Next]_vars PROVE FramesGoOut'
<1>a. bus \in Seq(Frame)
  BY DEF TypeOK
<1>1. ASSUME NEW f \in Frame, f.query \/ f.m \notin BuiltIn, bus' = Append(bus, f)
      PROVE  FramesGoOut'
  <2>1. /\ Len(bus') = Len(bus) + 1 /\ bus'[Len(bus) + 1] = f
        /\ \A i \in 1 .. Len(bus) : bus'[i] = bus[i]
    BY <1>a, <1>1, AppendProperties
  <2>2. Len(bus) \in Nat
    BY <1>a
  <2>3. \A i \in 1 .. Len(bus') : i \in 1 .. Len(bus) \/ i = Len(bus) + 1
    BY <2>1, <2>2
  <2>4. QED BY <1>1, <2>1, <2>3 DEF FramesGoOut
<1>2. ASSUME bus # << >>, bus' = Tail(bus) PROVE FramesGoOut'
  <2>1. Len(bus') = Len(bus) - 1 /\ \A i \in 1 .. Len(bus') : bus'[i] = bus[i + 1]
    BY <1>a, <1>2, HeadTailProperties
  <2>2. Len(bus) \in Nat
    BY <1>a
  <2>3. \A i \in 1 .. Len(bus') : i + 1 \in 1 .. Len(bus)
    BY <2>1, <2>2
  <2>4. QED BY <2>1, <2>3 DEF FramesGoOut
<1>3. CASE Execute
  <2>1. at \in Module /\ current[at] \in Command
    BY <1>3, AtModule DEF Execute, TypeOK
  <2>2. [m |-> at, query |-> FALSE, cmd |-> current[at]] \in Frame
    BY <2>1, FrameType
  <2>3. bus' = bus
        \/ (at \notin BuiltIn
            /\ bus' = Append(bus, [m |-> at, query |-> FALSE, cmd |-> current[at]]))
    BY <1>3 DEF Execute, ControlAllBuiltInRelay, ControlAllBuiltOutRelay
  <2>4. QED BY <1>1, <2>2, <2>3 DEF FramesGoOut
<1>4. CASE CollectModule
  <2>1. [m |-> at, query |-> TRUE, cmd |-> NoCommand] \in Frame
    BY <1>4, AtModule, FrameType, NoCommandType DEF CollectModule
  <2>2. bus' = bus \/ bus' = Append(bus, [m |-> at, query |-> TRUE, cmd |-> NoCommand])
    BY <1>4 DEF CollectModule, GetBuiltOutRelayState
  <2>3. QED BY <1>1, <2>1, <2>2 DEF FramesGoOut
<1>5. CASE Bus
  BY <1>2, <1>5 DEF Bus, Rs485Deliver, Rs485NoAnswer
<1>6. CASE bus' = bus
  BY <1>6 DEF FramesGoOut
<1>7. Execute \/ CollectModule \/ Bus \/ bus' = bus
  <2>1. Receive => bus' = bus
    BY DEF Receive, RelayLoopControl, RelayLoopGroupControl, RelaySetStrategyGroupSwitch,
       RelaySetBasicConfiguration, NoMessage, Received, outside
  <2>2. RelayExecuteStrategyGroup \/ RelayExecuteTemporaryStrategyGroup \/ RelayCheckForce
          => bus' = bus
    BY DEF RelayExecuteStrategyGroup, RelayExecuteTemporaryStrategyGroup, RelayCheckForce, outside
  <2>3. Pass \/ HoldBack \/ ExecuteEnd \/ ExecuteDone => bus' = bus
    BY DEF Pass, HoldBack, ExecuteEnd, ExecuteDone
  <2>4. RelayCollectCurrentState \/ NotYetCollect \/ CollectDone
          \/ RelayRecvAndHandleDeviceFrame => bus' = bus
    BY DEF RelayCollectCurrentState, NotYetCollect, CollectDone, RelayRecvAndHandleDeviceFrame
  <2>5. MmiChannel \/ MmiNext => bus' = bus
    BY DEF MmiChannel, MmiNext, MmiWriteState, MmiController, MmiImmediate, InMmi, outside
  <2>6. Others => bus' = bus
    BY DEF Others, SetRunMode, RaiseForce, SlotChange, outside
  <2>7. UNCHANGED vars => bus' = bus
    BY DEF vars, outside
  <2>8. QED BY <2>1, <2>2, <2>3, <2>4, <2>5, <2>6, <2>7 DEF Next, RelayStep
<1>8. QED BY <1>3, <1>4, <1>5, <1>6, <1>7

(* A step that only asks for more leaves the relays matching.               *)
LEMMA LastMatchesKept ==
  ASSUME LastMatches, UNCHANGED <<contacts, last, held>>, pc # "executing",
         \A m \in BuiltIn : execute_immediately[m] \/ Writing(m)
                             => execute_immediately'[m] \/ Writing(m)'
  PROVE  LastMatches'
BY DEF LastMatches, Matches

(* Giving commands for execution asks for more.                             *)
LEMMA GiveNowAsks ==
  ASSUME TypeOK, NEW cmds, NEW source, GiveNow(cmds, source), NEW m \in BuiltIn,
         execute_immediately[m]
  PROVE  execute_immediately'[m]
BY RelayAssumption DEF RelayAssumption, GiveNow, Marked, TypeOK

(* A message from the server leaves the relays matching: it only asks for more. *)
LEMMA ReceiveMatches ==
  ASSUME TypeOK, LastMatches, Receive PROVE LastMatches'
<1>0. pc = "receive" /\ UNCHANGED <<contacts, held, mmi>>
  BY DEF Receive, RelayLoopControl, RelayLoopGroupControl, RelaySetStrategyGroupSwitch,
     RelaySetBasicConfiguration, NoMessage, Received, outside
<1>1. CASE RelaySetBasicConfiguration
  <2>1. \A m \in BuiltIn : last'[m] = NoCommand
    BY <1>1, RelayAssumption DEF RelayAssumption, RelaySetBasicConfiguration
  <2>2. QED BY <2>1 DEF LastMatches, Matches, NoCommand
<1>2. CASE UNCHANGED last /\ \E cmds : GiveNow(cmds, 1)
  BY <1>0, <1>2, GiveNowAsks, LastMatchesKept DEF Writing
<1>3. CASE UNCHANGED <<last, execute_immediately>>
  BY <1>0, <1>3, LastMatchesKept DEF Writing
<1>4. QED
  BY <1>1, <1>2, <1>3
  DEF Receive, RelayLoopControl, RelayLoopGroupControl, RelaySetStrategyGroupSwitch, NoMessage,
      commands

(* So do the strategies and the forced switch-off.                          *)
LEMMA StrategiesMatch ==
  ASSUME TypeOK, LastMatches,
         RelayExecuteStrategyGroup \/ RelayExecuteTemporaryStrategyGroup \/ RelayCheckForce
  PROVE  LastMatches'
<1>0. pc # "executing" /\ UNCHANGED <<contacts, held, mmi>>
  BY DEF RelayExecuteStrategyGroup, RelayExecuteTemporaryStrategyGroup, RelayCheckForce, outside
<1>1. CASE RelayCheckForce /\ RelayForceSwitchOffAllRelays
  <2>1. \A m \in BuiltIn : last'[m] = NoCommand
    BY <1>1, RelayAssumption DEF RelayAssumption, RelayCheckForce
  <2>2. QED BY <2>1 DEF LastMatches, Matches, NoCommand
<1>2. CASE UNCHANGED <<last, execute_immediately>>
  BY <1>0, <1>2, LastMatchesKept DEF Writing
<1>3. QED BY <1>1, <1>2
          DEF RelayExecuteStrategyGroup, RelayExecuteTemporaryStrategyGroup, RelayCheckForce,
              commands

(* Executing: afterwards the last command is the current one, which the      *)
(* relays match unless the panel has written another meanwhile.             *)
LEMMA ExecuteMatches ==
  ASSUME TypeOK, ExecutingIsModule, LastMatches, ExecutingApplies,
         Pass \/ Execute \/ ExecuteEnd \/ HoldBack \/ ExecuteDone
  PROVE  LastMatches' /\ ExecutingApplies'
<1>a. DOMAIN last = Module /\ DOMAIN execute_immediately = Module /\ DOMAIN contacts = Module
  BY DEF TypeOK
<1>b. mmi' = mmi /\ current' = current
  BY DEF Pass, Execute, ExecuteEnd, HoldBack, ExecuteDone, InExecute
<1>c. BuiltIn \subseteq Module
  BY RelayAssumption DEF RelayAssumption
<1>1. CASE Pass \/ ExecuteDone
  <2>1. pc # "executing" /\ pc' # "executing"
        /\ UNCHANGED <<contacts, last, held, execute_immediately>>
    BY <1>1 DEF Pass, ExecuteDone
  <2>2. QED BY <1>b, <2>1, LastMatchesKept DEF Writing, ExecutingApplies
<1>2. CASE Execute
  <2>1. /\ pc = "execute" /\ pc' = "executing" /\ at' = at /\ last' = last
        /\ held' = held \ {at}
        /\ execute_immediately' = [execute_immediately EXCEPT ![at] = FALSE]
        /\ at \in Module
    BY <1>2, AtModule DEF Execute
  <2>2. \A m \in BuiltIn : m # at => contacts'[m] = contacts[m]
    BY <1>2, <1>a, <1>c DEF Execute, ControlAllBuiltInRelay, ControlAllBuiltOutRelay
  <2>3. LastMatches'
    BY <1>a, <1>b, <1>c, <2>1, <2>2 DEF LastMatches, Matches, Writing
  <2>4. at \in BuiltIn => Applied(at)'
    <3>1. SUFFICES ASSUME at \in BuiltIn PROVE Applied(at)'
      OBVIOUS
    <3>2. contacts'[at] = Switched(contacts[at], current[at], at)
      BY <1>2, <1>a, <2>1, <3>1 DEF Execute, ControlAllBuiltInRelay
    <3>3. QED BY <1>b, <2>1, <3>2 DEF Applied, Matches, Switched
  <2>5. QED BY <2>1, <2>3, <2>4 DEF ExecutingApplies
<1>3. CASE ExecuteEnd
  <2>1. /\ pc = "executing" /\ pc' = "execute" /\ at \in Module
        /\ last' = [last EXCEPT ![at] = current[at]]
        /\ UNCHANGED <<contacts, held, execute_immediately>>
    BY <1>3 DEF ExecuteEnd, Executed, ExecutingIsModule
  <2>2. ASSUME NEW m \in BuiltIn
        PROVE  m \in held' \/ Matches(m, last[m])' \/ execute_immediately'[m] \/ Writing(m)'
    <3>1. CASE m # at
      BY <1>a, <1>b, <1>c, <2>1, <3>1 DEF LastMatches, Matches, Writing
    <3>2. CASE m = at
      <4>1. last'[m] = current[m]
        BY <1>a, <1>c, <2>1, <3>2
      <4>2. Matches(m, current[m]) \/ execute_immediately[m] \/ Writing(m)
        BY <2>1, <3>2 DEF ExecutingApplies, Applied
      <4>3. QED BY <1>b, <2>1, <4>1, <4>2 DEF Matches, Writing
    <3>3. QED BY <3>1, <3>2
  <2>3. QED BY <2>1, <2>2 DEF LastMatches, ExecutingApplies
<1>4. CASE HoldBack
  <2>1. /\ pc = "execute" /\ pc' = pc /\ at \in Module /\ held' = held \cup {at}
        /\ last' = [last EXCEPT ![at] = current[at]] /\ contacts' = contacts
        /\ execute_immediately' = [execute_immediately EXCEPT ![at] = FALSE]
    BY <1>4, AtModule DEF HoldBack, Executed
  <2>2. QED BY <1>a, <1>b, <1>c, <2>1 DEF LastMatches, ExecutingApplies, Matches, Writing
<1>5. QED BY <1>1, <1>2, <1>3, <1>4

(* The tasks that run meanwhile: what the panel overwrites it finishes, and  *)
(* the RS485 task switches no built-in relay.                               *)
LEMMA OthersMatch ==
  ASSUME TypeOK, ExecutingIsModule, LastMatches, ExecutingApplies,
         UNCHANGED <<place, last, held>>,
         \A m \in BuiltIn : contacts'[m] = contacts[m],
         \A m \in BuiltIn : execute_immediately[m] \/ Writing(m)
                             => execute_immediately'[m] \/ Writing(m)',
         \A m \in BuiltIn : current'[m] = current[m] \/ Writing(m)'
  PROVE  LastMatches' /\ ExecutingApplies'
BY DEF LastMatches, ExecutingApplies, Applied, Matches, place

(* The panel writes a command only while it asks for its execution.         *)
LEMMA MmiAsks ==
  ASSUME TypeOK, MmiChannel \/ MmiNext, NEW m \in Module
  PROVE  /\ execute_immediately[m] \/ Writing(m) => execute_immediately'[m] \/ Writing(m)'
         /\ current'[m] = current[m] \/ Writing(m)'
<1>a. DOMAIN current = Module /\ DOMAIN execute_immediately = Module
  BY DEF TypeOK
<1>1. CASE MmiChannel
  <2>1. PICK r \in MmiRequests :
          /\ mmi' = [step |-> "state", m |-> r.m, st |-> r.st]
          /\ current' = [current EXCEPT ![r.m].ch = Loops]
    BY <1>1 DEF MmiChannel
  <2>2. mmi = Idle /\ execute_immediately' = execute_immediately
    BY <1>1 DEF MmiChannel
  <2>3. mmi' # Idle /\ mmi'.m = r.m
    BY <2>1 DEF Idle
  <2>4. QED BY <1>a, <2>1, <2>2, <2>3 DEF Writing, Idle
<1>2. CASE MmiWriteState \/ MmiController
  <2>1. mmi \in MmiState /\ execute_immediately' = execute_immediately
    BY <1>2, MmiType DEF MmiWriteState, MmiController
  <2>2. mmi' # Idle /\ mmi'.m = mmi.m
    BY <1>2, <2>1 DEF MmiWriteState, MmiController, MmiState, Idle
  <2>3. m # mmi.m => current'[m] = current[m]
    BY <1>2, <1>a DEF MmiWriteState, MmiController
  <2>4. QED BY <2>1, <2>2, <2>3 DEF Writing
<1>3. CASE MmiImmediate
  BY <1>3, <1>a DEF MmiImmediate, Writing
<1>4. QED BY <1>1, <1>2, <1>3 DEF MmiNext

(* So a command of the panel leaves the relays matching.                    *)
LEMMA MmiMatches ==
  ASSUME TypeOK, ExecutingIsModule, LastMatches, ExecutingApplies, MmiChannel \/ MmiNext
  PROVE  LastMatches' /\ ExecutingApplies'
<1>1. UNCHANGED <<place, last, held, contacts>>
  BY DEF MmiChannel, MmiNext, MmiWriteState, MmiController, MmiImmediate, InMmi, outside
<1>2. BuiltIn \subseteq Module
  BY RelayAssumption DEF RelayAssumption
<1>3. QED BY <1>1, <1>2, MmiAsks, OthersMatch

(* A frame on the bus switches no built-in relay.                           *)
LEMMA BusMatches ==
  ASSUME TypeOK, ExecutingIsModule, FramesGoOut, LastMatches, ExecutingApplies, Bus
  PROVE  LastMatches' /\ ExecutingApplies'
<1>1. UNCHANGED <<place, last, held, commands, mmi>>
  BY DEF Bus, Rs485Deliver, Rs485NoAnswer, InBus
<1>2. Head(bus).query \/ Head(bus).m \notin BuiltIn
  <2>1. bus \in Seq(Frame) /\ bus # << >>
    BY DEF TypeOK, Bus, Rs485Deliver, Rs485NoAnswer
  <2>2. Head(bus) = bus[1] /\ 1 \in 1 .. Len(bus)
    BY <2>1
  <2>3. QED BY <2>2 DEF FramesGoOut
<1>3. \A m \in BuiltIn : contacts'[m] = contacts[m]
  BY <1>2, RelayAssumption DEF RelayAssumption, TypeOK, Bus, Rs485Deliver, Rs485NoAnswer
<1>4. QED BY <1>1, <1>3, OthersMatch DEF commands, Writing

(* ApplyInv is inductive: every step keeps its three parts.                 *)
LEMMA ApplyNext ==
  ASSUME TypeOK, ExecutingIsModule, ApplyInv, [Next]_vars PROVE ApplyInv'
<1>0. FramesGoOut /\ LastMatches /\ ExecutingApplies
  BY DEF ApplyInv
<1>1. FramesGoOut'
  BY <1>0, FramesNext
<1>2. LastMatches' /\ ExecutingApplies'
  <2>1. CASE Receive
    <3>1. pc' = "strategy"
      BY <2>1 DEF Receive, RelayLoopControl, RelayLoopGroupControl, RelaySetStrategyGroupSwitch,
         RelaySetBasicConfiguration, NoMessage, Received
    <3>2. QED BY <1>0, <2>1, <3>1, ReceiveMatches DEF ExecutingApplies
  <2>2. CASE RelayExecuteStrategyGroup \/ RelayExecuteTemporaryStrategyGroup \/ RelayCheckForce
    <3>1. pc' # "executing"
      BY <2>2 DEF RelayExecuteStrategyGroup, RelayExecuteTemporaryStrategyGroup, RelayCheckForce
    <3>2. QED BY <1>0, <2>2, <3>1, StrategiesMatch DEF ExecutingApplies
  <2>3. CASE Pass \/ Execute \/ ExecuteEnd \/ HoldBack \/ ExecuteDone
    BY <1>0, <2>3, ExecuteMatches
  <2>4. CASE RelayCollectCurrentState \/ NotYetCollect \/ CollectModule \/ CollectDone
             \/ RelayRecvAndHandleDeviceFrame
    <3>1. pc # "executing" /\ pc' # "executing"
          /\ UNCHANGED <<contacts, last, held, execute_immediately, mmi>>
      BY <2>4 DEF RelayCollectCurrentState, NotYetCollect, CollectModule, CollectDone,
         RelayRecvAndHandleDeviceFrame, InCollect, commands
    <3>2. QED BY <1>0, <3>1, LastMatchesKept DEF ExecutingApplies, Writing
  <2>5. CASE MmiChannel \/ MmiNext
    BY <1>0, <2>5, MmiMatches
  <2>6. CASE Others
    <3>1. UNCHANGED <<place, last, held, commands, mmi, contacts>>
      BY <2>6 DEF Others, SetRunMode, RaiseForce, SlotChange, outside
    <3>2. QED BY <1>0, <3>1, OthersMatch DEF commands, Writing
  <2>7. CASE Bus
    BY <1>0, <2>7, BusMatches
  <2>8. CASE UNCHANGED vars
    <3>1. UNCHANGED <<place, last, held, commands, mmi, contacts>>
      BY <2>8 DEF vars, outside
    <3>2. QED BY <1>0, <3>1, OthersMatch DEF commands, Writing
  <2>9. QED BY <2>1, <2>2, <2>3, <2>4, <2>5, <2>6, <2>7, <2>8 DEF Next, RelayStep
<1>3. QED BY <1>1, <1>2 DEF ApplyInv

(* A built-in module with nothing left to do has its relays as the current   *)
(* command says unless the run mode held it back, however commands of the    *)
(* server, the strategies, the panel and the alarms interleave.             *)
THEOREM QuietAlwaysApplied == Spec => []QuietMeansApplied
<1>1. Init => ExecutingIsModule
  BY DEF Init, ExecutingIsModule
<1>2. TypeOK /\ ExecutingIsModule /\ [Next]_vars => ExecutingIsModule'
  BY ExecutingNext
<1>3. TypeOK /\ ExecutingIsModule /\ ApplyInv /\ [Next]_vars => ApplyInv'
  BY ApplyNext
<1>4. ApplyInv => QuietMeansApplied
  BY DEF ApplyInv, LastMatches, QuietMeansApplied, Quiet, Due, Applied
<1>5. QED BY <1>1, <1>2, <1>3, <1>4, TypeInit, TypeNext, ApplyInit, PTL DEF Spec

(* Between two loops nothing but the collecting itself changes what was      *)
(* collected, and of a built-in module it takes the command.                 *)
LEMMA CollectCases ==
  ASSUME TypeOK, [Next]_vars, pc = "collecting", NEW m \in BuiltIn, collect'[m] # collect[m]
  PROVE  collect'[m] = current[m].st
<1>1. CollectModule
  <2>1. ~Receive /\ ~RelayRecvAndHandleDeviceFrame
    BY DEF Receive, RelayLoopControl, RelayLoopGroupControl, RelaySetStrategyGroupSwitch,
       RelaySetBasicConfiguration, NoMessage, Received, RelayRecvAndHandleDeviceFrame
  <2>2. QED
    BY <2>1 DEF Next, RelayStep, RelayExecuteStrategyGroup, RelayExecuteTemporaryStrategyGroup,
       RelayCheckForce, Pass, Execute, ExecuteEnd, HoldBack, ExecuteDone,
       RelayCollectCurrentState, NotYetCollect, CollectDone, MmiChannel, MmiNext,
       MmiWriteState, MmiController, MmiImmediate, InMmi, Others, SetRunMode, RaiseForce,
       SlotChange, Bus, Rs485Deliver, Rs485NoAnswer, InBus, vars
<1>2. collect \in [Module -> SUBSET Loops] /\ m \in Module
  BY RelayAssumption DEF RelayAssumption, TypeOK
<1>3. at \in BuiltIn /\ collect' = [collect EXCEPT ![at] = current[at].st]
  BY <1>1 DEF CollectModule, CollectedState
<1>4. QED BY <1>2, <1>3

(* What is collected of a quiet built-in module is the state of its relays.  *)
THEOREM CollectedAlwaysCommanded == Spec => CollectedIsCommanded
<1>1. TypeOK /\ QuietMeansApplied /\ [Next]_vars =>
        [\A m \in BuiltIn :
           collect'[m] # collect[m] /\ pc = "collecting" /\ Quiet(m) /\ m \notin held =>
             collect'[m] \cap current[m].ch \cap Wired[m]
               = contacts[m] \cap current[m].ch \cap Wired[m]]_vars
  <2> SUFFICES ASSUME TypeOK, QuietMeansApplied, [Next]_vars, NEW m \in BuiltIn,
                      collect'[m] # collect[m], pc = "collecting", Quiet(m), m \notin held
               PROVE  collect'[m] \cap current[m].ch \cap Wired[m]
                        = contacts[m] \cap current[m].ch \cap Wired[m]
    OBVIOUS
  <2>1. collect'[m] = current[m].st
    BY CollectCases
  <2>2. QED BY <2>1 DEF QuietMeansApplied, Applied, Matches
<1>2. QED BY <1>1, TypeCorrect, QuietAlwaysApplied, PTL DEF Spec, CollectedIsCommanded

-----------------------------------------------------------------------------
(* The same of the modules on the bus.  What a module's relays come to, once *)
(* its frames have left the queue, is what the last of them says; a frame    *)
(* behind overrides the one before, and the last command executed is in the  *)
(* last frame until that frame is switched or lost.                         *)
LastOnBus(m, i) ==
  /\ bus[i].m = m /\ ~bus[i].query
  /\ \A j \in DOMAIN bus : j > i => bus[j].m # m \/ bus[j].query

Ends(m, c) ==
  \/ c = NoCommand
  \/ ~OnBus(m, bus) /\ Matches(m, c)
  \/ \E i \in DOMAIN bus : LastOnBus(m, i) /\ bus[i].cmd = c

LastSent ==
  \A m \in Module \ BuiltIn :
    \/ m \in held \cup missed \/ Ends(m, last[m])
    \/ execute_immediately[m] \/ Writing(m)
    \/ pc = "executing" /\ at = m

ExecutingSends ==
  pc = "executing" /\ at \notin BuiltIn =>
    at \in missed \/ Ends(at, current[at]) \/ execute_immediately[at] \/ Writing(at)

SentInv == LastSent /\ ExecutingSends

(* The relays of a module and the frames for it being the same, so is what   *)
(* they come to.                                                            *)
LEMMA EndsSame ==
  ASSUME NEW m, NEW c, Ends(m, c), bus' = bus, contacts'[m] = contacts[m]
  PROVE  Ends(m, c)'
BY DEF Ends, OnBus, Matches, LastOnBus

(* A query, or a frame of another module, changes nothing of what the relays *)
(* come to; ...                                                             *)
LEMMA EndsAppend ==
  ASSUME TypeOK, NEW m \in Module, NEW c, Ends(m, c), NEW f \in Frame,
         f.query \/ f.m # m, bus' = Append(bus, f), contacts'[m] = contacts[m]
  PROVE  Ends(m, c)'
<1>1. /\ Len(bus) \in Nat /\ DOMAIN bus = 1 .. Len(bus) /\ DOMAIN bus' = 1 .. Len(bus) + 1
      /\ bus'[Len(bus) + 1] = f /\ \A i \in DOMAIN bus : bus'[i] = bus[i]
  <2>1. bus \in Seq(Frame)
    BY DEF TypeOK
  <2>2. QED BY <2>1, AppendProperties
<1>2. \A j \in DOMAIN bus' : j \in DOMAIN bus \/ j = Len(bus) + 1
  BY <1>1
<1>3. CASE c = NoCommand
  BY <1>3 DEF Ends
<1>4. CASE ~OnBus(m, bus) /\ Matches(m, c)
  <2>1. ~OnBus(m, bus')
    BY <1>1, <1>2, <1>4 DEF OnBus
  <2>2. QED BY <1>4, <2>1 DEF Ends, Matches
<1>5. CASE \E i \in DOMAIN bus : LastOnBus(m, i) /\ bus[i].cmd = c
  <2>1. PICK i \in DOMAIN bus : LastOnBus(m, i) /\ bus[i].cmd = c
    BY <1>5
  <2>2. i \in DOMAIN bus' /\ bus'[i] = bus[i]
    BY <1>1
  <2>3. \A j \in DOMAIN bus' : j > i => bus'[j].m # m \/ bus'[j].query
    BY <1>1, <1>2, <2>1 DEF LastOnBus
  <2>4. QED BY <2>1, <2>2, <2>3 DEF Ends, LastOnBus
<1>6. QED BY <1>3, <1>4, <1>5 DEF Ends

(* ... a frame of the module makes it the command of the frame.             *)
LEMMA EndsSent ==
  ASSUME TypeOK, NEW m \in Module, NEW c \in Command,
         bus' = Append(bus, [m |-> m, query |-> FALSE, cmd |-> c])
  PROVE  Ends(m, c)'
<1> DEFINE f == [m |-> m, query |-> FALSE, cmd |-> c]
<1>1. /\ Len(bus) \in Nat /\ DOMAIN bus' = 1 .. Len(bus) + 1
      /\ bus'[Len(bus) + 1] = f
  <2>1. bus \in Seq(Frame) /\ f \in Frame
    BY FrameType DEF TypeOK
  <2>2. QED BY <2>1, AppendProperties
<1>2. Len(bus) + 1 \in DOMAIN bus' /\ \A j \in DOMAIN bus' : ~(j > Len(bus) + 1)
  BY <1>1
<1>3. QED BY <1>1, <1>2 DEF Ends, LastOnBus

(* The frame in front of the queue is switched or lost: the relays come to   *)
(* the same unless it was the last of its module and was lost.              *)
LEMMA EndsBus ==
  ASSUME TypeOK, Bus, NEW m \in Module, NEW c, Ends(m, c), m \notin missed'
  PROVE  Ends(m, c)'
<1> DEFINE f == Head(bus)
<1>0. bus \in Seq(Frame) /\ bus # << >> /\ bus' = Tail(bus)
  BY DEF TypeOK, Bus, Rs485Deliver, Rs485NoAnswer
<1>1. /\ Len(bus) \in Nat /\ DOMAIN bus = 1 .. Len(bus) /\ DOMAIN bus' = 1 .. Len(bus) - 1
      /\ f = bus[1] /\ \A i \in DOMAIN bus' : bus'[i] = bus[i + 1]
  BY <1>0, HeadTailProperties
<1>2. \A i \in DOMAIN bus' : i + 1 \in DOMAIN bus /\ i + 1 > 1
  BY <1>1
<1>3. \A i \in DOMAIN bus : i = 1 \/ (i - 1 \in DOMAIN bus' /\ (i - 1) + 1 = i)
  BY <1>1
<1>4. contacts \in [Module -> SUBSET Loops] /\ f \in Frame /\ f.m \in Module
  <2>1. f \in Frame
    BY <1>0, HeadTailProperties
  <2>2. QED BY <2>1 DEF TypeOK, Frame
<1>5. contacts'[m] = contacts[m]
      \/ (m = f.m /\ ~f.query /\ contacts'[m] = Switched(contacts[m], f.cmd, m))
  BY <1>4 DEF Bus, Rs485Deliver, Rs485NoAnswer
<1> HIDE DEF f
<1>6. CASE c = NoCommand
  BY <1>6 DEF Ends
<1>7. CASE ~OnBus(m, bus) /\ Matches(m, c)
  <2>1. ~OnBus(m, bus')
    BY <1>1, <1>2, <1>7 DEF OnBus
  <2>2. f.m # m \/ f.query
    <3>1. 1 \in DOMAIN bus
      BY <1>0, <1>1
    <3>2. QED BY <1>1, <1>7, <3>1 DEF OnBus
  <2>3. QED BY <1>5, <1>7, <2>1, <2>2 DEF Ends, Matches
<1>8. CASE \E i \in DOMAIN bus : LastOnBus(m, i) /\ bus[i].cmd = c
  <2>1. PICK i \in DOMAIN bus : LastOnBus(m, i) /\ bus[i].cmd = c
    BY <1>8
  <2>2. CASE i = 1
    <3>1. f.m = m /\ ~f.query /\ f.cmd = c
      BY <1>1, <2>1, <2>2 DEF LastOnBus
    <3>2. ~OnBus(m, bus')
      BY <1>1, <1>2, <2>1, <2>2 DEF OnBus, LastOnBus
    <3>3. ~Rs485NoAnswer
      BY <1>0, <3>1, <3>2 DEF Rs485NoAnswer, f
    <3>4. contacts'[m] = Switched(contacts[m], c, m)
      BY <1>4, <3>1, <3>3 DEF Bus, Rs485Deliver, f
    <3>5. Matches(m, c)'
      BY <3>4 DEF Matches, Switched
    <3>6. QED BY <3>2, <3>5 DEF Ends
  <2>3. CASE i # 1
    <3>1. i - 1 \in DOMAIN bus' /\ bus'[i - 1] = bus[i]
      BY <1>1, <1>3, <2>3
    <3>2. \A j \in DOMAIN bus' : j > i - 1 => j + 1 > i
      BY <1>1
    <3>3. \A j \in DOMAIN bus' : j > i - 1 => bus'[j].m # m \/ bus'[j].query
      BY <1>1, <1>2, <2>1, <3>2 DEF LastOnBus
    <3>4. QED BY <2>1, <3>1, <3>3 DEF Ends, LastOnBus
  <2>4. QED BY <2>2, <2>3
<1>9. QED BY <1>6, <1>7, <1>8 DEF Ends

(* At start-up no command has been sent.                                    *)
LEMMA SentInit == Init => SentInv
<1> SUFFICES ASSUME Init PROVE SentInv
  OBVIOUS
<1>1. \A m \in Module : last[m] = NoCommand
  BY DEF Init
<1>2. QED BY <1>1 DEF Init, SentInv, LastSent, ExecutingSends, Ends

(* A step that leaves what was executed, the relays and the frames, and only *)
(* asks for more, keeps LastSent.                                           *)
LEMMA LastSentKept ==
  ASSUME LastSent, UNCHANGED <<contacts, bus, missed, last, held>>, pc # "executing",
         \A m \in Module : execute_immediately[m] \/ Writing(m)
                             => execute_immediately'[m] \/ Writing(m)'
  PROVE  LastSent'
<1> SUFFICES ASSUME NEW m \in Module \ BuiltIn
             PROVE  \/ m \in held' \cup missed' \/ Ends(m, last[m])'
                    \/ execute_immediately'[m] \/ Writing(m)'
  BY DEF LastSent
<1>1. PICK c : c = last[m]
  OBVIOUS
<1>2. Ends(m, c) => Ends(m, c)'
  BY EndsSame
<1>3. QED BY <1>1, <1>2 DEF LastSent

(* A message from the server only asks for more, or clears the commands.    *)
LEMMA ReceiveSends ==
  ASSUME TypeOK, LastSent, Receive PROVE LastSent'
<1>0. pc = "receive" /\ UNCHANGED <<contacts, bus, missed, held, mmi>>
  BY DEF Receive, RelayLoopControl, RelayLoopGroupControl, RelaySetStrategyGroupSwitch,
     RelaySetBasicConfiguration, NoMessage, Received, outside
<1>1. CASE RelaySetBasicConfiguration
  <2>1. \A m \in Module : last'[m] = NoCommand
    BY <1>1 DEF RelaySetBasicConfiguration
  <2>2. QED BY <2>1 DEF LastSent, Ends
<1>2. CASE UNCHANGED last /\ \E cmds : GiveNow(cmds, 1)
  <2>1. \A m \in Module : execute_immediately[m] => execute_immediately'[m]
    BY <1>2 DEF GiveNow, Marked, TypeOK
  <2>2. QED BY <1>0, <1>2, <2>1, LastSentKept DEF Writing
<1>3. CASE UNCHANGED <<last, execute_immediately>>
  BY <1>0, <1>3, LastSentKept DEF Writing
<1>4. QED
  BY <1>1, <1>2, <1>3
  DEF Receive, RelayLoopControl, RelayLoopGroupControl, RelaySetStrategyGroupSwitch, NoMessage,
      commands

(* The strategies change the current command only, and the forced switch-off *)
(* forgets what was executed.                                               *)
LEMMA StrategiesSend ==
  ASSUME TypeOK, LastSent,
         RelayExecuteStrategyGroup \/ RelayExecuteTemporaryStrategyGroup \/ RelayCheckForce
  PROVE  LastSent'
<1>0. pc # "executing" /\ UNCHANGED <<contacts, bus, missed, held, mmi>>
  BY DEF RelayExecuteStrategyGroup, RelayExecuteTemporaryStrategyGroup, RelayCheckForce, outside
<1>1. CASE RelayCheckForce /\ RelayForceSwitchOffAllRelays
  <2>1. \A m \in Module : last'[m] = NoCommand
    BY <1>1 DEF RelayCheckForce
  <2>2. QED BY <2>1 DEF LastSent, Ends
<1>2. CASE UNCHANGED <<last, execute_immediately>>
  BY <1>0, <1>2, LastSentKept DEF Writing
<1>3. QED BY <1>1, <1>2
          DEF RelayExecuteStrategyGroup, RelayExecuteTemporaryStrategyGroup, RelayCheckForce,
              commands

(* Executing for one module leaves what the relays of the others come to.    *)
LEMMA ExecuteEnds ==
  ASSUME TypeOK, Execute, NEW m \in Module \ BuiltIn, m # at, NEW c, Ends(m, c)
  PROVE  Ends(m, c)'
<1>1. at \in Module /\ current[at] \in Command /\ DOMAIN contacts = Module
  BY AtModule DEF Execute, TypeOK
<1>2. contacts'[m] = contacts[m]
  BY <1>1 DEF Execute, ControlAllBuiltInRelay, ControlAllBuiltOutRelay
<1>3. PICK f \in Frame : f = [m |-> at, query |-> FALSE, cmd |-> current[at]]
  BY <1>1, FrameType
<1>4. bus' = bus \/ bus' = Append(bus, f)
  BY <1>3 DEF Execute, ControlAllBuiltInRelay, ControlAllBuiltOutRelay
<1>5. QED BY <1>2, <1>3, <1>4, EndsSame, EndsAppend

(* Executing for a module of the bus: its relays come to the command, unless *)
(* the frame found no room.                                                 *)
LEMMA ExecuteSends ==
  ASSUME TypeOK, Execute, at \notin BuiltIn, NEW c, c = current[at]
  PROVE  at \in missed' \/ Ends(at, c)'
<1>1. at \in Module /\ c \in Command
  BY AtModule DEF Execute, TypeOK
<1>2. CASE bus' = Append(bus, [m |-> at, query |-> FALSE, cmd |-> current[at]])
  <2>1. PICK m \in Module : m = at
    BY <1>1
  <2>2. Ends(m, c)'
    BY <1>1, <1>2, <2>1, EndsSent
  <2>3. at' = at
    BY DEF Execute
  <2>4. QED BY <2>1, <2>2, <2>3
<1>3. CASE missed' = missed \cup {at}
  BY <1>3
<1>4. QED BY <1>2, <1>3 DEF Execute, ControlAllBuiltOutRelay

(* The commands are executed module by module.                              *)
LEMMA PassesSend ==
  ASSUME TypeOK, ExecutingIsModule, SentInv,
         Pass \/ Execute \/ ExecuteEnd \/ HoldBack \/ ExecuteDone
  PROVE  SentInv'
<1>a. LastSent /\ ExecutingSends
  BY DEF SentInv
<1>b. mmi' = mmi /\ current' = current
  BY DEF Pass, Execute, ExecuteEnd, HoldBack, ExecuteDone, InExecute
<1>c. DOMAIN last = Module /\ DOMAIN execute_immediately = Module /\ DOMAIN contacts = Module
  BY DEF TypeOK
<1>1. CASE Pass \/ ExecuteDone
  <2>1. pc # "executing" /\ pc' # "executing"
        /\ UNCHANGED <<contacts, bus, missed, last, held, execute_immediately>>
    BY <1>1 DEF Pass, ExecuteDone
  <2>2. QED BY <1>a, <1>b, <2>1, LastSentKept DEF Writing, ExecutingSends, SentInv
<1>2. CASE Execute
  <2>1. /\ pc = "execute" /\ pc' = "executing" /\ at' = at /\ last' = last
        /\ held' = held \ {at} /\ at \in Module
        /\ execute_immediately' = [execute_immediately EXCEPT ![at] = FALSE]
    BY <1>2, AtModule DEF Execute
  <2>2. missed \ {at} \subseteq missed'
    BY <1>2 DEF Execute, ControlAllBuiltInRelay, ControlAllBuiltOutRelay
  <2>3. LastSent'
    <3>1. SUFFICES ASSUME NEW m \in Module \ BuiltIn, m # at
                   PROVE  \/ m \in held' \cup missed' \/ Ends(m, last[m])'
                          \/ execute_immediately'[m] \/ Writing(m)'
      BY <2>1 DEF LastSent
    <3>2. PICK c : c = last[m]
      OBVIOUS
    <3>3. Ends(m, c) => Ends(m, c)'
      BY <1>2, <3>1, ExecuteEnds
    <3>4. execute_immediately'[m] = execute_immediately[m]
      BY <1>c, <2>1, <3>1
    <3>5. QED BY <1>a, <1>b, <2>1, <2>2, <3>1, <3>2, <3>3, <3>4 DEF LastSent, Writing
  <2>4. ExecutingSends'
    <3>1. SUFFICES ASSUME at \notin BuiltIn PROVE at \in missed' \/ Ends(at, current[at])'
      BY <2>1 DEF ExecutingSends
    <3>2. PICK c : c = current[at]
      OBVIOUS
    <3>3. at \in missed' \/ Ends(at, c)'
      BY <1>2, <3>1, <3>2, ExecuteSends
    <3>4. QED BY <1>b, <2>1, <3>2, <3>3
  <2>5. QED BY <2>3, <2>4 DEF SentInv
<1>3. CASE ExecuteEnd \/ HoldBack
  <2>1. /\ at \in Module /\ pc' = "execute" /\ last' = [last EXCEPT ![at] = current[at]]
        /\ UNCHANGED <<contacts, bus, missed>> /\ held \subseteq held'
        /\ \A m \in Module : m # at => execute_immediately'[m] = execute_immediately[m]
    BY <1>3, <1>c, AtModule DEF ExecuteEnd, HoldBack, Executed, ExecutingIsModule
  <2>2. SUFFICES ASSUME NEW m \in Module \ BuiltIn
                 PROVE  \/ m \in held' \cup missed' \/ Ends(m, last[m])'
                        \/ execute_immediately'[m] \/ Writing(m)'
    BY <2>1 DEF SentInv, LastSent, ExecutingSends
  <2>3. PICK c : c = last'[m]
    OBVIOUS
  <2>4. Ends(m, c) => Ends(m, c)'
    BY <2>1, EndsSame
  <2>5. CASE m # at
    <3>1. last[m] = c
      BY <1>c, <2>1, <2>3, <2>5
    <3>2. \/ m \in held \cup missed \/ Ends(m, c)
          \/ execute_immediately[m] \/ Writing(m)
      BY <1>a, <2>5, <3>1 DEF LastSent
    <3>3. QED BY <1>b, <2>1, <2>3, <2>4, <2>5, <3>2 DEF Writing
  <2>6. CASE m = at /\ ExecuteEnd
    <3>1. current[at] = c /\ execute_immediately' = execute_immediately /\ pc = "executing"
      BY <1>c, <2>1, <2>3, <2>6 DEF ExecuteEnd
    <3>2. m \in missed \/ Ends(m, c) \/ execute_immediately[m] \/ Writing(m)
      BY <1>a, <2>6, <3>1 DEF ExecutingSends
    <3>3. QED BY <1>b, <2>1, <2>3, <2>4, <3>1, <3>2 DEF Writing
  <2>7. CASE m = at /\ HoldBack
    BY <2>7 DEF HoldBack
  <2>8. QED BY <1>3, <2>5, <2>6, <2>7
<1>4. QED BY <1>1, <1>2, <1>3

(* The tasks that run meanwhile: what the panel overwrites it finishes, and  *)
(* the relays come to the same unless the last frame is lost.               *)
LEMMA OthersSend ==
  ASSUME TypeOK, ExecutingIsModule, SentInv,
         UNCHANGED <<place, last, held>>, missed \subseteq missed',
         \A m \in Module : \A c : Ends(m, c) => m \in missed' \/ Ends(m, c)',
         \A m \in Module : execute_immediately[m] \/ Writing(m)
                             => execute_immediately'[m] \/ Writing(m)',
         \A m \in Module : current'[m] = current[m] \/ Writing(m)'
  PROVE  SentInv'
<1>0. pc' = pc /\ at' = at /\ last' = last /\ held' = held
  BY DEF place
<1>1. LastSent'
  <2>1. SUFFICES ASSUME NEW m \in Module \ BuiltIn, ~(pc = "executing" /\ at = m)
                 PROVE  \/ m \in held' \cup missed' \/ Ends(m, last[m])'
                        \/ execute_immediately'[m] \/ Writing(m)'
    BY <1>0 DEF LastSent
  <2>2. PICK c : c = last[m]
    OBVIOUS
  <2>3. QED BY <1>0, <2>1, <2>2 DEF SentInv, LastSent
<1>2. ExecutingSends'
  <2>1. SUFFICES ASSUME pc = "executing", at \notin BuiltIn
                 PROVE  \/ at \in missed' \/ Ends(at, current[at])'
                        \/ execute_immediately'[at] \/ Writing(at)'
    BY <1>0 DEF ExecutingSends
  <2>2. PICK c : c = current[at]
    OBVIOUS
  <2>3. PICK m \in Module : m = at
    BY <2>1 DEF ExecutingIsModule
  <2>4. m \in missed \/ Ends(m, c) \/ execute_immediately[m] \/ Writing(m)
    BY <2>1, <2>2, <2>3 DEF SentInv, ExecutingSends
  <2>5. m \in missed' \/ Ends(m, c)' \/ execute_immediately'[m] \/ Writing(m)'
    BY <2>4
  <2>6. current'[m] = c \/ Writing(m)'
    BY <2>2, <2>3
  <2>7. QED BY <1>0, <2>3, <2>5, <2>6
<1>3. QED BY <1>1, <1>2 DEF SentInv

(* Collecting sends queries only.                                           *)
LEMMA CollectSends ==
  ASSUME TypeOK, SentInv,
         RelayCollectCurrentState \/ NotYetCollect \/ CollectModule \/ CollectDone
           \/ RelayRecvAndHandleDeviceFrame
  PROVE  SentInv'
<1>1. pc # "executing" /\ pc' # "executing"
      /\ UNCHANGED <<contacts, missed, last, held, execute_immediately, mmi>>
  BY DEF RelayCollectCurrentState, NotYetCollect, CollectModule, CollectDone,
     RelayRecvAndHandleDeviceFrame, InCollect, commands
<1>2. SUFFICES ASSUME NEW m \in Module \ BuiltIn
               PROVE  \/ m \in held' \cup missed' \/ Ends(m, last[m])'
                      \/ execute_immediately'[m] \/ Writing(m)'
  BY <1>1 DEF SentInv, LastSent, ExecutingSends
<1>3. PICK c : c = last[m]
  OBVIOUS
<1>4. ASSUME Ends(m, c) PROVE Ends(m, c)'
  <2>1. CASE bus' = bus
    BY <1>1, <1>4, <2>1, EndsSame
  <2>2. CASE CollectModule /\ bus' # bus
    <3>1. PICK f \in Frame : f = [m |-> at, query |-> TRUE, cmd |-> NoCommand]
      BY <2>2, AtModule, FrameType, NoCommandType DEF CollectModule
    <3>2. bus' = Append(bus, f)
      BY <2>2, <3>1 DEF CollectModule, GetBuiltOutRelayState
    <3>3. QED BY <1>1, <1>4, <3>1, <3>2, EndsAppend
  <2>3. QED BY <2>1, <2>2 DEF RelayCollectCurrentState, NotYetCollect, CollectDone,
               RelayRecvAndHandleDeviceFrame
<1>5. QED BY <1>1, <1>2, <1>3, <1>4 DEF SentInv, LastSent, Writing

(* SentInv is inductive.                                                    *)
LEMMA SentNext ==
  ASSUME TypeOK, ExecutingIsModule, SentInv, [Next]_vars PROVE SentInv'
<1>0. LastSent /\ ExecutingSends
  BY DEF SentInv
<1>1. CASE Receive
  <2>1. pc' = "strategy"
    BY <1>1 DEF Receive, RelayLoopControl, RelayLoopGroupControl, RelaySetStrategyGroupSwitch,
       RelaySetBasicConfiguration, NoMessage, Received
  <2>2. QED BY <1>0, <1>1, <2>1, ReceiveSends DEF SentInv, ExecutingSends
<1>2. CASE RelayExecuteStrategyGroup \/ RelayExecuteTemporaryStrategyGroup \/ RelayCheckForce
  <2>1. pc' # "executing"
    BY <1>2 DEF RelayExecuteStrategyGroup, RelayExecuteTemporaryStrategyGroup, RelayCheckForce
  <2>2. QED BY <1>0, <1>2, <2>1, StrategiesSend DEF SentInv, ExecutingSends
<1>3. CASE Pass \/ Execute \/ ExecuteEnd \/ HoldBack \/ ExecuteDone
  BY <1>3, PassesSend
<1>4. CASE RelayCollectCurrentState \/ NotYetCollect \/ CollectModule \/ CollectDone
           \/ RelayRecvAndHandleDeviceFrame
  BY <1>4, CollectSends
<1>5. CASE MmiChannel \/ MmiNext
  <2>1. UNCHANGED <<place, last, held, contacts, bus, missed>>
    BY <1>5 DEF MmiChannel, MmiNext, MmiWriteState, MmiController, MmiImmediate, InMmi, outside
  <2>2. \A m \in Module : \A c : Ends(m, c) => Ends(m, c)'
    BY <2>1, EndsSame
  <2>3. QED BY <1>5, <2>1, <2>2, MmiAsks, OthersSend
<1>6. CASE Others \/ UNCHANGED vars
  <2>1. UNCHANGED <<place, last, held, commands, mmi, contacts, bus, missed>>
    BY <1>6 DEF Others, SetRunMode, RaiseForce, SlotChange, vars, outside
  <2>2. \A m \in Module : \A c : Ends(m, c) => Ends(m, c)'
    BY <2>1, EndsSame
  <2>3. QED BY <2>1, <2>2, OthersSend DEF commands, Writing
<1>7. CASE Bus
  <2>1. UNCHANGED <<place, last, held, commands, mmi>> /\ missed \subseteq missed'
    BY <1>7 DEF Bus, Rs485Deliver, Rs485NoAnswer, InBus
  <2>2. \A m \in Module : \A c : Ends(m, c) => m \in missed' \/ Ends(m, c)'
    BY <1>7, EndsBus
  <2>3. QED BY <2>1, <2>2, OthersSend DEF commands, Writing
<1>8. QED BY <1>1, <1>2, <1>3, <1>4, <1>5, <1>6, <1>7 DEF Next, RelayStep

(* A module on the bus with nothing left to do and no frame in the queue has *)
(* its relays as the current command says, unless the run mode held it back  *)
(* or the last frame for it was lost (ControlAllBuiltOutRelay and the RS485  *)
(* task).                                                                   *)
THEOREM QuietAlwaysSent == Spec => []QuietMeansSent
<1>1. Init => ExecutingIsModule
  BY DEF Init, ExecutingIsModule
<1>2. TypeOK /\ ExecutingIsModule /\ [Next]_vars => ExecutingIsModule'
  BY ExecutingNext
<1>3. TypeOK /\ ExecutingIsModule /\ SentInv /\ [Next]_vars => SentInv'
  BY SentNext
<1>4. SentInv => QuietMeansSent
  <2> SUFFICES ASSUME SentInv, NEW m \in Module \ BuiltIn,
                      Quiet(m), m \notin held \cup missed, ~OnBus(m, bus)
               PROVE  Applied(m)
    BY DEF QuietMeansSent
  <2>1. Ends(m, current[m])
    BY DEF SentInv, LastSent, Quiet, Due
  <2>2. CASE \E i \in DOMAIN bus : LastOnBus(m, i)
    BY <2>2 DEF OnBus, LastOnBus
  <2>3. QED BY <2>1, <2>2 DEF Ends, Applied, Matches, NoCommand
<1>5. QED BY <1>1, <1>2, <1>3, <1>4, TypeInit, TypeNext, SentInit, PTL DEF Spec

-----------------------------------------------------------------------------
(* controller names one of those who wrote the command or controller itself, *)
(* whatever the order of the writers' steps.                                *)
SourceInv == \A m \in Module : controller[m] \in origin[m]

(* One who writes all of a command, and controller, is its only origin.     *)
LEMMA GiveSource ==
  ASSUME TypeOK, SourceInv, NEW cmds, NEW source, Give(cmds, source) PROVE SourceInv'
BY DEF Give, Marked, SourceInv, TypeOK

(* Every step keeps controller among the origins.                           *)
LEMMA SourceNext ==
  ASSUME TypeOK, SourceInv, [Next]_vars PROVE SourceInv'
<1>1. CASE Receive
  <2>1. CASE \E r \in LoopRequests : RelayLoopControl(r)
    BY <2>1, GiveSource DEF RelayLoopControl, GiveNow
  <2>2. CASE \E g \in GroupRequests : RelayLoopGroupControl(g)
    BY <2>2, GiveSource DEF RelayLoopGroupControl, GiveNow
  <2>3. CASE RelaySetBasicConfiguration
    BY <2>3 DEF RelaySetBasicConfiguration, SourceInv
  <2>4. CASE (\E p \in TempPlans : RelaySetStrategyGroupSwitch(p)) \/ NoMessage
    BY <2>4 DEF RelaySetStrategyGroupSwitch, NoMessage, commands, SourceInv
  <2>5. QED BY <1>1, <2>1, <2>2, <2>3, <2>4 DEF Receive
<1>2. CASE RelayExecuteStrategyGroup
  BY <1>2, GiveSource DEF RelayExecuteStrategyGroup
<1>3. CASE RelayExecuteTemporaryStrategyGroup
  <2> SUFFICES ASSUME NEW m \in Module PROVE controller'[m] \in origin'[m]
    BY DEF SourceInv
  <2>1. /\ controller'[m] = IF m \in DOMAIN temp THEN 3 ELSE controller[m]
        /\ origin' = OriginsAfterTemp
    BY <1>3 DEF RelayExecuteTemporaryStrategyGroup, Marked
  <2>2. controller[m] \in origin[m] /\ controller[m] # Unfinished
    <3>1. controller[m] \in 0 .. 6 /\ controller[m] \in origin[m]
      BY DEF SourceInv, TypeOK, Source
    <3>2. QED BY <3>1 DEF Unfinished
  <2>3. CASE m \in DOMAIN TempFor \cap DOMAIN temp
    BY <2>1, <2>3 DEF OriginsAfterTemp
  <2>4. CASE m \notin DOMAIN TempFor \cap DOMAIN temp /\ m \in DOMAIN TempFor \cup DOMAIN temp
    BY <2>1, <2>2, <2>4 DEF OriginsAfterTemp
  <2>5. CASE m \notin DOMAIN TempFor \cup DOMAIN temp
    BY <2>1, <2>2, <2>5 DEF OriginsAfterTemp
  <2>6. QED BY <2>3, <2>4, <2>5
<1>4. CASE RelayCheckForce
  <2>1. CASE GiveNow(AllOff, 5)
    BY <2>1, GiveSource DEF GiveNow
  <2>2. CASE UNCHANGED commands
    BY <2>2 DEF SourceInv, commands
  <2>3. QED BY <1>4, <2>1, <2>2 DEF RelayCheckForce
<1>5. CASE MmiChannel
  <2>1. controller' = controller /\ \A m \in Module : origin[m] \subseteq origin'[m]
    BY <1>5 DEF MmiChannel, TypeOK
  <2>2. QED BY <2>1 DEF SourceInv
<1>6. CASE MmiWriteState
  <2>1. controller' = controller /\ \A m \in Module : origin[m] \subseteq origin'[m]
    BY <1>6 DEF MmiWriteState, ByPanel, TypeOK
  <2>2. QED BY <2>1 DEF SourceInv
<1>7. CASE MmiController
  BY <1>7 DEF MmiController, ByPanel, SourceInv, TypeOK
<1>8. CASE UNCHANGED <<controller, origin>>
  BY <1>8 DEF SourceInv
<1>9. QED
  <2>1. Pass \/ Execute \/ ExecuteEnd \/ HoldBack \/ ExecuteDone
          => UNCHANGED <<controller, origin>>
    BY DEF Pass, Execute, ExecuteEnd, HoldBack, ExecuteDone, InExecute
  <2>2. RelayCollectCurrentState \/ NotYetCollect \/ CollectModule \/ CollectDone
          \/ RelayRecvAndHandleDeviceFrame => UNCHANGED <<controller, origin>>
    BY DEF RelayCollectCurrentState, NotYetCollect, CollectModule, CollectDone,
       RelayRecvAndHandleDeviceFrame, InCollect, commands
  <2>3. Others \/ Bus => UNCHANGED <<controller, origin>>
    BY DEF Others, SetRunMode, RaiseForce, SlotChange, Bus, Rs485Deliver, Rs485NoAnswer, InBus,
       commands
  <2>4. MmiImmediate \/ UNCHANGED vars => UNCHANGED <<controller, origin>>
    BY DEF MmiImmediate, vars, commands
  <2>5. QED BY <1>1, <1>2, <1>3, <1>4, <1>5, <1>6, <1>7, <1>8, <2>1, <2>2, <2>3, <2>4
            DEF Next, RelayStep, MmiNext

(* The steps that take a module with something due from the list: it is      *)
(* executed, or held back.                                                  *)
LEMMA DecidesDue ==
  ASSUME [Next]_vars, pc = "execute", Due(at), at \in Module, place' # place
  PROVE  (Execute /\ pc' = "executing") \/ (HoldBack /\ pc' = "execute")
<1>1. ~Receive
  BY DEF Receive, RelayLoopControl, RelayLoopGroupControl, RelaySetStrategyGroupSwitch,
     RelaySetBasicConfiguration, NoMessage, Received
<1>2. ~(RelayExecuteStrategyGroup \/ RelayExecuteTemporaryStrategyGroup \/ RelayCheckForce)
  BY DEF RelayExecuteStrategyGroup, RelayExecuteTemporaryStrategyGroup, RelayCheckForce
<1>3. ~(Pass \/ ExecuteEnd)
  BY DEF Pass, ExecuteEnd
<1>4. ~ExecuteDone
  <2>1. at # NumModules + 1
    BY SMT, RelayAssumption DEF RelayAssumption, Module
  <2>2. QED BY <2>1 DEF ExecuteDone
<1>5. ~(RelayCollectCurrentState \/ NotYetCollect \/ CollectModule \/ CollectDone
          \/ RelayRecvAndHandleDeviceFrame)
  BY DEF RelayCollectCurrentState, NotYetCollect, CollectModule, CollectDone,
     RelayRecvAndHandleDeviceFrame
<1>6. ~(MmiChannel \/ MmiNext)
  BY DEF MmiChannel, MmiNext, MmiWriteState, MmiController, MmiImmediate, InMmi
<1>7. ~(Others \/ Bus \/ UNCHANGED vars)
  BY DEF Others, SetRunMode, RaiseForce, SlotChange, Bus, Rs485Deliver, Rs485NoAnswer, InBus, vars
<1>8. Execute \/ HoldBack
  BY <1>1, <1>2, <1>3, <1>4, <1>5, <1>6, <1>7 DEF Next, RelayStep
<1>9. QED BY <1>8 DEF Execute, HoldBack

(* Whoever interleaves, the panel and the temporary strategies included: a    *)
(* command one source gave is executed if the run mode permits that source   *)
(* and held back if it does not, a mixed one as the mode says of one of its   *)
(* writers.                                                                 *)
THEOREM ModeAlwaysObeyed == Spec => ModeObeyed
<1>1. Init => SourceInv
  BY DEF Init, SourceInv
<1>2. TypeOK /\ SourceInv /\ [Next]_vars => SourceInv'
  BY SourceNext
<1>3. TypeOK /\ SourceInv /\ [Next]_vars
        => [pc = "execute" /\ at \in Module /\ Due(at) /\ place' # place =>
              \E s \in origin[at] \ {Unfinished} :
                Permitted(s, RunMode) <=> pc' = "executing"]_vars
  <2> SUFFICES ASSUME TypeOK, SourceInv, [Next]_vars, pc = "execute", at \in Module, Due(at),
                      place' # place
               PROVE  \E s \in origin[at] \ {Unfinished} :
                        Permitted(s, RunMode) <=> pc' = "executing"
    OBVIOUS
  <2>1. controller[at] \in origin[at] \ {Unfinished}
    <3>1. controller[at] \in 0 .. 6 /\ controller[at] \in origin[at]
      BY DEF SourceInv, TypeOK, Source
    <3>2. controller[at] # 7
      BY <3>1
    <3>3. QED BY <3>1, <3>2 DEF Unfinished
  <2>2. Permitted(controller[at], RunMode) <=> pc' = "executing"
    BY DecidesDue DEF Execute, HoldBack
  <2>3. QED BY <2>1, <2>2
<1>4. QED BY <1>1, <1>2, <1>3, TypeCorrect, PTL DEF Spec, ModeObeyed

-----------------------------------------------------------------------------
(* Where the commands of the task come from: StrategySelect is the part of   *)
(* the same task that finds the group of strategies in force.  Its task and  *)
(* its messages are not those of RelayControl.                               *)
CONSTANTS HOURS, MINUTES, DAYS, NGroup, Strategies, Appointments, Switches, Suns, Lights,
          light_on_thre, light_on_advance_time, light_on_delay_time,
          light_off_thre, light_off_advance_time, light_off_delay_time,
          Almanac, MaxInput

VARIABLES hour, min, date, half, sun, light, seen, stored, refresh, lists, group,
          strategy, messages

Select == INSTANCE StrategySelect WITH task <- strategy, inputs <- messages

(* What messages may store: priorities and groups are bytes, the minutes of  *)
(* a range are counted from the start of the year; a switch names groups     *)
(* there are.                                                                *)
TimeRange == [s : Nat, e : Nat, week : SUBSET (0 .. 6)]
Appointment == [group_id : Nat, priority : 0 .. 255, ranges : Seq(TimeRange)]
GroupSwitch == [type : 0 .. 255, group_id : Seq(1 .. NGroup)]

SelectInputs ==
  /\ HOURS \in Nat \ {0} /\ MINUTES \in Nat \ {0} /\ DAYS \in Nat \ {0} /\ NGroup \in Nat
  /\ Appointments \subseteq Seq(Appointment)
  /\ Switches \subseteq GroupSwitch

SelectInv ==
  /\ hour \in 0 .. HOURS - 1 /\ min \in 0 .. MINUTES - 1 /\ date \in 1 .. DAYS
  /\ stored.appointments \in Seq(Appointment)
  /\ stored.switch \in GroupSwitch

(* The clock stays within the day and the year, messages store what they     *)
(* bring.                                                                    *)
LEMMA SelectInit ==
  ASSUME SelectInputs PROVE Select!Init => SelectInv
<1> SUFFICES ASSUME Select!Init PROVE SelectInv
  OBVIOUS
<1>1. stored \in [strategies : Strategies, appointments : Appointments, switch : Switches]
  BY DEF Select!Init
<1>2. stored.appointments \in Seq(Appointment) /\ stored.switch \in GroupSwitch
  BY <1>1 DEF SelectInputs
<1>3. QED BY <1>2 DEF SelectInputs, SelectInv, Select!Init

LEMMA SelectStep ==
  ASSUME SelectInputs PROVE SelectInv /\ [Select!Next]_Select!vars => SelectInv'
<1> SUFFICES ASSUME SelectInv, [Select!Next]_Select!vars PROVE SelectInv'
  OBVIOUS
<1>1. CASE Select!RelayExecuteStrategyGroup
  BY <1>1 DEF SelectInv, Select!RelayExecuteStrategyGroup, Select!clock, Select!world
<1>2. CASE Select!Tick
  <2>1. UNCHANGED stored
    BY <1>2 DEF Select!Tick, Select!world
  <2>2. CASE min + 1 < MINUTES
    BY <1>2, <2>1, <2>2 DEF SelectInputs, SelectInv, Select!Tick
  <2>3. CASE ~(min + 1 < MINUTES)
    <3>1. hour' = (hour + 1) % HOURS /\ date' \in {date, (date % DAYS) + 1} /\ UNCHANGED min
      BY <1>2, <2>3 DEF Select!Tick
    <3>2. hour' \in 0 .. HOURS - 1
      BY <3>1 DEF SelectInputs, SelectInv
    <3>3. date' \in 1 .. DAYS
      BY <3>1 DEF SelectInputs, SelectInv
    <3>4. QED BY <2>1, <3>1, <3>2, <3>3 DEF SelectInv
  <2>4. QED BY <2>2, <2>3
<1>3. CASE Select!TickMinute
  BY <1>3 DEF SelectInputs, SelectInv, Select!TickMinute, Select!world
<1>4. CASE Select!SunChanges \/ Select!LightChanges
  BY <1>4 DEF SelectInv, Select!SunChanges, Select!LightChanges, Select!clock
<1>5. CASE Select!RelaySetRelayStrategy
  <2>1. stored'.appointments = stored.appointments /\ stored'.switch = stored.switch
    BY <1>5 DEF Select!RelaySetRelayStrategy
  <2>2. QED BY <1>5, <2>1 DEF SelectInv, Select!RelaySetRelayStrategy, Select!clock
<1>6. CASE Select!RelaySetRelayAppointment
  <2>1. PICK a \in Appointments : stored' = [stored EXCEPT !.appointments = a]
    BY <1>6 DEF Select!RelaySetRelayAppointment
  <2>2. stored'.appointments \in {a, stored.appointments} /\ stored'.switch = stored.switch
    BY <2>1
  <2>3. stored'.appointments \in Seq(Appointment)
    BY <2>2 DEF SelectInputs, SelectInv
  <2>4. QED
    BY <1>6, <2>2, <2>3 DEF SelectInv, Select!RelaySetRelayAppointment, Select!clock
<1>7. CASE Select!RelaySetStrategyGroupSwitch
  <2>1. PICK s \in Switches : stored' = [stored EXCEPT !.switch = s]
    BY <1>7 DEF Select!RelaySetStrategyGroupSwitch
  <2>2. stored'.switch \in {s, stored.switch} /\ stored'.appointments = stored.appointments
    BY <2>1
  <2>3. stored'.switch \in GroupSwitch
    BY <2>2 DEF SelectInputs, SelectInv
  <2>4. QED
    BY <1>7, <2>2, <2>3 DEF SelectInv, Select!RelaySetStrategyGroupSwitch, Select!clock
<1>8. CASE UNCHANGED Select!vars
  BY <1>8 DEF SelectInv, Select!vars, Select!clock, Select!world
<1>9. QED
  BY <1>1, <1>2, <1>3, <1>4, <1>5, <1>6, <1>7, <1>8 DEF Select!Next

(* A set of numbers has a least one.                                         *)
LEMMA Least ==
  ASSUME NEW S \in SUBSET Nat, S # {}
  PROVE  \E n \in S : \A k \in S : n <= k
<1>1. PICK n \in S : \A k \in S : ~(<<k, n>> \in OpToRel(<, Nat))
  BY NatLessThanWellFounded, WFMin
<1>2. \A k \in S : ~(k < n)
  BY <1>1 DEF OpToRel
<1>3. QED BY <1>2

(* The clock's minute is one of the day.                                     *)
LEMMA GateInDay ==
  ASSUME SelectInputs, SelectInv
  PROVE  Select!Day \in Nat \ {0} /\ Select!gate_n \in 0 .. Select!Day - 1
<1>1. PICK H \in Nat \ {0}, M \in Nat \ {0} : H = HOURS /\ M = MINUTES
  BY DEF SelectInputs
<1>2. H * M \in Nat \ {0}
  OBVIOUS
<1>3. hour * M \in Nat /\ hour * M <= (H - 1) * M
  BY <1>1 DEF SelectInv
<1>4. (H - 1) * M = H * M - M
  OBVIOUS
<1>5. min \in 0 .. M - 1
  BY <1>1 DEF SelectInv
<1>6. PICK h \in Nat, d \in Nat : h = hour * M /\ d = H * M
  BY <1>2, <1>3
<1>7. h <= d - M /\ h + min \in 0 .. d - 1
  BY <1>3, <1>4, <1>5, <1>6
<1>8. QED BY <1>1, <1>2, <1>6, <1>7 DEF Select!Day, Select!gate_n

(* An appointment is a candidate exactly when it holds, where the code's     *)
(* week and the end of the year are not off.                                 *)
LEMMA AllowedHolds ==
  ASSUME SelectInputs, SelectInv, Select!week # 0,
         NEW a \in Appointment, Select!CrossesPlainly(a),
         NEW i \in Nat \ {0}, NEW odd \in BOOLEAN
  PROVE  (\E j \in DOMAIN a.ranges : Select!Allows(a.ranges, i, j, odd)) <=> Select!Holds(a)
<1> DEFINE now == Select!Day * date + Select!gate_n
<1>1. Select!Day \in Nat \ {0} /\ Select!gate_n \in 0 .. Select!Day - 1
  BY GateInDay
<1>2. now \in Nat /\ now >= 1 /\ (date < DAYS => now <= Select!Day * DAYS)
  <2>1. PICK D \in Nat \ {0} : D = Select!Day
    BY <1>1
  <2>2. date \in 1 .. DAYS /\ DAYS \in Nat
    BY DEF SelectInputs, SelectInv
  <2>3. D * date \in Nat /\ D * date >= D
    BY <2>2
  <2>4. date < DAYS => D * date + D <= D * DAYS
    BY <2>2
  <2>5. PICK g \in 0 .. D - 1, p \in Nat : g = Select!gate_n /\ p = D * date
    BY <1>1, <2>1, <2>3
  <2>6. now = p + g
    BY <2>1, <2>5
  <2>7. p + g \in Nat /\ p + g >= 1
    BY <2>3, <2>5
  <2>8. date < DAYS => p + g <= D * DAYS
    <3>1. PICK q : q = D * DAYS
      OBVIOUS
    <3>2. q \in Nat
      BY <2>1, <2>2, <3>1
    <3>3. date < DAYS => p + D <= q
      BY <2>4, <2>5, <3>1
    <3>4. QED BY <2>5, <3>1, <3>2, <3>3
  <2> HIDE DEF now
  <2>9. QED BY <2>1, <2>6, <2>7, <2>8
<1> HIDE DEF now
<1>3. ASSUME NEW j \in DOMAIN a.ranges
      PROVE  Select!Allows(a.ranges, i, j, odd) <=>
               LET r == a.ranges[j]
                   inTime == IF r.s <= r.e THEN now \in r.s .. r.e ELSE now >= r.s \/ now <= r.e
               IN /\ (r.s = 0 /\ r.e = 0) \/ inTime
                  /\ r.week = {} \/ Select!week \in r.week
  <2>1. a.ranges \in Seq(TimeRange)
    BY DEF Appointment
  <2>2. PICK r \in TimeRange : r = a.ranges[j]
    BY <2>1
  <2>3. r.s \in Nat /\ r.e \in Nat
    BY DEF TimeRange
  <2>4. Select!WeekAllows(r, odd) <=> (r.week = {} \/ Select!week \in r.week)
    BY DEF Select!WeekAllows
  <2> DEFINE other == IF i <= Len(a.ranges) THEN a.ranges[i] ELSE [week |-> {}]
             dated == r.s <= now /\ now <= r.e /\ Select!WeekAllows(r, odd)
             crossing == /\ now \in (r.s .. Select!Day * DAYS) \cup (1 .. r.e)
                         /\ Select!WeekAllows(other, odd)
  <2>9. Select!Allows(a.ranges, i, j, odd) =
          CASE r.s = 0 /\ r.e = 0 -> Select!WeekAllows(r, odd)
            [] ~(r.s = 0 /\ r.e = 0) /\ r.s <= r.e -> dated
            [] r.s > r.e -> crossing
    BY <2>2, Zenon DEF Select!Allows, now
  <2> HIDE DEF dated, crossing, other
  <2>5. CASE r.s = 0 /\ r.e = 0
    BY <2>2, <2>4, <2>5 DEF Select!Allows
  <2>6. CASE ~(r.s = 0 /\ r.e = 0) /\ r.s <= r.e
    <3>1. Select!Allows(a.ranges, i, j, odd) <=>
            r.s <= now /\ now <= r.e /\ Select!WeekAllows(r, odd)
      <4>1. ~(r.s = 0 /\ r.e = 0) /\ ~(r.s > r.e)
        BY <2>3, <2>6
      <4>2. Select!Allows(a.ranges, i, j, odd) = dated
        BY <2>6, <2>9, <4>1
      <4>3. QED BY <4>2 DEF dated
    <3>2. QED BY <1>2, <2>2, <2>3, <2>4, <2>6, <3>1
  <2>7. CASE r.s > r.e
    <3>1. date < DAYS /\ \A k \in DOMAIN a.ranges : a.ranges[k].week = {}
      BY <2>2, <2>7 DEF Select!CrossesPlainly
    <3>3. other.week = {}
      BY <2>1, <3>1 DEF other
    <3>4. Select!WeekAllows(other, odd)
      BY <3>3 DEF Select!WeekAllows
    <3>5. Select!Allows(a.ranges, i, j, odd) <=>
            now \in (r.s .. Select!Day * DAYS) \cup (1 .. r.e)
      <4>1. ~(r.s = 0 /\ r.e = 0) /\ ~(r.s <= r.e)
        BY <2>3, <2>7
      <4>2. Select!Allows(a.ranges, i, j, odd) = crossing
        BY <2>7, <2>9, <4>1
      <4>3. QED BY <3>4, <4>2 DEF crossing
    <3>6. PICK Y \in Nat : Y = Select!Day * DAYS
      BY <1>1 DEF SelectInputs
    <3>7. Select!Allows(a.ranges, i, j, odd) <=> (now >= r.s \/ now <= r.e)
      BY <1>2, <2>3, <3>1, <3>5, <3>6
    <3>8. QED BY <2>2, <2>3, <2>7, <3>1, <3>7
  <2>8. QED BY <2>3, <2>5, <2>6, <2>7
<1>4. QED BY <1>3 DEF Select!Holds, now

(* Of the candidates one has the highest priority.                           *)
LEMMA BestThere ==
  ASSUME SelectInv, NEW odd \in BOOLEAN, Select!Candidates(odd) # {}
  PROVE  /\ Select!Best(Select!Candidates(odd)) # {}
         /\ \E c \in Select!Best(Select!Candidates(odd)) :
              Select!ByAppointment(odd) = stored.switch.group_id[c[1]]
<1> DEFINE cs == Select!Candidates(odd)
           below == {n \in Nat : \E c \in cs : n = 255 - Select!Priority(c)}
<1>1. \A c \in cs : /\ c[1] \in DOMAIN stored.switch.group_id
                    /\ stored.appointments[c[2]] \in Appointment
  BY ElementOfSeq DEF Select!Candidates, SelectInv
<1>2. \A c \in cs : Select!Priority(c) \in 0 .. 255
  BY <1>1 DEF Select!Priority, Appointment
<1>3. PICK n \in below : \A k \in below : n <= k
  <2>1. PICK c \in cs : TRUE
    OBVIOUS
  <2>2. 255 - Select!Priority(c) \in below
    BY <1>2, <2>1
  <2>3. below \in SUBSET Nat
    OBVIOUS
  <2> HIDE DEF below
  <2>4. QED BY <2>2, <2>3, Least
<1>4. PICK c \in cs : n = 255 - Select!Priority(c)
  OBVIOUS
<1>5. \A d \in cs : Select!Priority(d) <= Select!Priority(c)
  <2>1. TAKE d \in cs
  <2>2. 255 - Select!Priority(d) \in below
    BY <1>2
  <2>3. Select!Priority(c) \in 0 .. 255 /\ Select!Priority(d) \in 0 .. 255
    BY <1>2
  <2>4. 255 - Select!Priority(c) <= 255 - Select!Priority(d)
    BY <1>3, <1>4, <2>2
  <2> HIDE DEF below, cs
  <2>5. PICK x \in 0 .. 255, y \in 0 .. 255 : x = Select!Priority(c) /\ y = Select!Priority(d)
    BY <2>3
  <2>6. 255 - x <= 255 - y
    BY <2>4, <2>5
  <2>7. y <= x
    BY <2>6
  <2>8. QED BY <2>5, <2>7
<1>6. c \in Select!Best(cs)
  BY <1>5 DEF Select!Best
<1> DEFINE places == {d[1] : d \in Select!Best(cs)}
<1>7. places \subseteq Nat /\ places # {}
  <2>1. stored.switch.group_id \in Seq(1 .. NGroup)
    BY DEF SelectInv, GroupSwitch
  <2>2. QED BY <1>1, <1>6, <2>1 DEF Select!Best
<1>8. PICK p \in places : \A q \in places : p <= q
  BY <1>7, Least
<1>9. Select!Min(places) \in places
  BY <1>8 DEF Select!Min
<1>10. Select!ByAppointment(odd) = stored.switch.group_id[Select!Min(places)]
  BY DEF Select!ByAppointment
<1>11. QED BY <1>6, <1>9, <1>10

(* The group now in force is one that holds, and the best of these.          *)
BestInForce ==
  LET holding == UNION {{a \in Select!AppointmentOf(id) : Select!Holds(a)} :
                          id \in Select!ToSet(stored.switch.group_id)}
  IN IF holding = {} THEN group' = 0
     ELSE \E a \in holding : a.group_id = group' /\ \A b \in holding : b.priority <= a.priority

(* The group in force has an appointment that holds, and none of the switch  *)
(* that holds has a higher priority, whatever groups, appointments and       *)
(* ranges were stored (RefreshCurrentRelayStrategyGroup).                    *)
THEOREM PriorityAlwaysHighest ==
  ASSUME SelectInputs PROVE Select!Spec => Select!HighestPriority
<1>1. ASSUME SelectInv, Select!RelayExecuteStrategyGroup, refresh,
             stored.switch.type = 1, Select!week # 0,
             \A a \in Select!ToSet(stored.appointments) : Select!CrossesPlainly(a)
      PROVE  BestInForce
  <2> DEFINE ids == stored.switch.group_id
             holds == UNION {{a \in Select!AppointmentOf(id) : Select!Holds(a)} :
                               id \in Select!ToSet(ids)}
  <2>1. PICK odd \in BOOLEAN : group' = Select!GroupNow(odd)
    BY <1>1 DEF Select!RelayExecuteStrategyGroup
  <2>2. ids \in Seq(1 .. NGroup) /\ DOMAIN ids \subseteq Nat \ {0}
        /\ stored.appointments \in Seq(Appointment) /\ NGroup \in Nat
    <3>1. stored.switch \in GroupSwitch /\ stored.appointments \in Seq(Appointment)
      BY <1>1 DEF SelectInv
    <3>2. NGroup \in Nat
      BY DEF SelectInputs
    <3>3. ids \in Seq(1 .. NGroup)
      BY ONLY <3>1 DEF GroupSwitch
    <3>4. DOMAIN ids = 1 .. Len(ids) /\ Len(ids) \in Nat
      BY ONLY <3>3
    <3>5. DOMAIN ids \subseteq Nat \ {0}
      BY ONLY <3>4
    <3>6. QED BY <3>1, <3>2, <3>3, <3>5
  <2>3. ASSUME NEW c \in Select!Candidates(odd)
        PROVE  /\ stored.appointments[c[2]] \in holds
               /\ stored.appointments[c[2]].group_id = ids[c[1]]
    <3>1. PICK i \in DOMAIN ids, k \in DOMAIN stored.appointments : c = <<i, k>>
      BY DEF Select!Candidates
    <3>2. PICK a \in Appointment : a = stored.appointments[k]
      BY <2>2
    <3>3. a.group_id = ids[i] /\ \E j \in DOMAIN a.ranges : Select!Allows(a.ranges, i, j, odd)
      BY <3>1, <3>2 DEF Select!Candidates
    <3>4. a \in Select!ToSet(stored.appointments) /\ ids[i] \in Select!ToSet(ids)
      BY <3>2 DEF Select!ToSet
    <3>5. Select!Holds(a)
      BY <1>1, <2>2, <3>3, <3>4, AllowedHolds
    <3>6. a \in holds
      BY <3>3, <3>4, <3>5 DEF Select!AppointmentOf
    <3>7. QED BY <3>1, <3>2, <3>3, <3>6
  <2>4. ASSUME NEW a \in holds
        PROVE  \E c \in Select!Candidates(odd) : a = stored.appointments[c[2]]
    <3>1. PICK i \in DOMAIN ids : a \in Select!AppointmentOf(ids[i]) /\ Select!Holds(a)
      BY DEF Select!ToSet
    <3>2. PICK k \in DOMAIN stored.appointments : a = stored.appointments[k]
      BY <3>1 DEF Select!AppointmentOf, Select!ToSet
    <3>3. a \in Appointment /\ a.group_id = ids[i] /\ a \in Select!ToSet(stored.appointments)
      BY <2>2, <3>1, <3>2 DEF Select!AppointmentOf
    <3>4. \E j \in DOMAIN a.ranges : Select!Allows(a.ranges, i, j, odd)
      BY <1>1, <2>2, <3>1, <3>3, AllowedHolds
    <3>5. <<i, k>> \in Select!Candidates(odd)
      BY <3>2, <3>3, <3>4 DEF Select!Candidates
    <3>6. QED BY <3>2, <3>5
  <2>5. CASE Select!Candidates(odd) = {}
    <3>1. holds = {}
      BY <2>4, <2>5
    <3>2. group' = 0
      BY <1>1, <2>1, <2>5 DEF Select!GroupNow, Select!ByAppointment, Select!Group
    <3>3. QED BY <3>1, <3>2 DEF BestInForce
  <2>6. CASE Select!Candidates(odd) # {}
    <3>1. PICK c \in Select!Best(Select!Candidates(odd)) : Select!ByAppointment(odd) = ids[c[1]]
      BY <1>1, <2>6, BestThere
    <3>2. c \in Select!Candidates(odd)
          /\ \A d \in Select!Candidates(odd) : Select!Priority(d) <= Select!Priority(c)
      BY DEF Select!Best
    <3>3. PICK a \in holds : a = stored.appointments[c[2]] /\ a.group_id = ids[c[1]]
      BY <2>3, <3>2
    <3>4. group' = a.group_id
      <4>1. ids[c[1]] \in 1 .. NGroup
        BY <2>2, <3>2 DEF Select!Candidates
      <4>2. QED BY <1>1, <2>1, <3>1, <3>3, <4>1 DEF Select!GroupNow, Select!Group
    <3>5. \A b \in holds : b.priority <= a.priority
      BY <2>4, <3>2, <3>3 DEF Select!Priority
    <3>6. QED BY <3>3, <3>4, <3>5 DEF BestInForce
  <2>7. QED BY <2>5, <2>6
<1>2. SelectInv /\ [Select!Next]_Select!vars =>
        [/\ Select!RelayExecuteStrategyGroup /\ refresh
         /\ stored.switch.type = 1 /\ Select!week # 0
         /\ \A a \in Select!ToSet(stored.appointments) : Select!CrossesPlainly(a)
         => BestInForce]_Select!vars
  BY <1>1
<1>3. Select!Init => SelectInv
  BY SelectInit
<1>4. SelectInv /\ [Select!Next]_Select!vars => SelectInv'
  BY SelectStep
<1>5. QED BY <1>2, <1>3, <1>4, PTL
      DEF Select!Spec, Select!HighestPriority, BestInForce
-----------------------------------------------------------------------------
(* The lists of the groups.  A strategy names its group, what it goes by and *)
(* a minute or an offset; the sun, the almanac and the offsets of the light  *)
(* are minutes.                                                              *)
StrategyRecord == [group_id : Nat, type : STRING, time_option : STRING, time : Int]
Word == 0 .. 256 * 256 - 1
EntryOf(g) == [s : {s \in StrategyRecord : s.group_id = g}, at : Word]

ListInputs ==
  /\ SelectInputs
  /\ Strategies \subseteq Seq(StrategyRecord)
  /\ Suns \subseteq [rise : Int, set : Int]
  /\ Almanac \in [on : Int, off : Int]
  /\ light_on_advance_time \in Int /\ light_on_delay_time \in Int
  /\ light_off_advance_time \in Int /\ light_off_delay_time \in Int
  /\ MaxInput \in Nat

InOrder(list) == \A p, q \in DOMAIN list : p <= q => list[p].at <= list[q].at

(* The list of group g after the first strategies of seq, as a fold.         *)
Added(g, list, s) == IF s.group_id = g THEN Select!RelayStrategyAdd(list, s) ELSE list
Folded(g, seq, n, it) ==
  it = [d \in SUBSET (1 .. n) |->
          IF d = {} THEN << >>
          ELSE Added(g, it[d \ {Select!Max(d)}], seq[Select!Max(d)])]

LEMMA MaxIs ==
  ASSUME NEW d \in SUBSET Nat, NEW n \in d, \A k \in d : k <= n
  PROVE  Select!Max(d) = n
<1> DEFINE m == Select!Max(d)
<1>1. m \in d /\ \A k \in d : m >= k
  BY DEF Select!Max
<1>2. m \in Nat /\ n \in Nat /\ m >= n /\ m <= n
  BY <1>1
<1>3. QED BY <1>2

(* The recursion of the fold defines a function.                             *)
LEMMA FoldThere ==
  ASSUME NEW g, NEW seq, NEW n \in Nat
  PROVE  \E it : Folded(g, seq, n, it)
<1> DEFINE bad == {k \in Nat : ~\E it : Folded(g, seq, k, it)}
<1>1. SUFFICES ASSUME bad # {} PROVE FALSE
  OBVIOUS
<1>2. PICK k \in bad : \A j \in bad : k <= j
  BY <1>1, Least
<1>3. CASE k = 0
  <2>1. SUBSET (1 .. k) = {{}}
    BY <1>3
  <2>2. Folded(g, seq, k, [d \in SUBSET (1 .. k) |-> << >>])
    BY <2>1 DEF Folded
  <2>3. QED BY <2>2
<1>4. CASE k # 0
  <2>1. k - 1 \in Nat /\ ~(k <= k - 1)
    BY <1>4
  <2>2. PICK it : Folded(g, seq, k - 1, it)
    BY <1>2, <2>1
  <2> DEFINE largest(d) == Select!Max(d)
             new == [d \in SUBSET (1 .. k) |->
                       IF k \in d THEN Added(g, it[d \ {k}], seq[k]) ELSE it[d]]
  <2>3. ASSUME NEW d \in SUBSET (1 .. k)
        PROVE  new[d] = IF d = {} THEN << >> ELSE Added(g, new[d \ {largest(d)}], seq[largest(d)])
    <3>1. CASE k \in d
      <4>1. largest(d) = k
        BY <3>1, MaxIs
      <4>2. d \ {k} \in SUBSET (1 .. k) /\ k \notin d \ {k}
        OBVIOUS
      <4>3. new[d \ {k}] = it[d \ {k}]
        BY <4>2
      <4>4. new[d] = Added(g, it[d \ {k}], seq[k])
        BY <3>1
      <4> HIDE DEF largest, new
      <4>5. QED BY <3>1, <4>1, <4>3, <4>4
    <3>2. CASE k \notin d
      <4>1. d \in SUBSET (1 .. (k - 1)) /\ d \ {largest(d)} \in SUBSET (1 .. (k - 1))
        <5> HIDE DEF largest, new
        <5>1. \A j \in d : j \in 1 .. (k - 1)
          BY <2>1, <3>2
        <5>2. QED BY <5>1
      <4>2. new[d] = it[d]
        BY <3>2
      <4>3. new[d \ {largest(d)}] = it[d \ {largest(d)}]
        <5>1. d \ {largest(d)} \in SUBSET (1 .. k) /\ k \notin d \ {largest(d)}
          BY <3>2
        <5> HIDE DEF largest
        <5>2. QED BY <5>1
      <4>4. it[d] = IF d = {} THEN << >> ELSE Added(g, it[d \ {largest(d)}], seq[largest(d)])
        BY <2>2, <4>1 DEF Folded
      <4> HIDE DEF largest, new
      <4>5. QED BY <4>2, <4>3, <4>4
    <3>3. QED BY <3>1, <3>2
  <2>4. Folded(g, seq, k, new)
    <3>1. new = [d \in SUBSET (1 .. k) |-> new[d]]
      OBVIOUS
    <3>2. [d \in SUBSET (1 .. k) |-> new[d]] =
            [d \in SUBSET (1 .. k) |->
               IF d = {} THEN << >> ELSE Added(g, new[d \ {largest(d)}], seq[largest(d)])]
      <4> HIDE DEF largest, new
      <4>1. QED BY <2>3
    <3> HIDE DEF new
    <3>3. QED BY <3>1, <3>2 DEF Folded
  <2>5. QED BY <2>4
<1>5. QED BY <1>3, <1>4

(* What every strategy added keeps of a list holds of the lists that are     *)
(* built.                                                                    *)
LEMMA BuiltKeeps ==
  ASSUME NEW g \in 1 .. NGroup, NEW S, NEW G, stored.strategies \in Seq(S),
         << >> \in G, \A list \in G, s \in S : Added(g, list, s) \in G
  PROVE  Select!ReadRelayStrategyGroups[g] \in G
<1> DEFINE seq == stored.strategies
           n == Len(seq)
           it == CHOOSE f : Folded(g, seq, n, f)
<1>1. n \in Nat /\ DOMAIN seq = 1 .. n /\ \A i \in 1 .. n : seq[i] \in S
  OBVIOUS
<1>2. Folded(g, seq, n, it)
  BY <1>1, FoldThere
<1>3. Select!ReadRelayStrategyGroups[g] = it[1 .. n]
  <2>1. Select!ReadRelayStrategyGroups[g] =
          (CHOOSE f : f = [d \in SUBSET DOMAIN seq |->
                             IF d = {} THEN << >>
                             ELSE Added(g, f[d \ {Select!Max(d)}], seq[Select!Max(d)])])[DOMAIN seq]
    BY DEF Select!ReadRelayStrategyGroups, Select!FoldLeft, Select!MapThenFoldSet, Added,
           Select!Group
  <2>2. QED BY <1>1, <2>1 DEF Folded
<1> HIDE DEF it, n, seq
<1> DEFINE bad == {k \in 0 .. n : it[1 .. k] \notin G}
<1>4. SUFFICES ASSUME bad # {} PROVE FALSE
  BY <1>1, <1>3
<1>5. PICK k \in bad : \A j \in bad : k <= j
  <2>1. bad \in SUBSET Nat
    BY <1>1
  <2> HIDE DEF bad
  <2>2. QED BY <1>4, <2>1, Least
<1>6. k \in 0 .. n /\ 1 .. k \in SUBSET (1 .. n)
  BY <1>1
<1>7. it[1 .. k] = IF 1 .. k = {} THEN << >>
                   ELSE Added(g, it[(1 .. k) \ {Select!Max(1 .. k)}], seq[Select!Max(1 .. k)])
  BY <1>2, <1>6 DEF Folded
<1>8. CASE k = 0
  <2>1. 1 .. k = {}
    BY <1>8
  <2>2. QED BY <1>7, <2>1
<1>9. CASE k # 0
  <2>1. k - 1 \in 0 .. n /\ ~(k <= k - 1) /\ k \in 1 .. n
    BY <1>1, <1>6, <1>9
  <2>2. it[1 .. (k - 1)] \in G
    BY <1>5, <2>1
  <2>3. Select!Max(1 .. k) = k
    BY <2>1, MaxIs
  <2>4. (1 .. k) \ {k} = 1 .. (k - 1) /\ 1 .. k # {}
    <3>1. \A j : j \in 1 .. k /\ j # k <=> j \in 1 .. (k - 1)
      BY <1>1, <2>1
    <3>2. QED BY <2>1, <3>1
  <2>5. it[1 .. k] = Added(g, it[1 .. (k - 1)], seq[k])
    BY <1>7, <2>3, <2>4
  <2>6. it[1 .. k] \in G
    BY <1>1, <2>1, <2>2, <2>5
  <2>7. QED BY <2>6
<1>10. QED BY <1>8, <1>9
(* A strategy is added where the order of the list stays: those before it    *)
(* are not later, those behind it not earlier.                               *)
LEMMA PlaceKeeps ==
  ASSUME NEW E, \A e \in E : e.at \in Nat,
         NEW list \in Seq(E), InOrder(list), NEW minute \in Nat
  PROVE  /\ Select!Place(list, minute) \in 1 .. Len(list) + 1
         /\ \A p \in DOMAIN list : p < Select!Place(list, minute) => list[p].at <= minute
         /\ \A p \in DOMAIN list : p >= Select!Place(list, minute) => minute <= list[p].at
<1> DEFINE time(p) == IF p = 0 THEN 0 ELSE list[p].at
           gaps == {p \in 0 .. Len(list) - 1 : time(p) <= minute /\ minute < time(p + 1)}
           later == {p \in DOMAIN list : minute < list[p].at}
<1>1. /\ Len(list) \in Nat /\ DOMAIN list = 1 .. Len(list)
      /\ \A p \in DOMAIN list : list[p].at \in Nat
  <2>1. Len(list) \in Nat /\ DOMAIN list = 1 .. Len(list)
    OBVIOUS
  <2>2. \A p \in DOMAIN list : list[p] \in E
    BY <2>1
  <2>3. QED BY <2>1, <2>2
<1>2. Select!Place(list, minute) = IF gaps = {} THEN Len(list) + 1 ELSE Select!Min(gaps) + 1
  BY DEF Select!Place
<1>3. gaps \in SUBSET Nat /\ later \in SUBSET Nat
  BY <1>1
<1>4. CASE gaps = {}
  <2>1. SUFFICES ASSUME later # {} PROVE FALSE
    <3>1. Select!Place(list, minute) = Len(list) + 1
      BY <1>2, <1>4
    <3>2. QED BY <1>1, <2>1, <3>1
  <2>2. PICK p \in later : \A q \in later : p <= q
    BY <1>3, <2>1, Least
  <2>3. p \in 1 .. Len(list) /\ minute < list[p].at
    BY <1>1
  <2>4. p - 1 \notin later
    BY <2>2, <2>3
  <2>5. time(p - 1) <= minute
    BY <1>1, <2>3, <2>4
  <2>6. time(p - 1 + 1) = list[p].at
    BY <2>3
  <2>7. p - 1 \in gaps
    BY <1>1, <2>3, <2>5, <2>6
  <2>8. QED BY <1>4, <2>7
<1>5. CASE gaps # {}
  <2>1. PICK n \in gaps : \A q \in gaps : n <= q
    BY <1>3, <1>5, Least
  <2>2. Select!Min(gaps) \in gaps
    BY <2>1 DEF Select!Min
  <2>3. PICK m : m = Select!Min(gaps)
    OBVIOUS
  <2>4. m \in 0 .. Len(list) - 1 /\ time(m) <= minute /\ minute < time(m + 1)
    BY <2>2, <2>3
  <2>5. Select!Place(list, minute) = m + 1
    BY <1>2, <1>5, <2>3
  <2>6. ASSUME NEW p \in DOMAIN list, p < m + 1 PROVE list[p].at <= minute
    <3>1. m \in DOMAIN list /\ p <= m /\ list[m].at <= minute
      BY <1>1, <2>4, <2>6
    <3>2. list[p].at <= list[m].at
      BY <3>1 DEF InOrder
    <3>3. QED BY <1>1, <3>1, <3>2
  <2>7. ASSUME NEW p \in DOMAIN list, p >= m + 1 PROVE minute <= list[p].at
    <3>1. m + 1 \in DOMAIN list /\ m + 1 <= p /\ minute < list[m + 1].at
      BY <1>1, <2>4, <2>7
    <3>2. list[m + 1].at <= list[p].at
      BY <3>1 DEF InOrder
    <3>3. QED BY <1>1, <3>1, <3>2
  <2>8. m + 1 \in 1 .. Len(list) + 1
    BY <1>1, <2>4
  <2>9. QED BY <2>5, <2>6, <2>7, <2>8
<1>6. QED BY <1>4, <1>5

(* An inserted element moves those behind it by one.                         *)
HasInserted(new, list, i, e) ==
  /\ Len(new) = Len(list) + 1
  /\ \A p \in 1 .. Len(list) + 1 :
       new[p] = IF p < i THEN list[p] ELSE IF p = i THEN e ELSE list[p - 1]

LEMMA InsertedIs ==
  ASSUME NEW S, NEW list \in Seq(S), NEW i \in 1 .. Len(list) + 1, NEW e \in S
  PROVE  /\ Select!InsertAt(list, i, e) \in Seq(S)
         /\ HasInserted(Select!InsertAt(list, i, e), list, i, e)
<1> DEFINE a == SubSeq(list, 1, i - 1)
           b == SubSeq(list, i, Len(list))
<1>1. Len(list) \in Nat /\ \A p \in 1 .. Len(list) : list[p] \in S
  OBVIOUS
<1>2. a \in Seq(S) /\ Len(a) = i - 1 /\ \A p \in 1 .. i - 1 : a[p] = list[p]
  BY <1>1
<1>3. b \in Seq(S) /\ Len(b) = Len(list) - i + 1
      /\ \A p \in 1 .. Len(list) - i + 1 : b[p] = list[i + p - 1]
  BY <1>1
<1>4. Select!InsertAt(list, i, e) = (a \o <<e>>) \o b
  BY DEF Select!InsertAt
<1> HIDE DEF a, b
<1>5. a \o <<e>> \in Seq(S) /\ Len(a \o <<e>>) = i
      /\ \A p \in 1 .. i : (a \o <<e>>)[p] = IF p < i THEN list[p] ELSE e
  BY <1>2
<1>6. PICK c \in Seq(S) : c = a \o <<e>>
  BY <1>5
<1>7. c \o b \in Seq(S) /\ Len(c \o b) = Len(list) + 1
      /\ \A p \in 1 .. Len(list) + 1 : (c \o b)[p] = IF p <= i THEN c[p] ELSE b[p - i]
  BY <1>1, <1>3, <1>5, <1>6
<1>8. ASSUME NEW p \in 1 .. Len(list) + 1
      PROVE  (c \o b)[p] = IF p < i THEN list[p] ELSE IF p = i THEN e ELSE list[p - 1]
  <2>1. CASE p <= i
    <3>1. p \in 1 .. i
      BY <1>1, <2>1
    <3>2. (c \o b)[p] = c[p]
      BY <1>7, <2>1
    <3>3. c[p] = IF p < i THEN list[p] ELSE e
      BY <1>5, <1>6, <3>1
    <3>4. p < i \/ p = i
      BY <1>1, <2>1
    <3>5. QED BY <3>2, <3>3, <3>4
  <2>2. CASE p > i
    <3>1. p - i \in 1 .. Len(list) - i + 1 /\ i + (p - i) - 1 = p - 1
      BY <1>1, <2>2
    <3>2. b[p - i] = list[p - 1]
      BY <1>3, <3>1
    <3>3. QED BY <1>7, <2>2, <3>2
  <2>3. p <= i \/ p > i
    BY <1>1
  <2>4. QED BY <2>1, <2>2, <2>3
<1>9. Select!InsertAt(list, i, e) = c \o b
  BY <1>4, <1>6
<1>10. PICK r : r = c \o b
  OBVIOUS
<1>11. r \in Seq(S) /\ HasInserted(r, list, i, e)
  BY <1>7, <1>8, <1>10 DEF HasInserted
<1>12. QED BY <1>9, <1>10, <1>11

(* So RelayStrategyAdd keeps a list in order.                                *)
LEMMA AddKeepsOrder ==
  ASSUME NEW E, \A e \in E : e.at \in Nat,
         NEW list \in Seq(E), InOrder(list),
         NEW e \in E, NEW i, i = Select!Place(list, e.at)
  PROVE  Select!InsertAt(list, i, e) \in Seq(E) /\ InOrder(Select!InsertAt(list, i, e))
<1> DEFINE new == Select!InsertAt(list, i, e)
           n == Len(list)
<1>1. e.at \in Nat
  OBVIOUS
<1>2. /\ i \in 1 .. n + 1
      /\ \A p \in DOMAIN list : p < i => list[p].at <= e.at
      /\ \A p \in DOMAIN list : p >= i => e.at <= list[p].at
  BY <1>1, PlaceKeeps
<1>3. /\ new \in Seq(E) /\ Len(new) = n + 1
      /\ \A p \in 1 .. n + 1 : new[p] = IF p < i THEN list[p] ELSE IF p = i THEN e ELSE list[p - 1]
  <2>1. i \in 1 .. Len(list) + 1
    BY <1>2
  <2>2. new \in Seq(E) /\ HasInserted(new, list, i, e)
    BY <2>1, InsertedIs
  <2> HIDE DEF new
  <2>3. QED BY <2>2 DEF HasInserted
<1>4. n \in Nat /\ DOMAIN list = 1 .. n /\ DOMAIN new = 1 .. n + 1
  <2>1. n \in Nat /\ DOMAIN list = 1 .. n
    OBVIOUS
  <2> HIDE DEF new, n
  <2>2. DOMAIN new = 1 .. Len(new)
    BY <1>3
  <2>3. QED BY <1>3, <2>1, <2>2
<1> HIDE DEF new, n
<1>5. ASSUME NEW p \in 1 .. n + 1, NEW q \in 1 .. n + 1, p < q
      PROVE  new[p].at <= new[q].at
  <2>1. CASE q < i
    <3>1. new[p] = list[p] /\ new[q] = list[q] /\ p \in 1 .. n /\ q \in 1 .. n /\ p <= q
      BY <1>2, <1>3, <1>4, <1>5, <2>1
    <3>2. QED BY <1>4, <3>1 DEF InOrder
  <2>2. CASE q = i
    <3>1. new[p] = list[p] /\ new[q] = e /\ p \in 1 .. n /\ p < i
      BY <1>2, <1>3, <1>4, <1>5, <2>2
    <3>2. QED BY <1>2, <1>4, <3>1
  <2>3. CASE p < i /\ q > i
    <3>1. new[p] = list[p] /\ new[q] = list[q - 1] /\ p \in 1 .. n /\ q - 1 \in 1 .. n /\ p <= q - 1
      BY <1>2, <1>3, <1>4, <1>5, <2>3
    <3>2. QED BY <1>4, <3>1 DEF InOrder
  <2>4. CASE p = i /\ q > i
    <3>1. new[p] = e /\ new[q] = list[q - 1] /\ q - 1 \in 1 .. n /\ q - 1 >= i
      BY <1>2, <1>3, <1>4, <1>5, <2>4
    <3>2. QED BY <1>2, <1>4, <3>1
  <2>5. CASE p > i
    <3>1. /\ new[p] = list[p - 1] /\ new[q] = list[q - 1]
          /\ p - 1 \in 1 .. n /\ q - 1 \in 1 .. n /\ p - 1 <= q - 1
      BY <1>2, <1>3, <1>4, <1>5, <2>5
    <3>2. QED BY <1>4, <3>1 DEF InOrder
  <2>6. QED BY <1>2, <1>4, <1>5, <2>1, <2>2, <2>3, <2>4, <2>5
<1>6. ASSUME NEW p \in 1 .. n + 1 PROVE new[p].at <= new[p].at
  <2>1. new[p] \in E
    BY <1>3, <1>4
  <2>2. QED BY <2>1
<1>7. QED BY <1>3, <1>4, <1>5, <1>6 DEF InOrder, new
(* The pass finds the first place of the list that stops the scan.           *)
LEMMA FirstStop ==
  ASSUME NEW E, NEW list \in Seq(E), list # << >>
  PROVE  \E p \in DOMAIN list :
           /\ Select!Stops(list, p)
           /\ \A q \in DOMAIN list : Select!Stops(list, q) => p <= q
           /\ Select!Chosen(list) =
                IF /\ Select!gate_n # list[p].at /\ p < Len(list)
                   /\ Select!gate_n = list[p + 1].at
                THEN p + 1 ELSE p
<1> DEFINE n == Len(list)
           stops == {q \in DOMAIN list : Select!Stops(list, q)}
<1>1. n \in Nat /\ DOMAIN list = 1 .. n /\ n # 0
  OBVIOUS
<1>2. n \in stops
  BY <1>1 DEF Select!Stops
<1>3. stops \in SUBSET Nat /\ stops # {}
  BY <1>1, <1>2
<1>4. PICK q \in stops : \A r \in stops : q <= r
  BY <1>3, Least
<1>5. PICK p : p = Select!Min(stops)
  OBVIOUS
<1>6. p \in stops /\ \A r \in stops : p <= r
  BY <1>4, <1>5 DEF Select!Min
<1>7. Select!Chosen(list) =
        IF Select!gate_n # list[p].at /\ p < n /\ Select!gate_n = list[p + 1].at THEN p + 1 ELSE p
  BY <1>5 DEF Select!Chosen
<1>8. QED BY <1>6, <1>7

(* On a list in order the pass takes a strategy in force: the last that acts *)
(* now or before, and before the first of the day the last one of the list.  *)
LEMMA ChosenInForce ==
  ASSUME Select!gate_n \in Int, NEW E, \A e \in E : e.at \in Nat,
         NEW list \in Seq(E), InOrder(list), list # << >>
  PROVE  list[Select!Chosen(list)].s \in Select!InForce(list)
<1> DEFINE n == Len(list)
           now == Select!gate_n
           past == {p \in DOMAIN list : list[p].at <= now}
           of == IF past = {} THEN DOMAIN list ELSE past
           stops == {q \in DOMAIN list : Select!Stops(list, q)}
           after == {q \in DOMAIN list : now < list[q].at}
<1>1. /\ n \in Nat /\ DOMAIN list = 1 .. n /\ n \in DOMAIN list
      /\ \A p \in DOMAIN list : list[p].at \in Nat
  <2>1. n \in Nat /\ DOMAIN list = 1 .. n /\ n # 0
    OBVIOUS
  <2>2. \A p \in DOMAIN list : list[p] \in E
    BY <2>1
  <2> HIDE DEF n
  <2>3. n \in 1 .. n
    BY <2>1
  <2>4. QED BY <2>1, <2>2, <2>3
<1>2. PICK p \in DOMAIN list :
        /\ Select!Stops(list, p)
        /\ \A q \in DOMAIN list : Select!Stops(list, q) => p <= q
        /\ Select!Chosen(list) =
             IF now # list[p].at /\ p < n /\ now = list[p + 1].at THEN p + 1 ELSE p
  BY FirstStop
<1>3. \A q \in stops : p <= q
  BY <1>2
<1>4. Select!Chosen(list) =
        IF now # list[p].at /\ p < n /\ now = list[p + 1].at THEN p + 1 ELSE p
  BY <1>2
<1>5. SUFFICES /\ Select!Chosen(list) \in of
               /\ \A r \in of : list[r].at <= list[Select!Chosen(list)].at
  BY DEF Select!InForce
<1>6. p \in 1 .. n /\ Select!Stops(list, p)
  BY <1>1, <1>2
<1>7. ASSUME NEW c \in 1 .. n, now = list[c].at
      PROVE  c \in of /\ \A r \in of : list[r].at <= list[c].at
  <2>1. c \in past
    BY <1>1, <1>7
  <2>2. QED BY <1>7, <2>1
<1>8. CASE now = list[p].at
  BY <1>4, <1>6, <1>7, <1>8
<1>9. CASE now # list[p].at /\ p < n /\ now = list[p + 1].at
  <2>1. Select!Chosen(list) = p + 1 /\ p + 1 \in 1 .. n
    BY <1>1, <1>4, <1>6, <1>9
  <2>2. QED BY <1>7, <1>9, <2>1
<1>10. CASE now # list[p].at /\ p = n
  <2>1. Select!Chosen(list) = n
    <3>1. ~(p < n)
      BY <1>1, <1>10
    <3> HIDE DEF n, now
    <3>2. QED BY <1>4, <1>10, <3>1
  <2>2. \A r \in DOMAIN list : list[r].at <= list[n].at
    BY <1>1 DEF InOrder
  <2>3. CASE past = {}
    BY <1>1, <2>1, <2>2, <2>3
  <2>4. CASE past # {}
    <3>1. list[n].at <= now
      <4>1. SUFFICES ASSUME n \in after PROVE FALSE
        BY <1>1
      <4>2. after \in SUBSET Nat
        BY <1>1
      <4>3. PICK b \in after : \A q \in after : b <= q
        BY <4>1, <4>2, Least
      <4>4. PICK r \in 1 .. n : list[r].at <= now
        BY <1>1, <2>4
      <4>5. b \in 1 .. n /\ now < list[b].at
        BY <1>1
      <4>6. ~(b <= r)
        <5>1. b <= r => list[b].at <= list[r].at
          BY <1>1, <4>4, <4>5 DEF InOrder
        <5>2. QED BY <1>1, <4>4, <4>5, <5>1
      <4>7. b - 1 \in 1 .. n /\ b - 1 < n /\ (b - 1) + 1 = b
        BY <1>1, <4>4, <4>5, <4>6
      <4>8. list[b - 1].at <= now
        <5>1. b - 1 \notin after
          BY <4>3, <4>5
        <5>2. QED BY <1>1, <4>7, <5>1
      <4>9. Select!Stops(list, b - 1)
        <5>1. list[b - 1].at \in Nat /\ list[b].at \in Nat
          BY <1>1, <4>5, <4>7
        <5>2. list[b - 1].at < list[b].at /\ now \in list[b - 1].at .. list[b].at
          BY <4>5, <4>8, <5>1
        <5>3. QED BY <4>7, <5>2 DEF Select!Stops
      <4>10. b - 1 \in stops
        BY <1>1, <4>7, <4>9
      <4>11. p <= b - 1
        BY <1>3, <4>10
      <4>12. QED BY <1>1, <1>10, <4>7, <4>11
    <3>2. n \in past
      BY <1>1, <3>1
    <3>3. QED BY <2>1, <2>2, <3>2
  <2>5. QED BY <2>3, <2>4
<1>11. CASE now # list[p].at /\ p < n /\ now # list[p + 1].at
  <2>1. Select!Chosen(list) = p
    BY <1>4, <1>11
  <2>2. p + 1 \in 1 .. n
    BY <1>1, <1>6, <1>11
  <2>3. list[p].at \in Nat /\ list[p + 1].at \in Nat
    BY <1>1, <1>6, <2>2
  <2>4. list[p].at <= list[p + 1].at
    BY <1>1, <1>6, <2>2 DEF InOrder
  <2>5. list[p].at < list[p + 1].at /\ now \in list[p].at .. list[p + 1].at
    <3>1. PICK x \in Nat, y \in Nat : x = list[p].at /\ y = list[p + 1].at
      BY <2>3
    <3>2. \/ x < y /\ now \in x .. y
          \/ x > y /\ now \in (x .. Select!Day) \cup (0 .. y)
      BY <1>1, <1>6, <1>11, <3>1 DEF Select!Stops
    <3>3. x <= y
      BY <2>4, <3>1
    <3>4. x < y /\ now \in x .. y
      BY <3>2, <3>3
    <3>5. QED BY <3>1, <3>4
  <2>6. list[p].at <= now /\ now < list[p + 1].at
    BY <1>11, <2>3, <2>5
  <2>7. p \in past
    BY <1>1, <1>6, <2>6
  <2>8. ASSUME NEW r \in past PROVE list[r].at <= list[p].at
    <3>1. r \in 1 .. n /\ list[r].at <= now /\ list[r].at \in Nat
      BY <1>1
    <3>2. ~(p + 1 <= r)
      <4>1. p + 1 <= r => list[p + 1].at <= list[r].at
        BY <1>1, <2>2, <3>1 DEF InOrder
      <4>2. QED BY <2>3, <2>6, <3>1, <4>1
    <3>3. r <= p
      BY <1>6, <3>1, <3>2
    <3>4. QED BY <1>1, <1>6, <3>1, <3>3 DEF InOrder
  <2>9. QED BY <2>1, <2>7, <2>8
<1>12. p = n \/ p < n
  <2> HIDE DEF n
  <2>1. QED BY <1>1, <1>6
<1>13. QED BY <1>8, <1>9, <1>10, <1>11, <1>12

(* Of two strategies their order does not matter: when the first is the      *)
(* later one, the scan goes round midnight.                                  *)
LEMMA TwoInForce ==
  ASSUME Select!Day \in Nat, Select!gate_n \in 0 .. Select!Day,
         NEW E, \A e \in E : e.at \in Nat,
         NEW list \in Seq(E), Len(list) = 2, list[2].at < list[1].at
  PROVE  list[Select!Chosen(list)].s \in Select!InForce(list)
<1> DEFINE now == Select!gate_n
           past == {p \in DOMAIN list : list[p].at <= now}
           of == IF past = {} THEN DOMAIN list ELSE past
<1>1. DOMAIN list = {1, 2} /\ list # << >>
  <2>1. DOMAIN list = 1 .. 2
    OBVIOUS
  <2>2. 1 .. 2 = {1, 2}
    OBVIOUS
  <2>3. QED BY <2>1, <2>2
<1>2. PICK x \in Nat, y \in Nat : x = list[1].at /\ y = list[2].at
  <2>1. list[1] \in E /\ list[2] \in E
    <3>1. \A p \in DOMAIN list : list[p] \in E
      OBVIOUS
    <3>2. QED BY <1>1, <3>1
  <2>2. QED BY <2>1
<1>3. PICK d \in Nat : d = Select!Day
  OBVIOUS
<1>4. now \in 0 .. d /\ y < x
  BY <1>2, <1>3
<1>5. PICK p \in {1, 2} :
        /\ Select!Stops(list, p)
        /\ Select!Stops(list, 1) => p <= 1
        /\ Select!Chosen(list) = IF now # list[p].at /\ p < 2 /\ now = list[p + 1].at THEN p + 1 ELSE p
  BY <1>1, FirstStop
<1>6. SUFFICES /\ Select!Chosen(list) \in of
               /\ \A r \in of : list[r].at <= list[Select!Chosen(list)].at
  BY DEF Select!InForce
<1>7. Select!Stops(list, 1) <=> (now = x \/ now = y \/ now \in (x .. d) \cup (0 .. y))
  BY <1>2, <1>3, <1>4 DEF Select!Stops
<1> HIDE DEF now
<1>8. CASE now >= x \/ now < y
  <2>1. p = 1
    BY <1>4, <1>5, <1>7, <1>8
  <2>2. Select!Chosen(list) = 1
    BY <1>2, <1>4, <1>5, <1>8, <2>1
  <2>3. 1 \in of
    BY <1>1, <1>2, <1>4, <1>8
  <2>4. \A r \in {1, 2} : list[r].at <= list[1].at
    BY <1>2, <1>4
  <2>5. QED BY <1>1, <2>2, <2>3, <2>4
<1>9. CASE y <= now /\ now < x
  <2>1. Select!Chosen(list) = 2
    BY <1>2, <1>4, <1>5, <1>7, <1>9
  <2>2. of = {2}
    BY <1>1, <1>2, <1>4, <1>9
  <2>3. QED BY <1>2, <2>1, <2>2
<1>10. QED BY <1>4, <1>8, <1>9

(* A time keeps its 16 bits.                                                 *)
LEMMA Words ==
  \E m \in Nat \ {0} : Word = 0 .. m - 1 /\ \A n : Select!u16(n) = n % m
<1>1. 256 * 256 \in Nat \ {0}
  OBVIOUS
<1>2. PICK m \in Nat \ {0} : m = 256 * 256
  BY <1>1
<1>3. Word = 0 .. m - 1 /\ \A n : Select!u16(n) = n % m
  BY ONLY <1>2 DEF Word, Select!u16
<1>4. QED BY <1>3

LEMMA WordType == Word \subseteq Nat /\ Word \subseteq Int
<1>1. PICK m \in Nat \ {0} : Word = 0 .. m - 1
  BY Words
<1>2. QED BY <1>1

LEMMA WordIs ==
  ASSUME NEW n \in Int PROVE Select!u16(n) \in Word /\ Select!u16(Select!u16(n)) = Select!u16(n)
<1>1. PICK m \in Nat \ {0} : Word = 0 .. m - 1 /\ \A k : Select!u16(k) = k % m
  BY Words
<1>2. n % m \in 0 .. m - 1
  OBVIOUS
<1>3. \A k \in 0 .. m - 1 : k % m = k
  OBVIOUS
<1>4. QED BY <1>1, <1>2, <1>3

LEMMA BaseTimeType ==
  ASSUME ListInputs, sun \in [rise : Int, set : Int], NEW s \in StrategyRecord, NEW old \in Int
  PROVE  Select!BaseTime(s, old) \in Int
<1>1. /\ s.time \in Int /\ sun.set + s.time \in Int /\ sun.rise + s.time \in Int
      /\ Almanac.off + s.time \in Int /\ Almanac.on + s.time \in Int
  BY DEF ListInputs, StrategyRecord
<1>2. PICK a \in Int, b \in Int, c \in Int, d \in Int :
        a = sun.set + s.time /\ b = sun.rise + s.time
        /\ c = Almanac.off + s.time /\ d = Almanac.on + s.time
  BY <1>1
<1>3. Select!BaseTime(s, old) \in {s.time, a, b, c, d, old}
  BY <1>2 DEF Select!BaseTime
<1>4. QED BY <1>1, <1>2, <1>3

LEMMA ActionTimeType ==
  ASSUME ListInputs, sun \in [rise : Int, set : Int], NEW s \in StrategyRecord, NEW old \in Int
  PROVE  Select!ActionTime(s, old) \in Word
<1>1. PICK t \in Int : t = Select!u16(Select!BaseTime(s, old))
  <2>1. PICK b \in Int : b = Select!BaseTime(s, old)
    BY BaseTimeType
  <2>2. Select!u16(b) \in Int
    BY WordIs, WordType
  <2>3. QED BY <2>1, <2>2
<1>2. ASSUME NEW early, NEW a \in Int, NEW d \in Int
      PROVE  Select!Moved(t, early, a, d) \in Int
  <2>1. Select!Moved(t, early, a, d) \in {t - a, t + d, t}
    BY DEF Select!Moved
  <2>2. QED BY <2>1
<1>3. /\ light_on_advance_time \in Int /\ light_on_delay_time \in Int
      /\ light_off_advance_time \in Int /\ light_off_delay_time \in Int
  BY DEF ListInputs
<1>4. PICK x \in Int, y \in Int :
        /\ x = Select!Moved(t, light <= light_on_thre, light_on_advance_time, light_on_delay_time)
        /\ y = Select!Moved(t, light >= light_off_thre,
                            light_off_advance_time, light_off_delay_time)
  BY <1>2, <1>3
<1>5. PICK u \in {x, y, t} : Select!ActionTime(s, old) = Select!u16(u)
  BY <1>1, <1>4 DEF Select!ActionTime
<1>6. QED BY <1>5, WordIs

(* The time of a strategy that goes by the sun, the almanac or the clock     *)
(* does not depend on what it was; the others stay at 0.                     *)
LEMMA ActionTimeAgain ==
  ASSUME NEW s
  PROVE  Select!ActionTime(s, Select!ActionTime(s, 0)) = Select!ActionTime(s, 0)
<1> DEFINE timed == \/ s.type \in {"FIXED_TIME", "FIXED_TIME_LIGHT"}
                    \/ /\ s.type \in {"LOCATION", "LOCATION_LIGHT",
                                      "CHRONOLOGY", "CHRONOLOGY_LIGHT"}
                       /\ s.time_option \in {"sunset", "sunrise"}
<1>1. CASE timed
  <2>1. \A old : Select!BaseTime(s, old) = Select!BaseTime(s, 0)
    BY <1>1 DEF Select!BaseTime
  <2>2. PICK b : b = Select!BaseTime(s, 0)
    OBVIOUS
  <2>3. \A old : Select!BaseTime(s, old) = b
    BY <2>1, <2>2
  <2>4. \A old : Select!ActionTime(s, old) = Select!ActionTime(s, 0)
    BY <2>3 DEF Select!ActionTime
  <2>5. QED BY <2>4
<1>2. CASE ~timed
  <2>1. \A old : Select!BaseTime(s, old) = old
    BY <1>2 DEF Select!BaseTime
  <2>2. \A old : Select!ActionTime(s, old) = Select!u16(Select!u16(old))
    BY <1>2, <2>1 DEF Select!ActionTime, Select!Lit
  <2>3. Select!u16(Select!u16(0)) = 0
    <3>1. PICK m \in Nat \ {0} : \A k : Select!u16(k) = k % m
      BY Words
    <3>2. 0 % m = 0
      OBVIOUS
    <3>3. QED BY <3>1, <3>2
  <2>4. Select!ActionTime(s, 0) = 0
    BY <2>2, <2>3
  <2>5. QED BY <2>4
<1>3. QED BY <1>1, <1>2

LEMMA FixedActionTime ==
  ASSUME NEW s \in StrategyRecord, s.type = "FIXED_TIME", NEW old
  PROVE  Select!ActionTime(s, old) = Select!u16(s.time)
<1>1. Select!BaseTime(s, old) = s.time /\ ~Select!Lit(s)
  BY DEF Select!BaseTime, Select!Lit
<1>2. Select!ActionTime(s, old) = Select!u16(Select!u16(s.time))
  BY <1>1 DEF Select!ActionTime
<1>3. s.time \in Int
  BY DEF StrategyRecord
<1>4. QED BY <1>2, <1>3, WordIs

(* The times of a list are moved, its strategies stay where they are.        *)
LEMMA RefreshedType ==
  ASSUME ListInputs, sun \in [rise : Int, set : Int], NEW g, NEW list \in Seq(EntryOf(g))
  PROVE  Select!Refreshed(list) \in Seq(EntryOf(g))
<1>1. Len(list) \in Nat /\ DOMAIN list = 1 .. Len(list)
  OBVIOUS
<1>2. ASSUME NEW p \in DOMAIN list
      PROVE  [list[p] EXCEPT !.at = Select!ActionTime(list[p].s, @)] \in EntryOf(g)
  <2>1. PICK e \in EntryOf(g) : e = list[p]
    BY <1>1
  <2>2. e.s \in StrategyRecord /\ e.s.group_id = g /\ e.at \in Word /\ DOMAIN e = {"s", "at"}
    BY DEF EntryOf
  <2>3. PICK w \in Word : w = Select!ActionTime(e.s, e.at)
    <3>1. e.at \in Int
      BY <2>2, WordType
    <3>2. QED BY <2>2, <3>1, ActionTimeType
  <2>4. [e EXCEPT !.at = w] \in EntryOf(g)
    BY <2>2 DEF EntryOf
  <2>5. QED BY <2>1, <2>3, <2>4
<1>3. PICK n \in Nat : n = Len(list)
  BY <1>1
<1>4. PICK E : E = EntryOf(g)
  OBVIOUS
<1>5. Select!Refreshed(list) \in [1 .. n -> E]
  BY <1>1, <1>2, <1>3, <1>4 DEF Select!Refreshed
<1>6. QED BY <1>3, <1>4, <1>5

LEMMA RefreshedSame ==
  ASSUME NEW g, NEW list \in Seq(EntryOf(g)),
         \A p \in DOMAIN list : list[p].at = Select!ActionTime(list[p].s, list[p].at)
  PROVE  Select!Refreshed(list) = list
<1>1. list = [p \in DOMAIN list |-> list[p]]
  OBVIOUS
<1>2. ASSUME NEW p \in DOMAIN list
      PROVE  [list[p] EXCEPT !.at = Select!ActionTime(list[p].s, @)] = list[p]
  <2>1. PICK e \in EntryOf(g) : e = list[p]
    OBVIOUS
  <2>2. e.at = Select!ActionTime(e.s, e.at)
    BY <2>1
  <2>3. [e EXCEPT !.at = e.at] = e
    BY DEF EntryOf
  <2>4. QED BY <2>1, <2>2, <2>3
<1>3. QED BY <1>1, <1>2 DEF Select!Refreshed
(* A list with a strategy added, and so one that is built, is in order, and  *)
(* its times are those of the sun and the light at that pass.                *)
LEMMA AddedOrdered ==
  ASSUME ListInputs, sun \in [rise : Int, set : Int], NEW g, NEW s \in StrategyRecord,
         NEW E, E \subseteq EntryOf(g), NEW list \in Seq(E), InOrder(list),
         s.group_id = g => [s |-> s, at |-> Select!ActionTime(s, 0)] \in E
  PROVE  Added(g, list, s) \in Seq(E) /\ InOrder(Added(g, list, s))
<1>1. CASE s.group_id # g
  BY <1>1 DEF Added
<1>2. CASE s.group_id = g
  <2>1. PICK e \in E : e = [s |-> s, at |-> Select!ActionTime(s, 0)]
    BY <1>2
  <2>2. e.at = Select!ActionTime(s, 0)
    BY <2>1
  <2>3. \A d \in E : d.at \in Nat
    BY WordType DEF EntryOf
  <2>4. PICK i : i = Select!Place(list, e.at)
    OBVIOUS
  <2>5. Added(g, list, s) = Select!InsertAt(list, i, e)
    BY <1>2, <2>1, <2>2, <2>4 DEF Added, Select!RelayStrategyAdd
  <2>6. QED BY <2>3, <2>4, <2>5, AddKeepsOrder
<1>3. QED BY <1>1, <1>2

LEMMA BuiltOrdered ==
  ASSUME ListInputs, sun \in [rise : Int, set : Int], NEW g \in 1 .. NGroup,
         NEW S, S \subseteq StrategyRecord, stored.strategies \in Seq(S),
         NEW E, E \subseteq EntryOf(g),
         \A s \in S : s.group_id = g => [s |-> s, at |-> Select!ActionTime(s, 0)] \in E
  PROVE  Select!ReadRelayStrategyGroups[g] \in Seq(E) /\ InOrder(Select!ReadRelayStrategyGroups[g])
<1> DEFINE G == {list \in Seq(E) : InOrder(list)}
<1>1. << >> \in G
  BY DEF InOrder
<1>2. \A list \in G, s \in S : Added(g, list, s) \in G
  BY AddedOrdered
<1> HIDE DEF G
<1>3. Select!ReadRelayStrategyGroups[g] \in G
  BY <1>1, <1>2, BuiltKeeps
<1>4. QED BY <1>3 DEF G

(* A list that was just built is one of CurrentEntry: moving its times with  *)
(* the same sun and light changes nothing.                                   *)
CurrentEntry(g) == {e \in EntryOf(g) : e.at = Select!ActionTime(e.s, 0)}

LEMMA BuiltCurrent ==
  ASSUME ListInputs, sun \in [rise : Int, set : Int], NEW g \in 1 .. NGroup,
         stored.strategies \in Seq(StrategyRecord)
  PROVE  LET built == Select!ReadRelayStrategyGroups[g]
         IN built \in Seq(EntryOf(g)) /\ InOrder(built) /\ Select!Refreshed(built) = built
<1>1. PICK E : E = CurrentEntry(g)
  OBVIOUS
<1>2. E \subseteq EntryOf(g)
  BY <1>1 DEF CurrentEntry
<1>3. ASSUME NEW s \in StrategyRecord, s.group_id = g
      PROVE  [s |-> s, at |-> Select!ActionTime(s, 0)] \in E
  <2>1. PICK w \in Word : w = Select!ActionTime(s, 0)
    BY ActionTimeType
  <2>2. [s |-> s, at |-> w] \in EntryOf(g)
    BY <1>3 DEF EntryOf
  <2>3. QED BY <1>1, <2>1, <2>2 DEF CurrentEntry
<1>4. PICK built : built = Select!ReadRelayStrategyGroups[g]
  OBVIOUS
<1>5. built \in Seq(E) /\ InOrder(built)
  BY <1>2, <1>3, <1>4, BuiltOrdered
<1>6. PICK F : F = EntryOf(g)
  OBVIOUS
<1>7. built \in Seq(EntryOf(g))
  BY <1>2, <1>5, <1>6
<1>8. \A p \in DOMAIN built : built[p].at = Select!ActionTime(built[p].s, built[p].at)
  <2>1. TAKE p \in DOMAIN built
  <2>2. PICK e \in E : e = built[p]
    BY <1>5
  <2>3. e.at = Select!ActionTime(e.s, 0)
    BY <1>1 DEF CurrentEntry
  <2>4. e.at = Select!ActionTime(e.s, e.at)
    BY <2>3, ActionTimeAgain
  <2>5. QED BY <2>2, <2>4
<1>9. Select!Refreshed(built) = built
  BY <1>7, <1>8, RefreshedSame
<1>10. QED BY <1>4, <1>5, <1>7, <1>9

(* The same of fixed times, whose entries stay what they were built as.      *)
FixedRecord == {s \in StrategyRecord : s.type = "FIXED_TIME"}
FixedEntry(g) == {e \in EntryOf(g) : e.s \in FixedRecord /\ e.at = Select!u16(e.s.time)}

LEMMA BuiltFixed ==
  ASSUME ListInputs, sun \in [rise : Int, set : Int], NEW g \in 1 .. NGroup,
         stored.strategies \in Seq(FixedRecord)
  PROVE  LET built == Select!ReadRelayStrategyGroups[g]
         IN built \in Seq(FixedEntry(g)) /\ InOrder(built)
<1>1. PICK E : E = FixedEntry(g)
  OBVIOUS
<1>2. E \subseteq EntryOf(g) /\ FixedRecord \subseteq StrategyRecord
  BY <1>1 DEF FixedEntry, FixedRecord
<1>3. ASSUME NEW s \in FixedRecord, s.group_id = g
      PROVE  [s |-> s, at |-> Select!ActionTime(s, 0)] \in E
  <2>1. s \in StrategyRecord /\ s.type = "FIXED_TIME"
    BY DEF FixedRecord
  <2>2. PICK w \in Word : w = Select!ActionTime(s, 0)
    BY <2>1, ActionTimeType
  <2>3. w = Select!u16(s.time)
    BY <2>1, <2>2, FixedActionTime
  <2>4. [s |-> s, at |-> w] \in EntryOf(g)
    BY <1>3, <2>1 DEF EntryOf
  <2>5. QED BY <1>1, <2>2, <2>3, <2>4 DEF FixedEntry
<1>4. QED BY <1>1, <1>2, <1>3, BuiltOrdered

LEMMA RefreshedFixed ==
  ASSUME NEW g, NEW list \in Seq(FixedEntry(g))
  PROVE  Select!Refreshed(list) = list
<1>1. PICK E : E = FixedEntry(g)
  OBVIOUS
<1>2. PICK F : F = EntryOf(g)
  OBVIOUS
<1>3. E \subseteq F
  BY <1>1, <1>2 DEF FixedEntry
<1>4. list \in Seq(EntryOf(g))
  BY <1>1, <1>2, <1>3
<1>5. \A p \in DOMAIN list : list[p].at = Select!ActionTime(list[p].s, list[p].at)
  <2>1. TAKE p \in DOMAIN list
  <2>2. PICK e \in E : e = list[p]
    BY <1>1
  <2>3. e.s \in StrategyRecord /\ e.s.type = "FIXED_TIME" /\ e.at = Select!u16(e.s.time)
    BY <1>1 DEF FixedEntry, FixedRecord
  <2>4. e.at = Select!ActionTime(e.s, e.at)
    BY <2>3, FixedActionTime
  <2>5. QED BY <2>2, <2>4
<1>6. QED BY <1>4, <1>5, RefreshedSame
(* The pass always finds a place in the list.                                *)
LEMMA ChosenThere ==
  ASSUME NEW E, NEW list \in Seq(E), list # << >>
  PROVE  Select!Chosen(list) \in DOMAIN list
<1> DEFINE n == Len(list)
<1>1. n \in Nat /\ DOMAIN list = 1 .. n
  OBVIOUS
<1>2. PICK p \in DOMAIN list :
        Select!Chosen(list) = p \/ (p < n /\ Select!Chosen(list) = p + 1)
  BY FirstStop
<1> HIDE DEF n
<1>3. QED BY <1>1, <1>2

ListInv ==
  /\ SelectInv
  /\ stored.strategies \in Seq(StrategyRecord)
  /\ sun \in [rise : Int, set : Int]
  /\ lists = [g \in 1 .. NGroup |-> lists[g]]
  /\ \A g \in 1 .. NGroup : lists[g] \in Seq(EntryOf(g))
  /\ half \in BOOLEAN /\ refresh \in BOOLEAN
  /\ group \in 0 .. NGroup /\ strategy.group_id \in 0 .. NGroup
  /\ messages \in 0 .. MaxInput

LEMMA ListInit ==
  ASSUME ListInputs PROVE Select!Init => ListInv
<1> SUFFICES ASSUME Select!Init PROVE ListInv
  OBVIOUS
<1>1. SelectInv
  BY SelectInit DEF ListInputs
<1>2. stored \in [strategies : Strategies, appointments : Appointments, switch : Switches]
  BY DEF Select!Init
<1>3. stored.strategies \in Seq(StrategyRecord)
  BY <1>2 DEF ListInputs
<1>4. \A g \in 1 .. NGroup : lists[g] \in Seq(EntryOf(g))
  <2>1. TAKE g \in 1 .. NGroup
  <2>2. lists[g] = << >>
    BY DEF Select!Init, Select!Group
  <2>3. QED BY <2>2
<1>5. lists = [g \in 1 .. NGroup |-> lists[g]]
  BY DEF Select!Init, Select!Group
<1>6. /\ sun \in [rise : Int, set : Int] /\ half \in BOOLEAN /\ refresh \in BOOLEAN
      /\ group \in 0 .. NGroup /\ strategy.group_id \in 0 .. NGroup /\ messages \in 0 .. MaxInput
  <2>1. NGroup \in Nat /\ MaxInput \in Nat /\ 0 \in 0 .. NGroup /\ 0 \in 0 .. MaxInput
    BY DEF ListInputs, SelectInputs
  <2>2. sun = [rise |-> 0, set |-> 0] /\ strategy.group_id = 0
    BY DEF Select!Init, Select!NotYet, Select!NoTask
  <2>3. sun \in [rise : Int, set : Int]
    BY <2>2
  <2>4. half = FALSE /\ refresh = TRUE /\ group = 0 /\ messages = 0
    BY DEF Select!Init
  <2>5. QED BY <2>1, <2>2, <2>3, <2>4
<1>7. QED BY <1>1, <1>3, <1>4, <1>5, <1>6 DEF ListInv

(* A pass leaves a list as it was or was built, or has moved its times.      *)
Built(g) == IF refresh THEN Select!ReadRelayStrategyGroups[g] ELSE lists[g]

LEMMA GroupNowType ==
  ASSUME ListInputs, NEW odd PROVE Select!GroupNow(odd) \in 0 .. NGroup
<1>1. NGroup \in Nat
  BY DEF ListInputs, SelectInputs
<1>2. Select!GroupNow(odd) = 0 \/ Select!GroupNow(odd) \in 1 .. NGroup
  BY Zenon DEF Select!GroupNow, Select!Group
<1>3. QED BY <1>1, <1>2

LEMMA PassLists ==
  ASSUME ListInputs, ListInv, Select!RelayExecuteStrategyGroup
  PROVE  /\ lists' = [g \in 1 .. NGroup |-> lists'[g]]
         /\ \A g \in 1 .. NGroup :
              /\ Built(g) \in Seq(EntryOf(g))
              /\ lists'[g] \in {Built(g), Select!Refreshed(Built(g))}
         /\ group' \in 0 .. NGroup
         /\ strategy' = IF group' # 0 /\ lists'[group'] # << >>
                        THEN lists'[group'][Select!Chosen(lists'[group'])].s ELSE strategy
<1>1. PICK built : built = IF refresh THEN Select!ReadRelayStrategyGroups ELSE lists
  OBVIOUS
<1>2. PICK odd \in BOOLEAN, g \in 0 .. NGroup :
        /\ group' = IF refresh THEN Select!GroupNow(odd) ELSE group
        /\ lists' = built \/ (g # 0 /\ lists' = [built EXCEPT ![g] = Select!Refreshed(@)])
        /\ strategy' = IF group' # 0 /\ lists'[group'] # << >>
                       THEN lists'[group'][Select!Chosen(lists'[group'])].s ELSE strategy
  <2>1. PICK odd \in BOOLEAN, null \in 0 .. NGroup :
          LET inForce == IF refresh THEN Select!GroupNow(odd) ELSE group
              g == IF inForce # 0 THEN inForce ELSE null
          IN /\ group' = inForce
             /\ lists' = IF seen' # seen /\ g # 0
                         THEN [built EXCEPT ![g] = Select!Refreshed(@)] ELSE built
             /\ strategy' = IF group' # 0 /\ lists'[group'] # << >>
                            THEN lists'[group'][Select!Chosen(lists'[group'])].s ELSE strategy
    BY <1>1 DEF Select!RelayExecuteStrategyGroup
  <2>2. group' \in 0 .. NGroup
    BY <2>1, GroupNowType DEF ListInv
  <2>3. PICK g \in 0 .. NGroup : g = IF group' # 0 THEN group' ELSE null
    BY <2>2
  <2>4. QED BY <2>1, <2>3
<1>3. group' \in 0 .. NGroup
  BY <1>2, GroupNowType DEF ListInv
<1>4. built = [h \in 1 .. NGroup |-> built[h]]
  BY <1>1 DEF ListInv, Select!ReadRelayStrategyGroups, Select!Group
<1>5. ASSUME NEW h \in 1 .. NGroup
      PROVE  /\ built[h] = Built(h) /\ Built(h) \in Seq(EntryOf(h))
             /\ lists'[h] \in {Built(h), Select!Refreshed(Built(h))}
  <2>1. built[h] = Built(h)
    BY <1>1 DEF Built
  <2>2. Built(h) \in Seq(EntryOf(h))
    BY BuiltCurrent DEF Built, ListInv
  <2>3. lists'[h] \in {built[h], Select!Refreshed(built[h])}
    BY <1>2, <1>4
  <2>4. QED BY <2>1, <2>2, <2>3
<1>6. lists' = [h \in 1 .. NGroup |-> lists'[h]]
  BY <1>2, <1>4
<1>7. QED BY <1>2, <1>3, <1>5, <1>6

(* Messages store one of the lists of strategies or leave it alone.          *)
LEMMA StoredStrategies ==
  ASSUME SelectInv,
         \/ Select!RelaySetRelayStrategy \/ Select!RelaySetRelayAppointment
         \/ Select!RelaySetStrategyGroupSwitch
  PROVE  stored'.strategies \in Strategies \cup {stored.strategies}
<1>1. CASE Select!RelaySetRelayStrategy
  <2>1. PICK s \in Strategies : stored' = [stored EXCEPT !.strategies = s]
    BY <1>1 DEF Select!RelaySetRelayStrategy
  <2>2. stored'.strategies \in {s, stored.strategies}
    BY <2>1
  <2>3. QED BY <2>2
<1>2. CASE Select!RelaySetRelayAppointment
  BY <1>2 DEF Select!RelaySetRelayAppointment
<1>3. CASE Select!RelaySetStrategyGroupSwitch
  BY <1>3 DEF Select!RelaySetStrategyGroupSwitch
<1>4. QED BY <1>1, <1>2, <1>3

LEMMA ListStep ==
  ASSUME ListInputs PROVE ListInv /\ [Select!Next]_Select!vars => ListInv'
<1> SUFFICES ASSUME ListInv, [Select!Next]_Select!vars PROVE ListInv'
  OBVIOUS
<1>1. SelectInv'
  BY SelectStep DEF ListInputs, ListInv
<1>2. CASE Select!RelayExecuteStrategyGroup
  <2>1. UNCHANGED <<sun, stored, half, messages>> /\ refresh' = FALSE
    BY <1>2 DEF Select!RelayExecuteStrategyGroup, Select!clock, Select!world
  <2>2. \A g \in 1 .. NGroup : lists'[g] \in Seq(EntryOf(g))
    BY <1>2, PassLists, RefreshedType DEF ListInv
  <2>3. group' \in 0 .. NGroup /\ lists' = [g \in 1 .. NGroup |-> lists'[g]]
    BY <1>2, PassLists
  <2>4. strategy'.group_id \in 0 .. NGroup
    <3>1. CASE group' # 0 /\ lists'[group'] # << >>
      <4>1. PICK g \in 1 .. NGroup : g = group'
        BY <2>3, <3>1
      <4>2. PICK list \in Seq(EntryOf(g)) : list = lists'[g]
        BY <2>2
      <4>3. Select!Chosen(list) \in DOMAIN list
        BY <3>1, <4>1, <4>2, ChosenThere
      <4>4. PICK e \in EntryOf(g) : e = list[Select!Chosen(list)]
        BY <4>3
      <4>5. strategy' = e.s
        BY <1>2, <3>1, <4>1, <4>2, <4>4, PassLists
      <4>6. QED BY <4>1, <4>5 DEF EntryOf
    <3>2. CASE ~(group' # 0 /\ lists'[group'] # << >>)
      BY <1>2, <3>2, PassLists DEF ListInv
    <3>3. QED BY <3>1, <3>2
  <2>5. QED BY <1>1, <2>1, <2>2, <2>3, <2>4 DEF ListInv
<1>3. CASE Select!Tick \/ Select!TickMinute
  <2>1. UNCHANGED <<sun, stored, lists, group, strategy, refresh, messages>> /\ half' \in BOOLEAN
    BY <1>3 DEF Select!Tick, Select!TickMinute, Select!world, Select!pass, ListInv
  <2>2. QED BY <1>1, <2>1 DEF ListInv
<1>4. CASE Select!SunChanges \/ Select!LightChanges
  <2>1. /\ UNCHANGED <<stored, lists, group, strategy, refresh, half>>
        /\ messages < MaxInput /\ messages' = messages + 1
    BY <1>4 DEF Select!SunChanges, Select!LightChanges, Select!Input, Select!clock, Select!pass
  <2>2. messages \in Nat /\ MaxInput \in Nat
    BY DEF ListInv, ListInputs
  <2>3. messages' \in 0 .. MaxInput
    BY ONLY <2>1, <2>2
  <2>4. sun' \in [rise : Int, set : Int]
    BY <1>4 DEF Select!SunChanges, Select!LightChanges, ListInv, ListInputs
  <2>5. QED BY <1>1, <2>1, <2>3, <2>4 DEF ListInv
<1>5. CASE \/ Select!RelaySetRelayStrategy \/ Select!RelaySetRelayAppointment
           \/ Select!RelaySetStrategyGroupSwitch
  <2>1. UNCHANGED <<sun, lists, group, strategy, half>> /\ refresh' \in {refresh, TRUE}
    BY <1>5 DEF Select!RelaySetRelayStrategy, Select!RelaySetRelayAppointment,
                Select!RelaySetStrategyGroupSwitch, Select!clock, Select!pass
  <2>3. messages < MaxInput /\ messages' = messages + 1
    BY <1>5 DEF Select!RelaySetRelayStrategy, Select!RelaySetRelayAppointment,
                Select!RelaySetStrategyGroupSwitch, Select!Input
  <2>4. messages' \in 0 .. MaxInput
    <3>1. messages \in 0 .. MaxInput /\ MaxInput \in Nat
      BY DEF ListInv, ListInputs
    <3>2. QED BY <2>3, <3>1
  <2>6. refresh' \in BOOLEAN
    BY <2>1, Zenon DEF ListInv
  <2>2. stored'.strategies \in Seq(StrategyRecord)
    BY <1>5, StoredStrategies DEF ListInv, ListInputs
  <2>5. QED BY <1>1, <2>1, <2>2, <2>4, <2>6 DEF ListInv
<1>6. CASE UNCHANGED Select!vars
  BY <1>1, <1>6 DEF ListInv, Select!vars, Select!clock, Select!world, Select!pass
<1>7. QED BY <1>2, <1>3, <1>4, <1>5, <1>6 DEF Select!Next
(* The clock, the lists and the group in force of the strategies have their  *)
(* types: every list holds strategies of its own group at times of 16 bits,  *)
(* wherever the sun and the light move them (RefreshRelayStrategyActionTime).*)
THEOREM StrategyListsTyped ==
  ASSUME ListInputs PROVE Select!Spec => []ListInv
<1>1. Select!Init => ListInv
  BY ListInit
<1>2. ListInv /\ [Select!Next]_Select!vars => ListInv'
  BY ListStep
<1>3. QED BY <1>1, <1>2, PTL DEF Select!Spec

(* A pass takes the strategy in force when the list it looks at is in order  *)
(* or has no more than two.                                                  *)
Scannable(list) == InOrder(list) \/ Len(list) <= 2

LEMMA PassInForce ==
  ASSUME ListInputs, ListInv, Select!RelayExecuteStrategyGroup,
         group' # 0, lists'[group'] # << >>, Scannable(lists'[group'])
  PROVE  strategy' \in Select!InForce(lists'[group'])
<1>1. PICK g \in 1 .. NGroup : g = group'
  BY PassLists
<1>2. PICK E : E = EntryOf(g)
  OBVIOUS
<1>3. PICK list \in Seq(E) : list = lists'[g]
  <2>1. Built(g) \in Seq(EntryOf(g)) /\ Select!Refreshed(Built(g)) \in Seq(EntryOf(g))
    BY PassLists, RefreshedType DEF ListInv
  <2>2. QED BY <1>2, <2>1, PassLists
<1>4. \A e \in E : e.at \in Nat
  BY <1>2, WordType DEF EntryOf
<1>5. PICK d \in Nat : d = Select!Day /\ Select!gate_n \in 0 .. d - 1
  BY GateInDay DEF ListInv, ListInputs
<1>6. list[Select!Chosen(list)].s \in Select!InForce(list)
  <2>1. list # << >> /\ (InOrder(list) \/ Len(list) <= 2)
    BY <1>1, <1>3 DEF Scannable
  <2>2. Select!gate_n \in Int /\ Select!gate_n \in 0 .. d
    BY <1>5
  <2>3. CASE InOrder(list)
    BY <1>4, <2>1, <2>2, <2>3, ChosenInForce
  <2>4. CASE Len(list) = 2 /\ list[2].at < list[1].at
    BY <1>4, <1>5, <2>2, <2>4, TwoInForce
  <2>5. ASSUME Len(list) <= 2, ~(Len(list) = 2 /\ list[2].at < list[1].at)
        PROVE  InOrder(list)
    <3>1. \A p \in DOMAIN list : list[p].at \in Nat
      BY <1>4
    <3>2. PICK n \in Nat : n = Len(list) /\ DOMAIN list = 1 .. n /\ n <= 2
      BY <2>5
    <3>3. ASSUME NEW p \in 1 .. n, NEW q \in 1 .. n, p <= q
          PROVE  list[p].at <= list[q].at
      <4>1. p = q \/ (p = 1 /\ q = 2 /\ n = 2)
        BY <3>2, <3>3
      <4>2. CASE p = q
        BY <3>1, <3>2, <4>2
      <4>3. CASE p = 1 /\ q = 2 /\ n = 2
        BY <2>5, <3>1, <3>2, <4>3
      <4>4. QED BY <4>1, <4>2, <4>3
    <3>4. QED BY <3>2, <3>3 DEF InOrder
  <2>6. QED BY <2>1, <2>3, <2>4, <2>5
<1>7. QED BY <1>1, <1>3, <1>6, PassLists

(* A pass that builds the lists, or looks at a list in order or of no more   *)
(* than two, takes the strategy in force, whatever strategies were stored in *)
(* whatever order and wherever the sun and the light are.  So FollowsClock   *)
(* can fail only when the times of a list of three or more were moved past   *)
(* each other since it was built (RefreshRelayStrategyGroupActionTime does   *)
(* not sort).                                                                *)
THEOREM OrderedFollowsClock ==
  ASSUME ListInputs
  PROVE  Select!Spec =>
           [][/\ Select!RelayExecuteStrategyGroup
              /\ group' # 0 /\ lists'[group'] # << >>
              /\ refresh \/ Scannable(lists'[group'])
              => strategy' \in Select!InForce(lists'[group'])]_Select!vars
<1>1. ASSUME ListInv, Select!RelayExecuteStrategyGroup,
             group' # 0, lists'[group'] # << >>, refresh \/ Scannable(lists'[group'])
      PROVE  strategy' \in Select!InForce(lists'[group'])
  <2>1. ASSUME refresh PROVE InOrder(lists'[group'])
    <3>1. PICK g \in 1 .. NGroup : g = group'
      BY <1>1, PassLists
    <3>2. Built(g) = Select!ReadRelayStrategyGroups[g]
      BY <2>1 DEF Built
    <3>3. PICK built : built = Select!ReadRelayStrategyGroups[g]
      OBVIOUS
    <3>4. InOrder(built) /\ Select!Refreshed(built) = built
      BY <1>1, <3>3, BuiltCurrent DEF ListInv
    <3>5. lists'[g] = built
      BY <1>1, <3>2, <3>3, <3>4, PassLists
    <3>6. QED BY <3>1, <3>4, <3>5
  <2>2. QED BY <1>1, <2>1, PassInForce DEF Scannable
<1>2. ListInv /\ [Select!Next]_Select!vars =>
        [/\ Select!RelayExecuteStrategyGroup
         /\ group' # 0 /\ lists'[group'] # << >>
         /\ refresh \/ Scannable(lists'[group'])
         => strategy' \in Select!InForce(lists'[group'])]_Select!vars
  BY <1>1
<1>3. Select!Init => ListInv
  BY ListInit
<1>4. ListInv /\ [Select!Next]_Select!vars => ListInv'
  BY ListStep
<1>5. QED BY <1>2, <1>3, <1>4, PTL DEF Select!Spec

(* Lists of fixed times stay in order for ever.                              *)
FixedInv ==
  /\ ListInv
  /\ stored.strategies \in Seq(FixedRecord)
  /\ \A g \in 1 .. NGroup : lists[g] \in Seq(FixedEntry(g)) /\ InOrder(lists[g])

LEMMA FixedPass ==
  ASSUME ListInputs, FixedInv, Select!RelayExecuteStrategyGroup, NEW g \in 1 .. NGroup
  PROVE  lists'[g] \in Seq(FixedEntry(g)) /\ InOrder(lists'[g])
<1>1. PICK built : built = Built(g)
  OBVIOUS
<1>2. built \in Seq(FixedEntry(g)) /\ InOrder(built)
  <2>1. CASE refresh
    <3>1. built = Select!ReadRelayStrategyGroups[g]
      BY <1>1, <2>1 DEF Built
    <3>2. QED BY <3>1, BuiltFixed DEF FixedInv, ListInv
  <2>2. CASE ~refresh
    BY <1>1, <2>2 DEF FixedInv, Built
  <2>3. QED BY <2>1, <2>2
<1>3. lists'[g] = built
  BY <1>1, <1>2, RefreshedFixed, PassLists DEF FixedInv
<1>4. QED BY <1>2, <1>3

LEMMA FixedStep ==
  ASSUME ListInputs, Strategies \subseteq Seq(FixedRecord)
  PROVE  FixedInv /\ [Select!Next]_Select!vars => FixedInv'
<1> SUFFICES ASSUME FixedInv, [Select!Next]_Select!vars PROVE FixedInv'
  OBVIOUS
<1>1. ListInv'
  BY ListStep DEF FixedInv
<1>2. CASE Select!RelayExecuteStrategyGroup
  <2>1. UNCHANGED stored
    BY <1>2 DEF Select!RelayExecuteStrategyGroup, Select!world
  <2>2. \A g \in 1 .. NGroup : lists'[g] \in Seq(FixedEntry(g)) /\ InOrder(lists'[g])
    BY <1>2, FixedPass
  <2>3. QED BY <1>1, <2>1, <2>2 DEF FixedInv
<1>3. CASE Select!Tick \/ Select!TickMinute \/ Select!SunChanges \/ Select!LightChanges
  <2>1. UNCHANGED <<stored, lists>>
    BY <1>3 DEF Select!Tick, Select!TickMinute, Select!SunChanges, Select!LightChanges,
                Select!world, Select!pass
  <2>2. QED BY <1>1, <2>1 DEF FixedInv
<1>4. CASE \/ Select!RelaySetRelayStrategy \/ Select!RelaySetRelayAppointment
           \/ Select!RelaySetStrategyGroupSwitch
  <2>1. UNCHANGED lists
    BY <1>4 DEF Select!RelaySetRelayStrategy, Select!RelaySetRelayAppointment,
                Select!RelaySetStrategyGroupSwitch, Select!pass
  <2>2. stored'.strategies \in Seq(FixedRecord)
    BY <1>4, StoredStrategies DEF FixedInv, ListInv
  <2>3. QED BY <1>1, <2>1, <2>2 DEF FixedInv
<1>5. CASE UNCHANGED Select!vars
  BY <1>1, <1>5 DEF FixedInv, Select!vars, Select!world, Select!pass
<1>6. QED BY <1>2, <1>3, <1>4, <1>5 DEF Select!Next

(* With strategies of fixed times every pass takes the strategy in force, in *)
(* whatever order they were stored: FollowsClock of StrategySelect.          *)
THEOREM FixedTimesFollowClock ==
  ASSUME ListInputs, Strategies \subseteq Seq(FixedRecord)
  PROVE  Select!Spec => Select!FollowsClock
<1>1. Select!Init => FixedInv
  <2> SUFFICES ASSUME Select!Init PROVE FixedInv
    OBVIOUS
  <2>1. stored.strategies \in Strategies
    BY DEF Select!Init
  <2>2. \A g \in 1 .. NGroup : lists[g] = << >>
    BY DEF Select!Init, Select!Group
  <2>3. ASSUME NEW g \in 1 .. NGroup
        PROVE  lists[g] \in Seq(FixedEntry(g)) /\ InOrder(lists[g])
    <3>1. PICK E : E = FixedEntry(g)
      OBVIOUS
    <3>2. << >> \in Seq(E) /\ InOrder(<< >>)
      BY DEF InOrder
    <3>3. QED BY <2>2, <3>1, <3>2
  <2>4. QED BY <2>1, <2>3, ListInit DEF FixedInv
<1>2. FixedInv /\ [Select!Next]_Select!vars => FixedInv'
  BY FixedStep
<1>3. FixedInv /\ [Select!Next]_Select!vars =>
        [Select!RelayExecuteStrategyGroup /\ ~half /\ group' # 0 /\ lists'[group'] # << >>
         => strategy' \in Select!InForce(lists'[group'])]_Select!vars
  <2> SUFFICES ASSUME FixedInv, Select!RelayExecuteStrategyGroup,
                      group' # 0, lists'[group'] # << >>
               PROVE  strategy' \in Select!InForce(lists'[group'])
    OBVIOUS
  <2>1. group' \in 1 .. NGroup
    BY PassLists DEF FixedInv
  <2>2. InOrder(lists'[group'])
    BY <2>1, FixedPass
  <2>3. QED BY <2>2, PassInForce DEF FixedInv, Scannable
<1>4. QED BY <1>1, <1>2, <1>3, PTL DEF Select!Spec, Select!FollowsClock
=============================================================================
