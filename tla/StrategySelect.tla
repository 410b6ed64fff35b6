--------------------------- MODULE StrategySelect ---------------------------
(***************************************************************************)
(* Which strategy the relays follow (task_relay.c, relay_conf.c).           *)
(*                                                                          *)
(* Strategies, appointments and the switch of groups are stored by messages.*)
(* When the switch is set, and at the start, the RELAY task builds the lists *)
(* of strategies of each group, ordered by the minute of the day they act   *)
(* at, and chooses the group in force.  Each of its passes moves the times  *)
(* of that group with the sun and the light, and takes the strategy the     *)
(* clock is at.  The clock and the sun are written by the LED task, which   *)
(* the RELAY task preempts.  A pass is not preempted by either.             *)
(***************************************************************************)
EXTENDS Integers, Sequences, SequencesExt, FiniteSetsExt

CONSTANTS
  HOURS, MINUTES,  \* of a day, of an hour (24 and 60)
  DAYS,            \* of a year (366)
  NGroup,          \* MAX_RELAY_MODULE_STRATEGY_GROUP_NUM
  Strategies,      \* what a message may store as strategies
  Appointments,    \* what a message may store as appointments
  Switches,        \* what a message may store as the switch of groups
  Suns,            \* [rise, set] in minutes, as GetSunTime may compute them
  Lights,          \* values of LumeterAppValue
  light_on_thre, light_on_advance_time, light_on_delay_time,
  light_off_thre, light_off_advance_time, light_off_delay_time,
  Almanac,         \* [on, off]: switch_time_month_table, the same every day
  MaxInput         \* bound: messages, changes of sun and light

Day == HOURS * MINUTES
Group == 1 .. NGroup
u16(n) == n % (256 * 256)

ASSUME StrategyAssumption ==
  /\ HOURS \in Nat \ {0} /\ MINUTES \in Nat \ {0} /\ DAYS \in Nat \ {0}
  /\ NGroup \in Nat /\ MaxInput \in Nat
  /\ \A a \in {light_on_advance_time, light_on_delay_time, light_off_advance_time,
               light_off_delay_time, light_on_thre, light_off_thre} : a \in Nat
  /\ \A s \in Suns : s.rise \in 0 .. Day - 1 /\ s.set \in 0 .. Day - 1
  /\ Lights \subseteq Nat

VARIABLES
  hour, min, date,  \* calendar
  half,             \* the LED task has written the hour and not yet the minute
  sun, light,       \* SunRiseSetTime, LumeterAppValue
  seen,             \* the sun and the light of the last pass
  stored,           \* in the EEPROM: strategies, appointments, switch
  refresh,          \* RelayRefreshStrategyGroup
  lists,            \* RelayStrategyGroup: [s, at] in the order of the list
  group,            \* CurrentRelayStrategyGroup, 0 for NULL
  task,             \* the strategy the commands of the task come from, or NoTask
  inputs

clock == <<hour, min, date, half>>
world == <<sun, light, stored>>
pass  == <<seen, refresh, lists, group, task>>
vars  == <<clock, world, pass, inputs>>

NoTask == [group_id |-> 0]
NotYet == [rise |-> 0, set |-> 0]

Init ==
  /\ hour \in 0 .. HOURS - 1 /\ min \in 0 .. MINUTES - 1 /\ date = 1 /\ half = FALSE
  /\ sun = NotYet /\ light = 0 /\ seen = [sun |-> NotYet, light |-> 0]
  /\ stored \in [strategies : Strategies, appointments : Appointments, switch : Switches]
  /\ refresh = TRUE
  /\ lists = [g \in Group |-> << >>] /\ group = 0 /\ task = NoTask
  /\ inputs = 0

gate_n == hour * MINUTES + min

-----------------------------------------------------------------------------
(* RefreshRelayStrategyActionTime: the minute a strategy acts at; old is    *)
(* what it was, which the types without such an option keep.                *)
Lit(s) == s.type \in {"FIXED_TIME_LIGHT", "LOCATION_LIGHT", "CHRONOLOGY_LIGHT"}

BaseTime(s, old) ==
  CASE s.type \in {"FIXED_TIME", "FIXED_TIME_LIGHT"} -> s.time
    [] s.type \in {"LOCATION", "LOCATION_LIGHT"} /\ s.time_option = "sunset" -> sun.set + s.time
    [] s.type \in {"LOCATION", "LOCATION_LIGHT"} /\ s.time_option = "sunrise" -> sun.rise + s.time
    [] s.type \in {"CHRONOLOGY", "CHRONOLOGY_LIGHT"} /\ s.time_option = "sunset" -> Almanac.off + s.time
    [] s.type \in {"CHRONOLOGY", "CHRONOLOGY_LIGHT"} /\ s.time_option = "sunrise" -> Almanac.on + s.time
    [] OTHER -> old

Moved(t, early, advance, delay) ==
  CASE early -> t - advance
    [] ~early /\ gate_n >= t + delay -> t + delay
    [] OTHER -> t

ActionTime(s, old) ==
  LET t == u16(BaseTime(s, old))
  IN u16(CASE Lit(s) /\ s.time_option = "sunset" ->
                Moved(t, light <= light_on_thre, light_on_advance_time, light_on_delay_time)
           [] Lit(s) /\ s.time_option = "sunrise" ->
                Moved(t, light >= light_off_thre, light_off_advance_time, light_off_delay_time)
           [] OTHER -> t)

-----------------------------------------------------------------------------
PlaceLast(list, at) == Len(list) + 1

(* RelayStrategyAdd: before the first strategy that is later, if the one    *)
(* before it is not later; else at the end.  The head's time is 0.          *)
Place(list, at) ==
  LET time(p) == IF p = 0 THEN 0 ELSE list[p].at
      gaps == {p \in 0 .. Len(list) - 1 : time(p) <= at /\ at < time(p + 1)}
  IN IF gaps = {} THEN Len(list) + 1 ELSE Min(gaps) + 1

RelayStrategyAdd(list, s) ==
  LET at == ActionTime(s, 0) IN InsertAt(list, Place(list, at), [s |-> s, at |-> at])

ReadRelayStrategyGroups ==
  [g \in Group |->
    FoldLeft(LAMBDA list, s : IF s.group_id = g THEN RelayStrategyAdd(list, s) ELSE list,
             << >>, stored.strategies)]

(* RefreshRelayStrategyGroupActionTime: the order of the list stays.        *)
Refreshed(list) == [p \in DOMAIN list |-> [list[p] EXCEPT !.at = ActionTime(list[p].s, @)]]

-----------------------------------------------------------------------------
(* RefreshCurrentRelayStrategyGroup.                                        *)

(* week is 0 to 6; a shift by week - 1 is undefined on day 0.               *)
week == (date - 1) % 7
WeekAllows(range, odd) ==
  \/ range.week = {}
  \/ week # 0 /\ week \in range.week
  \/ week = 0 /\ odd

(* A range over the end of the year looks at the weekdays of another range: *)
(* the one numbered like the group in the switch.                           *)
Allows(ranges, i, j, odd) ==
  LET r == ranges[j]
      now == Day * date + gate_n
      other == IF i <= Len(ranges) THEN ranges[i] ELSE [week |-> {}]
  IN CASE r.s = 0 /\ r.e = 0 -> WeekAllows(r, odd)
       [] ~(r.s = 0 /\ r.e = 0) /\ r.s <= r.e -> r.s <= now /\ now <= r.e /\ WeekAllows(r, odd)
       [] r.s > r.e -> /\ now \in (r.s .. Day * DAYS) \cup (1 .. r.e)
                       /\ WeekAllows(other, odd)

(* The places in the switch of the groups with an appointment now.          *)
Candidates(odd) ==
  {c \in (DOMAIN stored.switch.group_id) \X (DOMAIN stored.appointments) :
     LET a == stored.appointments[c[2]]
     IN a.group_id = stored.switch.group_id[c[1]]
        /\ \E j \in DOMAIN a.ranges : Allows(a.ranges, c[1], j, odd)}

Priority(c) == stored.appointments[c[2]].priority

BestLowest(cs) == {c \in cs : \A d \in cs : Priority(d) >= Priority(c)}

(* Of several the first with the highest priority.                          *)
Best(cs) == {c \in cs : \A d \in cs : Priority(d) <= Priority(c)}

ByAppointment(odd) ==
  IF Candidates(odd) = {} THEN 0
  ELSE stored.switch.group_id[Min({c[1] : c \in Best(Candidates(odd))})]

GroupNow(odd) ==
  LET ids == stored.switch.group_id
      id == CASE stored.switch.type = 1 -> ByAppointment(odd)
              [] stored.switch.type = 2 /\ Len(ids) = 1 -> ids[1]
              [] OTHER -> 0
  IN IF id \in Group THEN id ELSE 0

-----------------------------------------------------------------------------
StopsNoWrap(list, p) ==
  \/ gate_n = list[p].at
  \/ p = Len(list)
  \/ p < Len(list) /\ gate_n = list[p + 1].at
  \/ p < Len(list) /\ list[p].at <= gate_n /\ gate_n <= list[p + 1].at

(* RelayExecuteStrategyGroup: the strategy of the list the clock is at.     *)
Stops(list, p) ==
  LET at == list[p].at
  IN \/ gate_n = at
     \/ p = Len(list)
     \/ /\ p < Len(list)
        /\ LET next == list[p + 1].at
           IN \/ gate_n = next
              \/ at < next /\ gate_n \in at .. next
              \/ at > next /\ gate_n \in (at .. Day) \cup (0 .. next)

Chosen(list) ==
  LET p == Min({q \in DOMAIN list : Stops(list, q)})
  IN IF gate_n # list[p].at /\ p < Len(list) /\ gate_n = list[p + 1].at THEN p + 1 ELSE p

(* The lists are built again when the switch was set.  When the sun or the  *)
(* light changed the times of the group in force follow; without a group    *)
(* its number is read from address 0, and may be any.                       *)
RelayExecuteStrategyGroup ==
  \E odd \in BOOLEAN, null \in 0 .. NGroup :
    LET built == IF refresh THEN ReadRelayStrategyGroups ELSE lists
        inForce == IF refresh THEN GroupNow(odd) ELSE group
        g == IF inForce # 0 THEN inForce ELSE null
    IN /\ refresh' = FALSE
       /\ group' = inForce
       /\ seen' = [sun |-> sun, light |-> light]
       /\ lists' = IF seen' # seen /\ g # 0 THEN [built EXCEPT ![g] = Refreshed(@)] ELSE built
       /\ task' = IF group' # 0 /\ lists'[group'] # << >>
                  THEN lists'[group'][Chosen(lists'[group'])].s
                  ELSE task
       /\ UNCHANGED <<clock, world, inputs>>

-----------------------------------------------------------------------------
(* The LED task: RX8010S_Get_Time writes the hour, then the minute.         *)
Tick ==
  /\ ~half
  /\ IF min + 1 < MINUTES
     THEN min' = min + 1 /\ UNCHANGED <<hour, date, half>>
     ELSE /\ hour' = (hour + 1) % HOURS
          /\ date' = IF hour' = 0 THEN (date % DAYS) + 1 ELSE date
          /\ half' = TRUE
          /\ UNCHANGED min
  /\ UNCHANGED <<world, pass, inputs>>

TickMinute ==
  /\ half /\ half' = FALSE
  /\ min' = 0
  /\ UNCHANGED <<hour, date, world, pass, inputs>>

Input == inputs < MaxInput /\ inputs' = inputs + 1

SunChanges ==
  /\ Input
  /\ sun' \in Suns
  /\ UNCHANGED <<clock, light, stored, pass>>

LightChanges ==
  /\ Input
  /\ light' \in Lights
  /\ UNCHANGED <<clock, sun, stored, pass>>

(* Messages: only the switch of groups has the lists built again.           *)
RelaySetRelayStrategy ==
  /\ Input
  /\ \E s \in Strategies : stored' = [stored EXCEPT !.strategies = s]
  /\ UNCHANGED <<clock, sun, light, pass>>

RelaySetRelayAppointment ==
  /\ Input
  /\ \E a \in Appointments : stored' = [stored EXCEPT !.appointments = a]
  /\ UNCHANGED <<clock, sun, light, pass>>

RelaySetStrategyGroupSwitch ==
  /\ Input
  /\ \E s \in Switches : stored' = [stored EXCEPT !.switch = s]
  /\ refresh' = TRUE
  /\ UNCHANGED <<clock, sun, light, seen, lists, group, task>>

Next ==
  \/ RelayExecuteStrategyGroup
  \/ Tick \/ TickMinute \/ SunChanges \/ LightChanges
  \/ RelaySetRelayStrategy \/ RelaySetRelayAppointment \/ RelaySetStrategyGroupSwitch

Spec == Init /\ [][Next]_vars

-----------------------------------------------------------------------------
(* The clock, the lists and the group in force have their types: a time     *)
(* keeps its 16 bits, wherever the sun and the light move it                *)
(* (RefreshRelayStrategyActionTime), and every list holds only strategies   *)
(* of its own group.                                                        *)
TypeOK ==
  /\ hour \in 0 .. HOURS - 1 /\ min \in 0 .. MINUTES - 1 /\ date \in 1 .. DAYS
  /\ half \in BOOLEAN /\ refresh \in BOOLEAN
  /\ group \in 0 .. NGroup /\ DOMAIN lists = Group
  /\ \A g \in Group : \A p \in DOMAIN lists[g] :
       lists[g][p].s.group_id = g /\ lists[g][p].at \in 0 .. 256 * 256 - 1
  /\ task.group_id \in 0 .. NGroup
  /\ inputs \in 0 .. MaxInput

(* The strategy in force at a minute is the last one that acts at or before *)
(* it, or when there is none the last one of the day before.                *)
InForce(list) ==
  LET past == {p \in DOMAIN list : list[p].at <= gate_n}
      of == IF past = {} THEN DOMAIN list ELSE past
  IN {list[p].s : p \in {q \in of : \A r \in of : list[r].at <= list[q].at}}

(* A pass that sees the whole clock takes the strategy in force, wherever   *)
(* the sun and the light have moved the times and however the strategies    *)
(* were stored: relay_conf.c keeps the list in the order of the times.      *)
FollowsClock ==
  [][RelayExecuteStrategyGroup /\ ~half /\ group' # 0 /\ lists'[group'] # << >>
     => task' \in InForce(lists'[group'])]_vars

(* The group in force is one of the switch whose appointment holds when the *)
(* lists are built, and no other of them has a higher priority, however the *)
(* switch and the appointments are ordered.  Where the code's week or the   *)
(* end of the year is off (see Allows) nothing is claimed.                  *)
AppointmentOf(id) == {a \in ToSet(stored.appointments) : a.group_id = id}
Holds(a) == \E j \in DOMAIN a.ranges :
              LET r == a.ranges[j]
                  now == Day * date + gate_n
                  inTime == IF r.s <= r.e THEN now \in r.s .. r.e ELSE now >= r.s \/ now <= r.e
              IN /\ (r.s = 0 /\ r.e = 0) \/ inTime
                 /\ r.week = {} \/ week \in r.week

CrossesPlainly(a) == (\E j \in DOMAIN a.ranges : a.ranges[j].s > a.ranges[j].e)
                     => date < DAYS /\ \A j \in DOMAIN a.ranges : a.ranges[j].week = {}

HighestPriority ==
  [][/\ RelayExecuteStrategyGroup /\ refresh /\ stored.switch.type = 1 /\ week # 0
     /\ \A a \in ToSet(stored.appointments) : CrossesPlainly(a)
     => LET holding == UNION {{a \in AppointmentOf(id) : Holds(a)} : id \in ToSet(stored.switch.group_id)}
        IN IF holding = {} THEN group' = 0
           ELSE \E a \in holding : a.group_id = group' /\ \A b \in holding : b.priority <= a.priority]_vars
=============================================================================
