-------------------------- MODULE MCStrategySelect --------------------------
(* Instances of StrategySelect: a day of eight minutes, a year of three days *)
(* and two groups.  The strategies of a group with the sun are two, so that  *)
(* the sun and the light may move them past each other; a group of fixed     *)
(* times is stored in any order.                                             *)
EXTENDS StrategySelect

Fixed(g, t) == [group_id |-> g, type |-> "FIXED_TIME", time_option |-> "none", time |-> t]
Sun(g, type, option, t) == [group_id |-> g, type |-> type, time_option |-> option, time |-> t]

MCStrategies ==
  {<<Fixed(2, 3), Sun(1, "LOCATION_LIGHT", "sunset", 0), Fixed(2, 1),
     Sun(1, "LOCATION_LIGHT", "sunrise", 1), Fixed(2, 6)>>,
   <<Sun(1, "CHRONOLOGY", "sunset", 0), Fixed(1, 7)>>}

TimeRange(s, e, days) == [s |-> s, e |-> e, week |-> days]
Always == TimeRange(0, 0, {})
MCAppointments ==
  {<<[group_id |-> 1, priority |-> 1, ranges |-> <<Always>>],
     [group_id |-> 2, priority |-> 2, ranges |-> <<TimeRange(10, 20, {1})>>]>>,
   <<[group_id |-> 2, priority |-> 1, ranges |-> <<TimeRange(26, 10, {2})>>]>>,
   <<[group_id |-> 2, priority |-> 3, ranges |-> <<TimeRange(22, 17, {})>>],
     [group_id |-> 1, priority |-> 2, ranges |-> <<TimeRange(12, 20, {}), TimeRange(25, 27, {2})>>]>>}

MCSwitches == {[type |-> 1, group_id |-> <<1, 2>>], [type |-> 2, group_id |-> <<2>>]}
MCSuns == {[rise |-> 2, set |-> 5], [rise |-> 3, set |-> 4]}
MCLights == {0, 9}
MCAlmanac == [on |-> 2, off |-> 6]

(* The sun is not known when the lists are first built.                      *)
UnsortedStrategies ==
  {<<Sun(1, "LOCATION", "sunset", 0), Fixed(1, 7), Sun(1, "LOCATION", "sunrise", 0)>>}
UnsortedSwitches == {[type |-> 2, group_id |-> <<1>>]}
NoAppointments == {<< >>}
=============================================================================
