--------------------------- MODULE MCRelayControl ---------------------------
(* Instances of RelayControl for TLC: a built-in module and one on the bus,  *)
(* a loop in each byte of a u16.                                            *)
EXTENDS RelayControl, TLC

InsideFirst == {1}
Low == {1}
High == {9}
NoHigh == {}
OneEach == [m \in 1 .. NumModules |-> {1}]
AllEach == [m \in 1 .. NumModules |-> {1, 9}]
Groups == [m \in 1 .. NumModules |-> [l \in {1, 9} |-> {m}]]
Group1 == [m \in 1 .. NumModules |-> [l \in {1} |-> {m}]]

On(m)  == (m :> [ch |-> {1}, st |-> {1}])
Off(m) == (m :> [ch |-> {1}, st |-> {}])
DayNight == {"day", "night"}
LightAtNight == [s \in DayNight |-> IF s = "day" THEN Off(1) @@ Off(2) ELSE On(1) @@ On(2)]

Wide(m, ch, st) == [m |-> m, ch |-> ch, chWide |-> TRUE, st |-> st, stWide |-> TRUE]
Short(m, ch, st) == [m |-> m, ch |-> ch, chWide |-> FALSE, st |-> st, stWide |-> FALSE]
SwitchOn == {<<Wide(1, {1}, {1})>>, <<Wide(1, {1}, {1}), Wide(2, {1}, {1})>>}
SwitchShort == {<<Short(1, {1}, {1})>>, <<Wide(1, {1, 9}, {1})>>}
GroupOneOn == {[groups |-> {1}, on |-> TRUE], [groups |-> {0}, on |-> FALSE]}
None == {}
TempSecond == {<<[m |-> 2, cmd |-> [ch |-> {1}, st |-> {1}]]>>}

PanelFirst == {[m |-> 1, st |-> {1}], [m |-> 1, st |-> {}]}
PanelSecond == {[m |-> 2, st |-> {1}]}
AutoTask == {"auto", "task"}
AllModes == {"auto", "manual", "task", "stop"}
=============================================================================
