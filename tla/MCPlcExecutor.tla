--------------------------- MODULE MCPlcExecutor ---------------------------
(* Two or three lamps, the first in group 1, the second in groups 1 and 2.  *)
EXTENDS PlcExecutor

Groups == [l \in Lamp |-> IF l = 0 THEN {1} ELSE IF l = 1 THEN {1, 2} ELSE {2}]
First == {0, 1}
Three == {0, 1, 2}
Message(cmd, broadcast, execute, ids) ==
  [cmd_code |-> cmd, broadcast_type |-> broadcast, execute_type |-> execute, dev_id |-> ids]

(* To all one by one; one of them by name; the update; the strategies.      *)
Messages ==
  [t \in TaskId |->
    IF t = 1 THEN {Message("adjust", 0, 2, << >>)}
    ELSE {Message("query", 2, 1, <<1>>), Message("firmware", 0, 0, << >>),
          Message("strategy", 0, 0, << >>)}]

GroupMessages == [t \in TaskId |-> {Message("adjust", 1, 2, <<2>>), Message("adjust", 1, 0, <<1>>)}]
LampStrategies == << <<0>>, <<0, 1>> >>
=============================================================================
