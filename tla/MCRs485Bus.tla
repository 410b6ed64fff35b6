----------------------------- MODULE MCRs485Bus -----------------------------
(* A meter, a six-loop module, another meter, and a lumeter on the bus; the *)
(* server reads the second part of a meter itself, the six-loop module, one *)
(* task's device through the other task, and what only it understands.      *)
EXTENDS Rs485Bus
ThreeMeters == <<1, 2, 3>>
Second == {2}
Lumeter == <<4>>
ServersReads ==
  {[to |-> "METER", dev |-> 3, part |-> "energies"],
   [to |-> "METER", dev |-> 2, part |-> "loops"],
   [to |-> "OTHER", dev |-> 1, part |-> "values"],
   [to |-> "METER", dev |-> 4, part |-> "state"],
   [to |-> "METER", dev |-> 1, part |-> "trans"]}
=============================================================================
