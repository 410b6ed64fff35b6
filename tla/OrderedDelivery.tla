--------------------------- MODULE OrderedDelivery ---------------------------
(***************************************************************************)
(* What the alarm sender of the concentrator promises of the reports that   *)
(* detectors offer it: each is refused at once or queued; queued reports    *)
(* are opened one at a time, in the order they were queued, and each is     *)
(* transmitted at most Attempts times; a report leaves either as acked, not *)
(* before its first transmission, or as abandoned, not before its last.     *)
(***************************************************************************)
EXTENDS Naturals

CONSTANTS MaxReport, Attempts

Report == 1 .. MaxReport

VARIABLES offered, fate, attempts

vars == <<offered, fate, attempts>>

NoneOpen == \A r \in Report : fate[r] # "open"
Closed(f) == f \in {"acked", "abandoned"}

Init ==
  /\ offered = 0
  /\ fate = [r \in Report |-> "unborn"]
  /\ attempts = [r \in Report |-> 0]

Offer ==
  /\ offered < MaxReport
  /\ offered' = offered + 1
  /\ \E f \in {"queued", "dropped"} : fate' = [fate EXCEPT ![offered'] = f]
  /\ UNCHANGED attempts

(* The oldest queued report after r's close, if the close opens one.        *)
IsNext(r) ==
  /\ fate[r] = "queued"
  /\ \A q \in 1 .. r - 1 : fate[q] # "queued"

Open ==
  /\ NoneOpen
  /\ \E r \in Report : IsNext(r) /\ fate' = [fate EXCEPT ![r] = "open"]
  /\ UNCHANGED <<offered, attempts>>

Transmit ==
  /\ \E r \in Report :
       /\ fate[r] = "open" /\ attempts[r] < Attempts
       /\ attempts' = [attempts EXCEPT ![r] = @ + 1]
  /\ UNCHANGED <<offered, fate>>

(* An acknowledged report is closed, and in the same step the next one, if  *)
(* there is one, is opened.                                                 *)
Acknowledge ==
  /\ \E r \in Report :
       /\ fate[r] = "open" /\ attempts[r] > 0
       /\ \/ /\ \A q \in Report : fate[q] # "queued"
             /\ fate' = [fate EXCEPT ![r] = "acked"]
          \/ \E n \in Report :
               IsNext(n) /\ fate' = [fate EXCEPT ![r] = "acked", ![n] = "open"]
  /\ UNCHANGED <<offered, attempts>>

Abandon ==
  /\ \E r \in Report :
       /\ fate[r] = "open" /\ attempts[r] = Attempts
       /\ fate' = [fate EXCEPT ![r] = "abandoned"]
  /\ UNCHANGED <<offered, attempts>>

Next == Offer \/ Open \/ Transmit \/ Acknowledge \/ Abandon

Spec == Init /\ [][Next]_vars
=============================================================================
