------------------------------- MODULE Rs485Bus -------------------------------
(***************************************************************************)
(* The RS485 bus (task_rs485.c) with the requests and the decoding of the   *)
(* device tasks (e_meter.c, task_electricity_meter.c, lumeter.c, kc.c).     *)
(*                                                                          *)
(* The device tasks put requests into one queue.  The bus task sends one    *)
(* and takes whatever frame the UART flags next for its answer, gives it to *)
(* the task the *request* came from, or sends it twice more.  The flag is   *)
(* not cleared before a request is sent: a late answer or a frame of the    *)
(* maintenance tool closes somebody else's exchange.  A meter is read in    *)
(* two requests, a six-loop module in one, and the answers of all of them   *)
(* meet in one static record, also those to what the server asks itself.    *)
(***************************************************************************)
EXTENDS Integers, Sequences

CONSTANTS
  Meters,        \* addresses of the meters, in the order they are asked
  SixLoop,       \* those of them that are six-loop modules (48 .. 53)
  Others,        \* of the devices of another type
  Transparent,   \* requests the server passes through the device tasks
  BusLen,        \* of xQueue_Rs485Rs485Frame (40)
  RespLen,       \* of the queues of answers (20)
  TransLen,      \* of xQueue_TransTransFrame (10)
  MaxSend,       \* transmissions of a request (3)
  MaxCollect,    \* bound: rounds of collecting and transparent requests
  MaxNoise,      \* bound: stray bytes
  MaxStray       \* bound: maintenance frames, and answers after the wait

Type == {"METER", "OTHER"}
Unread == 0
Meter == {Meters[i] : i \in DOMAIN Meters}
Other == {Others[i] : i \in DOMAIN Others}
Device == Meter \cup Other
DeviceType(d) == IF d \in Meter THEN "METER" ELSE "OTHER"

(* A frame asks, or carries, one part of a device for the task "to"; "trans"*)
(* is what only the server understands.                                     *)
Part == {"values", "energies", "loops", "state", "trans"}
Frame == [to : Type, dev : Device, part : Part]
Noise == [dev |-> Unread, part |-> "noise"]    \* one byte
Tool  == [dev |-> Unread, part |-> "tool"]     \* a maintenance frame
Nothing == [dev |-> Unread, part |-> "none"]

(* What the answers of a device can be decoded as.                          *)
PartsOf(d) ==
  IF d \in SixLoop THEN {"loops"}
  ELSE IF d \in Meter THEN {"values", "energies"} ELSE {"state"}

ASSUME BusAssumption ==
  /\ Meters \in Seq(Nat \ {Unread}) /\ Others \in Seq(Nat \ {Unread})
  /\ Meter \cap Other = {} /\ SixLoop \subseteq Meter
  /\ Transparent \subseteq {f \in Frame : f.part \in PartsOf(f.dev) \cup {"trans"}}
  /\ BusLen \in Nat \ {0} /\ RespLen \in Nat \ {0} /\ TransLen \in Nat \ {0}
  /\ MaxSend \in Nat \ {0} /\ MaxCollect \in Nat /\ MaxNoise \in Nat /\ MaxStray \in Nat

(* The fields of a record and those a frame writes: the voltages, currents  *)
(* and powers of the first channels, the line voltages, the energies of     *)
(* channel 0, and what only a six-loop module has.                          *)
Field == {"phases", "lines", "energy", "reactive", "rest", "state"}
Writes(p) ==
  CASE p = "values"   -> {"phases", "lines"}
    [] p = "energies" -> {"energy", "reactive"}
    [] p = "loops"    -> {"phases", "energy", "rest"}
    [] OTHER          -> {"state"}

VARIABLES
  todo,      \* per type of device: requests its task is still to put
  queue,     \* xQueue_Rs485Rs485Frame
  now, re_send_times, loop,   \* send_rs485_frame; where the bus task is
  line,      \* answers on their way to the UART
  rx,        \* Usart5RxBuf while Usart5RecvEnd = 0xAA
  resp,      \* per type: the queue of answers
  trans,     \* xQueue_TransTransFrame
  meter_state,  \* the static record, of[k]: whose answer field k holds
  para,      \* per device: whose answer each field it shows holds
  collects, noises, strays,    \* bounds
  heard,     \* for the properties: the device received the request under way
  missed     \* for the properties: the first part of a record was not answered
             \* in its exchange, or the server asked for a second part alone

request == <<todo, queue>>
busVars == <<now, re_send_times, loop>>
decoded == <<trans, meter_state, para>>
bound   == <<collects, noises, strays>>
vars == <<request, busVars, line, rx, resp, decoded, bound, heard, missed>>

Init ==
  /\ todo = [t \in Type |-> << >>] /\ queue = << >>
  /\ now = Nothing /\ re_send_times = 0 /\ loop = "take"
  /\ line = << >> /\ rx = Nothing
  /\ resp = [t \in Type |-> << >>] /\ trans = << >>
  /\ meter_state = [address |-> Unread, of |-> [k \in Field |-> Unread], update |-> FALSE]
  /\ para = [d \in Device |-> [k \in Field |-> Unread]]
  /\ collects = 0 /\ noises = 0 /\ strays = 0
  /\ heard = FALSE /\ missed = FALSE

-----------------------------------------------------------------------------
(* The device tasks: every module of the type is asked; for a meter there   *)
(* are two steps, the second of which (e_meter.c:333) only Asks a meter     *)
(* that is no six-loop module.                                              *)
First == {"values", "loops"}
Requests(t) ==
  IF t = "METER"
  THEN [i \in 1 .. 2 * Len(Meters) |->
          LET d == Meters[(i + 1) \div 2]
          IN [to |-> t, dev |-> d,
              part |-> IF i % 2 = 0 THEN "energies"
                       ELSE IF d \in SixLoop THEN "loops" ELSE "values"]]
  ELSE [i \in 1 .. Len(Others) |-> [to |-> t, dev |-> Others[i], part |-> "state"]]

Asks(f) == f.part = "energies" => f.dev \notin SixLoop

CollectCurrentState(t) ==
  /\ collects < MaxCollect /\ collects' = collects + 1
  /\ todo[t] = << >>
  /\ todo' = [todo EXCEPT ![t] = Requests(t)]
  /\ UNCHANGED <<queue, busVars, line, rx, resp, decoded, noises, strays, heard, missed>>

(* The server's own request goes through any task, for any device.          *)
Alone(f) == f.part = "energies" \/ (f.to = "OTHER" /\ f.dev \in Meter)

TransparentTransmission(f) ==
  /\ collects < MaxCollect /\ collects' = collects + 1
  /\ todo[f.to] = << >>
  /\ todo' = [todo EXCEPT ![f.to] = <<f>>]
  /\ missed' = (missed \/ Alone(f))
  /\ UNCHANGED <<queue, busVars, line, rx, resp, decoded, noises, strays, heard>>

(* A request without memory, or room within 10 ms, is dropped.              *)
Put(t) ==
  /\ todo[t] # << >>
  /\ todo' = [todo EXCEPT ![t] = Tail(@)]
  /\ \/ /\ Asks(Head(todo[t])) /\ Len(queue) < BusLen
        /\ queue' = Append(queue, Head(todo[t]))
        /\ UNCHANGED missed
     \/ /\ Asks(Head(todo[t])) /\ UNCHANGED queue
        /\ missed' = (missed \/ Head(todo[t]).part \in First)
     \/ /\ ~Asks(Head(todo[t])) /\ UNCHANGED <<queue, missed>>
  /\ UNCHANGED <<busVars, line, rx, resp, decoded, bound, heard>>

-----------------------------------------------------------------------------
(* The bus: the device may hear the request, and its answer may get through. *)
Transmit(f) ==
  \/ line' = line /\ heard' \in {heard, TRUE}
  \/ line' = Append(line, f) /\ heard' = TRUE

TakeAndSend ==
  /\ loop = "take" /\ queue # << >>
  /\ now' = Head(queue) /\ queue' = Tail(queue) /\ re_send_times' = 0
  /\ \/ line' = line /\ heard' \in BOOLEAN
     \/ line' = Append(line, now') /\ heard' = TRUE
  /\ loop' = "wait"
  /\ UNCHANGED <<todo, rx, resp, decoded, bound, missed>>

NothingToSend ==
  /\ loop = "take" /\ queue = << >>
  /\ loop' = "hci"
  /\ UNCHANGED <<request, now, re_send_times, line, rx, resp, decoded, bound, heard, missed>>

(* UART5_IRQHandler: the frame that ended last is in the buffer.            *)
UART5_IRQHandler ==
  /\ line # << >>
  /\ rx' = Head(line) /\ line' = Tail(line)
  /\ UNCHANGED <<request, busVars, resp, decoded, bound, heard, missed>>

NobodyAsked ==
  /\ \/ noises < MaxNoise /\ noises' = noises + 1 /\ rx' = Noise /\ UNCHANGED strays
     \/ strays < MaxStray /\ strays' = strays + 1 /\ rx' = Tool /\ UNCHANGED noises
  /\ UNCHANGED <<request, busVars, line, resp, decoded, collects, heard, missed>>

(* Usart5FrameLen >= 2                                                      *)
AnyLength(f) == TRUE
LongEnough(f) == f # Noise

Unanswered(f) == missed \/ (now.part \in First /\ f # now)

(* The frame in the buffer is the answer, and for the task of the request.  *)
Answered ==
  /\ loop = "wait" /\ rx # Nothing /\ LongEnough(rx)
  /\ LET t == now.to
     IN \/ /\ Len(resp[t]) < RespLen
           /\ resp' = [resp EXCEPT ![t] = Append(@, rx)]
           /\ missed' = Unanswered(rx)
        \/ /\ UNCHANGED resp                     \* no memory or no room
           /\ missed' = Unanswered(Nothing)
  /\ rx' = Nothing /\ now' = Nothing /\ re_send_times' = 0 /\ loop' = "hci"
  /\ heard' = FALSE
  /\ UNCHANGED <<request, line, decoded, bound>>

TooShort ==
  /\ loop = "wait" /\ rx # Nothing /\ ~LongEnough(rx)
  /\ rx' = Nothing
  /\ UNCHANGED <<request, busVars, line, resp, decoded, bound, heard, missed>>

(* Four seconds have passed: an answer that is still to come comes late.    *)
Counted == re_send_times + 1

TimeOut ==
  /\ loop = "wait" /\ rx = Nothing
  /\ \/ line = << >> /\ UNCHANGED strays
     \/ line # << >> /\ strays < MaxStray /\ strays' = strays + 1
  /\ IF Counted < MaxSend
     THEN /\ re_send_times' = Counted
          /\ Transmit(now)
          /\ UNCHANGED <<now, loop, missed>>
     ELSE /\ now' = Nothing /\ re_send_times' = 0 /\ loop' = "hci"
          /\ missed' = Unanswered(Nothing)
          /\ heard' = FALSE /\ UNCHANGED line
  /\ UNCHANGED <<request, rx, resp, decoded, collects, noises>>

(* After each pass a flagged frame is taken for one of the tool's.          *)
RecvAnsAnalysisHCI_Frame ==
  /\ loop = "hci"
  /\ rx' = Nothing /\ loop' = "take"
  /\ UNCHANGED <<request, now, re_send_times, line, resp, decoded, bound, heard, missed>>

-----------------------------------------------------------------------------
(* AnalysisBuiltOutElectricityMeterFrame: the parts of any meter decode,    *)
(* whoever asked for them.  The second part of a meter, or the only one of  *)
(* a six-loop module, completes the record; each overwrites its own fields. *)
UpdateAtOnce(f) == TRUE
UpdateOf(f) == f.part \in {"energies", "loops"}

Understood(t, f) ==
  f.dev \in Device /\ DeviceType(f.dev) = t /\ f.part \in PartsOf(f.dev)

AnalysisMeter(f) ==
  [address |-> f.dev, update |-> meter_state.update \/ UpdateOf(f),
   of |-> [k \in Field |-> IF k \in Writes(f.part) THEN f.dev ELSE meter_state.of[k]]]

AnyMeter(d, state) == d \in Meter
SameAddress(d, state) == d \in Meter /\ d = state.address

(* The modules with the address of the record get all of it.                *)
CopyMeter(state) ==
  para' = [d \in Device |-> IF SameAddress(d, state) THEN state.of ELSE para[d]]

(* A frame that is not understood goes to the server as it is.              *)
Forward(f) ==
  \/ Len(trans) < TransLen /\ trans' = Append(trans, f)
  \/ UNCHANGED trans                             \* no memory or no room

ElectricityMeterRecvAndHandleDeviceFrame ==
  /\ todo["METER"] = << >> /\ resp["METER"] # << >>
  /\ resp' = [resp EXCEPT !["METER"] = Tail(@)]
  /\ LET f == Head(resp["METER"])
     IN IF Understood("METER", f)
        THEN LET state == AnalysisMeter(f)
             IN /\ meter_state' = [state EXCEPT !.update = FALSE]
                /\ IF state.update THEN CopyMeter(state) ELSE UNCHANGED para
                /\ UNCHANGED trans
        ELSE Forward(f) /\ UNCHANGED <<meter_state, para>>
  /\ UNCHANGED <<request, busVars, line, rx, bound, heard, missed>>

OtherRecvAndHandleDeviceFrame ==
  /\ todo["OTHER"] = << >> /\ resp["OTHER"] # << >>
  /\ resp' = [resp EXCEPT !["OTHER"] = Tail(@)]
  /\ LET f == Head(resp["OTHER"])
     IN IF Understood("OTHER", f)
        THEN para' = [para EXCEPT ![f.dev].state = f.dev] /\ UNCHANGED trans
        ELSE Forward(f) /\ UNCHANGED para
  /\ UNCHANGED <<request, busVars, line, rx, meter_state, bound, heard, missed>>

(* The concentrator task sends it on.                                       *)
TransmitToServer ==
  /\ trans # << >> /\ trans' = Tail(trans)
  /\ UNCHANGED <<request, busVars, line, rx, resp, meter_state, para, bound, heard, missed>>

BusTask == TakeAndSend \/ NothingToSend \/ Answered \/ TooShort \/ TimeOut
           \/ RecvAnsAnalysisHCI_Frame

Next ==
  \/ \E t \in Type : CollectCurrentState(t) \/ Put(t)
  \/ \E f \in Transparent : TransparentTransmission(f)
  \/ BusTask
  \/ UART5_IRQHandler \/ NobodyAsked
  \/ ElectricityMeterRecvAndHandleDeviceFrame \/ OtherRecvAndHandleDeviceFrame
  \/ TransmitToServer

Spec == Init /\ [][Next]_vars

-----------------------------------------------------------------------------
TypeOK ==
  /\ todo \in [Type -> Seq(Frame)] /\ queue \in Seq(Frame) /\ Len(queue) <= BusLen
  /\ now \in Frame \cup {Nothing} /\ re_send_times \in 0 .. MaxSend - 1
  /\ loop \in {"take", "wait", "hci"}
  /\ line \in Seq(Frame) /\ rx \in Frame \cup {Noise, Tool, Nothing}
  /\ resp \in [Type -> Seq(Frame \cup {Tool})] /\ \A t \in Type : Len(resp[t]) <= RespLen
  /\ trans \in Seq(Frame \cup {Tool}) /\ Len(trans) <= TransLen
  /\ meter_state \in [address : Meter \cup {Unread}, update : BOOLEAN,
                      of : [Field -> Meter \cup {Unread}]]
  /\ para \in [Device -> [Field -> Device \cup {Unread}]]
  /\ collects \in 0 .. MaxCollect /\ noises \in 0 .. MaxNoise /\ strays \in 0 .. MaxStray
  /\ heard \in BOOLEAN /\ missed \in BOOLEAN

(* Whatever answer closes whose exchange, and whatever the server asks      *)
(* itself, the fields that complete a record are never another device's:    *)
(* the energies of a meter, the loops of a six-loop module with their       *)
(* voltages and powers, the state of a device of another type.              *)
Completing(d) ==
  IF d \in SixLoop THEN "loops" ELSE IF d \in Meter THEN "energies" ELSE "state"

OwnAnswersOnly ==
  \A d \in Device : \A k \in Writes(Completing(d)) : para[d][k] \in {Unread, d}

(* As long as every first part is answered in its own exchange, and the     *)
(* server asks for no second part alone, the two parts a meter shows come   *)
(* from one meter: from its own, however the other answers were lost, late  *)
(* or shifted and whatever six-loop modules are read in between.            *)
WholeUnlessMissed ==
  ~missed =>
    \A d \in Meter \ SixLoop : \A k \in Writes("values") \cup Writes("energies") :
      para[d][k] = para[d].energy

(* ... and in every case (violated: after a missed first answer the         *)
(* energies of a meter are copied with the voltages of the one before it).  *)
MeterWhole ==
  \A d \in Meter \ SixLoop :
    Unread \notin {para[d].phases, para[d].energy} => para[d].phases = para[d].energy

(* A module shows nothing of another one (violated with no fault at all:    *)
(* the frame of a six-loop module leaves the line voltages and the reactive *)
(* energy of the meter read before it in the record, and all of the record  *)
(* is copied and reported).                                                 *)
NothingLeftOver == \A d \in Device : \A k \in Field : para[d][k] \in {Unread, d}

(* While nothing arrives late and no maintenance tool is on the bus, an     *)
(* exchange ends before its last transmission only if the device heard the  *)
(* request: a byte of noise ends none, and no answer is left over for the   *)
(* next one.                                                                *)
EndsHeard ==
  [][(now # Nothing /\ now' = Nothing /\ re_send_times < MaxSend - 1 /\ strays = 0) => heard]_vars
=============================================================================
