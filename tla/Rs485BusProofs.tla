--------------------------- MODULE Rs485BusProofs ---------------------------
(***************************************************************************)
(* Proofs about Rs485Bus, for any devices, lengths of the queues, number of *)
(* transmissions and amount of noise: the types, whose values a module      *)
(* shows, that the two parts of a meter belong together, and that an        *)
(* exchange ends early only when the device was reached.                    *)
(***************************************************************************)
EXTENDS Rs485Bus, SequenceTheorems, TLAPS

(* The frames are told apart from noise, the tool's and nothing.            *)
LEMMA FramesAreOfDevices ==
  /\ \A d \in Device : d \in Nat \ {Unread}
  /\ Noise \notin Frame /\ Tool \notin Frame /\ Nothing \notin Frame
  /\ Noise # Tool /\ Noise # Nothing /\ Tool # Nothing
<1>1. \A d \in Device : d \in Nat \ {Unread}
  BY BusAssumption DEF BusAssumption, Device, Meter, Other
<1>2. \A f \in Frame : f.dev # Unread
  BY <1>1 DEF Frame
<1>3. Noise.dev = Unread /\ Tool.dev = Unread /\ Nothing.dev = Unread
  BY DEF Noise, Tool, Nothing
<1>4. Noise.part = "noise" /\ Tool.part = "tool" /\ Nothing.part = "none"
  BY DEF Noise, Tool, Nothing
<1>5. QED BY <1>1, <1>2, <1>3, <1>4

(* A device is of one type.                                                 *)
LEMMA TypeOfDevice ==
  ASSUME NEW d \in Device
  PROVE  DeviceType(d) \in Type /\ (DeviceType(d) = "METER" <=> d \in Meter)
BY DEF DeviceType, Type

(* The steps of a round of the meters.                                      *)
FirstPart(d) == IF d \in SixLoop THEN "loops" ELSE "values"
MeterRequest(i) ==
  [to |-> "METER", dev |-> Meters[(i + 1) \div 2],
   part |-> IF i % 2 = 0 THEN "energies" ELSE FirstPart(Meters[(i + 1) \div 2])]

LEMMA MeterRequests ==
  Requests("METER") = [i \in 1 .. 2 * Len(Meters) |-> MeterRequest(i)]
BY Zenon DEF Requests, MeterRequest, FirstPart

(* What a task asks are frames of its devices.                              *)
LEMMA RequestsType == ASSUME NEW t \in Type PROVE Requests(t) \in Seq(Frame)
<1>1. CASE t = "METER"
  <2>1. Len(Meters) \in Nat /\ DOMAIN Meters = 1 .. Len(Meters)
    BY BusAssumption DEF BusAssumption
  <2>2. ASSUME NEW i \in 1 .. 2 * Len(Meters) PROVE (i + 1) \div 2 \in 1 .. Len(Meters)
    BY <2>1
  <2>3. ASSUME NEW i \in 1 .. 2 * Len(Meters)
        PROVE MeterRequest(i) \in Frame
    BY <2>1, <2>2 DEF MeterRequest, FirstPart, Frame, Part, Type, Device, Meter
  <2>4. Requests(t) \in [1 .. 2 * Len(Meters) -> Frame]
    BY <1>1, <2>3, MeterRequests
  <2>5. 2 * Len(Meters) \in Nat
    BY <2>1
  <2>6. QED BY <2>4, <2>5, SeqDef
<1>2. CASE t # "METER"
  <2>1. Len(Others) \in Nat /\ DOMAIN Others = 1 .. Len(Others)
    BY BusAssumption DEF BusAssumption
  <2>2. ASSUME NEW i \in 1 .. Len(Others)
        PROVE [to |-> t, dev |-> Others[i], part |-> "state"] \in Frame
    BY <2>1 DEF Frame, Part, Device, Other
  <2>3. Requests(t) \in [1 .. Len(Others) -> Frame]
    BY <1>2, <2>2 DEF Requests
  <2>4. QED BY <2>1, <2>3, SeqDef
<1>3. QED BY <1>1, <1>2

-----------------------------------------------------------------------------

(* The bounds are numbers.                                                  *)
LEMMA Limits ==
  /\ BusLen \in Nat \ {0} /\ RespLen \in Nat \ {0} /\ TransLen \in Nat \ {0}
  /\ MaxSend \in Nat \ {0} /\ MaxCollect \in Nat /\ MaxNoise \in Nat /\ MaxStray \in Nat
BY BusAssumption DEF BusAssumption

(* The types of the bus, which waits while it has a request, and those of    *)
(* the answers and of what is decoded.                                      *)
BusType ==
  /\ todo \in [Type -> Seq(Frame)] /\ queue \in Seq(Frame) /\ Len(queue) <= BusLen
  /\ now \in Frame \cup {Nothing} /\ re_send_times \in 0 .. MaxSend - 1
  /\ loop \in {"take", "wait", "hci"} /\ (loop = "wait" <=> now # Nothing)
  /\ line \in Seq(Frame) /\ rx \in Frame \cup {Noise, Tool, Nothing}
  /\ collects \in 0 .. MaxCollect /\ noises \in 0 .. MaxNoise /\ strays \in 0 .. MaxStray
  /\ heard \in BOOLEAN /\ missed \in BOOLEAN

AnswerType ==
  /\ resp \in [Type -> Seq(Frame \cup {Tool})] /\ \A t \in Type : Len(resp[t]) <= RespLen
  /\ trans \in Seq(Frame \cup {Tool}) /\ Len(trans) <= TransLen

MeterType == [address : Meter \cup {Unread}, update : BOOLEAN,
              of : [Field -> Meter \cup {Unread}]]
ParaType == [Device -> [Field -> Device \cup {Unread}]]
DecodedType == meter_state \in MeterType /\ para \in ParaType

LEMMA TypeParts == BusType /\ AnswerType /\ DecodedType => TypeOK
BY Zenon DEF TypeOK, BusType, AnswerType, DecodedType, MeterType, ParaType

LEMMA TypeInit == Init => BusType /\ AnswerType /\ DecodedType
<1> SUFFICES ASSUME Init PROVE BusType /\ AnswerType /\ DecodedType
  OBVIOUS
<1>1. BusType
  <2>1. todo = [t \in Type |-> << >>]
    BY DEF Init
  <2>2. todo \in [Type -> Seq(Frame)]
    BY <2>1
  <2>3. /\ queue = << >> /\ now = Nothing /\ re_send_times = 0 /\ loop = "take"
        /\ line = << >> /\ rx = Nothing /\ collects = 0 /\ noises = 0 /\ strays = 0
    BY DEF Init
  <2>4. queue \in Seq(Frame) /\ Len(queue) <= BusLen /\ line \in Seq(Frame)
    BY <2>3, Limits
  <2>5. /\ re_send_times \in 0 .. MaxSend - 1 /\ collects \in 0 .. MaxCollect
        /\ noises \in 0 .. MaxNoise /\ strays \in 0 .. MaxStray
    BY <2>3, Limits
  <2>6. heard \in BOOLEAN /\ missed \in BOOLEAN
    BY Zenon DEF Init
  <2>7. QED BY <2>2, <2>3, <2>4, <2>5, <2>6 DEF BusType
<1>2. AnswerType
  <2>1. resp = [t \in Type |-> << >>] /\ trans = << >>
    BY DEF Init
  <2>2. QED BY <2>1, Limits DEF AnswerType
<1>3. DecodedType
  <2>1. meter_state = [address |-> Unread, of |-> [k \in Field |-> Unread], update |-> FALSE]
    BY Zenon DEF Init
  <2>2. para = [d \in Device |-> [k \in Field |-> Unread]]
    BY Zenon DEF Init
  <2>4. /\ [k \in Field |-> Unread] \in [Field -> Device \cup {Unread}]
        /\ [k \in Field |-> Unread] \in [Field -> Meter \cup {Unread}]
    OBVIOUS
  <2>3. meter_state \in MeterType
    BY <2>1, <2>4 DEF MeterType
  <2>5. para \in ParaType
    BY <2>2, <2>4 DEF ParaType
  <2>6. QED BY <2>3, <2>5 DEF DecodedType
<1>4. QED BY <1>1, <1>2, <1>3

(* What the frames write.                                                   *)
LEMMA WritesFields ==
  /\ \A p : Writes(p) \subseteq Field
  /\ Writes("values") = {"phases", "lines"}
  /\ Writes("energies") = {"energy", "reactive"}
  /\ Writes("loops") = {"phases", "energy", "rest"}
  /\ Writes("state") = {"state"}
BY DEF Writes, Field

(* A decoded frame gives the static record its type.                        *)
LEMMA AnalysisType ==
  ASSUME meter_state \in MeterType, NEW f, Understood("METER", f)
  PROVE  /\ f.dev \in Meter /\ f.part \in PartsOf(f.dev)
         /\ f.part \in {"values", "energies", "loops"}
         /\ f.part = "loops" <=> f.dev \in SixLoop
         /\ UpdateOf(f) <=> f.part = Completing(f.dev)
         /\ AnalysisMeter(f) \in MeterType
         /\ AnalysisMeter(f).address = f.dev
         /\ AnalysisMeter(f).update = (meter_state.update \/ UpdateOf(f))
         /\ \A k \in Field : AnalysisMeter(f).of[k] =
              IF k \in Writes(f.part) THEN f.dev ELSE meter_state.of[k]
<1> DEFINE of == [k \in Field |-> IF k \in Writes(f.part) THEN f.dev ELSE meter_state.of[k]]
<1>1. f.dev \in Meter /\ f.part \in PartsOf(f.dev)
  BY TypeOfDevice DEF Understood
<1>2. /\ f.part \in {"values", "energies", "loops"}
      /\ f.part = "loops" <=> f.dev \in SixLoop
      /\ UpdateOf(f) <=> f.part = Completing(f.dev)
  BY <1>1 DEF PartsOf, UpdateOf, Completing
<1>3. of \in [Field -> Meter \cup {Unread}]
  BY <1>1 DEF MeterType
<1>4. AnalysisMeter(f) = [address |-> f.dev, update |-> meter_state.update \/ UpdateOf(f),
                          of |-> of]
  BY Zenon DEF AnalysisMeter
<1>5. \A k \in Field : of[k] = IF k \in Writes(f.part) THEN f.dev ELSE meter_state.of[k]
  OBVIOUS
<1>6. (meter_state.update \/ UpdateOf(f)) \in BOOLEAN
  BY Zenon
<1> HIDE DEF of
<1>7. /\ AnalysisMeter(f) \in MeterType /\ AnalysisMeter(f).address = f.dev
      /\ AnalysisMeter(f).update = (meter_state.update \/ UpdateOf(f))
      /\ AnalysisMeter(f).of = of
  BY <1>1, <1>3, <1>4, <1>6 DEF MeterType
<1>8. QED BY <1>1, <1>2, <1>5, <1>7

(* What a copied record makes of each module.                               *)
LEMMA CopyType ==
  ASSUME para \in ParaType, NEW state \in MeterType, CopyMeter(state), NEW d \in Device
  PROVE  /\ para'[d] \in [Field -> Device \cup {Unread}]
         /\ para'[d] = IF SameAddress(d, state) THEN state.of ELSE para[d]
<1>1. para[d] \in [Field -> Device \cup {Unread}]
  BY DEF ParaType
<1>2. state.of \in [Field -> Device \cup {Unread}]
  BY DEF MeterType, Device
<1>3. para'[d] = IF SameAddress(d, state) THEN state.of ELSE para[d]
  BY DEF CopyMeter
<1>4. QED BY <1>1, <1>2, <1>3

-----------------------------------------------------------------------------
(* Each action keeps the types of the bus: the requests, ...                *)
LEMMA RequestStep ==
  ASSUME BusType,
         \/ \E t \in Type : CollectCurrentState(t) \/ Put(t)
         \/ \E f \in Transparent : TransparentTransmission(f)
  PROVE  BusType'
<1> USE DEF BusType
<1>1. ASSUME NEW t \in Type, CollectCurrentState(t) PROVE BusType'
  BY <1>1, RequestsType, Limits
     DEF CollectCurrentState, busVars
<1>2. ASSUME NEW t \in Type, Put(t) PROVE BusType'
  <2>1. Head(todo[t]) \in Frame /\ Tail(todo[t]) \in Seq(Frame)
    BY <1>2 DEF Put
  <2>2. todo' \in [Type -> Seq(Frame)]
    BY <1>2, <2>1 DEF Put
  <2>0. \/ Len(queue) < BusLen /\ queue' = Append(queue, Head(todo[t]))
        \/ UNCHANGED queue
    BY <1>2 DEF Put
  <2>7. queue \in Seq(Frame) /\ Len(queue) <= BusLen
    OBVIOUS
  <2>3. queue' \in Seq(Frame) /\ Len(queue') <= BusLen
    <3>1. CASE UNCHANGED queue
      BY <2>7, <3>1
    <3>2. CASE Len(queue) < BusLen /\ queue' = Append(queue, Head(todo[t]))
      BY <2>1, <2>7, <3>2, AppendProperties, Limits
    <3>3. QED BY <2>0, <3>1, <3>2
  <2>4. missed' \in BOOLEAN
    BY <1>2 DEF Put
  <2>5. UNCHANGED <<now, re_send_times, loop, line, rx, collects, noises, strays, heard>>
    BY <1>2 DEF Put, busVars, bound
  <2>6. QED BY <2>2, <2>3, <2>4, <2>5
<1>3. ASSUME NEW f \in Transparent, TransparentTransmission(f) PROVE BusType'
  <2>1. f \in Frame /\ f.to \in Type
    BY BusAssumption DEF BusAssumption, Frame
  <2>2. todo' \in [Type -> Seq(Frame)]
    BY <1>3, <2>1 DEF TransparentTransmission
  <2>3. missed' \in BOOLEAN
    BY <1>3 DEF TransparentTransmission
  <2>4. QED BY <1>3, <2>2, <2>3, Limits DEF TransparentTransmission, busVars
<1>4. QED BY <1>1, <1>2, <1>3

(* ... the exchange, ...                                                    *)
LEMMA BusStep == ASSUME BusType, BusTask PROVE BusType'
<1> USE DEF BusType
<1>1. CASE TakeAndSend
  <2>0. queue # << >> /\ now' = Head(queue) /\ queue' = Tail(queue)
    BY <1>1 DEF TakeAndSend
  <2>1. now' \in Frame /\ queue' \in Seq(Frame) /\ Len(queue') <= BusLen
    BY <2>0, Limits
  <2>2. \/ line' = line /\ heard' \in BOOLEAN
        \/ line' = Append(line, now') /\ heard' = TRUE
    BY <1>1, Zenon DEF TakeAndSend
  <2>6. line' \in Seq(Frame)
    <3>1. line \in Seq(Frame) /\ Append(line, now') \in Seq(Frame)
      BY <2>1, AppendProperties
    <3>2. QED BY <2>2, <3>1, Zenon
  <2>7. heard' \in BOOLEAN
    BY <2>2, Zenon
  <2>3. re_send_times' \in 0 .. MaxSend - 1 /\ loop' = "wait"
    BY <1>1, Limits DEF TakeAndSend
  <2>4. UNCHANGED <<todo, rx, collects, noises, strays, missed>>
    BY <1>1 DEF TakeAndSend, bound
  <2>5. QED BY <2>1, <2>3, <2>4, <2>6, <2>7, FramesAreOfDevices
<1>2. CASE NothingToSend
  BY <1>2 DEF NothingToSend, request, bound
<1>3. CASE Answered
  <2>1. missed' \in BOOLEAN
    BY <1>3 DEF Answered, Unanswered
  <2>2. /\ rx' = Nothing /\ now' = Nothing /\ re_send_times' = 0 /\ loop' = "hci"
        /\ UNCHANGED <<todo, queue, line, collects, noises, strays>>
    BY <1>3 DEF Answered, request, bound
  <2>3. heard' \in BOOLEAN
    BY <1>3, Zenon DEF Answered
  <2>4. re_send_times' \in 0 .. MaxSend - 1
    BY <2>2, Limits
  <2>5. QED BY <2>1, <2>2, <2>3, <2>4
<1>4. CASE TooShort
  BY <1>4 DEF TooShort, request, busVars, bound
<1>5. CASE TimeOut
  <2>1. strays' \in 0 .. MaxStray
    BY <1>5, Limits DEF TimeOut
  <2>2. UNCHANGED <<todo, queue, rx, collects, noises>> /\ loop = "wait"
    BY <1>5 DEF TimeOut, request
  <2>3. CASE Counted < MaxSend
    <3>1. re_send_times' = Counted /\ Transmit(now) /\ UNCHANGED <<now, loop, missed>>
      BY <1>5, <2>3 DEF TimeOut
    <3>2. re_send_times' \in 0 .. MaxSend - 1
      BY <3>1, <2>3, Limits DEF Counted
    <3>0. now \in Frame
      BY <2>2
    <3>6. line' = line \/ line' = Append(line, now)
      BY <3>1 DEF Transmit
    <3>3. line' \in Seq(Frame)
      <4>1. line \in Seq(Frame) /\ Append(line, now) \in Seq(Frame)
        BY <3>0, AppendProperties
      <4>2. QED BY <3>6, <4>1, Zenon
    <3>4. heard' \in BOOLEAN
      <4>1. heard' \in {heard, TRUE} \/ heard' = TRUE
        BY <3>1, Zenon DEF Transmit
      <4>2. QED BY <4>1, Zenon
    <3>5. QED BY <2>1, <2>2, <3>1, <3>2, <3>3, <3>4
  <2>4. CASE ~(Counted < MaxSend)
    <3>1. now' = Nothing /\ re_send_times' = 0 /\ loop' = "hci" /\ UNCHANGED line
      BY <1>5, <2>4 DEF TimeOut
    <3>2. missed' \in BOOLEAN
      BY <1>5, <2>4 DEF TimeOut, Unanswered
    <3>3. heard' \in BOOLEAN
      BY <1>5, <2>4, Zenon DEF TimeOut
    <3>4. re_send_times' \in 0 .. MaxSend - 1
      BY <3>1, Limits
    <3>5. QED BY <2>1, <2>2, <3>1, <3>2, <3>3, <3>4
  <2>5. QED BY <2>3, <2>4
<1>6. CASE RecvAnsAnalysisHCI_Frame
  BY <1>6 DEF RecvAnsAnalysisHCI_Frame, request, bound
<1>7. QED BY <1>1, <1>2, <1>3, <1>4, <1>5, <1>6 DEF BusTask

(* ... and the line.                                                        *)
LEMMA LineStep == ASSUME BusType, UART5_IRQHandler \/ NobodyAsked PROVE BusType'
<1> USE DEF BusType
<1>1. CASE UART5_IRQHandler
  BY <1>1 DEF UART5_IRQHandler, request, busVars, bound
<1>2. CASE NobodyAsked
  BY <1>2, Limits DEF NobodyAsked, request, busVars
<1>3. QED BY <1>1, <1>2

(* The rest of the actions leave all of that alone.                         *)
LEMMA DeviceStep ==
  ASSUME BusType, \/ ElectricityMeterRecvAndHandleDeviceFrame \/ OtherRecvAndHandleDeviceFrame
                  \/ TransmitToServer \/ UNCHANGED vars
  PROVE  BusType'
<1>1. UNCHANGED <<todo, queue, now, re_send_times, loop, line, rx, collects, noises, strays,
                  heard, missed>>
  BY DEF ElectricityMeterRecvAndHandleDeviceFrame, OtherRecvAndHandleDeviceFrame,
         TransmitToServer, vars, request, busVars, bound
<1>2. QED BY <1>1 DEF BusType

LEMMA BusTypeStep == BusType /\ [Next]_vars => BusType'
BY RequestStep, BusStep, LineStep, DeviceStep DEF Next

-----------------------------------------------------------------------------
(* The answers: each task takes one from its queue, ...                     *)
LEMMA TakeAnswer ==
  ASSUME AnswerType, NEW t \in Type, resp[t] # << >>, resp' = [resp EXCEPT ![t] = Tail(@)]
  PROVE  /\ resp' \in [Type -> Seq(Frame \cup {Tool})]
         /\ \A u \in Type : Len(resp'[u]) <= RespLen
         /\ Head(resp[t]) \in Frame \cup {Tool}
<1>1. resp[t] \in Seq(Frame \cup {Tool}) /\ Len(resp[t]) <= RespLen
  BY DEF AnswerType
<1>2. Tail(resp[t]) \in Seq(Frame \cup {Tool}) /\ Len(Tail(resp[t])) <= RespLen
      /\ Head(resp[t]) \in Frame \cup {Tool}
  BY <1>1, Limits
<1>3. QED BY <1>2 DEF AnswerType

(* ... and forwards it or not.                                              *)
LEMMA ForwardType ==
  ASSUME AnswerType, NEW f \in Frame \cup {Tool}, Forward(f) \/ UNCHANGED trans
  PROVE  trans' \in Seq(Frame \cup {Tool}) /\ Len(trans') <= TransLen
<1>1. trans \in Seq(Frame \cup {Tool}) /\ Len(trans) <= TransLen
  BY DEF AnswerType
<1>2. \/ Len(trans) < TransLen /\ trans' = Append(trans, f)
      \/ trans' = trans
  BY DEF Forward
<1>3. QED BY <1>1, <1>2, Limits

LEMMA AnswerStep ==
  ASSUME BusType, AnswerType, [Next]_vars
  PROVE  AnswerType'
<1>1. CASE UNCHANGED <<resp, trans>>
  BY <1>1 DEF AnswerType
<1>2. CASE Answered
  <2>1. rx \in Frame \cup {Tool} /\ now \in Frame
    BY <1>2 DEF Answered, LongEnough, BusType
  <2>2. now.to \in Type
    BY <2>1 DEF Frame
  <2>3. PICK t \in Type : \/ Len(resp[t]) < RespLen /\ resp' = [resp EXCEPT ![t] = Append(@, rx)]
                          \/ UNCHANGED resp
    BY <1>2, <2>2 DEF Answered
  <2>4. resp[t] \in Seq(Frame \cup {Tool})
    BY DEF AnswerType
  <2>5. /\ Append(resp[t], rx) \in Seq(Frame \cup {Tool})
        /\ Len(resp[t]) < RespLen => Len(Append(resp[t], rx)) <= RespLen
    BY <2>1, <2>4, Limits
  <2>6. resp' \in [Type -> Seq(Frame \cup {Tool})] /\ \A u \in Type : Len(resp'[u]) <= RespLen
    BY <2>3, <2>5 DEF AnswerType
  <2>7. UNCHANGED trans
    BY <1>2 DEF Answered, decoded
  <2>8. QED BY <2>6, <2>7 DEF AnswerType
<1>3. CASE ElectricityMeterRecvAndHandleDeviceFrame
  <2>1. /\ resp["METER"] # << >> /\ resp' = [resp EXCEPT !["METER"] = Tail(@)]
        /\ Forward(Head(resp["METER"])) \/ UNCHANGED trans
    BY <1>3 DEF ElectricityMeterRecvAndHandleDeviceFrame
  <2>2. "METER" \in Type
    BY DEF Type
  <2>3. QED BY <2>1, <2>2, TakeAnswer, ForwardType DEF AnswerType
<1>4. CASE OtherRecvAndHandleDeviceFrame
  <2>1. /\ resp["OTHER"] # << >> /\ resp' = [resp EXCEPT !["OTHER"] = Tail(@)]
        /\ Forward(Head(resp["OTHER"])) \/ UNCHANGED trans
    BY <1>4 DEF OtherRecvAndHandleDeviceFrame
  <2>2. "OTHER" \in Type
    BY DEF Type
  <2>3. QED BY <2>1, <2>2, TakeAnswer, ForwardType DEF AnswerType
<1>5. CASE TransmitToServer
  <2>1. trans # << >> /\ trans' = Tail(trans) /\ UNCHANGED resp
    BY <1>5 DEF TransmitToServer
  <2>2. trans' \in Seq(Frame \cup {Tool}) /\ Len(trans') <= TransLen
    BY <2>1, Limits DEF AnswerType
  <2>3. QED BY <2>1, <2>2 DEF AnswerType
<1>6. QED
  BY <1>1, <1>2, <1>3, <1>4, <1>5
     DEF Next, BusTask, vars, decoded, CollectCurrentState, Put, TransparentTransmission,
         TakeAndSend, NothingToSend, TooShort, TimeOut, RecvAnsAnalysisHCI_Frame,
         UART5_IRQHandler, NobodyAsked

-----------------------------------------------------------------------------
(* Whose values: the static record waits for nothing between two answers,   *)
(* so that the energies copied are those of the answer that sets update.    *)
(* The two fields of a first part of a meter are of one meter.              *)
OneFirstPart == meter_state.of["phases"] \notin SixLoop =>
                  meter_state.of["lines"] = meter_state.of["phases"]
DecodedInv == DecodedType /\ meter_state.update = FALSE /\ OneFirstPart /\ OwnAnswersOnly

LEMMA DecodedInit == Init => DecodedInv
<1> SUFFICES ASSUME Init PROVE DecodedInv
  OBVIOUS
<1>1. meter_state = [address |-> Unread, of |-> [k \in Field |-> Unread], update |-> FALSE]
  BY Zenon DEF Init
<1>2. para = [d \in Device |-> [k \in Field |-> Unread]]
  BY Zenon DEF Init
<1>3. meter_state.update = FALSE
  BY <1>1
<1>4. OwnAnswersOnly
  <2>1. ASSUME NEW d \in Device, NEW k \in Writes(Completing(d)) PROVE k \in Field
    BY WritesFields
  <2>2. QED BY <1>2, <2>1 DEF OwnAnswersOnly
<1>5. OneFirstPart
  BY <1>1 DEF OneFirstPart, Field
<1>6. QED BY <1>3, <1>4, <1>5, TypeInit DEF DecodedInv

LEMMA MeterDecodes ==
  ASSUME AnswerType, DecodedInv, ElectricityMeterRecvAndHandleDeviceFrame
  PROVE  DecodedInv'
<1> DEFINE f == Head(resp["METER"])
           state == AnalysisMeter(f)
<1>1. CASE Understood("METER", f)
  <2>1. meter_state' = [state EXCEPT !.update = FALSE]
        /\ IF state.update THEN CopyMeter(state) ELSE UNCHANGED para
    BY <1>1 DEF ElectricityMeterRecvAndHandleDeviceFrame
  <2>2. /\ f.dev \in Meter /\ state \in MeterType /\ state.address = f.dev
        /\ f.part \in {"values", "energies", "loops"}
        /\ f.part = "loops" <=> f.dev \in SixLoop
        /\ UpdateOf(f) <=> f.part = Completing(f.dev)
        /\ state.update = (meter_state.update \/ UpdateOf(f))
        /\ \A k \in Field :
             state.of[k] = IF k \in Writes(f.part) THEN f.dev ELSE meter_state.of[k]
    BY <1>1, AnalysisType DEF DecodedInv, DecodedType
  <2>3. meter_state' \in MeterType /\ meter_state'.update = FALSE /\ meter_state'.of = state.of
    BY <2>1, <2>2 DEF MeterType
  <2>7. OneFirstPart'
    <3>1. "phases" \in Field /\ "lines" \in Field
      BY DEF Field
    <3>2. CASE f.part = "energies"
      BY <2>2, <2>3, <3>1, <3>2, WritesFields DEF DecodedInv, OneFirstPart
    <3>3. CASE f.part = "values"
      BY <2>2, <2>3, <3>1, <3>3, WritesFields DEF OneFirstPart
    <3>4. CASE f.part = "loops"
      BY <2>2, <2>3, <3>1, <3>4, WritesFields DEF OneFirstPart
    <3>5. QED BY <2>2, <3>2, <3>3, <3>4
  <2>4. CASE state.update
    <3>1. CopyMeter(state) /\ f.part = Completing(f.dev)
      BY <2>1, <2>2, <2>4 DEF DecodedInv
    <3>2. ASSUME NEW d \in Device
          PROVE  /\ para'[d] \in [Field -> Device \cup {Unread}]
                 /\ \A k \in Writes(Completing(d)) : para'[d][k] \in {Unread, d}
      <4>1. /\ para'[d] \in [Field -> Device \cup {Unread}]
            /\ para'[d] = IF SameAddress(d, state) THEN state.of ELSE para[d]
        BY <2>2, <3>1, CopyType DEF DecodedInv, DecodedType
      <4>2. SameAddress(d, state) => d = f.dev
        BY <2>2 DEF SameAddress
      <4>3. ASSUME NEW k \in Writes(Completing(d)) PROVE para'[d][k] \in {Unread, d}
        <5>1. k \in Field
          BY WritesFields
        <5>2. para[d][k] \in {Unread, d}
          BY DEF DecodedInv, OwnAnswersOnly
        <5>3. SameAddress(d, state) => state.of[k] = d
          BY <2>2, <3>1, <4>2, <5>1
        <5>4. QED BY <4>1, <5>2, <5>3
      <4>4. QED BY <4>1, <4>3
    <3>3. para' \in ParaType
      BY <3>1, <3>2 DEF CopyMeter, ParaType
    <3>5. OwnAnswersOnly'
      BY <3>2 DEF OwnAnswersOnly
    <3>4. QED BY <2>3, <2>7, <3>3, <3>5 DEF DecodedInv, DecodedType
  <2>5. CASE ~state.update
    <3>1. UNCHANGED para
      BY <2>1, <2>5
    <3>2. QED BY <2>3, <2>7, <3>1 DEF DecodedInv, DecodedType, OwnAnswersOnly
  <2>6. QED BY <2>4, <2>5
<1>2. CASE ~Understood("METER", f)
  <2>1. UNCHANGED <<meter_state, para>>
    BY <1>2 DEF ElectricityMeterRecvAndHandleDeviceFrame
  <2>2. QED BY <2>1 DEF DecodedInv, DecodedType, OneFirstPart, OwnAnswersOnly
<1>3. QED BY <1>1, <1>2

LEMMA OtherDecodes ==
  ASSUME AnswerType, DecodedInv, OtherRecvAndHandleDeviceFrame
  PROVE  DecodedInv'
<1> DEFINE f == Head(resp["OTHER"])
<1>0. UNCHANGED meter_state
  BY DEF OtherRecvAndHandleDeviceFrame
<1>1. CASE Understood("OTHER", f)
  <2>1. f.dev \in Device /\ para' = [para EXCEPT ![f.dev].state = f.dev]
    BY <1>1 DEF OtherRecvAndHandleDeviceFrame, Understood
  <2>2. ASSUME NEW d \in Device
        PROVE  /\ para'[d] \in [Field -> Device \cup {Unread}]
               /\ \A k \in Field : para'[d][k] \in {para[d][k], d}
    <3>1. para[d] \in [Field -> Device \cup {Unread}]
      BY DEF DecodedInv, DecodedType, ParaType
    <3>2. para'[d] = IF d = f.dev THEN [para[d] EXCEPT !.state = f.dev] ELSE para[d]
      BY <2>1 DEF DecodedInv, DecodedType, ParaType
    <3>3. QED BY <2>1, <3>1, <3>2
  <2>3. para' \in ParaType
    BY <2>1, <2>2 DEF DecodedInv, DecodedType, ParaType
  <2>4. OwnAnswersOnly'
    <3>1. ASSUME NEW d \in Device, NEW k \in Writes(Completing(d)) PROVE k \in Field
      BY WritesFields
    <3>2. QED BY <2>2, <3>1 DEF DecodedInv, OwnAnswersOnly
  <2>5. QED BY <1>0, <2>3, <2>4 DEF DecodedInv, DecodedType, OneFirstPart
<1>2. CASE ~Understood("OTHER", f)
  <2>1. UNCHANGED para
    BY <1>2 DEF OtherRecvAndHandleDeviceFrame
  <2>2. QED BY <1>0, <2>1 DEF DecodedInv, DecodedType, OneFirstPart, OwnAnswersOnly
<1>3. QED BY <1>1, <1>2

LEMMA DecodedStep == AnswerType /\ DecodedInv /\ [Next]_vars => DecodedInv'
<1> SUFFICES ASSUME AnswerType, DecodedInv, [Next]_vars PROVE DecodedInv'
  OBVIOUS
<1>1. CASE UNCHANGED <<meter_state, para>>
  BY <1>1 DEF DecodedInv, DecodedType, OneFirstPart, OwnAnswersOnly
<1>2. QED
  BY <1>1, MeterDecodes, OtherDecodes
     DEF Next, BusTask, vars, decoded, CollectCurrentState, Put, TransparentTransmission,
         TakeAndSend, NothingToSend, Answered, TooShort, TimeOut, RecvAnsAnalysisHCI_Frame,
         UART5_IRQHandler, NobodyAsked, TransmitToServer

-----------------------------------------------------------------------------
(* The types hold in every state, for any devices and queues.               *)
THEOREM TypeCorrect == Spec => []TypeOK
<1>1. Init => BusType /\ AnswerType /\ DecodedInv
  BY TypeInit, DecodedInit
<1>2. BusType /\ AnswerType /\ DecodedInv /\ [Next]_vars => (BusType /\ AnswerType /\ DecodedInv)'
  BY BusTypeStep, AnswerStep, DecodedStep
<1>3. BusType /\ AnswerType /\ DecodedInv => TypeOK
  BY TypeParts DEF DecodedInv
<1>4. QED BY <1>1, <1>2, <1>3, PTL DEF Spec

(* Whatever answer closes whose exchange and whatever the server reads, a   *)
(* module never shows another's energies, loops or state: a frame that sets *)
(* update in AnalysisBuiltOutElectricityMeterFrame has set the address that *)
(* ElectricityMeterRecvAndHandleDeviceFrame copies to.                      *)
THEOREM OwnAnswersAlways == Spec => []OwnAnswersOnly
<1>1. Init => BusType /\ AnswerType /\ DecodedInv
  BY TypeInit, DecodedInit
<1>2. BusType /\ AnswerType /\ DecodedInv /\ [Next]_vars => (BusType /\ AnswerType /\ DecodedInv)'
  BY BusTypeStep, AnswerStep, DecodedStep
<1>3. DecodedInv => OwnAnswersOnly
  BY DEF DecodedInv
<1>4. QED BY <1>1, <1>2, <1>3, PTL DEF Spec

-----------------------------------------------------------------------------
(* With nothing late and no tool on the bus, what is under way is at most   *)
(* the answer to the request just heard.                                    *)
Awaited ==
  /\ rx # Tool
  /\ line # << >> => Tail(line) = << >> /\ rx \notin Frame
  /\ line # << >> \/ rx \in Frame => loop = "wait" /\ heard = TRUE

HeardInv == strays = 0 => Awaited

LEMMA HeardInit == Init => HeardInv
BY FramesAreOfDevices DEF Init, HeardInv, Awaited

(* A transmission puts the only answer on the line.                         *)
LEMMA OneAnswer ==
  ASSUME NEW f \in Frame, line = << >>, rx \notin Frame, rx # Tool, UNCHANGED rx,
         loop' = "wait", line' = line \/ (line' = Append(line, f) /\ heard' = TRUE)
  PROVE  Awaited'
<1>1. CASE line' = line
  BY <1>1 DEF Awaited
<1>2. CASE line' = Append(line, f) /\ heard' = TRUE
  <2>1. Tail(line') = << >>
    BY <1>2
  <2>2. QED BY <1>2, <2>1 DEF Awaited
<1>3. QED BY <1>1, <1>2

LEMMA HeardStep == BusType /\ HeardInv /\ [Next]_vars => HeardInv'
<1> SUFFICES ASSUME BusType, HeardInv, [Next]_vars, strays' = 0 PROVE Awaited'
  BY DEF HeardInv
<1>1. CASE strays # 0
  <2>1. UNCHANGED strays \/ strays' = strays + 1
    BY <1>1, Limits
       DEF BusType, Next, BusTask, vars, bound, CollectCurrentState, Put, TransparentTransmission,
           TakeAndSend, NothingToSend, Answered, TooShort, TimeOut, RecvAnsAnalysisHCI_Frame,
           UART5_IRQHandler, NobodyAsked, ElectricityMeterRecvAndHandleDeviceFrame,
           OtherRecvAndHandleDeviceFrame, TransmitToServer
  <2>2. strays \in Nat
    BY Limits DEF BusType
  <2>3. QED BY <1>1, <2>1, <2>2
<1>2. CASE strays = 0
  <2>0. Awaited
    BY <1>2 DEF HeardInv
  <2>1. CASE UNCHANGED <<line, rx, loop, heard>>
    BY <2>0, <2>1 DEF Awaited
  <2>2. CASE TakeAndSend
    <3>1. line = << >> /\ rx \notin Frame /\ rx # Tool
      BY <2>0, <2>2 DEF TakeAndSend, Awaited
    <3>2. queue # << >> /\ now' = Head(queue) /\ loop' = "wait" /\ UNCHANGED rx
      BY <2>2 DEF TakeAndSend
    <3>3. now' \in Frame
      BY <3>2 DEF BusType
    <3>4. line' = line \/ (line' = Append(line, now') /\ heard' = TRUE)
      BY <2>2, Zenon DEF TakeAndSend
    <3>5. QED BY <3>1, <3>2, <3>3, <3>4, OneAnswer, Zenon
  <2>3. CASE NothingToSend
    BY <2>0, <2>3 DEF NothingToSend, Awaited
  <2>4. CASE Answered
    <3>1. rx \in Frame
      BY <2>0, <2>4 DEF Answered, LongEnough, BusType, Awaited
    <3>2. line' = << >> /\ rx' = Nothing
      BY <2>0, <2>4, <3>1 DEF Answered, Awaited
    <3>3. QED BY <3>2, FramesAreOfDevices DEF Awaited
  <2>5. CASE TooShort
    <3>1. rx' = Nothing /\ UNCHANGED <<line, loop, heard>>
      BY <2>5 DEF TooShort, busVars
    <3>2. QED BY <2>0, <3>1, FramesAreOfDevices DEF Awaited
  <2>6. CASE TimeOut
    <3>1. loop = "wait" /\ rx = Nothing /\ UNCHANGED rx
      BY <2>6 DEF TimeOut
    <3>2. line = << >>
      BY <1>2, <2>6 DEF TimeOut
    <3>3. CASE Counted < MaxSend
      <4>1. Transmit(now) /\ loop' = loop /\ now \in Frame
        BY <2>6, <3>1, <3>3 DEF TimeOut, BusType
      <4>2. line' = line \/ (line' = Append(line, now) /\ heard' = TRUE)
        BY <4>1, Zenon DEF Transmit
      <4>3. rx \notin Frame /\ rx # Tool /\ loop' = "wait"
        BY <3>1, <4>1, FramesAreOfDevices
      <4>4. QED BY <3>1, <3>2, <4>1, <4>2, <4>3, OneAnswer, Zenon
    <3>4. CASE ~(Counted < MaxSend)
      <4>1. UNCHANGED line
        BY <2>6, <3>4 DEF TimeOut
      <4>2. QED BY <3>1, <3>2, <4>1, FramesAreOfDevices DEF Awaited
    <3>5. QED BY <3>3, <3>4
  <2>7. CASE RecvAnsAnalysisHCI_Frame
    <3>1. loop = "hci" /\ rx' = Nothing /\ UNCHANGED line
      BY <2>7 DEF RecvAnsAnalysisHCI_Frame
    <3>2. line = << >>
      BY <2>0, <3>1 DEF Awaited
    <3>3. QED BY <3>1, <3>2, FramesAreOfDevices DEF Awaited
  <2>8. CASE UART5_IRQHandler
    <3>1. line # << >> /\ rx' = Head(line) /\ line' = Tail(line) /\ UNCHANGED <<loop, heard>>
      BY <2>8 DEF UART5_IRQHandler, busVars
    <3>2. Head(line) \in Frame /\ Tail(line) = << >>
      BY <2>0, <3>1 DEF BusType, Awaited
    <3>3. loop = "wait" /\ heard = TRUE
      BY <2>0, <3>1 DEF Awaited
    <3>4. QED BY <3>1, <3>2, <3>3, FramesAreOfDevices DEF Awaited
  <2>9. CASE NobodyAsked
    <3>1. UNCHANGED <<line, loop, heard>>
      BY <2>9 DEF NobodyAsked, busVars
    <3>2. rx' = Noise
      BY <1>2, <2>9 DEF NobodyAsked
    <3>3. QED BY <2>0, <3>1, <3>2, FramesAreOfDevices DEF Awaited
  <2>10. QED
    BY <2>1, <2>2, <2>3, <2>4, <2>5, <2>6, <2>7, <2>8, <2>9
       DEF Next, BusTask, vars, busVars, CollectCurrentState, Put, TransparentTransmission,
           ElectricityMeterRecvAndHandleDeviceFrame, OtherRecvAndHandleDeviceFrame,
           TransmitToServer
<1>3. QED BY <1>1, <1>2

(* An exchange ends with a frame or with its last transmission.             *)
LEMMA EndsHeardStep ==
  BusType /\ HeardInv /\ [Next]_vars =>
    ((now # Nothing /\ now' = Nothing /\ re_send_times < MaxSend - 1 /\ strays = 0) => heard)
<1> SUFFICES ASSUME BusType, HeardInv, [Next]_vars, now # Nothing, now' = Nothing,
                    re_send_times < MaxSend - 1, strays = 0
             PROVE  heard = TRUE
  BY Zenon DEF BusType
<1>1. CASE Answered
  <2>1. rx \in Frame
    BY <1>1 DEF Answered, LongEnough, BusType, HeardInv, Awaited
  <2>2. QED BY <2>1 DEF HeardInv, Awaited
<1>2. CASE TimeOut
  <2>1. ~(Counted < MaxSend)
    BY <1>2 DEF TimeOut
  <2>2. QED BY <2>1, Limits DEF Counted, BusType
<1>3. CASE TakeAndSend
  BY <1>3 DEF TakeAndSend, BusType
<1>4. QED
  BY <1>1, <1>2, <1>3
     DEF Next, BusTask, vars, busVars, CollectCurrentState, Put, TransparentTransmission,
         NothingToSend, TooShort, RecvAnsAnalysisHCI_Frame, UART5_IRQHandler, NobodyAsked,
         ElectricityMeterRecvAndHandleDeviceFrame, OtherRecvAndHandleDeviceFrame,
         TransmitToServer

(* As long as nothing arrives late, an exchange ends before its last        *)
(* transmission only if the device heard the request: a byte of noise,      *)
(* shorter than Usart5FrameLen >= 2, ends none.                             *)
THEOREM EndsAlwaysHeard == Spec => EndsHeard
<1>1. Init => BusType /\ HeardInv
  BY TypeInit, HeardInit
<1>2. BusType /\ HeardInv /\ [Next]_vars => (BusType /\ HeardInv)'
  BY BusTypeStep, HeardStep
<1>3. BusType /\ HeardInv /\ [Next]_vars =>
        [(now # Nothing /\ now' = Nothing /\ re_send_times < MaxSend - 1 /\ strays = 0) => heard]_vars
  BY EndsHeardStep
<1>4. QED BY <1>1, <1>2, <1>3, PTL DEF Spec, EndsHeard

-----------------------------------------------------------------------------
(* The parts of a meter come in pairs.  Which first part an energies frame  *)
(* belongs to is told by a walk along a queue: Leads(d, s, e) says that     *)
(* after the first part of d, every energies frame of s follows the first   *)
(* part of its own meter, and that e is the module whose first part came    *)
(* last.                                                                    *)
Address == Device \cup {Unread}
MeterPart == {"values", "energies", "loops"}

Latest(d, f) == IF f.part \in First THEN f.dev ELSE d
Follows(d, f) == f.part = "energies" => f.dev = d

Leads(d, s, e) ==
  \E w \in [0 .. Len(s) -> Address] :
    /\ w[0] = d /\ w[Len(s)] = e
    /\ \A i \in 1 .. Len(s) : w[i] = Latest(w[i - 1], s[i]) /\ Follows(w[i - 1], s[i])

(* Along an empty queue nothing changes, ...                                *)
LEMMA LeadsNowhere ==
  ASSUME NEW d \in Address
  PROVE  Leads(d, << >>, d) /\ \A e \in Address : Leads(d, << >>, e) => e = d
<1>1. Leads(d, << >>, d)
  <2> DEFINE w == [i \in 0 .. 0 |-> d]
  <2>1. Len(<< >>) = 0 /\ w \in [0 .. 0 -> Address] /\ w[0] = d
    OBVIOUS
  <2> HIDE DEF w
  <2>2. \A i \in 1 .. 0 : FALSE
    OBVIOUS
  <2>3. /\ w \in [0 .. Len(<< >>) -> Address] /\ w[0] = d /\ w[Len(<< >>)] = d
        /\ \A i \in 1 .. Len(<< >>) :
             w[i] = Latest(w[i - 1], << >>[i]) /\ Follows(w[i - 1], << >>[i])
    BY <2>1, <2>2
  <2>4. QED BY <2>3 DEF Leads
<1>2. ASSUME NEW e \in Address, Leads(d, << >>, e) PROVE e = d
  BY <1>2 DEF Leads
<1>3. QED BY <1>1, <1>2

(* ... a frame put behind it moves its end, ...                             *)
LEMMA LeadsAppend ==
  ASSUME NEW S, NEW s \in Seq(S), NEW f \in S, NEW d \in Address, NEW e \in Address,
         Leads(d, s, e), Follows(e, f), Latest(e, f) \in Address
  PROVE  Leads(d, Append(s, f), Latest(e, f))
<1> DEFINE t == Append(s, f)
<1>1. PICK w \in [0 .. Len(s) -> Address] :
        /\ w[0] = d /\ w[Len(s)] = e
        /\ \A i \in 1 .. Len(s) : w[i] = Latest(w[i - 1], s[i]) /\ Follows(w[i - 1], s[i])
  BY DEF Leads
<1> DEFINE v == [i \in 0 .. Len(t) |-> IF i <= Len(s) THEN w[i] ELSE Latest(e, f)]
<1>2. /\ Len(s) \in Nat /\ Len(t) = Len(s) + 1
      /\ \A i \in 1 .. Len(s) : t[i] = s[i]
      /\ t[Len(s) + 1] = f
  OBVIOUS
<1>3. v \in [0 .. Len(t) -> Address]
  BY <1>1, <1>2
<1>4. v[0] = d /\ v[Len(t)] = Latest(e, f)
  BY <1>1, <1>2
<1>5. ASSUME NEW i \in 1 .. Len(t)
      PROVE  v[i] = Latest(v[i - 1], t[i]) /\ Follows(v[i - 1], t[i])
  <2>1. CASE i <= Len(s)
    <3>1. i \in 1 .. Len(s) /\ v[i] = w[i] /\ v[i - 1] = w[i - 1] /\ t[i] = s[i]
      BY <1>2, <2>1
    <3>2. QED BY <1>1, <3>1
  <2>2. CASE i = Len(s) + 1
    <3>1. v[i] = Latest(e, f) /\ v[i - 1] = e /\ t[i] = f
      BY <1>1, <1>2, <2>2
    <3>2. QED BY <3>1
  <2>3. QED BY <1>2, <2>1, <2>2
<1> HIDE DEF v, t
<1>6. QED BY <1>3, <1>4, <1>5 DEF Leads, t

(* ... and its first frame is right after what came before.                 *)
LEMMA LeadsTail ==
  ASSUME NEW S, NEW s \in Seq(S), s # << >>, NEW d \in Address, NEW e \in Address,
         Leads(d, s, e)
  PROVE  /\ Follows(d, Head(s)) /\ Latest(d, Head(s)) \in Address
         /\ Leads(Latest(d, Head(s)), Tail(s), e)
<1> DEFINE t == Tail(s)
<1>1. PICK w \in [0 .. Len(s) -> Address] :
        /\ w[0] = d /\ w[Len(s)] = e
        /\ \A i \in 1 .. Len(s) : w[i] = Latest(w[i - 1], s[i]) /\ Follows(w[i - 1], s[i])
  BY DEF Leads
<1>2. /\ Len(s) \in Nat /\ Len(s) >= 1 /\ Len(t) = Len(s) - 1 /\ Head(s) = s[1]
      /\ \A i \in 1 .. Len(t) : t[i] = s[i + 1]
  OBVIOUS
<1>3. w[1] = Latest(d, Head(s)) /\ Follows(d, Head(s)) /\ w[1] \in Address
  BY <1>1, <1>2
<1> DEFINE v == [i \in 0 .. Len(t) |-> w[i + 1]]
<1>4. v \in [0 .. Len(t) -> Address]
  BY <1>1, <1>2
<1>5. v[0] = Latest(d, Head(s)) /\ v[Len(t)] = e
  BY <1>1, <1>2, <1>3
<1>6. ASSUME NEW i \in 1 .. Len(t)
      PROVE  v[i] = Latest(v[i - 1], t[i]) /\ Follows(v[i - 1], t[i])
  <2>1. i + 1 \in 1 .. Len(s) /\ t[i] = s[i + 1] /\ v[i] = w[i + 1] /\ v[i - 1] = w[i]
    BY <1>2
  <2>2. w[i + 1] = Latest(w[i + 1 - 1], s[i + 1]) /\ Follows(w[i + 1 - 1], s[i + 1])
    BY <1>1, <2>1
  <2>3. i + 1 - 1 = i
    OBVIOUS
  <2>4. QED BY <2>1, <2>2, <2>3
<1> HIDE DEF v, t
<1>7. QED BY <1>3, <1>4, <1>5, <1>6 DEF Leads, t

(* The requests of a round are in pairs, whatever was asked before.         *)
LEMMA RoundLeads ==
  ASSUME NEW d \in Address
  PROVE  \E e \in Address : Leads(d, Requests("METER"), e)
<1> DEFINE s == Requests("METER")
           w == [i \in 0 .. 2 * Len(Meters) |-> IF i = 0 THEN d ELSE Meters[(i + 1) \div 2]]
<1>1. Len(Meters) \in Nat /\ DOMAIN Meters = 1 .. Len(Meters)
  BY BusAssumption DEF BusAssumption
<1>2. s = [i \in 1 .. 2 * Len(Meters) |-> MeterRequest(i)]
  BY MeterRequests
<1>3. Len(s) = 2 * Len(Meters)
  <2>1. s \in Seq(Frame) /\ DOMAIN s = 1 .. 2 * Len(Meters)
    BY <1>2, RequestsType DEF Type
  <2>2. DOMAIN s = 1 .. Len(s) /\ Len(s) \in Nat
    BY <2>1
  <2>3. QED BY <1>1, <2>1, <2>2
<1>4. w \in [0 .. Len(s) -> Address]
  <2>1. ASSUME NEW i \in 1 .. 2 * Len(Meters) PROVE Meters[(i + 1) \div 2] \in Address
    <3>1. (i + 1) \div 2 \in 1 .. Len(Meters)
      BY <1>1
    <3>2. QED BY <1>1, <3>1 DEF Address, Device, Meter
  <2>2. QED BY <1>1, <1>3, <2>1
<1>5. ASSUME NEW i \in 1 .. Len(s)
      PROVE  w[i] = Latest(w[i - 1], s[i]) /\ Follows(w[i - 1], s[i])
  <2>1. /\ i \in 1 .. 2 * Len(Meters) /\ w[i] = Meters[(i + 1) \div 2]
        /\ s[i].dev = Meters[(i + 1) \div 2]
        /\ i % 2 = 0 => s[i].part = "energies"
        /\ i % 2 # 0 => s[i].part \in First
    BY <1>1, <1>2, <1>3 DEF MeterRequest, FirstPart, First
  <2>2. CASE i % 2 # 0
    BY <2>1, <2>2 DEF Latest, Follows, First
  <2>3. CASE i % 2 = 0
    <3>1. i - 1 \in 1 .. 2 * Len(Meters) /\ (i - 1 + 1) \div 2 = (i + 1) \div 2
      BY <1>1, <2>1, <2>3
    <3>2. w[i - 1] = Meters[(i + 1) \div 2]
      BY <1>1, <3>1
    <3>3. QED BY <2>1, <2>3, <3>2 DEF Latest, Follows, First
  <2>4. QED BY <2>2, <2>3
<1>6. w[0] = d
  BY <1>1
<1> HIDE DEF w, s
<1>9. w[Len(s)] \in Address
  BY <1>1, <1>3, <1>4
<1>7. Leads(d, s, w[Len(s)])
  BY <1>4, <1>5, <1>6 DEF Leads
<1>8. QED BY <1>7, <1>9 DEF s

-----------------------------------------------------------------------------
(* While nothing was missed, the parts of a meter are only ever asked of a  *)
(* meter that answers them, and by the task of the meters.                  *)
MeterFrame ==
  {f \in Frame : f.part \in MeterPart =>
                   /\ f.dev \in Meter /\ f.to = "METER"
                   /\ f.part \in First => f.part \in PartsOf(f.dev)}
OtherFrame == {f \in Frame : f.part \notin MeterPart}

OwnParts ==
  /\ todo["METER"] \in Seq(MeterFrame) /\ todo["OTHER"] \in Seq(OtherFrame)
  /\ queue \in Seq(MeterFrame) /\ now \in MeterFrame \cup {Nothing}
  /\ line \in Seq(MeterFrame) /\ rx \in MeterFrame \cup {Noise, Tool, Nothing}
  /\ resp["METER"] \in Seq(MeterFrame \cup {Tool})

(* While no first part was missed, let c be the module whose first part was *)
(* accepted last.  What is older on the line is of c; only the exchange     *)
(* under way adds to it, at its end.                                        *)
Old(c, f) == f.part \in MeterPart => f.dev = c

InOrder(c) ==
  /\ \A i, j \in DOMAIN line : i <= j => Old(c, line[i]) \/ line[j] = now
  /\ Old(c, rx) \/ (rx = now /\ \A j \in DOMAIN line : line[j] = now)

(* The first part in the static record, those in the queue of answers, that *)
(* under way, and the requests still to be sent and to be put: all of them  *)
(* in pairs.                                                                *)
Paired(c, q) ==
  /\ Leads(meter_state.of["phases"], resp["METER"], c)
  /\ Follows(c, now)
  /\ Leads(Latest(c, now), queue, q)
  /\ \E e \in Address : Leads(q, todo["METER"], e)
  /\ InOrder(c)

MeterFields == Writes("values") \cup Writes("energies")
Whole == \A d \in Meter \ SixLoop : \A k \in MeterFields : para[d][k] = para[d].energy

PartsInv == ~missed => OwnParts
WholeInv == ~missed => Whole /\ \E c, q \in Address : Paired(c, q)

LEMMA PartsInit == Init => PartsInv
BY DEF Init, PartsInv, OwnParts, Type

LEMMA WholeInit == Init => WholeInv
<1> SUFFICES ASSUME Init PROVE Whole /\ Paired(Unread, Unread)
  BY DEF WholeInv, Address
<1>1. meter_state = [address |-> Unread, of |-> [k \in Field |-> Unread], update |-> FALSE]
  BY Zenon DEF Init
<1>2. para = [d \in Device |-> [k \in Field |-> Unread]]
  BY Zenon DEF Init
<1>3. /\ todo["METER"] = << >> /\ queue = << >> /\ line = << >> /\ resp["METER"] = << >>
      /\ now = Nothing /\ rx = Nothing
  BY DEF Init, Type
<1>4. Whole
  <2>1. MeterFields \subseteq Field /\ "energy" \in Field
    BY WritesFields DEF MeterFields, Field
  <2>2. QED BY <1>2, <2>1 DEF Whole, Device
<1>5. Unread \in Address /\ Leads(Unread, << >>, Unread)
  BY LeadsNowhere DEF Address
<1>6. Follows(Unread, Nothing) /\ Latest(Unread, Nothing) = Unread /\ Old(Unread, Nothing)
  BY DEF Follows, Latest, First, Old, Nothing, MeterPart
<1>7. InOrder(Unread)
  BY <1>3, <1>6 DEF InOrder
<1>8. meter_state.of["phases"] = Unread
  BY <1>1 DEF Field
<1>9. QED BY <1>3, <1>4, <1>5, <1>6, <1>7, <1>8 DEF Paired

(* A round asks a meter for its parts and another device for its state.     *)
LEMMA RoundParts ==
  Requests("METER") \in Seq(MeterFrame) /\ Requests("OTHER") \in Seq(OtherFrame)
<1>1. Len(Meters) \in Nat /\ DOMAIN Meters = 1 .. Len(Meters)
  BY BusAssumption DEF BusAssumption
<1>2. Len(Others) \in Nat /\ DOMAIN Others = 1 .. Len(Others)
  BY BusAssumption DEF BusAssumption
<1>3. Requests("METER") \in Seq(MeterFrame)
  <2>1. ASSUME NEW i \in 1 .. 2 * Len(Meters)
        PROVE MeterRequest(i) \in MeterFrame
    <3>1. (i + 1) \div 2 \in 1 .. Len(Meters)
      BY <1>1
    <3>2. Meters[(i + 1) \div 2] \in Meter
      BY <1>1, <3>1 DEF Meter
    <3>3. PICK d \in Meter : d = Meters[(i + 1) \div 2]
      BY <3>2
    <3>4. MeterRequest(i) = [to |-> "METER", dev |-> d,
                             part |-> IF i % 2 = 0 THEN "energies" ELSE FirstPart(d)]
      BY <3>3 DEF MeterRequest
    <3>5. FirstPart(d) \in PartsOf(d) /\ FirstPart(d) \in Part
      BY DEF FirstPart, PartsOf, Part
    <3>6. "METER" \in Type /\ d \in Device /\ "energies" \in Part /\ "energies" \notin First
      BY DEF Type, Device, Part, First
    <3>7. QED BY <3>4, <3>5, <3>6 DEF MeterFrame, Frame
  <2>2. Requests("METER") \in [1 .. 2 * Len(Meters) -> MeterFrame]
    BY <2>1, MeterRequests
  <2>3. 2 * Len(Meters) \in Nat
    BY <1>1
  <2>4. QED BY <2>2, <2>3, SeqDef
<1>4. Requests("OTHER") \in Seq(OtherFrame)
  <2>1. ASSUME NEW i \in 1 .. Len(Others)
        PROVE [to |-> "OTHER", dev |-> Others[i], part |-> "state"] \in OtherFrame
    BY <1>2 DEF OtherFrame, MeterPart, Frame, Type, Part, Device, Other
  <2>2. Requests("OTHER") \in [1 .. Len(Others) -> OtherFrame]
    BY <2>1 DEF Requests
  <2>3. QED BY <1>2, <2>2, SeqDef
<1>5. QED BY <1>3, <1>4

(* What is on the line comes from the requests.                             *)
LEMMA MissedStays == [Next]_vars /\ ~missed' => ~missed
<1> SUFFICES ASSUME [Next]_vars, ~missed' PROVE ~missed
  OBVIOUS
<1>1. \/ missed' = missed \/ TakeAndSend \/ Answered \/ TimeOut
      \/ \E t \in Type : Put(t)
      \/ \E f \in Transparent : TransparentTransmission(f)
  BY DEF Next, BusTask, vars, CollectCurrentState, NothingToSend,
         TooShort, RecvAnsAnalysisHCI_Frame, UART5_IRQHandler, NobodyAsked,
         ElectricityMeterRecvAndHandleDeviceFrame, OtherRecvAndHandleDeviceFrame,
         TransmitToServer
<1>2. QED
  BY <1>1 DEF TakeAndSend, Answered, TimeOut, Put, TransparentTransmission, Unanswered

(* What the server reads while nothing was missed keeps to the pairs.       *)
LEMMA ServersFrames ==
  ASSUME NEW f \in Transparent, ~Alone(f)
  PROVE  /\ f \in MeterFrame /\ f.part # "energies" /\ f.to \in Type
         /\ f.to # "METER" => f \in OtherFrame
<1>1. f \in Frame /\ f.part \in PartsOf(f.dev) \cup {"trans"}
  BY BusAssumption DEF BusAssumption
<1>2. f.part # "energies" /\ (f.to # "METER" => f.dev \notin Meter) /\ f.to \in Type
  BY <1>1 DEF Alone, Frame, Type
<1>3. f.part \in MeterPart => f.dev \in Meter /\ f.part \in PartsOf(f.dev)
  BY <1>1, BusAssumption DEF MeterPart, PartsOf, BusAssumption
<1>4. QED BY <1>1, <1>2, <1>3 DEF MeterFrame, OtherFrame

LEMMA PartsStep == BusType /\ AnswerType /\ PartsInv /\ [Next]_vars => PartsInv'
<1> SUFFICES ASSUME BusType, AnswerType, OwnParts, [Next]_vars, ~missed' PROVE OwnParts'
  BY MissedStays DEF PartsInv
<1> USE DEF OwnParts
<1>1. CASE UNCHANGED <<todo, queue, now, line, rx, resp>>
  BY <1>1
<1>t. "METER" \in Type /\ "OTHER" \in Type /\ "METER" # "OTHER" /\ DOMAIN todo = Type
      /\ \A u \in Type : u = "METER" \/ u = "OTHER"
  BY DEF Type, BusType
<1>2. ASSUME NEW t \in Type, CollectCurrentState(t) PROVE OwnParts'
  <2>1. todo' = [todo EXCEPT ![t] = Requests(t)] /\ UNCHANGED <<queue, now, line, rx, resp>>
    BY <1>2 DEF CollectCurrentState, busVars
  <2>2. Requests("METER") \in Seq(MeterFrame) /\ Requests("OTHER") \in Seq(OtherFrame)
    BY RoundParts
  <2>3. QED BY <1>t, <2>1, <2>2
<1>3. ASSUME NEW f \in Transparent, TransparentTransmission(f) PROVE OwnParts'
  <2>1. /\ todo' = [todo EXCEPT ![f.to] = <<f>>] /\ ~Alone(f)
        /\ UNCHANGED <<queue, now, line, rx, resp>>
    BY <1>3 DEF TransparentTransmission, busVars
  <2>2. f \in MeterFrame /\ f.to \in Type /\ (f.to # "METER" => f \in OtherFrame)
    BY <2>1, ServersFrames
  <2>3. CASE f.to = "METER"
    BY <1>t, <2>1, <2>2, <2>3
  <2>4. CASE f.to = "OTHER"
    BY <1>t, <2>1, <2>2, <2>4
  <2>5. QED BY <1>t, <2>2, <2>3, <2>4
<1>4. ASSUME NEW t \in Type, Put(t) PROVE OwnParts'
  <2>1. /\ todo[t] # << >> /\ todo' = [todo EXCEPT ![t] = Tail(todo[t])]
        /\ queue' = queue \/ queue' = Append(queue, Head(todo[t]))
        /\ UNCHANGED <<now, line, rx, resp>>
    BY <1>4 DEF Put, busVars
  <2>2. todo[t] \in Seq(MeterFrame)
    <3>1. OtherFrame \subseteq MeterFrame
      BY DEF OtherFrame, MeterFrame
    <3>2. todo["OTHER"] \in Seq(MeterFrame)
      BY <3>1
    <3>3. QED BY <1>t, <3>2
  <2>3. Head(todo[t]) \in MeterFrame
    BY <2>1, <2>2
  <2>4. todo'["METER"] \in Seq(MeterFrame)
    <3>1. CASE t = "METER"
      <4>1. todo'["METER"] = Tail(todo["METER"])
        BY <1>t, <2>1, <3>1
      <4>2. QED BY <2>1, <3>1, <4>1
    <3>2. CASE t # "METER"
      BY <1>t, <2>1, <3>2
    <3>3. QED BY <3>1, <3>2
  <2>5. todo'["OTHER"] \in Seq(OtherFrame)
    <3>1. CASE t = "OTHER"
      <4>1. todo'["OTHER"] = Tail(todo["OTHER"])
        BY <1>t, <2>1, <3>1
      <4>2. QED BY <2>1, <3>1, <4>1
    <3>2. CASE t # "OTHER"
      BY <1>t, <2>1, <3>2
    <3>3. QED BY <3>1, <3>2
  <2>6. queue' \in Seq(MeterFrame)
    <3>1. Append(queue, Head(todo[t])) \in Seq(MeterFrame)
      BY <2>3
    <3>2. QED BY <2>1, <3>1
  <2>7. QED BY <2>1, <2>4, <2>5, <2>6
<1>5. CASE TakeAndSend
  <2>1. /\ queue # << >> /\ now' = Head(queue) /\ queue' = Tail(queue)
        /\ line' = line \/ line' = Append(line, now')
        /\ UNCHANGED <<todo, rx, resp>>
    BY <1>5 DEF TakeAndSend
  <2>2. now' \in MeterFrame /\ queue' \in Seq(MeterFrame)
    BY <2>1
  <2>3. line' \in Seq(MeterFrame)
    <3>1. PICK E : E = MeterFrame
      OBVIOUS
    <3>2. line \in Seq(E) /\ now' \in E
      BY <2>2, <3>1
    <3>3. Append(line, now') \in Seq(E)
      BY <3>2, AppendProperties
    <3>4. QED BY <2>1, <3>1, <3>2, <3>3
  <2>4. QED BY <2>1, <2>2, <2>3
<1>6. CASE Answered
  <2>1. /\ rx \in MeterFrame \cup {Tool} /\ now' = Nothing /\ rx' = Nothing
        /\ UNCHANGED <<todo, queue, line>>
    BY <1>6 DEF Answered, LongEnough, request
  <2>2. \E t : resp' = [resp EXCEPT ![t] = Append(resp[t], rx)] \/ resp' = resp
    BY <1>6 DEF Answered
  <2>3. resp'["METER"] \in {resp["METER"], Append(resp["METER"], rx)}
    BY <1>t, <2>2 DEF AnswerType
  <2>4. Append(resp["METER"], rx) \in Seq(MeterFrame \cup {Tool})
    BY <2>1
  <2>5. QED BY <2>1, <2>3, <2>4
<1>7. CASE TimeOut
  <2>1. now \in MeterFrame
    BY <1>7 DEF TimeOut, BusType
  <2>2. UNCHANGED <<todo, queue, rx, resp>>
    BY <1>7 DEF TimeOut, request
  <2>3. now' \in {now, Nothing} /\ (line' = line \/ line' = Append(line, now))
    BY <1>7 DEF TimeOut, Transmit
  <2>4. line' \in Seq(MeterFrame)
    <3>1. PICK E : E = MeterFrame
      OBVIOUS
    <3>2. line \in Seq(E) /\ now \in E
      BY <2>1, <3>1
    <3>3. Append(line, now) \in Seq(E)
      BY <3>2, AppendProperties
    <3>4. QED BY <2>3, <3>1, <3>2, <3>3
  <2>5. QED BY <2>1, <2>2, <2>3, <2>4
<1>8. CASE UART5_IRQHandler
  BY <1>8 DEF UART5_IRQHandler, request, busVars
<1>9. CASE NobodyAsked
  BY <1>9 DEF NobodyAsked, request, busVars
<1>10. CASE ElectricityMeterRecvAndHandleDeviceFrame
  <2>1. /\ resp["METER"] # << >> /\ resp' = [resp EXCEPT !["METER"] = Tail(resp["METER"])]
        /\ UNCHANGED <<todo, queue, now, line, rx>>
    BY <1>10 DEF ElectricityMeterRecvAndHandleDeviceFrame, request, busVars
  <2>2. resp'["METER"] = Tail(resp["METER"])
    BY <1>t, <2>1 DEF AnswerType
  <2>3. QED BY <2>1, <2>2
<1>11. CASE OtherRecvAndHandleDeviceFrame
  <2>1. /\ resp' = [resp EXCEPT !["OTHER"] = Tail(resp["OTHER"])]
        /\ UNCHANGED <<todo, queue, now, line, rx>>
    BY <1>11 DEF OtherRecvAndHandleDeviceFrame, request, busVars
  <2>2. resp'["METER"] = resp["METER"]
    BY <1>t, <2>1 DEF AnswerType
  <2>3. QED BY <2>1, <2>2
<1>12. CASE TooShort \/ RecvAnsAnalysisHCI_Frame
  BY <1>12 DEF TooShort, RecvAnsAnalysisHCI_Frame, request, busVars
<1>13. QED
  BY <1>1, <1>2, <1>3, <1>4, <1>5, <1>6, <1>7, <1>8, <1>9, <1>10, <1>11, <1>12
     DEF Next, BusTask, vars, request, busVars, NothingToSend, TransmitToServer

(* What a frame of no meter's part leaves as it is.                         *)
LEMMA LatestAddress ==
  ASSUME NEW c \in Address, NEW f \in MeterFrame \cup {Noise, Tool, Nothing}
  PROVE  /\ Latest(c, f) \in Address
         /\ f.part \notin First => Latest(c, f) = c
         /\ f \notin MeterFrame => Follows(c, f) /\ Latest(c, f) = c /\ Old(c, f)
<1>1. f \in MeterFrame => f.dev \in Device
  BY DEF MeterFrame, Frame
<1>2. Noise.part = "noise" /\ Tool.part = "tool" /\ Nothing.part = "none"
  BY DEF Noise, Tool, Nothing
<1>3. QED BY <1>1, <1>2 DEF Latest, First, Follows, Old, MeterPart, Address

LEMMA NowOld ==
  ASSUME NEW c \in Address, OwnParts, InOrder(c), Follows(c, now), now.part \notin First
  PROVE  Old(c, rx) /\ \A i \in DOMAIN line : Old(c, line[i])
<1>1. Old(c, now)
  BY DEF Old, Follows, MeterPart, First
<1>2. Old(c, rx)
  BY <1>1 DEF InOrder
<1>3. ASSUME NEW i \in DOMAIN line PROVE Old(c, line[i])
  <2>1. i <= i
    BY DEF OwnParts
  <2>2. Old(c, line[i]) \/ line[i] = now
    BY <2>1 DEF InOrder
  <2>3. QED BY <1>1, <2>2
<1>4. QED BY <1>2, <1>3

(* A transmission of the request under way is put behind what is old.       *)
LEMMA LineGrows ==
  ASSUME OwnParts, NEW c \in Address, now' \in MeterFrame, UNCHANGED rx,
         line' = line \/ line' = Append(line, now'),
         \/ Old(c, rx) /\ \A i \in DOMAIN line : Old(c, line[i])
         \/ InOrder(c) /\ now' = now
  PROVE  InOrder(c)'
<1> DEFINE n == now'
<1>1. /\ \A i, j \in DOMAIN line : i <= j => Old(c, line[i]) \/ line[j] = n
      /\ Old(c, rx) \/ (rx = n /\ \A j \in DOMAIN line : line[j] = n)
  BY DEF InOrder
<1>2. line \in Seq(MeterFrame) /\ n \in MeterFrame
  BY DEF OwnParts
<1> HIDE DEF n
<1>3. CASE line' = line
  BY <1>1, <1>3 DEF InOrder, n
<1>4. CASE line' = Append(line, n)
  <2>1. /\ Len(line) \in Nat /\ DOMAIN line = 1 .. Len(line)
        /\ DOMAIN line' = 1 .. Len(line) + 1 /\ line'[Len(line) + 1] = n
        /\ \A i \in 1 .. Len(line) : line'[i] = line[i]
    BY <1>2, <1>4
  <2>2. ASSUME NEW i \in DOMAIN line', NEW j \in DOMAIN line', i <= j
        PROVE  Old(c, line'[i]) \/ line'[j] = n
    <3>1. CASE j = Len(line) + 1
      BY <2>1, <3>1
    <3>2. CASE j # Len(line) + 1
      <4>1. i \in DOMAIN line /\ j \in DOMAIN line /\ line'[i] = line[i] /\ line'[j] = line[j]
        BY <2>1, <2>2, <3>2
      <4>2. QED BY <1>1, <2>2, <4>1
    <3>3. QED BY <3>1, <3>2
  <2>3. ASSUME \A j \in DOMAIN line : line[j] = n, NEW j \in DOMAIN line'
        PROVE  line'[j] = n
    <3>1. j = Len(line) + 1 \/ (j \in DOMAIN line /\ line'[j] = line[j])
      BY <2>1
    <3>2. QED BY <2>1, <2>3, <3>1
  <2>4. QED BY <1>1, <2>2, <2>3 DEF InOrder, n
<1>5. QED BY <1>3, <1>4 DEF n

(* Every action keeps the pairs: the requests that are put, ...             *)
LEMMA PutPairs ==
  ASSUME BusType, OwnParts, ~missed', NEW c \in Address, NEW q \in Address, Paired(c, q),
         NEW t \in Type, Put(t)
  PROVE  \E r \in Address : Paired(c, r)'
<1> DEFINE h == Head(todo[t])
<1>1. /\ todo[t] # << >> /\ todo' = [todo EXCEPT ![t] = Tail(todo[t])]
      /\ UNCHANGED <<now, line, rx, resp, meter_state>>
  BY DEF Put, busVars, decoded
<1>2. \/ queue' = Append(queue, h)
      \/ queue' = queue /\ h.part \notin First
  BY DEF Put, Asks, First
<1>3. t \in {"METER", "OTHER"} /\ DOMAIN todo = Type /\ "METER" \in Type
  BY DEF Type, BusType
<1>4. /\ Leads(meter_state.of["phases"], resp["METER"], c)' /\ Follows(c, now)' /\ InOrder(c)'
      /\ Latest(c, now) \in Address /\ Leads(Latest(c, now), queue, q)
      /\ Latest(c, now)' = Latest(c, now)
  BY <1>1, LatestAddress DEF Paired, OwnParts, InOrder, Leads
<1>5. PICK e \in Address : Leads(q, todo["METER"], e)
  BY DEF Paired
<1>6. CASE t = "METER"
  <2>1. todo["METER"] \in Seq(MeterFrame) /\ todo["METER"] # << >> /\ h \in MeterFrame
        /\ h = Head(todo["METER"])
    BY <1>1, <1>6 DEF OwnParts
  <2>2. /\ Follows(q, h) /\ Latest(q, h) \in Address
        /\ Leads(Latest(q, h), Tail(todo["METER"]), e)
    BY <1>5, <2>1, LeadsTail
  <2>3. todo'["METER"] = Tail(todo["METER"])
    BY <1>1, <1>3, <1>6
  <2>4. CASE queue' = Append(queue, h)
    <3>1. Leads(Latest(c, now), queue', Latest(q, h))
      BY <1>4, <2>1, <2>2, <2>4, LeadsAppend DEF OwnParts
    <3>2. Leads(Latest(q, h), todo'["METER"], e)
      BY <2>2, <2>3
    <3>3. QED BY <1>1, <1>4, <2>2, <3>1, <3>2 DEF Paired
  <2>5. CASE queue' = queue /\ h.part \notin First
    <3>1. Latest(q, h) = q
      BY <2>5 DEF Latest
    <3>2. Leads(q, todo'["METER"], e)
      BY <2>2, <2>3, <3>1
    <3>3. QED BY <1>1, <1>4, <2>5, <3>2 DEF Paired
  <2>6. QED BY <1>2, <2>4, <2>5
<1>7. CASE t = "OTHER"
  <2>1. todo'["METER"] = todo["METER"]
    BY <1>1, <1>3, <1>7
  <2>2. h \in OtherFrame /\ h \in MeterFrame
    BY <1>1, <1>7 DEF OwnParts, OtherFrame, MeterFrame
  <2>3. Follows(q, h) /\ Latest(q, h) = q
    BY <2>2 DEF Follows, Latest, First, OtherFrame, MeterPart
  <2>4. Leads(Latest(c, now), queue', q)
    <3>1. Leads(Latest(c, now), Append(queue, h), Latest(q, h))
      BY <1>4, <2>2, <2>3, LeadsAppend DEF OwnParts
    <3>2. QED BY <1>2, <1>4, <2>3, <3>1
  <2>5. QED BY <1>1, <1>4, <1>5, <2>1, <2>4 DEF Paired
<1>8. QED BY <1>3, <1>6, <1>7

LEMMA RoundPairs ==
  ASSUME BusType, OwnParts, ~missed', NEW c \in Address, NEW q \in Address, Paired(c, q),
         \/ \E t \in Type : CollectCurrentState(t)
         \/ \E f \in Transparent : TransparentTransmission(f)
  PROVE  Paired(c, q)'
<1>1. UNCHANGED <<queue, now, line, rx, resp, meter_state>>
  BY DEF CollectCurrentState, TransparentTransmission, busVars, decoded
<1>2. DOMAIN todo = Type /\ "METER" \in Type
  BY DEF Type, BusType
<1>3. \E e \in Address : Leads(q, todo'["METER"], e)
  <2>0. PICK t \in Type : \E s :
          /\ todo' = [todo EXCEPT ![t] = s]
          /\ s = Requests(t) \/ \E f \in Transparent : s = <<f>> /\ ~Alone(f)
    <3>1. ASSUME NEW f \in Transparent PROVE f.to \in Type
      BY BusAssumption DEF BusAssumption, Frame
    <3>2. QED BY <3>1 DEF CollectCurrentState, TransparentTransmission
  <2>1. PICK s :
          /\ todo' = [todo EXCEPT ![t] = s]
          /\ s = Requests(t) \/ \E f \in Transparent : s = <<f>> /\ ~Alone(f)
    BY <2>0
  <2>2. CASE t # "METER"
    <3>1. todo'["METER"] = todo["METER"]
      BY <1>2, <2>1, <2>2
    <3>2. QED BY <3>1 DEF Paired
  <2>3. CASE t = "METER"
    <3>1. todo'["METER"] = s
      BY <1>2, <2>1, <2>3
    <3>2. CASE s = Requests("METER")
      BY <3>1, <3>2, RoundLeads
    <3>3. ASSUME NEW f \in Transparent, s = <<f>>, ~Alone(f)
          PROVE  \E e \in Address : Leads(q, s, e)
      <4>1. f \in MeterFrame /\ Follows(q, f) /\ Latest(q, f) \in Address
        BY <3>3, ServersFrames, LatestAddress DEF Follows
      <4>2. << >> \in Seq(MeterFrame) /\ Append(<< >>, f) = s
        BY <3>3
      <4>3. Leads(q, Append(<< >>, f), Latest(q, f))
        BY <4>1, <4>2, LeadsNowhere, LeadsAppend
      <4>4. QED BY <4>1, <4>2, <4>3
    <3>4. QED BY <2>1, <2>3, <3>1, <3>2, <3>3
  <2>4. QED BY <2>2, <2>3
<1>4. QED BY <1>1, <1>3 DEF Paired, InOrder, Leads

(* ... the one that is taken and sent, ...                                  *)
LEMMA TakePairs ==
  ASSUME BusType, OwnParts, NEW c \in Address, NEW q \in Address, Paired(c, q), TakeAndSend
  PROVE  Paired(c, q)'
<1>1. /\ queue # << >> /\ now' = Head(queue) /\ queue' = Tail(queue)
      /\ line' = line \/ line' = Append(line, now')
      /\ now = Nothing /\ UNCHANGED <<todo, rx, resp, meter_state>>
  BY DEF TakeAndSend, BusType, decoded
<1>2. Nothing \notin MeterFrame /\ Nothing.part = "none"
  BY FramesAreOfDevices DEF MeterFrame, Nothing
<1>3. Latest(c, now) = c /\ Follows(c, now)
  BY <1>1, <1>2, LatestAddress
<1>4. now' \in MeterFrame
  BY <1>1 DEF OwnParts
<1>5. InOrder(c)'
  <2>1. Old(c, rx) /\ \A i \in DOMAIN line : Old(c, line[i])
    BY <1>1, <1>2, <1>3, NowOld DEF Paired, First
  <2>2. QED BY <1>1, <1>4, <2>1, LineGrows
<1>6. /\ Follows(c, now') /\ Leads(Latest(c, now'), queue', q)
  BY <1>1, <1>3, LeadsTail DEF Paired, OwnParts
<1>7. /\ Leads(meter_state'.of["phases"], resp'["METER"], c)
      /\ \E e \in Address : Leads(q, todo'["METER"], e)
  BY ONLY Paired(c, q), <1>1 DEF Paired
<1>8. QED BY ONLY <1>5, <1>6, <1>7 DEF Paired

(* ... its answer, ...                                                      *)
LEMMA AnsweredPairs ==
  ASSUME BusType, AnswerType, OwnParts, ~missed', NEW c \in Address, NEW q \in Address,
         Paired(c, q), Answered
  PROVE  \E d \in Address : Paired(d, q)'
<1>1. /\ now \in MeterFrame /\ rx \in MeterFrame \cup {Tool}
      /\ rx' = Nothing /\ now' = Nothing /\ UNCHANGED <<todo, queue, line, meter_state>>
  BY DEF Answered, BusType, LongEnough, OwnParts, request, decoded
<1>2. Nothing \notin MeterFrame /\ Nothing.part = "none"
  BY FramesAreOfDevices DEF MeterFrame, Nothing
<1>3. DOMAIN resp = Type /\ "METER" \in Type
  BY DEF AnswerType, Type
<1>4. \/ resp' = [resp EXCEPT ![now.to] = Append(resp[now.to], rx)]
         /\ ~Unanswered(rx)
      \/ resp' = resp /\ ~Unanswered(Nothing)
  BY DEF Answered
<1>5. Latest(c, now) \in Address /\ Leads(Latest(c, now), queue, q)
  BY <1>1, LatestAddress DEF Paired
<1>6. CASE now.part \in First
  <2>1. rx = now /\ resp' = [resp EXCEPT ![now.to] = Append(resp[now.to], rx)]
    BY <1>1, <1>2, <1>4, <1>6 DEF Unanswered
  <2>2. now.to = "METER"
    BY <1>1, <1>6 DEF MeterFrame, MeterPart, First
  <2>3. resp'["METER"] = Append(resp["METER"], rx)
    BY <1>3, <2>1, <2>2
  <2>0. Latest(c, now) = now.dev
    BY <1>6 DEF Latest
  <2>4. PICK d \in Address : d = now.dev
    BY <1>5, <2>0
  <2>5. Follows(c, rx) /\ Latest(c, rx) = d /\ Latest(c, now) = d
    BY <1>6, <2>1, <2>4 DEF Follows, Latest, First
  <2>6. Leads(meter_state.of["phases"], resp'["METER"], d)
    <3>1. resp["METER"] \in Seq(MeterFrame \cup {Tool}) /\ rx \in MeterFrame \cup {Tool}
      BY <1>1 DEF OwnParts
    <3>2. meter_state.of["phases"] \in Address
      <4>1. Len(resp["METER"]) \in Nat /\ Leads(meter_state.of["phases"], resp["METER"], c)
        BY <3>1 DEF Paired
      <4>2. QED BY <4>1 DEF Leads
    <3>3. Leads(meter_state.of["phases"], resp["METER"], c)
      BY DEF Paired
    <3>4. Leads(meter_state.of["phases"], Append(resp["METER"], rx), Latest(c, rx))
      BY <2>5, <3>1, <3>2, <3>3, LeadsAppend
    <3>5. QED BY <2>3, <2>5, <3>4
  <2>7. ASSUME NEW i \in DOMAIN line PROVE Old(d, line[i])
    <3>1. Old(d, now)
      BY <2>4 DEF Old
    <3>2. CASE Old(c, rx)
      <4>1. d = c
        BY <1>6, <2>1, <2>4, <3>2 DEF Old, MeterPart, First
      <4>2. i <= i
        BY DEF OwnParts
      <4>3. Old(c, line[i]) \/ line[i] = now
        BY <4>2 DEF Paired, InOrder
      <4>4. QED BY <3>1, <4>1, <4>3
    <3>3. CASE ~Old(c, rx)
      BY <3>1, <3>3 DEF Paired, InOrder
    <3>4. QED BY <3>2, <3>3
  <2>8. Old(d, rx') /\ Follows(d, now') /\ Latest(d, now') = d
    BY <1>1, <1>2 DEF Old, MeterPart, Follows, Latest, First
  <2>9. InOrder(d)'
    BY <1>1, <2>7, <2>8 DEF InOrder, Old
  <2>10. Leads(Latest(d, now'), queue', q)
    BY <1>1, <1>5, <2>5, <2>8
  <2>11. \E e \in Address : Leads(q, todo'["METER"], e)
    BY <1>1 DEF Paired
  <2>12. Leads(meter_state'.of["phases"], resp'["METER"], d)
    BY <1>1, <2>6
  <2>13. Paired(d, q)'
    BY <2>8, <2>9, <2>10, <2>11, <2>12 DEF Paired, Leads, Follows, Latest
  <2>14. QED BY <2>13
<1>7. CASE now.part \notin First
  <2>1. Old(c, rx) /\ \A i \in DOMAIN line : Old(c, line[i])
    BY <1>7, NowOld DEF Paired
  <2>2. Follows(c, rx) /\ Latest(c, rx) = c
    BY <2>1 DEF Old, Follows, Latest, MeterPart, First
  <2>3. resp'["METER"] \in {resp["METER"], Append(resp["METER"], rx)}
    BY <1>3, <1>4
  <2>4. Leads(meter_state.of["phases"], resp'["METER"], c)
    <3>1. resp["METER"] \in Seq(MeterFrame \cup {Tool}) /\ rx \in MeterFrame \cup {Tool}
      BY <1>1 DEF OwnParts
    <3>2. meter_state.of["phases"] \in Address
      <4>1. Len(resp["METER"]) \in Nat /\ Leads(meter_state.of["phases"], resp["METER"], c)
        BY <3>1 DEF Paired
      <4>2. QED BY <4>1 DEF Leads
    <3>3. Leads(meter_state.of["phases"], resp["METER"], c)
      BY DEF Paired
    <3>4. Leads(meter_state.of["phases"], Append(resp["METER"], rx), Latest(c, rx))
      BY <2>2, <3>1, <3>2, <3>3, LeadsAppend
    <3>5. QED BY <2>2, <2>3, <3>3, <3>4
  <2>5. Latest(c, now) = c /\ Follows(c, now') /\ Latest(c, now') = c /\ Old(c, rx')
    BY <1>1, <1>2, <1>7, LatestAddress
  <2>6. InOrder(c)'
    BY <1>1, <2>1, <2>5 DEF InOrder, Old
  <2>7. Leads(Latest(c, now'), queue', q)
    BY <1>1, <1>5, <2>5
  <2>8. Leads(meter_state'.of["phases"], resp'["METER"], c)
    BY <1>1, <2>4
  <2>9. \E e \in Address : Leads(q, todo'["METER"], e)
    BY <1>1 DEF Paired
  <2>10. Follows(c, now')
    BY <2>5
  <2>11. Paired(c, q)'
    BY ONLY <2>6, <2>7, <2>8, <2>9, <2>10 DEF Paired
  <2>12. QED BY <2>11
<1>8. QED BY <1>6, <1>7

(* ... the end of the wait, ...                                             *)
LEMMA TimeOutPairs ==
  ASSUME BusType, OwnParts, ~missed', NEW c \in Address, NEW q \in Address, Paired(c, q),
         TimeOut
  PROVE  Paired(c, q)'
<1>1. /\ now \in MeterFrame /\ UNCHANGED <<todo, queue, rx, resp, meter_state>>
  BY DEF TimeOut, BusType, OwnParts, request, decoded
<1>2. Nothing \notin MeterFrame /\ Nothing.part = "none"
  BY FramesAreOfDevices DEF MeterFrame, Nothing
<1>3. CASE now' = now /\ (line' = line \/ line' = Append(line, now))
  <2>1. InOrder(c)'
    BY <1>1, <1>3, LineGrows DEF Paired
  <2>2. /\ Leads(Latest(c, now'), queue', q) /\ Follows(c, now')
        /\ Leads(meter_state'.of["phases"], resp'["METER"], c)
        /\ \E e \in Address : Leads(q, todo'["METER"], e)
    BY ONLY Paired(c, q), <1>1, <1>3 DEF Paired
  <2>3. QED BY ONLY <2>1, <2>2 DEF Paired
<1>4. CASE now' = Nothing /\ line' = line /\ ~Unanswered(Nothing)
  <2>1. now.part \notin First
    BY <1>1, <1>2, <1>4 DEF Unanswered
  <2>2. Old(c, rx) /\ \A i \in DOMAIN line : Old(c, line[i])
    BY <2>1, NowOld DEF Paired
  <2>3. Latest(c, now) = c /\ Follows(c, now') /\ Latest(c, now') = c
    BY <1>1, <1>2, <1>4, <2>1, LatestAddress
  <2>4. InOrder(c)'
    BY <1>1, <1>4, <2>2 DEF InOrder, Old
  <2>5. Leads(Latest(c, now'), queue', q)
    BY <1>1, <2>3 DEF Paired
  <2>6. /\ Leads(meter_state'.of["phases"], resp'["METER"], c)
        /\ \E e \in Address : Leads(q, todo'["METER"], e)
    BY <1>1 DEF Paired
  <2>7. Follows(c, now')
    BY <2>3
  <2>8. QED BY ONLY <2>4, <2>5, <2>6, <2>7 DEF Paired
<1>5. QED BY <1>3, <1>4 DEF TimeOut, Transmit

(* ... what is received or thrown away, ...                                 *)
LEMMA ReceivedPairs ==
  ASSUME BusType, OwnParts, NEW c \in Address, NEW q \in Address, Paired(c, q),
         UART5_IRQHandler \/ NobodyAsked \/ TooShort \/ RecvAnsAnalysisHCI_Frame
  PROVE  Paired(c, q)'
<1>1. UNCHANGED <<todo, queue, now, resp, meter_state>>
  BY DEF UART5_IRQHandler, NobodyAsked, TooShort, RecvAnsAnalysisHCI_Frame, request, busVars,
         decoded
<1>2. InOrder(c)'
  <2>1. CASE rx' \in {Noise, Tool, Nothing} /\ line' = line
    <3>1. Old(c, rx')
      BY <2>1 DEF Old, MeterPart, Noise, Tool, Nothing
    <3>2. QED BY <1>1, <2>1, <3>1 DEF Paired, InOrder, Old
  <2>2. CASE line # << >> /\ rx' = Head(line) /\ line' = Tail(line)
    <3>1. /\ Len(line) \in Nat /\ DOMAIN line = 1 .. Len(line) /\ rx' = line[1]
          /\ 1 \in DOMAIN line /\ DOMAIN line' = 1 .. Len(line) - 1
          /\ \A i \in DOMAIN line' : line'[i] = line[i + 1] /\ i + 1 \in DOMAIN line
      BY <2>2 DEF OwnParts
    <3>2. \A i, j \in DOMAIN line : i <= j => Old(c, line[i]) \/ line[j] = now
      BY DEF Paired, InOrder
    <3>3. ASSUME NEW i \in DOMAIN line', NEW j \in DOMAIN line', i <= j
          PROVE  Old(c, line'[i]) \/ line'[j] = now
      <4>1. i + 1 <= j + 1
        BY <3>1, <3>3
      <4>2. QED BY <3>1, <3>2, <4>1
    <3>4. Old(c, rx') \/ (rx' = now /\ \A j \in DOMAIN line' : line'[j] = now)
      <4>1. Old(c, line[1]) \/ line[1] = now
        BY <3>1, <3>2
      <4>2. ASSUME ~Old(c, line[1]), NEW j \in DOMAIN line' PROVE line'[j] = now
        <5>1. 1 <= j + 1
          BY <3>1
        <5>2. QED BY <3>1, <3>2, <4>2, <5>1
      <4>3. QED BY <3>1, <4>1, <4>2
    <3>5. QED BY <1>1, <3>3, <3>4 DEF InOrder, Old
  <2>3. QED
    BY <2>1, <2>2 DEF UART5_IRQHandler, NobodyAsked, TooShort, RecvAnsAnalysisHCI_Frame
<1>3. /\ Leads(Latest(c, now'), queue', q) /\ Follows(c, now')
      /\ Leads(meter_state'.of["phases"], resp'["METER"], c)
      /\ \E e \in Address : Leads(q, todo'["METER"], e)
  BY ONLY Paired(c, q), <1>1 DEF Paired
<1>4. QED BY ONLY <1>2, <1>3 DEF Paired

(* ... and the decoding, which shows a meter its own pair.                  *)
LEMMA DecodedPairs ==
  ASSUME AnswerType, DecodedInv, OwnParts, Whole, NEW c \in Address, NEW q \in Address,
         Paired(c, q), ElectricityMeterRecvAndHandleDeviceFrame
  PROVE  Whole' /\ Paired(c, q)'
<1> DEFINE f == Head(resp["METER"])
           state == AnalysisMeter(f)
           v == meter_state.of["phases"]
<1>1. /\ resp["METER"] # << >> /\ resp' = [resp EXCEPT !["METER"] = Tail(resp["METER"])]
      /\ UNCHANGED <<todo, queue, now, line, rx>>
  BY DEF ElectricityMeterRecvAndHandleDeviceFrame, request, busVars
<1>2. resp["METER"] \in Seq(MeterFrame \cup {Tool}) /\ f \in MeterFrame \cup {Tool}
  BY <1>1 DEF OwnParts
<1>3. resp'["METER"] = Tail(resp["METER"])
  <2>1. DOMAIN resp = Type /\ "METER" \in Type
    BY DEF AnswerType, Type
  <2>2. QED BY <1>1, <2>1
<1>4. v \in Address /\ Leads(v, resp["METER"], c)
  <2>1. v \in Address
    BY DEF DecodedInv, DecodedType, MeterType, Field, Address, Device
  <2>2. Leads(v, resp["METER"], c)
    BY ONLY Paired(c, q) DEF Paired
  <2>3. QED BY <2>1, <2>2
<1>5. Follows(v, f) /\ Leads(Latest(v, f), resp'["METER"], c)
  BY <1>1, <1>2, <1>3, <1>4, LeadsTail
<1>6. ASSUME meter_state'.of["phases"] = Latest(v, f) PROVE Paired(c, q)'
  <2>1. Leads(meter_state'.of["phases"], resp'["METER"], c)
    BY <1>5, <1>6
  <2>2. UNCHANGED <<todo, queue, now, line, rx>>
    BY <1>1
  <2>3. /\ Follows(c, now') /\ Leads(Latest(c, now'), queue', q)
        /\ \E e \in Address : Leads(q, todo'["METER"], e)
    BY ONLY Paired(c, q), <2>2 DEF Paired
  <2>4. InOrder(c)'
    BY ONLY Paired(c, q), <2>2 DEF Paired, InOrder, Old
  <2>5. QED BY ONLY <2>1, <2>3, <2>4 DEF Paired
<1>7. CASE ~Understood("METER", f)
  <2>1. f \notin MeterFrame \/ f.part \notin First
    BY <1>7 DEF Understood, MeterFrame, MeterPart, First, DeviceType, Device
  <2>2. Latest(v, f) = v
    BY <1>2, <1>4, <2>1, LatestAddress
  <2>3. UNCHANGED <<meter_state, para>>
    BY <1>7 DEF ElectricityMeterRecvAndHandleDeviceFrame
  <2>4. meter_state'.of["phases"] = Latest(v, f)
    BY <2>2, <2>3
  <2>5. QED BY <1>6, <2>3, <2>4 DEF Whole
<1>8. CASE Understood("METER", f)
  <2>1. /\ meter_state' = [state EXCEPT !.update = FALSE]
        /\ IF state.update THEN CopyMeter(state) ELSE UNCHANGED para
    BY <1>8 DEF ElectricityMeterRecvAndHandleDeviceFrame
  <2>2. /\ f.dev \in Meter /\ state \in MeterType /\ state.address = f.dev
        /\ f.part \in {"values", "energies", "loops"}
        /\ f.part = "loops" <=> f.dev \in SixLoop
        /\ state.update = (meter_state.update \/ UpdateOf(f))
        /\ \A k \in Field :
             state.of[k] = IF k \in Writes(f.part) THEN f.dev ELSE meter_state.of[k]
    BY <1>8, AnalysisType DEF DecodedInv, DecodedType
  <2>3. state.of["phases"] = Latest(v, f)
    <3>1. "phases" \in Field /\ ("phases" \in Writes(f.part) <=> f.part \in First)
      BY <2>2, WritesFields DEF Field, First
    <3>2. QED BY <2>2, <3>1 DEF Latest
  <2>4. meter_state'.of["phases"] = Latest(v, f)
    BY <2>1, <2>2, <2>3 DEF MeterType
  <2>5. Whole'
    <3>1. CASE f.part = "energies"
      <4>1. v = f.dev /\ f.dev \notin SixLoop
        BY <1>5, <2>2, <3>1 DEF Follows
      <4>2. state.update
        BY <2>2, <3>1 DEF UpdateOf
      <4>3. meter_state.of["phases"] = f.dev /\ meter_state.of["lines"] = f.dev
        BY <4>1 DEF DecodedInv, OneFirstPart
      <4>4. \A k \in MeterFields \cup {"energy"} : state.of[k] = f.dev
        BY <2>2, <3>1, <4>3, WritesFields DEF MeterFields, Field
      <4>5. ASSUME NEW d \in Meter \ SixLoop, NEW k \in MeterFields
            PROVE  para'[d][k] = para'[d].energy
        <5>1. d \in Device /\ para[d][k] = para[d].energy
          BY DEF Device, Whole
        <5>2. para'[d] = IF SameAddress(d, state) THEN state.of ELSE para[d]
          BY <2>1, <2>2, <4>2, <5>1, CopyType DEF DecodedInv, DecodedType
        <5>3. QED BY <4>4, <5>1, <5>2
      <4>6. QED BY <4>5 DEF Whole
    <3>2. CASE f.part = "values"
      <4>1. ~state.update
        BY <2>2, <3>2 DEF UpdateOf, DecodedInv
      <4>2. QED BY <2>1, <4>1 DEF Whole
    <3>3. CASE f.part = "loops"
      <4>1. state.update /\ f.dev \in SixLoop
        BY <2>2, <3>3 DEF UpdateOf
      <4>2. ASSUME NEW d \in Meter \ SixLoop PROVE para'[d] = para[d]
        <5>1. d \in Device /\ ~SameAddress(d, state)
          BY <2>2, <4>1 DEF Device, SameAddress
        <5>2. QED BY <2>1, <2>2, <4>1, <5>1, CopyType DEF DecodedInv, DecodedType
      <4>3. QED BY <4>2 DEF Whole
    <3>4. QED BY <2>2, <3>1, <3>2, <3>3
  <2>6. QED BY <1>6, <2>4, <2>5
<1>9. QED BY <1>7, <1>8

LEMMA SamePairs ==
  ASSUME NEW c \in Address, NEW q \in Address, Paired(c, q),
         UNCHANGED <<queue, now, line, rx, meter_state>>,
         todo'["METER"] = todo["METER"], resp'["METER"] = resp["METER"]
  PROVE  Paired(c, q)'
<1>1. InOrder(c)'
  <2>1. InOrder(c) /\ line' = line /\ rx' = rx /\ now' = now
    BY DEF Paired
  <2>2. QED BY <2>1 DEF InOrder, Old
<1>2. Leads(meter_state'.of["phases"], resp'["METER"], c)
  BY DEF Paired
<1>3. Follows(c, now') /\ Leads(Latest(c, now'), queue', q)
  BY DEF Paired
<1>4. \E e \in Address : Leads(q, todo'["METER"], e)
  BY DEF Paired
<1>5. QED BY <1>1, <1>2, <1>3, <1>4 DEF Paired, Leads, Follows, Latest

LEMMA OtherDecodedPairs ==
  ASSUME AnswerType, DecodedInv, Whole, NEW c \in Address, NEW q \in Address,
         Paired(c, q), OtherRecvAndHandleDeviceFrame
  PROVE  Whole' /\ Paired(c, q)'
<1>1. /\ resp' = [resp EXCEPT !["OTHER"] = Tail(resp["OTHER"])]
      /\ UNCHANGED <<todo, queue, now, line, rx, meter_state>>
  BY DEF OtherRecvAndHandleDeviceFrame, request, busVars
<1>2. resp'["METER"] = resp["METER"]
  BY <1>1 DEF AnswerType, Type
<1>3. Whole'
  <2>1. para' = para \/ \E d \in Device : para' = [para EXCEPT ![d].state = d]
    BY DEF OtherRecvAndHandleDeviceFrame, Understood
  <2>2. ASSUME NEW d \in Meter \ SixLoop, NEW k \in MeterFields
        PROVE  para'[d][k] = para'[d].energy
    <3>1. d \in Device /\ para[d][k] = para[d].energy
      BY DEF Device, Whole
    <3>2. para[d] \in [Field -> Device \cup {Unread}] /\ DOMAIN para = Device
      BY <3>1 DEF DecodedInv, DecodedType, ParaType
    <3>3. k \in Field /\ k # "state" /\ "energy" \in Field /\ "energy" # "state"
      BY WritesFields DEF MeterFields, Field
    <3>4. CASE para' = para
      BY <3>1, <3>4
    <3>5. ASSUME NEW e \in Device, para' = [para EXCEPT ![e].state = e]
          PROVE  para'[d][k] = para'[d].energy
      <4>1. para'[d] = para[d] \/ para'[d] = [para[d] EXCEPT !.state = e]
        BY <3>1, <3>2, <3>5
      <4>2. para'[d][k] = para[d][k] /\ para'[d].energy = para[d].energy
        BY <3>2, <3>3, <4>1
      <4>3. QED BY <3>1, <4>2
    <3>6. QED BY <2>1, <3>4, <3>5
  <2>3. QED BY <2>2 DEF Whole
<1>4. QED BY <1>1, <1>2, <1>3, SamePairs

LEMMA WholeStep ==
  BusType /\ AnswerType /\ DecodedInv /\ PartsInv /\ WholeInv /\ [Next]_vars => WholeInv'
<1> SUFFICES ASSUME BusType, AnswerType, DecodedInv, OwnParts, WholeInv, [Next]_vars, ~missed'
             PROVE  Whole' /\ \E c, q \in Address : Paired(c, q)'
  BY MissedStays DEF WholeInv, PartsInv
<1>1. ~missed
  BY MissedStays
<1>2. Whole
  BY <1>1 DEF WholeInv
<1>3. PICK c \in Address, q \in Address : Paired(c, q)
  BY <1>1 DEF WholeInv
<1>4. CASE ElectricityMeterRecvAndHandleDeviceFrame \/ OtherRecvAndHandleDeviceFrame
  BY <1>2, <1>3, <1>4, DecodedPairs, OtherDecodedPairs
<1>5. ASSUME ~ElectricityMeterRecvAndHandleDeviceFrame, ~OtherRecvAndHandleDeviceFrame
      PROVE  Whole'
  <2>1. para' = para
    BY <1>5 DEF Next, BusTask, vars, decoded, CollectCurrentState, Put, TransparentTransmission,
           TakeAndSend, NothingToSend, Answered, TooShort, TimeOut, RecvAnsAnalysisHCI_Frame,
           UART5_IRQHandler, NobodyAsked, TransmitToServer
  <2>2. QED BY <1>2, <2>1 DEF Whole
<1>6. ASSUME UNCHANGED <<todo, queue, now, line, rx, resp, meter_state>> PROVE Paired(c, q)'
  <2>1. todo' = todo /\ resp' = resp /\ UNCHANGED <<queue, now, line, rx, meter_state>>
    BY <1>6
  <2>2. todo'["METER"] = todo["METER"] /\ resp'["METER"] = resp["METER"]
    BY <2>1
  <2>3. QED BY <1>3, <2>1, <2>2, SamePairs
<1>7. ASSUME ~ElectricityMeterRecvAndHandleDeviceFrame, ~OtherRecvAndHandleDeviceFrame
      PROVE  \E a, b \in Address : Paired(a, b)'
  <2>1. CASE \/ \E t \in Type : CollectCurrentState(t)
             \/ \E f \in Transparent : TransparentTransmission(f)
    BY <1>3, <2>1, RoundPairs
  <2>2. CASE \E t \in Type : Put(t)
    BY <1>3, <2>2, PutPairs
  <2>3. CASE TakeAndSend
    BY <1>3, <2>3, TakePairs
  <2>4. CASE Answered
    BY <1>3, <2>4, AnsweredPairs
  <2>5. CASE TimeOut
    BY <1>3, <2>5, TimeOutPairs
  <2>6. CASE UART5_IRQHandler \/ NobodyAsked \/ TooShort \/ RecvAnsAnalysisHCI_Frame
    BY <1>3, <2>6, ReceivedPairs
  <2>7. CASE NothingToSend \/ TransmitToServer \/ UNCHANGED vars
    BY <1>6, <2>7 DEF NothingToSend, TransmitToServer, vars, request, busVars, decoded
  <2>8. QED
    BY <1>7, <2>1, <2>2, <2>3, <2>4, <2>5, <2>6, <2>7 DEF Next, BusTask
<1>8. QED BY <1>4, <1>5, <1>7

(* While no first part goes unanswered, and the server asks for no second   *)
(* part alone, a meter shows a pair of its own, for any number of stray,    *)
(* late, doubled and lost answers and any six-loop modules: the order of    *)
(* the requests in the queue of the bus, and of the answers on the line,    *)
(* keeps the two parts together in the one static record.                   *)
THEOREM WholeAlwaysUnlessMissed == Spec => []WholeUnlessMissed
<1> DEFINE FullInv == BusType /\ AnswerType /\ DecodedInv /\ PartsInv /\ WholeInv
<1>1. Init => FullInv
  BY TypeInit, DecodedInit, PartsInit, WholeInit
<1>2. FullInv /\ [Next]_vars => FullInv'
  BY BusTypeStep, AnswerStep, DecodedStep, PartsStep, WholeStep
<1>3. FullInv => WholeUnlessMissed
  BY DEF WholeInv, Whole, MeterFields, WholeUnlessMissed
<1>4. QED BY <1>1, <1>2, <1>3, PTL DEF Spec
=============================================================================
