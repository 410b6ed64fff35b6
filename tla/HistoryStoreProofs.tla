------------------------- MODULE HistoryStoreProofs -------------------------
(***************************************************************************)
(* Proofs about HistoryStore, for any numbers of days, records and power    *)
(* failures, and with the clock set at will: what the names of the files    *)
(* promise and how many records they leave out, where a record is, and what *)
(* a query of the server is sent.                                           *)
(***************************************************************************)
EXTENDS HistoryStore, FiniteSetTheorems, SequenceTheorems, TLAPS

(* Two files of one day have different numbers.                             *)
NamesDiffer == \A f, g \in files : f.num = g.num /\ f.day = g.day => f = g

(* While a record is being stored, the number is 0 or in the name of a file *)
(* of the day; once the record is written, that file has more than it says. *)
NumberInv ==
  job = "store" =>
    /\ record_num < Full
    /\ step = "sweep" => record_num = 0 \/ \E f \in files \cap seen : SameName(f, record_num)
    /\ step = "write" => record_num = 0 \/ \E f \in files : SameName(f, record_num)
    /\ step = "rename" => \E f \in files : SameName(f, record_num) /\ record_num < Len(f.records)

(* Records are written in the order they were pushed: those in files come   *)
(* before the one being stored, and that before those queued.               *)
InOrder(s) == \A i, j \in DOMAIN s : i < j => s[i] < s[j]

Storing == job = "store" /\ step # "rename"

OrderInv ==
  /\ InOrder(queue)
  /\ \A i \in DOMAIN queue : queue[i] <= pushed
  /\ job = "store" => alarm_report <= pushed
                      /\ \A i \in DOMAIN queue : alarm_report < queue[i]
  /\ \A f \in files : \A k \in DOMAIN f.records :
       /\ f.records[k] <= pushed
       /\ \A i \in DOMAIN queue : f.records[k] < queue[i]
       /\ Storing => f.records[k] < alarm_report

(* A record is in one file, at one place, and behind those pushed before it.*)
RecordsOnce ==
  /\ \A f \in files : InOrder(f.records)
  /\ \A f, g \in files : \A k \in DOMAIN f.records, l \in DOMAIN g.records :
       f.records[k] = g.records[l] => f = g

-----------------------------------------------------------------------------
(* The types of what storing uses.                                          *)
StoreType ==
  /\ files \in SUBSET File
  /\ queue \in Seq(Report)
  /\ job \in {"none", "store", "count", "send"}
  /\ step \in {"sweep", "open", "write", "rename"}
  /\ current_date \in Day /\ day \in Day
  /\ pushed \in 0 .. MaxReport
  /\ job = "store" => alarm_report \in Report /\ record_num \in Nat

IInv == StoreType /\ NamesHold /\ NamesDiffer /\ NumberInv /\ OrderInv /\ RecordsOnce

LEMMA Limits ==
  Full \in Nat \ {0} /\ MaxDay \in Nat \ {0} /\ MaxReport \in Nat
BY HistoryAssumption DEF HistoryAssumption

LEMMA FileFacts ==
  ASSUME StoreType, NEW f \in files
  PROVE  /\ f.num \in Nat /\ f.num <= Full /\ f.day \in Day
         /\ f.records \in Seq(Report) /\ Len(f.records) \in Nat
         /\ DOMAIN f.records = 1 .. Len(f.records)
         /\ \A k \in DOMAIN f.records : f.records[k] \in Report /\ f.records[k] \in Nat
         /\ f \in File
<1>1. f \in File
  BY DEF StoreType
<1>2. f.num \in 0 .. Full /\ f.day \in Day /\ f.records \in Seq(Report)
  BY <1>1 DEF File
<1>3. QED BY <1>1, <1>2, Limits DEF Report

LEMMA InitInv == Init => IInv
<1> SUFFICES ASSUME Init PROVE IInv
  OBVIOUS
<1>1. StoreType
  <2>1. day = 1 /\ current_date = 1 /\ 1 \in Day
    BY Limits DEF Init, Day
  <2>2. job = "none" /\ step = "sweep" /\ files = {} /\ queue = << >> /\ pushed = 0
    BY DEF Init
  <2>3. QED BY <2>1, <2>2, Limits DEF StoreType
<1>2. files = {} /\ queue = << >> /\ job = "none"
  BY DEF Init
<1>3. NamesHold /\ NamesDiffer /\ NumberInv /\ RecordsOnce
  BY <1>2 DEF NamesHold, NamesDiffer, NumberInv, RecordsOnce
<1>4. DOMAIN queue = {}
  BY <1>2
<1>5. InOrder(queue)
  BY <1>4 DEF InOrder
<1>6. OrderInv
  <2>1. (\A i \in DOMAIN queue : queue[i] <= pushed) /\ job # "store"
    BY <1>2, <1>4
  <2>2. \A f \in files : FALSE
    BY <1>2
  <2>3. QED BY <1>5, <2>1, <2>2, Zenon DEF OrderInv
<1>7. QED BY <1>1, <1>3, <1>6 DEF IInv

-----------------------------------------------------------------------------
(* Steps that leave the files alone.                                        *)
LEMMA Elsewhere ==
  ASSUME IInv, UNCHANGED <<files, pushed>>, queue' \in {queue, << >>},
         job' \in {"none", "count", "send"}, step' \in {"sweep", "open", "write", "rename"},
         current_date' \in Day, day' \in Day
  PROVE  IInv'
<1>1. StoreType' /\ NumberInv'
  <2>1. job' # "store" /\ job' \in {"none", "store", "count", "send"}
    OBVIOUS
  <2>2. queue' \in Seq(Report)
    <3>1. queue \in Seq(Report) /\ << >> \in Seq(Report)
      BY DEF IInv, StoreType
    <3>2. QED BY <3>1
  <2>3. files' \in SUBSET File /\ pushed' \in 0 .. MaxReport
    BY DEF IInv, StoreType
  <2>4. QED BY <2>1, <2>2, <2>3, Zenon DEF StoreType, NumberInv
<1>2. NamesHold' /\ NamesDiffer' /\ RecordsOnce'
  BY DEF IInv, NamesHold, NamesDiffer, RecordsOnce
<1>3. OrderInv'
  BY DEF IInv, OrderInv, InOrder, Storing
<1>4. QED BY <1>1, <1>2, <1>3 DEF IInv

LEMMA StoringKept ==
  ASSUME IInv, UNCHANGED <<files, pushed, queue, job, step, current_date, alarm_report, seen, record_num>>,
         day' \in Day
  PROVE  IInv'
<1>1. StoreType' /\ NumberInv'
  BY DEF IInv, StoreType, NumberInv, SameName
<1>2. NamesHold' /\ NamesDiffer' /\ RecordsOnce'
  BY DEF IInv, NamesHold, NamesDiffer, RecordsOnce
<1>3. OrderInv'
  BY DEF IInv, OrderInv, InOrder, Storing
<1>4. QED BY <1>1, <1>2, <1>3 DEF IInv

(* Files that disappear take nothing from the order.                        *)
LEMMA FewerFiles ==
  ASSUME IInv, files' \subseteq files, UNCHANGED <<pushed, queue>>,
         Storing' => Storing, job' = "store" => job = "store", UNCHANGED alarm_report \/ job' = "none"
  PROVE  NamesHold' /\ NamesDiffer' /\ RecordsOnce' /\ OrderInv'
<1>1. NamesHold' /\ NamesDiffer' /\ RecordsOnce'
  BY DEF IInv, NamesHold, NamesDiffer, RecordsOnce
<1>2. Storing' => job' = "store"
  BY DEF Storing
<1>3. OrderInv'
  BY <1>2 DEF IInv, OrderInv, InOrder
<1>4. QED BY <1>1, <1>3

LEMMA SweepOldStep ==
  ASSUME IInv, NEW f \in files, SweepOld(f)
  PROVE  IInv'
<1>1. /\ files' = files \ {f} /\ f \notin seen /\ step = "sweep"
      /\ UNCHANGED <<queue, job, step, alarm_report, current_date, seen, record_num, day, pushed>>
  BY DEF SweepOld, Entry, work, bounds
<1>2. StoreType'
  BY <1>1 DEF IInv, StoreType
<1>3. NumberInv'
  BY <1>1 DEF IInv, NumberInv, SameName
<1>4. (Storing' => Storing) /\ files' \subseteq files
  BY <1>1 DEF Storing
<1>5. QED BY <1>1, <1>2, <1>3, <1>4, FewerFiles DEF IInv

LEMMA SweepStoreStep ==
  ASSUME IInv, NEW f \in files, SweepStore(f)
  PROVE  IInv'
<1>1. /\ job = "store" /\ step = "sweep" /\ f \notin seen /\ seen' = seen \cup {f}
      /\ UNCHANGED <<queue, job, step, alarm_report, current_date, day, pushed>>
      /\ files' \subseteq files
  BY DEF SweepStore, Entry, bounds
<1>2. record_num' \in Nat
  BY <1>1, FileFacts DEF SweepStore, NumberOf, IInv, StoreType
<1>3. StoreType'
  BY <1>1, <1>2 DEF IInv, StoreType
<1>4. NumberInv'
  <2>1. CASE ~Today(f)
    BY <1>1, <2>1 DEF SweepStore, IInv, NumberInv, SameName
  <2>2. CASE Today(f) /\ f.num = Full
    <3>1. record_num' = 0
      BY <2>2 DEF SweepStore, NumberOf
    <3>2. QED BY <1>1, <3>1, Limits DEF NumberInv
  <2>3. CASE Today(f) /\ f.num # Full
    <3>1. record_num' = f.num /\ files' = files
      BY <2>3 DEF SweepStore, NumberOf
    <3>2. f.num < Full
      BY <2>3, FileFacts, Limits DEF IInv
    <3>3. f \in files' \cap seen' /\ SameName(f, record_num)'
      BY <1>1, <2>3, <3>1 DEF Today, SameName
    <3>4. QED BY <1>1, <3>1, <3>2, <3>3 DEF NumberInv
  <2>4. QED BY <2>1, <2>2, <2>3
<1>5. Storing' => Storing
  BY <1>1 DEF Storing
<1>6. QED BY <1>1, <1>3, <1>4, <1>5, FewerFiles DEF IInv

(* Opening may leave a new file without records, of number 0.               *)
LEMMA OpenStep ==
  ASSUME IInv, Open
  PROVE  IInv'
<1>1. /\ job = "store" /\ step = "sweep" /\ step' = "write"
      /\ UNCHANGED <<queue, job, alarm_report, current_date, record_num, day, pushed>>
  BY DEF Open, Swept, bounds
<1>2. CASE files' = files
  <2>1. StoreType' /\ NumberInv'
    BY <1>1, <1>2 DEF IInv, StoreType, NumberInv, SameName
  <2>2. Storing' => Storing
    BY <1>1 DEF Storing
  <2>3. QED BY <1>1, <1>2, <2>1, <2>2, FewerFiles DEF IInv
<1>3. ASSUME NEW g, g = [num |-> record_num, day |-> current_date, records |-> << >>],
             files' = files \cup {g}, ~ \E f \in files : SameName(f, record_num)
      PROVE  IInv'
  <2>1. record_num = 0
    BY <1>1, <1>3 DEF IInv, NumberInv
  <2>2. /\ g.num = 0 /\ g.day = current_date /\ g.records = << >> /\ SameName(g, 0)
        /\ DOMAIN g.records = {} /\ Len(g.records) = 0 /\ g.records \in Seq(Report)
    BY <1>3, <2>1 DEF SameName
  <2>3. g \in File
    BY <1>3, <2>1, Limits DEF File, IInv, StoreType
  <2>4. StoreType'
    BY <1>1, <1>3, <2>3 DEF IInv, StoreType
  <2>5. NamesHold' /\ NamesDiffer'
    BY <1>3, <2>1, <2>2 DEF IInv, NamesHold, NamesDiffer, SameName
  <2>6. NumberInv'
    BY <1>1, <2>1 DEF IInv, NumberInv
  <2>7. OrderInv' /\ RecordsOnce'
    BY <1>1, <1>3, <2>2 DEF IInv, OrderInv, RecordsOnce, InOrder, Storing
  <2>8. QED BY <2>4, <2>5, <2>6, <2>7 DEF IInv
<1>4. QED BY <1>2, <1>3 DEF Open

(* The record goes to the end of the file of the day, or into a new one;    *)
(* it is the newest of all.                                                 *)
LEMMA WriteStep ==
  ASSUME IInv, Write
  PROVE  IInv'
<1>1. /\ job = "store" /\ step = "write" /\ step' = "rename"
      /\ UNCHANGED <<queue, job, alarm_report, current_date, record_num, day, pushed>>
      /\ files' = {f \in files : ~SameName(f, record_num)} \cup {Written}
  BY DEF Write, bounds
<1>2. PICK num \in Nat : num = record_num /\ num < Full
  BY <1>1, Limits DEF IInv, StoreType, NumberInv
<1>3. PICK r \in Report : r = alarm_report /\ r <= pushed /\ \A i \in DOMAIN queue : r < queue[i]
  BY <1>1 DEF IInv, StoreType, OrderInv
<1>4. PICK old \in Seq(Report) :
        /\ Written = [num |-> num, day |-> current_date, records |-> Append(old, r)]
        /\ \/ old = << >> /\ ~ \E f \in files : SameName(f, num)
           \/ \E f \in files : SameName(f, num) /\ f.records = old
  <2>1. CASE \E f \in files : SameName(f, num)
    <3>1. PICK g \in files : SameName(g, num) /\ g = CHOOSE f \in files : SameName(f, num)
      BY <2>1
    <3>2. g.records \in Seq(Report)
      BY FileFacts DEF IInv
    <3>3. Written = [num |-> num, day |-> current_date, records |-> Append(g.records, r)]
      BY <1>2, <1>3, <2>1, <3>1 DEF Written
    <3>4. QED BY <3>1, <3>2, <3>3
  <2>2. CASE ~ \E f \in files : SameName(f, num)
    <3>1. Append(<< >>, r) = <<r>> /\ << >> \in Seq(Report)
      OBVIOUS
    <3>2. Written = [num |-> num, day |-> current_date, records |-> Append(<< >>, r)]
      BY <1>2, <1>3, <2>2, <3>1 DEF Written
    <3>3. QED BY <2>2, <3>1, <3>2
  <2>3. QED BY <2>1, <2>2
<1>5. PICK w : w = Written
  OBVIOUS
<1>6. /\ w.num = num /\ w.day = current_date /\ w.records = Append(old, r)
      /\ w.records \in Seq(Report) /\ Len(old) \in Nat /\ Len(w.records) = Len(old) + 1
      /\ DOMAIN old = 1 .. Len(old) /\ w.records[Len(old) + 1] = r
      /\ \A k \in DOMAIN w.records : k \in DOMAIN old \/ k = Len(old) + 1
      /\ \A k \in DOMAIN old : w.records[k] = old[k] /\ old[k] \in Report
      /\ SameName(w, num)
  <2>1. /\ w.num = num /\ w.day = current_date /\ w.records = Append(old, r)
    BY <1>4, <1>5
  <2>2. QED BY <2>1 DEF SameName
<1>7. \A f \in files' : f = w \/ (f \in files /\ ~SameName(f, num))
  BY <1>1, <1>2, <1>5
<1>8. old = << >> \/ \E f \in files : SameName(f, num) /\ f.records = old
  BY <1>4
<1>9. num <= Len(old)
  <2>1. CASE \E f \in files : SameName(f, num) /\ f.records = old
    BY <2>1 DEF IInv, NamesHold, SameName
  <2>2. CASE old = << >> /\ ~ \E f \in files : SameName(f, num)
    <3>1. num = 0
      BY <1>1, <1>2, <2>2 DEF IInv, NumberInv
    <3>2. QED BY <1>6, <3>1
  <2>3. QED BY <1>4, <2>1, <2>2
<1>10. StoreType'
  <2>1. w \in File
    BY <1>2, <1>4, <1>5, <1>6, Limits DEF File, IInv, StoreType
  <2>2. QED BY <1>1, <1>7, <2>1 DEF IInv, StoreType
<1>11. NamesHold'
  <2>1. w.num <= Len(w.records)
    BY <1>6, <1>9
  <2>2. QED BY <1>7, <2>1 DEF IInv, NamesHold
<1>12. NamesDiffer'
  BY <1>6, <1>7 DEF IInv, NamesDiffer, SameName
<1>13. NumberInv'
  <2>1. w \in files' /\ SameName(w, num) /\ num < Len(w.records)
    BY <1>1, <1>5, <1>6, <1>9
  <2>2. SameName(w, record_num)'
    BY <1>1, <1>2, <2>1 DEF SameName
  <2>3. QED BY <1>1, <1>2, <2>1, <2>2 DEF NumberInv
<1>14. \A k \in DOMAIN old : old[k] < r
  <2>1. \A f \in files : \A k \in DOMAIN f.records : f.records[k] < r
    BY <1>1, <1>3 DEF IInv, OrderInv, Storing
  <2>2. QED BY <1>8, <2>1
<1>15. OrderInv'
  <2>1. ASSUME NEW f \in files', NEW k \in DOMAIN f.records
        PROVE  f.records[k] <= pushed /\ \A i \in DOMAIN queue : f.records[k] < queue[i]
    <3>1. CASE f \in files
      BY <2>1, <3>1 DEF IInv, OrderInv
    <3>2. CASE f = w /\ k \in DOMAIN old
      <4>1. f.records[k] = old[k]
        BY <1>6, <3>2
      <4>2. PICK g \in files : g.records = old
        BY <1>8, <3>2
      <4>3. old[k] <= pushed /\ \A i \in DOMAIN queue : old[k] < queue[i]
        BY <3>2, <4>2 DEF IInv, OrderInv
      <4>4. QED BY <4>1, <4>3
    <3>3. CASE f = w /\ k = Len(old) + 1
      BY <1>3, <1>6, <3>3
    <3>4. QED BY <1>6, <1>7, <2>1, <3>1, <3>2, <3>3
  <2>2. ~Storing'
    BY <1>1 DEF Storing
  <2>3. QED BY <1>1, <2>1, <2>2 DEF IInv, OrderInv
<1>16. InOrder(w.records)
  <2>1. InOrder(old)
    BY <1>8 DEF IInv, RecordsOnce, InOrder
  <2>2. QED BY <1>6, <1>14, <2>1 DEF InOrder
<1>17. \A f \in files' \ {w} : \A k \in DOMAIN f.records, l \in DOMAIN w.records :
         f.records[k] # w.records[l]
  <2>1. ASSUME NEW f \in files, ~SameName(f, num), NEW k \in DOMAIN f.records,
               NEW l \in DOMAIN w.records, f.records[k] = w.records[l]
        PROVE  FALSE
    <3>1. f.records[k] < r /\ f.records[k] \in Nat
      BY <1>1, <1>3, FileFacts DEF IInv, OrderInv, Storing
    <3>2. l \in DOMAIN old /\ w.records[l] = old[l]
      BY <1>6, <2>1, <3>1 DEF Report
    <3>3. PICK g \in files : SameName(g, num) /\ g.records = old
      BY <1>8, <3>2
    <3>4. f = g
      BY <2>1, <3>2, <3>3 DEF IInv, RecordsOnce
    <3>5. QED BY <2>1, <3>3, <3>4
  <2>2. QED BY <1>7, <2>1
<1>18. RecordsOnce'
  BY <1>7, <1>16, <1>17 DEF IInv, RecordsOnce
<1>19. QED BY <1>10, <1>11, <1>12, <1>13, <1>15, <1>18 DEF IInv

(* Renaming gives the file the next number, which its records reach, or     *)
(* deletes the one that is in the way.                                      *)
LEMMA RenameStep ==
  ASSUME IInv, Rename
  PROVE  IInv'
<1>1. /\ job = "store" /\ step = "rename" /\ job' = "none" /\ step' = "sweep"
      /\ UNCHANGED <<queue, current_date, day, pushed>>
  BY DEF Rename, End, bounds
<1>2. ~Storing' /\ (Storing' => Storing) /\ NumberInv'
  BY <1>1 DEF Storing, NumberInv
<1>3. CASE \E f \in files : SameName(f, NextNumber)
  <2>1. files' \subseteq files
    BY <1>3 DEF Rename
  <2>2. StoreType'
    BY <1>1, <2>1 DEF IInv, StoreType
  <2>3. QED BY <1>1, <1>2, <2>1, <2>2, FewerFiles DEF IInv
<1>4. CASE ~ \E f \in files : SameName(f, NextNumber)
  <2>1. PICK num \in Nat : num = record_num /\ num < Full
    BY <1>1, Limits DEF IInv, StoreType, NumberInv
  <2>2. NextNumber = num + 1
    BY <2>1, Limits DEF NextNumber
  <2>3. PICK g \in files : SameName(g, num) /\ num < Len(g.records)
    BY <1>1, <2>1 DEF IInv, NumberInv
  <2>4. \A f \in files : SameName(f, num) => f = g
    BY <2>3 DEF IInv, NamesDiffer, SameName
  <2>5. PICK h : h = [g EXCEPT !.num = num + 1]
    OBVIOUS
  <2>6. g \in File /\ g.records \in Seq(Report) /\ g.day = current_date /\ g.num = num
        /\ Len(g.records) \in Nat
    BY <2>3, FileFacts DEF IInv, SameName
  <2>7. h \in File /\ h.num = num + 1 /\ h.day = current_date /\ h.records = g.records
    BY <2>1, <2>5, <2>6, Limits DEF File
  <2>8. files' = (files \ {g}) \cup {h}
    <3>1. files' = {IF SameName(f, num) THEN [f EXCEPT !.num = num + 1] ELSE f : f \in files}
      BY <1>4, <2>1, <2>2 DEF Rename
    <3>2. \A f \in files \ {g} : ~SameName(f, num)
      BY <2>4
    <3>3. QED BY <2>3, <2>5, <3>1, <3>2
  <2>9. StoreType'
    BY <1>1, <2>7, <2>8 DEF IInv, StoreType
  <2>10. NamesHold'
    <3>1. h.num <= Len(h.records)
      BY <2>3, <2>6, <2>7
    <3>2. QED BY <2>8, <3>1 DEF IInv, NamesHold
  <2>11. NamesDiffer'
    <3>1. \A f \in files : ~(f.num = h.num /\ f.day = h.day)
      BY <1>4, <2>2, <2>7 DEF SameName
    <3>2. QED BY <2>8, <3>1 DEF IInv, NamesDiffer
  <2>12. OrderInv'
    BY <1>1, <1>2, <2>3, <2>7, <2>8 DEF IInv, OrderInv
  <2>13. RecordsOnce'
    BY <2>3, <2>7, <2>8 DEF IInv, RecordsOnce
  <2>14. QED BY <1>2, <2>9, <2>10, <2>11, <2>12, <2>13 DEF IInv
<1>5. QED BY <1>3, <1>4

LEMMA RecvStep ==
  ASSUME IInv, RecvAndStoreAlarmReport
  PROVE  IInv'
<1>1. /\ queue # << >> /\ alarm_report' = Head(queue) /\ queue' = Tail(queue)
      /\ job' = "store" /\ step' = "sweep" /\ current_date' = day /\ record_num' = 0
      /\ UNCHANGED <<files, pushed, day>>
  BY DEF RecvAndStoreAlarmReport, Begin, bounds
<1>2. /\ queue \in Seq(Report) /\ DOMAIN queue = 1 .. Len(queue) /\ Len(queue) \in Nat \ {0}
      /\ Tail(queue) \in Seq(Report) /\ DOMAIN Tail(queue) = 1 .. Len(queue) - 1
      /\ Head(queue) = queue[1] /\ 1 \in DOMAIN queue /\ queue[1] \in Report
      /\ \A i \in DOMAIN Tail(queue) : Tail(queue)[i] = queue[i + 1] /\ i + 1 \in DOMAIN queue /\ 1 < i + 1
  BY <1>1 DEF IInv, StoreType
<1>3. StoreType'
  BY <1>1, <1>2 DEF IInv, StoreType
<1>4. NamesHold' /\ NamesDiffer' /\ RecordsOnce'
  BY <1>1 DEF IInv, NamesHold, NamesDiffer, RecordsOnce
<1>5. NumberInv'
  BY <1>1, Limits DEF NumberInv
<1>6. OrderInv'
  <2>1. InOrder(Tail(queue))
    BY <1>2 DEF IInv, OrderInv, InOrder
  <2>2. Head(queue) <= pushed /\ \A i \in DOMAIN Tail(queue) : Head(queue) < Tail(queue)[i]
                                                               /\ Tail(queue)[i] <= pushed
    BY <1>2 DEF IInv, OrderInv, InOrder
  <2>3. \A f \in files : \A k \in DOMAIN f.records :
          /\ f.records[k] <= pushed /\ f.records[k] < Head(queue)
          /\ \A i \in DOMAIN Tail(queue) : f.records[k] < Tail(queue)[i]
    BY <1>2 DEF IInv, OrderInv
  <2>4. QED BY <1>1, <2>1, <2>2, <2>3 DEF OrderInv
<1>7. QED BY <1>3, <1>4, <1>5, <1>6 DEF IInv

LEMMA PushStep ==
  ASSUME IInv, PushAlarmReport
  PROVE  IInv'
<1>1. /\ queue' = Append(queue, pushed + 1) /\ pushed' = pushed + 1 /\ pushed < MaxReport
      /\ UNCHANGED <<files, job, step, alarm_report, current_date, seen, record_num, day>>
  BY DEF PushAlarmReport, work
<1>2. PICK n \in Report : n = pushed + 1 /\ pushed \in Nat
  BY <1>1, Limits DEF IInv, StoreType, Report
<1>3. /\ queue \in Seq(Report) /\ DOMAIN queue = 1 .. Len(queue) /\ Len(queue) \in Nat
      /\ queue' \in Seq(Report) /\ queue'[Len(queue) + 1] = n
      /\ \A i \in DOMAIN queue' : i \in DOMAIN queue \/ i = Len(queue) + 1
      /\ \A i \in DOMAIN queue : queue'[i] = queue[i] /\ queue[i] \in Nat
  <2>1. queue \in Seq(Report) /\ queue' = Append(queue, n)
    BY <1>1, <1>2 DEF IInv, StoreType
  <2>2. \A r \in Report : r \in Nat
    BY DEF Report
  <2>3. QED BY <2>1, <2>2
<1>4. StoreType' /\ NamesHold' /\ NamesDiffer' /\ RecordsOnce' /\ NumberInv'
  <2>1. pushed' \in 0 .. MaxReport
    BY <1>1, <1>2, Limits
  <2>2. StoreType'
    BY <1>1, <1>3, <2>1 DEF IInv, StoreType
  <2>3. NamesHold' /\ NamesDiffer' /\ RecordsOnce'
    BY <1>1 DEF IInv, NamesHold, NamesDiffer, RecordsOnce
  <2>4. NumberInv'
    BY <1>1 DEF IInv, NumberInv, SameName
  <2>5. QED BY <2>2, <2>3, <2>4
<1>5. OrderInv'
  <2>1. \A i \in DOMAIN queue : queue[i] < n
    BY <1>2, <1>3 DEF IInv, OrderInv
  <2>2. InOrder(queue')
    BY <1>3, <2>1 DEF IInv, OrderInv, InOrder
  <2>3. \A i \in DOMAIN queue' : queue'[i] <= n
    BY <1>2, <1>3, <2>1 DEF Report
  <2>4. job = "store" => alarm_report < n /\ \A i \in DOMAIN queue' : alarm_report < queue'[i]
    <3>1. job = "store" => alarm_report \in Nat /\ alarm_report <= pushed
      BY DEF IInv, OrderInv, StoreType, Report
    <3>2. job = "store" => alarm_report < n
      BY <1>2, <3>1
    <3>3. QED BY <1>3, <3>2 DEF IInv, OrderInv
  <2>5. \A f \in files : \A k \in DOMAIN f.records :
          /\ f.records[k] \in Nat /\ f.records[k] <= pushed
          /\ Storing => f.records[k] < alarm_report
    BY FileFacts DEF IInv, OrderInv
  <2>6. \A f \in files : \A k \in DOMAIN f.records :
          f.records[k] < n /\ \A i \in DOMAIN queue' : f.records[k] < queue'[i]
    BY <1>2, <1>3, <2>5 DEF IInv, OrderInv
  <2>7. \A m \in Nat : m < n => m <= n
    BY <1>2 DEF Report
  <2>8. job = "store" => alarm_report <= n
    BY <2>4, <2>7 DEF IInv, StoreType, Report
  <2>9. pushed' = n /\ (Storing' <=> Storing)
    BY <1>1, <1>2 DEF Storing
  <2>10. \A f \in files : \A k \in DOMAIN f.records : f.records[k] <= n
    BY <2>5, <2>6, <2>7
  <2>11. QED BY <1>1, <2>2, <2>3, <2>4, <2>5, <2>6, <2>8, <2>9, <2>10 DEF OrderInv
<1>6. QED BY <1>4, <1>5 DEF IInv

-----------------------------------------------------------------------------
LEMMA StepInv == IInv /\ [Next]_vars => IInv'
<1> SUFFICES ASSUME IInv, [Next]_vars PROVE IInv'
  OBVIOUS
<1>1. StoreType
  BY DEF IInv
<1>2. ASSUME NEW f \in files, SweepCount(f) \/ SweepSend(f)
      PROVE  IInv'
  BY <1>1, <1>2, Elsewhere DEF SweepCount, SweepSend, StoreType, bounds
<1>3. ASSUME NEW f \in files, SweepSendNoMemory(f)
      PROVE  IInv'
  BY <1>1, <1>3, Elsewhere DEF SweepSendNoMemory, End, StoreType
<1>4. CASE SweepStep
  BY <1>2, <1>3, <1>4, SweepOldStep, SweepStoreStep DEF SweepStep
<1>5. CASE Counted \/ Send
  BY <1>1, <1>5, Elsewhere DEF Counted, Send, End, StoreType, bounds
<1>6. CASE RecvAndSendEventHistoryToServer \/ GetAlarmReportHistory
  BY <1>1, <1>6, Elsewhere
     DEF RecvAndSendEventHistoryToServer, GetAlarmReportHistory, Begin, StoreType, bounds
<1>7. CASE Midnight \/ SetClock
  <2>1. day' \in Day
    BY <1>1, <1>7, Limits DEF Midnight, SetClock, StoreType, Day
  <2>2. QED BY <1>7, <2>1, StoringKept DEF Midnight, SetClock, work, bounds
<1>8. CASE Crash
  BY <1>1, <1>8, Elsewhere DEF Crash, End, StoreType
<1>9. CASE UNCHANGED vars
  BY <1>1, <1>9, StoringKept DEF vars, work, bounds, StoreType
<1>10. QED BY <1>4, <1>5, <1>6, <1>7, <1>8, <1>9, OpenStep, WriteStep, RenameStep, RecvStep, PushStep
           DEF Next, Jobs

(* Names and numbers, order and places hold together at every step of       *)
(* StoreAlarmToSpiFlash, whatever query or power failure comes between.     *)
THEOREM Invariance == Spec => []IInv
<1>1. Init => IInv
  BY InitInv
<1>2. IInv /\ [Next]_vars => IInv'
  BY StepInv
<1>3. QED BY <1>1, <1>2, PTL DEF Spec

(* The number in the name of a file is never more than its records, through *)
(* power failures at any step, deletions and clocks set back: what a query  *)
(* is told is there.  It is the first half of NamesCount.                   *)
THEOREM NamesAlwaysHold == Spec => []NamesHold
<1>1. IInv => NamesHold
  BY DEF IInv
<1>2. QED BY <1>1, Invariance, PTL

(* A record is never in two files nor twice in one, and a file holds its    *)
(* records in the order in which they were pushed.                          *)
THEOREM RecordsAlwaysOnce == Spec => []RecordsOnce
<1>1. IInv => RecordsOnce
  BY DEF IInv
<1>2. QED BY <1>1, Invariance, PTL

-----------------------------------------------------------------------------
(* Days and counts.  A day has one file, the one the sweep found: a new one *)
(* is made only when there is none.                                         *)
OneADay == \A f, g \in files : f.day = g.day => f = g

DayInv ==
  job = "store" =>
    /\ step = "sweep" => \A f \in files \cap seen : f.day = current_date => f.num = record_num
    /\ step # "sweep" => \A f \in files : f.day = current_date => f.num = record_num

(* The name of a file counts no more records than were to be stored on its  *)
(* day, the one being stored not yet among them.                            *)
BegunInv ==
  /\ \A f \in files : f.num <= begun[f.day]
  /\ job = "store" =>
       /\ record_num < begun[current_date]
       /\ \A f \in files : f.day = current_date => f.num < begun[current_date]

(* A record is in the file of the day on which it was stored; with a clock  *)
(* that only runs forward that is no later day.                             *)
StoredInv == \A f \in files : \A k \in DOMAIN f.records : stored[f.records[k]] = f.day

ClockInv ==
  sets = 0 => /\ current_date <= day
              /\ \A r \in Report : stored[r] <= current_date
              /\ \A f \in files : f.day <= current_date

(* The days between two days as the program counts them, of which Age is one *)
(* example.                                                                 *)
Between(d, e) == get_days_by_calendar(e) - get_days_by_calendar(d)

Found(r) == \E f \in files : \E k \in DOMAIN f.records : f.records[k] = r

KeptInv ==
  sets = 0 =>
    \A r \in Report :
      stored[r] # 0 /\ Between(stored[r], day) < Keep /\ begun[stored[r]] <= Full => Found(r)

(* The records no name counts: one for each power failure, and the one that *)
(* is written while its file is still to be renamed.                        *)
Unnamed == {r \in Report :
              \E f \in files : \E k \in f.num + 1 .. Len(f.records) : f.records[k] = r}
Slack == IF job = "store" /\ step = "rename" THEN 1 ELSE 0

NameBound == Cardinality(Unnamed) <= crashes + Slack

HistoryType ==
  /\ stored \in [Report -> Day \cup {0}] /\ begun \in [Day -> Nat]
  /\ crashes \in Nat /\ sets \in Nat

DInv ==
  /\ HistoryType /\ OneADay /\ DayInv /\ BegunInv
  /\ StoredInv /\ ClockInv /\ KeptInv /\ NameBound

LEMMA DayFacts ==
  /\ Keep \in Nat \ {0}
  /\ \A d \in Day : d \in Nat /\ d >= 1
BY HistoryAssumption DEF HistoryAssumption, Day

(* The numbers of the days never fall as days pass, and grow by one a day    *)
(* and no more than one besides, into a leap year.                          *)
LEMMA NumbersOfDays ==
  /\ \A d, e \in Day : Between(d, e) \in Int /\ (d <= e => Between(d, e) >= 0)
  /\ \A d, e, x \in Day : e <= x => Between(d, e) <= Between(d, x)
  /\ \A d, e \in Day : d \in LeapDays \/ e \notin LeapDays => Between(d, e) <= e - d
  /\ \A d, e \in Day : Between(d, e) <= e - d + 1
<1>1. \A d \in Day : d \in Nat /\ days_of_year(d) \in {365, 366}
  BY DayFacts DEF days_of_year
<1>2. \A d, e \in Day : Between(d, e) = (e + days_of_year(e)) - (d + days_of_year(d))
  BY DEF Between, get_days_by_calendar
<1>3. \A d, e \in Day : Between(d, e) \in Int /\ (d <= e => Between(d, e) >= 0)
  <2> SUFFICES ASSUME NEW d \in Day, NEW e \in Day
               PROVE  Between(d, e) \in Int /\ (d <= e => Between(d, e) >= 0)
    OBVIOUS
  <2>1. CASE d = e
    BY <1>1, <1>2, <2>1
  <2>2. CASE d # e
    BY <1>1, <1>2, <2>2
  <2>3. QED BY <2>1, <2>2
<1>4. \A d, e, x \in Day : e <= x => Between(d, e) <= Between(d, x)
  <2> SUFFICES ASSUME NEW d \in Day, NEW e \in Day, NEW x \in Day, e <= x
               PROVE  Between(d, e) <= Between(d, x)
    OBVIOUS
  <2>1. CASE e = x
    BY <1>3, <2>1
  <2>2. CASE e # x
    BY <1>1, <1>2, <2>2
  <2>3. QED BY <2>1, <2>2
<1>5. \A d, e \in Day : d \in LeapDays \/ e \notin LeapDays => Between(d, e) <= e - d
  <2> SUFFICES ASSUME NEW d \in Day, NEW e \in Day, d \in LeapDays \/ e \notin LeapDays
               PROVE  Between(d, e) <= e - d
    OBVIOUS
  <2>1. days_of_year(e) <= days_of_year(d)
    BY DEF days_of_year
  <2>2. QED BY <1>1, <1>2, <2>1
<1>6. \A d, e \in Day : Between(d, e) <= e - d + 1
  BY <1>1, <1>2
<1>7. QED BY <1>3, <1>4, <1>5, <1>6

(* There are finitely many reports, and so many that no name counts.        *)
LEMMA Finitely ==
  ASSUME NEW S, NEW T \in SUBSET Report, S \subseteq T
  PROVE  /\ IsFiniteSet(T) /\ Cardinality(T) \in Nat /\ Cardinality(S) \in Nat
         /\ IsFiniteSet(S) /\ Cardinality(S) <= Cardinality(T)
<1>1. IsFiniteSet(Report)
  BY Limits, FS_Interval DEF Report
<1>2. IsFiniteSet(T)
  BY <1>1, FS_Subset
<1>3. IsFiniteSet(S) /\ Cardinality(S) <= Cardinality(T)
  BY <1>2, FS_Subset
<1>4. QED BY <1>2, <1>3, FS_CardinalityType

LEMMA UnnamedReports ==
  Unnamed \in SUBSET Report /\ IsFiniteSet(Unnamed) /\ Cardinality(Unnamed) \in Nat
<1>1. Unnamed \in SUBSET Report
  BY DEF Unnamed
<1>2. QED BY <1>1, Finitely

LEMMA DInit == Init => DInv
<1> SUFFICES ASSUME Init PROVE DInv
  OBVIOUS
<1>1. /\ files = {} /\ job = "none" /\ crashes = 0 /\ sets = 0 /\ day = 1 /\ current_date = 1
      /\ stored = [r \in Report |-> 0] /\ begun = [d \in Day |-> 0]
  BY DEF Init
<1>2. HistoryType
  BY <1>1 DEF HistoryType
<1>3. OneADay /\ DayInv /\ StoredInv
  BY <1>1 DEF OneADay, DayInv, StoredInv
<1>4. BegunInv
  BY <1>1 DEF BegunInv
<1>5. ClockInv /\ KeptInv
  BY <1>1 DEF ClockInv, KeptInv
<1>6. NameBound
  <2>1. Unnamed = {}
    BY <1>1 DEF Unnamed
  <2>2. Cardinality(Unnamed) = 0 /\ Slack = 0
    BY <1>1, <2>1, FS_EmptySet DEF Slack
  <2>3. QED BY <1>1, <2>2 DEF NameBound
<1>7. QED BY <1>2, <1>3, <1>4, <1>5, <1>6 DEF DInv

(* The bound holds on when no more records are left out, ...                *)
LEMMA BoundKept ==
  ASSUME DInv, Unnamed' \subseteq Unnamed, crashes' \in Nat,
         crashes' + Slack' >= crashes + Slack
  PROVE  NameBound'
<1>1. Cardinality(Unnamed') <= Cardinality(Unnamed) /\ Cardinality(Unnamed') \in Nat
  BY UnnamedReports, Finitely
<1>2. Cardinality(Unnamed) \in Nat /\ Cardinality(Unnamed) <= crashes + Slack
  BY UnnamedReports DEF DInv, NameBound
<1>3. Slack \in {0, 1} /\ Slack' \in {0, 1} /\ crashes \in Nat
  BY DEF Slack, DInv, HistoryType
<1>4. \A m, n, c, e \in Nat, s, t \in {0, 1} :
        m <= n /\ n <= c + s /\ e + t >= c + s => m <= e + t
  OBVIOUS
<1>5. Cardinality(Unnamed') <= crashes' + Slack'
  BY <1>1, <1>2, <1>3, <1>4
<1>6. QED BY <1>5 DEF NameBound

(* ... as are the records that are to be found.                             *)
LEMMA FoundKept ==
  ASSUME StoreType, DInv, sets' = 0 => sets = 0 /\ day' >= day, day' \in Day,
         UNCHANGED stored, \A d \in Day : begun'[d] >= begun[d] /\ begun'[d] \in Nat,
         \A r \in Report : Found(r) => Found(r)'
  PROVE  KeptInv'
<1> SUFFICES ASSUME sets' = 0, NEW r \in Report, stored[r] # 0,
                    Between(stored[r], day') < Keep,
                    begun'[stored[r]] <= Full
             PROVE  Found(r)'
  BY DEF KeptInv, Between
<1>1. stored[r] \in Day /\ day \in Day /\ day \in Nat /\ day' \in Nat
  BY DayFacts DEF DInv, HistoryType, StoreType
<1>2. Between(stored[r], day) < Keep
  <2>1. Between(stored[r], day) <= Between(stored[r], day')
    BY <1>1, NumbersOfDays
  <2>2. Between(stored[r], day) \in Int /\ Between(stored[r], day') \in Int
    BY <1>1, NumbersOfDays
  <2>3. QED BY <2>1, <2>2, DayFacts
<1>3. begun[stored[r]] \in Nat
  BY <1>1 DEF DInv, HistoryType
<1>4. begun[stored[r]] <= Full
  <2>1. begun'[stored[r]] >= begun[stored[r]] /\ begun'[stored[r]] \in Nat
    BY <1>1
  <2>2. begun'[stored[r]] <= Full
    OBVIOUS
  <2>3. QED BY <1>3, <2>1, <2>2, Limits
<1>5. QED BY <1>2, <1>4 DEF DInv, KeptInv

(* Steps that leave the files alone.                                        *)
LEMMA DElsewhere ==
  ASSUME StoreType, DInv, UNCHANGED <<files, stored, begun>>, day' \in Day,
         job' = "store" => UNCHANGED <<job, step, current_date, seen, record_num>>,
         sets' = 0 => sets = 0 /\ day' >= day /\ current_date' \in {current_date, day},
         sets' \in Nat, crashes' \in Nat, crashes' + Slack' >= crashes + Slack
  PROVE  DInv'
<1>1. HistoryType' /\ OneADay' /\ StoredInv'
  BY DEF DInv, HistoryType, OneADay, StoredInv
<1>2. DayInv' /\ BegunInv'
  BY DEF DInv, DayInv, BegunInv
<1>3. ClockInv'
  <2>1. ASSUME sets' = 0
        PROVE  /\ current_date' <= day' /\ \A r \in Report : stored[r] <= current_date'
               /\ \A f \in files : f.day <= current_date'
    <3>1. day \in Nat /\ day' \in Nat /\ current_date \in Nat
      BY DayFacts DEF StoreType
    <3>2. (\A r \in Report : stored[r] \in Nat) /\ \A f \in files : f.day \in Nat
      BY DayFacts, FileFacts DEF DInv, HistoryType
    <3>3. /\ day' >= day /\ current_date' \in {current_date, day} /\ current_date <= day
          /\ \A r \in Report : stored[r] <= current_date
          /\ \A f \in files : f.day <= current_date
      BY <2>1 DEF DInv, ClockInv
    <3>4. QED BY <3>1, <3>2, <3>3
  <2>2. QED BY <2>1 DEF ClockInv
<1>4. KeptInv'
  <2>1. \A d \in Day : begun'[d] >= begun[d] /\ begun'[d] \in Nat
    BY DEF DInv, HistoryType
  <2>2. \A r \in Report : Found(r) => Found(r)'
    BY DEF Found
  <2>3. QED BY <2>1, <2>2, FoundKept
<1>5. NameBound'
  <2>1. Unnamed' = Unnamed
    BY DEF Unnamed
  <2>2. QED BY <2>1, BoundKept
<1>6. QED BY <1>1, <1>2, <1>3, <1>4, <1>5 DEF DInv

(* A file that is deleted was too old, or holds more than its number tells. *)
LEMMA Deleted ==
  ASSUME IInv, DInv, NEW f \in files, files \ {f} \subseteq files', files' \subseteq files,
         UNCHANGED <<stored, begun, sets, day, crashes, job, step, current_date>>,
         f \notin files' /\ sets = 0 => Between(f.day, day) >= Keep \/ begun[f.day] > Full
  PROVE  HistoryType' /\ OneADay' /\ StoredInv' /\ ClockInv' /\ KeptInv' /\ NameBound'
<1>1. HistoryType' /\ OneADay' /\ ClockInv' /\ StoredInv'
  BY DEF DInv, HistoryType, OneADay, ClockInv, StoredInv
<1>2. KeptInv'
  <2> SUFFICES ASSUME sets = 0, NEW r \in Report, stored[r] # 0, Between(stored[r], day) < Keep,
                      begun[stored[r]] <= Full
               PROVE  Found(r)'
    BY DEF KeptInv, Between
  <2>1. PICK g \in files : \E k \in DOMAIN g.records : g.records[k] = r
    BY DEF DInv, KeptInv, Found
  <2>2. stored[r] = g.day
    BY <2>1 DEF DInv, StoredInv
  <2>3. g \in files'
    <3>1. Between(g.day, day) \in Int /\ begun[g.day] \in Nat
      BY FileFacts, NumbersOfDays DEF IInv, StoreType, DInv, HistoryType
    <3>2. ~(Between(g.day, day) >= Keep) /\ ~(begun[g.day] > Full)
      BY <2>2, <3>1, DayFacts, Limits
    <3>3. QED BY <3>2
  <2>4. QED BY <2>1, <2>3 DEF Found
<1>3. NameBound'
  <2>1. Unnamed' \subseteq Unnamed
    BY DEF Unnamed
  <2>2. Slack' = Slack /\ crashes \in Nat /\ Slack \in {0, 1}
    BY DEF Slack, DInv, HistoryType
  <2>3. QED BY <2>1, <2>2, BoundKept
<1>4. QED BY <1>1, <1>2, <1>3

LEMMA DSweepOld ==
  ASSUME IInv, DInv, NEW f \in files, SweepOld(f)
  PROVE  DInv'
<1>1. /\ files' = files \ {f} /\ job # "none" /\ step = "sweep" /\ TooOld(f)
      /\ UNCHANGED <<job, step, current_date, seen, record_num, day, stored, begun, crashes, sets>>
  BY DEF SweepOld, Entry, work, bounds, history
<1>2. sets = 0 => Between(f.day, day) >= Keep \/ begun[f.day] > Full
  <2>1. f.day \in Day /\ current_date \in Day /\ day \in Day
    BY FileFacts DEF IInv, StoreType
  <2>2. ASSUME sets = 0 PROVE Between(f.day, day) >= Keep
    <3>1. /\ current_date <= day /\ f.day <= current_date
          /\ Between(f.day, current_date) >= Keep \/ Between(f.day, current_date) < 0
      BY <1>1, <2>2 DEF TooOld, Age, Between, DInv, ClockInv
    <3>2. /\ Between(f.day, current_date) \in Int /\ Between(f.day, current_date) >= 0
          /\ Between(f.day, day) \in Int /\ Between(f.day, current_date) <= Between(f.day, day)
      BY <2>1, <3>1, NumbersOfDays
    <3>3. QED BY <3>1, <3>2, DayFacts
  <2>3. QED BY <2>2
<1>3. HistoryType' /\ OneADay' /\ StoredInv' /\ ClockInv' /\ KeptInv' /\ NameBound'
  BY <1>1, <1>2, Deleted
<1>4. DayInv' /\ BegunInv'
  BY <1>1 DEF DInv, DayInv, BegunInv
<1>5. QED BY <1>3, <1>4 DEF DInv

LEMMA DSweepStore ==
  ASSUME IInv, DInv, NEW f \in files, SweepStore(f)
  PROVE  DInv'
<1>1. /\ job = "store" /\ step = "sweep" /\ seen' = seen \cup {f} /\ ~TooOld(f)
      /\ UNCHANGED <<job, step, current_date, day, stored, begun, crashes, sets>>
  BY DEF SweepStore, Entry, bounds, history
<1>2. /\ record_num \in Nat /\ begun[current_date] \in Nat /\ record_num < begun[current_date]
      /\ f.num \in Nat /\ begun[f.day] \in Nat
  BY <1>1, FileFacts DEF IInv, StoreType, DInv, HistoryType, BegunInv
<1>3. CASE f.day # current_date
  <2>1. files' = files /\ record_num' = record_num
    BY <1>3 DEF SweepStore, Today
  <2>2. HistoryType' /\ OneADay' /\ StoredInv' /\ ClockInv' /\ KeptInv' /\ NameBound'
    BY <1>1, <2>1, Deleted
  <2>3. DayInv' /\ BegunInv'
    BY <1>1, <1>3, <2>1 DEF DInv, DayInv, BegunInv
  <2>4. QED BY <2>2, <2>3 DEF DInv
<1>4. CASE f.day = current_date
  <2>1. Today(f)
    BY <1>1, <1>4 DEF Today
  <2>2. /\ record_num' = NumberOf(f)
        /\ files' = IF f.num = Full THEN files \ {f} ELSE files
    BY <2>1 DEF SweepStore
  <2>3. f.num < begun[current_date]
    BY <1>1, <1>4 DEF DInv, BegunInv
  <2>4. HistoryType' /\ OneADay' /\ StoredInv' /\ ClockInv' /\ KeptInv' /\ NameBound'
    <3>1. f \notin files' => begun[f.day] > Full
      BY <1>2, <1>4, <2>2, <2>3, Limits
    <3>2. files \ {f} \subseteq files' /\ files' \subseteq files
      BY <2>2
    <3>3. QED BY <1>1, <3>1, <3>2, Deleted
  <2>5. BegunInv'
    <3>1. record_num' < begun[current_date]
      BY <1>2, <2>2, <2>3 DEF NumberOf
    <3>2. files' \subseteq files
      BY <2>2
    <3>3. QED BY <1>1, <3>1, <3>2 DEF DInv, BegunInv
  <2>6. DayInv'
    <3>1. ASSUME NEW g \in files', g.day = current_date PROVE g.num = record_num'
      <4>1. g = f
        BY <1>4, <2>2, <3>1 DEF DInv, OneADay
      <4>2. f.num # Full
        BY <2>2, <4>1
      <4>3. QED BY <2>2, <4>1, <4>2 DEF NumberOf
    <3>2. QED BY <1>1, <3>1 DEF DayInv
  <2>7. QED BY <2>4, <2>5, <2>6 DEF DInv
<1>5. QED BY <1>3, <1>4

LEMMA DOpen ==
  ASSUME IInv, DInv, Open
  PROVE  DInv'
<1>1. /\ job = "store" /\ step = "sweep" /\ files \subseteq seen /\ step' = "write"
      /\ UNCHANGED <<job, current_date, seen, record_num, day, stored, begun, crashes, sets>>
  BY DEF Open, Swept, bounds, history
<1>2. \A f \in files : f.day = current_date => f.num = record_num
  BY <1>1 DEF DInv, DayInv
<1>3. /\ record_num \in Nat /\ begun[current_date] \in Nat /\ record_num < begun[current_date]
      /\ current_date \in Day /\ day \in Day /\ day \in Nat /\ crashes \in Nat
  BY <1>1, DayFacts DEF IInv, StoreType, DInv, HistoryType, BegunInv
<1>4. HistoryType' /\ ClockInv'
  <2>1. current_date <= current_date
    BY <1>3, DayFacts
  <2>2. \A f \in files' : f \in files \/ f.day = current_date
    BY DEF Open
  <2>3. QED BY <1>1, <2>1, <2>2 DEF DInv, HistoryType, ClockInv
<1>5. Slack = 0 /\ Slack' = 0
  BY <1>1 DEF Slack
<1>6. \A d \in Day : begun'[d] >= begun[d] /\ begun'[d] \in Nat
  BY <1>1 DEF DInv, HistoryType
<1>7. CASE files' = files
  <2>1. DayInv' /\ BegunInv' /\ OneADay' /\ StoredInv'
    BY <1>1, <1>2, <1>7 DEF DInv, DayInv, BegunInv, OneADay, StoredInv
  <2>2. \A r \in Report : Found(r) => Found(r)'
    BY <1>7 DEF Found
  <2>3. KeptInv'
    BY <1>1, <1>3, <1>6, <2>2, FoundKept DEF IInv
  <2>4. Unnamed' = Unnamed
    BY <1>7 DEF Unnamed
  <2>5. NameBound'
    BY <1>1, <1>3, <1>5, <2>4, BoundKept
  <2>6. QED BY <1>4, <2>1, <2>3, <2>5 DEF DInv
<1>8. ASSUME NEW g, g = [num |-> record_num, day |-> current_date, records |-> << >>],
             files' = files \cup {g}, ~ \E f \in files : SameName(f, record_num)
      PROVE  DInv'
  <2>1. /\ g.num = record_num /\ g.day = current_date /\ DOMAIN g.records = {}
        /\ Len(g.records) = 0
    BY <1>8
  <2>2. \A f \in files : f.day # current_date
    BY <1>2, <1>8 DEF SameName
  <2>3. OneADay' /\ StoredInv' /\ DayInv'
    BY <1>1, <1>8, <2>1, <2>2 DEF DInv, OneADay, StoredInv, DayInv
  <2>4. BegunInv'
    BY <1>1, <1>3, <1>8, <2>1 DEF DInv, BegunInv
  <2>5. \A r \in Report : Found(r) => Found(r)'
    BY <1>8 DEF Found
  <2>6. KeptInv'
    BY <1>1, <1>3, <1>6, <2>5, FoundKept DEF IInv
  <2>7. Unnamed' \subseteq Unnamed
    <3>1. ~ \E k \in g.num + 1 .. Len(g.records) : TRUE
      BY <1>3, <2>1
    <3>2. QED BY <1>8, <3>1 DEF Unnamed
  <2>8. NameBound'
    BY <1>1, <1>3, <1>5, <2>7, BoundKept
  <2>9. QED BY <1>4, <2>3, <2>4, <2>6, <2>8 DEF DInv
<1>9. QED BY <1>7, <1>8 DEF Open

LEMMA DRecv ==
  ASSUME IInv, DInv, RecvAndStoreAlarmReport
  PROVE  DInv'
<1>1. /\ job = "none" /\ job' = "store" /\ step' = "sweep" /\ current_date' = day
      /\ seen' = {} /\ record_num' = 0 /\ begun' = [begun EXCEPT ![day] = begun[day] + 1]
      /\ UNCHANGED <<files, day, stored, crashes, sets>>
  BY DEF RecvAndStoreAlarmReport, Begin, bounds
<1>2. /\ day \in Day /\ day \in Nat /\ begun \in [Day -> Nat] /\ begun[day] \in Nat
      /\ current_date \in Nat /\ crashes \in Nat
  BY DayFacts DEF IInv, StoreType, DInv, HistoryType
<1>3. \A d \in Day : begun'[d] >= begun[d] /\ begun'[d] \in Nat /\ begun[d] \in Nat
  BY <1>1, <1>2
<1>4. begun'[day] = begun[day] + 1
  BY <1>1, <1>2
<1>5. HistoryType' /\ OneADay' /\ StoredInv' /\ DayInv'
  BY <1>1, <1>2, <1>3 DEF DInv, HistoryType, OneADay, StoredInv, DayInv
<1>6. BegunInv'
  <2>1. ASSUME NEW f \in files
        PROVE  f.num <= begun'[f.day] /\ (f.day = day => f.num < begun'[day])
    <3>1. f.num \in Nat /\ f.day \in Day /\ f.num <= begun[f.day]
      BY FileFacts DEF IInv, DInv, BegunInv
    <3>2. begun[f.day] \in Nat /\ begun'[f.day] \in Nat /\ begun'[f.day] >= begun[f.day]
      BY <1>3, <3>1
    <3>3. f.num <= begun'[f.day]
      BY <3>1, <3>2
    <3>4. f.day = day => f.num < begun'[day]
      BY <1>2, <1>4, <3>1
    <3>5. QED BY <3>3, <3>4
  <2>2. 0 < begun'[day]
    BY <1>2, <1>4
  <2>3. QED BY <1>1, <2>1, <2>2 DEF BegunInv
<1>7. ClockInv'
  <2>1. ASSUME sets = 0, NEW r \in Report PROVE stored[r] <= day
    <3>1. stored[r] \in Nat /\ stored[r] <= current_date /\ current_date <= day
      BY <2>1, DayFacts DEF DInv, HistoryType, ClockInv
    <3>2. QED BY <1>2, <3>1
  <2>2. ASSUME sets = 0, NEW f \in files PROVE f.day <= day
    <3>1. f.day \in Nat /\ f.day <= current_date /\ current_date <= day
      BY <2>2, DayFacts, FileFacts DEF IInv, DInv, ClockInv
    <3>2. QED BY <1>2, <3>1
  <2>3. day <= day
    BY <1>2
  <2>4. QED BY <1>1, <2>1, <2>2, <2>3 DEF ClockInv
<1>8. KeptInv'
  <2>1. \A r \in Report : Found(r) => Found(r)'
    BY <1>1 DEF Found
  <2>2. QED BY <1>1, <1>2, <1>3, <2>1, FoundKept DEF IInv
<1>9. NameBound'
  <2>1. Unnamed' = Unnamed
    BY <1>1 DEF Unnamed
  <2>2. Slack = 0 /\ Slack' = 0
    BY <1>1 DEF Slack
  <2>3. QED BY <1>1, <1>2, <2>1, <2>2, BoundKept
<1>10. QED BY <1>5, <1>6, <1>7, <1>8, <1>9 DEF DInv

(* Writing: the file of the day gets the record behind its others.          *)
LEMMA Appended ==
  ASSUME IInv, Write
  PROVE  \E w \in files' : \E old \in Seq(Report) :
           /\ files' = {f \in files : ~SameName(f, record_num)} \cup {w}
           /\ w.num = record_num /\ w.day = current_date
           /\ w.records = Append(old, alarm_report)
           /\ \A f \in files : SameName(f, record_num) => f.records = old
           /\ old = << >> \/ \E f \in files : SameName(f, record_num)
<1>1. files' = {f \in files : ~SameName(f, record_num)} \cup {Written} /\ alarm_report \in Report
  BY DEF Write, IInv, StoreType
<1>2. CASE \E f \in files : SameName(f, record_num)
  <2>1. PICK g \in files : SameName(g, record_num) /\ g = CHOOSE f \in files : SameName(f, record_num)
    BY <1>2
  <2>2. Written = [num |-> record_num, day |-> current_date,
                   records |-> Append(g.records, alarm_report)]
    BY <1>2, <2>1 DEF Written
  <2>3. g.records \in Seq(Report) /\ \A f \in files : SameName(f, record_num) => f = g
    BY <2>1, FileFacts DEF IInv, NamesDiffer, SameName
  <2>4. Written.num = record_num /\ Written.day = current_date
        /\ Written.records = Append(g.records, alarm_report)
    BY <2>2
  <2>5. QED BY <1>1, <1>2, <2>3, <2>4
<1>3. CASE ~ \E f \in files : SameName(f, record_num)
  <2>1. Append(<< >>, alarm_report) = <<alarm_report>> /\ << >> \in Seq(Report)
    OBVIOUS
  <2>2. Written = [num |-> record_num, day |-> current_date,
                   records |-> Append(<< >>, alarm_report)]
    BY <1>3, <2>1 DEF Written
  <2>3. Written.num = record_num /\ Written.day = current_date
        /\ Written.records = Append(<< >>, alarm_report)
    BY <2>2
  <2>4. QED BY <1>1, <1>3, <2>1, <2>3
<1>4. QED BY <1>2, <1>3

LEMMA DWrite ==
  ASSUME IInv, DInv, Write
  PROVE  DInv'
<1>1. /\ job = "store" /\ step = "write" /\ step' = "rename"
      /\ stored' = [stored EXCEPT ![alarm_report] = current_date]
      /\ UNCHANGED <<job, current_date, seen, record_num, alarm_report, day, begun, crashes, sets>>
  BY DEF Write, bounds
<1>2. PICK w \in files' : \E old \in Seq(Report) :
           /\ files' = {f \in files : ~SameName(f, record_num)} \cup {w}
           /\ w.num = record_num /\ w.day = current_date
           /\ w.records = Append(old, alarm_report)
           /\ \A f \in files : SameName(f, record_num) => f.records = old
           /\ old = << >> \/ \E f \in files : SameName(f, record_num)
  BY Appended
<1>3. PICK old \in Seq(Report) :
           /\ files' = {f \in files : ~SameName(f, record_num)} \cup {w}
           /\ w.num = record_num /\ w.day = current_date
           /\ w.records = Append(old, alarm_report)
           /\ \A f \in files : SameName(f, record_num) => f.records = old
           /\ old = << >> \/ \E f \in files : SameName(f, record_num)
  BY <1>2
<1>4. /\ alarm_report \in Report /\ current_date \in Day /\ current_date \in Nat
      /\ stored \in [Report -> Day \cup {0}] /\ record_num \in Nat
      /\ begun[current_date] \in Nat /\ record_num < begun[current_date] /\ crashes \in Nat
  BY <1>1, DayFacts DEF IInv, StoreType, DInv, HistoryType, BegunInv
<1>5. /\ Len(old) \in Nat /\ DOMAIN old = 1 .. Len(old)
      /\ Len(w.records) = Len(old) + 1 /\ DOMAIN w.records = 1 .. Len(old) + 1
      /\ w.records[Len(old) + 1] = alarm_report
      /\ \A k \in DOMAIN old : w.records[k] = old[k] /\ k \in DOMAIN w.records
  BY <1>3, <1>4
<1>6. \A f \in files : f.day = current_date => SameName(f, record_num)
  BY <1>1 DEF DInv, DayInv, SameName
<1>7. \A f \in files' : f = w \/ (f \in files /\ f.day # current_date)
  BY <1>3, <1>6
<1>8. \A f \in files : \A k \in DOMAIN f.records :
        f.records[k] # alarm_report /\ stored'[f.records[k]] = f.day
  <2>1. ASSUME NEW f \in files, NEW k \in DOMAIN f.records
        PROVE  f.records[k] # alarm_report /\ f.records[k] \in Report /\ stored[f.records[k]] = f.day
    <3>1. f.records[k] < alarm_report /\ f.records[k] \in Nat /\ f.records[k] \in Report
      BY <1>1, FileFacts DEF IInv, OrderInv, Storing
    <3>2. alarm_report \in Nat
      BY <1>4 DEF Report
    <3>3. QED BY <3>1, <3>2 DEF DInv, StoredInv
  <2>2. QED BY <1>1, <1>4, <2>1
<1>9. HistoryType'
  BY <1>1, <1>4 DEF DInv, HistoryType
<1>10. OneADay' /\ DayInv'
  BY <1>1, <1>3, <1>7 DEF DInv, OneADay, DayInv
<1>11. BegunInv'
  BY <1>1, <1>3, <1>4, <1>7 DEF DInv, BegunInv
<1>12. StoredInv'
  <2>1. ASSUME NEW k \in DOMAIN w.records PROVE stored'[w.records[k]] = current_date
    <3>1. CASE k = Len(old) + 1
      BY <1>1, <1>4, <1>5, <3>1
    <3>2. CASE k \in DOMAIN old
      <4>1. PICK f \in files : SameName(f, record_num) /\ f.records = old
        BY <1>3, <1>5, <3>2
      <4>2. QED BY <1>5, <1>8, <3>2, <4>1 DEF SameName
    <3>3. QED BY <1>5, <2>1, <3>1, <3>2
  <2>2. QED BY <1>3, <1>7, <1>8, <2>1 DEF StoredInv
<1>13. ClockInv'
  <2>1. current_date <= current_date
    BY <1>4
  <2>2. \A r \in Report : stored'[r] \in {stored[r], current_date}
    BY <1>1, <1>4
  <2>3. \A f \in files' : f.day = current_date \/ f \in files
    BY <1>3, <1>7
  <2>4. QED BY <1>1, <2>1, <2>2, <2>3 DEF DInv, ClockInv
<1>14. KeptInv'
  <2> SUFFICES ASSUME sets = 0, NEW r \in Report, stored'[r] # 0,
                      Between(stored'[r], day) < Keep, begun[stored'[r]] <= Full
               PROVE  Found(r)'
    BY <1>1 DEF KeptInv, Between
  <2>1. CASE r = alarm_report
    <3>1. Len(old) + 1 \in DOMAIN w.records
      BY <1>5
    <3>2. QED BY <1>5, <2>1, <3>1 DEF Found
  <2>2. CASE r # alarm_report
    <3>1. stored'[r] = stored[r]
      BY <1>1, <1>4, <2>2
    <3>2. Found(r)
      BY <3>1 DEF DInv, KeptInv
    <3>3. PICK f \in files : \E k \in DOMAIN f.records : f.records[k] = r
      BY <3>2 DEF Found
    <3>4. CASE SameName(f, record_num)
      <4>1. \E k \in DOMAIN w.records : w.records[k] = r
        BY <1>3, <1>5, <3>3, <3>4
      <4>2. QED BY <4>1 DEF Found
    <3>5. CASE ~SameName(f, record_num)
      BY <1>3, <3>3, <3>5 DEF Found
    <3>6. QED BY <3>4, <3>5
  <2>3. QED BY <2>1, <2>2
<1>15. NameBound'
  <2>1. Unnamed' \subseteq Unnamed \cup {alarm_report}
    <3>1. ASSUME NEW r \in Report, NEW k \in w.num + 1 .. Len(w.records), w.records[k] = r,
                 r # alarm_report
          PROVE  r \in Unnamed
      <4>1. k \in record_num + 1 .. Len(old) /\ k \in DOMAIN old
        BY <1>3, <1>4, <1>5, <3>1
      <4>2. PICK f \in files : SameName(f, record_num) /\ f.records = old
        BY <1>3, <1>5, <4>1
      <4>3. QED BY <1>5, <3>1, <4>1, <4>2 DEF Unnamed, SameName
    <3>2. ASSUME NEW r \in Unnamed', r # alarm_report PROVE r \in Unnamed
      <4>1. PICK f \in files' : \E k \in f.num + 1 .. Len(f.records) : f.records[k] = r
        BY DEF Unnamed
      <4>2. r \in Report
        BY DEF Unnamed
      <4>3. CASE f = w
        BY <3>1, <3>2, <4>1, <4>2, <4>3
      <4>4. CASE f # w
        BY <1>7, <4>1, <4>2, <4>4 DEF Unnamed
      <4>5. QED BY <4>3, <4>4
    <3>3. QED BY <3>2
  <2>2. Cardinality(Unnamed \cup {alarm_report}) <= Cardinality(Unnamed) + 1
    <3>1. Cardinality(Unnamed \cup {alarm_report})
            = IF alarm_report \in Unnamed THEN Cardinality(Unnamed) ELSE Cardinality(Unnamed) + 1
      BY UnnamedReports, FS_AddElement
    <3>2. QED BY <3>1, UnnamedReports
  <2>3. Unnamed \cup {alarm_report} \in SUBSET Report
    BY <1>4, UnnamedReports
  <2>4. /\ Cardinality(Unnamed') <= Cardinality(Unnamed \cup {alarm_report})
        /\ Cardinality(Unnamed') \in Nat /\ Cardinality(Unnamed \cup {alarm_report}) \in Nat
    BY <2>1, <2>3, Finitely
  <2>5. Cardinality(Unnamed) <= crashes + 0 /\ Cardinality(Unnamed) \in Nat
    BY <1>1, UnnamedReports DEF DInv, NameBound, Slack
  <2>6. Cardinality(Unnamed') <= crashes + 1
    BY <1>4, <2>2, <2>4, <2>5
  <2>7. QED BY <1>1, <2>6 DEF NameBound, Slack
<1>16. QED BY <1>9, <1>10, <1>11, <1>12, <1>13, <1>14, <1>15 DEF DInv

(* Renaming: no file of the day is in the way, so that one record more is   *)
(* counted.                                                                 *)
LEMMA Renamed ==
  ASSUME IInv, DInv, Rename
  PROVE  \E g \in files : \E h \in files' :
           /\ g.num = record_num /\ g.day = current_date /\ record_num < Len(g.records)
           /\ h.num = record_num + 1 /\ h.day = current_date /\ h.records = g.records
           /\ files' = (files \ {g}) \cup {h}
<1>1. job = "store" /\ step = "rename"
  BY DEF Rename
<1>2. record_num \in Nat /\ record_num < Full
  BY <1>1 DEF IInv, StoreType, NumberInv
<1>3. NextNumber = record_num + 1
  BY <1>2, Limits DEF NextNumber
<1>4. PICK g \in files : SameName(g, record_num) /\ record_num < Len(g.records)
  BY <1>1 DEF IInv, NumberInv
<1>5. \A f \in files : f.day = current_date => f.num = record_num /\ f = g
  BY <1>1, <1>4 DEF DInv, DayInv, OneADay, SameName
<1>6. ~ \E f \in files : SameName(f, NextNumber)
  BY <1>2, <1>3, <1>5 DEF SameName
<1>7. PICK h : h = [g EXCEPT !.num = record_num + 1]
  OBVIOUS
<1>8. h.num = record_num + 1 /\ h.day = current_date /\ h.records = g.records
  <2>1. g \in File
    BY FileFacts DEF IInv
  <2>2. QED BY <1>4, <1>7, <2>1 DEF File, SameName
<1>9. files' = (files \ {g}) \cup {h}
  <2>1. files' = {IF SameName(f, record_num) THEN [f EXCEPT !.num = record_num + 1] ELSE f : f \in files}
    BY <1>3, <1>6 DEF Rename
  <2>2. \A f \in files \ {g} : ~SameName(f, record_num)
    BY <1>5 DEF SameName
  <2>3. QED BY <1>4, <1>7, <2>1, <2>2
<1>10. QED BY <1>4, <1>8, <1>9 DEF SameName

LEMMA DRename ==
  ASSUME IInv, DInv, Rename
  PROVE  DInv'
<1>1. /\ job = "store" /\ step = "rename" /\ job' = "none" /\ step' = "sweep"
      /\ UNCHANGED <<current_date, day, stored, begun, crashes, sets>>
  BY DEF Rename, End, bounds, history
<1>2. PICK g \in files, h \in files' :
           /\ g.num = record_num /\ g.day = current_date /\ record_num < Len(g.records)
           /\ h.num = record_num + 1 /\ h.day = current_date /\ h.records = g.records
           /\ files' = (files \ {g}) \cup {h}
  BY Renamed
<1>3. /\ record_num \in Nat /\ record_num < begun[current_date] /\ begun[current_date] \in Nat
      /\ day \in Day /\ day \in Nat /\ current_date \in Nat /\ crashes \in Nat
      /\ Len(g.records) \in Nat /\ g.records \in Seq(Report) /\ DOMAIN g.records = 1 .. Len(g.records)
  BY <1>1, <1>2, DayFacts, FileFacts DEF IInv, StoreType, DInv, HistoryType, BegunInv
<1>4. HistoryType' /\ DayInv'
  BY <1>1 DEF DInv, HistoryType, DayInv
<1>5. OneADay' /\ StoredInv'
  BY <1>1, <1>2 DEF DInv, OneADay, StoredInv
<1>6. BegunInv'
  <2>1. h.num <= begun[h.day]
    BY <1>2, <1>3
  <2>2. QED BY <1>1, <1>2, <2>1 DEF DInv, BegunInv
<1>7. ClockInv'
  BY <1>1, <1>2 DEF DInv, ClockInv
<1>8. KeptInv'
  <2>1. \A r \in Report : Found(r) => Found(r)'
    BY <1>2 DEF Found
  <2>2. \A d \in Day : begun'[d] >= begun[d] /\ begun'[d] \in Nat
    BY <1>1 DEF DInv, HistoryType
  <2>3. QED BY <1>1, <1>3, <2>1, <2>2, FoundKept DEF IInv
<1>9. NameBound'
  <2>1. PICK x \in Report : x = g.records[record_num + 1]
    BY <1>2, <1>3
  <2>2. x \in Unnamed
    <3>1. record_num + 1 \in g.num + 1 .. Len(g.records)
      BY <1>2, <1>3
    <3>2. QED BY <2>1, <3>1 DEF Unnamed
  <2>3. Unnamed' \subseteq Unnamed \ {x}
    <3>1. ASSUME NEW r \in Unnamed' PROVE r \in Unnamed /\ r # x
      <4>1. r \in Report
        BY DEF Unnamed
      <4>2. PICK f \in files' : \E k \in f.num + 1 .. Len(f.records) : f.records[k] = r
        BY DEF Unnamed
      <4>3. PICK k \in f.num + 1 .. Len(f.records) : f.records[k] = r
        BY <4>2
      <4>4. CASE f \in files /\ f # g
        <5>1. r \in Unnamed
          BY <4>1, <4>3, <4>4 DEF Unnamed
        <5>2. k \in DOMAIN f.records /\ record_num + 1 \in DOMAIN g.records
          BY <1>2, <1>3, <4>4, FileFacts DEF IInv
        <5>3. r # x
          BY <2>1, <4>3, <4>4, <5>2 DEF IInv, RecordsOnce
        <5>4. QED BY <5>1, <5>3
      <4>5. CASE f = h
        <5>1. /\ k \in g.num + 1 .. Len(g.records) /\ g.records[k] = r
              /\ record_num + 1 < k /\ k \in DOMAIN g.records /\ record_num + 1 \in DOMAIN g.records
          BY <1>2, <1>3, <4>3, <4>5
        <5>2. x < r
          BY <2>1, <5>1 DEF IInv, RecordsOnce, InOrder
        <5>3. r \in Unnamed
          BY <4>1, <5>1 DEF Unnamed
        <5>4. QED BY <4>1, <5>2, <5>3 DEF Report
      <4>6. QED BY <1>2, <4>4, <4>5
    <3>2. QED BY <3>1
  <2>4. Cardinality(Unnamed \ {x}) = Cardinality(Unnamed) - 1
    BY <2>2, UnnamedReports, FS_RemoveElement
  <2>5. Unnamed \ {x} \in SUBSET Report
    BY UnnamedReports
  <2>6. Cardinality(Unnamed') <= Cardinality(Unnamed \ {x}) /\ Cardinality(Unnamed') \in Nat
    BY <2>3, <2>5, Finitely
  <2>7. Cardinality(Unnamed) <= crashes + 1 /\ Cardinality(Unnamed) \in Nat
    BY <1>1, UnnamedReports DEF DInv, NameBound, Slack
  <2>8. Cardinality(Unnamed') <= crashes + 0
    BY <1>3, <2>4, <2>6, <2>7
  <2>9. QED BY <1>1, <2>8 DEF NameBound, Slack
<1>10. QED BY <1>4, <1>5, <1>6, <1>7, <1>8, <1>9 DEF DInv

LEMMA DStep == IInv /\ DInv /\ [Next]_vars => DInv'
<1> SUFFICES ASSUME IInv, DInv, [Next]_vars PROVE DInv'
  OBVIOUS
<1>1. /\ StoreType /\ day \in Day /\ day \in Nat /\ crashes \in Nat /\ sets \in Nat
      /\ day >= day /\ crashes + Slack >= crashes + Slack /\ Slack \in {0, 1}
  BY DayFacts DEF IInv, DInv, HistoryType, StoreType, Slack
<1>2. ASSUME NEW f \in files, SweepCount(f) \/ SweepSend(f) \/ SweepSendNoMemory(f)
      PROVE  DInv'
  <2>1. /\ job' # "store" /\ job # "store"
        /\ UNCHANGED <<files, stored, begun, day, current_date, crashes, sets>>
    BY <1>2 DEF SweepCount, SweepSend, SweepSendNoMemory, End, bounds, history
  <2>2. Slack' = 0 /\ Slack = 0
    BY <2>1 DEF Slack
  <2>3. QED BY <1>1, <2>1, <2>2, DElsewhere
<1>3. CASE SweepStep
  BY <1>2, <1>3, DSweepOld, DSweepStore DEF SweepStep
<1>4. CASE Counted \/ Send
  <2>1. /\ job' # "store" /\ job # "store"
        /\ UNCHANGED <<files, stored, begun, day, current_date, crashes, sets>>
    BY <1>4 DEF Counted, Send, End, bounds, history
  <2>2. Slack' = 0 /\ Slack = 0
    BY <2>1 DEF Slack
  <2>3. QED BY <1>1, <2>1, <2>2, DElsewhere
<1>5. CASE RecvAndSendEventHistoryToServer \/ GetAlarmReportHistory
  <2>1. /\ job' # "store" /\ job # "store" /\ current_date' = day
        /\ UNCHANGED <<files, stored, begun, day, crashes, sets>>
    BY <1>5 DEF RecvAndSendEventHistoryToServer, GetAlarmReportHistory, Begin, bounds, history
  <2>2. Slack' = 0 /\ Slack = 0
    BY <2>1 DEF Slack
  <2>3. QED BY <1>1, <2>1, <2>2, DElsewhere
<1>6. CASE PushAlarmReport \/ UNCHANGED vars
  <2>1. /\ UNCHANGED <<job, step, current_date, seen, record_num>>
        /\ UNCHANGED <<files, stored, begun, day, crashes, sets>>
    BY <1>6 DEF PushAlarmReport, vars, work, bounds, history
  <2>2. Slack' = Slack
    BY <2>1 DEF Slack
  <2>3. QED BY <1>1, <2>1, <2>2, DElsewhere
<1>7. CASE Midnight \/ SetClock
  <2>1. /\ UNCHANGED <<job, step, current_date, seen, record_num>>
        /\ UNCHANGED <<files, stored, begun, crashes>>
    BY <1>7 DEF Midnight, SetClock, work, bounds, history
  <2>2. Slack' = Slack
    BY <2>1 DEF Slack
  <2>3. /\ day' \in Day /\ sets' \in Nat /\ (sets' = 0 => sets = 0 /\ day' >= day)
    BY <1>1, <1>7, Limits DEF Midnight, SetClock, bounds, Day
  <2>4. QED BY <1>1, <2>1, <2>2, <2>3, DElsewhere
<1>8. CASE Crash
  <2>1. /\ job' # "store" /\ crashes' = crashes + 1
        /\ UNCHANGED <<files, stored, begun, day, current_date, sets>>
    BY <1>8 DEF Crash, End, history
  <2>2. Slack' = 0
    BY <2>1 DEF Slack
  <2>3. crashes' \in Nat /\ crashes' + Slack' >= crashes + Slack
    BY <1>1, <2>1, <2>2
  <2>4. QED BY <1>1, <2>1, <2>3, DElsewhere
<1>9. QED
  BY <1>3, <1>4, <1>5, <1>6, <1>7, <1>8, DOpen, DWrite, DRename, DRecv DEF Next, Jobs

LEMMA BothInvariance == Spec => [](IInv /\ DInv)
<1>1. Init => IInv /\ DInv
  BY InitInv, DInit
<1>2. IInv /\ DInv /\ [Next]_vars => (IInv /\ DInv)'
  BY StepInv, DStep
<1>3. QED BY <1>1, <1>2, PTL DEF Spec

(* A record stands at one place, so that the places no name counts are as   *)
(* many as the reports in them.                                             *)
LEMMA PlacesOfReports ==
  ASSUME IInv, NEW f \in files, NEW g \in files, NEW i \in DOMAIN f.records,
         NEW j \in DOMAIN g.records, f.records[i] = g.records[j]
  PROVE  f = g /\ i = j
<1>1. f = g
  BY DEF IInv, RecordsOnce
<1>2. i \in Nat /\ j \in Nat /\ f.records[i] \in Nat /\ f.records[j] \in Nat
  BY <1>1, FileFacts DEF IInv
<1>3. ~(i < j) /\ ~(j < i)
  BY <1>1, <1>2 DEF IInv, RecordsOnce, InOrder
<1>4. QED BY <1>1, <1>2, <1>3

LEMMA CountPlaces ==
  ASSUME IInv
  PROVE  Cardinality(Uncounted) \in Nat /\ Cardinality(Uncounted) <= Cardinality(Unnamed)
<1> DEFINE place == [p \in Uncounted |-> p[1].records[p[2]]]
<1>1. ASSUME NEW p \in Uncounted
      PROVE  /\ p[1] \in files /\ p[2] \in DOMAIN p[1].records /\ p = <<p[1], p[2]>>
             /\ p[1].records[p[2]] \in Unnamed
  <2>1. PICK f \in files : p \in {f} \X (f.num + 1 .. Len(f.records))
    BY DEF Uncounted
  <2>2. p[1] = f /\ p[2] \in f.num + 1 .. Len(f.records) /\ p = <<p[1], p[2]>>
    BY <2>1
  <2>3. p[2] \in DOMAIN f.records /\ f.records[p[2]] \in Report
    BY <2>2, FileFacts DEF IInv
  <2>4. QED BY <2>2, <2>3 DEF Unnamed
<1>2. place \in [Uncounted -> Unnamed]
  BY <1>1
<1>3. ASSUME NEW p \in Uncounted, NEW q \in Uncounted, place[p] = place[q] PROVE p = q
  <2>1. p[1] = q[1] /\ p[2] = q[2]
    BY <1>1, <1>3, PlacesOfReports
  <2>2. QED BY <1>1, <2>1
<1> HIDE DEF place
<1>4. place \in Injection(Uncounted, Unnamed)
  BY <1>2, <1>3 DEF Injection, IsInjective
<1>5. QED BY <1>4, UnnamedReports, FS_Injection, FS_CardinalityType

(* What a query is told is there, and what it is not told is one record for *)
(* each power failure at most: the renaming of StoreAlarmToSpiFlash after   *)
(* the record is written, for any number of reports, files and failures.    *)
THEOREM NamesAlwaysCount == Spec => []NamesCount
<1>1. IInv /\ DInv => NamesCount
  <2> SUFFICES ASSUME IInv, DInv PROVE NamesCount
    OBVIOUS
  <2>1. Cardinality(Unnamed) <= crashes + Slack /\ Cardinality(Unnamed) \in Nat
    BY UnnamedReports DEF DInv, NameBound
  <2>2. Cardinality(Uncounted) <= Cardinality(Unnamed) /\ Cardinality(Uncounted) \in Nat
    BY CountPlaces
  <2>3. Slack \in {0, 1} /\ crashes \in Nat
    BY DEF Slack, DInv, HistoryType
  <2>4. Cardinality(Uncounted) <= crashes + Slack
    BY <2>1, <2>2, <2>3
  <2>5. QED BY <2>4 DEF NamesCount, Slack, IInv
<1>2. QED BY <1>1, BothInvariance, PTL

(* While the clock only runs forward a record is kept, once, for Keep days,  *)
(* or one fewer into a leap year, if no more than fill a file were stored on *)
(* its day: for any leap years, number of days kept, records of a file,     *)
(* queries and power failures.                                              *)
THEOREM RecordsAlwaysKept == Spec => []RecordsKept
<1>1. IInv /\ DInv => RecordsKept
  <2> SUFFICES ASSUME IInv, DInv, sets = 0, NEW r \in Report
               PROVE  /\ Cardinality(Copies(r)) <= 1
                      /\ stored[r] # 0 /\ day - stored[r] < KeptFor(stored[r])
                           /\ begun[stored[r]] <= Full
                           => Cardinality(Copies(r)) = 1
    BY DEF RecordsKept
  <2>1. ASSUME NEW p \in Copies(r)
        PROVE  p = <<p[1], p[2]>> /\ p[1] \in files /\ p[2] \in DOMAIN p[1].records
               /\ p[1].records[p[2]] = r
    <3>1. PICK f \in files : p \in {f} \X {i \in DOMAIN f.records : f.records[i] = r}
      BY DEF Copies
    <3>2. QED BY <3>1
  <2>2. ASSUME NEW p \in Copies(r), NEW q \in Copies(r) PROVE p = q
    <3>1. p[1] = q[1] /\ p[2] = q[2]
      BY <2>1, PlacesOfReports
    <3>2. QED BY <2>1, <3>1
  <2>3. Copies(r) = {} => Cardinality(Copies(r)) = 0
    BY FS_EmptySet
  <2>4. Copies(r) # {} => Cardinality(Copies(r)) = 1
    <3>1. ASSUME NEW p \in Copies(r) PROVE Copies(r) = {p}
      BY <2>2
    <3>2. QED BY <3>1, FS_Singleton
  <2>5. Found(r) => Copies(r) # {}
    <3>1. ASSUME NEW f \in files, NEW k \in DOMAIN f.records, f.records[k] = r
          PROVE  <<f, k>> \in Copies(r)
      BY <3>1 DEF Copies
    <3>2. QED BY <3>1 DEF Found
  <2>6. ASSUME stored[r] # 0, day - stored[r] < KeptFor(stored[r])
        PROVE  Between(stored[r], day) < Keep
    <3> DEFINE d == stored[r]
    <3>1. d \in Day /\ day \in Day /\ d \in Nat /\ day \in Nat
      BY <2>6, DayFacts DEF DInv, HistoryType, IInv, StoreType
    <3>2. Between(d, day) \in Int /\ Between(d, day) <= day - d + 1
      BY <3>1, NumbersOfDays
    <3>3. d \in LeapDays \/ day \notin LeapDays => Between(d, day) <= day - d
      BY <3>1, NumbersOfDays
    <3>4. KeptFor(d) = IF d \notin LeapDays /\ day \in LeapDays THEN Keep - 1 ELSE Keep
      BY DEF KeptFor
    <3>5. day - d < KeptFor(d)
      BY <2>6
    <3> HIDE DEF d
    <3>6. Between(d, day) < Keep
      BY <3>1, <3>2, <3>3, <3>4, <3>5, DayFacts
    <3>7. QED BY <3>6 DEF d
  <2>7. stored[r] # 0 /\ day - stored[r] < KeptFor(stored[r]) /\ begun[stored[r]] <= Full
          => Found(r)
    BY <2>6 DEF DInv, KeptInv
  <2>8. QED BY <2>3, <2>4, <2>5, <2>7
<1>2. QED BY <1>1, BothInvariance, PTL

-----------------------------------------------------------------------------
(* Queries.  What was sent and is in the frame tells all the records of the  *)
(* files already read, each once, those of a day in order.                  *)
Tells(s, F) ==
  /\ IsInjective(s)
  /\ ToSet(s) = UNION {ToSet(f.records) : f \in F}
  /\ \A i, j \in DOMAIN s : i < j /\ stored[s[i]] = stored[s[j]] => s[i] < s[j]

GivenInv == job = "send" => Tells(sent \o batch, {f \in seen : InRange(f)})

(* The number counted is that of records there are.                         *)
Named == {r \in Report : \E f \in seen : InRange(f) /\ \E k \in 1 .. f.num : f.records[k] = r}

CountInv == job = "count" => record_num <= Cardinality(Named)

(* The records on flash of a range of days, as they are kept on a date; and  *)
(* what a query was told: no fewer are there while it is still that day,     *)
(* unless the file of the day was full.                                     *)
Within(f, days, date) ==
  /\ ~(Between(f.day, date) >= Keep \/ Between(f.day, date) < 0)
  /\ get_days_by_calendar(days.start) <= get_days_by_calendar(f.day)
  /\ get_days_by_calendar(f.day) <= get_days_by_calendar(days.end)

OfRange(days, date) ==
  {r \in Report : \E f \in files : Within(f, days, date) /\ r \in ToSet(f.records)}

Promise(a) ==
  sets = 0 =>
    /\ a.date <= current_date
    /\ a.date = current_date /\ begun[a.date] <= Full =>
         a.num <= Cardinality(OfRange(a.range, a.date))

PromiseInv ==
  /\ \A i \in DOMAIN asked : Promise(asked[i])
  /\ job = "send" => Promise(told) /\ told.range = range

(* The types of what a query uses: it sweeps only.                          *)
QueryType ==
  /\ asked \in Seq(Told) /\ told \in Told /\ range \in [start : Day, end : Day]
  /\ batch \in Seq(Report) /\ sent \in Seq(Report)
  /\ job \in {"count", "send"} => step = "sweep" /\ seen \subseteq files
  /\ job # "send" => batch = << >>
  /\ job = "count" => record_num \in Nat

QInv == QueryType /\ GivenInv /\ CountInv /\ PromiseInv

(* Frames of Batch records are no more records than there are.              *)
LEMMA FramesFit ==
  ASSUME NEW n \in Nat, NEW k \in 0 .. n \div Batch
  PROVE  Batch * (n \div Batch) \in 0 .. n /\ k * Batch \in 0 .. n
<1>1. Batch \in Nat \ {0}
  BY HistoryAssumption DEF HistoryAssumption
<1>2. n \div Batch \in Nat /\ Batch * (n \div Batch) <= n /\ (n \div Batch) * Batch <= n
  BY <1>1
<1>3. PICK m \in Nat : m = n \div Batch
  BY <1>2
<1>4. k * Batch <= m * Batch /\ k * Batch \in Nat /\ Batch * m \in Nat /\ m * Batch \in Nat
  BY <1>1, <1>3
<1>5. QED BY <1>2, <1>3, <1>4

(* Cutting full frames off leaves the records in their order.               *)
LEMMA CutInTwo ==
  ASSUME NEW s \in Seq(Report), NEW t \in Seq(Report), NEW n \in 0 .. Len(t)
  PROVE  /\ SubSeq(t, 1, n) \in Seq(Report) /\ SubSeq(t, n + 1, Len(t)) \in Seq(Report)
         /\ s \o SubSeq(t, 1, n) \in Seq(Report)
         /\ (s \o SubSeq(t, 1, n)) \o SubSeq(t, n + 1, Len(t)) = s \o t
<1> DEFINE a == SubSeq(t, 1, n)
           b == SubSeq(t, n + 1, Len(t))
<1>1. \A i \in 1 .. Len(t) : t[i] \in Report
  BY ElementOfSeq
<1>2. a \in Seq(Report) /\ b \in Seq(Report)
  BY <1>1, SubSeqProperties
<1>3. (s \o a) \o b = s \o t
  <2>1. a \o b = t
    <3>1. 1 \in 1 .. Len(t) + 1 /\ n \in 1 - 1 .. Len(t) /\ Len(t) \in n .. Len(t)
      OBVIOUS
    <3>2. a \o b = SubSeq(t, 1, Len(t))
      BY <3>1, ConcatAdjacentSubSeq
    <3>3. QED BY <3>2, SubSeqFull
  <2> HIDE DEF a, b
  <2>2. (s \o a) \o b = s \o (a \o b)
    BY <1>2, ConcatAssociative
  <2>3. QED BY <2>1, <2>2
<1>4. s \o a \in Seq(Report)
  BY <1>2, ConcatProperties
<1>5. QED BY <1>2, <1>3, <1>4

(* The first records of those that tell some files are among them, each once *)
(* and in order too.                                                        *)
LEMMA FirstTell ==
  ASSUME NEW s \in Seq(Report), NEW t \in Seq(Report), NEW F, Tells(s \o t, F)
  PROVE  /\ IsInjective(s)
         /\ ToSet(s) \subseteq UNION {ToSet(f.records) : f \in F}
         /\ \A i, j \in DOMAIN s : i < j /\ stored[s[i]] = stored[s[j]] => s[i] < s[j]
<1>1. \A i \in DOMAIN s : i \in DOMAIN (s \o t) /\ (s \o t)[i] = s[i]
  BY ConcatProperties
<1>2. IsInjective(s)
  BY <1>1 DEF Tells, IsInjective
<1>3. ToSet(s) \subseteq ToSet(s \o t)
  BY <1>1 DEF ToSet
<1>4. QED BY <1>1, <1>2, <1>3 DEF Tells

(* The records of one more file follow those of the others.                 *)
LEMMA FileTells ==
  ASSUME IInv, DInv, NEW F \in SUBSET files, NEW f \in files \ F,
         NEW s \in Seq(Report), Tells(s, F)
  PROVE  Tells(s \o f.records, F \cup {f})
<1> DEFINE r == f.records
           u == s \o r
<1>0. /\ r \in Seq(Report) /\ Len(r) \in Nat /\ DOMAIN r = 1 .. Len(r)
      /\ \A k \in DOMAIN r : r[k] \in Nat
      /\ Len(s) \in Nat /\ DOMAIN s = 1 .. Len(s)
  BY FileFacts DEF IInv
<1>1. /\ DOMAIN u = 1 .. Len(s) + Len(r)
      /\ \A i \in DOMAIN s : i \in DOMAIN u /\ u[i] = s[i]
      /\ \A k \in DOMAIN r : Len(s) + k \in DOMAIN u /\ u[Len(s) + k] = r[k]
  BY <1>0, ConcatProperties
<1>2. \A i \in DOMAIN u : i \in DOMAIN s \/ (i - Len(s) \in DOMAIN r /\ Len(s) + (i - Len(s)) = i)
  BY <1>0, <1>1
<1>3. ASSUME NEW i \in DOMAIN s, NEW k \in DOMAIN r
      PROVE  s[i] # r[k] /\ stored[s[i]] # stored[r[k]]
  <2>1. s[i] \in ToSet(s)
    BY DEF ToSet
  <2>2. PICK g \in F : s[i] \in ToSet(g.records)
    BY <2>1 DEF Tells
  <2>3. PICK l \in DOMAIN g.records : g.records[l] = s[i]
    BY <2>2 DEF ToSet
  <2>4. stored[s[i]] = g.day /\ stored[r[k]] = f.day
    BY <2>3 DEF DInv, StoredInv
  <2>5. g.day # f.day
    BY DEF DInv, OneADay
  <2>6. QED BY <2>4, <2>5
<1>4. ASSUME NEW k \in DOMAIN r, NEW l \in DOMAIN r
      PROVE  /\ k < l => r[k] < r[l]
             /\ r[k] = r[l] => k = l
  <2>1. \A i, j \in DOMAIN r : i < j => r[i] < r[j]
    BY DEF IInv, RecordsOnce, InOrder
  <2>2. QED BY <1>0, <2>1
<1>5. IsInjective(u)
  <2>1. SUFFICES ASSUME NEW i \in DOMAIN u, NEW j \in DOMAIN u, u[i] = u[j] PROVE i = j
    BY DEF IsInjective
  <2>2. CASE i \in DOMAIN s /\ j \in DOMAIN s
    BY <1>1, <2>1, <2>2 DEF Tells, IsInjective
  <2>3. CASE i \in DOMAIN s /\ j \notin DOMAIN s
    BY <1>1, <1>2, <1>3, <2>1, <2>3
  <2>4. CASE i \notin DOMAIN s /\ j \in DOMAIN s
    BY <1>1, <1>2, <1>3, <2>1, <2>4
  <2>5. CASE i \notin DOMAIN s /\ j \notin DOMAIN s
    <3>1. i - Len(s) \in DOMAIN r /\ j - Len(s) \in DOMAIN r
          /\ u[i] = r[i - Len(s)] /\ u[j] = r[j - Len(s)]
      BY <1>1, <1>2, <2>5
    <3>2. i - Len(s) = j - Len(s)
      BY <1>4, <2>1, <3>1
    <3>3. QED BY <1>0, <1>1, <3>2
  <2>6. QED BY <2>2, <2>3, <2>4, <2>5
<1>6. ToSet(u) = UNION {ToSet(g.records) : g \in F \cup {f}}
  <2>1. ToSet(u) = ToSet(s) \cup ToSet(r)
    BY <1>1, <1>2 DEF ToSet
  <2>2. QED BY <2>1 DEF Tells
<1>7. ASSUME NEW i \in DOMAIN u, NEW j \in DOMAIN u, i < j, stored[u[i]] = stored[u[j]]
      PROVE  u[i] < u[j]
  <2>1. CASE i \in DOMAIN s /\ j \in DOMAIN s
    BY <1>1, <1>7, <2>1 DEF Tells
  <2>2. CASE i \in DOMAIN s /\ j \notin DOMAIN s
    BY <1>1, <1>2, <1>3, <1>7, <2>2
  <2>3. CASE i \notin DOMAIN s
    <3>1. j \notin DOMAIN s
      BY <1>0, <1>1, <1>7, <2>3
    <3>2. i - Len(s) \in DOMAIN r /\ j - Len(s) \in DOMAIN r
          /\ u[i] = r[i - Len(s)] /\ u[j] = r[j - Len(s)]
      BY <1>1, <1>2, <2>3, <3>1
    <3>3. i - Len(s) < j - Len(s)
      BY <1>0, <1>1, <1>7
    <3>4. QED BY <1>4, <3>2, <3>3
  <2>4. QED BY <2>1, <2>2, <2>3
<1>8. QED BY <1>5, <1>6, <1>7 DEF Tells

(* While it is the same day a file that is kept loses no record, unless it   *)
(* was full: then more are stored that day than fill it.                    *)
Lasting ==
  /\ sets' = 0 => sets = 0 /\ current_date' \in {current_date, day}
  /\ \A d \in Day : begun'[d] >= begun[d] /\ begun'[d] \in Nat
  /\ sets' = 0 /\ begun'[current_date] <= Full =>
       \A f \in files : ~(Between(f.day, current_date) >= Keep \/ Between(f.day, current_date) < 0) =>
         \E g \in files' : g.day = f.day /\ ToSet(f.records) \subseteq ToSet(g.records)

(* The steps that leave the files, or add to them.                          *)
LEMMA LastingElsewhere ==
  ASSUME DInv, files \subseteq files',
         sets' = 0 => sets = 0 /\ current_date' \in {current_date, day},
         begun' = begun
  PROVE  Lasting
BY DEF Lasting, DInv, HistoryType

(* The sweep deletes what is too old, or full.                              *)
LEMMA SweepLasts ==
  ASSUME IInv, DInv, NEW f \in files, SweepOld(f) \/ SweepStore(f)
  PROVE  Lasting
<1>1. UNCHANGED <<current_date, begun, sets>> /\ files \ {f} \subseteq files'
  BY DEF SweepOld, SweepStore, work, bounds, history
<1>2. f.num \in Nat /\ f.day \in Day /\ f.day \in Nat /\ current_date \in Nat
      /\ begun[current_date] \in Nat
  BY FileFacts, DayFacts DEF IInv, StoreType, DInv, HistoryType
<1>3. CASE SweepOld(f)
  <2>1. Between(f.day, current_date) >= Keep \/ Between(f.day, current_date) < 0
    BY <1>3 DEF SweepOld, TooOld, Age, Between
  <2>2. QED BY <1>1, <2>1 DEF Lasting, DInv, HistoryType
<1>4. CASE SweepStore(f) /\ files' # files
  <2>1. job = "store" /\ f.day = current_date /\ f.num = Full
    BY <1>4 DEF SweepStore, Today
  <2>2. f.num < begun[current_date]
    BY <2>1 DEF DInv, BegunInv
  <2>3. ~(begun'[current_date] <= Full)
    BY <1>1, <1>2, <2>1, <2>2
  <2>4. QED BY <1>1, <2>3 DEF Lasting, DInv, HistoryType
<1>5. CASE files' = files
  BY <1>1, <1>5, LastingElsewhere
<1>6. QED BY <1>3, <1>4, <1>5

(* Writing puts the record behind those of the file, renaming keeps them.   *)
LEMMA StoreLasts ==
  ASSUME IInv, DInv, Write \/ Rename
  PROVE  Lasting
<1>1. UNCHANGED <<current_date, begun, sets>>
  BY DEF Write, Rename, bounds, history
<1>2. SUFFICES ASSUME NEW f \in files
               PROVE  \E g \in files' : g.day = f.day /\ ToSet(f.records) \subseteq ToSet(g.records)
  BY <1>1 DEF Lasting, DInv, HistoryType
<1>3. CASE Write
  <2>1. PICK w \in files' : \E old \in Seq(Report) :
           /\ files' = {g \in files : ~SameName(g, record_num)} \cup {w}
           /\ w.num = record_num /\ w.day = current_date
           /\ w.records = Append(old, alarm_report)
           /\ \A g \in files : SameName(g, record_num) => g.records = old
           /\ old = << >> \/ \E g \in files : SameName(g, record_num)
    BY <1>3, Appended
  <2>2. PICK old \in Seq(Report) :
           /\ files' = {g \in files : ~SameName(g, record_num)} \cup {w}
           /\ w.num = record_num /\ w.day = current_date
           /\ w.records = Append(old, alarm_report)
           /\ \A g \in files : SameName(g, record_num) => g.records = old
           /\ old = << >> \/ \E g \in files : SameName(g, record_num)
    BY <2>1
  <2>3. CASE ~SameName(f, record_num)
    BY <2>2, <2>3
  <2>4. CASE SameName(f, record_num)
    <3>1. f.records = old /\ f.day = w.day
      BY <2>2, <2>4 DEF SameName
    <3>2. \A k \in DOMAIN old : k \in DOMAIN w.records /\ w.records[k] = old[k]
      BY <2>2
    <3>3. ToSet(f.records) \subseteq ToSet(w.records)
      BY <3>1, <3>2 DEF ToSet
    <3>4. QED BY <3>1, <3>3
  <2>5. QED BY <2>3, <2>4
<1>4. CASE Rename
  <2>1. PICK g \in files, h \in files' :
           /\ g.num = record_num /\ g.day = current_date /\ record_num < Len(g.records)
           /\ h.num = record_num + 1 /\ h.day = current_date /\ h.records = g.records
           /\ files' = (files \ {g}) \cup {h}
    BY <1>4, Renamed
  <2>2. QED BY <2>1
<1>5. QED BY <1>2, <1>3, <1>4

(* So every step lets the records last.                                     *)
LEMMA LastingNext ==
  ASSUME IInv, DInv, [Next]_vars PROVE Lasting
<1>1. CASE SweepStep
  <2>1. PICK f \in files : \/ SweepOld(f) \/ SweepStore(f) \/ SweepCount(f)
                           \/ SweepSend(f) \/ SweepSendNoMemory(f)
    BY <1>1 DEF SweepStep
  <2>2. CASE SweepOld(f) \/ SweepStore(f)
    BY <2>2, SweepLasts
  <2>3. CASE SweepCount(f) \/ SweepSend(f) \/ SweepSendNoMemory(f)
    BY <2>3, LastingElsewhere DEF SweepCount, SweepSend, SweepSendNoMemory, bounds, history
  <2>4. QED BY <2>1, <2>2, <2>3
<1>2. CASE Write \/ Rename
  BY <1>2, StoreLasts
<1>3. CASE Open \/ Counted \/ Send
  BY <1>3, LastingElsewhere DEF Open, Counted, Send, bounds, history
<1>4. CASE RecvAndStoreAlarmReport
  <2>1. /\ files' = files /\ current_date' = day /\ sets' = sets
        /\ begun' = [begun EXCEPT ![day] = begun[day] + 1]
    BY <1>4 DEF RecvAndStoreAlarmReport, Begin, bounds
  <2>2. begun \in [Day -> Nat] /\ day \in Day
    BY DEF IInv, StoreType, DInv, HistoryType
  <2>3. \A d \in Day : begun'[d] >= begun[d] /\ begun'[d] \in Nat
    BY <2>1, <2>2
  <2>4. QED BY <2>1, <2>3 DEF Lasting
<1>5. CASE GetAlarmReportHistory \/ RecvAndSendEventHistoryToServer
  BY <1>5, LastingElsewhere
  DEF GetAlarmReportHistory, RecvAndSendEventHistoryToServer, Begin, bounds, history
<1>6. CASE PushAlarmReport \/ Midnight \/ UNCHANGED vars
  BY <1>6, LastingElsewhere DEF PushAlarmReport, Midnight, vars, work, bounds, history
<1>7. CASE SetClock
  <2>1. sets \in Nat /\ sets' = sets + 1 /\ files' = files /\ begun' = begun
    BY <1>7 DEF SetClock, DInv, HistoryType, history
  <2>2. QED BY <2>1, LastingElsewhere
<1>8. CASE Crash
  BY <1>8, LastingElsewhere DEF Crash, history
<1>9. QED BY <1>1, <1>2, <1>3, <1>4, <1>5, <1>6, <1>7, <1>8 DEF Next, Jobs

(* And what was told stays true.                                            *)
LEMMA PromiseKept ==
  ASSUME IInv, DInv, Lasting, NEW a \in Told, Promise(a)
  PROVE  Promise(a)'
<1>1. SUFFICES ASSUME sets' = 0
               PROVE  /\ a.date <= current_date'
                      /\ a.date = current_date' /\ begun'[a.date] <= Full =>
                           a.num <= Cardinality(OfRange(a.range, a.date)')
  BY DEF Promise
<1>2. sets = 0 /\ current_date' \in {current_date, day} /\ a.date <= current_date
      /\ current_date <= day
  BY <1>1 DEF Lasting, Promise, DInv, ClockInv
<1>3. /\ a.date \in Day /\ a.date \in Nat /\ a.num \in Nat
      /\ current_date \in Nat /\ day \in Nat
  BY DayFacts DEF Told, IInv, StoreType
<1>4. a.date <= current_date'
  BY <1>2, <1>3
<1>5. ASSUME a.date = current_date', begun'[a.date] <= Full
      PROVE  a.num <= Cardinality(OfRange(a.range, a.date)')
  <2>1. current_date = a.date
    BY <1>2, <1>3, <1>5
  <2>2. /\ begun'[a.date] >= begun[a.date] /\ begun'[a.date] \in Nat /\ begun[a.date] \in Nat
    BY <1>3 DEF Lasting, DInv, HistoryType
  <2>3. begun[a.date] <= Full
    BY <1>5, <2>2, Limits
  <2>4. a.num <= Cardinality(OfRange(a.range, a.date))
    BY <1>2, <2>1, <2>3 DEF Promise
  <2>5. OfRange(a.range, a.date) \subseteq OfRange(a.range, a.date)'
    <3>1. SUFFICES ASSUME NEW r \in Report, NEW f \in files,
                          Within(f, a.range, a.date), r \in ToSet(f.records)
                   PROVE  \E g \in files' : Within(g, a.range, a.date) /\ r \in ToSet(g.records)
      BY DEF OfRange
    <3>2. f.day \in Nat
      BY FileFacts, DayFacts DEF IInv
    <3>3. ~(Between(f.day, current_date) >= Keep \/ Between(f.day, current_date) < 0)
      BY <2>1, <3>1 DEF Within
    <3>4. PICK g \in files' : g.day = f.day /\ ToSet(f.records) \subseteq ToSet(g.records)
      BY <1>1, <1>5, <2>1, <3>3 DEF Lasting
    <3>5. QED BY <3>1, <3>4 DEF Within
  <2>6. OfRange(a.range, a.date)' \in SUBSET Report
    BY DEF OfRange
  <2>7. /\ Cardinality(OfRange(a.range, a.date)) <= Cardinality(OfRange(a.range, a.date)')
        /\ Cardinality(OfRange(a.range, a.date)) \in Nat
        /\ Cardinality(OfRange(a.range, a.date)') \in Nat
    BY <2>5, <2>6, Finitely
  <2>8. QED BY <1>3, <2>4, <2>7
<1>6. QED BY <1>4, <1>5

(* Nothing was asked, nothing sent.                                         *)
LEMMA QInit == Init => QInv
<1> SUFFICES ASSUME Init PROVE QInv
  OBVIOUS
<1>1. /\ job = "none" /\ asked = << >> /\ batch = << >> /\ sent = << >>
      /\ range = [start |-> 1, end |-> 1] /\ told = [range |-> range, num |-> 0, date |-> 1]
  BY DEF Init
<1>2. 1 \in Day
  BY Limits DEF Day
<1>3. range \in [start : Day, end : Day]
  BY <1>1, <1>2
<1>4. told \in Told
  BY <1>1, <1>2, <1>3 DEF Told
<1>5. QueryType
  BY <1>1, <1>3, <1>4 DEF QueryType
<1>6. GivenInv /\ CountInv /\ PromiseInv
  BY <1>1 DEF GivenInv, CountInv, PromiseInv
<1>7. QED BY <1>5, <1>6 DEF QInv

(* What was told stays true in every step that tells nothing new.           *)
LEMMA PromisesKept ==
  ASSUME IInv, DInv, QInv, Lasting,
         \A i \in DOMAIN asked' : \E j \in DOMAIN asked : asked'[i] = asked[j],
         job' = "send" => job = "send" /\ UNCHANGED <<told, range>>
  PROVE  PromiseInv'
<1>1. asked \in Seq(Told) /\ \A j \in DOMAIN asked : asked[j] \in Told
  BY DEF QInv, QueryType
<1>2. ASSUME NEW i \in DOMAIN asked' PROVE Promise(asked[i])'
  <2>1. PICK j \in DOMAIN asked : asked'[i] = asked[j]
    OBVIOUS
  <2>2. PICK a \in Told : a = asked[j]
    BY <1>1
  <2>3. Promise(a)
    BY <2>2 DEF QInv, PromiseInv
  <2>4. Promise(a)'
    BY <2>3, PromiseKept
  <2>5. QED BY <2>1, <2>2, <2>4
<1>3. ASSUME job' = "send" PROVE Promise(told)' /\ told'.range = range'
  <2>1. PICK a \in Told : a = told
    BY DEF QInv, QueryType
  <2>2. Promise(a) /\ told.range = range /\ told' = told /\ range' = range
    BY <1>3, <2>1 DEF QInv, PromiseInv
  <2>3. Promise(a)'
    BY <2>2, PromiseKept
  <2>4. QED BY <2>1, <2>2, <2>3
<1>4. QED BY <1>2, <1>3 DEF PromiseInv

(* A job that only stores, or none, is no query.                            *)
LEMMA QElsewhere ==
  ASSUME IInv, DInv, QInv, Lasting, job' \in {"none", "store"}, batch' = << >>,
         asked' \in {asked, << >>}, UNCHANGED <<told, range>>, sent' \in Seq(Report)
  PROVE  QInv'
<1>1. QueryType'
  <2>1. asked \in Seq(Told) /\ told' \in Told /\ range' \in [start : Day, end : Day]
    BY DEF QInv, QueryType
  <2>2. asked' \in Seq(Told)
    <3>1. CASE asked' = asked
      BY <2>1, <3>1
    <3>2. CASE asked' = << >>
      BY <3>2
    <3>3. QED BY <3>1, <3>2
  <2>3. batch' \in Seq(Report)
    OBVIOUS
  <2>4. job' \notin {"count", "send"} /\ job' # "count"
    OBVIOUS
  <2>5. QED BY <2>1, <2>2, <2>3, <2>4, Zenon DEF QueryType
<1>2. GivenInv' /\ CountInv'
  BY DEF GivenInv, CountInv
<1>3. \A i \in DOMAIN asked' : \E j \in DOMAIN asked : asked'[i] = asked[j]
  <2>1. DOMAIN << >> = {}
    OBVIOUS
  <2>2. CASE asked' = << >>
    BY <2>1, <2>2
  <2>3. CASE asked' = asked
    BY <2>3
  <2>4. QED BY <2>2, <2>3
<1>4. QED BY <1>1, <1>2, <1>3, PromisesKept DEF QInv

(* A query that the step leaves alone.                                      *)
LEMMA QSame ==
  ASSUME IInv, DInv, QInv, Lasting,
         UNCHANGED <<asked, job, step, current_date, range, told, seen, record_num, batch, sent>>,
         UNCHANGED stored, seen \cap files \subseteq files'
  PROVE  QInv'
<1>1. QueryType'
  BY DEF QInv, QueryType
<1>2. {f \in seen' : InRange(f)'} = {f \in seen : InRange(f)}
  BY DEF InRange, TooOld, Age
<1>3. GivenInv'
  BY <1>2 DEF QInv, GivenInv, Tells, InRange, TooOld, Age
<1>4. CountInv'
  <2>1. Named' = Named
    BY DEF Named, InRange, TooOld, Age
  <2>2. QED BY <2>1 DEF QInv, CountInv
<1>5. PromiseInv'
  <2>1. \A i \in DOMAIN asked' : \E j \in DOMAIN asked : asked'[i] = asked[j]
    OBVIOUS
  <2>2. QED BY <2>1, PromisesKept
<1>6. QED BY <1>1, <1>3, <1>4, <1>5 DEF QInv

(* Counting a file adds the records its name tells, which no other has.     *)
LEMMA QCount ==
  ASSUME IInv, DInv, QInv, Lasting, NEW f \in files, SweepCount(f)
  PROVE  QInv'
<1>1. /\ job = "count" /\ step = "sweep" /\ f \notin seen /\ seen' = seen \cup {f}
      /\ record_num' = IF InRange(f) THEN record_num + f.num ELSE record_num
      /\ UNCHANGED <<files, asked, job, step, current_date, range, told, batch, sent>>
  BY DEF SweepCount, Entry
<1>2. /\ record_num \in Nat /\ seen \subseteq files /\ record_num <= Cardinality(Named)
      /\ f.num \in Nat /\ f.num <= Len(f.records) /\ DOMAIN f.records = 1 .. Len(f.records)
      /\ Len(f.records) \in Nat
      /\ \A k \in DOMAIN f.records : f.records[k] \in Report
  BY <1>1, FileFacts DEF QInv, QueryType, CountInv, IInv, NamesHold
<1>3. QueryType'
  BY <1>1, <1>2 DEF QInv, QueryType
<1>4. GivenInv'
  BY <1>1 DEF GivenInv
<1>5. CountInv'
  <2> DEFINE new == {f.records[k] : k \in 1 .. f.num}
             place == [k \in 1 .. f.num |-> f.records[k]]
  <2>1. \A k \in 1 .. f.num : k \in DOMAIN f.records
    BY <1>2
  <2>2. Cardinality(new) = f.num /\ IsFiniteSet(new)
    <3>1. place \in [1 .. f.num -> new]
      OBVIOUS
    <3>2. ASSUME NEW k \in 1 .. f.num, NEW l \in 1 .. f.num, place[k] = place[l] PROVE k = l
      BY <2>1, <3>2, PlacesOfReports
    <3>3. \A r \in new : \E k \in 1 .. f.num : place[k] = r
      OBVIOUS
    <3> HIDE DEF place, new
    <3>4. place \in Bijection(1 .. f.num, new)
      BY <3>1, <3>2, <3>3 DEF Bijection, Injection, Surjection, IsInjective
    <3>5. IsFiniteSet(1 .. f.num) /\ Cardinality(1 .. f.num) = f.num
      <4>1. 1 \in Int /\ f.num \in Int
        BY <1>2
      <4>2. /\ IsFiniteSet(1 .. f.num)
            /\ Cardinality(1 .. f.num) = IF 1 > f.num THEN 0 ELSE f.num - 1 + 1
        BY <4>1, FS_Interval
      <4>3. QED BY <1>2, <4>2
    <3>6. ExistsBijection(1 .. f.num, new)
      BY <3>4 DEF ExistsBijection
    <3>7. QED BY <3>5, <3>6, FS_Bijection
  <2>3. Named \cap new = {}
    <3>1. SUFFICES ASSUME NEW r \in Named, NEW k \in 1 .. f.num, r = f.records[k] PROVE FALSE
      OBVIOUS
    <3>2. PICK g \in seen : \E l \in 1 .. g.num : g.records[l] = r
      BY DEF Named
    <3>3. PICK l \in 1 .. g.num : g.records[l] = r
      BY <3>2
    <3>4. g \in files /\ g # f /\ l \in DOMAIN g.records
      BY <1>1, <1>2, <3>3, FileFacts DEF IInv, NamesHold
    <3>5. QED BY <2>1, <3>1, <3>3, <3>4, PlacesOfReports
  <2>4. CASE InRange(f)
    <3>1. Named \cup new \subseteq Named'
      BY <1>1, <1>2, <2>1, <2>4 DEF Named, InRange, TooOld, Age
    <3>2. Named' \in SUBSET Report /\ Named \in SUBSET Report
      BY DEF Named
    <3>3. IsFiniteSet(Named) /\ Cardinality(Named) \in Nat
      BY <3>2, Finitely
    <3> HIDE DEF new
    <3>4. Cardinality(Named \cup new) = Cardinality(Named) + f.num
      <4>1. Cardinality(Named \cup new)
              = Cardinality(Named) + Cardinality(new) - Cardinality(Named \cap new)
        BY <2>2, <3>3, FS_Union
      <4>2. Cardinality(Named \cap new) = 0
        BY <2>3, FS_EmptySet
      <4>3. QED BY <1>2, <2>2, <3>3, <4>1, <4>2
    <3>5. Cardinality(Named \cup new) <= Cardinality(Named') /\ Cardinality(Named') \in Nat
      BY <3>1, <3>2, Finitely
    <3>6. record_num' <= Cardinality(Named')
      BY <1>1, <1>2, <2>4, <3>3, <3>4, <3>5
    <3>7. QED BY <3>6 DEF CountInv
  <2>5. CASE ~InRange(f)
    <3>1. Named \subseteq Named'
      BY <1>1 DEF Named, InRange, TooOld, Age
    <3>2. Named' \in SUBSET Report
      BY DEF Named
    <3>3. /\ Cardinality(Named) <= Cardinality(Named')
          /\ Cardinality(Named) \in Nat /\ Cardinality(Named') \in Nat
      BY <3>1, <3>2, Finitely
    <3>4. record_num' <= Cardinality(Named')
      BY <1>1, <1>2, <2>5, <3>3
    <3>5. QED BY <3>4 DEF CountInv
  <2>6. QED BY <2>4, <2>5
<1>6. PromiseInv'
  BY <1>1, PromisesKept
<1>7. QED BY <1>3, <1>4, <1>5, <1>6 DEF QInv

(* How three lots of records are joined makes no difference.                *)
Joins(s, t, u) == s \o (t \o u) = (s \o t) \o u

LEMMA Joined ==
  ASSUME NEW s \in Seq(Report), NEW t \in Seq(Report), NEW u \in Seq(Report)
  PROVE  Joins(s, t, u)
BY ConcatAssociative DEF Joins

(* The records of a file go out, or into the frame, behind the others.      *)
LEMMA QSend ==
  ASSUME IInv, DInv, QInv, Lasting, NEW f \in files, SweepSend(f)
  PROVE  QInv'
<1>1. /\ job = "send" /\ step = "sweep" /\ f \notin seen /\ seen' = seen \cup {f}
      /\ sent' = sent \o SubSeq(Read(f), 1, FullBatches(Read(f)))
      /\ batch' = SubSeq(Read(f), FullBatches(Read(f)) + 1, Len(Read(f)))
      /\ UNCHANGED <<files, asked, job, step, current_date, range, told, stored>>
  BY DEF SweepSend, Entry, history
<1>2. /\ sent \in Seq(Report) /\ batch \in Seq(Report) /\ f.records \in Seq(Report)
      /\ seen \subseteq files /\ Tells(sent \o batch, {g \in seen : InRange(g)})
  BY <1>1, FileFacts DEF QInv, QueryType, GivenInv, IInv
<1>3. Read(f) \in Seq(Report) /\ FullBatches(Read(f)) \in 0 .. Len(Read(f))
  <2>1. Read(f) \in Seq(Report)
    BY <1>2, ConcatProperties DEF Read
  <2>2. PICK n \in Nat : n = Len(Read(f))
    BY <2>1, LenProperties
  <2>3. 0 \in 0 .. n \div Batch
    BY HistoryAssumption DEF HistoryAssumption
  <2>4. QED BY <2>1, <2>2, <2>3, FramesFit DEF FullBatches
<1>4. /\ sent' \in Seq(Report) /\ batch' \in Seq(Report)
      /\ sent' \o batch' = sent \o Read(f)
  BY <1>1, <1>2, <1>3, CutInTwo
<1>5. QueryType'
  <2>1. /\ asked' \in Seq(Told) /\ told' \in Told /\ range' \in [start : Day, end : Day]
        /\ seen' \subseteq files'
    BY <1>1, <1>2 DEF QInv, QueryType
  <2>2. QED BY <1>1, <1>4, <2>1 DEF QueryType
<1>6. Tells(sent \o Read(f), {g \in seen' : InRange(g)})
  <2>1. CASE InRange(f)
    <3>1. sent \o Read(f) = (sent \o batch) \o f.records
      <4>1. Read(f) = batch \o f.records
        BY <2>1 DEF Read
      <4>2. sent \o (batch \o f.records) = (sent \o batch) \o f.records
        <5>1. Joins(sent, batch, f.records)
          BY ONLY <1>2, Joined
        <5>2. QED BY ONLY <5>1 DEF Joins
      <4>3. QED BY <4>1, <4>2
    <3>2. {g \in seen' : InRange(g)} = {g \in seen : InRange(g)} \cup {f}
      BY <1>1, <2>1
    <3>3. sent \o batch \in Seq(Report)
      BY <1>2, ConcatProperties
    <3>4. {g \in seen : InRange(g)} \in SUBSET files /\ f \in files \ {g \in seen : InRange(g)}
      BY <1>1, <1>2
    <3>5. QED BY <1>2, <3>1, <3>2, <3>3, <3>4, FileTells
  <2>2. CASE ~InRange(f)
    <3>1. {g \in seen' : InRange(g)} = {g \in seen : InRange(g)} /\ Read(f) = batch
      BY <1>1, <2>2 DEF Read
    <3>2. QED BY <1>2, <3>1
  <2>3. QED BY <2>1, <2>2
<1>7. GivenInv'
  <2>1. {g \in seen' : InRange(g)'} = {g \in seen' : InRange(g)}
    BY <1>1 DEF InRange, TooOld, Age
  <2>2. PICK s : s = sent' \o batch'
    OBVIOUS
  <2>3. PICK F : F = {g \in seen' : InRange(g)'}
    OBVIOUS
  <2>4. Tells(s, F)
    BY <1>4, <1>6, <2>1, <2>2, <2>3
  <2>5. Tells(s, F)'
    BY <1>1, <2>4 DEF Tells
  <2>6. QED BY <2>2, <2>3, <2>5 DEF GivenInv
<1>8. CountInv'
  BY <1>1 DEF CountInv
<1>9. PromiseInv'
  <2>1. \A i \in DOMAIN asked' : \E j \in DOMAIN asked : asked'[i] = asked[j]
    BY <1>1
  <2>2. QED BY <1>1, <2>1, PromisesKept
<1>10. QED BY <1>5, <1>7, <1>8, <1>9 DEF QInv

(* No memory for a frame: what went out are the first of the records.       *)
LEMMA NoMemoryTells ==
  ASSUME IInv, DInv, QInv, NEW f \in files, SweepSendNoMemory(f)
  PROVE  /\ sent' \in Seq(Report)
         /\ \E t \in Seq(Report) : \E F \in SUBSET {g \in files : InRange(g)} :
              Tells(sent' \o t, F)
<1>1. job = "send" /\ f \notin seen /\ InRange(f)
  BY DEF SweepSendNoMemory, Entry
<1>2. PICK n \in 0 .. Len(Read(f)) \div Batch : sent' = sent \o SubSeq(Read(f), 1, n * Batch)
  BY DEF SweepSendNoMemory
<1>3. /\ sent \in Seq(Report) /\ batch \in Seq(Report) /\ f.records \in Seq(Report)
      /\ seen \subseteq files /\ Tells(sent \o batch, {g \in seen : InRange(g)})
  BY <1>1, FileFacts DEF QInv, QueryType, GivenInv, IInv
<1>4. Read(f) \in Seq(Report) /\ n * Batch \in 0 .. Len(Read(f))
  <2>1. Read(f) \in Seq(Report)
    BY <1>3, ConcatProperties DEF Read
  <2>2. QED BY <2>1, FramesFit, LenProperties
<1>5. PICK t \in Seq(Report) : sent' \in Seq(Report) /\ sent' \o t = sent \o Read(f)
  <2>1. PICK m \in 0 .. Len(Read(f)) : m = n * Batch
    BY <1>4
  <2>2. /\ SubSeq(Read(f), m + 1, Len(Read(f))) \in Seq(Report)
        /\ sent \o SubSeq(Read(f), 1, m) \in Seq(Report)
        /\ (sent \o SubSeq(Read(f), 1, m)) \o SubSeq(Read(f), m + 1, Len(Read(f)))
             = sent \o Read(f)
    BY <1>3, <1>4, CutInTwo
  <2>3. QED BY <1>2, <2>1, <2>2
<1>6. sent \o Read(f) = (sent \o batch) \o f.records /\ sent \o batch \in Seq(Report)
  <2>1. Read(f) = batch \o f.records
    BY <1>1 DEF Read
  <2>2. sent \o (batch \o f.records) = (sent \o batch) \o f.records
    <3>1. Joins(sent, batch, f.records)
      BY ONLY <1>3, Joined
    <3>2. QED BY ONLY <3>1 DEF Joins
  <2>3. sent \o batch \in Seq(Report)
    BY <1>3, ConcatProperties
  <2>4. QED BY <2>1, <2>2, <2>3
<1>7. {g \in seen : InRange(g)} \in SUBSET files /\ f \in files \ {g \in seen : InRange(g)}
  BY <1>1, <1>3
<1>8. Tells(sent' \o t, {g \in seen : InRange(g)} \cup {f})
  BY <1>3, <1>5, <1>6, <1>7, FileTells
<1>9. {g \in seen : InRange(g)} \cup {f} \in SUBSET {g \in files : InRange(g)}
  BY <1>1, <1>3
<1>10. QED BY <1>5, <1>8, <1>9

(* The count is told: it is that of records there are, of the day's range.  *)
LEMMA QCounted ==
  ASSUME IInv, DInv, QInv, Lasting, Counted
  PROVE  QInv'
<1> DEFINE a == [range |-> range, num |-> record_num, date |-> current_date]
<1>1. /\ job = "count" /\ step = "sweep" /\ job' = "none" /\ step' = "sweep"
      /\ asked' = asked \/ asked' = Append(asked, a)
      /\ UNCHANGED <<files, current_date, range, told, batch, sent, begun, sets>>
  BY DEF Counted, Swept, End, bounds, history
<1>2. asked \in Seq(Told) /\ record_num \in Nat /\ seen \subseteq files /\ batch = << >>
      /\ record_num <= Cardinality(Named) /\ sent \in Seq(Report)
  BY <1>1 DEF QInv, QueryType, CountInv
<1>3. CASE asked' = asked
  BY <1>1, <1>2, <1>3, QElsewhere
<1>4. CASE asked' = Append(asked, a)
  <2>1. a \in Told /\ a.range = range /\ a.num = record_num /\ a.date = current_date
    BY <1>2 DEF Told, QInv, QueryType, IInv, StoreType
  <2>2. Promise(a)
    <3>1. current_date <= current_date
      BY DayFacts DEF IInv, StoreType
    <3>2. Named \subseteq OfRange(range, current_date)
      <4>1. SUFFICES ASSUME NEW r \in Named PROVE r \in OfRange(range, current_date)
        OBVIOUS
      <4>2. PICK f \in seen : InRange(f) /\ \E k \in 1 .. f.num : f.records[k] = r
        BY DEF Named
      <4>3. f \in files /\ r \in ToSet(f.records) /\ r \in Report
        BY <1>2, <4>2, FileFacts DEF IInv, NamesHold, ToSet, Named
      <4>4. QED BY <4>2, <4>3 DEF OfRange, Within, InRange, TooOld, Age, Between
    <3>3. OfRange(range, current_date) \in SUBSET Report
      BY DEF OfRange
    <3>4. /\ Cardinality(Named) <= Cardinality(OfRange(range, current_date))
          /\ Cardinality(Named) \in Nat /\ Cardinality(OfRange(range, current_date)) \in Nat
      BY <3>2, <3>3, Finitely
    <3>5. record_num <= Cardinality(OfRange(range, current_date))
      BY <1>2, <3>4
    <3>6. QED BY <2>1, <3>1, <3>5 DEF Promise
  <2>3. PICK b \in Told : b = a
    BY <2>1
  <2> HIDE DEF a
  <2>4. Promise(b)'
    BY <2>2, <2>3, PromiseKept
  <2>5. /\ asked' \in Seq(Told) /\ Len(asked) \in Nat
        /\ DOMAIN asked = 1 .. Len(asked) /\ DOMAIN asked' = 1 .. Len(asked) + 1
        /\ asked'[Len(asked) + 1] = b
        /\ \A i \in DOMAIN asked : asked'[i] = asked[i] /\ asked[i] \in Told
    BY <1>2, <1>4, <2>1, <2>3, AppendProperties
  <2>6. ASSUME NEW i \in DOMAIN asked' PROVE Promise(asked[i])'
    <3>1. CASE i \in DOMAIN asked
      <4>1. PICK c \in Told : c = asked[i]
        BY <2>5, <3>1
      <4>2. Promise(c)
        BY <3>1, <4>1 DEF QInv, PromiseInv
      <4>3. Promise(c)'
        BY <4>2, PromiseKept
      <4>4. QED BY <2>5, <3>1, <4>1, <4>3
    <3>2. CASE i = Len(asked) + 1
      BY <2>4, <2>5, <3>2
    <3>3. QED BY <2>5, <3>1, <3>2
  <2>7. PromiseInv'
    BY <1>1, <2>6 DEF PromiseInv
  <2>8. QueryType'
    BY <1>1, <1>2, <2>5 DEF QInv, QueryType
  <2>9. GivenInv' /\ CountInv'
    BY <1>1 DEF GivenInv, CountInv
  <2>10. QED BY <2>7, <2>8, <2>9 DEF QInv
<1>5. QED BY <1>1, <1>3, <1>4

(* A query begins with nothing counted, ...                                 *)
LEMMA QBeginCount ==
  ASSUME IInv, DInv, QInv, Lasting, GetAlarmReportHistory
  PROVE  QInv'
<1>1. /\ job' = "count" /\ step' = "sweep" /\ seen' = {} /\ record_num' = 0 /\ job = "none"
      /\ UNCHANGED <<files, asked, told, batch, sent>>
  BY DEF GetAlarmReportHistory, Begin
<1>2. range' \in [start : Day, end : Day]
  <2>1. PICK s \in Day : \E e \in s .. MaxDay : range' = [start |-> s, end |-> e]
    BY DEF GetAlarmReportHistory
  <2>2. PICK e \in s .. MaxDay : range' = [start |-> s, end |-> e]
    BY <2>1
  <2>3. e \in Day
    BY <2>2, Limits DEF Day
  <2>4. QED BY <2>2, <2>3
<1>3. QueryType'
  <2>1. /\ asked' \in Seq(Told) /\ told' \in Told /\ batch' = << >>
        /\ batch' \in Seq(Report) /\ sent' \in Seq(Report)
    BY <1>1 DEF QInv, QueryType
  <2>2. QED BY <1>1, <1>2, <2>1 DEF QueryType
<1>4. GivenInv'
  BY <1>1 DEF GivenInv
<1>5. CountInv'
  <2>1. Named' = {}
    BY <1>1 DEF Named
  <2>2. Cardinality(Named') = 0
    BY <2>1, FS_EmptySet
  <2>3. QED BY <1>1, <2>2 DEF CountInv
<1>6. PromiseInv'
  <2>1. \A i \in DOMAIN asked' : \E j \in DOMAIN asked : asked'[i] = asked[j]
    BY <1>1
  <2>2. QED BY <1>1, <2>1, PromisesKept
<1>7. QED BY <1>3, <1>4, <1>5, <1>6 DEF QInv

(* ... and nothing sent.                                                    *)
LEMMA QBeginSend ==
  ASSUME IInv, DInv, QInv, Lasting, RecvAndSendEventHistoryToServer
  PROVE  QInv'
<1>1. /\ job' = "send" /\ step' = "sweep" /\ seen' = {} /\ job = "none" /\ asked # << >>
      /\ told' = Head(asked) /\ range' = Head(asked).range /\ asked' = Tail(asked)
      /\ sent' = << >> /\ batch' = batch
  BY DEF RecvAndSendEventHistoryToServer, Begin
<1>2. asked \in Seq(Told) /\ batch = << >>
  BY <1>1 DEF QInv, QueryType
<1>3. /\ asked' \in Seq(Told) /\ Len(asked) \in Nat /\ DOMAIN asked = 1 .. Len(asked)
      /\ 1 \in DOMAIN asked /\ told' = asked[1] /\ told' \in Told
      /\ DOMAIN asked' = 1 .. Len(asked) - 1
      /\ \A i \in DOMAIN asked' : asked'[i] = asked[i + 1] /\ i + 1 \in DOMAIN asked
  BY <1>1, <1>2, HeadTailProperties
<1>4. range' \in [start : Day, end : Day] /\ range' = told'.range
  BY <1>1, <1>3 DEF Told
<1>5. QueryType'
  <2>1. sent' \in Seq(Report) /\ batch' \in Seq(Report)
    BY <1>1, <1>2
  <2>2. QED BY <1>1, <1>2, <1>3, <1>4, <2>1 DEF QueryType
<1>6. GivenInv'
  <2>1. sent' \o batch' = << >>
    BY <1>1, <1>2
  <2>2. DOMAIN << >> = {}
    OBVIOUS
  <2>3. ToSet(<< >>) = {} /\ IsInjective(<< >>)
    BY <2>2 DEF ToSet, IsInjective
  <2>4. {f \in seen' : InRange(f)'} = {}
    BY <1>1
  <2>5. QED BY <2>1, <2>2, <2>3, <2>4 DEF GivenInv, Tells
<1>7. CountInv'
  BY <1>1 DEF CountInv
<1>8. PromiseInv'
  <2>1. ASSUME NEW j \in DOMAIN asked, NEW a, a = asked[j] PROVE Promise(a)'
    <3>1. a \in Told /\ Promise(a)
      BY <1>2, <1>3, <2>1, ElementOfSeq DEF QInv, PromiseInv
    <3>2. QED BY <3>1, PromiseKept
  <2>2. ASSUME NEW i \in DOMAIN asked' PROVE Promise(asked[i])'
    <3>1. PICK a : a = asked'[i]
      OBVIOUS
    <3>2. Promise(a)'
      BY <1>3, <2>1, <3>1
    <3>3. QED BY <3>1, <3>2
  <2>3. Promise(told)'
    <3>1. PICK a : a = told'
      OBVIOUS
    <3>2. Promise(a)'
      BY <1>3, <2>1, <3>1
    <3>3. QED BY <3>1, <3>2
  <2>4. QED BY <1>4, <2>2, <2>3 DEF PromiseInv
<1>9. QED BY <1>5, <1>6, <1>7, <1>8 DEF QInv

(* So every step keeps what a query relies on.                              *)
LEMMA QStep == IInv /\ DInv /\ QInv /\ [Next]_vars => QInv'
<1> SUFFICES ASSUME IInv, DInv, QInv, [Next]_vars PROVE QInv'
  OBVIOUS
<1>1. Lasting
  BY LastingNext
<1>2. /\ asked \in Seq(Told) /\ batch \in Seq(Report) /\ sent \in Seq(Report)
      /\ job \in {"count", "send"} => step = "sweep" /\ seen \subseteq files
      /\ job # "send" => batch = << >>
  BY DEF QInv, QueryType
<1>3. ASSUME NEW f \in files, SweepOld(f)
      PROVE  QInv'
  <2>1. /\ UNCHANGED <<asked, job, step, current_date, range, told, seen, record_num, batch, sent>>
        /\ UNCHANGED stored /\ f \notin seen /\ files' = files \ {f}
    BY <1>3 DEF SweepOld, Entry, work, history
  <2>2. seen \cap files \subseteq files'
    BY <2>1
  <2>3. QED BY <1>1, <2>1, <2>2, QSame
<1>4. ASSUME NEW f \in files, SweepStore(f)
      PROVE  QInv'
  <2>1. job = "store" /\ job' = job /\ UNCHANGED <<asked, range, told, batch, sent>>
    BY <1>4 DEF SweepStore
  <2>2. QED BY <1>1, <1>2, <2>1, QElsewhere
<1>5. ASSUME NEW f \in files, SweepSendNoMemory(f)
      PROVE  QInv'
  <2>1. job' = "none" /\ batch' = << >> /\ UNCHANGED <<asked, range, told>>
    BY <1>5 DEF SweepSendNoMemory, End
  <2>2. sent' \in Seq(Report)
    BY <1>5, NoMemoryTells
  <2>3. QED BY <1>1, <2>1, <2>2, QElsewhere
<1>6. CASE SweepStep
  BY <1>1, <1>3, <1>4, <1>5, <1>6, QCount, QSend DEF SweepStep
<1>7. CASE Open \/ Write \/ Rename
  <2>1. job = "store" /\ job' \in {"none", "store"} /\ UNCHANGED <<asked, range, told, batch, sent>>
    BY <1>7 DEF Open, Write, Rename, End
  <2>2. QED BY <1>1, <1>2, <2>1, QElsewhere
<1>8. CASE Send
  <2>1. job' = "none" /\ batch' = << >> /\ sent' = sent \o batch /\ UNCHANGED <<asked, range, told>>
    BY <1>8 DEF Send, End, Rest
  <2>2. sent' \in Seq(Report)
    BY <1>2, <2>1, ConcatProperties
  <2>3. QED BY <1>1, <2>1, <2>2, QElsewhere
<1>9. CASE RecvAndStoreAlarmReport
  <2>1. job = "none" /\ job' = "store" /\ UNCHANGED <<asked, range, told, batch, sent>>
    BY <1>9 DEF RecvAndStoreAlarmReport, Begin
  <2>2. QED BY <1>1, <1>2, <2>1, QElsewhere
<1>10. CASE PushAlarmReport \/ Midnight \/ SetClock \/ UNCHANGED vars
  <2>1. /\ UNCHANGED <<asked, job, step, current_date, range, told, seen, record_num, batch, sent>>
        /\ UNCHANGED <<stored, files>>
    BY <1>10 DEF PushAlarmReport, Midnight, SetClock, vars, work, history
  <2>2. seen \cap files \subseteq files'
    BY <2>1
  <2>3. QED BY <1>1, <2>1, <2>2, QSame
<1>11. CASE Crash
  <2>1. /\ job' = "none" /\ batch' = << >> /\ asked' = << >> /\ sent' = << >>
        /\ UNCHANGED <<range, told>>
    BY <1>11 DEF Crash, End
  <2>2. sent' \in Seq(Report)
    BY <2>1
  <2>3. QED BY <1>1, <2>1, <2>2, QElsewhere
<1>12. QED
  BY <1>1, <1>6, <1>7, <1>8, <1>9, <1>10, <1>11, QCounted, QBeginCount, QBeginSend
  DEF Next, Jobs

(* As many records are sent as there are different ones among them.         *)
LEMMA AsManySent ==
  ASSUME NEW s \in Seq(Report), IsInjective(s)
  PROVE  Cardinality(ToSet(s)) = Len(s)
<1>1. PICK n \in Nat : n = Len(s)
  BY LenProperties
<1>2. DOMAIN s = 1 .. n /\ s \in [1 .. n -> ToSet(s)]
  BY <1>1, LenProperties DEF ToSet
<1>3. s \in Bijection(1 .. n, ToSet(s))
  <2>1. \A a, b \in 1 .. n : s[a] = s[b] => a = b
    BY <1>2 DEF IsInjective
  <2>2. \A r \in ToSet(s) : \E k \in 1 .. n : s[k] = r
    BY <1>2 DEF ToSet
  <2>3. QED BY <1>2, <2>1, <2>2 DEF Bijection, Injection, Surjection
<1>4. IsFiniteSet(1 .. n) /\ Cardinality(1 .. n) = n
  <2>1. 1 \in Int /\ n \in Int
    OBVIOUS
  <2>2. IsFiniteSet(1 .. n) /\ Cardinality(1 .. n) = IF 1 > n THEN 0 ELSE n - 1 + 1
    BY <2>1, FS_Interval
  <2>3. QED BY <2>2
<1>5. ExistsBijection(1 .. n, ToSet(s))
  BY <1>3 DEF ExistsBijection
<1>6. QED BY <1>1, <1>4, <1>5, FS_Bijection

(* A query that ends sends the records of its days exactly.                 *)
LEMMA SendExact ==
  ASSUME IInv, DInv, QInv, Send
  PROVE  /\ Tells(sent', {g \in files : InRange(g)})
         /\ sets = 0 /\ current_date = told.date /\ begun[current_date] <= Full =>
              Len(sent') >= told.num
<1>1. /\ job = "send" /\ files \subseteq seen /\ seen \subseteq files /\ sent' = sent \o batch
      /\ sent \in Seq(Report) /\ batch \in Seq(Report)
      /\ Tells(sent \o batch, {f \in seen : InRange(f)})
      /\ Promise(told) /\ told.range = range /\ told \in Told
  BY DEF Send, Swept, Rest, QInv, QueryType, GivenInv, PromiseInv
<1>2. seen = files
  BY <1>1
<1>3. Tells(sent', {g \in files : InRange(g)})
  BY <1>1, <1>2
<1>4. ASSUME sets = 0, current_date = told.date, begun[current_date] <= Full
      PROVE  Len(sent') >= told.num
  <2>1. told.num <= Cardinality(OfRange(told.range, told.date))
    BY <1>1, <1>4 DEF Promise
  <2>2. PICK s \in Seq(Report) : s = sent'
    BY <1>1, ConcatProperties
  <2>3. IsInjective(s) /\ ToSet(s) = UNION {ToSet(f.records) : f \in {g \in files : InRange(g)}}
    BY <1>3, <2>2 DEF Tells
  <2>4. OfRange(told.range, told.date) \subseteq ToSet(s)
    <3>1. SUFFICES ASSUME NEW r \in Report, NEW f \in files,
                          Within(f, told.range, told.date), r \in ToSet(f.records)
                   PROVE  r \in ToSet(s)
      BY DEF OfRange
    <3>2. InRange(f)
      BY <1>1, <1>4, <3>1 DEF Within, InRange, TooOld, Age, Between
    <3>3. QED BY <2>3, <3>1, <3>2
  <2>5. ToSet(s) \in SUBSET Report
    BY <2>2, ElementOfSeq DEF ToSet
  <2>6. /\ Cardinality(OfRange(told.range, told.date)) <= Cardinality(ToSet(s))
        /\ Cardinality(OfRange(told.range, told.date)) \in Nat
        /\ Cardinality(ToSet(s)) \in Nat
    BY <2>4, <2>5, Finitely
  <2>7. Cardinality(ToSet(s)) = Len(s)
    BY <2>3, AsManySent
  <2>8. told.num \in Nat
    BY <1>1 DEF Told
  <2>9. QED BY <2>1, <2>2, <2>6, <2>7, <2>8
<1>5. QED BY <1>3, <1>4

(* Frames there was no memory for are counted.                              *)
LEMMA NoMemoryCount == noMemory \in Nat /\ [Next]_vars => noMemory' \in Nat
BY DEF Next, Jobs, SweepStep, SweepOld, SweepStore, SweepCount, SweepSend, SweepSendNoMemory, Open,
       Write, Rename, Counted, Send, RecvAndStoreAlarmReport, GetAlarmReportHistory,
       RecvAndSendEventHistoryToServer, PushAlarmReport, Midnight, SetClock, Crash, vars, bounds

(* A query is answered with the records of its days, each once and those of *)
(* a day in the order they were stored; with no memory, with the first of   *)
(* them; and with no fewer than its count told, while it is the same day.   *)
THEOREM AnswerAlwaysExact == Spec => AnswerExact
<1> DEFINE I == IInv /\ DInv /\ QInv /\ noMemory \in Nat
           Exact == job = "send" /\ job' = "none" /\ crashes' = crashes =>
             /\ IsInjective(sent')
             /\ ToSet(sent') \subseteq Asked
             /\ noMemory' = noMemory => ToSet(sent') = Asked
             /\ noMemory' = noMemory /\ sets = 0 /\ current_date = told.date
                  /\ begun[current_date] <= Full => Len(sent') >= told.num
             /\ \A i, j \in DOMAIN sent' :
                  i < j /\ stored[sent'[i]] = stored[sent'[j]] => sent'[i] < sent'[j]
<1>1. Init => I
  <2>1. Init => noMemory \in Nat
    BY DEF Init
  <2>2. QED BY <2>1, InitInv, DInit, QInit
<1>2. I /\ [Next]_vars => I'
  BY StepInv, DStep, QStep, NoMemoryCount
<1>3. I /\ [Next]_vars => Exact
  <2> SUFFICES ASSUME I, [Next]_vars, job = "send", job' = "none", crashes' = crashes
               PROVE  /\ IsInjective(sent')
                      /\ ToSet(sent') \subseteq Asked
                      /\ noMemory' = noMemory => ToSet(sent') = Asked
                      /\ noMemory' = noMemory /\ sets = 0 /\ current_date = told.date
                           /\ begun[current_date] <= Full => Len(sent') >= told.num
                      /\ \A i, j \in DOMAIN sent' :
                           i < j /\ stored[sent'[i]] = stored[sent'[j]] => sent'[i] < sent'[j]
    OBVIOUS
  <2>1. crashes \in Nat
    BY DEF DInv, HistoryType
  <2>2. Send \/ \E f \in files : SweepSendNoMemory(f)
    BY <2>1 DEF Next, Jobs, SweepStep, SweepOld, SweepStore, SweepCount, SweepSend, Open, Write,
                Rename, Counted, RecvAndStoreAlarmReport, GetAlarmReportHistory,
                RecvAndSendEventHistoryToServer, Begin, PushAlarmReport, Midnight, SetClock, Crash,
                vars, work
  <2>3. CASE Send
    <3>1. Tells(sent', {g \in files : InRange(g)})
      BY <2>3, SendExact
    <3>2. ToSet(sent') = Asked /\ IsInjective(sent')
      BY <3>1 DEF Tells, Asked
    <3>3. QED BY <2>3, <3>1, <3>2, SendExact DEF Tells
  <2>4. ASSUME NEW f \in files, SweepSendNoMemory(f)
        PROVE  /\ IsInjective(sent') /\ ToSet(sent') \subseteq Asked /\ noMemory' # noMemory
               /\ \A i, j \in DOMAIN sent' :
                    i < j /\ stored[sent'[i]] = stored[sent'[j]] => sent'[i] < sent'[j]
    <3>1. noMemory' # noMemory
      BY <2>4 DEF SweepSendNoMemory
    <3>2. /\ sent' \in Seq(Report)
          /\ \E t \in Seq(Report) : \E F \in SUBSET {g \in files : InRange(g)} :
               Tells(sent' \o t, F)
      BY <2>4, NoMemoryTells
    <3>3. PICK s \in Seq(Report) : s = sent'
      BY <3>2
    <3>4. PICK t \in Seq(Report), F \in SUBSET {g \in files : InRange(g)} : Tells(s \o t, F)
      BY <3>2, <3>3
    <3>5. /\ IsInjective(s) /\ ToSet(s) \subseteq UNION {ToSet(g.records) : g \in F}
          /\ \A i, j \in DOMAIN s : i < j /\ stored[s[i]] = stored[s[j]] => s[i] < s[j]
      BY <3>4, FirstTell
    <3>6. UNION {ToSet(g.records) : g \in F} \subseteq Asked
      BY DEF Asked
    <3>7. QED BY <3>1, <3>3, <3>5, <3>6
  <2>5. QED BY <2>2, <2>3, <2>4
<1>4. QED BY <1>1, <1>2, <1>3, PTL DEF Spec, AnswerExact

-----------------------------------------------------------------------------
(* The type invariant: what is left of it once the three invariants hold,    *)
(* the lengths of the queues and of the frame being filled.                 *)
RestType ==
  /\ Len(queue) <= QueueLen /\ Len(asked) <= QueueLen
  /\ alarm_report \in Report \cup {0}
  /\ record_num \in Nat
  /\ Len(batch) < Batch

(* What is left over of full frames fills none.                             *)
LEMMA LeftOver ==
  ASSUME NEW t \in Seq(Report)
  PROVE  Len(SubSeq(t, FullBatches(t) + 1, Len(t))) < Batch
<1>1. Batch \in Nat \ {0}
  BY HistoryAssumption DEF HistoryAssumption
<1>2. PICK n \in Nat : n = Len(t)
  BY LenProperties
<1>3. PICK m \in Nat : m = n \div Batch
  BY <1>1
<1>4. Batch * m <= n /\ n < Batch * m + Batch /\ Batch * m \in Nat
  BY <1>1, <1>3
<1>5. PICK b \in Nat : b = Batch * m
  BY <1>4
<1>6. FullBatches(t) = b /\ b <= n /\ n < b + Batch
  BY <1>2, <1>3, <1>4, <1>5 DEF FullBatches
<1>7. Len(SubSeq(t, b + 1, n)) = IF b + 1 <= n THEN n - (b + 1) + 1 ELSE 0
  <2>1. \A i \in b + 1 .. n : t[i] \in Report
    BY <1>2, ElementOfSeq
  <2>2. QED BY <1>2, <2>1, SubSeqProperties
<1>8. QED BY <1>1, <1>2, <1>6, <1>7

LEMMA RestInit == Init => RestType
BY HistoryAssumption DEF HistoryAssumption, Init, RestType

LEMMA RestStep == IInv /\ QInv /\ RestType /\ [Next]_vars => RestType'
<1> SUFFICES ASSUME IInv, QInv, RestType, [Next]_vars PROVE RestType'
  OBVIOUS
<1>1. /\ queue \in Seq(Report) /\ asked \in Seq(Told) /\ batch \in Seq(Report)
      /\ QueueLen \in Nat \ {0} /\ Batch \in Nat \ {0}
  BY HistoryAssumption DEF HistoryAssumption, IInv, StoreType, QInv, QueryType
<1>2. /\ Len(queue) \in Nat /\ Len(asked) \in Nat /\ Len(batch) \in Nat
      /\ Len(queue) <= QueueLen /\ Len(asked) <= QueueLen /\ Len(batch) < Batch
      /\ alarm_report \in Report \cup {0} /\ record_num \in Nat
      /\ Len(<< >>) = 0
  BY <1>1, LenProperties DEF RestType
<1>3. ASSUME NEW f \in files, SweepOld(f) \/ SweepStore(f) \/ SweepCount(f) \/ SweepSendNoMemory(f)
      PROVE  RestType'
  <2>1. f.num \in Nat /\ f.records \in Seq(Report)
    BY FileFacts DEF IInv
  <2>2. QED
    BY <1>1, <1>2, <1>3, <2>1 DEF RestType, SweepOld, SweepStore, SweepCount, SweepSendNoMemory, NumberOf,
       End, work
<1>4. ASSUME NEW f \in files, SweepSend(f)
      PROVE  RestType'
  <2>1. Read(f) \in Seq(Report)
    BY <1>1, FileFacts, ConcatProperties DEF Read, IInv
  <2>2. Len(batch') < Batch
    BY <1>4, <2>1, LeftOver DEF SweepSend
  <2>3. QED BY <1>2, <1>4, <2>2 DEF RestType, SweepSend
<1>5. CASE Open \/ Write \/ Rename \/ Send
  BY <1>1, <1>2, <1>5 DEF RestType, Open, Write, Rename, Send, End
<1>6. CASE Counted
  BY <1>1, <1>2, <1>6 DEF RestType, Counted, End
<1>7. CASE RecvAndStoreAlarmReport
  <2>1. /\ alarm_report' = Head(queue) /\ queue' = Tail(queue) /\ queue # << >> /\ record_num' = 0
        /\ UNCHANGED <<asked, batch>>
    BY <1>7 DEF RecvAndStoreAlarmReport, Begin
  <2>2. alarm_report' \in Report /\ Len(queue') = Len(queue) - 1
    BY <1>1, <2>1, HeadTailProperties
  <2>3. QED BY <1>1, <1>2, <2>1, <2>2 DEF RestType
<1>8. CASE GetAlarmReportHistory
  BY <1>2, <1>8 DEF RestType, GetAlarmReportHistory, Begin
<1>9. CASE RecvAndSendEventHistoryToServer
  BY <1>1, <1>2, <1>9, HeadTailProperties DEF RestType, RecvAndSendEventHistoryToServer, Begin
<1>10. CASE PushAlarmReport
  <2>1. Len(queue') = Len(queue) + 1 /\ Len(queue) < QueueLen /\ UNCHANGED work
    <3>1. MaxReport \in Nat /\ pushed \in 0 .. MaxReport /\ pushed < MaxReport
      BY <1>10, Limits DEF PushAlarmReport, IInv, StoreType
    <3>2. pushed + 1 \in Report
      BY <3>1 DEF Report
    <3>3. QED BY <1>1, <1>10, <3>2, AppendProperties DEF PushAlarmReport
  <2>2. QED BY <1>1, <1>2, <2>1 DEF RestType, work
<1>11. CASE Midnight \/ SetClock \/ UNCHANGED vars
  BY <1>2, <1>11 DEF RestType, Midnight, SetClock, vars, work
<1>12. CASE Crash
  BY <1>1, <1>2, <1>12 DEF RestType, Crash, End
<1>13. QED
  BY <1>3, <1>4, <1>5, <1>6, <1>7, <1>8, <1>9, <1>10, <1>11, <1>12 DEF Next, Jobs, SweepStep

(* The directory, the queues, the sum of a count and the frame being filled *)
(* always have their types.                                                 *)
THEOREM TypeCorrect == Spec => []TypeOK
<1> DEFINE I == IInv /\ DInv /\ QInv /\ RestType
<1>1. Init => I
  BY InitInv, DInit, QInit, RestInit
<1>2. I /\ [Next]_vars => I'
  BY StepInv, DStep, QStep, RestStep
<1>3. I => TypeOK
  <2> SUFFICES ASSUME I PROVE TypeOK
    OBVIOUS
  <2>1. /\ files \in SUBSET File /\ queue \in Seq(Report)
        /\ job \in {"none", "store", "count", "send"} /\ step \in {"sweep", "open", "write", "rename"}
        /\ current_date \in Day /\ day \in Day
    BY DEF IInv, StoreType
  <2>2. /\ range \in [start : Day, end : Day] /\ told \in Told /\ asked \in Seq(Told)
        /\ batch \in Seq(Report) /\ sent \in Seq(Report)
    BY DEF QInv, QueryType
  <2>3. stored \in [Report -> Day \cup {0}] /\ begun \in [Day -> Nat]
    BY DEF DInv, HistoryType
  <2>4. QED BY <2>1, <2>2, <2>3 DEF RestType, TypeOK
<1>4. QED BY <1>1, <1>2, <1>3, PTL DEF Spec
=============================================================================
