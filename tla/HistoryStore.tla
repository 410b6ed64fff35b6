---------------------------- MODULE HistoryStore ----------------------------
(***************************************************************************)
(* The alarm history on flash (history_record.c, task_store.c).             *)
(*                                                                          *)
(* A device type has one file per day, whose name holds the number of its   *)
(* records and the day.  Storing a record sweeps the directory, deleting    *)
(* what is too old and finding the file of the day, appends to that file    *)
(* and renames it to the next number.  A query of the server is answered    *)
(* twice: the task of the device type sweeps and deletes alike, adds up the *)
(* numbers of the names and tells the sum; the task STORE later sweeps once *)
(* more and sends the records themselves, in batches.  The three exclude    *)
(* each other by a mutex; the power may fail between any two of their steps, *)
(* and the clock, which says what day it is, may be set.                    *)
(*                                                                          *)
(* FatFs is external: a record is on flash when its file is closed, a file  *)
(* just created may be there, empty, before; deleting and renaming are one  *)
(* step each, and the flash is never full.                                  *)
(***************************************************************************)
EXTENDS Integers, FiniteSets, SequencesExt

CONSTANTS
  Keep,         \* days a file is kept: 30
  Full,         \* records that fill a file: 255
  Batch,        \* EVENT_NUM_OF_BATCH: records of a frame
  QueueLen,     \* length of xQueue_AlarmReportStore
  MaxDay,       \* bound: the last day of the calendar
  LeapDays,     \* the days that lie in a leap year
  MaxReport,    \* bound: reports pushed
  MaxQuery,     \* bound: queries of the server
  MaxSetClock,  \* bound: times the clock is set to another day
  MaxCrash,     \* bound: power failures
  MaxNoMemory   \* bound: frames there is no memory for

Day == 1 .. MaxDay
Report == 1 .. MaxReport

ASSUME HistoryAssumption ==
  /\ Keep \in Nat \ {0} /\ Full \in Nat \ {0} /\ Batch \in Nat \ {0} /\ QueueLen \in Nat \ {0}
  /\ MaxDay \in Nat \ {0} /\ MaxReport \in Nat
  /\ LeapDays \subseteq Day
  /\ \A m \in {MaxQuery, MaxSetClock, MaxCrash, MaxNoMemory} : m \in Nat

VARIABLES
  files,       \* the directory: [num, day, records] of each file
  queue,       \* xQueue_AlarmReportStore
  asked,       \* xQueue_HistoryRecordRead: the queries counted and to be sent
  job,         \* who holds xMutex_SPI_FLASH: "store", "count", "send" or "none"
  step,        \* "sweep", "open", "write", "rename"
  alarm_report,
  current_date,\* the day when the job began
  range,       \* start_date and end_date of a query
  told,        \* history: the number the query being sent was told, and when
  seen,        \* entries of the directory already read
  record_num,  \* store: number in the name of today's file; count: their sum
  batch, sent, \* records of the frame being filled, and of the frames sent
  day,         \* calendar
  pushed, queries, sets, crashes, noMemory,
  stored,      \* history: the day of each report written to flash, 0 if it never was
  begun        \* history: reports that were to be stored each day

work == <<asked, job, step, alarm_report, current_date, range, told, seen, record_num, batch, sent>>
bounds == <<pushed, queries, sets, crashes, noMemory>>
history == <<stored, begun>>
vars == <<files, queue, work, day, bounds, history>>

File == [num : 0 .. Full, day : Day, records : Seq(Report)]

Told == [range : [start : Day, end : Day], num : Nat, date : Day]

TypeOK ==
  /\ files \in SUBSET File
  /\ queue \in Seq(Report) /\ Len(queue) <= QueueLen
  /\ job \in {"none", "store", "count", "send"}
  /\ step \in {"sweep", "open", "write", "rename"}
  /\ alarm_report \in Report \cup {0}
  /\ current_date \in Day
  /\ range \in [start : Day, end : Day]
  /\ told \in Told /\ asked \in Seq(Told) /\ Len(asked) <= QueueLen
  /\ record_num \in Nat
  /\ batch \in Seq(Report) /\ Len(batch) < Batch
  /\ sent \in Seq(Report)
  /\ day \in Day
  /\ stored \in [Report -> Day \cup {0}] /\ begun \in [Day -> Nat]

-----------------------------------------------------------------------------
(* The sweep of the directory.                                              *)

(* The number of a day is the lengths of all years from 2000 on, its own     *)
(* included, and its place in its year: the days that went before and the    *)
(* length of its own year.  From one day to the next it grows by 1, by 2     *)
(* into a leap year, and by 0 out of one.                                   *)
days_of_year(d) == IF d \in LeapDays THEN 366 ELSE 365
get_days_by_calendar(d) == d + days_of_year(d)

(* 判断文件日期距离今天是否超过30天: too old, or of a day yet to come.       *)
Age(f) == get_days_by_calendar(current_date) - get_days_by_calendar(f.day)
TooOldSooner(f) == Age(f) >= Keep - 1 \/ Age(f) < 0
TooOld(f) == Age(f) >= Keep \/ Age(f) < 0

Entry(f) == job # "none" /\ step = "sweep" /\ f \in files \ seen

SweepOld(f) ==
  /\ Entry(f) /\ TooOld(f)
  /\ files' = files \ {f}
  /\ UNCHANGED <<queue, work, day, bounds, history>>

Today(f) == ~TooOld(f) /\ f.day = current_date
InRange(f) ==
  /\ ~TooOld(f)
  /\ get_days_by_calendar(range.start) <= get_days_by_calendar(f.day)
  /\ get_days_by_calendar(f.day) <= get_days_by_calendar(range.end)

(* Storing: today's file tells the number; a full one is deleted and its    *)
(* number starts again at 0.                                                *)
NumberKept(f) == f.num
NumberOf(f) == IF f.num = Full THEN 0 ELSE f.num

SweepStore(f) ==
  /\ job = "store" /\ Entry(f) /\ ~TooOld(f)
  /\ IF Today(f)
     THEN /\ record_num' = NumberOf(f)
          /\ files' = IF f.num = Full THEN files \ {f} ELSE files
     ELSE UNCHANGED <<record_num, files>>
  /\ seen' = seen \cup {f}
  /\ UNCHANGED <<queue, asked, job, step, alarm_report, current_date, range, told, batch, sent, day,
                 bounds, history>>

(* Counting: the numbers of the names are added up.                         *)
SweepCount(f) ==
  /\ job = "count" /\ Entry(f) /\ ~TooOld(f)
  /\ record_num' = IF InRange(f) THEN record_num + f.num ELSE record_num
  /\ seen' = seen \cup {f}
  /\ UNCHANGED <<files, queue, asked, job, step, alarm_report, current_date, range, told, batch, sent,
                 day, bounds, history>>

(* Sending: the records of the file follow those left over in the frame;    *)
(* each full frame goes out.                                                *)
Read(f) == IF InRange(f) THEN batch \o f.records ELSE batch
FullBatches(records) == Batch * (Len(records) \div Batch)

SweepSend(f) ==
  /\ job = "send" /\ Entry(f) /\ ~TooOld(f)
  /\ sent' = sent \o SubSeq(Read(f), 1, FullBatches(Read(f)))
  /\ batch' = SubSeq(Read(f), FullBatches(Read(f)) + 1, Len(Read(f)))
  /\ seen' = seen \cup {f}
  /\ UNCHANGED <<files, queue, asked, job, step, alarm_report, current_date, range, told, record_num,
                 day, bounds, history>>

(* A job ends and gives the mutex back.                                     *)
End == job' = "none" /\ step' = "sweep" /\ seen' = {} /\ record_num' = 0

(* No memory for the frame to follow a full one, or for the first: the query *)
(* ends there.                                                              *)
SweepSendNoMemory(f) ==
  /\ job = "send" /\ Entry(f) /\ InRange(f) /\ noMemory < MaxNoMemory
  /\ noMemory' = noMemory + 1
  /\ \E n \in 0 .. Len(Read(f)) \div Batch :
       /\ n = 0 => batch = << >>
       /\ sent' = sent \o SubSeq(Read(f), 1, n * Batch)
  /\ batch' = << >> /\ End
  /\ UNCHANGED <<files, queue, asked, alarm_report, current_date, range, told, day, pushed,
                 queries, sets, crashes, history>>

SweepStep == \E f \in files : \/ SweepOld(f) \/ SweepStore(f) \/ SweepCount(f)
                              \/ SweepSend(f) \/ SweepSendNoMemory(f)

Swept == step = "sweep" /\ files \subseteq seen

-----------------------------------------------------------------------------
(* What follows the sweep.                                                  *)

SameName(f, num) == f.num = num /\ f.day = current_date

(* mf_open with FA_OPEN_ALWAYS: a new file may already be on flash.         *)
Open ==
  /\ job = "store" /\ Swept
  /\ files' \in {files} \cup
       IF \E f \in files : SameName(f, record_num) THEN {}
       ELSE {files \cup {[num |-> record_num, day |-> current_date, records |-> << >>]}}
  /\ step' = "write"
  /\ UNCHANGED <<queue, asked, job, alarm_report, current_date, range, told, seen, record_num, batch, sent,
                 day, bounds, history>>

(* mf_lseek to the end, mf_write and mf_close: the record is on flash.      *)
Written == [num |-> record_num, day |-> current_date,
            records |-> IF \E f \in files : SameName(f, record_num)
                        THEN Append((CHOOSE f \in files : SameName(f, record_num)).records,
                                    alarm_report)
                        ELSE <<alarm_report>>]

Write ==
  /\ job = "store" /\ step = "write"
  /\ files' = {f \in files : ~SameName(f, record_num)} \cup {Written}
  /\ stored' = [stored EXCEPT ![alarm_report] = current_date]
  /\ step' = "rename"
  /\ UNCHANGED <<queue, asked, job, alarm_report, current_date, range, told, seen, record_num, batch, sent,
                 day, bounds, begun>>

(* mf_rename to the next number; a file of that name makes it fail, and is  *)
(* deleted (删除重名文件).                                                   *)
NextNumber == (record_num + 1) % (Full + 1)

Rename ==
  /\ job = "store" /\ step = "rename"
  /\ files' = IF \E f \in files : SameName(f, NextNumber)
              THEN {f \in files : ~SameName(f, NextNumber)}
              ELSE {IF SameName(f, record_num) THEN [f EXCEPT !.num = NextNumber] ELSE f :
                      f \in files}
  /\ End /\ alarm_report' = 0
  /\ UNCHANGED <<queue, asked, current_date, range, told, batch, sent, day, bounds, history>>

(* The count is told the server; when there is anything to send, the query  *)
(* goes to the task STORE.                                                  *)
Counted ==
  /\ job = "count" /\ Swept
  /\ asked' = IF record_num # 0 /\ Len(asked) < QueueLen
              THEN Append(asked, [range |-> range, num |-> record_num, date |-> current_date])
              ELSE asked
  /\ End
  /\ UNCHANGED <<files, queue, alarm_report, current_date, range, told, batch, sent, day, bounds,
                 history>>

(* The last frame goes out, if it has any record.                           *)
RestUnsent == sent
Rest == sent \o batch

Send ==
  /\ job = "send" /\ Swept
  /\ sent' = Rest
  /\ batch' = << >> /\ End
  /\ UNCHANGED <<files, queue, asked, alarm_report, current_date, range, told, day, bounds,
                 history>>

-----------------------------------------------------------------------------
(* How a job begins.                                                        *)
Begin(j) ==
  /\ job = "none"
  /\ job' = j /\ step' = "sweep" /\ current_date' = day /\ seen' = {} /\ record_num' = 0

RecvAndStoreAlarmReport ==
  /\ queue # << >>
  /\ Begin("store")
  /\ alarm_report' = Head(queue) /\ queue' = Tail(queue)
  /\ begun' = [begun EXCEPT ![day] = @ + 1]
  /\ UNCHANGED <<files, asked, range, told, batch, sent, day, bounds, stored>>

GetAlarmReportHistory ==
  /\ queries < MaxQuery
  /\ queries' = queries + 1
  /\ Begin("count")
  /\ \E s \in Day : \E e \in s .. MaxDay : range' = [start |-> s, end |-> e]
  /\ UNCHANGED <<files, queue, asked, told, alarm_report, batch, sent, day, pushed, sets,
                 crashes, noMemory, history>>

RecvAndSendEventHistoryToServer ==
  /\ asked # << >>
  /\ Begin("send")
  /\ told' = Head(asked) /\ range' = Head(asked).range /\ asked' = Tail(asked)
  /\ sent' = << >>
  /\ UNCHANGED <<files, queue, alarm_report, batch, day, bounds, history>>

-----------------------------------------------------------------------------
(* The environment.                                                         *)
PushAlarmReport ==
  /\ pushed < MaxReport /\ Len(queue) < QueueLen
  /\ pushed' = pushed + 1
  /\ queue' = Append(queue, pushed + 1)
  /\ UNCHANGED <<files, work, day, queries, sets, crashes, noMemory, history>>

Midnight ==
  /\ day < MaxDay
  /\ day' = day + 1
  /\ UNCHANGED <<files, queue, work, bounds, history>>

SetClock ==
  /\ sets < MaxSetClock
  /\ sets' = sets + 1
  /\ day' \in Day \ {day}
  /\ UNCHANGED <<files, queue, work, pushed, queries, crashes, noMemory, history>>

(* The power fails: what is on flash stays, and the clock has a battery.    *)
Crash ==
  /\ crashes < MaxCrash
  /\ crashes' = crashes + 1
  /\ queue' = << >> /\ asked' = << >>
  /\ End /\ alarm_report' = 0
  /\ batch' = << >> /\ sent' = << >>
  /\ UNCHANGED <<files, current_date, range, told, day, pushed, queries, sets, noMemory,
                 history>>

Init ==
  /\ files = {} /\ queue = << >> /\ asked = << >>
  /\ job = "none" /\ step = "sweep" /\ alarm_report = 0
  /\ day = 1 /\ current_date = day /\ range = [start |-> 1, end |-> 1]
  /\ told = [range |-> range, num |-> 0, date |-> 1]
  /\ seen = {} /\ record_num = 0
  /\ batch = << >> /\ sent = << >>
  /\ pushed = 0 /\ queries = 0 /\ sets = 0 /\ crashes = 0 /\ noMemory = 0
  /\ stored = [r \in Report |-> 0] /\ begun = [d \in Day |-> 0]

Jobs == RecvAndStoreAlarmReport \/ SweepStep \/ Open \/ Write \/ Rename \/ Counted \/ Send

Next ==
  \/ Jobs
  \/ RecvAndSendEventHistoryToServer \/ GetAlarmReportHistory
  \/ PushAlarmReport \/ Midnight \/ SetClock \/ Crash

Spec == Init /\ [][Next]_vars

-----------------------------------------------------------------------------
(* Properties.                                                              *)

(* The name of a file never promises records it has not: it is renamed      *)
(* after the record is in it (history_record.c:229).                        *)
NamesHold == \A f \in files : f.num <= Len(f.records)

(* The records the names do not count are those of power failures between   *)
(* the writing and the renaming: the server, told the sum of the names, may *)
(* be sent as many more at most.                                            *)
Uncounted == UNION {{f} \X (f.num + 1 .. Len(f.records)) : f \in files}

NamesCount ==
  /\ NamesHold
  /\ Cardinality(Uncounted) <= crashes + (IF job = "store" /\ step = "rename" THEN 1 ELSE 0)

(* While the clock only runs forward, a record is found in one file, once,  *)
(* for Keep days, or for one day fewer across a new year that begins a leap  *)
(* year, if no more than fill a file are stored on its day: neither a power  *)
(* failure nor the sweep of a query takes or repeats it.                    *)
KeptFor(d) == IF d \notin LeapDays /\ day \in LeapDays THEN Keep - 1 ELSE Keep
Copies(r) == UNION {{f} \X {i \in DOMAIN f.records : f.records[i] = r} : f \in files}

RecordsKept ==
  sets = 0 =>
    \A r \in Report :
      /\ Cardinality(Copies(r)) <= 1
      /\ stored[r] # 0 /\ day - stored[r] < KeptFor(stored[r]) /\ begun[stored[r]] <= Full
           => Cardinality(Copies(r)) = 1

(* What the comment promises, 判断文件日期距离今天是否超过30天 (:110): the    *)
(* same without the exception of the leap years, which refute it.           *)
RecordsKeptThirtyDays ==
  sets = 0 =>
    \A r \in Report :
      stored[r] # 0 /\ day - stored[r] < Keep /\ begun[stored[r]] <= Full => Copies(r) # {}

(* The records sent for a query that ends are those of its days in the      *)
(* directory, each once, in the order they were stored within a day; with   *)
(* no memory, the first of them.  They are no fewer than was told, if it is *)
(* still the day of the count and its file was not full meanwhile.  A day   *)
(* counts by its number: December 31 of a leap year and the January 1 after  *)
(* it have one number, and who asks for one of them is sent both.           *)
Asked == UNION {ToSet(f.records) : f \in {g \in files : InRange(g)}}

AnswerExact ==
  [][job = "send" /\ job' = "none" /\ crashes' = crashes =>
       /\ IsInjective(sent')
       /\ ToSet(sent') \subseteq Asked
       /\ noMemory' = noMemory => ToSet(sent') = Asked
       /\ noMemory' = noMemory /\ sets = 0 /\ current_date = told.date
            /\ begun[current_date] <= Full => Len(sent') >= told.num
       /\ \A i, j \in DOMAIN sent' :
            i < j /\ stored[sent'[i]] = stored[sent'[j]] => sent'[i] < sent'[j]]_vars
=============================================================================
