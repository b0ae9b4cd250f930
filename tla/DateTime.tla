------------------------------ MODULE DateTime ------------------------------
(***************************************************************************)
(* The date and time helpers (wtkutim.c to wtkutim4.c).  A point in time   *)
(* is held in four forms: a time_t, the DATETIME of the system, the FDATE  *)
(* and FTIME bit fields of a file, and CDATE and CTIME.  All conversions   *)
(* between the last three go through time_t, that is through mktime and    *)
(* localtime of the C library.                                             *)
(*                                                                         *)
(* A time_t is a pair of the day since 1970-01-01 and the second of the    *)
(* day, in local standard time.  Years end where a time_t of 31 bits does. *)
(***************************************************************************)
EXTENDS Integers, Sequences, SequencesExt

CONSTANTS
    Summer      \* the months in which localtime adds an hour

NO_ERROR == 0
ERROR_INVALID_PARAMETER == 87
ERROR_BUFFER_OVERFLOW == 111

-----------------------------------------------------------------------------
(* The calendar of the C library, external to the toolkit.                 *)
IsLeap(year) == year % 4 = 0 /\ (year % 100 # 0 \/ year % 400 = 0)
DaysIn(year, month) ==
    CASE month = 2 -> IF IsLeap(year) THEN 29 ELSE 28
      [] month \in {4, 6, 9, 11} -> 30
      [] OTHER -> 31

(* Days from 1970-01-01 to the first day of a year, and of a month in it.  *)
LeapsUpTo(year) == year \div 4 - year \div 100 + year \div 400
YearStart(year) == 365 * (year - 1970) + LeapsUpTo(year - 1) - LeapsUpTo(1969)
MonthStart(year, month) ==
    FoldLeft(LAMBDA sum, m : sum + DaysIn(year, m), YearStart(year),
             [m \in 1..(month - 1) |-> m])

DayNumber(dt) == MonthStart(dt.year, dt.month) + dt.day - 1
SecondOf(dt) == dt.hours * 3600 + dt.minutes * 60 + dt.seconds

LastDay == MonthStart(2038, 1) + 18
FailedTime == [day |-> -1, second |-> 0]

Normal(t) == [day |-> t.day + t.second \div 86400, second |-> t.second % 86400]

(* mktime is told that daylight saving time is not in effect, and refuses  *)
(* a date that a time_t cannot hold.                                       *)
mktime(dt) ==
    IF dt.year \in 1970..2038 /\ DayNumber(dt) <= LastDay
    THEN [day |-> DayNumber(dt), second |-> SecondOf(dt)] ELSE FailedTime

DateOf(t) ==
    LET year == CHOOSE y \in 1970..2038 : YearStart(y) <= t.day /\ t.day < YearStart(y + 1)
        month == CHOOSE m \in 1..12 : MonthStart(year, m) <= t.day
                     /\ t.day < MonthStart(year, m) + DaysIn(year, m)
    IN  [year |-> year, month |-> month, day |-> t.day - MonthStart(year, month) + 1,
         hours |-> t.second \div 3600, minutes |-> (t.second \div 60) % 60,
         seconds |-> t.second % 60]

InSummer(t) == DateOf(t).month \in Summer
Shifted(t) == IF InSummer(t) THEN Normal([t EXCEPT !.second = @ + 3600]) ELSE t
localtime(t) == DateOf(Shifted(t))

(* The day of the week, which only localtime fills in; 1970-01-01 was a    *)
(* Thursday.                                                               *)
WeekDay(t) == (Shifted(t).day + 4) % 7

-----------------------------------------------------------------------------
(* Each conversion answers [ok, ...]: FALSE where the library fails.       *)
WtkDateTimeToTime(dt) == [ok |-> mktime(dt) # FailedTime, time |-> mktime(dt)]
WtkTimeToDateTime(t) == localtime(t) @@ [weekday |-> WeekDay(t)]
WtkSetDateTime(dt) == dt @@ [weekday |-> 0]

(* The fields of an FDATE and an FTIME have 5, 4 and 7, and 5, 6 and 5     *)
(* bits; seconds are counted in pairs.                                     *)
Packed(day, month, year, hours, minutes, twosecs) ==
    [day |-> day % 32, month |-> month % 16, year |-> year % 128,
     hours |-> hours % 32, minutes |-> minutes % 64, twosecs |-> twosecs % 32]

(* Mutant: the seconds are not halved.                                     *)
WtkSetFDateTimeWhole(dt) ==
    Packed(dt.day, dt.month, dt.year - 1980, dt.hours, dt.minutes, dt.seconds)
WtkSetFDateTime(dt) ==
    Packed(dt.day, dt.month, dt.year - 1980, dt.hours, dt.minutes, dt.seconds \div 2)
WtkTimeToFDateTime(t) == WtkSetFDateTime(localtime(t))

(* What the date of a file stands for.                                     *)
OfFile(f) == [year |-> f.year + 1980, month |-> f.month, day |-> f.day,
              hours |-> f.hours, minutes |-> f.minutes, seconds |-> f.twosecs * 2]
WtkFDateTimeToTime(f) == [ok |-> mktime(OfFile(f)) # FailedTime, time |-> mktime(OfFile(f))]

(* The date of a file, as the file system holds it in the same bit fields. *)
WtkQueryFileDateTime(f) == WtkSetDateTime(OfFile(f))
WtkQueryFileFDateTime(f) == f
WtkQueryFileCDateTime(f) == OfFile(f)

WtkCDateTimeToTime(c) == [ok |-> mktime(c) # FailedTime, time |-> mktime(c)]
WtkTimeToCDateTime(t) == localtime(t)

-----------------------------------------------------------------------------
(* Texts are sequences of characters: digits stand for themselves, other   *)
(* characters are negative.                                                *)
Slash == -1
Colon == -2
Blank == -3
AM == <<-4, -6>>
PM == <<-5, -6>>

Digits[n \in Nat] == IF n < 10 THEN <<n>> ELSE Append(Digits[n \div 10], n % 10)
Padded(n, width) == [i \in 1..(width - Len(Digits[n])) |-> 0] \o Digits[n]

StampTypes == {"NLSDATETIME", "NLSDATE", "NLSTIME",
               "SORTEDDATETIME", "SORTEDDATE", "SORTEDTIME"}

SortedDate(dt) == Padded(dt.year, 4) \o Padded(dt.month, 2) \o Padded(dt.day, 2)
SortedTime(dt) == Padded(dt.hours, 2) \o Padded(dt.minutes, 2) \o Padded(dt.seconds, 2)

Joined(a, b, c, separator) == a \o <<separator>> \o b \o <<separator>> \o c

NlsDate(dt, format) ==
    LET day == Digits[dt.day]
        month == Digits[dt.month]
        year == Digits[dt.year]
    IN  CASE format = 1 -> Joined(day, month, year, Slash)
          [] format = 2 -> Joined(year, month, day, Slash)
          [] OTHER -> Joined(month, day, year, Slash)

NlsTime(dt, format) ==
    LET isPM == dt.hours > 12
        text(hours) == Joined(Digits[hours], Padded(dt.minutes, 2), Padded(dt.seconds, 2), Colon)
    IN  IF format = 1 THEN text(dt.hours)
        ELSE text(IF isPM THEN dt.hours - 12 ELSE dt.hours) \o <<Blank>> \o (IF isPM THEN PM ELSE AM)

Stamp(dt, type, dateFormat, timeFormat) ==
    CASE type = "SORTEDDATETIME" -> SortedDate(dt) \o SortedTime(dt)
      [] type = "SORTEDDATE" -> SortedDate(dt)
      [] type = "SORTEDTIME" -> SortedTime(dt)
      [] type = "NLSDATE" -> NlsDate(dt, dateFormat)
      [] type = "NLSTIME" -> NlsTime(dt, timeFormat)
      [] OTHER -> NlsDate(dt, dateFormat) \o <<Blank>> \o NlsTime(dt, timeFormat)

QueryDateTimeStamp(dt, type, dateFormat, timeFormat, buflen) ==
    LET stamp == IF type \in StampTypes THEN Stamp(dt, type, dateFormat, timeFormat) ELSE <<>>
    IN  CASE stamp = <<>> -> [rc |-> ERROR_INVALID_PARAMETER, text |-> <<>>]
          [] stamp # <<>> /\ Len(stamp) + 1 > buflen ->
                 [rc |-> ERROR_BUFFER_OVERFLOW, text |-> <<>>]
          [] OTHER -> [rc |-> NO_ERROR, text |-> stamp]

WtkQueryFDateTimeStamp(f, type, dateFormat, timeFormat, buflen) ==
    LET converted == WtkFDateTimeToTime(f)
    IN  IF converted.ok
        THEN QueryDateTimeStamp(WtkTimeToDateTime(converted.time), type,
                                dateFormat, timeFormat, buflen)
        ELSE [rc |-> ERROR_INVALID_PARAMETER, text |-> <<>>]

WtkQueryCDateTimeStamp(c, type, dateFormat, timeFormat, buflen) ==
    LET converted == WtkCDateTimeToTime(c)
    IN  IF converted.ok
        THEN QueryDateTimeStamp(WtkTimeToDateTime(converted.time), type,
                                dateFormat, timeFormat, buflen)
        ELSE [rc |-> ERROR_INVALID_PARAMETER, text |-> <<>>]

-----------------------------------------------------------------------------
(* A time written to any form and read back is the same time, but for the  *)
(* odd second of a file's time, which begins in 1980, the hour of daylight *)
(* saving time that mktime does not take off, and what a time_t can hold.  *)
ReadBack(t) == IF Shifted(t).day > LastDay THEN FailedTime ELSE Shifted(t)
EvenSecond(t) == [t EXCEPT !.second = @ - (@ % 2)]

ConversionsAgree(t) ==
    /\ WtkDateTimeToTime(WtkTimeToDateTime(t)).time = ReadBack(t)
    /\ WtkCDateTimeToTime(WtkTimeToCDateTime(t)).time = ReadBack(t)
    /\ localtime(t).year >= 1980 => WtkFDateTimeToTime(WtkTimeToFDateTime(t)).time
           = IF ReadBack(t) = FailedTime THEN FailedTime ELSE EvenSecond(ReadBack(t))

(* However the date of a file is asked for, it is the same time.           *)
FileDatesAgree(f) ==
    /\ WtkDateTimeToTime(WtkQueryFileDateTime(f)) = WtkFDateTimeToTime(WtkQueryFileFDateTime(f))
    /\ WtkCDateTimeToTime(WtkQueryFileCDateTime(f)) = WtkFDateTimeToTime(WtkQueryFileFDateTime(f))

(* The sorted stamps of files are in the order of the times of the files,  *)
(* two seconds apart or more, but where daylight saving time begins.       *)
Precedes(a, b) ==
    \E i \in DOMAIN a : a[i] < b[i] /\ \A j \in 1..(i - 1) : a[j] = b[j]
Earlier(s, t) == s.day < t.day \/ (s.day = t.day /\ s.second + 1 < t.second)
SortedStamp(t, buflen) ==
    WtkQueryFDateTimeStamp(WtkTimeToFDateTime(t), "SORTEDDATETIME", 1, 1, buflen)

StampsSort(s, t) ==
    (localtime(s).year >= 1980 /\ Earlier(s, t) /\ InSummer(s) = InSummer(t) /\ ReadBack(t) # FailedTime) =>
        Precedes(SortedStamp(s, 15).text, SortedStamp(t, 15).text)
=============================================================================
