-------------------------------- MODULE RtcClock --------------------------------
(***************************************************************************)
(* The real-time clock of the receiver, RTC_clock over the registers of    *)
(* the SAM3X.  The registers go on counting while a call is under way, so  *)
(* that every call that reads or writes both of them, or reads one and     *)
(* writes it back, is several steps.  Minutes and seconds pass within an   *)
(* hour; a register holds the decimal digits of what it shows.             *)
(*                                                                         *)
(* shown, slipped and result are histories: the hours since 2000 that the  *)
(* clock should show, that midnight passed within a setting, and what      *)
(* unixtime() returned.  Alarms are left out.                              *)
(***************************************************************************)
EXTENDS Integers, Sequences

CONSTANTS NONE,            \* no value
          Dates,           \* the dates that are set, <<year, month, day>>
          SetHours,        \* the hours that are set
          Zones,           \* the zones that are asked for
          MaxSettings, MaxHours

VARIABLES reg, feb, meztime, call, read, shown, slipped, result,
          settings, hours

rtcVars == <<reg, feb, meztime, call, read, shown, slipped, result,
             settings, hours>>

-------------------------------------------------------------------------------
\* The calendar, by its rules.
Leap(y)      == (y % 4 = 0 /\ y % 100 # 0) \/ y % 400 = 0
Months(f)    == <<31, f, 31, 30, 31, 30, 31, 31, 30, 31, 30, 31>>
Length(y, m) == Months(IF Leap(y) THEN 29 ELSE 28)[m]

\* What the loops over daysInMonth[] add up, of the months before `m`.
DaysBefore(f, m) ==
  IF m < 2 THEN 0
  ELSE <<31, 31 + f, 62 + f, 92 + f, 123 + f, 153 + f, 184 + f, 215 + f, 245 + f, 276 + f,
         306 + f>>[m - 1]

\* A year is given by four digits or by two; up to LastYear the seconds since 2000
\* fit the int that unixtime() counts them in.
LastYear  == 67
Years     == (1 .. LastYear) \cup (2001 .. 2000 + LastYear)
IsDate(d) == d \in Years \X (1 .. 12) \X (1 .. 31) /\ d[3] <= Length(d[1], d[2])

\* Days since 1 January 2000, of a date whose year is given by two digits too.
DayNumber(date) ==
  LET y == date[1] % 100
  IN  365 * y + ((y + 3) \div 4) + DaysBefore(IF y % 4 = 0 THEN 29 ELSE 28, date[2]) + date[3] - 1
WeekDay(date)  == ((DayNumber(date) + 5) % 7) + 1     \* 1 January 2000 was a Saturday
LastSunday(y, m) == 31 - (WeekDay(<<y, m, 31>>) % 7)

\* From 2 o'clock of the last Sunday in March to that of the last in October,
\* by a clock that is not put forward.
IsSummer(date, hour) ==
  LET At(d, h) == DayNumber(d) * 24 + h
      y == date[1]
  IN  /\ At(date, hour) >= At(<<y, 3, LastSunday(y, 3)>>, 2)
      /\ At(date, hour) < At(<<y, 10, LastSunday(y, 10)>>, 2)

-------------------------------------------------------------------------------
\* The code's arithmetic.
switch_years(y) == IF Leap(y) THEN 1 ELSE 0

\* Mutant: January and February are not counted as the months 13 and 14.
calculate_day_of_weekAsIs(y, m, d) ==
  ((d + 2 * m + ((3 * (m + 1)) \div 5) + y + (y \div 4) - (y \div 100) + (y \div 400)) % 7) + 1

calculate_day_of_week(y, m, d) ==
  LET early == m \in {1, 2}
      mm    == IF early THEN m + 12 ELSE m
      yy    == IF early THEN (y - 1) % 65536 ELSE y
  IN  ((d + 2 * mm + ((3 * (mm + 1)) \div 5) + yy + (yy \div 4) - (yy \div 100) + (yy \div 400)) % 7) + 1

\* unixtime(): the days since 1 January 2000.
UnixDays(date) ==
  LET y == date[1] % 100
  IN  date[3] + DaysBefore(feb, date[2])
      + (IF date[2] > 2 /\ y % 4 = 0 THEN 1 ELSE 0) + 365 * y + ((y + 3) \div 4) - 1

\* summertime(): hours of the year, counted without the month before in each.
InSummer(date, hour) ==
  LET y == date[1] % 100
      begins == 31 - ((5 + ((y * 5) \div 4)) % 7) + DaysBefore(feb, 2)
      ends   == 31 - ((2 + ((y * 5) \div 4)) % 7) + DaysBefore(feb, 9)
      today  == date[3] + DaysBefore(feb, date[2] - 1)
  IN  today * 24 + hour >= begins * 24 + 2 /\ today * 24 + hour + 1 < ends * 24 + 3
summertime(date, hour) == IF InSummer(date, hour) THEN meztime ELSE 0

\* The adjustment of unixtime(timezone), in quarters of an hour: a zone is a
\* number of hours or, for some, of hours and minutes.
Halves  == {-930, -330, 330, 430, 530, 630, 930, 1030, 1130}
ThreeQs == {545, 845, 1245}
ZoneNumbers == (-12 .. 14) \cup Halves \cup ThreeQs
Quarters(timezone) ==
  IF timezone \in -12 .. 14 THEN 4 * timezone
  ELSE IF timezone \in Halves
       THEN IF timezone < 0 THEN -4 * ((-timezone) \div 100) - 2 ELSE 4 * (timezone \div 100) + 2
       ELSE IF timezone \in ThreeQs THEN 4 * (timezone \div 100) + 3 ELSE 0

Date  == <<reg.year, reg.month, reg.day>>
Shows(date, hour) == DayNumber(date) * 24 + hour

-------------------------------------------------------------------------------
Init == /\ reg = [year |-> 2007, month |-> 1, day |-> 1, week |-> 1, hour |-> 0]
        /\ feb = 28 /\ meztime = 0
        /\ call = <<"idle">> /\ read = NONE
        /\ shown = Shows(<<2007, 1, 1>>, 0) /\ slipped = FALSE
        /\ result = NONE
        /\ settings = 0 /\ hours = 0

\* The registers count; within a call only midnight makes a difference.
DayAfter(date) ==
  LET last  == date[3] = Length(date[1], date[2])
      month == IF last THEN (date[2] % 12) + 1 ELSE date[2]
  IN  <<IF last /\ month = 1 THEN date[1] + 1 ELSE date[1], month, IF last THEN 1 ELSE date[3] + 1>>

HourPasses ==
  /\ settings > 0 /\ hours < MaxHours /\ hours' = hours + 1
  /\ call = <<"idle">> \/ reg.hour = 23
  /\ LET midnight == reg.hour = 23
         date == IF midnight THEN DayAfter(Date) ELSE Date
     IN  /\ date[1] \in Years
         /\ reg' = [year |-> date[1], month |-> date[2], day |-> date[3],
                    week |-> IF midnight THEN (reg.week % 7) + 1 ELSE reg.week,
                    hour |-> (reg.hour + 1) % 24]
         /\ slipped' = (slipped \/ (midnight /\ call[1] \in {"date", "write", "change"}))
  /\ shown' = shown + 1
  /\ result' = IF call = <<"idle">> THEN NONE ELSE result
  /\ UNCHANGED <<feb, meztime, call, read, settings>>

-------------------------------------------------------------------------------
\* A setting begins: from now on the clock should show `date` and `hour`.
Sets(date, hour) ==
  /\ call = <<"idle">> /\ settings < MaxSettings /\ settings' = settings + 1
  /\ shown' = Shows(date, hour)
  /\ result' = NONE
  /\ UNCHANGED <<meztime, hours>>

\* RtcSetDateTime of the sketch, and set_clock(): the time first, and then,
\* with two digits of the year in set_clock(), the date.
set_time(date, hour, century) ==
  /\ Sets(date, hour) /\ slipped' = FALSE
  /\ reg' = [reg EXCEPT !.hour = hour]
  /\ call' = <<"date", <<IF century THEN date[1] ELSE date[1] % 100, date[2], date[3]>>>>
  /\ UNCHANGED <<feb, read>>

Put(date, week) ==
  /\ reg' = [reg EXCEPT !.year = date[1], !.month = date[2], !.day = date[3], !.week = week]
  /\ call' = <<"idle">>
  /\ UNCHANGED <<meztime, shown, slipped, result, settings, hours>>

set_date ==
  /\ call[1] = "date"
  /\ LET d == call[2] IN
       /\ Put(d, calculate_day_of_week(d[1], d[2], d[3]))
       /\ feb' = 28 + switch_years(d[1])
  /\ UNCHANGED read

\* set_years(), set_months(), set_days(): the date is read, the day of the week
\* calculated from what is read again, and all of it written back.
Changed(date, field, v) == [date EXCEPT ![field] = v]

change_date(field, v) ==
  LET date == Changed(Date, field, v) IN
  /\ date[3] <= Length(date[1], date[2])
  /\ Sets(date, reg.hour) /\ slipped' = FALSE
  /\ read' = Date
  /\ call' = <<"write", field, v>>
  /\ UNCHANGED <<reg, feb>>

ChangeWeekDay ==
  /\ call[1] = "write"
  /\ LET d == Changed(Date, call[2], call[3]) IN
       call' = <<"change", call[2], call[3], calculate_day_of_week(d[1], d[2], d[3])>>
  /\ feb' = IF call[2] = 1 THEN 28 + switch_years(call[3]) ELSE feb
  /\ UNCHANGED <<reg, meztime, read, shown, slipped, result, settings, hours>>

WriteBack ==
  /\ call[1] = "change"
  /\ Put(Changed(read, call[2], call[3]), call[4])
  /\ read' = NONE
  /\ UNCHANGED feb

\* set_hours() leaves the rest of the time as it was read, and the date as it is.
set_hours(hour) ==
  /\ Sets(Date, hour)
  /\ reg' = [reg EXCEPT !.hour = hour]
  /\ UNCHANGED <<feb, call, read, slipped>>

-------------------------------------------------------------------------------
\* unixtime(), unixtime(Germany) and timing() read the date and then the time.
Asks(what, timezone) ==
  /\ call = <<"idle">> /\ result = NONE /\ settings > 0
  /\ call' = <<what, Shows(Date, reg.hour), timezone>>
  /\ UNCHANGED <<reg, feb, meztime, read, shown, slipped, result, settings, hours>>

Reading == {"unixtime", "Germany", "summertime", "timing"}

current_date ==
  /\ call[1] \in Reading /\ read = NONE
  /\ read' = Date
  /\ UNCHANGED <<reg, feb, meztime, call, shown, slipped, result, settings, hours>>

current_time ==
  /\ call[1] \in Reading /\ read # NONE
  /\ read' = NONE
  /\ meztime' = IF call[1] # "timing" THEN meztime
                ELSE IF summertime(read, reg.hour) = 1 THEN -1 ELSE 1
  /\ result' = CASE call[1] = "timing" -> result
                 [] call[1] = "summertime" ->
                      LET zone == 1 + summertime(read, reg.hour) IN
                      [result EXCEPT !.zone = zone, !.ticks = @ - Quarters(zone),
                                     !.summer = InSummer(read, reg.hour),
                                     !.read = read, !.hour = reg.hour]
                 [] OTHER -> [ticks |-> 4 * (UnixDays(read) * 24 + reg.hour) - Quarters(call[3]),
                              zone |-> call[3], summer |-> NONE, read |-> read, hour |-> reg.hour,
                              first |-> read, from |-> call[2], until |-> Shows(Date, reg.hour)]
  /\ call' = IF call[1] = "Germany" THEN <<"summertime">> ELSE <<"idle">>
  /\ UNCHANGED <<reg, feb, shown, slipped, settings, hours>>

Next == \/ HourPasses \/ set_date \/ ChangeWeekDay \/ WriteBack
        \/ current_date \/ current_time
        \/ \E d \in Dates, h \in SetHours, c \in BOOLEAN : set_time(d, h, c)
        \/ \E d \in Dates, f \in 1 .. 3 : change_date(f, d[f])
        \/ \E h \in SetHours : set_hours(h)
        \/ \E zone \in Zones : Asks("unixtime", zone)
        \/ \E what \in {"Germany", "timing"} : Asks(what, 0)

Spec == Init /\ [][Next]_rtcVars

-------------------------------------------------------------------------------
TypeOK ==
  /\ reg.month \in 1 .. 12 /\ reg.day \in 1 .. 31 /\ reg.week \in 1 .. 7
  /\ reg.hour \in 0 .. 23
  /\ feb \in {28, 29} /\ meztime \in {-1, 0, 1}
  /\ read = NONE \/ IsDate(read)

\* A setting lasts: the clock shows what was set and the time since, a day less
\* when midnight passed between the two writes of it or between reading the
\* date and writing it back; and the day of the week is that of the date.
KeepsTime ==
  call = <<"idle">> =>
    \/ Shows(Date, reg.hour) = shown /\ reg.week = WeekDay(Date)
    \/ slipped

\* unixtime() is an instant of the call in its zone, but a day late from March on when the
\* clock was last set in a leap year, whose 29 February it counts twice, and a
\* day early when midnight passes between the two registers.
ZoneIs(timezone) ==
  LET n == IF timezone < 0 THEN -timezone ELSE timezone
      q == IF n < 100 THEN 4 * n ELSE 4 * (n \div 100) + (n % 100) \div 15
  IN  IF timezone < 0 THEN -q ELSE q
UnixTimeTells ==
  result # NONE /\ call = <<"idle">> =>
    LET late == IF result.first[2] > 2 /\ feb = 29 THEN 24 ELSE 0
        utc  == result.ticks + ZoneIs(result.zone)
    IN  \E h \in (result.from .. result.until) \cup {result.from - 23} : utc = 4 * (h + late)

\* Summer time is that of the rule, but on the first three days of April, which
\* are counted before the end of March, and the first of November.
SummerTells ==
  result # NONE /\ result.summer # NONE =>
    \/ result.summer = IsSummer(result.read, result.hour)
    \/ result.read[2] = 4 /\ result.read[3] <= 3 /\ ~result.summer
    \/ result.read[2] = 11 /\ result.read[3] = 1 /\ result.hour < 2
===============================================================================
