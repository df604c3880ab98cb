---------------------------------- MODULE Sntp ----------------------------------
(***************************************************************************)
(* The SNTP client of the WiFi library (sntp.cpp).  A timestamp is a pair  *)
(* of words, seconds and fraction; the seconds wrap after an era and the   *)
(* fraction is a signed integer, whose sum and shift the code tests.       *)
(* `up` is the time since the device started, in units of the last bit of  *)
(* the fraction; millis() shows it modulo `Lap` (2^32 ms, 49.7 days).  The *)
(* servers are right, `base` ahead of `up`.                                *)
(*                                                                         *)
(* exchange is a history: of the last synchronisation, how long the packet *)
(* was away, by how much millis() started again meanwhile, whether the two *)
(* differences had different signs, and how far the clock was off after it *)
(* from a time that is behind the true one by half of what millis() lost.  *)
(***************************************************************************)
EXTENDS Integers, Sequences

CONSTANTS NONE,
          Seconds, Second,              \* the values of the two words, and so the units of a second
          Lap, Ages,                    \* the units after which millis() starts again, and
                                        \* how long the device has run already
          Bases,                        \* how far the servers may be ahead
          Delays, Timeout,              \* units a packet travels, units recvfrom waits
          SampleDays, SampleClocks,     \* moments whose date is extracted
          MaxUpdates, MaxTries

VARIABLES reference, timeIsSet, up, base, at, pool, sent, late, exchange, date,
          updates, tries

sntpVars == <<reference, timeIsSet, up, base, at, pool, sent, late, exchange, date,
              updates, tries>>

-------------------------------------------------------------------------------
Half   == Second \div 2
Era    == Seconds * Second
Stamp(t)  == [s |-> (t \div Second) % Seconds, f |-> t % Second]
Units(ts) == ts.s * Second + ts.f

\* A fraction as the signed integer it is, and >> of one.
Signed(f) == IF f >= Half THEN f - Second ELSE f
Shifted(f) == Signed(f) \div 2

\* The top bit of a sum of words that were shifted right, for the fraction and
\* for the (unsigned) seconds.
TopOfFraction(n) == IF n < 0 THEN 1 ELSE 0

\* NTPdiv2: the signed fraction is shifted with its sign, the seconds without.
NTPdiv2(t) ==
  LET carry == t.s % 2
      f     == Shifted(t.f) % Second
  IN  [s |-> t.s \div 2, f |-> IF carry = 1 /\ f < Half THEN f + Half ELSE f]

\* AddNTPtime(time1, time2) and DiffNTPtime(time1, time2): time2 + time1, time2 - time1.
AddNTPtime(t1, t2) ==
  LET carry == TopOfFraction(Shifted(t2.f) + Shifted(t1.f))
  IN  [s |-> (t2.s + carry + t1.s) % Seconds, f |-> (t2.f + t1.f) % Second]
DiffNTPtime(t1, t2) ==
  LET borrow == TopOfFraction(Shifted(t2.f) - Shifted(t1.f))
  IN  [s |-> (t2.s - borrow - t1.s) % Seconds, f |-> (t2.f - t1.f) % Second]

\* GetSystemClockAsNTPTime at time t reads millis() twice: when a second ends in between,
\* its fraction is 1024 of 1024 parts, which the shift drops.  When millis() starts again
\* in between, the unsigned difference is still right.
millis(t) == t % Lap
SystemClock(t, torn) ==
  LET m == millis(t)
  IN  IF torn /\ (m + 1) % Second = 0 THEN Stamp(m + 1 - Second) ELSE Stamp(m)

NTPGetTime(t, torn) == AddNTPtime(SystemClock(t, torn), reference)

\* SNTP_GetTime: ((R - O) / 2) + ((T - D) / 2) is added to the reference.
Correction(o, r, t, d) ==
  AddNTPtime(NTPdiv2(DiffNTPtime(o, r)), NTPdiv2(DiffNTPtime(d, t)))

\* How far two instants are apart, around the era.
Apart(a, b) == LET n == (a - b) % Era IN IF n > Era \div 2 THEN Era - n ELSE n

-------------------------------------------------------------------------------
\* ExtractNTPTime of day `n` and second `clock` of the counter, which has
\* overflowed when its top bit is clear: years of 365 1/4 days, in 256ths.
SECS_DAY           == 86400
FIX_PT_DAYS_YEAR   == 365 * 256 + 64

\* The days of the months, and of the first `m` of them.
monthDays(leap)    == <<31, IF leap THEN 29 ELSE 28, 31, 30, 31, 30, 31, 31, 30, 31, 30, 31>>
DaysThrough(leap, m) ==
  LET f == monthDays(leap)[2] IN
  IF m = 0 THEN 0
  ELSE <<31, 31 + f, 62 + f, 92 + f, 123 + f, 153 + f, 184 + f, 215 + f, 245 + f, 276 + f,
         306 + f, 337 + f>>[m]

Overflowed(n, clock) == n < 24855 \/ (n = 24855 /\ clock < 11648)
Dayno(n, clock) ==
  IF Overflowed(n, clock) THEN n + 49710 + (clock + 23296) \div SECS_DAY ELSE n

ExtractNTPTime(n, clock) ==
  LET dayno == Dayno(n, clock)
      year  == ((dayno + 1) * 256) \div FIX_PT_DAYS_YEAR + 1900
      yday  == (((dayno + 1) * 256) % FIX_PT_DAYS_YEAR) \div 256
      leap  == year % 4 = 0 /\ year # 1900
      mon   == CHOOSE m \in 0 .. 11 : DaysThrough(leap, m) <= yday /\ yday < DaysThrough(leap, m + 1)
  IN  [year |-> year, mon |-> mon, mday |-> yday - DaysThrough(leap, mon) + 1, yday |-> yday,
       wday |-> (dayno + 1) % 7]

-------------------------------------------------------------------------------
Init == /\ reference = Stamp(Era \div 2) /\ timeIsSet = FALSE
        /\ up \in Ages /\ base \in Bases
        /\ at = "idle" /\ pool = NONE /\ sent = NONE /\ late = NONE
        /\ exchange = NONE /\ date = NONE
        /\ updates = 0 /\ tries = 0

\* UpdateNTPTime: without a socket it returns what the last one left.
UpdateNTPTime(gotSocket) ==
  /\ at = "idle" /\ updates < MaxUpdates /\ updates' = updates + 1
  /\ at' = IF gotSocket THEN "bind" ELSE "idle"
  /\ exchange' = NONE
  /\ late' = NONE
  /\ UNCHANGED <<reference, timeIsSet, up, base, pool, sent, date, tries>>

\* A port is tried until one can be bound.
Bind(ok) ==
  /\ at = "bind"
  /\ IF ok THEN /\ at' = "look" /\ pool' = "user" /\ timeIsSet' = FALSE
           ELSE UNCHANGED <<at, pool, timeIsSet>>
  /\ UNCHANGED <<reference, up, base, sent, late, exchange, date, updates, tries>>

\* The lists of servers follow each other, and start again.
NextPool == CASE pool = "user" -> "local" [] pool = "local" -> "global" [] OTHER -> "user"
Failed == /\ tries < MaxTries /\ tries' = tries + 1
          /\ at' = "look" /\ pool' = NextPool

\* GetNTPServerList: one address of the first name of the list that has one.
GetNTPServerList(found) ==
  /\ at = "look"
  /\ IF found THEN at' = "send" /\ UNCHANGED <<pool, tries>> ELSE Failed
  /\ UNCHANGED <<reference, timeIsSet, up, base, sent, late, exchange, date, updates>>

\* SNTP_GetTime, up to sendto().
Send(ok, torn) ==
  /\ at = "send"
  /\ IF ok THEN /\ at' = "recv" /\ sent' = [o |-> NTPGetTime(up, torn), up |-> up]
                /\ UNCHANGED <<pool, tries>>
           ELSE Failed /\ UNCHANGED sent
  /\ UNCHANGED <<reference, timeIsSet, up, base, late, exchange, date, updates>>

\* No reply in 30 s; it may arrive while a later request waits.
TimesOut(there) ==
  /\ at = "recv"
  /\ up' = up + Timeout
  /\ late' = [o |-> sent.o, up |-> sent.up, r |-> Stamp(sent.up + there + base)]
  /\ sent' = NONE
  /\ Failed
  /\ UNCHANGED <<reference, timeIsSet, base, exchange, date, updates>>

\* The reply to `m`, received and answered by the server at `r`, is read now.
Negative(t) == t.s >= Seconds \div 2
Synchronise(m, r, away, torn) ==
  LET now == up + away
      d   == NTPGetTime(now, torn)
      new == AddNTPtime(Correction(m.o, r, r, d), reference)
      lost == (now \div Lap - m.up \div Lap) * Lap
  IN  /\ up' = now
      /\ reference' = new /\ timeIsSet' = TRUE
      /\ exchange' = [away |-> now - m.up, lost |-> lost,
                      differ |-> Negative(DiffNTPtime(m.o, r)) # Negative(DiffNTPtime(d, r)),
                      off |-> Apart(Units(AddNTPtime(SystemClock(now, FALSE), new)),
                                    now + base - (lost \div 2))]
      /\ at' = "idle" /\ pool' = NONE /\ sent' = NONE

Receive(there, back, torn) ==
  /\ at = "recv"
  /\ Synchronise(sent, Stamp(up + there + base), there + back, torn)
  /\ UNCHANGED <<base, late, date, updates, tries>>

ReceiveLate(torn) ==
  /\ at = "recv" /\ late # NONE
  /\ Synchronise(late, late.r, 0, torn)
  /\ late' = NONE
  /\ UNCHANGED <<base, date, updates, tries>>

\* NTPSetTime of an instant in UTC.
NTPSetTime(t) ==
  /\ at = "idle" /\ ~timeIsSet
  /\ reference' = DiffNTPtime(SystemClock(up, FALSE), t) /\ timeIsSet' = TRUE
  /\ UNCHANGED <<up, base, at, pool, sent, late, exchange, date, updates, tries>>

\* A moment of the counter is turned into a date.
Extract(n, clock) ==
  /\ at = "idle" /\ updates = 0 /\ base = 0 /\ ~timeIsSet
  /\ at' = "extracted"
  /\ date' = [n |-> n, clock |-> clock, time |-> ExtractNTPTime(n, clock)]
  /\ UNCHANGED <<reference, timeIsSet, up, base, pool, sent, late, exchange, updates, tries>>

Next == \/ \E ok \in BOOLEAN : UpdateNTPTime(ok) \/ Bind(ok) \/ GetNTPServerList(ok)
        \/ \E ok, torn \in BOOLEAN : Send(ok, torn)
        \/ \E there \in Delays : TimesOut(there)
        \/ \E there, back \in Delays, torn \in BOOLEAN : Receive(there, back, torn)
        \/ \E torn \in BOOLEAN : ReceiveLate(torn)
        \/ \E b \in Bases : NTPSetTime(Stamp(b))
        \/ \E n \in SampleDays, clock \in SampleClocks : Extract(n, clock)

Spec == Init /\ [][Next]_sntpVars

-------------------------------------------------------------------------------
TypeOK ==
  /\ reference.s \in 0 .. Seconds - 1 /\ reference.f \in 0 .. Second - 1
  /\ pool \in {NONE, "user", "local", "global"}
  /\ tries \in 0 .. MaxTries

\* A synchronisation leaves the clock off by at most half the time that the
\* request was away (a late reply to an earlier request counts from that one) and
\* four and a half seconds that the carries lose, or by half an era; the second only when one
\* of the two differences is negative, as it is in a clock that was right.  When
\* millis() started again while the packet was away, the clock is that near to a time
\* 24.8 days behind instead.
SyncTells ==
  exchange # NONE =>
    LET near == exchange.away \div 2 + 4 * Second + Half
    IN  \/ exchange.off <= near
        \/ exchange.differ /\ exchange.off >= Era \div 2 - near

\* The date is that of the calendar from 1968 up to February 2100, which is
\* taken for a leap year's.
YearStart(y) == 365 * (y - 1900) + (y - 1901) \div 4
Dated(day, clock, t) ==
  LET n == Dayno(day, clock)
      k == CHOOSE y \in 1968 .. 2104 : YearStart(y) <= n /\ n < YearStart(y + 1)
      d == n - YearStart(k)
      \* the year 2100 has no 29 February
      leap == k % 4 = 0 /\ k # 2100
  IN  \/ n > YearStart(2100) + 58
      \/ /\ t.year = k /\ t.yday = d
         /\ DaysThrough(leap, t.mon) + t.mday - 1 = d
         /\ t.mday \in 1 .. monthDays(leap)[t.mon + 1]
DateTells == date # NONE => Dated(date.n, date.clock, date.time)
===============================================================================
