------------------------------ MODULE ClockProofs ------------------------------
(***************************************************************************)
(* What TLAPS proves of the two clocks.                                    *)
(*                                                                         *)
(* Of the network time (Sntp), for any width of the words of a time stamp, *)
(* any delays, any base of the server's time and any time after which      *)
(* millis() starts again: sums, differences and halves of time stamps are  *)
(* numbers of units modulo an era, off by the carries that the code loses; *)
(* an exchange adds them up, and half of what millis() lost.               *)
(*                                                                         *)
(* Of the real-time clock (RtcClock), for any dates, hours, zones and      *)
(* number of settings: the calendar, the day of the week, the days of      *)
(* unixtime() and the rule of summer time; then an invariant with one part *)
(* for every place of a call.  The theorem at the end is of both.          *)
(***************************************************************************)
EXTENDS MCParts, TLAPS

-------------------------------------------------------------------------------
\* Division with remainder.
LEMMA Divides ==
  ASSUME NEW n \in Nat \ {0}, NEW x \in Int
  PROVE  /\ x \div n \in Int /\ x % n \in 0 .. n - 1
         /\ x = n * (x \div n) + (x % n)
  OBVIOUS

\* A number has one remainder.
LEMMA OneRemainder ==
  ASSUME NEW n \in Nat \ {0}, NEW x \in Int, NEW c \in Int, NEW r \in 0 .. n - 1, x = c * n + r
  PROVE  x % n = r
  OBVIOUS

\* No multiple of n but 0 is nearer to 0 than n.
LEMMA OneMultiple ==
  ASSUME NEW n \in Nat \ {0}, NEW i \in Int, -n < i * n, i * n < n
  PROVE  i = 0
  OBVIOUS

\* The overflow of the seconds is a number of eras.
LEMMA TwoWords ==
  ASSUME NEW w \in Nat, NEW n \in Nat, NEW p \in Int, NEW s \in Int
  PROVE  (p * w + s) * n = p * (w * n) + s * n
  OBVIOUS

-------------------------------------------------------------------------------
\* The words of a time stamp, and the time stamps.
Words     == 0 .. Seconds - 1
Fractions == 0 .. Second - 1
Stamps    == [s : Words, f : Fractions]

\* The halves of the second and of the era are whole.
LEMMA EraIs ==
  /\ Time!Era \in Nat \ {0} /\ Time!Era = Seconds * Second
  /\ Time!Half \in Nat /\ Second = 2 * Time!Half /\ Seconds = 2 * (Seconds \div 2)
  /\ Time!Era \div 2 \in Nat /\ Time!Era = 2 * (Time!Era \div 2)
  /\ Time!Era \div 2 = (Seconds \div 2) * Second
  <1>1. Second \in Nat /\ Seconds \in Nat /\ Second > 0 /\ Seconds > 0
    BY WordsAssumption
  <1>2. Time!Half \in Nat /\ Second = 2 * Time!Half /\ Seconds = 2 * (Seconds \div 2)
    BY <1>1, WordsAssumption DEF Time!Half
  <1>3. PICK w \in Nat : w = Seconds \div 2
    BY <1>1
  <1>4. Seconds * Second = 2 * (w * Second) /\ w * Second \in Nat
    BY <1>1, <1>2, <1>3
  <1>5. Seconds * Second > 0
    BY <1>1
  <1>6. PICK e \in Nat : e = Seconds * Second
    BY <1>4
  <1>7. PICK k \in Nat : k = w * Second
    BY <1>4
  <1>8. e = 2 * k /\ e > 0
    BY <1>4, <1>5, <1>6, <1>7
  <1>9. e \div 2 = k
    BY <1>8
  <1> QED BY <1>2, <1>3, <1>6, <1>7, <1>8, <1>9 DEF Time!Era

\* What a stamp stands for is the time that it was made of, but for eras.
LEMMA StampOf ==
  ASSUME NEW t \in Int
  PROVE  /\ Time!Stamp(t) \in Stamps /\ Time!Stamp(t).f = t % Second
         /\ \E c \in Int : Time!Units(Time!Stamp(t)) = t + c * Time!Era
  <1>1. Second \in Nat \ {0} /\ Seconds \in Nat \ {0}
    BY WordsAssumption
  <1>2. PICK q \in Int, f \in Fractions : q = t \div Second /\ f = t % Second /\ t = Second * q + f
    BY <1>1, Divides DEF Fractions
  <1>a. q \div Seconds \in Int /\ q % Seconds \in Words /\ q = Seconds * (q \div Seconds) + (q % Seconds)
    BY <1>1, Divides DEF Words
  <1>b. PICK p \in Int, s \in Words : p = q \div Seconds /\ s = q % Seconds /\ q = Seconds * p + s
    BY Zenon, <1>a
  <1>c. Seconds * p = p * Seconds
    BY <1>1, <1>b
  <1>3. p = q \div Seconds /\ s = q % Seconds /\ q = p * Seconds + s
    BY <1>b, <1>c, <1>1
  <1>4. Time!Stamp(t) = [s |-> s, f |-> f]
    BY <1>2, <1>3 DEF Time!Stamp
  <1>5. s * Second + f = t + (-p) * (Seconds * Second)
    <2>1. s \in Int /\ f \in Int /\ Second \in Nat /\ Seconds \in Nat
      BY <1>1, <1>2, <1>3 DEF Words, Fractions
    <2>2. (p * Seconds + s) * Second = p * (Seconds * Second) + s * Second
      BY <2>1, TwoWords
    <2>3. q * Second = p * (Seconds * Second) + s * Second
      BY <2>2, <1>3
    <2>4. q * Second \in Int /\ Second * q = q * Second /\ p * (Seconds * Second) \in Int
          /\ s * Second \in Int /\ (-p) * (Seconds * Second) = -(p * (Seconds * Second))
      BY <2>1
    <2> QED BY <2>1, <2>3, <2>4, <1>2
  <1>6. Time!Units(Time!Stamp(t)) = t + (-p) * Time!Era /\ -p \in Int
    BY <1>4, <1>5 DEF Time!Units, Time!Era
  <1> QED BY <1>2, <1>4, <1>6 DEF Stamps

-------------------------------------------------------------------------------
\* What the operations do to the fractions: `h` is the shifted fraction `f`; `x` is
\* what the carry makes a sum or a difference wrong by; `lost` and `won` are the
\* bit that a half loses and the second that it wins; `gone` is what a clock that
\* was read while a second ended is behind.
Shift(f, h) ==
  LET signed == IF f + f >= Second THEN f - Second ELSE f
  IN  h \in Int /\ (signed = h + h \/ signed = h + h + 1)

\* The fractions of a sum, a difference and a half, and the units that each is off:
\* AddNTPtime and DiffNTPtime carry by the upper bits of the words only.
Sum(f1, h1, f2, h2, f, x) ==
  \/ f1 + f2 < Second /\ h2 + h1 < 0 /\ f = f1 + f2 /\ x = Second
  \/ f1 + f2 < Second /\ h2 + h1 >= 0 /\ f = f1 + f2 /\ x = 0
  \/ f1 + f2 >= Second /\ h2 + h1 < 0 /\ f = f1 + f2 - Second /\ x = 0
  \/ f1 + f2 >= Second /\ h2 + h1 >= 0 /\ f = f1 + f2 - Second /\ x = -Second
Difference(f1, h1, f2, h2, f, x) ==
  \/ f2 < f1 /\ h2 - h1 < 0 /\ f = f2 - f1 + Second /\ x = 0
  \/ f2 < f1 /\ h2 - h1 >= 0 /\ f = f2 - f1 + Second /\ x = Second
  \/ f2 >= f1 /\ h2 - h1 < 0 /\ f = f2 - f1 /\ x = -Second
  \/ f2 >= f1 /\ h2 - h1 >= 0 /\ f = f2 - f1 /\ x = 0
Halved(odd, f, h, lost, won) ==
  /\ lost \in 0 .. 1 /\ \E n \in Fractions : f = n + n + lost
  /\ won = IF odd = 0 /\ f + f >= Second THEN Second ELSE 0
  /\ h + h = (f - lost) + (IF odd = 1 \/ f + f >= Second THEN Second ELSE 0)

\* The units that a reading of the time lacks when the counter wraps during it.
Torn(f, v, gone) == (v = f /\ gone = 0) \/ (v = 0 /\ f = Second - 1 /\ gone = Second - 1)

\* The fraction shifted right by one bit, as a signed word.
LEMMA ShiftIs ==
  ASSUME NEW f \in Fractions
  PROVE  Shift(f, Time!Shifted(f))
  <1>1. Time!Half \in Nat /\ Second \in Nat /\ Second = 2 * Time!Half
    BY EraIs, WordsAssumption
  <1>2. f \in Int /\ (f >= Time!Half <=> f + f >= Second)
    BY <1>1 DEF Fractions
  <1>3. /\ Time!Signed(f) \in Int
        /\ Time!Signed(f) = IF f + f >= Second THEN f - Second ELSE f
    BY <1>1, <1>2 DEF Time!Signed
  <1>4. PICK n \in Int : n = Time!Signed(f)
    BY <1>3
  <1>5. Time!Shifted(f) = n \div 2
    BY <1>4 DEF Time!Shifted
  <1>6. n \div 2 \in Int /\ (n = (n \div 2) + (n \div 2) \/ n = (n \div 2) + (n \div 2) + 1)
    OBVIOUS
  <1> QED BY <1>3, <1>4, <1>5, <1>6 DEF Shift

\* The remainder of a sum or of a difference of two fractions.
LEMMA Reduced ==
  ASSUME NEW n \in Nat \ {0}, NEW a \in 0 .. n - 1, NEW b \in 0 .. n - 1
  PROVE  /\ (a + b) % n \in 0 .. n - 1 /\ (a - b) % n \in 0 .. n - 1
         /\ (a + b) % n = IF a + b >= n THEN a + b - n ELSE a + b
         /\ (a - b) % n = IF a < b THEN a - b + n ELSE a - b
  <1>1. CASE a + b >= n
    <2>1. a + b = 1 * n + (a + b - n) /\ a + b - n \in 0 .. n - 1
      BY <1>1
    <2>2. (a + b) % n = a + b - n
      BY <2>1, OneRemainder
    <2> QED BY <1>1, <2>2
  <1>2. CASE ~(a + b >= n)
    BY <1>2
  <1>3. CASE a < b
    <2>1. a - b = (-1) * n + (a - b + n) /\ a - b + n \in 0 .. n - 1
      BY <1>3
    <2>2. (a - b) % n = a - b + n
      BY <2>1, OneRemainder
    <2> QED BY <1>3, <2>2
  <1>4. CASE ~(a < b)
    BY <1>4
  <1> QED BY <1>1, <1>2, <1>3, <1>4

\* The units of a time stamp, a number below an era.
LEMMA StampsAre ==
  ASSUME NEW t \in Stamps
  PROVE  /\ t.s \in Words /\ t.f \in Fractions /\ t.s \in Int /\ t.f \in Int
         /\ t.s * Second \in Int
         /\ Time!Units(t) = t.s * Second + t.f /\ Time!Units(t) \in 0 .. Time!Era - 1
  <1>1. t.s \in Words /\ t.f \in Fractions /\ Second \in Nat \ {0} /\ Seconds \in Nat \ {0}
    BY WordsAssumption DEF Stamps
  <1>2. t.s * Second \in Nat /\ t.s * Second <= (Seconds - 1) * Second
    BY <1>1 DEF Words
  <1>3. (Seconds - 1) * Second = Seconds * Second - Second /\ Seconds * Second \in Int
    BY <1>1
  <1> QED BY <1>1, <1>2, <1>3 DEF Time!Units, Time!Era, Words, Fractions

\* Words of seconds that wrap, and fractions, make a time but for eras.
LEMMA Joined ==
  ASSUME NEW n \in Int, NEW f \in Fractions
  PROVE  /\ [s |-> n % Seconds, f |-> f] \in Stamps
         /\ \E c \in Int :
              Time!Units([s |-> n % Seconds, f |-> f]) = n * Second + f + c * Time!Era
  <1>1. Second \in Nat \ {0} /\ Seconds \in Nat \ {0}
    BY WordsAssumption
  <1>2. PICK p \in Int, s \in Words : s = n % Seconds /\ n = Seconds * p + s
    BY <1>1, Divides DEF Words
  <1>3. s \in Int /\ f \in Int /\ Second \in Nat /\ Seconds \in Nat
    BY <1>1 DEF Words, Fractions
  <1>4. (p * Seconds + s) * Second = p * (Seconds * Second) + s * Second
    BY <1>3, TwoWords
  <1>5. n * Second = p * (Seconds * Second) + s * Second
    BY <1>2, <1>3, <1>4
  <1>6. n * Second \in Int /\ s * Second \in Int /\ p * (Seconds * Second) \in Int
        /\ (-p) * (Seconds * Second) = -(p * (Seconds * Second))
    BY <1>3
  <1>7. s * Second + f = n * Second + f + (-p) * (Seconds * Second)
    BY <1>3, <1>5, <1>6
  <1> QED BY <1>2, <1>7 DEF Time!Units, Time!Era, Stamps

\* A sum: right modulo the era, but for a second that the carry lost or won.
LEMMA AddIs ==
  ASSUME NEW t1 \in Stamps, NEW t2 \in Stamps
  PROVE  LET t == Time!AddNTPtime(t1, t2) IN
         /\ t \in Stamps
         /\ \E x \in {-Second, 0, Second} : \E c \in Int :
              /\ Time!Units(t) = Time!Units(t1) + Time!Units(t2) + x + c * Time!Era
              /\ Sum(t1.f, Time!Shifted(t1.f), t2.f, Time!Shifted(t2.f), t.f, x)
  <1> DEFINE t == Time!AddNTPtime(t1, t2)
  <1>1. /\ t1.s \in Int /\ t2.s \in Int /\ t1.f \in Fractions /\ t2.f \in Fractions
        /\ Time!Units(t1) = t1.s * Second + t1.f /\ Time!Units(t2) = t2.s * Second + t2.f
        /\ Second \in Nat \ {0} /\ t1.f \in Int /\ t2.f \in Int
    BY StampsAre, WordsAssumption DEF Fractions
  <1>2. PICK h1 \in Int, h2 \in Int : h1 = Time!Shifted(t1.f) /\ h2 = Time!Shifted(t2.f)
    BY <1>1, ShiftIs DEF Shift
  <1>3. PICK carry \in {0, 1} : carry = IF h2 + h1 < 0 THEN 1 ELSE 0
    BY <1>2
  <1>4. PICK f \in Fractions : f = (t2.f + t1.f) % Second
    <2>1. (t2.f + t1.f) % Second \in Fractions
      BY <1>1, Reduced DEF Fractions
    <2> QED BY <2>1
  <1>5. f = IF t2.f + t1.f >= Second THEN t2.f + t1.f - Second ELSE t2.f + t1.f
    BY <1>1, <1>4, Reduced DEF Fractions
  <1>6. PICK n \in Int : n = t2.s + carry + t1.s
    BY <1>1, <1>3
  <1>7. t = [s |-> n % Seconds, f |-> f]
    BY <1>2, <1>3, <1>4, <1>6 DEF Time!AddNTPtime, Time!TopOfFraction
  <1>8. PICK c \in Int : t \in Stamps /\ Time!Units(t) = n * Second + f + c * Time!Era
    BY <1>7, Joined
  <1>9. n * Second = t2.s * Second + carry * Second + t1.s * Second /\ t1.s * Second \in Int
        /\ t2.s * Second \in Int /\ carry * Second = IF carry = 1 THEN Second ELSE 0
    BY <1>1, <1>3, <1>6
  <1>10. PICK x \in {-Second, 0, Second} :
           x = (IF carry = 1 THEN Second ELSE 0) - (IF t2.f + t1.f >= Second THEN Second ELSE 0)
    <2>1. (IF carry = 1 THEN Second ELSE 0) - (IF t2.f + t1.f >= Second THEN Second ELSE 0)
            \in {-Second, 0, Second}
      BY <1>1, <1>3
    <2> QED BY <2>1
  <1>11. Sum(t1.f, h1, t2.f, h2, t.f, x)
    BY <1>1, <1>3, <1>5, <1>7, <1>10 DEF Sum, Fractions
  <1>12. c * Time!Era \in Int /\ f \in Int
    BY EraIs, <1>4 DEF Fractions
  <1>13. Time!Units(t) = Time!Units(t1) + Time!Units(t2) + x + c * Time!Era
    <2>1. PICK e \in Int, a1 \in Int, a2 \in Int :
            e = c * Time!Era /\ a1 = t1.s * Second /\ a2 = t2.s * Second
      BY <1>9, <1>12
    <2>2. n * Second = a2 + a1 + (IF carry = 1 THEN Second ELSE 0)
      BY <1>1, <1>3, <1>9, <2>1
    <2>3. Time!Units(t) = a2 + a1 + (IF carry = 1 THEN Second ELSE 0) + f + e
      BY <1>8, <2>1, <2>2
    <2>4. Time!Units(t1) = a1 + t1.f /\ Time!Units(t2) = a2 + t2.f
      BY <1>1, <2>1
    <2>5. f = t2.f + t1.f - (IF t2.f + t1.f >= Second THEN Second ELSE 0)
      BY <1>1, <1>5
    <2>6. Time!Units(t1) \in Int /\ Time!Units(t2) \in Int
      BY <1>1, <2>4
    <2>7. Time!Units(t) = Time!Units(t1) + Time!Units(t2) + x + e
      BY <1>1, <1>3, <1>10, <2>3, <2>4, <2>5, <2>6
    <2> QED BY <2>1, <2>7
  <1> QED BY <1>2, <1>8, <1>11, <1>13

\* A difference, likewise.
LEMMA DifferenceIs ==
  ASSUME NEW t1 \in Stamps, NEW t2 \in Stamps
  PROVE  LET t == Time!DiffNTPtime(t1, t2) IN
         /\ t \in Stamps
         /\ \E x \in {-Second, 0, Second} : \E c \in Int :
              /\ Time!Units(t) = Time!Units(t2) - Time!Units(t1) + x + c * Time!Era
              /\ Difference(t1.f, Time!Shifted(t1.f), t2.f, Time!Shifted(t2.f), t.f, x)
  <1> DEFINE t == Time!DiffNTPtime(t1, t2)
  <1>1. /\ t1.s \in Int /\ t2.s \in Int /\ t1.f \in Fractions /\ t2.f \in Fractions
        /\ Time!Units(t1) = t1.s * Second + t1.f /\ Time!Units(t2) = t2.s * Second + t2.f
        /\ Second \in Nat \ {0} /\ t1.f \in Int /\ t2.f \in Int
    BY StampsAre, WordsAssumption DEF Fractions
  <1>2. PICK h1 \in Int, h2 \in Int : h1 = Time!Shifted(t1.f) /\ h2 = Time!Shifted(t2.f)
    BY <1>1, ShiftIs DEF Shift
  <1>3. PICK borrow \in {0, 1} : borrow = IF h2 - h1 < 0 THEN 1 ELSE 0
    BY <1>2
  <1>4. PICK f \in Fractions : f = (t2.f - t1.f) % Second
    <2>1. (t2.f - t1.f) % Second \in Fractions
      BY <1>1, Reduced DEF Fractions
    <2> QED BY <2>1
  <1>5. f = IF t2.f < t1.f THEN t2.f - t1.f + Second ELSE t2.f - t1.f
    BY <1>1, <1>4, Reduced DEF Fractions
  <1>6. PICK n \in Int : n = t2.s - borrow - t1.s
    BY <1>1, <1>3
  <1>7. t = [s |-> n % Seconds, f |-> f]
    BY <1>2, <1>3, <1>4, <1>6 DEF Time!DiffNTPtime, Time!TopOfFraction
  <1>8. PICK c \in Int : t \in Stamps /\ Time!Units(t) = n * Second + f + c * Time!Era
    BY <1>7, Joined
  <1>9. n * Second = t2.s * Second - borrow * Second - t1.s * Second /\ t1.s * Second \in Int
        /\ t2.s * Second \in Int /\ borrow * Second = IF borrow = 1 THEN Second ELSE 0
    BY <1>1, <1>3, <1>6
  <1>10. PICK x \in {-Second, 0, Second} :
           x = (IF t2.f < t1.f THEN Second ELSE 0) - (IF borrow = 1 THEN Second ELSE 0)
    <2>1. (IF t2.f < t1.f THEN Second ELSE 0) - (IF borrow = 1 THEN Second ELSE 0)
            \in {-Second, 0, Second}
      BY <1>1, <1>3
    <2> QED BY <2>1
  <1>11. Difference(t1.f, h1, t2.f, h2, t.f, x)
    BY <1>1, <1>3, <1>5, <1>7, <1>10 DEF Difference, Fractions
  <1>12. c * Time!Era \in Int /\ f \in Int
    BY EraIs, <1>4 DEF Fractions
  <1>13. Time!Units(t) = Time!Units(t2) - Time!Units(t1) + x + c * Time!Era
    <2>1. PICK e \in Int, a1 \in Int, a2 \in Int :
            e = c * Time!Era /\ a1 = t1.s * Second /\ a2 = t2.s * Second
      BY <1>9, <1>12
    <2>2. n * Second = a2 - a1 - (IF borrow = 1 THEN Second ELSE 0)
      BY <1>1, <1>3, <1>9, <2>1
    <2>3. Time!Units(t) = a2 - a1 - (IF borrow = 1 THEN Second ELSE 0) + f + e
      BY <1>8, <2>1, <2>2
    <2>4. Time!Units(t1) = a1 + t1.f /\ Time!Units(t2) = a2 + t2.f
      BY <1>1, <2>1
    <2>5. f = t2.f - t1.f + (IF t2.f < t1.f THEN Second ELSE 0)
      BY <1>1, <1>5
    <2>6. Time!Units(t1) \in Int /\ Time!Units(t2) \in Int
      BY <1>1, <2>4
    <2>7. Time!Units(t) = Time!Units(t2) - Time!Units(t1) + x + e
      BY <1>1, <1>3, <1>10, <2>3, <2>4, <2>5, <2>6
    <2> QED BY <2>1, <2>7
  <1> QED BY <1>2, <1>8, <1>11, <1>13

\* Half a difference, rounded to the even as its words are shifted.
LEMMA HalfIs ==
  ASSUME NEW t \in Stamps
  PROVE  LET h == Time!NTPdiv2(t) IN
         /\ h \in Stamps
         /\ \E odd \in 0 .. 1, lost \in 0 .. 1, won \in Int :
              /\ Time!Units(h) + Time!Units(h) = Time!Units(t) - lost + won
              /\ Halved(odd, t.f, h.f, lost, won)
  <1>1. /\ t.s \in Words /\ t.f \in Fractions /\ t.s \in Int /\ t.f \in Int
        /\ Second \in Nat \ {0} /\ Seconds \in Nat \ {0} /\ t.s * Second \in Int
        /\ Time!Units(t) = t.s * Second + t.f
    BY StampsAre, WordsAssumption
  <1>2. PICK half \in Nat : half = Time!Half /\ Second = half + half
    BY EraIs
  <1>3. PICK odd \in 0 .. 1, q \in Words : odd = t.s % 2 /\ q = t.s \div 2 /\ t.s = q + q + odd
    <2>1. /\ t.s % 2 \in 0 .. 1 /\ t.s \div 2 \in Words
          /\ t.s = (t.s \div 2) + (t.s \div 2) + (t.s % 2)
      BY <1>1 DEF Words
    <2> QED BY <2>1
  <1>4. PICK lost \in 0 .. 1, n \in Fractions : t.f = n + n + lost /\ n < half
    <2>1. /\ t.f % 2 \in 0 .. 1 /\ t.f \div 2 \in Fractions /\ t.f \div 2 < half
          /\ t.f = (t.f \div 2) + (t.f \div 2) + (t.f % 2)
      BY <1>1, <1>2 DEF Fractions
    <2> QED BY <2>1
  <1>5. PICK big \in BOOLEAN : big <=> t.f + t.f >= Second
    OBVIOUS
  <1>6. Time!Shifted(t.f) = IF big THEN n - half ELSE n
    <2>1. Shift(t.f, Time!Shifted(t.f))
      BY <1>1, ShiftIs
    <2>2. PICK h \in Int : h = Time!Shifted(t.f)
      BY <2>1 DEF Shift
    <2>3. n \in Int /\ half \in Int /\ t.f \in Int /\ h \in Int
      BY <1>1, <1>2, <1>4, <2>2 DEF Fractions
    <2>4. CASE big
      <3>1. t.f - Second = h + h \/ t.f - Second = h + h + 1
        BY <1>5, <2>1, <2>2, <2>4 DEF Shift
      <3>2. h = n - half
        BY <1>2, <1>4, <2>3, <3>1
      <3> QED BY <2>2, <2>4, <3>2
    <2>5. CASE ~big
      <3>1. t.f = h + h \/ t.f = h + h + 1
        BY <1>5, <2>1, <2>2, <2>5 DEF Shift
      <3>2. h = n
        BY <1>4, <2>3, <3>1
      <3> QED BY <2>2, <2>5, <3>2
    <2> QED BY <2>4, <2>5
  <1>7. Time!Shifted(t.f) % Second = IF big THEN n + half ELSE n
    <2>1. CASE big
      <3>1. n \in 0 .. Second - 1 /\ half \in 0 .. Second - 1 /\ n < half
        BY <1>1, <1>2, <1>4 DEF Fractions
      <3>2. (n - half) % Second = n - half + Second
        BY <1>1, <3>1, Reduced
      <3>3. n - half + Second = n + half
        BY <1>2, <3>1
      <3> QED BY <1>6, <2>1, <3>2, <3>3
    <2>2. CASE ~big
      <3>1. n \in 0 .. Second - 1 /\ n = 0 * Second + n
        BY <1>1, <1>4 DEF Fractions
      <3>2. n % Second = n
        BY <1>1, <3>1, OneRemainder
      <3> QED BY <1>6, <2>2, <3>2
    <2> QED BY <2>1, <2>2
  <1>8. PICK f \in Fractions : f = IF odd = 1 \/ big THEN n + half ELSE n
    <2>1. n \in Fractions /\ n + half \in Fractions
      BY <1>1, <1>2, <1>4 DEF Fractions
    <2> QED BY <2>1
  <1>9. Time!NTPdiv2(t) = [s |-> q, f |-> f]
    <2>1. (IF big THEN n + half ELSE n) < half <=> ~big
      BY <1>2, <1>4 DEF Fractions
    <2>2. (IF odd = 1 /\ (IF big THEN n + half ELSE n) < half
             THEN (IF big THEN n + half ELSE n) + half ELSE (IF big THEN n + half ELSE n)) = f
      BY <1>8, <2>1
    <2> QED BY <1>2, <1>3, <1>7, <2>2 DEF Time!NTPdiv2
  <1>10. PICK won \in Int : won = IF odd = 0 /\ big THEN Second ELSE 0
    <2>1. (IF odd = 0 /\ big THEN Second ELSE 0) \in Int
      BY <1>1
    <2> QED BY <2>1
  <1>11. Halved(odd, t.f, f, lost, won)
    <2>1. f + f = (t.f - lost) + (IF odd = 1 \/ big THEN Second ELSE 0)
      BY <1>1, <1>2, <1>4, <1>8 DEF Fractions
    <2> QED BY <1>4, <1>5, <1>10, <2>1 DEF Halved
  <1>12. q * Second \in Int /\ t.s * Second = (q * Second) + (q * Second) + (odd * Second)
         /\ odd * Second = IF odd = 1 THEN Second ELSE 0
    <2>1. q \in Int /\ odd \in Int /\ Second \in Int
      BY <1>1, <1>3 DEF Words
    <2>2. (q + q + odd) * Second = (q * Second) + (q * Second) + (odd * Second)
      BY <2>1
    <2>3. odd * Second = IF odd = 1 THEN Second ELSE 0
      <3>1. odd = 0 \/ odd = 1
        OBVIOUS
      <3>2. 0 * Second = 0 /\ 1 * Second = Second
        BY <2>1
      <3> QED BY <3>1, <3>2
    <2> QED BY <1>3, <2>1, <2>2, <2>3
  <1>13. Time!Units([s |-> q, f |-> f]) = q * Second + f
    BY DEF Time!Units
  <1>14. (q * Second + f) + (q * Second + f) = t.s * Second + t.f - lost + won
    <2>1. PICK a \in Int : a = q * Second
      BY <1>12
    <2>2. (a + f) + (a + f) = (a + a + (IF odd = 1 THEN Second ELSE 0)) + t.f - lost + won
      <3>1. f \in Int /\ n \in Int /\ half \in Int /\ lost \in Int /\ t.f \in Int /\ won \in Int
        BY <1>1, <1>2, <1>4, <1>8 DEF Fractions
      <3>2. CASE odd = 1
        <4>1. f = n + half /\ won = 0
          BY <1>8, <1>10, <3>2
        <4> QED BY <1>2, <1>4, <3>1, <3>2, <4>1
      <3>3. CASE odd # 1
        <4>1. f = (IF big THEN n + half ELSE n) /\ won = (IF big THEN Second ELSE 0)
          BY <1>8, <1>10, <3>3
        <4> QED BY <1>2, <1>4, <3>1, <3>3, <4>1
      <3> QED BY <3>2, <3>3
    <2> QED BY <1>12, <2>1, <2>2
  <1>15. [s |-> q, f |-> f] \in Stamps
    BY <1>3, <1>8 DEF Stamps
  <1>16. Time!NTPdiv2(t).f = f
    BY <1>9
  <1> QED BY <1>1, <1>9, <1>11, <1>13, <1>14, <1>15, <1>16

\* The system clock at `u`, as GetSystemClockAsNTPTime reads it.
Read(u, ends) ==
  IF ends /\ (u + 1) % Second = 0 THEN Time!Stamp(u + 1 - Second) ELSE Time!Stamp(u)

\* A reading of the time that has passed.
LEMMA ReadIs ==
  ASSUME NEW u \in Int, NEW ends \in BOOLEAN
  PROVE  /\ Read(u, ends) \in Stamps
         /\ \E gone \in Int : \E c \in Int :
              /\ Time!Units(Read(u, ends)) = u - gone + c * Time!Era
              /\ Torn(u % Second, Read(u, ends).f, gone)
  <1>1. Second \in Nat \ {0}
    BY WordsAssumption
  <1>2. CASE ends /\ (u + 1) % Second = 0
    <2>1. PICK k \in Int : u + 1 = Second * k
      <3>1. (u + 1) \div Second \in Int /\ u + 1 = Second * ((u + 1) \div Second) + ((u + 1) % Second)
        BY <1>1, Divides
      <3>2. u + 1 = Second * ((u + 1) \div Second)
        BY <1>1, <1>2, <3>1
      <3> QED BY <3>1, <3>2
    <2>2. k - 1 \in Int /\ (k - 1) * Second = Second * k - Second
      BY <1>1
    <2>3. u = (k - 1) * Second + (Second - 1) /\ Second - 1 \in 0 .. Second - 1
      BY <1>1, <2>1, <2>2
    <2>4. u % Second = Second - 1
      BY <1>1, <2>2, <2>3, OneRemainder
    <2>5. u + 1 - Second = (k - 1) * Second + 0 /\ 0 \in 0 .. Second - 1 /\ u + 1 - Second \in Int
      BY <1>1, <2>1, <2>2
    <2>6. (u + 1 - Second) % Second = 0
      BY <1>1, <2>2, <2>5, OneRemainder
    <2>7. Read(u, ends) = Time!Stamp(u + 1 - Second)
      BY <1>2 DEF Read
    <2>8. PICK c \in Int : Time!Units(Read(u, ends)) = u + 1 - Second + c * Time!Era
      BY <2>5, <2>7, StampOf
    <2>9. Read(u, ends) \in Stamps /\ Read(u, ends).f = 0
      BY <2>5, <2>6, <2>7, StampOf
    <2>10. Second - 1 \in Int /\ u + 1 - Second = u - (Second - 1)
      BY <1>1
    <2> QED BY <2>4, <2>8, <2>9, <2>10 DEF Torn
  <1>3. CASE ~(ends /\ (u + 1) % Second = 0)
    <2>1. Read(u, ends) = Time!Stamp(u)
      BY <1>3 DEF Read
    <2>2. u - 0 = u
      OBVIOUS
    <2> QED BY <2>1, <2>2, StampOf DEF Torn
  <1> QED BY <1>2, <1>3

\* Two instants whose doubles differ by `d` and by an even number of eras are not
\* further apart than half of d; with an odd number they are half an era apart.
LEMMA ApartIs ==
  ASSUME NEW e \in Nat \ {0}, Time!Era = e + e,
         NEW a \in Int, NEW b \in Int, NEW d \in Int, NEW c \in Int, NEW n \in Nat,
         a + a = b + b + d + c * Time!Era, -n - n - 1 <= d, d <= n + n + 1, n < e
  PROVE  /\ \A j \in Int : c = j + j => Time!Apart(a, b) <= n
         /\ Time!Apart(a, b) <= n \/ Time!Apart(a, b) >= e - n
         /\ Time!Apart(a, b) \in Int
  <1>1. PICK era \in Nat \ {0} : era = Time!Era /\ era = e + e
    OBVIOUS
  <1>2. era \div 2 = e
    BY <1>1
  <1>3. PICK r \in 0 .. era - 1 : r = (a - b) % era
    BY Divides
  <1>4. Time!Apart(a, b) = IF r > e THEN era - r ELSE r
    BY <1>1, <1>2, <1>3 DEF Time!Apart
  <1>5. ASSUME NEW j \in Int, c = j + j
        PROVE  Time!Apart(a, b) <= n
    <2>1. c * era = j * era + j * era /\ j * era \in Int
      BY <1>5
    <2>2. PICK p \in Int : p = j * era
      BY <2>1
    <2>3. PICK m \in Int : m = a - b - p
      OBVIOUS
    <2>4. m + m = d /\ -n <= m /\ m <= n
      <3>1. a + a = b + b + d + p + p
        BY <1>1, <2>1, <2>2
      <3> QED BY <2>3, <3>1
    <2>5. CASE m >= 0
      <3>1. a - b = j * era + m /\ m \in 0 .. era - 1
        BY <1>1, <2>2, <2>3, <2>4, <2>5
      <3>2. r = m
        BY <1>3, <3>1, OneRemainder
      <3> QED BY <1>1, <1>4, <2>4, <3>2
    <2>6. CASE m < 0
      <3>1. (j - 1) * era = j * era - era /\ j - 1 \in Int
        OBVIOUS
      <3>2. a - b = (j - 1) * era + (m + era) /\ m + era \in 0 .. era - 1
        BY <1>1, <2>2, <2>3, <2>4, <2>6, <3>1
      <3>3. r = m + era
        BY <1>3, <3>1, <3>2, OneRemainder
      <3> QED BY <1>1, <1>4, <2>4, <2>6, <3>3
    <2> QED BY <2>5, <2>6
  <1>6. ASSUME NEW j \in Int, c = j + j + 1
        PROVE  Time!Apart(a, b) >= e - n
    <2>1. c * era = j * era + j * era + era /\ j * era \in Int
      BY <1>6
    <2>2. PICK p \in Int : p = j * era
      BY <2>1
    <2>3. PICK m \in Int : m = a - b - p - e
      OBVIOUS
    <2>4. m + m = d /\ -n <= m /\ m <= n
      <3>1. a + a = b + b + d + p + p + e + e
        BY <1>1, <2>1, <2>2
      <3> QED BY <2>3, <3>1
    <2>5. a - b = j * era + (m + e) /\ m + e \in 0 .. era - 1
      BY <1>1, <2>2, <2>3, <2>4
    <2>6. PICK q \in 0 .. era - 1 : q = m + e
      BY <2>5
    <2>7. a - b = j * era + q /\ a - b \in Int
      BY <2>5, <2>6
    <2>8. r = q
      BY <1>3, <2>7, OneRemainder
    <2> QED BY <1>1, <1>4, <2>4, <2>6, <2>8
  <1>7. \E j \in Int : c = j + j \/ c = j + j + 1
    <2>1. c \div 2 \in Int /\ (c = (c \div 2) + (c \div 2) \/ c = (c \div 2) + (c \div 2) + 1)
      OBVIOUS
    <2> QED BY <2>1
  <1>8. Time!Apart(a, b) \in Int
    BY <1>4
  <1> QED BY <1>5, <1>6, <1>7, <1>8

\* The sign of a difference is the highest bit of its seconds.
LEMMA NegativeIs ==
  ASSUME NEW t \in Stamps
  PROVE  Time!Negative(t) <=> Time!Units(t) >= Time!Era \div 2
  <1>1. /\ t.s \in Int /\ t.f \in Fractions /\ Time!Units(t) = t.s * Second + t.f
        /\ Second \in Nat \ {0} /\ Seconds \in Nat
    BY StampsAre, WordsAssumption
  <1>2. PICK half \in Int : half = Seconds \div 2 /\ Time!Era \div 2 = half * Second
    BY <1>1, EraIs
  <1>3. PICK n \in Int, f \in Int : n = t.s /\ f = t.f /\ f >= 0 /\ f < Second
    BY <1>1 DEF Fractions
  <1>4. CASE n >= half
    <2>1. n * Second >= half * Second
      BY <1>1, <1>4
    <2> QED BY <1>1, <1>2, <1>3, <1>4, <2>1 DEF Time!Negative
  <1>5. CASE n < half
    <2>1. n + 1 <= half
      BY <1>5
    <2>2. (n + 1) * Second <= half * Second /\ (n + 1) * Second = n * Second + Second
      BY <1>1, <2>1
    <2>3. n * Second + f < half * Second
      BY <1>1, <1>3, <2>2
    <2> QED BY <1>1, <1>2, <1>3, <1>5, <2>3 DEF Time!Negative
  <1> QED BY <1>4, <1>5

\* How far a synchronisation leaves the clock off: `o` was the device's time when the
\* request left at `u`, `r` the server's when it came there.
Near(away) == (away \div 2) + 4 * Second + Time!Half

\* The clock is right within that, or the differences had opposite signs.
RightWithin(o, r, d, new, now, ahead, away) ==
  LET near == Near(away)
      off  == Time!Apart(Time!Units(Time!AddNTPtime(Time!Stamp(now), new)), now + ahead)
  IN  \/ off <= near
      \/ /\ Time!Negative(Time!DiffNTPtime(o, r)) # Time!Negative(Time!DiffNTPtime(d, r))
         /\ off >= (Time!Era \div 2) - near

\* One request and its reply: millis() was u when the device read its time first and now
\* when it did again, having lost what it started again by; the server read its own in
\* between, there units after the request left and back before the reply came.
Exchange(ref, ahead, u, there, back, lost, ends1, ends2, now, o, r, d, new) ==
  /\ ref \in Stamps /\ ahead \in Int /\ u \in Int /\ there \in Nat /\ back \in Nat
  /\ lost \in Nat /\ lost + 5 * Second < Time!Era \div 2
  /\ ends1 \in BOOLEAN /\ ends2 \in BOOLEAN /\ now \in Int /\ now = u + there + back - lost
  /\ there + back + 5 * Second < Time!Era \div 2
  /\ o = Time!AddNTPtime(Read(u, ends1), ref)
  /\ r = Time!Stamp(u + there + ahead)
  /\ d = Time!AddNTPtime(Read(now, ends2), ref)
  /\ new = Time!AddNTPtime(Time!Correction(o, r, r, d), ref)

\* What one exchange does to the clock, carries and all: the eras that the differences
\* lose cancel when they have the same sign, the lost carries add up to at most
\* nine seconds of twice the time, and of what millis() lost the clock keeps half.
LEMMA Synchronised ==
  ASSUME NEW ref, NEW ahead, NEW u, NEW there, NEW back, NEW lost, NEW ends1, NEW ends2,
         NEW now, NEW o, NEW r, NEW d, NEW new,
         Exchange(ref, ahead, u, there, back, lost, ends1, ends2, now, o, r, d, new)
  PROVE  /\ new \in Stamps
         /\ RightWithin(o, r, d, new, now, ahead + lost - (lost \div 2), there + back)
  <1>a. /\ ref \in Stamps /\ ahead \in Int /\ u \in Int /\ there \in Nat /\ back \in Nat
        /\ lost \in Nat /\ lost + 5 * Second < Time!Era \div 2
        /\ ends1 \in BOOLEAN /\ ends2 \in BOOLEAN /\ now \in Int /\ now = u + there + back - lost
        /\ there + back + 5 * Second < Time!Era \div 2
        /\ o = Time!AddNTPtime(Read(u, ends1), ref)
        /\ r = Time!Stamp(u + there + ahead)
        /\ d = Time!AddNTPtime(Read(now, ends2), ref)
        /\ new = Time!AddNTPtime(Time!Correction(o, r, r, d), ref)
    BY DEF Exchange
  <1> USE <1>a
  <1> DEFINE a   == Time!DiffNTPtime(o, r)
             b   == Time!DiffNTPtime(d, r)
             h1  == Time!NTPdiv2(a)
             h2  == Time!NTPdiv2(b)
             sum == Time!AddNTPtime(h1, h2)
             l   == Time!AddNTPtime(Time!Stamp(now), new)
  <1>1. PICK half \in Nat : half = Time!Half /\ Second = half + half /\ half > 0 /\ Second \in Nat
    BY EraIs, WordsAssumption
  <1>2. PICK e \in Nat \ {0} : e = Time!Era \div 2 /\ Time!Era = e + e
    BY EraIs
  <1>3. PICK gone1 \in Int, c1 \in Int :
          /\ Time!Units(Read(u, ends1)) = u - gone1 + c1 * Time!Era
          /\ Torn(u % Second, Read(u, ends1).f, gone1)
    BY ReadIs
  <1>4. PICK gone2 \in Int, c2 \in Int :
          /\ Time!Units(Read(now, ends2)) = now - gone2 + c2 * Time!Era
          /\ Torn(now % Second, Read(now, ends2).f, gone2)
    BY ReadIs
  <1>5. Read(u, ends1) \in Stamps /\ Read(now, ends2) \in Stamps
    BY ReadIs
  <1>6. PICK xo \in {-Second, 0, Second}, co \in Int :
          /\ Time!Units(o) = Time!Units(Read(u, ends1)) + Time!Units(ref) + xo + co * Time!Era
          /\ Sum(Read(u, ends1).f, Time!Shifted(Read(u, ends1).f), ref.f, Time!Shifted(ref.f), o.f, xo)
    BY <1>5, AddIs
  <1>7. PICK xd \in {-Second, 0, Second}, cd \in Int :
          /\ Time!Units(d) = Time!Units(Read(now, ends2)) + Time!Units(ref) + xd + cd * Time!Era
          /\ Sum(Read(now, ends2).f, Time!Shifted(Read(now, ends2).f), ref.f, Time!Shifted(ref.f), d.f, xd)
    BY <1>5, AddIs
  <1>8. o \in Stamps /\ d \in Stamps
    BY <1>5, AddIs
  <1>9. PICK cr \in Int : r \in Stamps /\ Time!Units(r) = u + there + ahead + cr * Time!Era
    BY StampOf
  <1>10. PICK ya \in {-Second, 0, Second}, ca \in Int :
           /\ Time!Units(a) = Time!Units(r) - Time!Units(o) + ya + ca * Time!Era
           /\ Difference(o.f, Time!Shifted(o.f), r.f, Time!Shifted(r.f), a.f, ya)
    BY <1>8, <1>9, DifferenceIs
  <1>11. PICK yb \in {-Second, 0, Second}, cb \in Int :
           /\ Time!Units(b) = Time!Units(r) - Time!Units(d) + yb + cb * Time!Era
           /\ Difference(d.f, Time!Shifted(d.f), r.f, Time!Shifted(r.f), b.f, yb)
    BY <1>8, <1>9, DifferenceIs
  <1>12. a \in Stamps /\ b \in Stamps
    BY <1>8, <1>9, DifferenceIs
  <1>13. PICK odda \in 0 .. 1, losta \in 0 .. 1, wona \in Int :
           /\ Time!Units(h1) + Time!Units(h1) = Time!Units(a) - losta + wona
           /\ Halved(odda, a.f, h1.f, losta, wona)
    BY <1>12, HalfIs
  <1>14. PICK oddb \in 0 .. 1, lostb \in 0 .. 1, wonb \in Int :
           /\ Time!Units(h2) + Time!Units(h2) = Time!Units(b) - lostb + wonb
           /\ Halved(oddb, b.f, h2.f, lostb, wonb)
    BY <1>12, HalfIs
  <1>15. h1 \in Stamps /\ h2 \in Stamps
    BY <1>12, HalfIs
  <1>16. PICK z1 \in {-Second, 0, Second}, cs \in Int :
           /\ Time!Units(sum) = Time!Units(h1) + Time!Units(h2) + z1 + cs * Time!Era
           /\ Sum(h1.f, Time!Shifted(h1.f), h2.f, Time!Shifted(h2.f), sum.f, z1)
    BY <1>15, AddIs
  <1>17. sum \in Stamps
    BY <1>15, AddIs
  <1>18. new = Time!AddNTPtime(sum, ref)
    BY DEF Time!Correction
  <1>19. PICK z2 \in {-Second, 0, Second}, cn \in Int :
           /\ Time!Units(new) = Time!Units(sum) + Time!Units(ref) + z2 + cn * Time!Era
           /\ Sum(sum.f, Time!Shifted(sum.f), ref.f, Time!Shifted(ref.f), new.f, z2)
    BY <1>17, <1>18, AddIs
  <1>20. new \in Stamps
    BY <1>17, <1>18, AddIs
  <1>21. PICK ct \in Int :
           /\ Time!Stamp(now) \in Stamps /\ Time!Stamp(now).f = now % Second
           /\ Time!Units(Time!Stamp(now)) = now + ct * Time!Era
    BY StampOf
  <1>22. PICK z3 \in {-Second, 0, Second}, cl \in Int :
           /\ Time!Units(l) = Time!Units(Time!Stamp(now)) + Time!Units(new) + z3 + cl * Time!Era
           /\ Sum(Time!Stamp(now).f, Time!Shifted(Time!Stamp(now).f), new.f, Time!Shifted(new.f), l.f, z3)
    BY <1>20, <1>21, AddIs
  <1>23. l \in Stamps
    BY <1>20, <1>21, AddIs
  <1>24. PICK k \in Int :
           /\ k = 2 * (z1 + z2 + z3) + wona + wonb + ya + yb - xo - xd + gone1 + gone2 - losta - lostb
           /\ -8 * Second <= k /\ k <= 9 * Second
    <2>1. /\ u % Second \in Fractions /\ now % Second \in Fractions
          /\ ref.f \in Fractions /\ r.f \in Fractions /\ o.f \in Fractions /\ d.f \in Fractions
          /\ a.f \in Fractions /\ b.f \in Fractions /\ h1.f \in Fractions /\ h2.f \in Fractions
          /\ sum.f \in Fractions /\ new.f \in Fractions /\ l.f \in Fractions
          /\ Read(u, ends1).f \in Fractions /\ Read(now, ends2).f \in Fractions
      BY <1>5, <1>8, <1>9, <1>12, <1>15, <1>17, <1>20, <1>23, StampsAre, Divides, WordsAssumption
         DEF Fractions
    <2>2. /\ xo \in Int /\ xd \in Int /\ ya \in Int /\ yb \in Int /\ z1 \in Int /\ z2 \in Int
          /\ z3 \in Int
      BY <1>1
    <2>3. \A f \in Fractions : Shift(f, Time!Shifted(f)) /\ Time!Shifted(f) \in Int
      BY ShiftIs DEF Shift
    <2>4. Time!Stamp(now).f \in Fractions
      BY <1>21, <2>1
    <2>5. PICK fr \in Fractions, hr \in Int : fr = ref.f /\ hr = Time!Shifted(ref.f) /\ Shift(fr, hr)
      BY <2>1, <2>3, <2>4
    <2>6. PICK ft \in Fractions, ht \in Int : ft = r.f /\ ht = Time!Shifted(r.f) /\ Shift(ft, ht)
      BY <2>1, <2>3, <2>4
    <2>7. PICK fn \in Fractions, hn \in Int : fn = Time!Stamp(now).f /\ hn = Time!Shifted(Time!Stamp(now).f) /\ Shift(fn, hn)
      BY <2>1, <2>3, <2>4
    <2>8. PICK v1 \in Fractions, hv1 \in Int : v1 = Read(u, ends1).f /\ hv1 = Time!Shifted(Read(u, ends1).f) /\ Shift(v1, hv1)
      BY <2>1, <2>3, <2>4
    <2>9. PICK v2 \in Fractions, hv2 \in Int : v2 = Read(now, ends2).f /\ hv2 = Time!Shifted(Read(now, ends2).f) /\ Shift(v2, hv2)
      BY <2>1, <2>3, <2>4
    <2>10. PICK fo \in Fractions, ho \in Int : fo = o.f /\ ho = Time!Shifted(o.f) /\ Shift(fo, ho)
      BY <2>1, <2>3, <2>4
    <2>11. PICK fd \in Fractions, hd \in Int : fd = d.f /\ hd = Time!Shifted(d.f) /\ Shift(fd, hd)
      BY <2>1, <2>3, <2>4
    <2>12. PICK f1 \in Fractions, k1 \in Int : f1 = h1.f /\ k1 = Time!Shifted(h1.f) /\ Shift(f1, k1)
      BY <2>1, <2>3, <2>4
    <2>13. PICK f2 \in Fractions, k2 \in Int : f2 = h2.f /\ k2 = Time!Shifted(h2.f) /\ Shift(f2, k2)
      BY <2>1, <2>3, <2>4
    <2>14. PICK fs \in Fractions, hs \in Int : fs = sum.f /\ hs = Time!Shifted(sum.f) /\ Shift(fs, hs)
      BY <2>1, <2>3, <2>4
    <2>15. PICK fw \in Fractions, hw \in Int : fw = new.f /\ hw = Time!Shifted(new.f) /\ Shift(fw, hw)
      BY <2>1, <2>3, <2>4
    <2>16. PICK fu \in Fractions, fa \in Fractions, fb \in Fractions, fz \in Fractions :
            fu = u % Second /\ fa = a.f /\ fb = b.f /\ fz = l.f
      BY <2>1
    <2>17. /\ Torn(fu, v1, gone1) /\ Torn(fn, v2, gone2)
           /\ Sum(v1, hv1, fr, hr, fo, xo) /\ Sum(v2, hv2, fr, hr, fd, xd)
           /\ Difference(fo, ho, ft, ht, fa, ya) /\ Difference(fd, hd, ft, ht, fb, yb)
      BY <1>3, <1>4, <1>6, <1>7, <1>10, <1>11, <1>21,
         <2>5, <2>6, <2>7, <2>8, <2>9, <2>10, <2>11, <2>12, <2>13, <2>14, <2>15, <2>16
    <2>18. /\ Halved(odda, fa, f1, losta, wona) /\ Halved(oddb, fb, f2, lostb, wonb)
           /\ Sum(f1, k1, f2, k2, fs, z1) /\ Sum(fs, hs, fr, hr, fw, z2)
           /\ Sum(fn, hn, fw, hw, fz, z3)
      BY <1>13, <1>14, <1>16, <1>19, <1>22,
         <2>5, <2>6, <2>7, <2>8, <2>9, <2>10, <2>11, <2>12, <2>13, <2>14, <2>15, <2>16
    <2>19. PICK n \in Int :
             n = 2 * (z1 + z2 + z3) + wona + wonb + ya + yb - xo - xd + gone1 + gone2 - losta - lostb
      BY <2>2
    <2>20. /\ Shift(fr, hr) /\ Shift(ft, ht) /\ Shift(fn, hn) /\ Shift(v1, hv1) /\ Shift(v2, hv2)
           /\ Shift(fo, ho) /\ Shift(fd, hd) /\ Shift(f1, k1) /\ Shift(f2, k2) /\ Shift(fs, hs)
           /\ Shift(fw, hw)
      BY <2>5, <2>6, <2>7, <2>8, <2>9, <2>10, <2>11, <2>12, <2>13, <2>14, <2>15
    <2>21. -8 * Second <= n /\ n <= 9 * Second
      BY <1>1, <2>2, <2>17, <2>18, <2>19, <2>20, SMTT(100)
         DEF Shift, Sum, Difference, Halved, Torn, Fractions
    <2> QED BY <2>19, <2>21
  <1>25. /\ Time!Units(Read(u, ends1)) \in Int /\ Time!Units(Read(now, ends2)) \in Int
         /\ Time!Units(ref) \in Int /\ Time!Units(o) \in Int /\ Time!Units(d) \in Int
         /\ Time!Units(r) \in Int /\ Time!Units(h1) \in Int /\ Time!Units(h2) \in Int
         /\ Time!Units(a) \in 0 .. Time!Era - 1 /\ Time!Units(b) \in 0 .. Time!Era - 1
         /\ Time!Units(sum) \in Int /\ Time!Units(new) \in Int /\ Time!Units(l) \in Int
         /\ Time!Units(Time!Stamp(now)) \in Int
    BY <1>5, <1>8, <1>9, <1>12, <1>15, <1>17, <1>20, <1>21, <1>23, StampsAre
  <1>26. PICK era \in Nat \ {0} : era = Time!Era /\ era = e + e
    BY <1>2
  <1>27. /\ xo \in Int /\ xd \in Int /\ ya \in Int /\ yb \in Int /\ z1 \in Int /\ z2 \in Int
         /\ z3 \in Int
         /\ -Second <= xo /\ xo <= Second /\ -Second <= xd /\ xd <= Second
         /\ -Second <= ya /\ ya <= Second /\ -Second <= yb /\ yb <= Second
    BY <1>1
  <1>28. 0 <= gone1 /\ gone1 < Second /\ 0 <= gone2 /\ gone2 < Second
    BY <1>1, <1>3, <1>4 DEF Torn
  \* the two differences, in terms of what passed
  <1>29. PICK i \in Int :
           Time!Units(a) = there + ahead + gone1 - Time!Units(ref) - xo + ya + i * era
    <2>1. ca + cr - c1 - co \in Int
          /\ (ca + cr - c1 - co) * era = ca * era + cr * era - c1 * era - co * era
      OBVIOUS
    <2>2. PICK p1 \in Int, p2 \in Int, p3 \in Int, p4 \in Int :
            p1 = ca * era /\ p2 = cr * era /\ p3 = c1 * era /\ p4 = co * era
      OBVIOUS
    <2>3. Time!Units(a) = there + ahead + gone1 - Time!Units(ref) - xo + ya + (p1 + p2 - p3 - p4)
      BY <1>3, <1>6, <1>9, <1>10, <1>25, <1>26, <1>27, <2>2
    <2>4. (ca + cr - c1 - co) * era = p1 + p2 - p3 - p4
      BY <2>1, <2>2
    <2> QED BY <2>1, <2>3, <2>4
  <1>30. PICK j \in Int :
           Time!Units(b) = ahead - back + lost + gone2 - Time!Units(ref) - xd + yb + j * era
    <2>1. cb + cr - c2 - cd \in Int
          /\ (cb + cr - c2 - cd) * era = cb * era + cr * era - c2 * era - cd * era
      OBVIOUS
    <2>2. PICK p1 \in Int, p2 \in Int, p3 \in Int, p4 \in Int :
            p1 = cb * era /\ p2 = cr * era /\ p3 = c2 * era /\ p4 = cd * era
      OBVIOUS
    <2>3. Time!Units(b) = ahead - back + lost + gone2 - Time!Units(ref) - xd + yb + (p1 + p2 - p3 - p4)
      BY <1>4, <1>7, <1>9, <1>11, <1>25, <1>26, <1>27, <2>2
    <2>4. (cb + cr - c2 - cd) * era = p1 + p2 - p3 - p4
      BY <2>1, <2>2
    <2> QED BY <2>1, <2>3, <2>4
  \* twice the time that the clock shows now
  <1>31. PICK m \in Int :
           /\ m = cs + cn + ct + cl
           /\ Time!Units(l) + Time!Units(l) = (now + ahead) + (now + ahead) + (there - back + lost + k)
                                              + (i + j + m + m) * era
    <2>1. PICK m \in Int : m = cs + cn + ct + cl
      OBVIOUS
    <2>2. (i + j + m + m) * era = i * era + j * era + m * era + m * era
          /\ m * era = cs * era + cn * era + ct * era + cl * era
      BY <2>1
    <2>3. PICK p1 \in Int, p2 \in Int, p3 \in Int, p4 \in Int, p5 \in Int, p6 \in Int :
            p1 = cs * era /\ p2 = cn * era /\ p3 = ct * era /\ p4 = cl * era
            /\ p5 = i * era /\ p6 = j * era
      OBVIOUS
    <2>4. Time!Units(l) = now + p3 + Time!Units(sum) + Time!Units(ref) + z2 + p2 + z3 + p4
      BY <1>19, <1>21, <1>22, <1>25, <1>26, <1>27, <2>3
    <2>5. Time!Units(sum) + Time!Units(sum)
            = Time!Units(a) - losta + wona + Time!Units(b) - lostb + wonb + z1 + z1 + p1 + p1
      <3>1. PICK x \in 0 .. era - 1, y \in 0 .. era - 1, g \in Int, h \in Int, v \in Int :
              /\ x = Time!Units(a) /\ y = Time!Units(b)
              /\ g = Time!Units(h1) /\ h = Time!Units(h2) /\ v = Time!Units(sum)
        BY <1>25, <1>26
      <3>2. g + g = x - losta + wona /\ h + h = y - lostb + wonb
        BY <1>13, <1>14, <3>1
      <3>3. v = g + h + z1 + p1
        BY <1>16, <1>26, <2>3, <3>1
      <3>4. v + v = x - losta + wona + y - lostb + wonb + z1 + z1 + p1 + p1
        BY <1>27, <3>2, <3>3
      <3> QED BY <3>1, <3>4
    <2>6. Time!Units(a) = there + ahead + gone1 - Time!Units(ref) - xo + ya + p5
          /\ Time!Units(b) = ahead - back + lost + gone2 - Time!Units(ref) - xd + yb + p6
      BY <1>29, <1>30, <2>3
    <2>7. (i + j + m + m) * era = p5 + p6 + (p1 + p2 + p3 + p4) + (p1 + p2 + p3 + p4)
      BY <2>2, <2>3
    <2>8. Time!Units(l) + Time!Units(l) = (now + ahead) + (now + ahead) + (there - back + lost + k)
                                          + (p5 + p6 + (p1 + p2 + p3 + p4) + (p1 + p2 + p3 + p4))
      <3>1. /\ now \in Int /\ ahead \in Int /\ there \in Int /\ back - lost \in Int
            /\ gone1 \in Int /\ gone2 \in Int
        OBVIOUS
      <3>2. PICK x \in Int, y \in Int, v \in Int, t \in Int, f \in Int :
              /\ x = Time!Units(a) /\ y = Time!Units(b) /\ v = Time!Units(sum)
              /\ t = Time!Units(l) /\ f = Time!Units(ref)
        <4>1. Time!Units(a) \in Int /\ Time!Units(b) \in Int
          BY <1>25, <1>26
        <4> HIDE DEF a, b, sum, l
        <4> QED BY <1>25, <4>1
      <3>3. PICK w \in Int, g \in Int, go \in Int, come \in Int, l1 \in Int, l2 \in Int :
              w = now /\ g = ahead /\ go = there /\ come = back - lost /\ l1 = gone1 /\ l2 = gone2
        BY <3>1
      <3>4. t + t = w + w + p3 + p3 + (v + v) + f + f + z2 + z2 + p2 + p2 + z3 + z3 + p4 + p4
        BY <1>27, <2>4, <3>2, <3>3
      <3>5. v + v = x - losta + wona + y - lostb + wonb + z1 + z1 + p1 + p1
        BY <2>5, <3>2
      <3>6. /\ x = go + g + l1 - f - xo + ya + p5
            /\ y = g - come + l2 - f - xd + yb + p6
        BY <2>6, <3>2, <3>3
      <3>7. k = 2 * (z1 + z2 + z3) + wona + wonb + ya + yb - xo - xd + l1 + l2 - losta - lostb
        BY <1>24, <3>3
      <3>8. t + t = (w + g) + (w + g) + (go - come + k)
                    + (p5 + p6 + (p1 + p2 + p3 + p4) + (p1 + p2 + p3 + p4))
        BY <1>27, <3>4, <3>5, <3>6, <3>7
      <3> QED BY <3>2, <3>3, <3>8
    <2> QED BY <2>1, <2>7, <2>8
  \* the half of what millis() lost
  <1>w. PICK h \in Nat, odd \in 0 .. 1 : h = lost \div 2 /\ lost = h + h + odd
    <2>1. lost \div 2 \in Nat /\ lost - (lost \div 2) - (lost \div 2) \in 0 .. 1
      OBVIOUS
    <2>2. lost = (lost \div 2) + (lost \div 2) + (lost - (lost \div 2) - (lost \div 2))
      BY <2>1
    <2> QED BY <2>1, <2>2
  <1>32. PICK away \in Nat : away = there + back
    OBVIOUS
  <1>33. PICK near \in Nat : /\ near = Near(away) /\ near < e
                              /\ -near - near - 1 <= there - back + k - odd
                              /\ there - back + k - odd <= near + near + 1
    <2>1. away \div 2 \in Nat /\ away <= (away \div 2) + (away \div 2) + 1
          /\ (away \div 2) + (away \div 2) <= away
      OBVIOUS
    <2>2. PICK path \in Nat : path = away \div 2
      BY <2>1
    <2>3. PICK near \in Nat : near = path + 4 * Second + half
      BY <1>1
    <2>4. near = Near(away)
      BY <1>1, <2>2, <2>3 DEF Near
    <2>5. near + near <= away + 9 * Second /\ away + 9 * Second <= near + near + 1
      BY <1>1, <2>1, <2>2, <2>3
    <2>6. -near - near - 1 <= there - back + k - odd /\ there - back + k - odd <= near + near + 1
      BY <1>1, <1>24, <1>32, <1>w, <2>5
    <2>7. near < e
      BY <1>1, <1>2, <1>32, <2>1, <2>2, <2>3
    <2> QED BY <2>3, <2>4, <2>6, <2>7
  <1>34. PICK c \in Int : c = i + j + m + m
    OBVIOUS
  <1>35. /\ \A n \in Int : c = n + n => Time!Apart(Time!Units(l), now + (ahead + lost - (lost \div 2))) <= near
         /\ \/ Time!Apart(Time!Units(l), now + (ahead + lost - (lost \div 2))) <= near
            \/ Time!Apart(Time!Units(l), now + (ahead + lost - (lost \div 2))) >= e - near
    <2>1. PICK x \in Int, y \in Int, z \in Int :
            /\ x = Time!Units(l) /\ y = now + (ahead + lost - (lost \div 2))
            /\ z = there - back + k - odd
      BY <1>25, <1>w
    <2>2. x + x = y + y + z + c * Time!Era
      <3>1. PICK g \in Int : g = c * Time!Era /\ g = (i + j + m + m) * era
        BY EraIs, <1>26, <1>34
      <3>2. PICK w \in Int, p \in Int, q \in Int, v \in Int, f \in Int :
              w = now /\ p = ahead /\ q = there /\ v = back /\ f = lost
        OBVIOUS
      <3>3. x + x = (w + p) + (w + p) + (q - v + f + k) + g
        <4> HIDE DEF l
        <4> QED BY <1>31, <2>1, <3>1, <3>2
      <3>4. y = w + p + f - h /\ z = q - v + k - odd /\ f = h + h + odd
        BY <1>w, <2>1, <3>2
      <3>5. x + x = y + y + z + g
        BY <1>24, <1>w, <3>3, <3>4
      <3> QED BY <3>1, <3>5
    <2>3. -near - near - 1 <= z /\ z <= near + near + 1
      BY <1>33, <2>1
    <2>4. /\ \A n \in Int : c = n + n => Time!Apart(x, y) <= near
          /\ Time!Apart(x, y) <= near \/ Time!Apart(x, y) >= e - near
      BY <1>2, <1>33, <2>2, <2>3, ApartIs
    <2> QED BY <2>1, <2>4
  \* with equal signs the two differences lost the same number of eras
  <1>36. ASSUME Time!Negative(a) <=> Time!Negative(b)
         PROVE  i = j
    <2>1. \A t \in Stamps : Time!Negative(t) <=> Time!Units(t) >= e
      BY NegativeIs, <1>2
    <2>2. Time!Units(a) >= e <=> Time!Units(b) >= e
      BY <1>12, <1>36, <2>1
    <2>3. PICK x \in 0 .. era - 1, y \in 0 .. era - 1 : x = Time!Units(a) /\ y = Time!Units(b)
      BY <1>25, <1>26
    <2>4. x - y < e /\ y - x < e
      BY <1>26, <2>2, <2>3
    <2>5. PICK p \in Int, q \in Int : p = i * era /\ q = j * era
      OBVIOUS
    <2>6. x - y = there + back - lost + (gone1 - gone2 - xo + xd + ya - yb) + (p - q)
      BY <1>25, <1>27, <1>29, <1>30, <2>3, <2>5
    <2>7. -era < p - q /\ p - q < era
      BY <1>1, <1>2, <1>26, <1>27, <1>28, <2>4, <2>6
    <2>8. i - j \in Int /\ (i - j) * era = p - q
      BY <2>5
    <2>9. i - j = 0
      BY <2>7, <2>8, OneMultiple
    <2> QED BY <2>9
  <1>37. ASSUME i = j
         PROVE  Time!Apart(Time!Units(l), now + (ahead + lost - (lost \div 2))) <= near
    <2>1. i + m \in Int /\ c = (i + m) + (i + m)
      BY <1>34, <1>37
    <2> QED BY <1>35, <2>1
  <1>38. Near(there + back) = near /\ e - near = (Time!Era \div 2) - Near(there + back)
    BY <1>2, <1>32, <1>33
  <1> QED BY <1>20, <1>35, <1>36, <1>37, <1>38 DEF RightWithin

-------------------------------------------------------------------------------
\* The calendar of the counter.  A year that begins on day `YearStart` ends 365 or 366
\* days later; the number of quarters of days tells the year and the day of it.
LEMMA YearsAre ==
  ASSUME NEW y \in Nat, y > 1900
  PROVE  /\ Time!YearStart(y) \in Int
         /\ Time!YearStart(y + 1) = Time!YearStart(y) + (IF y % 4 = 0 THEN 366 ELSE 365)
  <1>1. y \in Int /\ (y - 1901) \div 4 \in Int
        /\ ((y + 1) - 1901) \div 4 = ((y - 1901) \div 4) + (IF y % 4 = 0 THEN 1 ELSE 0)
    OBVIOUS
  <1> QED BY <1>1 DEF Time!YearStart

\* Later years start later.
LEMMA YearsInOrder ==
  ASSUME NEW y \in Nat, NEW z \in Nat, 1900 < y, y < z
  PROVE  Time!YearStart(y + 1) <= Time!YearStart(z)
  <1>1. ((y + 1) - 1901) \div 4 <= (z - 1901) \div 4
    OBVIOUS
  <1> QED BY <1>1 DEF Time!YearStart

\* A day lies in one year, the one that ExtractNTPTime counts up to.
LEMMA YearOfDay ==
  ASSUME NEW n \in Nat, 24855 <= n, n <= 73107
  PROVE  \E y \in Nat, yday \in Nat :
           /\ y = (((n + 1) * 256) \div Time!FIX_PT_DAYS_YEAR) + 1900
           /\ yday = (((n + 1) * 256) % Time!FIX_PT_DAYS_YEAR) \div 256
           /\ 1968 <= y /\ y <= 2100
           /\ Time!YearStart(y) <= n /\ n < Time!YearStart(y + 1)
           /\ yday = n - Time!YearStart(y) /\ yday < IF y % 4 = 0 THEN 366 ELSE 365
  <1>1. Time!FIX_PT_DAYS_YEAR = 93504
    BY DEF Time!FIX_PT_DAYS_YEAR
  <1>2. PICK k \in Nat, q \in Int, rest \in Int :
          /\ k = (n + 1) * 256 /\ q = k \div 93504 /\ rest = k % 93504
          /\ k = 93504 * q + rest /\ 0 <= rest /\ rest < 93504
    OBVIOUS
  <1>3. PICK y \in Nat : y = q + 1900 /\ 1968 <= y /\ y <= 2100
    BY <1>2
  <1>4. PICK h \in Int, j \in 0 .. 3 : h = (q - 1) \div 4 /\ q = 4 * h + 1 + j
    <2>1. (q - 1) \div 4 \in Int /\ (q - 1) % 4 \in 0 .. 3
          /\ q = 4 * ((q - 1) \div 4) + 1 + ((q - 1) % 4)
      OBVIOUS
    <2> QED BY <2>1
  <1>5. Time!YearStart(y) = 365 * q + h
    BY <1>3, <1>4 DEF Time!YearStart
  <1>6. PICK yday \in Int : yday = rest \div 256 /\ 256 * yday <= rest /\ rest <= 256 * yday + 255
    OBVIOUS
  <1>7. yday = n - (365 * q + h) /\ rest = 256 * yday + 192 - 64 * j
    <2>1. rest = 256 * (n - 365 * q - h) + 192 - 64 * j
      BY <1>2, <1>4
    <2>2. yday = n - 365 * q - h
      BY <1>6, <2>1
    <2> QED BY <2>1, <2>2
  <1>8. 0 <= yday /\ yday < IF y % 4 = 0 THEN 366 ELSE 365
    <2>1. y % 4 = 0 <=> j = 3
      BY <1>3, <1>4
    <2>2. 0 <= yday /\ yday < IF j = 3 THEN 366 ELSE 365
      BY <1>2, <1>7
    <2> QED BY <2>1, <2>2
  <1>9. Time!YearStart(y + 1) = Time!YearStart(y) + (IF y % 4 = 0 THEN 366 ELSE 365)
    BY <1>3, YearsAre
  <1>10. Time!YearStart(y) <= n /\ n < Time!YearStart(y + 1)
    <2>1. 365 * q + h \in Int
      OBVIOUS
    <2> QED BY <1>5, <1>7, <1>8, <1>9, <2>1
  <1>11. /\ (((n + 1) * 256) \div Time!FIX_PT_DAYS_YEAR) + 1900 = y
         /\ (((n + 1) * 256) % Time!FIX_PT_DAYS_YEAR) \div 256 = yday
    BY <1>1, <1>2, <1>3, <1>6
  <1>12. yday \in Nat
    BY <1>8
  <1> QED BY <1>3, <1>5, <1>7, <1>8, <1>10, <1>11, <1>12

\* The days of a year up to the end of a month.
LEMMA ThroughIs ==
  ASSUME NEW leap \in BOOLEAN, NEW m \in 0 .. 11
  PROVE  /\ Time!DaysThrough(leap, m) \in Nat
         /\ Time!monthDays(leap)[m + 1] \in Nat
         /\ Time!DaysThrough(leap, m + 1) = Time!DaysThrough(leap, m) + Time!monthDays(leap)[m + 1]
         /\ m >= 2 => Time!DaysThrough(leap, m) >= 59
  <1>1. PICK f \in 28 .. 29 : f = IF leap THEN 29 ELSE 28
    OBVIOUS
  <1>2. Time!monthDays(leap)[2] = f
    BY <1>1 DEF Time!monthDays
  <1>3. CASE m \in {0, 1, 2}
    BY <1>1, <1>2, <1>3 DEF Time!DaysThrough, Time!monthDays
  <1>4. CASE m \in {3, 4, 5}
    BY <1>1, <1>2, <1>4 DEF Time!DaysThrough, Time!monthDays
  <1>5. CASE m \in {6, 7, 8}
    BY <1>1, <1>2, <1>5 DEF Time!DaysThrough, Time!monthDays
  <1>6. CASE m \in {9, 10, 11}
    BY <1>1, <1>2, <1>6 DEF Time!DaysThrough, Time!monthDays
  <1> QED BY <1>3, <1>4, <1>5, <1>6

\* Every day of a year is in one of its months.
LEMMA MonthOfDay ==
  ASSUME NEW leap \in BOOLEAN, NEW d \in Nat, d < IF leap THEN 366 ELSE 365
  PROVE  \E m \in 0 .. 11 : Time!DaysThrough(leap, m) <= d /\ d < Time!DaysThrough(leap, m + 1)
  <1>1. PICK f \in 28 .. 29 : f = IF leap THEN 29 ELSE 28
    OBVIOUS
  <1>2. Time!monthDays(leap)[2] = f
    BY <1>1 DEF Time!monthDays
  <1>3. /\ Time!DaysThrough(leap, 0) = 0 /\ Time!DaysThrough(leap, 1) = 31
        /\ Time!DaysThrough(leap, 2) = 31 + f /\ Time!DaysThrough(leap, 3) = 62 + f
        /\ Time!DaysThrough(leap, 4) = 92 + f /\ Time!DaysThrough(leap, 5) = 123 + f
        /\ Time!DaysThrough(leap, 6) = 153 + f /\ Time!DaysThrough(leap, 7) = 184 + f
        /\ Time!DaysThrough(leap, 8) = 215 + f /\ Time!DaysThrough(leap, 9) = 245 + f
        /\ Time!DaysThrough(leap, 10) = 276 + f /\ Time!DaysThrough(leap, 11) = 306 + f
        /\ Time!DaysThrough(leap, 12) = 337 + f
    BY <1>2 DEF Time!DaysThrough
  <1>4. d < 337 + f
    BY <1>1
  <1>5. CASE d < 92 + f
    BY <1>3, <1>5
  <1>6. CASE 92 + f <= d /\ d < 215 + f
    BY <1>3, <1>6
  <1>7. CASE 215 + f <= d
    BY <1>3, <1>4, <1>7
  <1> QED BY <1>5, <1>6, <1>7

\* The day of the month is one that the month has; 2100 is taken for a leap year, but
\* the months that end before its missing day are those of every year.
LEMMA MonthIs ==
  ASSUME NEW leap \in BOOLEAN, NEW truly \in BOOLEAN, NEW d \in Nat, NEW m \in 0 .. 11,
         truly # leap => leap /\ ~truly /\ d <= 58,
         Time!DaysThrough(leap, m) <= d, d < Time!DaysThrough(leap, m + 1)
  PROVE  /\ d - Time!DaysThrough(leap, m) + 1 \in Nat
         /\ Time!DaysThrough(truly, m) + (d - Time!DaysThrough(leap, m) + 1) - 1 = d
         /\ d - Time!DaysThrough(leap, m) + 1 \in 1 .. Time!monthDays(truly)[m + 1]
  <1>1. /\ Time!DaysThrough(leap, m) \in Nat /\ Time!monthDays(leap)[m + 1] \in Nat
        /\ Time!DaysThrough(leap, m + 1) = Time!DaysThrough(leap, m) + Time!monthDays(leap)[m + 1]
        /\ m >= 2 => Time!DaysThrough(leap, m) >= 59
    BY ThroughIs
  <1>2. CASE truly = leap
    BY <1>1, <1>2
  <1>3. CASE truly # leap
    <2>1. d <= 58 /\ ~truly
      BY <1>3
    <2>2. m = 0 \/ m = 1
      <3>1. PICK a \in Nat : a = Time!DaysThrough(leap, m)
        BY <1>1
      <3>2. ~(m >= 2)
        BY <1>1, <2>1, <3>1
      <3> QED BY <3>2
    <2>3. /\ Time!DaysThrough(leap, 0) = 0 /\ Time!DaysThrough(leap, 1) = 31
          /\ Time!DaysThrough(truly, 0) = 0 /\ Time!DaysThrough(truly, 1) = 31
      BY DEF Time!DaysThrough
    <2>4. Time!monthDays(truly)[1] = 31 /\ Time!monthDays(truly)[2] = 28
      BY <2>1 DEF Time!monthDays
    <2>5. CASE m = 0
      <3>1. /\ Time!DaysThrough(leap, m) = 0 /\ Time!DaysThrough(truly, m) = 0
            /\ Time!DaysThrough(leap, m + 1) = 31 /\ Time!monthDays(truly)[m + 1] = 31
        <4>1. m + 1 = 1
          BY <2>5
        <4> QED BY <2>3, <2>4, <2>5, <4>1, Zenon
      <3> QED BY <3>1
    <2>6. CASE m = 1
      <3>1. /\ Time!DaysThrough(leap, m) = 31 /\ Time!DaysThrough(truly, m) = 31
            /\ Time!monthDays(truly)[m + 1] = 28
        <4>1. m + 1 = 2
          BY <2>6
        <4> QED BY <2>3, <2>4, <2>6, <4>1, Zenon
      <3> QED BY <2>1, <3>1
    <2> QED BY <2>2, <2>5, <2>6
  <1> QED BY <1>2, <1>3

\* The date of a time stamp is the one of its day, up to February 2100.
LEMMA DateIs ==
  ASSUME NEW day \in Nat, day <= 49710, NEW clock \in Nat, clock < Time!SECS_DAY,
         NEW time, time = Time!ExtractNTPTime(day, clock)
  PROVE  Time!Dated(day, clock, time)
  <1> DEFINE n    == Time!Dayno(day, clock)
             y    == ((n + 1) * 256) \div Time!FIX_PT_DAYS_YEAR + 1900
             yday == (((n + 1) * 256) % Time!FIX_PT_DAYS_YEAR) \div 256
             leap == y % 4 = 0 /\ y # 1900
             In(m) == Time!DaysThrough(leap, m) <= yday /\ yday < Time!DaysThrough(leap, m + 1)
             mon  == CHOOSE m \in 0 .. 11 : In(m)
  <1>1. Time!ExtractNTPTime(day, clock)
          = [year |-> y, mon |-> mon, mday |-> yday - Time!DaysThrough(leap, mon) + 1,
             yday |-> yday, wday |-> (n + 1) % 7]
    BY DEF Time!ExtractNTPTime
  <1>2. n \in Nat /\ 24855 <= n
    <2>1. Time!SECS_DAY = 86400
      BY DEF Time!SECS_DAY
    <2>2. PICK w \in Nat : w = (clock + 23296) \div 86400
      OBVIOUS
    <2>3. n = IF Time!Overflowed(day, clock) THEN day + 49710 + w ELSE day
      BY <2>1, <2>2 DEF Time!Dayno
    <2>4. ~Time!Overflowed(day, clock) => 24855 <= day
      BY DEF Time!Overflowed
    <2> HIDE DEF n
    <2> QED BY <2>3, <2>4
  <1>3. SUFFICES ASSUME n <= 73107
                 PROVE  Time!Dated(day, clock, time)
    <2>1. Time!YearStart(2100) = 73049
      BY DEF Time!YearStart
    <2> HIDE DEF n
    <2>2. n > 73107 => n > Time!YearStart(2100) + 58
      BY <1>2, <2>1
    <2> USE DEF n
    <2> QED BY <1>2, <2>2 DEF Time!Dated
  <1>4. /\ y \in Nat /\ yday \in Nat /\ 1968 <= y /\ y <= 2100
        /\ Time!YearStart(y) <= n /\ n < Time!YearStart(y + 1)
        /\ yday = n - Time!YearStart(y) /\ yday < IF y % 4 = 0 THEN 366 ELSE 365
    <2> HIDE DEF n
    <2> QED BY <1>2, <1>3, YearOfDay
  <1> HIDE DEF yday, y
  <1>5. leap \in BOOLEAN /\ (leap <=> y % 4 = 0)
    BY <1>4
  <1> HIDE DEF leap
  <1>6. /\ mon \in 0 .. 11
        /\ Time!DaysThrough(leap, mon) <= yday /\ yday < Time!DaysThrough(leap, mon + 1)
    <2>1. yday \in Nat /\ yday < IF leap THEN 366 ELSE 365
      BY <1>4, <1>5
    <2>2. \E m \in 0 .. 11 : In(m)
      BY <1>5, <2>1, MonthOfDay
    <2>3. mon \in 0 .. 11 /\ In(mon)
      <3> HIDE DEF In
      <3> QED BY <2>2
    <2> QED BY <2>3
  <1> HIDE DEF mon, n
  <1> DEFINE k == CHOOSE z \in 1968 .. 2104 : Time!YearStart(z) <= n /\ n < Time!YearStart(z + 1)
  <1>7. k = y
    <2>1. y \in 1968 .. 2104
      BY <1>4
    <2>2. ASSUME NEW z \in 1968 .. 2104, Time!YearStart(z) <= n, n < Time!YearStart(z + 1)
          PROVE  z = y
      <3>1. z \in Nat /\ 1900 < z
        OBVIOUS
      <3>2. /\ Time!YearStart(z) \in Int /\ Time!YearStart(z + 1) \in Int
            /\ Time!YearStart(y) \in Int /\ Time!YearStart(y + 1) \in Int
        BY <1>4, <3>1 DEF Time!YearStart
      <3>3. ~(z < y)
        <4>1. z < y => Time!YearStart(z + 1) <= Time!YearStart(y)
          BY <1>4, <3>1, YearsInOrder
        <4> QED BY <1>2, <1>4, <2>2, <3>2, <4>1
      <3>4. ~(y < z)
        <4>1. y < z => Time!YearStart(y + 1) <= Time!YearStart(z)
          BY <1>4, <3>1, YearsInOrder
        <4> QED BY <1>2, <1>4, <2>2, <3>2, <4>1
      <3> QED BY <1>4, <3>1, <3>3, <3>4
    <2> QED BY <1>4, <2>1, <2>2
  <1> HIDE DEF k
  <1> DEFINE truly == k % 4 = 0 /\ k # 2100
             mday  == yday - Time!DaysThrough(leap, mon) + 1
  <1>8. truly \in BOOLEAN /\ (truly # leap => leap /\ ~truly /\ yday <= 58)
    <2>1. Time!YearStart(2100) = 73049
      BY DEF Time!YearStart
    <2>2. y = 2100 => yday <= 58
      BY <1>2, <1>3, <1>4, <2>1
    <2> QED BY <1>5, <1>7, <2>2
  <1> HIDE DEF truly
  <1>9. /\ Time!DaysThrough(truly, mon) + mday - 1 = yday
         /\ mday \in 1 .. Time!monthDays(truly)[mon + 1]
    BY <1>4, <1>5, <1>6, <1>8, MonthIs
  <1> HIDE DEF mday
  <1>10. /\ time.year = y /\ time.yday = yday
         /\ time.mon = mon /\ time.mday = mday
    BY <1>1 DEF mday
  <1>11. \/ n > Time!YearStart(2100) + 58
         \/ /\ time.year = k /\ time.yday = n - Time!YearStart(k)
            /\ Time!DaysThrough(truly, time.mon) + time.mday - 1 = n - Time!YearStart(k)
            /\ time.mday \in 1 .. Time!monthDays(truly)[time.mon + 1]
    BY <1>4, <1>7, <1>9, <1>10
  <1> QED BY <1>11 DEF Time!Dated, n, k, truly

-------------------------------------------------------------------------------
\* The invariant.  While a request is out, and while the reply to an earlier one of the
\* same update may come, the reference is the one that the request was sent by; and
\* the device does not run longer than its updates and its tries wait.
TimeTypes ==
  /\ reference \in Stamps /\ up \in Nat /\ base \in Int
  /\ pool \in {NONE, "user", "local", "global"}
  /\ updates \in 0 .. MaxUpdates /\ tries \in 0 .. MaxTries

\* An update is under way; and the longest that the device may still wait.
Busy == at \in {"bind", "look", "send", "recv"}
Left == (MaxTries - tries) + (MaxUpdates - updates) + (IF Busy THEN 1 ELSE 0)
Longest     == Time!Era \div 2 - 5 * Second - 1
UpIsBounded == up + Left * Timeout <= Longest

\* The request holds the time at which it was sent.
SentBy(ends) == sent = [o |-> Time!NTPGetTime(up, ends), up |-> up]
SentNow == at = "recv" => \E ends \in BOOLEAN : SentBy(ends)

\* The reply that comes late is one to a request that was sent by the same reference.
LateBy(u, there, ends) ==
  /\ u + there <= up
  /\ late = [o |-> Time!NTPGetTime(u, ends), up |-> u,
             r |-> Time!Stamp(u + there + base)]
LateReply ==
  Busy /\ late # NONE => \E u \in Nat, there \in Nat, ends \in BOOLEAN : LateBy(u, there, ends)

TimeInv == TimeTypes /\ UpIsBounded /\ SentNow /\ LateReply /\ Time!SyncTells /\ Time!DateTells

\* The initial states.
LEMMA TimeStarts ==
  ASSUME Time!Init
  PROVE  TimeInv
  <1>1. reference = Time!Stamp(Time!Era \div 2) /\ Time!Era \div 2 \in Int
    BY EraIs DEF Time!Init
  <1>2. TimeTypes
    BY <1>1, StampOf, DelaysAssumption DEF Time!Init, TimeTypes
  <1>3. UpIsBounded
    <2>1. Left = MaxTries + MaxUpdates /\ up \in Ages
      BY DelaysAssumption DEF Time!Init, Left, Busy
    <2>2. PICK k \in Int : k = (MaxTries + MaxUpdates) * Timeout
      BY DelaysAssumption
    <2>3. up + k + 5 * Second < Time!Era \div 2 /\ up \in Nat
      BY <2>1, <2>2, DelaysAssumption
    <2>4. PICK e \in Nat : e = Time!Era \div 2
      BY EraIs
    <2>5. Longest = e - 5 * Second - 1 /\ Second \in Nat
      BY <2>4, WordsAssumption DEF Longest
    <2> QED BY <2>1, <2>2, <2>3, <2>4, <2>5 DEF UpIsBounded
  <1> QED BY <1>2, <1>3 DEF Time!Init, TimeInv, SentNow, LateReply, Busy, Time!SyncTells, Time!DateTells

\* The steps of the other parts.
LEMMA TimeStays ==
  ASSUME TimeInv, UNCHANGED timeVars
  PROVE  TimeInv'
  <1>1. /\ reference' = reference /\ up' = up /\ base' = base /\ at' = at /\ pool' = pool
        /\ sent' = sent /\ late' = late /\ exchange' = exchange /\ date' = date
        /\ updates' = updates /\ tries' = tries
    BY DEF timeVars
  <1>2. TimeTypes' /\ UpIsBounded'
    BY <1>1 DEF TimeInv, TimeTypes, UpIsBounded, Left, Busy
  <1>3. SentNow'
    BY <1>1 DEF TimeInv, SentNow, SentBy, Time!NTPGetTime
  <1>4. LateReply'
    BY <1>1 DEF TimeInv, LateReply, LateBy, Busy, Time!NTPGetTime
  <1>5. Time!SyncTells' /\ Time!DateTells'
    BY <1>1 DEF TimeInv, Time!SyncTells, Time!DateTells
  <1> QED BY <1>2, <1>3, <1>4, <1>5 DEF TimeInv

\* A longer wait costs more.
LEMMA LongerWaits ==
  ASSUME NEW t \in Nat, NEW m \in Int, NEW n \in Int, m <= n, NEW a \in Int, NEW b \in Int,
         a + n * t <= b
  PROVE  a + m * t <= b
  <1>1. PICK d \in Nat : d = n - m
    OBVIOUS
  <1>2. n * t = m * t + d * t /\ d * t \in Nat /\ m * t \in Int
    <2>1. n = m + d
      BY <1>1
    <2>2. (m + d) * t = m * t + d * t /\ d * t >= 0 /\ d * t \in Int
      OBVIOUS
    <2> QED BY <2>1, <2>2
  <1> QED BY <1>2

\* A step by which the device does not run on: the bound stays if no more is left.
LEMMA BoundStays ==
  ASSUME TimeTypes, UpIsBounded, up' = up, tries' \in 0 .. MaxTries, updates' \in 0 .. MaxUpdates,
         Left' <= Left
  PROVE  UpIsBounded'
  <1>1. Timeout \in Nat /\ MaxTries \in Nat /\ MaxUpdates \in Nat
    BY DelaysAssumption
  <1>2. PICK n \in Int, m \in Int : n = Left /\ m = Left' /\ m <= n
    <2>1. Left \in Int /\ Left' \in Int
      BY <1>1 DEF TimeTypes, Left
    <2> QED BY <2>1
  <1>3. PICK k \in Int : k = Longest
    BY EraIs, WordsAssumption DEF Longest
  <1>4. up + n * Timeout <= k /\ up \in Int
    <2>1. up + Left * Timeout <= Longest /\ up \in Int
      BY DEF UpIsBounded, TimeTypes
    <2> QED BY <1>2, <1>3, <2>1
  <1>5. up + m * Timeout <= k
    BY <1>1, <1>2, <1>4, LongerWaits
  <1> QED BY <1>2, <1>3, <1>5 DEF UpIsBounded

\* A step that begins or goes on with an update without the time passing.
LEMMA StepsOn ==
  ASSUME TimeInv, UNCHANGED <<reference, up, base, exchange, date>>,
         tries' \in 0 .. MaxTries, updates' \in 0 .. MaxUpdates, Left' <= Left,
         pool' \in {NONE, "user", "local", "global"},
         SentNow', late' = NONE \/ (Busy /\ late' = late)
  PROVE  TimeInv'
  <1>1. TimeTypes' /\ UpIsBounded'
    BY BoundStays DEF TimeInv, TimeTypes
  <1>2. LateReply'
    <2>1. CASE late' = NONE
      BY <2>1 DEF LateReply
    <2>2. CASE Busy /\ late' = late
      BY <2>2 DEF TimeInv, LateReply, LateBy, Time!NTPGetTime
    <2> QED BY <2>1, <2>2
  <1>3. Time!SyncTells' /\ Time!DateTells'
    BY DEF TimeInv, Time!SyncTells, Time!DateTells
  <1> QED BY <1>1, <1>2, <1>3 DEF TimeInv

\* updateNTPTime() begins.
LEMMA UpdateBegins ==
  ASSUME TimeInv, NEW ok \in BOOLEAN, Time!UpdateNTPTime(ok)
  PROVE  TimeInv'
  <1>1. /\ reference' = reference /\ up' = up /\ base' = base /\ pool' = pool /\ date' = date
        /\ tries' = tries /\ updates' = updates + 1 /\ updates < MaxUpdates /\ at = "idle"
        /\ at' \in {"bind", "idle"} /\ exchange' = NONE /\ late' = NONE
    BY DEF Time!UpdateNTPTime
  <1>2. MaxTries \in Nat /\ MaxUpdates \in Nat
    BY DelaysAssumption
  <1>3. tries' \in 0 .. MaxTries /\ updates' \in 0 .. MaxUpdates /\ Left' <= Left
    BY <1>1, <1>2 DEF TimeInv, TimeTypes, Left, Busy
  <1>4. TimeTypes' /\ UpIsBounded'
    BY <1>1, <1>3, BoundStays DEF TimeInv, TimeTypes
  <1>5. SentNow' /\ LateReply' /\ Time!SyncTells' /\ Time!DateTells'
    BY <1>1 DEF TimeInv, SentNow, LateReply, Time!SyncTells, Time!DateTells
  <1> QED BY <1>4, <1>5 DEF TimeInv

\* bind().
LEMMA PortBound ==
  ASSUME TimeInv, NEW ok \in BOOLEAN, Time!Bind(ok)
  PROVE  TimeInv'
  <1>1. /\ reference' = reference /\ up' = up /\ base' = base /\ exchange' = exchange
        /\ date' = date /\ tries' = tries /\ updates' = updates /\ late' = late
        /\ at = "bind" /\ at' \in {"bind", "look"} /\ pool' \in {pool, "user"}
    BY DEF Time!Bind
  <1>2. tries' \in 0 .. MaxTries /\ updates' \in 0 .. MaxUpdates /\ Left' <= Left
    BY <1>1, DelaysAssumption DEF TimeInv, TimeTypes, Left, Busy
  <1>3. pool' \in {NONE, "user", "local", "global"} /\ SentNow' /\ Busy
    BY <1>1 DEF TimeInv, TimeTypes, SentNow, Busy
  <1> QED BY <1>1, <1>2, <1>3, StepsOn

\* A try that failed: the next pool, or the end.
LEMMA FailedOnce ==
  ASSUME TimeTypes, Busy, Time!Failed
  PROVE  /\ tries' \in 0 .. MaxTries /\ tries' = tries + 1 /\ at' = "look"
         /\ pool' \in {NONE, "user", "local", "global"}
  <1>1. MaxTries \in Nat
    BY DelaysAssumption
  <1> QED BY <1>1 DEF TimeTypes, Time!Failed, Time!NextPool

\* gethostbyname().
LEMMA ServersFound ==
  ASSUME TimeInv, NEW ok \in BOOLEAN, Time!GetNTPServerList(ok)
  PROVE  TimeInv'
  <1>1. /\ reference' = reference /\ up' = up /\ base' = base /\ exchange' = exchange
        /\ date' = date /\ updates' = updates /\ late' = late /\ at = "look"
    BY DEF Time!GetNTPServerList
  <1>2. Busy
    BY <1>1 DEF Busy
  <1>3. CASE ok
    <2>1. at' = "send" /\ tries' = tries /\ pool' = pool
      BY <1>3 DEF Time!GetNTPServerList
    <2>2. tries' \in 0 .. MaxTries /\ updates' \in 0 .. MaxUpdates /\ Left' <= Left
      BY <1>1, <2>1, DelaysAssumption DEF TimeInv, TimeTypes, Left, Busy
    <2>3. pool' \in {NONE, "user", "local", "global"} /\ SentNow'
      BY <2>1 DEF TimeInv, TimeTypes, SentNow
    <2> QED BY <1>1, <1>2, <2>2, <2>3, StepsOn
  <1>4. CASE ~ok
    <2>1. tries' \in 0 .. MaxTries /\ tries' = tries + 1 /\ at' = "look"
          /\ pool' \in {NONE, "user", "local", "global"}
      BY <1>2, <1>4, FailedOnce DEF Time!GetNTPServerList, TimeInv
    <2>2. updates' \in 0 .. MaxUpdates /\ Left' <= Left
      BY <1>1, <2>1, DelaysAssumption DEF TimeInv, TimeTypes, Left, Busy
    <2>3. SentNow'
      BY <2>1 DEF SentNow
    <2> QED BY <1>1, <1>2, <2>1, <2>2, <2>3, StepsOn
  <1> QED BY <1>3, <1>4

\* sendto().
LEMMA RequestSent ==
  ASSUME TimeInv, NEW ok \in BOOLEAN, NEW ends \in BOOLEAN, Time!Send(ok, ends)
  PROVE  TimeInv'
  <1>1. /\ reference' = reference /\ up' = up /\ base' = base /\ exchange' = exchange
        /\ date' = date /\ updates' = updates /\ late' = late /\ at = "send"
    BY DEF Time!Send
  <1>2. Busy
    BY <1>1 DEF Busy
  <1>3. CASE ok
    <2>1. /\ at' = "recv" /\ tries' = tries /\ pool' = pool
          /\ sent' = [o |-> Time!NTPGetTime(up, ends), up |-> up]
      BY <1>3 DEF Time!Send
    <2>2. tries' \in 0 .. MaxTries /\ updates' \in 0 .. MaxUpdates /\ Left' <= Left
      BY <1>1, <2>1, DelaysAssumption DEF TimeInv, TimeTypes, Left, Busy
    <2>3. Time!NTPGetTime(up, ends)' = Time!NTPGetTime(up, ends)
      BY <1>1 DEF Time!NTPGetTime
    <2>4. SentBy(ends)'
      BY <1>1, <2>1, <2>3 DEF SentBy
    <2>5. pool' \in {NONE, "user", "local", "global"} /\ SentNow'
      BY <2>1, <2>4 DEF TimeInv, TimeTypes, SentNow
    <2> QED BY <1>1, <1>2, <2>2, <2>5, StepsOn
  <1>4. CASE ~ok
    <2>1. tries' \in 0 .. MaxTries /\ tries' = tries + 1 /\ at' = "look"
          /\ pool' \in {NONE, "user", "local", "global"}
      BY <1>2, <1>4, FailedOnce DEF Time!Send, TimeInv
    <2>2. updates' \in 0 .. MaxUpdates /\ Left' <= Left
      BY <1>1, <2>1, DelaysAssumption DEF TimeInv, TimeTypes, Left, Busy
    <2>3. SentNow'
      BY <2>1 DEF SentNow
    <2> QED BY <1>1, <1>2, <2>1, <2>2, <2>3, StepsOn
  <1> QED BY <1>3, <1>4

\* When the device has waited, by no more than Timeout, less is left.
LEMMA BoundMoves ==
  ASSUME TimeTypes, UpIsBounded, NEW wait \in Nat, wait <= Timeout, up' = up + wait,
         tries' \in 0 .. MaxTries, updates' \in 0 .. MaxUpdates, Left' <= Left - 1
  PROVE  UpIsBounded'
  <1>1. Timeout \in Nat /\ MaxTries \in Nat /\ MaxUpdates \in Nat
    BY DelaysAssumption
  <1>2. PICK n \in Int, m \in Int : n = Left /\ m = Left' /\ m <= n - 1
    <2>1. Left \in Int /\ Left' \in Int
      BY <1>1 DEF TimeTypes, Left
    <2> QED BY <2>1
  <1>3. PICK k \in Int : k = Longest
    BY EraIs, WordsAssumption DEF Longest
  <1>4. up + n * Timeout <= k /\ up \in Int
    <2>1. up + Left * Timeout <= Longest /\ up \in Int
      BY DEF UpIsBounded, TimeTypes
    <2> QED BY <1>2, <1>3, <2>1
  <1>5. (n - 1) * Timeout = n * Timeout - Timeout /\ n * Timeout \in Int
    BY <1>1
  <1>6. PICK p \in Int : p = n * Timeout
    BY <1>5
  <1>7. (up + wait) + (n - 1) * Timeout <= k
    <2>1. (n - 1) * Timeout = p - Timeout
      BY <1>5, <1>6
    <2>2. up + p <= k
      BY <1>4, <1>6
    <2>3. (up + wait) + (p - Timeout) <= k
      BY <1>1, <1>4, <2>2
    <2> QED BY <2>1, <2>3
  <1>8. (up + wait) + m * Timeout <= k
    <2>1. PICK a \in Int : a = up + wait
      BY <1>4
    <2>2. a + (n - 1) * Timeout <= k /\ n - 1 \in Int /\ Timeout \in Nat
      BY <1>1, <1>7, <2>1
    <2>3. a + m * Timeout <= k
      BY <1>2, <2>2, LongerWaits
    <2> QED BY <2>1, <2>3
  <1> QED BY <1>2, <1>3, <1>8 DEF UpIsBounded

\* recvfrom() gives up: the reply may still come, to the next try.
LEMMA TooLate ==
  ASSUME TimeInv, NEW there \in Delays, Time!TimesOut(there)
  PROVE  TimeInv'
  <1>1. /\ reference' = reference /\ up' = up + Timeout /\ base' = base /\ exchange' = exchange
        /\ date' = date /\ updates' = updates /\ at = "recv"
        /\ late' = [o |-> sent.o, up |-> sent.up, r |-> Time!Stamp(sent.up + there + base)]
    BY DEF Time!TimesOut
  <1>2. there \in Nat /\ there <= Timeout /\ Timeout \in Nat
    <2>1. there \in Nat /\ there + there <= Timeout /\ Timeout \in Nat
      BY DelaysAssumption
    <2> QED BY <2>1
  <1>3. tries' \in 0 .. MaxTries /\ tries' = tries + 1 /\ at' = "look"
        /\ pool' \in {NONE, "user", "local", "global"}
    BY <1>1, FailedOnce DEF Time!TimesOut, TimeInv, Busy
  <1>4. updates' \in 0 .. MaxUpdates /\ Left' <= Left - 1
    BY <1>1, <1>3, DelaysAssumption DEF TimeInv, TimeTypes, Left, Busy
  <1>5. UpIsBounded'
    BY <1>1, <1>2, <1>3, <1>4, BoundMoves DEF TimeInv
  <1>6. TimeTypes'
    BY <1>1, <1>2, <1>3, <1>4 DEF TimeInv, TimeTypes
  <1>7. SentNow'
    BY <1>3 DEF SentNow
  <1>8. LateReply'
    <2>1. PICK ends \in BOOLEAN : SentBy(ends)
      BY <1>1 DEF TimeInv, SentNow
    <2>2. sent.o = Time!NTPGetTime(up, ends) /\ sent.up = up
      BY <2>1 DEF SentBy
    <2>3. up \in Nat /\ up + there <= up'
      BY <1>1, <1>2 DEF TimeInv, TimeTypes
    <2>4. PICK u \in Nat : u = up
      BY <2>3
    <2>5. /\ u + there <= up'
          /\ late' = [o |-> Time!AddNTPtime(Time!SystemClock(u, ends), reference'), up |-> u,
                      r |-> Time!Stamp(u + there + base')]
      BY <1>1, <2>2, <2>3, <2>4 DEF Time!NTPGetTime
    <2>6. LateBy(u, there, ends)'
      BY <2>5 DEF LateBy, Time!NTPGetTime, Time!SystemClock, Time!millis, Time!Stamp,
                  Time!AddNTPtime
    <2> QED BY <1>2, <2>6 DEF LateReply
  <1>9. Time!SyncTells' /\ Time!DateTells'
    BY <1>1 DEF TimeInv, Time!SyncTells, Time!DateTells
  <1> QED BY <1>5, <1>6, <1>7, <1>8, <1>9 DEF TimeInv

\* What the device reads at t is what millis() is then.
LEMMA ReadAt ==
  ASSUME NEW t, NEW ends
  PROVE  Time!SystemClock(t, ends) = Read(Time!millis(t), ends)
  BY DEF Time!SystemClock, Read

\* Between two instants millis() starts again some number of times.
LEMMA LapsBetween ==
  ASSUME NEW u \in Nat, NEW now \in Nat, u <= now
  PROVE  LET lost == ((now \div Lap) - (u \div Lap)) * Lap IN
         /\ lost \in Nat /\ lost <= now
         /\ Time!millis(u) \in Nat /\ Time!millis(now) \in Nat
         /\ Time!millis(now) = Time!millis(u) + (now - u) - lost
  <1>1. Lap \in Nat \ {0}
    BY WordsAssumption
  <1>2. /\ u \div Lap \in Int /\ u % Lap \in 0 .. Lap - 1 /\ u = Lap * (u \div Lap) + (u % Lap)
        /\ now \div Lap \in Int /\ now % Lap \in 0 .. Lap - 1
        /\ now = Lap * (now \div Lap) + (now % Lap)
    BY <1>1, Divides
  <1>3. PICK p \in Int, q \in Int, a \in 0 .. Lap - 1, b \in 0 .. Lap - 1 :
          p = u \div Lap /\ q = now \div Lap /\ a = u % Lap /\ b = now % Lap
    BY Zenon, <1>2
  <1>4. u = Lap * p + a /\ now = Lap * q + b
    BY <1>2, <1>3
  <1>5. PICK x \in Int, y \in Int : x = Lap * p /\ y = Lap * q
    BY <1>1
  <1>6. (q - p) * Lap = y - x
    BY <1>1, <1>5
  <1>7. x <= y
    <2>1. CASE p <= q
      <3>1. PICK d \in Nat : q = p + d
        BY <2>1
      <3>2. Lap * (p + d) = Lap * p + Lap * d /\ Lap * d >= 0 /\ Lap * d \in Int
        BY <1>1
      <3> QED BY <1>5, <3>1, <3>2
    <2>2. CASE q + 1 <= p
      <3>1. PICK d \in Nat : p = q + 1 + d
        BY <2>2
      <3>2. Lap * (q + 1 + d) = Lap * q + Lap + Lap * d /\ Lap * d >= 0 /\ Lap * d \in Int
        BY <1>1
      <3>3. x >= y + Lap
        BY <1>1, <1>5, <3>1, <3>2
      <3> QED BY <1>1, <1>4, <1>5, <3>3
    <2> QED BY <2>1, <2>2
  <1>8. x >= 0
    <2>1. CASE p >= 0
      BY <1>1, <1>5, <2>1
    <2>2. CASE p <= -1
      <3>1. PICK d \in Nat : p = -1 - d
        BY <2>2
      <3>2. Lap * (-1 - d) = -Lap - Lap * d /\ Lap * d >= 0 /\ Lap * d \in Int
        BY <1>1
      <3>3. x <= -Lap
        BY <1>1, <1>5, <3>1, <3>2
      <3> QED BY <1>1, <1>4, <1>5, <3>3
    <2> QED BY <2>1, <2>2
  <1>9. /\ y - x \in Nat /\ y - x <= now
        /\ b = a + (now - u) - (y - x)
    BY <1>1, <1>4, <1>5, <1>7, <1>8
  <1>10. Time!millis(u) = a /\ Time!millis(now) = b
         /\ ((now \div Lap) - (u \div Lap)) * Lap = y - x
    BY <1>3, <1>6 DEF Time!millis
  <1> QED BY <1>1, <1>9, <1>10

\* A reply is read: the clock is off no further than Near allows, from a time that is
\* behind by half of what millis() lost.
LEMMA Reply ==
  ASSUME TimeInv, at = "recv",
         NEW m, NEW u \in Nat, NEW there \in Nat, NEW back \in Nat, NEW wait \in Nat,
         NEW ends1 \in BOOLEAN, NEW ends2 \in BOOLEAN, NEW r,
         m.o = Time!NTPGetTime(u, ends1), m.up = u,
         r = Time!Stamp(u + there + base),
         up + wait = u + there + back, wait <= Timeout,
         Time!Synchronise(m, r, wait, ends2),
         UNCHANGED <<base, date, updates, tries>>
  PROVE  TimeInv'
  <1> DEFINE now  == up + wait
             d    == Time!NTPGetTime(now, ends2)
             new  == Time!AddNTPtime(Time!Correction(m.o, r, r, d), reference)
             lost == ((now \div Lap) - (u \div Lap)) * Lap
             off  == Time!Apart(Time!Units(Time!AddNTPtime(Time!SystemClock(now, FALSE), new)),
                                now + base - (lost \div 2))
  <1>1. /\ up' = now /\ reference' = new /\ at' = "idle" /\ pool' = NONE /\ sent' = NONE
        /\ exchange' = [away |-> now - u, lost |-> lost,
                        differ |-> Time!Negative(Time!DiffNTPtime(m.o, r))
                                     # Time!Negative(Time!DiffNTPtime(d, r)),
                        off |-> off]
    BY DEF Time!Synchronise
  <1>2. up \in Nat /\ now \in Nat /\ base \in Int /\ reference \in Stamps
    BY DEF TimeInv, TimeTypes
  <1>3. tries' \in 0 .. MaxTries /\ updates' \in 0 .. MaxUpdates /\ Left' <= Left - 1
    BY <1>1, DelaysAssumption DEF TimeInv, TimeTypes, Left, Busy
  <1>4. UpIsBounded'
    BY <1>1, <1>3, BoundMoves DEF TimeInv
  <1>5. now + 5 * Second < Time!Era \div 2
    <2>1. MaxTries \in Nat /\ MaxUpdates \in Nat /\ Timeout \in Nat /\ Second \in Nat
      BY DelaysAssumption, WordsAssumption
    <2>2. PICK k \in Int : k = Longest
      BY EraIs, <2>1 DEF Longest
    <2>3. up' <= k
      <3>1. Left' \in Nat
        BY <1>1, <1>3, <2>1 DEF TimeInv, TimeTypes, Left, Busy
      <3>2. PICK n \in Nat : n = Left'
        BY <3>1
      <3>3. n * Timeout \in Nat
        BY <2>1
      <3>4. up' + n * Timeout <= k
        BY <1>4, <2>2, <3>2 DEF UpIsBounded
      <3>5. up' \in Nat
        BY <1>1, <1>2
      <3> QED BY <3>3, <3>4, <3>5
    <2>4. PICK h \in Nat : h = Time!Era \div 2
      BY EraIs
    <2>5. k = h - 5 * Second - 1
      BY <2>2, <2>4 DEF Longest
    <2> HIDE DEF now
    <2> QED BY <1>1, <1>2, <2>1, <2>3, <2>4, <2>5
  <1>6. new \in Stamps
        /\ \/ off <= Near(there + back)
           \/ /\ Time!Negative(Time!DiffNTPtime(m.o, r)) # Time!Negative(Time!DiffNTPtime(d, r))
              /\ off >= (Time!Era \div 2) - Near(there + back)
    <2>1. now = u + there + back /\ u \in Int /\ now \in Nat /\ u <= now
      BY <1>2
    <2>2. PICK w \in Nat, u1 \in Nat, n1 \in Nat :
            /\ w = lost /\ w <= now /\ u1 = Time!millis(u) /\ n1 = Time!millis(now)
            /\ n1 = u1 + (now - u) - w
      <3> HIDE DEF now
      <3>1. /\ lost \in Nat /\ lost <= now
            /\ Time!millis(u) \in Nat /\ Time!millis(now) \in Nat
            /\ Time!millis(now) = Time!millis(u) + (now - u) - lost
        BY <2>1, LapsBetween
      <3> HIDE DEF lost
      <3> QED BY <3>1
    <2> HIDE DEF now, d, new, lost
    <2>3. PICK ahead \in Int : ahead = base + (u - u1)
      BY <1>2, <2>2
    <2>4. d = Time!AddNTPtime(Read(n1, ends2), reference)
      BY <2>2, ReadAt DEF d, Time!NTPGetTime
    <2>5. m.o = Time!AddNTPtime(Read(u1, ends1), reference)
      BY <2>2, ReadAt DEF Time!NTPGetTime
    <2>6. new = Time!AddNTPtime(Time!Correction(m.o, r, r, d), reference)
      BY DEF new
    <2>7. r = Time!Stamp(u1 + there + ahead)
      <3>1. u1 + there + ahead = u + there + base
        BY <1>2, <2>1, <2>2, <2>3
      <3> QED BY <3>1
    <2>8. there + back + 5 * Second < Time!Era \div 2 /\ w + 5 * Second < Time!Era \div 2
      <3>1. PICK h \in Nat : h = Time!Era \div 2
        BY EraIs
      <3> QED BY <1>5, <2>1, <2>2, <3>1, WordsAssumption
    <2>9. n1 = u1 + there + back - w /\ n1 \in Int /\ u1 \in Int
      BY <2>1, <2>2
    <2>10. Exchange(reference, ahead, u1, there, back, w, ends1, ends2, n1, m.o, r, d, new)
      BY <1>2, <2>2, <2>3, <2>4, <2>5, <2>6, <2>7, <2>8, <2>9 DEF Exchange
    <2>11. /\ new \in Stamps
           /\ RightWithin(m.o, r, d, new, n1, ahead + w - (w \div 2), there + back)
      BY <2>10, Synchronised
    <2>12. off = Time!Apart(Time!Units(Time!AddNTPtime(Time!Stamp(n1), new)),
                            n1 + (ahead + w - (w \div 2)))
      <3>1. w \div 2 \in Int
        OBVIOUS
      <3>2. now + base - (w \div 2) = n1 + (ahead + w - (w \div 2))
        BY <1>2, <2>1, <2>2, <2>3, <3>1
      <3>3. Time!SystemClock(now, FALSE) = Time!Stamp(n1)
        BY <2>2 DEF Time!SystemClock
      <3> QED BY <2>2, <3>2, <3>3
    <2> HIDE DEF off
    <2> QED BY <2>11, <2>12 DEF RightWithin
  <1> HIDE DEF d, new, off, lost
  <1>7. Time!SyncTells'
    <2>1. now - u = there + back
      BY <1>2
    <2>2. exchange'.away = there + back
      BY <1>1, <2>1
    <2>3. exchange'.off = off
          /\ exchange'.differ = (Time!Negative(Time!DiffNTPtime(m.o, r))
                                   # Time!Negative(Time!DiffNTPtime(d, r)))
      BY <1>1
    <2> HIDE DEF now
    <2>4. \/ exchange'.off <= Near(exchange'.away)
          \/ exchange'.differ /\ exchange'.off >= (Time!Era \div 2) - Near(exchange'.away)
      BY <1>6, <2>2, <2>3
    <2> QED BY <2>4 DEF Time!SyncTells, Near
  <1>8. TimeTypes'
    BY <1>1, <1>2, <1>3, <1>6 DEF TimeInv, TimeTypes
  <1>9. SentNow' /\ LateReply'
    BY <1>1 DEF SentNow, LateReply, Busy
  <1>10. Time!DateTells'
    BY <1>1 DEF TimeInv, Time!DateTells
  <1> QED BY <1>4, <1>7, <1>8, <1>9, <1>10 DEF TimeInv

\* recvfrom() with the reply to the request.
LEMMA ReplyReceived ==
  ASSUME TimeInv, NEW there \in Delays, NEW back \in Delays, NEW ends \in BOOLEAN,
         Time!Receive(there, back, ends)
  PROVE  TimeInv'
  <1>1. at = "recv" /\ UNCHANGED <<base, date, updates, tries>>
        /\ Time!Synchronise(sent, Time!Stamp(up + there + base), there + back, ends)
    BY DEF Time!Receive
  <1>2. there \in Nat /\ back \in Nat /\ there + back <= Timeout /\ there + back \in Nat
    BY DelaysAssumption
  <1>3. PICK first \in BOOLEAN : SentBy(first)
    BY <1>1 DEF TimeInv, SentNow
  <1>4. sent.o = Time!NTPGetTime(up, first) /\ sent.up = up
    BY <1>3 DEF SentBy
  <1>5. up \in Nat /\ up + (there + back) = up + there + back
    BY <1>2 DEF TimeInv, TimeTypes
  <1> QED BY <1>1, <1>2, <1>4, <1>5, Reply

\* recvfrom() with the reply to an earlier request.
LEMMA LateReplyReceived ==
  ASSUME TimeInv, NEW ends \in BOOLEAN, Time!ReceiveLate(ends)
  PROVE  TimeInv'
  <1>1. at = "recv" /\ late # NONE /\ UNCHANGED <<base, date, updates, tries>>
        /\ Time!Synchronise(late, late.r, 0, ends)
    BY DEF Time!ReceiveLate
  <1>2. PICK u \in Nat, there \in Nat, first \in BOOLEAN : LateBy(u, there, first)
    BY <1>1 DEF TimeInv, LateReply, Busy
  <1>3. late.o = Time!NTPGetTime(u, first) /\ late.up = u
        /\ late.r = Time!Stamp(u + there + base) /\ u + there <= up
    BY <1>2 DEF LateBy
  <1>4. up \in Nat
    BY DEF TimeInv, TimeTypes
  <1>5. PICK back \in Nat : back = up - u - there
    BY <1>3, <1>4
  <1>6. up + 0 = u + there + back /\ 0 <= Timeout /\ 0 \in Nat
    BY <1>4, <1>5, DelaysAssumption
  <1> QED BY <1>1, <1>3, <1>6, Reply

\* NTPSetTime().
LEMMA TimeSetTo ==
  ASSUME TimeInv, NEW b \in Bases, Time!NTPSetTime(Time!Stamp(b))
  PROVE  TimeInv'
  <1>1. /\ reference' = Time!DiffNTPtime(Time!SystemClock(up, FALSE), Time!Stamp(b)) /\ at = "idle"
        /\ UNCHANGED <<up, base, at, pool, sent, late, exchange, date, updates, tries>>
    BY DEF Time!NTPSetTime
  <1>2. reference' \in Stamps
    <2>1. Time!millis(up) \in Int
      BY WordsAssumption DEF TimeInv, TimeTypes, Time!millis
    <2>2. Time!SystemClock(up, FALSE) \in Stamps /\ Time!Stamp(b) \in Stamps
      BY <2>1, ReadAt, ReadIs, StampOf, DelaysAssumption
    <2> QED BY <1>1, <2>2, DifferenceIs
  <1>3. TimeTypes' /\ UpIsBounded'
    BY <1>1, <1>2 DEF TimeInv, TimeTypes, UpIsBounded, Left, Busy
  <1>4. SentNow' /\ LateReply' /\ Time!SyncTells' /\ Time!DateTells'
    BY <1>1 DEF TimeInv, SentNow, LateReply, Busy, Time!SyncTells, Time!DateTells
  <1> QED BY <1>3, <1>4 DEF TimeInv

\* ExtractNTPTime().
LEMMA DateExtracted ==
  ASSUME TimeInv, NEW n \in SampleDays, NEW clock \in SampleClocks, Time!Extract(n, clock)
  PROVE  TimeInv'
  <1>1. /\ date' = [n |-> n, clock |-> clock, time |-> Time!ExtractNTPTime(n, clock)]
        /\ at = "idle" /\ at' = "extracted"
        /\ UNCHANGED <<reference, up, base, pool, sent, late, exchange, updates, tries>>
    BY DEF Time!Extract
  <1>2. n \in Nat /\ n <= 49710 /\ clock \in Nat /\ clock < Time!SECS_DAY
    BY SamplesAssumption
  <1>3. Time!DateTells'
    <2>1. date'.n = n /\ date'.clock = clock /\ date'.time = Time!ExtractNTPTime(n, clock)
      BY <1>1
    <2>2. Time!Dated(n, clock, date'.time)
      BY <1>2, <2>1, DateIs
    <2>3. Time!Dated(date'.n, date'.clock, date'.time)
      BY <2>1, <2>2
    <2> QED BY <2>3 DEF Time!DateTells
  <1>4. TimeTypes' /\ UpIsBounded'
    BY <1>1 DEF TimeInv, TimeTypes, UpIsBounded, Left, Busy
  <1>5. SentNow' /\ LateReply' /\ Time!SyncTells'
    BY <1>1 DEF TimeInv, SentNow, LateReply, Busy, Time!SyncTells
  <1> QED BY <1>3, <1>4, <1>5 DEF TimeInv

\* Every step of the network time keeps the invariant: one case per action.
LEMMA TimeNext ==
  ASSUME TimeInv, Time!Next
  PROVE  TimeInv'
  <1>1. ASSUME NEW ok \in BOOLEAN, Time!UpdateNTPTime(ok) PROVE TimeInv'
    BY <1>1, UpdateBegins
  <1>2. ASSUME NEW ok \in BOOLEAN, Time!Bind(ok) PROVE TimeInv'
    BY <1>2, PortBound
  <1>3. ASSUME NEW ok \in BOOLEAN, Time!GetNTPServerList(ok) PROVE TimeInv'
    BY <1>3, ServersFound
  <1>4. ASSUME NEW ok \in BOOLEAN, NEW ends \in BOOLEAN, Time!Send(ok, ends) PROVE TimeInv'
    BY <1>4, RequestSent
  <1>5. ASSUME NEW there \in Delays, Time!TimesOut(there) PROVE TimeInv'
    BY <1>5, TooLate
  <1>6. ASSUME NEW there \in Delays, NEW back \in Delays, NEW ends \in BOOLEAN,
               Time!Receive(there, back, ends)
        PROVE  TimeInv'
    BY <1>6, ReplyReceived
  <1>7. ASSUME NEW ends \in BOOLEAN, Time!ReceiveLate(ends) PROVE TimeInv'
    BY <1>7, LateReplyReceived
  <1>8. ASSUME NEW b \in Bases, Time!NTPSetTime(Time!Stamp(b)) PROVE TimeInv'
    BY <1>8, TimeSetTo
  <1>9. ASSUME NEW n \in SampleDays, NEW clock \in SampleClocks, Time!Extract(n, clock)
        PROVE  TimeInv'
    BY <1>9, DateExtracted
  <1> QED BY <1>1, <1>2, <1>3, <1>4, <1>5, <1>6, <1>7, <1>8, <1>9 DEF Time!Next

-------------------------------------------------------------------------------
\* The calendar of the real-time clock.
\* The days before every month, with a February of f days.
LEMMA MonthTable ==
  ASSUME NEW f \in {28, 29}
  PROVE  /\ \A m \in {0, 1} : Clock!DaysBefore(f, m) = 0
         /\ Clock!DaysBefore(f, 2) = 31
         /\ Clock!DaysBefore(f, 3) = 31 + f   /\ Clock!DaysBefore(f, 4) = 62 + f
         /\ Clock!DaysBefore(f, 5) = 92 + f   /\ Clock!DaysBefore(f, 6) = 123 + f
         /\ Clock!DaysBefore(f, 7) = 153 + f  /\ Clock!DaysBefore(f, 8) = 184 + f
         /\ Clock!DaysBefore(f, 9) = 215 + f  /\ Clock!DaysBefore(f, 10) = 245 + f
         /\ Clock!DaysBefore(f, 11) = 276 + f /\ Clock!DaysBefore(f, 12) = 306 + f
  BY DEF Clock!DaysBefore

\* The lengths of the months of the years that the chip counts.
Days(y, m) == IF m \in {4, 6, 9, 11} THEN 30 ELSE IF m # 2 THEN 31 ELSE IF y % 4 = 0 THEN 29 ELSE 28

\* A year counts by its last two digits.
LEMMA YearsAreShort ==
  ASSUME NEW y \in Clock!Years
  PROVE  /\ y \in Nat /\ y % 100 \in 1 .. 67
         /\ (y % 100) % 4 = y % 4
         /\ Clock!Leap(y) <=> y % 4 = 0
         /\ y + 1 \in Clock!Years => (y + 1) % 100 = (y % 100) + 1
  BY DEF Clock!Years, Clock!LastYear, Clock!Leap

\* Days is the length of the month as the calendar has it.
LEMMA MonthLengths ==
  ASSUME NEW y \in Clock!Years, NEW m \in 1 .. 12
  PROVE  Clock!Length(y, m) = Days(y, m)
  <1>1. Clock!Leap(y) <=> y % 4 = 0
    BY YearsAreShort
  <1> QED BY <1>1 DEF Clock!Length, Clock!Months, Days

\* The parts of a date.
LEMMA ADate ==
  ASSUME NEW d, Clock!IsDate(d)
  PROVE  /\ d = <<d[1], d[2], d[3]>>
         /\ d[1] \in Clock!Years /\ d[2] \in 1 .. 12 /\ d[3] \in 1 .. Days(d[1], d[2])
  BY MonthLengths DEF Clock!IsDate

\* A leap year by its last two digits.
LEMMA FebruaryOf ==
  ASSUME NEW y \in Clock!Years
  PROVE  (IF (y % 100) % 4 = 0 THEN 29 ELSE 28) = Days(y, 2)
  BY YearsAreShort DEF Days

\* The days of a year that come before a month of it.
DaysTo(y, m) == Clock!DaysBefore(Days(y, 2), m)

\* The months fill the year.
LEMMA MonthsFollow ==
  ASSUME NEW y \in Clock!Years, NEW m \in 1 .. 12
  PROVE  /\ DaysTo(y, m) \in Nat
         /\ m < 12 => DaysTo(y, m + 1) = DaysTo(y, m) + Days(y, m)
         /\ m = 1 => DaysTo(y, m) = 0
         /\ m = 12 => DaysTo(y, m) + Days(y, m) = 365 + (IF y % 4 = 0 THEN 1 ELSE 0)
  <1>1. Days(y, 2) \in {28, 29} /\ Days(y, 2) = 28 + (IF y % 4 = 0 THEN 1 ELSE 0)
    BY YearsAreShort DEF Days
  <1>2. PICK f \in {28, 29} : f = Days(y, 2)
    BY <1>1
  <1>3. \A k \in 1 .. 12 : DaysTo(y, k) = Clock!DaysBefore(f, k)
    BY <1>2 DEF DaysTo
  <1>4. CASE m \in {1, 2, 3, 4}
    BY <1>1, <1>2, <1>3, <1>4, MonthTable DEF Days
  <1>5. CASE m \in {5, 6, 7, 8}
    BY <1>1, <1>2, <1>3, <1>5, MonthTable DEF Days
  <1>6. CASE m \in {9, 10, 11, 12}
    BY <1>1, <1>2, <1>3, <1>6, MonthTable DEF Days
  <1> QED BY <1>4, <1>5, <1>6

\* The days before a year, from 2000 on.
YearStart(y) == LET k == y % 100 IN 365 * k + ((k + 3) \div 4)

\* The years follow each other.
LEMMA YearsFollow ==
  ASSUME NEW y \in Clock!Years
  PROVE  /\ YearStart(y) \in Nat
         /\ y + 1 \in Clock!Years =>
              YearStart(y + 1) = YearStart(y) + 365 + (IF y % 4 = 0 THEN 1 ELSE 0)
  <1>1. PICK k \in 1 .. 67 : k = y % 100
    BY YearsAreShort
  <1>2. k % 4 = y % 4 /\ (y + 1 \in Clock!Years => (y + 1) % 100 = k + 1)
    BY <1>1, YearsAreShort
  <1>3. ((k + 1) + 3) \div 4 = ((k + 3) \div 4) + (IF k % 4 = 0 THEN 1 ELSE 0)
    OBVIOUS
  <1> QED BY <1>1, <1>2, <1>3 DEF YearStart

\* The number of a day, by year, month and day.
LEMMA NumberOfDay ==
  ASSUME NEW d, Clock!IsDate(d)
  PROVE  /\ Clock!DayNumber(d) = YearStart(d[1]) + DaysTo(d[1], d[2]) + d[3] - 1
         /\ Clock!DayNumber(d) \in Nat
  <1>1. d[1] \in Clock!Years /\ d[2] \in 1 .. 12 /\ d[3] \in 1 .. 31
    BY DEF Clock!IsDate
  <1>2. Clock!DayNumber(d) = YearStart(d[1]) + DaysTo(d[1], d[2]) + d[3] - 1
    BY <1>1, FebruaryOf DEF Clock!DayNumber, YearStart, DaysTo
  <1>3. PICK a \in Nat : a = YearStart(d[1])
    BY <1>1, YearsFollow
  <1>4. PICK b \in Nat : b = DaysTo(d[1], d[2])
    BY <1>1, MonthsFollow
  <1>5. a + b + d[3] - 1 \in Nat
    BY <1>1
  <1> QED BY <1>2, <1>3, <1>4, <1>5

\* The same of a date that is given by its parts.
LEMMA NumberOfParts ==
  ASSUME NEW y, NEW m, NEW k, Clock!IsDate(<<y, m, k>>)
  PROVE  Clock!DayNumber(<<y, m, k>>) = YearStart(y) + DaysTo(y, m) + k - 1
  <1>1. PICK d : d = <<y, m, k>>
    OBVIOUS
  <1>2. Clock!DayNumber(d) = YearStart(d[1]) + DaysTo(d[1], d[2]) + d[3] - 1
    BY <1>1, NumberOfDay
  <1> QED BY <1>1, <1>2

\* The day after a date has the next number.
LEMMA NextDay ==
  ASSUME NEW d, Clock!IsDate(d), NEW n, n = Clock!DayAfter(d), n[1] \in Clock!Years
  PROVE  /\ Clock!IsDate(n)
         /\ Clock!DayNumber(n) = Clock!DayNumber(d) + 1
  <1>1. PICK y \in Clock!Years, m \in 1 .. 12, k \in 1 .. 31 :
           d = <<y, m, k>> /\ k \in 1 .. Days(y, m)
    BY ADate DEF Clock!IsDate
  <1>2. Clock!Length(y, m) = Days(y, m)
    BY MonthLengths
  <1>3. y \in Nat /\ YearStart(y) \in Nat
    BY YearsAreShort, YearsFollow
  <1>4. DaysTo(y, m) \in Nat
    BY MonthsFollow
  <1>5. CASE k # Days(y, m)
    <2>1. n = <<y, m, k + 1>>
      BY <1>1, <1>2, <1>5 DEF Clock!DayAfter
    <2>2. Days(y, m) \in 28 .. 31
      BY <1>3 DEF Days
    <2>3. Clock!IsDate(n)
      BY <1>1, <1>2, <1>5, <2>1, <2>2 DEF Clock!IsDate
    <2> QED BY <2>1, <2>3, <1>1, <1>3, <1>4, NumberOfParts
  <1>6. CASE k = Days(y, m) /\ m < 12
    <2>1. n = <<y, m + 1, 1>>
      BY <1>1, <1>2, <1>6 DEF Clock!DayAfter
    <2>2. Days(y, m + 1) \in 28 .. 31 /\ Clock!Length(y, m + 1) = Days(y, m + 1)
      BY <1>3, <1>6, MonthLengths DEF Days
    <2>3. Clock!IsDate(n)
      BY <1>1, <1>6, <2>1, <2>2 DEF Clock!IsDate
    <2>4. DaysTo(y, m + 1) = DaysTo(y, m) + Days(y, m)
      BY <1>6, MonthsFollow
    <2>5. Days(y, m) \in Nat
      BY DEF Days
    <2> QED BY <2>1, <2>3, <2>4, <2>5, <1>1, <1>3, <1>6, <1>4, NumberOfParts
  <1>7. CASE k = Days(y, m) /\ m = 12
    <2>1. n = <<y + 1, 1, 1>>
      BY <1>1, <1>2, <1>7 DEF Clock!DayAfter
    <2>2. y + 1 \in Clock!Years /\ Clock!Length(y + 1, 1) = 31
      BY <2>1, MonthLengths DEF Days
    <2>3. Clock!IsDate(n)
      BY <2>1, <2>2 DEF Clock!IsDate
    <2>4. Clock!DayNumber(n) = YearStart(y + 1) + DaysTo(y + 1, 1) + 1 - 1
      BY <2>1, <2>3, NumberOfParts
    <2>5. Clock!DayNumber(d) = YearStart(y) + DaysTo(y, 12) + Days(y, 12) - 1
      BY <1>1, <1>7, NumberOfParts
    <2>6. DaysTo(y + 1, 1) = 0
      BY <2>2, MonthsFollow
    <2>7. DaysTo(y, 12) + Days(y, 12) = 365 + (IF y % 4 = 0 THEN 1 ELSE 0)
      BY <1>7, MonthsFollow
    <2>8. DaysTo(y, 12) \in Nat /\ Days(y, 12) \in Nat
      BY MonthsFollow DEF Days
    <2> QED BY <2>2, <2>3, <2>4, <2>5, <2>6, <2>7, <2>8, YearsFollow, <1>3
  <1> QED BY <1>1, <1>5, <1>6, <1>7

-----------------------------------------------------------------------------
(* The day of the week.                                                     *)

\* What a year adds to calculate_day_of_week().
YearTerm(y) == y + (y \div 4) - (y \div 100) + (y \div 400)

\* The start of a year and its term, modulo seven alike.
YearIs(y, k, e, c) ==
  /\ YearStart(y) = 365 * k + e + 1
  /\ YearTerm((y - 1) % 65536) = k - 1 + e + 7 * c
  /\ YearTerm(y) = k + e + 7 * c + (IF y % 4 = 0 THEN 1 ELSE 0)

\* Every year that the chip counts is of that kind, with or without its century.
LEMMA YearTerms ==
  ASSUME NEW y \in Clock!Years
  PROVE  \E k \in 1 .. 67, e \in Nat, c \in {0, 355} : YearIs(y, k, e, c)
  <1>1. CASE y \in 1 .. 67
    <2> DEFINE e == (y - 1) \div 4
    <2>1. /\ e \in Nat /\ y % 100 = y /\ (y + 3) \div 4 = e + 1
          /\ y \div 4 = e + (IF y % 4 = 0 THEN 1 ELSE 0)
      BY <1>1
    <2>2. /\ (y - 1) % 65536 = y - 1 /\ (y - 1) \div 100 = 0 /\ (y - 1) \div 400 = 0
          /\ y \div 100 = 0 /\ y \div 400 = 0
      BY <1>1
    <2>3. YearTerm(y) = y + e + (IF y % 4 = 0 THEN 1 ELSE 0)
      BY <2>1, <2>2, <1>1 DEF YearTerm
    <2>4. YearTerm((y - 1) % 65536) = y - 1 + e
      BY <2>1, <2>2, <1>1 DEF YearTerm
    <2>5. YearStart(y) = 365 * y + e + 1
      BY <2>1, <1>1 DEF YearStart
    <2>6. YearIs(y, y, e, 0)
      BY <2>3, <2>4, <2>5, <1>1 DEF YearIs
    <2>7. e \in Nat
      BY <2>1
    <2> QED BY <1>1, <2>6, <2>7
  <1>2. CASE y \in 2001 .. 2067
    <2>1. PICK k \in 1 .. 67 : y = 2000 + k
      BY <1>2
    <2> DEFINE e == (k - 1) \div 4
    <2>2. /\ e \in Nat /\ y % 100 = k /\ (k + 3) \div 4 = e + 1
          /\ y \div 4 = 500 + e + (IF y % 4 = 0 THEN 1 ELSE 0)
          /\ (y - 1) \div 4 = 500 + e
      BY <2>1
    <2>3. /\ (y - 1) % 65536 = y - 1 /\ (y - 1) \div 100 = 20 /\ (y - 1) \div 400 = 5
          /\ y \div 100 = 20 /\ y \div 400 = 5
      BY <2>1
    <2>4. YearTerm(y) = k + e + 7 * 355 + (IF y % 4 = 0 THEN 1 ELSE 0)
      BY <2>1, <2>2, <2>3 DEF YearTerm
    <2>5. YearTerm((y - 1) % 65536) = k - 1 + e + 7 * 355
      BY <2>1, <2>2, <2>3 DEF YearTerm
    <2>6. YearStart(y) = 365 * k + e + 1
      BY <2>2, <2>1 DEF YearStart
    <2>7. YearIs(y, k, e, 355)
      BY <2>4, <2>5, <2>6 DEF YearIs
    <2>8. e \in Nat
      BY <2>2
    <2> QED BY <2>7, <2>8
  <1> QED BY <1>1, <1>2 DEF Clock!Years, Clock!LastYear

\* calculate_day_of_week() is right.
LEMMA DayOfWeek ==
  ASSUME NEW y, NEW m, NEW d, Clock!IsDate(<<y, m, d>>)
  PROVE  Clock!calculate_day_of_week(y, m, d) = Clock!WeekDay(<<y, m, d>>)
  <1>1. y \in Clock!Years /\ m \in 1 .. 12 /\ d \in 1 .. 31 /\ y \in Nat
    BY YearsAreShort DEF Clock!IsDate
  <1>2. PICK k \in 1 .. 67, e \in Nat, c \in {0, 355} :
           /\ YearStart(y) = 365 * k + e + 1
           /\ YearTerm((y - 1) % 65536) = k - 1 + e + 7 * c
           /\ YearTerm(y) = k + e + 7 * c + (IF y % 4 = 0 THEN 1 ELSE 0)
    BY SMTT(30), <1>1, YearTerms DEF YearIs
  <1>3. PICK l \in {0, 1} : l = IF y % 4 = 0 THEN 1 ELSE 0
    OBVIOUS
  <1>4. PICK f \in {28, 29} : f = 28 + l /\ f = Days(y, 2)
    BY <1>3 DEF Days
  <1>5. Clock!WeekDay(<<y, m, d>>) =
          ((365 * k + e + 1 + Clock!DaysBefore(f, m) + d - 1 + 5) % 7) + 1
    BY <1>2, <1>4, NumberOfParts DEF Clock!WeekDay, DaysTo
  <1>6. CASE m \in {1, 2}
    <2>1. Clock!calculate_day_of_week(y, m, d) =
            ((d + 2 * (m + 12) + ((3 * (m + 13)) \div 5) + k - 1 + e + 7 * c) % 7) + 1
      <3>1. PICK t : t = (y - 1) % 65536
        OBVIOUS
      <3>2. t \in Nat
        BY <3>1, <1>1
      <3>3. t + (t \div 4) - (t \div 100) + (t \div 400) = k - 1 + e + 7 * c
        BY <3>1, <1>2 DEF YearTerm
      <3>4. Clock!calculate_day_of_week(y, m, d) =
              ((d + 2 * (m + 12) + ((3 * ((m + 12) + 1)) \div 5) + t + (t \div 4) - (t \div 100) + (t \div 400)) % 7) + 1
        BY <3>1, <1>6 DEF Clock!calculate_day_of_week
      <3>5. \A n \in Int : n + t + (t \div 4) - (t \div 100) + (t \div 400) = n + k - 1 + e + 7 * c
        BY <3>2, <3>3
      <3> QED BY <3>4, <3>5, <1>1, <3>2, <3>3
    <2>2. \E q \in Int : Clock!DaysBefore(f, m) + 6 - 2 * (m + 12) - ((3 * (m + 13)) \div 5) = 7 * q
      BY <1>6, MonthTable
    <2>3. PICK q \in Int : Clock!DaysBefore(f, m) + 6 - 2 * (m + 12) - ((3 * (m + 13)) \div 5) = 7 * q
      BY <2>2
    <2>4. PICK b \in Nat : b = Clock!DaysBefore(f, m)
      BY <1>6, MonthTable
    <2>5. PICK p \in Nat : p = (3 * (m + 13)) \div 5
      BY <1>1
    <2>6. PICK g \in Int : g = d + 2 * (m + 12) + p + k - 1 + e + 7 * c
      BY <1>1, <2>5
    <2>7. PICK h \in Int : h = 365 * k + e + 1 + b + d - 1 + 5
      BY <1>1, <2>4
    <2>8. PICK j \in Int : j = 52 * k - c + q
      BY <1>1
    <2>9. h = g + 7 * j
      BY <2>3, <2>4, <2>5, <2>6, <2>7, <2>8, <1>1
    <2>10. h % 7 = g % 7
      BY <2>9
    <2> QED BY <2>1, <1>5, <2>4, <2>5, <2>6, <2>7, <2>10
  <1>7. CASE m \notin {1, 2}
    <2>1. Clock!calculate_day_of_week(y, m, d) =
            ((d + 2 * m + ((3 * (m + 1)) \div 5) + k + e + 7 * c + l) % 7) + 1
      <3>3. y + (y \div 4) - (y \div 100) + (y \div 400) = k + e + 7 * c + l
        BY <1>2, <1>3 DEF YearTerm
      <3>4. Clock!calculate_day_of_week(y, m, d) =
              ((d + 2 * m + ((3 * (m + 1)) \div 5) + y + (y \div 4) - (y \div 100) + (y \div 400)) % 7) + 1
        BY <1>7 DEF Clock!calculate_day_of_week
      <3> QED BY <3>4, <3>3, <1>1
    <2>2. \E q \in Int : Clock!DaysBefore(f, m) + 5 - 2 * m - ((3 * (m + 1)) \div 5) - l = 7 * q
      <3>1. CASE m \in {3, 4, 5}
        BY <3>1, <1>4, MonthTable
      <3>4. CASE m \in {6, 7}
        BY <3>4, <1>4, MonthTable
      <3>2. CASE m \in {8, 9, 10}
        BY <3>2, <1>4, MonthTable
      <3>3. CASE m \in {11, 12}
        BY <3>3, <1>4, MonthTable
      <3> QED BY <3>1, <3>2, <3>3, <3>4, <1>1, <1>7
    <2>3. PICK q \in Int : Clock!DaysBefore(f, m) + 5 - 2 * m - ((3 * (m + 1)) \div 5) - l = 7 * q
      BY <2>2
    <2>4. PICK b \in Nat : b = Clock!DaysBefore(f, m)
      BY <1>1, MonthTable
    <2>5. PICK p \in Nat : p = (3 * (m + 1)) \div 5
      BY <1>1
    <2>6. PICK g \in Int : g = d + 2 * m + p + k + e + 7 * c + l
      BY <1>1, <2>5
    <2>7. PICK h \in Int : h = 365 * k + e + 1 + b + d - 1 + 5
      BY <1>1, <2>4
    <2>8. PICK j \in Int : j = 52 * k - c + q
      BY <1>1
    <2>9. h = g + 7 * j
      BY <2>3, <2>4, <2>5, <2>6, <2>7, <2>8, <1>1
    <2>10. h % 7 = g % 7
      BY <2>9
    <2> QED BY <2>1, <1>5, <2>4, <2>5, <2>6, <2>7, <2>10
  <1> QED BY <1>6, <1>7

-----------------------------------------------------------------------------
(* unixtime() and summertime().                                             *)

\* The days that unixtime() is late.
Late(f, m) == IF m > 2 /\ f = 29 THEN 1 ELSE 0

\* The days that unixtime() counts, late after February by a leap day that it counts twice.
LEMMA UnixDaysAre ==
  ASSUME feb \in {28, 29}, NEW d, Clock!IsDate(d)
  PROVE  Clock!UnixDays(d) = Clock!DayNumber(d) + Late(feb, d[2])
  <1>1. d[1] \in Clock!Years /\ d[2] \in 1 .. 12 /\ d[3] \in 1 .. 31
    BY DEF Clock!IsDate
  <1>2. PICK y \in Clock!Years, m \in 1 .. 12, k \in 1 .. 31 : y = d[1] /\ m = d[2] /\ k = d[3]
    BY <1>1
  <1>3. PICK l \in {0, 1} : l = IF y % 4 = 0 THEN 1 ELSE 0
    OBVIOUS
  <1>4. PICK f \in {28, 29} : f = 28 + l /\ f = Days(y, 2)
    BY <1>3 DEF Days
  <1>5. PICK s \in Nat : s = YearStart(y)
    BY YearsFollow
  <1>6. Clock!DayNumber(d) = s + Clock!DaysBefore(f, m) + k - 1
    BY <1>2, <1>4, <1>5, NumberOfDay DEF DaysTo
  <1>7. Clock!UnixDays(d) = k + Clock!DaysBefore(feb, m) + (IF m > 2 /\ l = 1 THEN 1 ELSE 0) + s - 1
    <2>1. (y % 100) % 4 = y % 4 /\ y % 100 \in 1 .. 67
      BY YearsAreShort
    <2>2. PICK n \in 1 .. 67 : n = y % 100
      BY <2>1
    <2>3. s = 365 * n + ((n + 3) \div 4)
      BY <1>5, <2>2 DEF YearStart
    <2>4. PICK b \in Nat : b = Clock!DaysBefore(feb, m)
      BY MonthTable
    <2>5. Clock!UnixDays(d) =
            k + b + (IF m > 2 /\ n % 4 = 0 THEN 1 ELSE 0) + 365 * n + ((n + 3) \div 4) - 1
      BY <1>2, <2>2, <2>4 DEF Clock!UnixDays
    <2> QED BY <2>1, <2>2, <2>3, <2>4, <2>5, <1>3
  <1>8. Clock!DaysBefore(feb, m) = Clock!DaysBefore(f, m) + (IF m > 2 THEN feb - f ELSE 0)
    <2>1. CASE m \in {1, 2, 3, 4, 5, 6}
      BY <2>1, <1>4, MonthTable
    <2>2. CASE m \in {7, 8, 9, 10, 11, 12}
      BY <2>2, <1>4, MonthTable
    <2> QED BY <2>1, <2>2
  <1>9. PICK b \in Nat : b = Clock!DaysBefore(f, m)
    BY MonthTable
  <1> QED BY <1>2, <1>4, <1>6, <1>7, <1>8, <1>9 DEF Late

\* The hour of the year of a date; its last Sundays in March and in October are
\* as many days before the 31st.
LEMMA Sundays ==
  ASSUME NEW y \in Clock!Years
  PROVE  \E n \in Nat :
           /\ n = ((y % 100) * 5) \div 4
           /\ Clock!LastSunday(y, 3) = 31 - ((5 + n) % 7)
           /\ Clock!LastSunday(y, 10) = 31 - ((2 + n) % 7)
  <1>1. PICK k \in 1 .. 67 : k = y % 100
    BY YearsAreShort
  <1>2. k % 4 = y % 4
    BY <1>1, YearsAreShort
  <1>3. PICK l \in {0, 1} : l = IF y % 4 = 0 THEN 1 ELSE 0
    OBVIOUS
  <1>4. PICK f \in {28, 29} : f = 28 + l /\ f = Days(y, 2)
    BY <1>3 DEF Days
  <1>5. PICK e \in Nat : (k + 3) \div 4 = e + 1 /\ (k * 5) \div 4 = k + e + l
    <2>1. PICK e : e = (k - 1) \div 4
      OBVIOUS
    <2>2. e \in Nat /\ (k + 3) \div 4 = e + 1 /\ (k * 5) \div 4 = k + e + l
      BY <2>1, <1>2, <1>3
    <2> QED BY <2>2
  <1>6. YearStart(y) = 365 * k + e + 1
    BY <1>1, <1>5 DEF YearStart
  <1>7. Clock!IsDate(<<y, 3, 31>>) /\ Clock!IsDate(<<y, 10, 31>>)
    BY MonthLengths DEF Clock!IsDate, Days
  <1>8. DaysTo(y, 3) = 59 + l /\ DaysTo(y, 10) = 273 + l
    BY <1>4, MonthTable DEF DaysTo
  <1>9. Clock!DayNumber(<<y, 3, 31>>) = 365 * k + e + 1 + 59 + l + 31 - 1
    BY <1>6, <1>7, <1>8, NumberOfParts
  <1>10. Clock!DayNumber(<<y, 10, 31>>) = 365 * k + e + 1 + 273 + l + 31 - 1
    BY <1>6, <1>7, <1>8, NumberOfParts
  <1>11. Clock!LastSunday(y, 3) = 31 - ((5 + k + e + l) % 7)
    <2>1. (365 * k + e + 1 + 59 + l + 31 - 1 + 5) % 7 \in 0 .. 6
      OBVIOUS
    <2>2. ((((365 * k + e + 1 + 59 + l + 31 - 1) + 5) % 7) + 1) % 7 = (5 + k + e + l) % 7
      BY <2>1
    <2> QED BY <1>9, <2>2 DEF Clock!LastSunday, Clock!WeekDay
  <1>12. Clock!LastSunday(y, 10) = 31 - ((2 + k + e + l) % 7)
    <2>2. ((((365 * k + e + 1 + 273 + l + 31 - 1) + 5) % 7) + 1) % 7 = (2 + k + e + l) % 7
      OBVIOUS
    <2> QED BY <1>10, <2>2 DEF Clock!LastSunday, Clock!WeekDay
  <1>13. PICK n \in Nat : n = k + e + l
    OBVIOUS
  <1> QED BY <1>1, <1>5, <1>11, <1>12, <1>13

\* Summer time as summertime() has it, but on the days that it is wrong on.
SummerIs(d, hour, b) ==
  \/ b <=> Clock!IsSummer(d, hour)
  \/ d[2] = 4 /\ d[3] <= 3 /\ ~b
  \/ d[2] = 11 /\ d[3] = 1 /\ hour < 2

\* InSummer(), which counts the days of a year by its own February, is summer time.
LEMMA SummerRule ==
  ASSUME feb \in {28, 29}, NEW d, Clock!IsDate(d), NEW hour \in 0 .. 23
  PROVE  SummerIs(d, hour, Clock!InSummer(d, hour))
  <1>1. PICK y \in Clock!Years, m \in 1 .. 12, k \in 1 .. 31 :
           d = <<y, m, k>> /\ k \in 1 .. Days(y, m)
    BY ADate DEF Clock!IsDate
  <1>2. PICK n \in Nat : /\ n = ((y % 100) * 5) \div 4
                        /\ Clock!LastSunday(y, 3) = 31 - ((5 + n) % 7)
                        /\ Clock!LastSunday(y, 10) = 31 - ((2 + n) % 7)
    BY Sundays
  <1>3. PICK r \in 0 .. 6 : r = (5 + n) % 7
    BY <1>2
  <1>4. PICK t \in 0 .. 6 : t = (2 + n) % 7
    BY <1>2
  <1>5. Clock!LastSunday(y, 3) = 31 - r /\ Clock!LastSunday(y, 10) = 31 - t
    BY <1>2, <1>3, <1>4
  <1>6. PICK l \in {0, 1} : l = IF y % 4 = 0 THEN 1 ELSE 0
    OBVIOUS
  <1>7. PICK f \in {28, 29} : f = 28 + l /\ f = Days(y, 2)
    BY <1>6 DEF Days
  <1>8. PICK s \in Nat : s = YearStart(y)
    BY YearsFollow
  <1>9. PICK b \in Nat : b = Clock!DaysBefore(f, m)
    BY <1>7, MonthTable
  <1>10. Clock!DayNumber(d) = s + b + k - 1
    BY <1>1, <1>7, <1>8, <1>9, NumberOfParts DEF DaysTo
  <1>11. Clock!DayNumber(<<y, 3, 31 - r>>) = s + 31 + f + 31 - r - 1
    <2>1. Clock!IsDate(<<y, 3, 31 - r>>)
      BY MonthLengths DEF Clock!IsDate, Days
    <2>2. DaysTo(y, 3) = 31 + f
      BY <1>7, MonthTable DEF DaysTo
    <2> QED BY <2>1, <2>2, <1>7, <1>8, NumberOfParts
  <1>12. Clock!DayNumber(<<y, 10, 31 - t>>) = s + 245 + f + 31 - t - 1
    <2>1. Clock!IsDate(<<y, 10, 31 - t>>)
      BY MonthLengths DEF Clock!IsDate, Days
    <2>2. DaysTo(y, 10) = 245 + f
      BY <1>7, MonthTable DEF DaysTo
    <2> QED BY <2>1, <2>2, <1>7, <1>8, NumberOfParts
  <1>13. PICK z \in BOOLEAN : z <=> Clock!IsSummer(d, hour)
    OBVIOUS
  <1>14. z <=> /\ (s + b + k - 1) * 24 + hour >= (s + 31 + f + 31 - r - 1) * 24 + 2
               /\ (s + b + k - 1) * 24 + hour < (s + 245 + f + 31 - t - 1) * 24 + 2
    <2>1. d[1] = y
      BY <1>1
    <2> QED BY <2>1, <1>5, <1>10, <1>11, <1>12, <1>13 DEF Clock!IsSummer
  <1>15. PICK a \in Nat : a = Clock!DaysBefore(feb, m - 1)
    BY MonthTable
  <1>16. PICK i \in BOOLEAN : i <=> Clock!InSummer(d, hour)
    OBVIOUS
  <1>17. i <=> /\ (k + a) * 24 + hour >= (31 - r + 31) * 24 + 2
               /\ (k + a) * 24 + hour + 1 < (31 - t + 215 + feb) * 24 + 3
    <2>1. Clock!DaysBefore(feb, 2) = 31 /\ Clock!DaysBefore(feb, 9) = 215 + feb
      BY MonthTable
    <2>2. d[1] = y /\ d[2] = m /\ d[3] = k
      BY <1>1
    <2> QED BY <2>1, <2>2, <1>2, <1>3, <1>4, <1>15, <1>16 DEF Clock!InSummer
  <1>18. (i <=> z) \/ (m = 4 /\ k <= 3 /\ ~i) \/ (m = 11 /\ k = 1 /\ hour < 2)
    <2>1. CASE m = 1
      BY <2>1, <1>7, <1>9, <1>14, <1>15, <1>17, MonthTable
    <2>2. CASE m = 2
      BY <2>2, <1>7, <1>9, <1>14, <1>15, <1>17, MonthTable
    <2>3. CASE m = 3
      BY <2>3, <1>7, <1>9, <1>14, <1>15, <1>17, MonthTable
    <2>4. CASE m = 4
      BY <2>4, <1>7, <1>9, <1>14, <1>15, <1>17, MonthTable
    <2>5. CASE m \in {5, 6}
      BY <2>5, <1>7, <1>9, <1>14, <1>15, <1>17, MonthTable
    <2>6. CASE m \in {7, 8, 9}
      BY <2>6, <1>7, <1>9, <1>14, <1>15, <1>17, MonthTable
    <2>7. CASE m = 10
      BY <2>7, <1>7, <1>9, <1>14, <1>15, <1>17, MonthTable
    <2>8. CASE m = 11
      BY <2>8, <1>7, <1>9, <1>14, <1>15, <1>17, MonthTable
    <2>9. CASE m = 12
      BY <2>9, <1>7, <1>9, <1>14, <1>15, <1>17, MonthTable
    <2> QED BY <2>1, <2>2, <2>3, <2>4, <2>5, <2>6, <2>7, <2>8, <2>9
  <1>19. d[2] = m /\ d[3] = k
    BY <1>1
  <1> QED BY <1>13, <1>16, <1>18, <1>19 DEF SummerIs

\* The zones that unixtime() lists, in quarters of an hour.
LEMMA ZonesAre ==
  ASSUME NEW zone \in Clock!ZoneNumbers
  PROVE  Clock!Quarters(zone) = Clock!ZoneIs(zone) /\ Clock!Quarters(zone) \in Int
  <1>1. CASE zone \in -12 .. 14
    BY <1>1 DEF Clock!Quarters, Clock!ZoneIs
  <1>2. CASE zone \in Clock!Halves
    BY <1>2 DEF Clock!Quarters, Clock!ZoneIs, Clock!Halves
  <1>3. CASE zone \in Clock!ThreeQs
    BY <1>3 DEF Clock!Quarters, Clock!ZoneIs, Clock!Halves, Clock!ThreeQs
  <1> QED BY <1>1, <1>2, <1>3 DEF Clock!ZoneNumbers

-----------------------------------------------------------------------------
(* The real-time clock: the inductive invariant.                            *)

\* What may stand for a date, and what the chip shows now.
Calendar == Clock!Years \X (1 .. 12) \X (1 .. 31)

Now   == Clock!Shows(Clock!Date, reg.hour)
Right == slipped \/ (Now = shown /\ reg.week = Clock!WeekDay(Clock!Date))

\* The types.
ClockTypes ==
  /\ reg \in [year : Clock!Years, month : 1 .. 12, day : 1 .. 31, week : 1 .. 7, hour : 0 .. 23]
  /\ Clock!IsDate(Clock!Date)
  /\ feb \in {28, 29} /\ meztime \in {-1, 0, 1} /\ slipped \in BOOLEAN /\ shown \in Int

\* unixtime() told an instant of the call.
UtcIs(ticks, zone, first, from, until, f) ==
  \E h \in (from .. until) \cup {from - 23} :
    ticks + Clock!ZoneIs(zone) = 4 * (h + 24 * Late(f, first[2]))

\* The result of a call, as it was told.
Told(zone, summer) ==
  \E ticks \in Int, d \in Calendar, hour \in 0 .. 23, first \in Calendar, from \in Int, until \in Int :
    /\ result = [ticks |-> ticks, zone |-> zone, summer |-> summer, read |-> d, hour |-> hour,
                 first |-> first, from |-> from, until |-> until]
    /\ UtcIs(ticks, zone, first, from, until, feb)
    /\ summer # NONE => SummerIs(d, hour, summer)

\* No call is under way.
CallIdle ==
  /\ call = <<"idle">> /\ Right /\ read = NONE
  /\ result # NONE => \E zone \in Clock!ZoneNumbers, summer \in BOOLEAN \cup {NONE} : Told(zone, summer)

\* The date is still to be written after the time.
CallDate ==
  /\ \E d \in Calendar :
       /\ call = <<"date", d>> /\ Clock!IsDate(d)
       /\ slipped \/ Clock!Shows(d, reg.hour) = shown
  /\ read = NONE /\ result = NONE

\* The date was read, and will be written back with the field changed.
CallWrite ==
  /\ \E f \in 1 .. 3, v \in Nat :
       /\ call = <<"write", f, v>>
       /\ Clock!IsDate(Clock!Changed(read, f, v))
       /\ slipped \/ (read = Clock!Date /\ Clock!Shows(Clock!Changed(read, f, v), reg.hour) = shown)
  /\ Clock!IsDate(read) /\ result = NONE

\* The date was read to be written back, and the new day of the week is known.
CallChange ==
  /\ \E f \in 1 .. 3, v \in Nat, d \in Calendar, w \in 1 .. 7 :
       /\ call = <<"change", f, v, w>> /\ read = d
       /\ Clock!IsDate(d) /\ Clock!IsDate(Clock!Changed(d, f, v))
       /\ slipped \/ (/\ w = Clock!WeekDay(Clock!Changed(d, f, v))
                      /\ Clock!Shows(Clock!Changed(d, f, v), reg.hour) = shown)
  /\ result = NONE

\* The registers are being read; midnight may pass in between, once.
Asked(what, from, zone) ==
  /\ call = <<what, from, zone>>
  /\ what # "unixtime" => zone = 0
  /\ Now = from \/ (Now = from + 1 /\ reg.hour = 0)
  /\ read # NONE =>
       /\ Clock!IsDate(read)
       /\ \/ read = Clock!Date
          \/ /\ Clock!DayNumber(Clock!Date) = Clock!DayNumber(read) + 1
             /\ Now = from + 1 /\ reg.hour = 0

\* unixtime() and its callers are reading the registers.
CallAsks ==
  /\ \E what \in {"unixtime", "Germany", "timing"}, from \in Int, zone \in Clock!ZoneNumbers :
       Asked(what, from, zone)
  /\ Right /\ result = NONE

\* The Unix time is told, summertime() not yet.
CallSummer ==
  /\ call = <<"summertime">> /\ Right /\ Told(0, NONE)
  /\ read # NONE => Clock!IsDate(read)

\* The invariant: one of these is the state of the call.
ClockInv ==
  /\ ClockTypes
  /\ CallIdle \/ CallDate \/ CallWrite \/ CallChange \/ CallAsks \/ CallSummer

\* The steps of the calls are told apart by their names.
LEMMA OneCall ==
  ASSUME ClockInv
  PROVE  /\ call[1] = "idle" => CallIdle
         /\ call = <<"idle">> => CallIdle
         /\ call[1] = "date" => CallDate
         /\ call[1] = "write" => CallWrite
         /\ call[1] = "change" => CallChange
         /\ call[1] = "summertime" => CallSummer
         /\ call[1] \in {"unixtime", "Germany", "timing"} => CallAsks
  <1>1. CallIdle => call[1] = "idle"
    BY DEF CallIdle
  <1>2. CallDate => call[1] = "date"
    BY DEF CallDate
  <1>3. CallWrite => call[1] = "write"
    BY DEF CallWrite
  <1>4. CallChange => call[1] = "change"
    BY DEF CallChange
  <1>5. CallAsks => call[1] \in {"unixtime", "Germany", "timing"}
    <2> SUFFICES ASSUME CallAsks PROVE call[1] \in {"unixtime", "Germany", "timing"}
      OBVIOUS
    <2>1. PICK what \in {"unixtime", "Germany", "timing"}, from \in Int, zone \in Clock!ZoneNumbers :
            Asked(what, from, zone)
      BY DEF CallAsks
    <2> QED BY <2>1 DEF Asked
  <1>6. CallSummer => call[1] = "summertime"
    BY DEF CallSummer
  <1>7. call = <<"idle">> => call[1] = "idle"
    OBVIOUS
  <1> QED BY <1>1, <1>2, <1>3, <1>4, <1>5, <1>6, <1>7 DEF ClockInv

\* Until then the result says nothing of summer time.
LEMMA SummerUntold == CallSummer => result.summer = NONE
  <1> SUFFICES ASSUME Told(0, NONE) PROVE result.summer = NONE
    BY DEF CallSummer
  <1> QED BY DEF Told

\* The invariant implies the properties.
LEMMA ClockSaysRight == ClockInv => Clock!KeepsTime /\ Clock!UnixTimeTells /\ Clock!SummerTells
  <1> SUFFICES ASSUME ClockInv PROVE Clock!KeepsTime /\ Clock!UnixTimeTells /\ Clock!SummerTells
    OBVIOUS
  <1>1. call = <<"idle">> => CallIdle
    BY OneCall
  <1>2. Clock!KeepsTime
    BY <1>1 DEF Clock!KeepsTime, CallIdle, Right, Now
  <1>3. Clock!UnixTimeTells
    <2> SUFFICES ASSUME result # NONE, call = <<"idle">> PROVE Clock!UnixTimeTells
      BY DEF Clock!UnixTimeTells
    <2>1. PICK zone \in Clock!ZoneNumbers, summer \in BOOLEAN \cup {NONE} : Told(zone, summer)
      BY <1>1 DEF CallIdle
    <2>2. PICK ticks \in Int, first \in Calendar, from \in Int, until \in Int :
            /\ result.ticks = ticks /\ result.zone = zone /\ result.first = first
            /\ result.from = from /\ result.until = until
            /\ UtcIs(ticks, zone, first, from, until, feb)
      BY <2>1 DEF Told
    <2>3. PICK n \in {0, 24} : n = (IF first[2] > 2 /\ feb = 29 THEN 24 ELSE 0)
      OBVIOUS
    <2>4. n = 24 * Late(feb, first[2])
      BY <2>3 DEF Late
    <2>5. \E h \in (from .. until) \cup {from - 23} : ticks + Clock!ZoneIs(zone) = 4 * (h + n)
      BY <2>2, <2>4 DEF UtcIs
    <2> QED BY <2>2, <2>3, <2>5 DEF Clock!UnixTimeTells
  <1>4. Clock!SummerTells
    <2> SUFFICES ASSUME result # NONE, result.summer # NONE PROVE Clock!SummerTells
      BY DEF Clock!SummerTells
    <2>1. ~CallSummer
      BY SummerUntold
    <2>2. CallIdle
      BY <2>1 DEF ClockInv, CallDate, CallWrite, CallChange, CallAsks
    <2>3. PICK zone \in Clock!ZoneNumbers, summer \in BOOLEAN \cup {NONE} : Told(zone, summer)
      BY <2>2 DEF CallIdle
    <2>4. PICK d \in Calendar, hour \in 0 .. 23 :
            /\ result.summer = summer /\ result.read = d /\ result.hour = hour
            /\ summer # NONE => SummerIs(d, hour, summer)
      BY <2>3 DEF Told
    <2>5. SummerIs(d, hour, summer) /\ summer \in BOOLEAN
      BY <2>4
    <2>6. PICK b \in BOOLEAN : b = Clock!IsSummer(d, hour)
      BY DEF Clock!IsSummer
    <2>7. CASE summer = b
      BY <2>4, <2>6, <2>7 DEF Clock!SummerTells
    <2>8. CASE summer # b
      <3>1. ~(summer <=> b)
        BY <2>5, <2>8
      <3>2. ~(summer <=> Clock!IsSummer(d, hour))
        BY <2>6, <3>1
      <3>3. \/ d[2] = 4 /\ d[3] <= 3 /\ ~summer
            \/ d[2] = 11 /\ d[3] = 1 /\ hour < 2
        BY <2>5, <3>2 DEF SummerIs
      <3> QED BY <2>4, <3>3 DEF Clock!SummerTells
    <2> QED BY <2>7, <2>8
  <1> QED BY <1>2, <1>3, <1>4

\* The initial states.
LEMMA ClockStarts == Clock!Init => ClockInv
  <1> SUFFICES ASSUME Clock!Init PROVE ClockInv
    OBVIOUS
  <1>1. Clock!Date = <<2007, 1, 1>> /\ reg.hour = 0 /\ reg.week = 1
    BY DEF Clock!Init, Clock!Date
  <1>2. Clock!IsDate(<<2007, 1, 1>>) /\ 2007 \in Clock!Years
    BY MonthLengths DEF Clock!IsDate, Clock!Years, Clock!LastYear, Days
  <1>3. Clock!DayNumber(<<2007, 1, 1>>) = 2557
    <2>1. YearStart(2007) = 365 * 7 + 2
      BY DEF YearStart
    <2>2. DaysTo(2007, 1) = 0
      BY <1>2, MonthsFollow
    <2> QED BY <1>2, <2>1, <2>2, NumberOfParts
  <1>4. Clock!WeekDay(<<2007, 1, 1>>) = 1
    BY <1>3 DEF Clock!WeekDay
  <1>5. Clock!Shows(<<2007, 1, 1>>, 0) \in Int
    BY <1>3 DEF Clock!Shows
  <1>6. ClockTypes
    <2>1. reg \in [year : Clock!Years, month : 1 .. 12, day : 1 .. 31, week : 1 .. 7, hour : 0 .. 23]
      BY <1>2 DEF Clock!Init
    <2>2. shown \in Int
      BY <1>5 DEF Clock!Init
    <2>3. Clock!IsDate(Clock!Date)
      BY <1>1, <1>2
    <2>4. feb \in {28, 29} /\ meztime \in {-1, 0, 1} /\ slipped \in BOOLEAN
      BY DEF Clock!Init
    <2> QED BY <2>1, <2>2, <2>3, <2>4 DEF ClockTypes
  <1>7. Right
    BY <1>1, <1>4 DEF Right, Now, Clock!Init
  <1> QED BY <1>6, <1>7 DEF ClockInv, CallIdle, Clock!Init

\* What the registers show, from the date in them.
LEMMA ShownIs ==
  ASSUME NEW d, Clock!IsDate(d), NEW hour \in Int
  PROVE  Clock!Shows(d, hour) = 24 * Clock!DayNumber(d) + hour /\ Clock!Shows(d, hour) \in Int
  <1>1. PICK n \in Nat : n = Clock!DayNumber(d)
    BY NumberOfDay
  <1> QED BY <1>1 DEF Clock!Shows

\* What an hour does to the registers.
LEMMA HourStep ==
  ASSUME ClockTypes, Clock!HourPasses
  PROVE  /\ ClockTypes' /\ Now' = Now + 1 /\ (Right => Right')
         /\ reg.hour = 23 => /\ reg'.hour = 0
                             /\ Clock!DayNumber(Clock!Date') = Clock!DayNumber(Clock!Date) + 1
  <1>1. PICK h \in 0 .. 23, w \in 1 .. 7, y \in Clock!Years, m \in 1 .. 12, k \in 1 .. 31 :
          reg = [year |-> y, month |-> m, day |-> k, week |-> w, hour |-> h]
    BY DEF ClockTypes
  <1>2. Clock!Date = <<y, m, k>> /\ Clock!IsDate(<<y, m, k>>)
    BY <1>1 DEF Clock!Date, ClockTypes
  <1>3. PICK n \in Nat : n = Clock!DayNumber(<<y, m, k>>)
    BY <1>2, NumberOfDay
  <1>4. Now = 24 * n + h
    BY <1>1, <1>2, <1>3, ShownIs DEF Now
  <1>5. shown' = shown + 1 /\ (slipped => slipped') /\ slipped' \in BOOLEAN /\ shown \in Int
    BY DEF Clock!HourPasses, ClockTypes
  <1>6. feb' = feb /\ meztime' = meztime
    BY DEF Clock!HourPasses
  <1>7. CASE h # 23
    <2>1. reg' = [year |-> y, month |-> m, day |-> k, week |-> w, hour |-> h + 1]
      <3>1. (h + 1) % 24 = h + 1
        BY <1>7
      <3> QED BY <1>1, <1>2, <1>7, <3>1 DEF Clock!HourPasses
    <2>2. Clock!Date' = <<y, m, k>> /\ reg'.hour = h + 1 /\ reg'.week = w
      BY <2>1 DEF Clock!Date
    <2>3. Now' = 24 * n + h + 1
      BY <2>2, <1>2, <1>3, ShownIs DEF Now
    <2>4. Right => Right'
      BY <1>1, <1>2, <1>4, <1>5, <2>2, <2>3 DEF Right
    <2>5. ClockTypes'
      BY <2>1, <2>2, <1>2, <1>5, <1>6, <1>7 DEF ClockTypes
    <2> QED BY <1>1, <1>4, <1>7, <2>3, <2>4, <2>5
  <1>8. CASE h = 23
    <2>1. PICK d : d = Clock!DayAfter(<<y, m, k>>)
      OBVIOUS
    <2>2. d[1] \in Clock!Years
      BY <1>1, <1>2, <1>8, <2>1 DEF Clock!HourPasses
    <2>3. Clock!IsDate(d) /\ Clock!DayNumber(d) = n + 1
      BY <1>2, <1>3, <2>1, <2>2, NextDay
    <2>4. reg' = [year |-> d[1], month |-> d[2], day |-> d[3], week |-> (w % 7) + 1, hour |-> 0]
      <3>1. (h + 1) % 24 = 0
        BY <1>8
      <3> QED BY <1>1, <1>2, <1>8, <2>1, <3>1 DEF Clock!HourPasses
    <2>5. d = <<d[1], d[2], d[3]>> /\ d \in Calendar
      BY <2>3 DEF Clock!IsDate, Calendar
    <2>6. Clock!Date' = d /\ reg'.hour = 0 /\ reg'.week = (w % 7) + 1
      BY <2>4, <2>5 DEF Clock!Date
    <2>7. Now' = 24 * n + 24
      BY <2>3, <2>6, ShownIs DEF Now
    <2>8. w = Clock!WeekDay(<<y, m, k>>) => (w % 7) + 1 = Clock!WeekDay(d)
      <3>1. ((((n + 5) % 7) + 1) % 7) + 1 = ((n + 1 + 5) % 7) + 1
        OBVIOUS
      <3> QED BY <1>3, <2>3, <3>1 DEF Clock!WeekDay
    <2>9. Right => Right'
      BY <1>1, <1>2, <1>4, <1>5, <1>8, <2>6, <2>7, <2>8 DEF Right
    <2>10. ClockTypes'
      <3>1. d[1] \in Clock!Years /\ d[2] \in 1 .. 12 /\ d[3] \in 1 .. 31
        BY <2>3 DEF Clock!IsDate
      <3>2. (w % 7) + 1 \in 1 .. 7 /\ shown + 1 \in Int
        BY <1>5
      <3> QED BY <2>3, <2>4, <2>6, <1>5, <1>6, <3>1, <3>2 DEF ClockTypes
    <2> QED BY <1>1, <1>2, <1>3, <1>4, <1>8, <2>3, <2>6, <2>7, <2>9, <2>10
  <1> QED BY <1>7, <1>8

\* An hour passes, during a call or not.
LEMMA HourKeeps ==
  ASSUME ClockInv, Clock!HourPasses
  PROVE  ClockInv'
  <1>1. /\ ClockTypes' /\ Now' = Now + 1 /\ (Right => Right')
        /\ reg.hour = 23 => /\ reg'.hour = 0
                            /\ Clock!DayNumber(Clock!Date') = Clock!DayNumber(Clock!Date) + 1
    BY HourStep DEF ClockInv
  <1>2. call' = call /\ read' = read /\ feb' = feb
    BY DEF Clock!HourPasses
  <1>3. result' = IF call = <<"idle">> THEN NONE ELSE result
    BY DEF Clock!HourPasses
  <1>4. call # <<"idle">> => reg.hour = 23
    BY DEF Clock!HourPasses
  <1>5. CASE CallIdle
    <2>1. CallIdle'
      BY <1>1, <1>2, <1>3, <1>5 DEF CallIdle
    <2> QED BY <1>1, <2>1 DEF ClockInv
  <1>6. reg.hour = 23 /\ call[1] \in {"date", "write", "change"} => slipped'
    BY DEF Clock!HourPasses
  <1>7. CASE CallDate
    <2>1. call # <<"idle">> /\ call[1] = "date"
      BY <1>7 DEF CallDate
    <2>2. slipped'
      BY <2>1, <1>4, <1>6
    <2>3. CallDate'
      BY <1>2, <1>3, <1>7, <2>1, <2>2 DEF CallDate
    <2> QED BY <1>1, <2>3 DEF ClockInv
  <1>8. CASE CallWrite
    <2>1. call # <<"idle">> /\ call[1] = "write"
      BY <1>8 DEF CallWrite
    <2>2. slipped'
      BY <2>1, <1>4, <1>6
    <2>3. CallWrite'
      BY <1>2, <1>3, <1>8, <2>1, <2>2 DEF CallWrite, Clock!Changed
    <2> QED BY <1>1, <2>3 DEF ClockInv
  <1>9. CASE CallChange
    <2>1. call # <<"idle">> /\ call[1] = "change"
      BY <1>9 DEF CallChange
    <2>2. slipped'
      BY <2>1, <1>4, <1>6
    <2>3. CallChange'
      BY <1>2, <1>3, <1>9, <2>1, <2>2 DEF CallChange
    <2> QED BY <1>1, <2>3 DEF ClockInv
  <1>10. CASE CallAsks
    <2>1. PICK what \in {"unixtime", "Germany", "timing"}, from \in Int, zone \in Clock!ZoneNumbers :
            Asked(what, from, zone)
      BY <1>10 DEF CallAsks
    <2>2. call # <<"idle">> /\ reg.hour = 23
      BY <2>1, <1>4 DEF Asked
    <2>3. Now = from
      BY <2>1, <2>2 DEF Asked
    <2>4. Asked(what, from, zone)'
      BY <1>1, <1>2, <2>1, <2>2, <2>3 DEF Asked
    <2> QED BY <1>1, <1>3, <1>10, <2>1, <2>2, <2>4 DEF ClockInv, CallAsks
  <1>11. CASE CallSummer
    <2>1. call # <<"idle">>
      BY <1>11 DEF CallSummer
    <2>2. result' = result
      BY <2>1, <1>3
    <2>3. Told(0, NONE)'
      BY <2>2, <1>2, <1>11 DEF CallSummer, Told
    <2>4. CallSummer'
      BY <1>1, <1>2, <1>11, <2>3 DEF CallSummer
    <2> QED BY <1>1, <2>4 DEF ClockInv
  <1> QED BY <1>5, <1>7, <1>8, <1>9, <1>10, <1>11 DEF ClockInv

\* The years of the chip, with and without their century.
LEMMA TwoDigits ==
  ASSUME NEW d, Clock!IsDate(d), d[1] > 2000, NEW e, e = <<d[1] % 100, d[2], d[3]>>
  PROVE  Clock!IsDate(e) /\ Clock!DayNumber(e) = Clock!DayNumber(d)
  <1>1. PICK y \in Clock!Years, m \in 1 .. 12, k \in 1 .. 31 : d = <<y, m, k>> /\ k \in 1 .. Days(y, m)
    BY ADate DEF Clock!IsDate
  <1>2. y \in 2001 .. 2067 /\ e = <<y % 100, m, k>>
    BY <1>1 DEF Clock!Years, Clock!LastYear
  <1>3. PICK z \in 1 .. 67 : z = y % 100 /\ z % 4 = y % 4 /\ z % 100 = z
    BY <1>2
  <1>4. z \in Clock!Years /\ y \in Clock!Years
    BY <1>1 DEF Clock!Years, Clock!LastYear
  <1>5. Days(z, m) = Days(y, m) /\ Days(z, 2) = Days(y, 2)
    BY <1>3 DEF Days
  <1>6. Clock!IsDate(e)
    BY <1>1, <1>3, <1>4, <1>5, <1>2, MonthLengths DEF Clock!IsDate
  <1>7. YearStart(z) = YearStart(y) /\ DaysTo(z, m) = DaysTo(y, m)
    BY <1>3, <1>5 DEF YearStart, DaysTo
  <1> QED BY <1>1, <1>3, <1>6, <1>7, <1>2, NumberOfParts

\* The same registers are the same date.
LEMMA SameDate ==
  ASSUME NEW hour, reg' = [reg EXCEPT !.hour = hour], ClockTypes
  PROVE  /\ Clock!Date' = Clock!Date /\ reg'.week = reg.week /\ reg'.hour = hour
         /\ hour \in 0 .. 23 =>
              reg' \in [year : Clock!Years, month : 1 .. 12, day : 1 .. 31, week : 1 .. 7, hour : 0 .. 23]
  BY DEF ClockTypes, Clock!Date

\* set_time() writes the hour.
LEMMA TimeSet ==
  ASSUME ClockInv, NEW d \in Dates, NEW hour \in SetHours, NEW century \in BOOLEAN,
         Clock!set_time(d, hour, century)
  PROVE  ClockInv'
  <1>1. Clock!IsDate(d) /\ d[1] > 2000 /\ hour \in 0 .. 23
    BY DatesAssumption, HoursAssumption
  <1>2. PICK e : e = <<IF century THEN d[1] ELSE d[1] % 100, d[2], d[3]>>
    OBVIOUS
  <1>3. Clock!IsDate(e) /\ Clock!DayNumber(e) = Clock!DayNumber(d)
    <2>1. CASE century
      BY <1>1, <1>2, <2>1, ADate
    <2>2. CASE ~century
      BY <1>1, <1>2, <2>2, TwoDigits
    <2> QED BY <2>1, <2>2
  <1>4. /\ shown' = Clock!Shows(d, hour) /\ reg' = [reg EXCEPT !.hour = hour] /\ call' = <<"date", e>>
        /\ read' = read /\ result' = NONE /\ feb' = feb /\ meztime' = meztime /\ slipped' = FALSE
    BY <1>2 DEF Clock!set_time, Clock!Sets
  <1>5. call = <<"idle">>
    BY DEF Clock!set_time, Clock!Sets
  <1>6. read = NONE
    BY <1>5, OneCall DEF CallIdle
  <1>7. reg'.hour = hour /\ Clock!Shows(e, hour) = shown' /\ shown' \in Int
    BY <1>1, <1>3, <1>4, SameDate, ShownIs DEF ClockInv
  <1>8. e \in Calendar
    BY <1>3 DEF Clock!IsDate, Calendar
  <1>9. CallDate'
    BY <1>3, <1>4, <1>6, <1>7, <1>8 DEF CallDate
  <1>10. ClockTypes'
    <2>1. ClockTypes
      BY DEF ClockInv
    <2>2. /\ Clock!Date' = Clock!Date
          /\ reg' \in [year : Clock!Years, month : 1 .. 12, day : 1 .. 31, week : 1 .. 7, hour : 0 .. 23]
      BY <2>1, <1>1, <1>4, SameDate
    <2> QED BY <2>1, <2>2, <1>4, <1>7 DEF ClockTypes
  <1> QED BY <1>9, <1>10 DEF ClockInv

\* What Put() writes.
LEMMA PutIs ==
  ASSUME ClockTypes, NEW d, Clock!IsDate(d), NEW w \in 1 .. 7, Clock!Put(d, w),
         feb' \in {28, 29}
  PROVE  /\ ClockTypes' /\ Clock!Date' = d /\ reg'.hour = reg.hour /\ reg'.week = w
         /\ call' = <<"idle">> /\ slipped' = slipped /\ shown' = shown /\ result' = result
  <1>1. reg' = [reg EXCEPT !.year = d[1], !.month = d[2], !.day = d[3], !.week = w]
    BY DEF Clock!Put
  <1>2. d = <<d[1], d[2], d[3]>> /\ d[1] \in Clock!Years /\ d[2] \in 1 .. 12 /\ d[3] \in 1 .. 31
    BY DEF Clock!IsDate
  <1>3. Clock!Date' = d /\ reg'.hour = reg.hour /\ reg'.week = w
    BY <1>1, <1>2 DEF Clock!Date, ClockTypes
  <1>4. reg' \in [year : Clock!Years, month : 1 .. 12, day : 1 .. 31, week : 1 .. 7, hour : 0 .. 23]
    BY <1>1, <1>2 DEF ClockTypes
  <1> QED BY <1>3, <1>4 DEF ClockTypes, Clock!Put

\* February has 28 or 29 days.
LEMMA FebruaryIs == ASSUME NEW y PROVE 28 + Clock!switch_years(y) \in {28, 29}
  BY DEF Clock!switch_years

\* The date is written after the time.
LEMMA DateSet ==
  ASSUME ClockInv, Clock!set_date
  PROVE  ClockInv'
  <1>1. CallDate
    BY OneCall DEF Clock!set_date
  <1>2. PICK d \in Calendar : /\ call = <<"date", d>> /\ Clock!IsDate(d)
                              /\ slipped \/ Clock!Shows(d, reg.hour) = shown
    BY <1>1 DEF CallDate
  <1>3. Clock!calculate_day_of_week(d[1], d[2], d[3]) = Clock!WeekDay(d)
    <2>1. d = <<d[1], d[2], d[3]>>
      BY DEF Calendar
    <2> QED BY <2>1, <1>2, DayOfWeek
  <1>4. PICK w \in 1 .. 7 : w = Clock!WeekDay(d)
    <2>1. PICK n \in Nat : n = Clock!DayNumber(d)
      BY <1>2, NumberOfDay
    <2>2. ((n + 5) % 7) + 1 \in 1 .. 7
      OBVIOUS
    <2> QED BY <2>1, <2>2 DEF Clock!WeekDay
  <1>5. Clock!Put(d, w) /\ feb' = 28 + Clock!switch_years(d[1]) /\ read' = read
    BY <1>2, <1>3, <1>4 DEF Clock!set_date
  <1>6. /\ ClockTypes' /\ Clock!Date' = d /\ reg'.hour = reg.hour /\ reg'.week = w
        /\ call' = <<"idle">> /\ slipped' = slipped /\ shown' = shown /\ result' = result
    BY <1>2, <1>5, PutIs, FebruaryIs DEF ClockInv
  <1>7. Right'
    BY <1>2, <1>4, <1>6 DEF Right, Now
  <1>8. CallIdle'
    BY <1>1, <1>5, <1>6, <1>7 DEF CallIdle, CallDate
  <1> QED BY <1>6, <1>8 DEF ClockInv

\* set_hours().
LEMMA HourSet ==
  ASSUME ClockInv, NEW hour \in SetHours, Clock!set_hours(hour)
  PROVE  ClockInv'
  <1>1. hour \in 0 .. 23
    BY HoursAssumption
  <1>2. /\ call = <<"idle">> /\ call' = call /\ read' = read /\ result' = NONE /\ feb' = feb
        /\ meztime' = meztime /\ slipped' = slipped /\ shown' = Clock!Shows(Clock!Date, hour)
        /\ reg' = [reg EXCEPT !.hour = hour]
    BY DEF Clock!set_hours, Clock!Sets
  <1>3. ClockTypes /\ CallIdle
    BY <1>2, OneCall DEF ClockInv
  <1>4. /\ Clock!Date' = Clock!Date /\ reg'.week = reg.week /\ reg'.hour = hour
        /\ reg' \in [year : Clock!Years, month : 1 .. 12, day : 1 .. 31, week : 1 .. 7, hour : 0 .. 23]
    BY <1>1, <1>2, <1>3, SameDate
  <1>5. shown' \in Int
    BY <1>1, <1>2, <1>3, ShownIs DEF ClockTypes
  <1>6. Right'
    BY <1>2, <1>3, <1>4 DEF Right, Now, CallIdle
  <1>7. ClockTypes'
    BY <1>2, <1>3, <1>4, <1>5 DEF ClockTypes
  <1>8. CallIdle'
    BY <1>2, <1>3, <1>6 DEF CallIdle
  <1> QED BY <1>7, <1>8 DEF ClockInv

\* The date with one field changed.
LEMMA ChangedIs ==
  ASSUME NEW d \in Calendar, NEW v \in Nat
  PROVE  /\ Clock!Changed(d, 1, v) = <<v, d[2], d[3]>>
         /\ Clock!Changed(d, 2, v) = <<d[1], v, d[3]>>
         /\ Clock!Changed(d, 3, v) = <<d[1], d[2], v>>
  BY DEF Clock!Changed, Calendar

\* set_days(), set_months() and set_years() read the date.
LEMMA ChangeBegins ==
  ASSUME ClockInv, NEW d \in Dates, NEW f \in 1 .. 3, Clock!change_date(f, d[f])
  PROVE  ClockInv'
  <1>1. Clock!IsDate(d) /\ d[1] \in Nat
    BY DatesAssumption, YearsAreShort DEF Clock!IsDate
  <1>2. PICK v : v = d[f]
    OBVIOUS
  <1>3. v \in Nat
    BY <1>1, <1>2 DEF Clock!IsDate
  <1>4. PICK e : e = Clock!Changed(Clock!Date, f, v)
    OBVIOUS
  <1>5. Clock!Date \in Calendar /\ Clock!IsDate(Clock!Date) /\ ClockTypes
    BY DEF ClockInv, ClockTypes, Clock!IsDate, Calendar
  <1>6. /\ e[3] <= Clock!Length(e[1], e[2]) /\ call = <<"idle">>
        /\ shown' = Clock!Shows(e, reg.hour) /\ slipped' = FALSE /\ result' = NONE
        /\ read' = Clock!Date /\ call' = <<"write", f, v>> /\ reg' = reg /\ feb' = feb
        /\ meztime' = meztime
    BY <1>2, <1>4 DEF Clock!change_date, Clock!Sets
  <1>7. e \in Calendar
    <2> DEFINE g == Clock!Date
    <2>1. g \in Calendar /\ g[1] \in Clock!Years /\ g[2] \in 1 .. 12 /\ g[3] \in 1 .. 31
      BY <1>5 DEF Calendar
    <2>2. d[1] \in Clock!Years /\ d[2] \in 1 .. 12 /\ d[3] \in 1 .. 31
      BY <1>1 DEF Clock!IsDate
    <2> HIDE DEF g
    <2>3. e = Clock!Changed(g, f, v)
      BY <1>4 DEF g
    <2>4. CASE f = 1
      BY <2>1, <2>2, <2>3, <2>4, <1>2, <1>3, ChangedIs DEF Calendar
    <2>5. CASE f = 2
      <3>1. e = <<g[1], v, g[3]>>
        BY <2>1, <2>3, <2>5, <1>3, ChangedIs
      <3>2. v = d[2]
        BY <1>2, <2>5
      <3> QED BY <2>1, <2>2, <3>1, <3>2 DEF Calendar
    <2>6. CASE f = 3
      <3>1. e = <<g[1], g[2], v>>
        BY <2>1, <2>3, <2>6, <1>3, ChangedIs
      <3>2. v = d[3]
        BY <1>2, <2>6
      <3> QED BY <2>1, <2>2, <3>1, <3>2 DEF Calendar
    <2> QED BY <2>4, <2>5, <2>6
  <1>8. Clock!IsDate(e)
    BY <1>6, <1>7 DEF Clock!IsDate, Calendar
  <1>9. Clock!Date' = Clock!Date /\ reg'.hour = reg.hour
    BY <1>6 DEF Clock!Date
  <1>10. shown' \in Int
    <2>1. reg.hour \in Int
      BY <1>5 DEF ClockTypes
    <2> QED BY <1>6, <1>8, <2>1, ShownIs
  <1>11. ClockTypes'
    BY <1>5, <1>6, <1>9, <1>10 DEF ClockTypes
  <1>12. Clock!Changed(read', f, v) = e /\ Clock!IsDate(read') /\ read' = Clock!Date'
    BY <1>4, <1>5, <1>6, <1>9
  <1>13. CallWrite'
    BY <1>3, <1>6, <1>8, <1>9, <1>12 DEF CallWrite, Clock!Changed
  <1> QED BY <1>11, <1>13 DEF ClockInv

\* A day of the week is one.
LEMMA WeekDayFits ==
  ASSUME NEW y \in Int, NEW m \in Int, NEW d \in Int
  PROVE  Clock!calculate_day_of_week(y, m, d) \in 1 .. 7
  <1>1. PICK mm \in Int : mm = IF m \in {1, 2} THEN m + 12 ELSE m
    OBVIOUS
  <1>2. PICK yy \in Int : yy = IF m \in {1, 2} THEN (y - 1) % 65536 ELSE y
    OBVIOUS
  <1>3. PICK n \in Int : n = d + 2 * mm + ((3 * (mm + 1)) \div 5) + yy + (yy \div 4) - (yy \div 100) + (yy \div 400)
    OBVIOUS
  <1>4. (n % 7) + 1 \in 1 .. 7
    OBVIOUS
  <1> QED BY <1>1, <1>2, <1>3, <1>4 DEF Clock!calculate_day_of_week

\* The day of the week is worked out.
LEMMA WeekDayRead ==
  ASSUME ClockInv, Clock!ChangeWeekDay
  PROVE  ClockInv'
  <1>1. ClockTypes /\ CallWrite
    BY OneCall DEF ClockInv, Clock!ChangeWeekDay
  <1>2. PICK f \in 1 .. 3, v \in Nat :
           /\ call = <<"write", f, v>>
           /\ Clock!IsDate(Clock!Changed(read, f, v))
           /\ slipped \/ (read = Clock!Date /\ Clock!Shows(Clock!Changed(read, f, v), reg.hour) = shown)
    BY <1>1 DEF CallWrite
  <1>3. PICK d : d = read
    OBVIOUS
  <1>4. Clock!IsDate(d) /\ d = <<d[1], d[2], d[3]>> /\ d \in Calendar
    BY <1>1, <1>3 DEF CallWrite, Clock!IsDate, Calendar
  <1>5. PICK e : e = Clock!Changed(Clock!Date, f, v)
    OBVIOUS
  <1>6. e[1] \in Int /\ e[2] \in Int /\ e[3] \in Int
    <2>1. PICK g \in Calendar : g = Clock!Date
      BY <1>1 DEF ClockTypes, Clock!IsDate, Calendar
    <2>2. g[1] \in Int /\ g[2] \in Int /\ g[3] \in Int
      BY YearsAreShort DEF Calendar
    <2> QED BY <1>5, <2>1, <2>2, ChangedIs
  <1>7. PICK w \in 1 .. 7 : w = Clock!calculate_day_of_week(e[1], e[2], e[3])
    BY <1>6, WeekDayFits
  <1>8. /\ read' = d /\ call' = <<"change", f, v, w>> /\ result' = result /\ reg' = reg
        /\ meztime' = meztime /\ shown' = shown /\ slipped' = slipped
    BY <1>2, <1>3, <1>5, <1>7 DEF Clock!ChangeWeekDay
  <1>9. feb' \in {28, 29}
    <2>1. feb \in {28, 29}
      BY <1>1 DEF ClockTypes
    <2>2. feb' = IF f = 1 THEN 28 + Clock!switch_years(v) ELSE feb
      BY <1>2 DEF Clock!ChangeWeekDay
    <2> QED BY <2>1, <2>2, FebruaryIs
  <1>10. slipped \/ (/\ w = Clock!WeekDay(Clock!Changed(d, f, v))
                     /\ Clock!Shows(Clock!Changed(d, f, v), reg.hour) = shown)
    <2> SUFFICES ASSUME ~slipped
                 PROVE  /\ w = Clock!WeekDay(Clock!Changed(d, f, v))
                        /\ Clock!Shows(Clock!Changed(d, f, v), reg.hour) = shown
      OBVIOUS
    <2>1. e = Clock!Changed(d, f, v) /\ Clock!IsDate(e)
      BY <1>2, <1>3, <1>5
    <2>2. e = <<e[1], e[2], e[3]>>
      BY <2>1 DEF Clock!IsDate
    <2>3. w = Clock!WeekDay(e)
      BY <1>7, <2>1, <2>2, DayOfWeek
    <2> QED BY <1>2, <1>3, <2>1, <2>3
  <1>11. Clock!Date' = Clock!Date
    BY <1>8 DEF Clock!Date
  <1>12. ClockTypes'
    BY <1>1, <1>8, <1>9, <1>11 DEF ClockTypes
  <1>13. Clock!IsDate(Clock!Changed(d, f, v)) /\ result' = NONE
    BY <1>1, <1>2, <1>3, <1>8 DEF CallWrite
  <1>14. CallChange'
    BY <1>4, <1>8, <1>10, <1>13 DEF CallChange, Clock!Changed
  <1> QED BY <1>12, <1>14 DEF ClockInv

\* The date is written back.
LEMMA DateWrittenBack ==
  ASSUME ClockInv, Clock!WriteBack
  PROVE  ClockInv'
  <1>1. ClockTypes /\ CallChange
    BY OneCall DEF ClockInv, Clock!WriteBack
  <1>2. PICK f \in 1 .. 3, v \in Nat, d \in Calendar, w \in 1 .. 7 :
          /\ call = <<"change", f, v, w>> /\ read = d
          /\ Clock!IsDate(Clock!Changed(d, f, v))
          /\ slipped \/ (/\ w = Clock!WeekDay(Clock!Changed(d, f, v))
                         /\ Clock!Shows(Clock!Changed(d, f, v), reg.hour) = shown)
    BY <1>1 DEF CallChange
  <1>3. PICK e : e = Clock!Changed(d, f, v)
    OBVIOUS
  <1>4. Clock!Put(e, w) /\ read' = NONE /\ feb' = feb
    BY <1>2, <1>3 DEF Clock!WriteBack
  <1>5. /\ ClockTypes' /\ Clock!Date' = e /\ reg'.hour = reg.hour /\ reg'.week = w
        /\ call' = <<"idle">> /\ slipped' = slipped /\ shown' = shown /\ result' = result
    <2>1. feb' \in {28, 29}
      BY <1>1, <1>4 DEF ClockTypes
    <2> QED BY <1>1, <1>2, <1>3, <1>4, <2>1, PutIs
  <1>6. Right'
    BY <1>2, <1>3, <1>5 DEF Right, Now
  <1>7. CallIdle'
    BY <1>1, <1>4, <1>5, <1>6 DEF CallIdle, CallChange
  <1> QED BY <1>5, <1>7 DEF ClockInv

\* unixtime(), Germany and timing are called.
LEMMA CallAsked ==
  ASSUME ClockInv, NEW what \in {"unixtime", "Germany", "timing"}, NEW zone \in Clock!ZoneNumbers,
         what # "unixtime" => zone = 0, Clock!Asks(what, zone)
  PROVE  ClockInv'
  <1>1. CallIdle /\ ClockTypes
    BY OneCall DEF Clock!Asks, ClockInv
  <1>2. PICK from \in Int : from = Now
    BY <1>1, ShownIs DEF ClockTypes, Now
  <1>3. /\ call' = <<what, from, zone>> /\ reg' = reg /\ feb' = feb /\ meztime' = meztime
        /\ read' = read /\ shown' = shown /\ slipped' = slipped /\ result' = result
    BY <1>2 DEF Clock!Asks, Now
  <1>4. Clock!Date' = Clock!Date
    BY <1>3 DEF Clock!Date
  <1>5. ClockTypes'
    BY <1>1, <1>3, <1>4 DEF ClockTypes
  <1>6. Now' = Now /\ Right'
    BY <1>1, <1>3, <1>4 DEF Now, Right, CallIdle
  <1>7. Asked(what, from, zone)'
    BY <1>1, <1>2, <1>3, <1>6 DEF Asked, CallIdle
  <1>8. result' = NONE
    BY <1>3 DEF Clock!Asks
  <1>9. CallAsks'
    BY <1>6, <1>7, <1>8 DEF CallAsks
  <1> QED BY <1>5, <1>9 DEF ClockInv

\* The calls that read are no other.
LEMMA ReadingCalls ==
  ASSUME ClockInv, call[1] \in Clock!Reading
  PROVE  CallAsks \/ CallSummer
  BY OneCall DEF Clock!Reading

\* current_date().
LEMMA DateRead ==
  ASSUME ClockInv, Clock!current_date
  PROVE  ClockInv'
  <1>1. /\ call' = call /\ reg' = reg /\ feb' = feb /\ meztime' = meztime
        /\ read = NONE /\ read' = Clock!Date /\ shown' = shown /\ slipped' = slipped /\ result' = result
    BY DEF Clock!current_date
  <1>2. Clock!Date' = Clock!Date /\ Now' = Now
    BY <1>1 DEF Clock!Date, Now
  <1>3. ClockTypes' /\ Clock!IsDate(read')
    BY <1>1, <1>2 DEF ClockTypes, ClockInv
  <1>4. Right => Right'
    BY <1>1, <1>2 DEF Right
  <1>5. CASE CallAsks
    <2>1. PICK what \in {"unixtime", "Germany", "timing"}, from \in Int, zone \in Clock!ZoneNumbers :
            Asked(what, from, zone)
      BY <1>5 DEF CallAsks
    <2>2. Asked(what, from, zone)'
      BY <1>1, <1>2, <1>3, <2>1 DEF Asked
    <2>3. CallAsks'
      BY <1>1, <1>4, <1>5, <2>2 DEF CallAsks
    <2> QED BY <1>3, <2>3 DEF ClockInv
  <1>6. CASE CallSummer
    <2>1. Told(0, NONE)'
      BY <1>1, <1>6 DEF CallSummer, Told
    <2>2. CallSummer'
      BY <1>1, <1>3, <1>4, <1>6, <2>1 DEF CallSummer
    <2> QED BY <1>3, <2>2 DEF ClockInv
  <1> QED BY <1>5, <1>6, ReadingCalls DEF Clock!current_date

\* What unixtime() works out of the two registers.
LEMMA UnixTold ==
  ASSUME ClockTypes, NEW what, NEW from \in Int, NEW zone \in Clock!ZoneNumbers,
         Asked(what, from, zone), read # NONE,
         result' = [ticks |-> 4 * (Clock!UnixDays(read) * 24 + reg.hour) - Clock!Quarters(zone),
                    zone |-> zone, summer |-> NONE, read |-> read, hour |-> reg.hour,
                    first |-> read, from |-> from, until |-> Clock!Shows(Clock!Date, reg.hour)],
         feb' = feb
  PROVE  Told(zone, NONE)'
  <1>1. PICK d \in Calendar : d = read /\ Clock!IsDate(d)
    BY DEF Asked, Clock!IsDate, Calendar
  <1>2. PICK n \in Nat : n = Clock!DayNumber(d)
    BY <1>1, NumberOfDay
  <1>3. PICK l \in {0, 1} : l = Late(feb, d[2])
    BY DEF Late
  <1>4. PICK h \in 0 .. 23 : h = reg.hour
    BY DEF ClockTypes
  <1>5. PICK q \in Int : q = Clock!Quarters(zone) /\ q = Clock!ZoneIs(zone)
    BY ZonesAre
  <1>6. PICK until \in Int : until = Clock!Shows(Clock!Date, reg.hour) /\ until = Now
    BY <1>4, ShownIs DEF ClockTypes, Now
  <1>7. PICK ticks \in Int : ticks = 4 * ((n + l) * 24 + h) - q
    BY <1>3, <1>4, <1>5
  <1>8. Clock!UnixDays(read) = n + l
    BY <1>1, <1>2, <1>3, UnixDaysAre DEF ClockTypes
  <1>9. result' = [ticks |-> ticks, zone |-> zone, summer |-> NONE, read |-> d, hour |-> h,
                   first |-> d, from |-> from, until |-> until]
    BY <1>1, <1>4, <1>5, <1>6, <1>7, <1>8
  <1>10. PICK i \in Int : i = n * 24 + h
    BY <1>4
  <1>11. ticks + q = 4 * (i + 24 * l)
    BY <1>3, <1>4, <1>5, <1>7, <1>10
  <1>12. i \in (from .. until) \cup {from - 23}
    <2>1. CASE d = Clock!Date
      <3>1. Now = i
        BY <2>1, <1>1, <1>2, <1>4, <1>10, ShownIs DEF Now
      <3>2. Now = from \/ Now = from + 1
        BY DEF Asked
      <3> QED BY <3>1, <3>2, <1>6
    <2>2. CASE d # Clock!Date
      <3>1. /\ Clock!DayNumber(Clock!Date) = n + 1 /\ Now = from + 1 /\ h = 0
        BY <2>2, <1>1, <1>2, <1>4 DEF Asked
      <3>2. Now = 24 * (n + 1) + 0
        BY <3>1, <1>4, ShownIs DEF Now, ClockTypes
      <3> QED BY <3>1, <3>2, <1>10
    <2> QED BY <2>1, <2>2
  <1>13. UtcIs(ticks, zone, d, from, until, feb)
    BY <1>3, <1>5, <1>11, <1>12 DEF UtcIs
  <1>14. UtcIs(ticks, zone, d, from, until, feb')
    BY <1>13
  <1> QED BY <1>9, <1>14 DEF Told

\* And summertime() of what unixtime() told.
LEMMA SummerTold ==
  ASSUME ClockTypes, Told(0, NONE), read # NONE, Clock!IsDate(read), NEW zone \in 0 .. 2,
         result' = [result EXCEPT !.zone = zone, !.ticks = @ - Clock!Quarters(zone),
                                  !.summer = Clock!InSummer(read, reg.hour),
                                  !.read = read, !.hour = reg.hour],
         feb' = feb
  PROVE  \E summer \in BOOLEAN : Told(zone, summer)'
  <1>1. PICK ticks \in Int, d \in Calendar, hour \in 0 .. 23, first \in Calendar, from \in Int, until \in Int :
          /\ result = [ticks |-> ticks, zone |-> 0, summer |-> NONE, read |-> d, hour |-> hour,
                       first |-> first, from |-> from, until |-> until]
          /\ UtcIs(ticks, 0, first, from, until, feb)
    BY DEF Told
  <1>2. zone \in Clock!ZoneNumbers /\ Clock!ZoneIs(0) = 0
    BY DEF Clock!ZoneNumbers, Clock!ZoneIs
  <1>3. PICK q \in Int : q = Clock!Quarters(zone) /\ q = Clock!ZoneIs(zone)
    BY <1>2, ZonesAre
  <1>4. PICK e \in Calendar : e = read
    BY DEF Clock!IsDate, Calendar
  <1>5. PICK h \in 0 .. 23 : h = reg.hour
    BY DEF ClockTypes
  <1>6. PICK s \in BOOLEAN : s = Clock!InSummer(read, reg.hour)
    BY DEF Clock!InSummer
  <1>7. result' = [ticks |-> ticks - q, zone |-> zone, summer |-> s, read |-> e, hour |-> h,
                   first |-> first, from |-> from, until |-> until]
    BY <1>1, <1>3, <1>4, <1>5, <1>6
  <1>8. UtcIs(ticks - q, zone, first, from, until, feb)
    BY <1>1, <1>2, <1>3 DEF UtcIs
  <1>9. SummerIs(e, h, s)
    <2>1. SummerIs(e, h, Clock!InSummer(e, h))
      BY <1>4, <1>5, SummerRule DEF ClockTypes
    <2> QED BY <2>1, <1>4, <1>5, <1>6
  <1>10. ticks - q \in Int
    OBVIOUS
  <1> QED BY <1>7, <1>8, <1>9, <1>10 DEF Told

\* current_time() and what follows from it.
LEMMA TimeRead ==
  ASSUME ClockInv, Clock!current_time
  PROVE  ClockInv'
  <1>1. /\ call[1] \in Clock!Reading /\ read # NONE /\ read' = NONE
        /\ reg' = reg /\ feb' = feb /\ shown' = shown /\ slipped' = slipped
        /\ call' = IF call[1] = "Germany" THEN <<"summertime">> ELSE <<"idle">>
    BY DEF Clock!current_time
  <1>2. Clock!Date' = Clock!Date /\ Now' = Now
    BY <1>1 DEF Clock!Date, Now
  <1>3. Right => Right'
    BY <1>1, <1>2 DEF Right
  <1>4. Clock!summertime(read, reg.hour) \in {-1, 0, 1}
    BY DEF Clock!summertime, ClockInv, ClockTypes
  <1>5. ClockTypes'
    <2>1. meztime' \in {-1, 0, 1}
      BY DEF Clock!current_time, ClockInv, ClockTypes
    <2> QED BY <1>1, <1>2, <2>1 DEF ClockInv, ClockTypes
  <1>6. CASE CallSummer
    <2>1. call[1] = "summertime"
      BY <1>6 DEF CallSummer
    <2>2. PICK zone \in 0 .. 2 : zone = 1 + Clock!summertime(read, reg.hour)
      BY <1>4
    <2>3. result' = [result EXCEPT !.zone = zone, !.ticks = @ - Clock!Quarters(zone),
                                   !.summer = Clock!InSummer(read, reg.hour),
                                   !.read = read, !.hour = reg.hour]
      BY <2>1, <2>2 DEF Clock!current_time
    <2>4. PICK summer \in BOOLEAN : Told(zone, summer)'
      BY <1>1, <1>6, <2>3, SummerTold DEF CallSummer, ClockInv
    <2>5. zone \in Clock!ZoneNumbers
      BY DEF Clock!ZoneNumbers
    <2>6. CallIdle'
      BY <1>1, <1>3, <1>6, <2>1, <2>4, <2>5 DEF CallIdle, CallSummer
    <2> QED BY <1>5, <2>6 DEF ClockInv
  <1>7. CASE CallAsks
    <2>1. PICK what \in {"unixtime", "Germany", "timing"}, from \in Int, zone \in Clock!ZoneNumbers :
            Asked(what, from, zone)
      BY <1>7 DEF CallAsks
    <2>2. call[1] = what /\ call[2] = from /\ call[3] = zone
      BY <2>1 DEF Asked
    <2>3. CASE what = "timing"
      <3>1. result' = NONE
        BY <2>2, <2>3, <1>7 DEF Clock!current_time, CallAsks
      <3>2. CallIdle'
        BY <1>1, <1>3, <1>7, <2>2, <2>3, <3>1 DEF CallIdle, CallAsks
      <3> QED BY <1>5, <3>2 DEF ClockInv
    <2>4. CASE what # "timing"
      <3>1. result' = [ticks |-> 4 * (Clock!UnixDays(read) * 24 + reg.hour) - Clock!Quarters(zone),
                       zone |-> zone, summer |-> NONE, read |-> read, hour |-> reg.hour,
                       first |-> read, from |-> from, until |-> Clock!Shows(Clock!Date, reg.hour)]
        BY <2>2, <2>4 DEF Clock!current_time
      <3>2. Told(zone, NONE)'
        BY <1>1, <2>1, <3>1, UnixTold DEF ClockInv
      <3>3. CASE what = "Germany"
        <4>1. zone = 0
          BY <2>1, <3>3 DEF Asked
        <4>2. CallSummer'
          BY <1>1, <1>3, <1>7, <2>2, <3>2, <3>3, <4>1 DEF CallSummer, CallAsks
        <4> QED BY <1>5, <4>2 DEF ClockInv
      <3>4. CASE what = "unixtime"
        <4>1. CallIdle'
          BY <1>1, <1>3, <1>7, <2>2, <3>2, <3>4 DEF CallIdle, CallAsks
        <4> QED BY <1>5, <4>1 DEF ClockInv
      <3> QED BY <2>4, <3>3, <3>4
    <2> QED BY <2>3, <2>4
  <1> QED BY <1>1, <1>6, <1>7, ReadingCalls

\* Every step of the clock keeps the invariant.
LEMMA ClockNext ==
  ASSUME ClockInv, Clock!Next
  PROVE  ClockInv'
  <1>1. CASE Clock!HourPasses
    BY <1>1, HourKeeps
  <1>2. CASE Clock!set_date
    BY <1>2, DateSet
  <1>3. CASE Clock!ChangeWeekDay
    BY <1>3, WeekDayRead
  <1>4. CASE Clock!WriteBack
    BY <1>4, DateWrittenBack
  <1>5. CASE Clock!current_date
    BY <1>5, DateRead
  <1>6. CASE Clock!current_time
    BY <1>6, TimeRead
  <1>7. ASSUME NEW d \in Dates, NEW h \in SetHours, NEW c \in BOOLEAN, Clock!set_time(d, h, c)
        PROVE  ClockInv'
    BY <1>7, TimeSet
  <1>8. ASSUME NEW d \in Dates, NEW f \in 1 .. 3, Clock!change_date(f, d[f])
        PROVE  ClockInv'
    BY <1>8, ChangeBegins
  <1>9. ASSUME NEW h \in SetHours, Clock!set_hours(h)
        PROVE  ClockInv'
    BY <1>9, HourSet
  <1>10. ASSUME NEW zone \in Zones, Clock!Asks("unixtime", zone)
         PROVE  ClockInv'
    BY <1>10, CallAsked, ZonesAssumption
  <1>11. ASSUME NEW what \in {"Germany", "timing"}, Clock!Asks(what, 0)
         PROVE  ClockInv'
    <2>1. 0 \in Clock!ZoneNumbers
      BY DEF Clock!ZoneNumbers
    <2> QED BY <1>11, <2>1, CallAsked
  <1> QED BY <1>1, <1>2, <1>3, <1>4, <1>5, <1>6, <1>7, <1>8, <1>9, <1>10, <1>11 DEF Clock!Next

\* The steps of the other parts.
LEMMA ClockStays == ASSUME ClockInv, UNCHANGED clockVars PROVE ClockInv'
  <1>1. /\ reg' = reg /\ feb' = feb /\ meztime' = meztime /\ call' = call /\ read' = read
        /\ shown' = shown /\ slipped' = slipped /\ result' = result
    BY DEF clockVars
  <1>2. Clock!Date' = Clock!Date /\ Now' = Now
    BY <1>1 DEF Clock!Date, Now
  <1>3. ClockTypes' /\ (Right <=> Right')
    BY <1>1, <1>2 DEF ClockTypes, Right, ClockInv
  <1>4. \A zone \in Clock!ZoneNumbers, summer \in BOOLEAN \cup {NONE} :
          Told(zone, summer) => Told(zone, summer)'
    BY <1>1 DEF Told
  <1>5. 0 \in Clock!ZoneNumbers
    BY DEF Clock!ZoneNumbers
  <1>6. CallIdle => CallIdle'
    BY <1>1, <1>3, <1>4 DEF CallIdle
  <1>7. CallDate => CallDate'
    BY <1>1 DEF CallDate
  <1>8. CallWrite => CallWrite'
    BY <1>1, <1>2 DEF CallWrite, Clock!Changed
  <1>9. CallChange => CallChange'
    BY <1>1 DEF CallChange, Clock!Changed
  <1>10. CallAsks => CallAsks'
    <2> SUFFICES ASSUME CallAsks PROVE CallAsks'
      OBVIOUS
    <2>1. PICK what \in {"unixtime", "Germany", "timing"}, from \in Int, zone \in Clock!ZoneNumbers :
            Asked(what, from, zone)
      BY DEF CallAsks
    <2>2. Asked(what, from, zone)'
      BY <1>1, <1>2, <2>1 DEF Asked
    <2> QED BY <1>1, <1>3, <2>2 DEF CallAsks
  <1>11. CallSummer => CallSummer'
    BY <1>1, <1>3, <1>4, <1>5 DEF CallSummer
  <1> QED BY <1>3, <1>6, <1>7, <1>8, <1>9, <1>10, <1>11 DEF ClockInv

-------------------------------------------------------------------------------
\* The theorem.  Each part steps by itself while the others stand still.
LEMMA ClockHolds == Spec => []ClockInv
  <1>1. Init => ClockInv
    BY ClockStarts DEF Init
  <1>2. ClockInv /\ [Next]_<<level, cardVars, configVars, nodeVars, clockVars, timeVars,
                             driverVars, smartVars>> => ClockInv'
    <2> SUFFICES ASSUME ClockInv,
                        [Next]_<<level, cardVars, configVars, nodeVars, clockVars, timeVars,
                                 driverVars, smartVars>>
                 PROVE  ClockInv'
      OBVIOUS
    <2>1. CASE UNCHANGED clockVars
      BY <2>1, ClockStays
    <2>2. CASE Rest("clock") /\ Clock!Next
      BY <2>2, ClockNext
    <2>3. UNCHANGED clockVars \/ (Rest("clock") /\ Clock!Next)
      BY DEF Next, Rest
    <2> QED BY <2>1, <2>2, <2>3
  <1> QED BY <1>1, <1>2, PTL DEF Spec

LEMMA TimeHolds == Spec => []TimeInv
  <1>1. Init => TimeInv
    BY TimeStarts DEF Init
  <1>2. TimeInv /\ [Next]_<<level, cardVars, configVars, nodeVars, clockVars, timeVars,
                            driverVars, smartVars>> => TimeInv'
    <2> SUFFICES ASSUME TimeInv,
                        [Next]_<<level, cardVars, configVars, nodeVars, clockVars, timeVars,
                                 driverVars, smartVars>>
                 PROVE  TimeInv'
      OBVIOUS
    <2>1. CASE UNCHANGED timeVars
      BY <2>1, TimeStays
    <2>2. CASE Rest("time") /\ Time!Next
      BY <2>2, TimeNext
    <2>3. UNCHANGED timeVars \/ (Rest("time") /\ Time!Next)
      BY DEF Next, Rest
    <2> QED BY <2>1, <2>2, <2>3
  <1> QED BY <1>1, <1>2, PTL DEF Spec

\* For any dates, hours and zones, any number of settings, any width of the words of
\* a time stamp and any delays on the way.  The chip shows the time that the calls set
\* and the right day of the week, unless an hour went by while a call was changing its
\* date; unixtime() tells an hour of the call, or one 23 hours before it when midnight
\* passed between its readings, and in leap years from March on a day late;
\* summertime() follows the rule but on the first days of April and in the first hours
\* of November (RealTimeClock_DS1307.cpp).  A synchronisation leaves the clock off by
\* at most half the journey and four and a half seconds, or it took the two
\* differences for opposite signs and the clock is off by half an era less that; if
\* millis() started again while the packet was away, this holds of a time that is behind
\* by half of what it lost; and the date of a time stamp is that of its day (sntp.cpp).
THEOREM ClocksTellRight == Spec => []ClocksTell
  <1>1. ClockInv /\ TimeInv => ClocksTell
    <2> SUFFICES ASSUME ClockInv, TimeInv PROVE ClocksTell
      OBVIOUS
    <2>1. Clock!KeepsTime /\ Clock!UnixTimeTells /\ Clock!SummerTells
      BY ClockSaysRight
    <2>2. Time!SyncTells /\ Time!DateTells
      BY DEF TimeInv
    <2> QED BY <2>1, <2>2 DEF ClocksTell
  <1> QED BY <1>1, ClockHolds, TimeHolds, PTL
===============================================================================
