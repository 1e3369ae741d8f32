------------------------------- MODULE Clock -------------------------------
(* time() and gmtime_r() over a reading of the chip: the bytes decoded by   *)
(* the chip's mode, the seconds since 1970, the day of the week.            *)
EXTENDS RtcRead, Integers

(* The chip: a date, and how it writes numbers and hours.                   *)
MonthLength(y, m) ==
  IF m = 2 THEN IF y % 4 = 0 /\ (y % 100 # 0 \/ y % 400 = 0) THEN 29 ELSE 28
  ELSE IF m \in {4, 6, 9, 11} THEN 30 ELSE 31

Day(c) == [year |-> c.year, month |-> c.month, day |-> c.day]
NextDay(d) ==
  IF d.day < MonthLength(d.year, d.month) THEN [d EXCEPT !.day = @ + 1]
  ELSE IF d.month < 12 THEN [d EXCEPT !.day = 1, !.month = @ + 1]
  ELSE [day |-> 1, month |-> 1, year |-> d.year + 1]

(* i seconds after the clock was set; i is less than a day.                 *)
Moment(c, i) ==
  LET s == c.seconds + i
      d == IF s < 86400 THEN Day(c) ELSE NextDay(Day(c))
  IN [year |-> d.year, month |-> d.month, day |-> d.day,
      hour |-> (s \div 3600) % 24, minute |-> (s \div 60) % 60, second |-> s % 60]

(* Hours of a chip that counts to 12 run 12, 1, ..., 11 twice; bit 7 tells  *)
(* the second time.                                                         *)
Digits(c, n) == IF c.binary THEN n ELSE 16 * (n \div 10) + (n % 10)
HourByte(c, h) ==
  IF c.to24 THEN Digits(c, h)
  ELSE Digits(c, IF h % 12 = 0 THEN 12 ELSE h % 12) + IF h >= 12 THEN 128 ELSE 0

ChipByte(c, i, r) ==
  LET m == Moment(c, i) IN
  CASE r = "hour" -> HourByte(c, m.hour)
    [] r = "year" -> Digits(c, m.year % 100)
    [] OTHER -> Digits(c, m[r])

(* The clocks are chips whose years have two digits, and a call takes less  *)
(* than a day.                                                              *)
Settings == [year : 2000 .. 2099, month : 1 .. 12, day : 1 .. 31, seconds : Nat,
             binary : BOOLEAN, to24 : BOOLEAN]
Chips ==
  {c \in Settings : /\ c.day <= MonthLength(c.year, c.month) /\ c.seconds < 86400
                    /\ Moment(c, MaxTicks).year < 2100}

ASSUME ChipsAssumption == Clocks \subseteq Chips /\ MaxTicks < 86400
ASSUME RegistersAssumption ==
  \A c \in Clocks : \A i \in 0 .. MaxTicks : \A r \in 1 .. Count :
    RegisterAt(c, i, Registers[r]) = ChipByte(c, i, Registers[r])

----------------------------------------------------------------------------
(* read_rtc() behind the loop.  Of a noon or midnight in the 12-hour mode   *)
(* it makes the other one.                                                  *)
FromBcd(b) == (b % 16) + 10 * (b \div 16)
Binary(r, b) ==
  IF clock.binary THEN b
  ELSE IF r = "hour" THEN FromBcd(b % 128) + 128 * (b \div 128)
  ELSE FromBcd(b)
(* MUTANT: midnight after noon is not taken off.                           *)
HourPast24(b) == IF ~clock.to24 /\ b >= 128 THEN (b % 128) + 12 ELSE b

Hour24(b) == IF ~clock.to24 /\ b >= 128 THEN ((b % 128) + 12) % 24 ELSE b

Field(r) ==
  LET k == CHOOSE n \in 1 .. Count : Registers[n] = r IN Binary(r, read[k])

Result ==
  [second |-> Field("second"), minute |-> Field("minute"), hour |-> Hour24(Field("hour")),
   day |-> Field("day"), month |-> Field("month"), year |-> Field("year") + 2000]

(* time(): the macro for leap years adds 1970 to a year that is one already,*)
(* and the day of the month is counted from one.                            *)
IsLeapYearUNIX(y) == (1970 + y) % 4 = 0 /\ ((1970 + y) % 100 # 0 \/ (1970 + y) % 400 = 0)
IsLeapYear(y) == y % 4 = 0 /\ (y % 100 # 0 \/ y % 400 = 0)
monthDays == <<31, 28, 31, 30, 31, 30, 31, 31, 30, 31, 30, 31>>
Total(d, first, last) ==
  LET total[n \in first - 1 .. last] == IF n = first - 1 THEN 0 ELSE total[n - 1] + d[n]
  IN total[last]
LeapsBefore(year) ==
  Total([y \in 1971 .. year |-> IF IsLeapYearUNIX(y) THEN 1 ELSE 0], 1971, year - 1)
DaysBefore(year, month) ==
  Total([monthDays EXCEPT ![2] = IF IsLeapYear(year) THEN 29 ELSE @], 1, month - 1)

DaysCounted(t) ==
  365 * (t.year - 1970) + LeapsBefore(t.year) + DaysBefore(t.year, t.month) + t.day

time(t) == 86400 * DaysCounted(t) + 3600 * t.hour + 60 * t.minute + t.second

(* gmtime_r(): the day of the week, 0 for Sunday.                           *)
weekdays == <<0, 3, 2, 5, 0, 3, 5, 1, 4, 6, 2, 4>>
wday(t) ==
  LET y == IF t.month < 3 THEN t.year - 1 ELSE t.year
  IN (y + y \div 4 - y \div 100 + y \div 400 + weekdays[t.month] + t.day) % 7

----------------------------------------------------------------------------
(* Days since 1 January 1970, a Thursday.                                   *)
DaysTo(year) == Total([y \in 1970 .. year |-> 337 + MonthLength(y, 2)], 1970, year - 1)
DaysInto(year, month) == Total([m \in 1 .. 12 |-> MonthLength(year, m)], 1, month - 1)
DaysSince(t) == DaysTo(t.year) + DaysInto(t.year, t.month) + t.day - 1

(* The other half of the day, when a 12-hour chip says 12.                  *)
HourRead(h) == IF clock.to24 \/ h % 12 # 0 THEN h ELSE (h + 12) % 24

(* A call of time() tells a moment of the call in every mode of the chip,   *)
(* but for two faults: noon and midnight change places in the 12-hour mode, *)
(* and in two years of four, the leap years and those before them, it is a  *)
(* day ahead.  So it steps back a day at the end of a leap year, and ahead  *)
(* a day at the end of the second year after one; and a wait across the end *)
(* of a leap year lasts a day longer (time.c 70-94, 153-178, 183-198;       *)
(* kprintf.c 53-55, kprint.swift 101).                                      *)
TimeTold ==
  pc = "done" =>
    \E i \in began .. tick :
      LET m == Moment(clock, i)
          shown == [m EXCEPT !.hour = HourRead(@)]
          ahead == IF m.year % 4 \in {1, 2} THEN 0 ELSE 1
      IN /\ Result = shown
         /\ time(Result) = 86400 * (DaysSince(m) + ahead)
                           + 3600 * shown.hour + 60 * m.minute + m.second
         /\ wday(Result) = (DaysSince(m) + 4) % 7
=============================================================================
