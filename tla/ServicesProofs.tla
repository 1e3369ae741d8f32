--------------------------- MODULE ServicesProofs ---------------------------
(* Proofs about small services that share no state: the reading of the      *)
(* clock chip and what is made of it, the entries of traps and interrupts,  *)
(* copies to the screen, the two USB controllers, the keyboard, the iterator *)
(* over the children of a node of the device tree.                          *)
EXTENDS Clock, TrapEntry, CopyWindow, UsbHosts, Keyboard, DeviceTree, FiniteSetTheorems,
        TLAPS

----------------------------------------------------------------------------
(* The reading of the clock chip is never torn: for every clock whose       *)
(* seconds differ during a call, two equal readings in a row are what the   *)
(* chip showed at one moment.  The second is read first: a reading during   *)
(* which the chip ticked has a second that is over when the next begins.    *)

RtcTypeOK ==
  /\ clock \in Clocks
  /\ tick \in 0 .. MaxTicks
  /\ updating => tick < MaxTicks
  /\ pc \in {"idle", "wait", "read", "done"} /\ next \in 1 .. Count + 1
  /\ read \in [1 .. Count -> 0 .. 255] /\ previous \in [1 .. Count -> 0 .. 255]
  /\ began \in 0 .. tick

SecondAt(i) == RegisterAt(clock, i, "second")

(* The reading under way: its second was shown at tick a, and if the chip   *)
(* has not ticked since, the rest was read in the same tick.                *)
Current ==
  pc = "read" /\ next > 1 =>
    \E a \in began .. tick :
      /\ read[1] = SecondAt(a)
      /\ a = tick => \A r \in 1 .. next - 1 : read[r] = RegisterAt(clock, a, Registers[r])

(* The reading before: whole, or its second is over when the next one's is  *)
(* read.                                                                    *)
OverBy(p) ==
  IF pc = "read" /\ next > 1
  THEN \A i \in 0 .. MaxTicks : read[1] = SecondAt(i) => p < i
  ELSE p < tick

Before ==
  again /\ pc # "done" =>
    \E p \in began .. tick :
      /\ previous[1] = SecondAt(p)
      /\ previous = Shown(p) \/ OverBy(p)

RtcIInv == RtcTypeOK /\ Current /\ Before /\ ReadingWhole

LEMMA SixRegisters == Count = 6 /\ Registers[1] = "second"
  BY DEF Count, Registers

LEMMA Starts == RtcInit => RtcIInv
<1> SUFFICES ASSUME RtcInit PROVE RtcIInv
  OBVIOUS
<1>1. [r \in 1 .. Count |-> 0] \in [1 .. Count -> 0 .. 255]
  OBVIOUS
<1>2. RtcTypeOK
  BY <1>1, MaxTicksAssumption, SixRegisters DEF RtcInit, RtcTypeOK
<1> QED
  BY <1>2 DEF RtcInit, RtcIInv, Current, Before, ReadingWhole

LEMMA TypeKept == RtcTypeOK /\ [RtcNext]_rtcVars => RtcTypeOK'
<1> SUFFICES ASSUME RtcTypeOK, [RtcNext]_rtcVars PROVE RtcTypeOK'
  OBVIOUS
<1>1. CASE UpdateNears
  BY <1>1, MaxTicksAssumption, SixRegisters DEF UpdateNears, RtcTypeOK
<1>2. CASE Tick
  BY <1>2, MaxTicksAssumption, SixRegisters DEF Tick, RtcTypeOK
<1>3. CASE Call
  BY <1>3, SixRegisters, MaxTicksAssumption DEF Call, RtcTypeOK
<1>4. CASE SeeNoUpdate
  BY <1>4, SixRegisters DEF SeeNoUpdate, RtcTypeOK
<1>5. CASE ReadRegister
  <2>0. clock \in Clocks /\ tick \in 0 .. MaxTicks /\ next \in 1 .. Count
    BY <1>5, SixRegisters DEF ReadRegister, RtcTypeOK
  <2>1. RegisterAt(clock, tick, Registers[next]) \in 0 .. 255
    BY <2>0, BytesAssumption, Zenon
  <2> QED
    BY <1>5, <2>1, SixRegisters DEF ReadRegister, RtcTypeOK
<1>6. CASE Compare
  BY <1>6 DEF Compare, RtcTypeOK
<1>7. CASE UNCHANGED rtcVars
  BY <1>7 DEF rtcVars, RtcTypeOK
<1> QED
  BY <1>1, <1>2, <1>3, <1>4, <1>5, <1>6, <1>7 DEF RtcNext

LEMMA CurrentKept == RtcIInv /\ [RtcNext]_rtcVars => Current'
<1> SUFFICES ASSUME RtcIInv, [RtcNext]_rtcVars PROVE Current'
  OBVIOUS
<1>0. RtcTypeOK /\ Current
  BY DEF RtcIInv
<1>1. CASE UpdateNears
  BY <1>0, <1>1 DEF UpdateNears, Current, SecondAt
<1>2. CASE Tick
  <2>1. SUFFICES ASSUME pc = "read", next > 1
                 PROVE  \E a \in began .. tick' : read[1] = SecondAt(a) /\ a # tick'
    BY <1>2 DEF Tick, Current, SecondAt
  <2>2. PICK a \in began .. tick : read[1] = SecondAt(a)
    BY <1>0, <2>1 DEF Current
  <2> QED
    BY <1>0, <1>2, <2>2, MaxTicksAssumption DEF Tick, RtcTypeOK
<1>3. CASE Call
  BY <1>3 DEF Call, Current
<1>4. CASE SeeNoUpdate
  BY <1>4 DEF SeeNoUpdate, Current
<1>5. CASE ReadRegister
  <2>1. CASE next = 1
    <3>1. read'[1] = SecondAt(tick) /\ next' = 2
      BY <1>0, <1>5, <2>1, SixRegisters DEF ReadRegister, RtcTypeOK, SecondAt
    <3>2. tick \in began .. tick
      BY <1>0, MaxTicksAssumption DEF RtcTypeOK
    <3> QED
      BY <1>5, <3>1, <3>2, SixRegisters DEF ReadRegister, Current, SecondAt
  <2>2. CASE next # 1
    <3>1. next > 1 /\ next \in 1 .. 6
      BY <1>0, <1>5, <2>2, SixRegisters DEF ReadRegister, RtcTypeOK
    <3>2. PICK a \in began .. tick :
            /\ read[1] = SecondAt(a)
            /\ a = tick => \A r \in 1 .. next - 1 : read[r] = RegisterAt(clock, a, Registers[r])
      BY <1>0, <1>5, <3>1 DEF ReadRegister, Current
    <3>3. read'[1] = read[1] /\ read'[next] = RegisterAt(clock, tick, Registers[next])
          /\ \A r \in 1 .. next - 1 : read'[r] = read[r]
      BY <1>0, <1>5, <3>1, SixRegisters DEF ReadRegister, RtcTypeOK
    <3>4. a = tick => \A r \in 1 .. next : read'[r] = RegisterAt(clock, a, Registers[r])
      BY <3>1, <3>2, <3>3
    <3>5. next' - 1 = next
      BY <1>5, <3>1 DEF ReadRegister
    <3> QED
      BY <1>5, <3>2, <3>3, <3>4, <3>5 DEF ReadRegister, Current, SecondAt
  <2> QED
    BY <2>1, <2>2
<1>6. CASE Compare
  BY <1>6 DEF Compare, Current
<1>7. CASE UNCHANGED rtcVars
  BY <1>0, <1>7 DEF rtcVars, Current, SecondAt
<1> QED
  BY <1>1, <1>2, <1>3, <1>4, <1>5, <1>6, <1>7 DEF RtcNext

LEMMA BeforeKept == RtcIInv /\ [RtcNext]_rtcVars => Before'
<1> SUFFICES ASSUME RtcIInv, [RtcNext]_rtcVars PROVE Before'
  OBVIOUS
<1>0. RtcTypeOK /\ Current /\ Before
  BY DEF RtcIInv
<1>1. CASE UpdateNears
  BY <1>0, <1>1 DEF UpdateNears, Before, OverBy, SecondAt, Shown
<1>2. CASE Tick
  <2>1. SUFFICES ASSUME again, pc # "done" PROVE Before'
    BY <1>2 DEF Tick, Before
  <2>2. PICK p \in began .. tick : previous[1] = SecondAt(p) /\ (previous = Shown(p) \/ OverBy(p))
    BY <1>0, <2>1 DEF Before
  <2>3. p \in began .. tick' /\ (p < tick => p < tick')
    BY <1>0, <1>2, <2>2, MaxTicksAssumption DEF Tick, RtcTypeOK
  <2>4. OverBy(p) => (OverBy(p))'
    BY <1>2, <2>3 DEF Tick, OverBy, SecondAt
  <2> QED
    BY <1>2, <2>2, <2>3, <2>4 DEF Tick, Before, SecondAt, Shown
<1>3. CASE Call
  BY <1>3 DEF Call, Before
<1>4. CASE SeeNoUpdate
  BY <1>0, <1>4 DEF SeeNoUpdate, Before, OverBy, SecondAt, Shown
<1>5. CASE ReadRegister
  <2>1. SUFFICES ASSUME again PROVE Before'
    BY <1>5 DEF ReadRegister, Before
  <2>2. PICK p \in began .. tick : previous[1] = SecondAt(p) /\ (previous = Shown(p) \/ OverBy(p))
    BY <1>0, <1>5, <2>1 DEF ReadRegister, Before
  <2>3. CASE next = 1
    <3>1. read'[1] = SecondAt(tick)
      BY <1>0, <1>5, <2>3, SixRegisters DEF ReadRegister, RtcTypeOK, SecondAt
    <3>2. OverBy(p) => \A i \in 0 .. MaxTicks : read'[1] = SecondAt(i) => p < i
      BY <1>0, <2>3, <3>1, SecondsDiffer DEF OverBy, RtcTypeOK, SecondAt
    <3> QED
      BY <1>0, <1>5, <2>2, <3>2 DEF ReadRegister, Before, OverBy, SecondAt, Shown, RtcTypeOK
  <2>4. CASE next # 1
    <3>1. next > 1 /\ next' > 1 /\ read'[1] = read[1]
      BY <1>0, <1>5, <2>4, SixRegisters DEF ReadRegister, RtcTypeOK
    <3> QED
      BY <1>5, <2>2, <3>1 DEF ReadRegister, Before, OverBy, SecondAt, Shown
  <2> QED
    BY <2>3, <2>4
<1>6. CASE Compare
  <2>1. SUFFICES ASSUME ~Same PROVE Before'
    BY <1>6 DEF Compare, Before
  <2>2. next = Count + 1 /\ next > 1
    BY <1>0, <1>6, SixRegisters DEF Compare, RtcTypeOK
  <2>3. PICK a \in began .. tick :
          /\ read[1] = SecondAt(a)
          /\ a = tick => \A r \in 1 .. Count : read[r] = RegisterAt(clock, a, Registers[r])
    BY <1>0, <1>6, <2>2, SixRegisters DEF Compare, Current
  <2>4. a = tick => read = Shown(a)
    BY <1>0, <2>3 DEF RtcTypeOK, Shown
  <2>5. a # tick => a < tick
    BY <1>0, <2>3, MaxTicksAssumption DEF RtcTypeOK
  <2> QED
    BY <1>6, <2>1, <2>3, <2>4, <2>5 DEF Compare, Before, OverBy, SecondAt, Shown
<1>7. CASE UNCHANGED rtcVars
  BY <1>0, <1>7 DEF rtcVars, Before, OverBy, SecondAt, Shown
<1> QED
  BY <1>1, <1>2, <1>3, <1>4, <1>5, <1>6, <1>7 DEF RtcNext

(* Two equal readings: the one before is whole, for its second cannot both  *)
(* be over and be shown again.                                              *)
LEMMA WholeKept == RtcIInv /\ [RtcNext]_rtcVars => ReadingWhole'
<1> SUFFICES ASSUME RtcIInv, [RtcNext]_rtcVars PROVE ReadingWhole'
  OBVIOUS
<1>0. RtcTypeOK /\ Before /\ ReadingWhole
  BY DEF RtcIInv
<1>1. CASE UpdateNears
  BY <1>0, <1>1 DEF UpdateNears, ReadingWhole, Shown
<1>2. CASE Tick
  <2>1. began .. tick \subseteq began .. tick'
    BY <1>0, <1>2, MaxTicksAssumption DEF Tick, RtcTypeOK
  <2> QED
    BY <1>0, <1>2, <2>1 DEF Tick, ReadingWhole, Shown
<1>3. CASE Call
  BY <1>3 DEF Call, ReadingWhole
<1>4. CASE SeeNoUpdate
  BY <1>4 DEF SeeNoUpdate, ReadingWhole
<1>5. CASE ReadRegister
  BY <1>5 DEF ReadRegister, ReadingWhole
<1>6. CASE Compare
  <2>1. SUFFICES ASSUME Same PROVE \E i \in began .. tick : read = Shown(i)
    BY <1>6 DEF Compare, ReadingWhole, Shown
  <2>2. PICK p \in began .. tick : previous[1] = SecondAt(p) /\ (previous = Shown(p) \/ OverBy(p))
    BY <1>0, <1>6, <2>1 DEF Compare, Before, Same
  <2>3. ~ OverBy(p)
    BY <1>0, <1>6, <2>1, <2>2, SixRegisters, MaxTicksAssumption
       DEF Compare, OverBy, Same, RtcTypeOK
  <2> QED
    BY <2>1, <2>2, <2>3 DEF Same
<1>7. CASE UNCHANGED rtcVars
  BY <1>0, <1>7 DEF rtcVars, ReadingWhole, Shown
<1> QED
  BY <1>1, <1>2, <1>3, <1>4, <1>5, <1>6, <1>7 DEF RtcNext

LEMMA RtcIsRead == RtcSpec => []RtcIInv
<1>1. RtcInit => RtcIInv
  BY Starts
<1>2. RtcIInv /\ [RtcNext]_rtcVars => RtcIInv'
  BY TypeKept, CurrentKept, BeforeKept, WholeKept DEF RtcIInv
<1> QED
  BY <1>1, <1>2, PTL DEF RtcSpec

(* For every clock and every timing of the reads: what read_rtc() ends with *)
(* is what the chip showed at one moment of the call.                       *)
THEOREM Whole == RtcSpec => []ReadingWhole
<1>1. RtcIInv => ReadingWhole
  BY DEF RtcIInv
<1> QED
  BY <1>1, RtcIsRead, PTL

----------------------------------------------------------------------------
(* What time() and gmtime_r() make of a reading: the bytes of one moment    *)
(* are decoded to that moment, and each sum over years or months is its     *)
(* closed form, for there is no least number of terms at which it is not.   *)

(* A set of natural numbers that is not empty has a least one.              *)
LEMMA LeastOf ==
  ASSUME NEW T, T \subseteq Nat, T # {}
  PROVE  \E m \in T : \A n \in T : m <= n
<1>1. IsWellFoundedOn(OpToRel(<, Nat), Nat)
  BY NatLessThanWellFounded
<1>2. PICK m \in T : \A n \in T : ~(<<n, m>> \in OpToRel(<, Nat))
  BY <1>1, WFMin
<1>3. ASSUME NEW n \in T, n < m PROVE FALSE
  <2>1. <<n, m>> \in OpToRel(<, Nat)
    BY <1>3 DEF OpToRel
  <2> QED
    BY <1>2, <2>1
<1> QED
  BY <1>3

(* What begins as a does and grows as a does is a.                          *)
LEMMA GrowsAs ==
  ASSUME NEW a \in Nat, NEW b \in Nat, a <= b, NEW f, NEW g, f[a] = g[a],
         \A n \in a + 1 .. b : f[n - 1] = g[n - 1] => f[n] = g[n]
  PROVE  f[b] = g[b]
<1> DEFINE Odd == {n \in a .. b : f[n] # g[n]}
<1>1. Odd \subseteq Nat
  OBVIOUS
<1>2. CASE Odd # {}
  <2>1. PICK m \in Odd : \A n \in Odd : m <= n
    BY <1>1, <1>2, LeastOf
  <2>2. m \in a + 1 .. b /\ m - 1 \in a .. b /\ f[m] # g[m]
    BY <2>1
  <2>3. f[m - 1] = g[m - 1]
    BY <2>1, <2>2
  <2> QED
    BY <2>2, <2>3
<1>3. CASE Odd = {}
  BY <1>3
<1> QED
  BY <1>2, <1>3

(* time(): the leap years before a year, by the macro that adds 1970.       *)
LEMMA LeapYears ==
  ASSUME NEW y \in 1970 .. 2099
  PROVE  /\ IsLeapYearUNIX(y) <=> y % 4 = 2
         /\ IsLeapYear(y) <=> y % 4 = 0
         /\ MonthLength(y, 2) = IF y % 4 = 0 THEN 29 ELSE 28
<1>1. IsLeapYear(y) <=> y % 4 = 0
  BY DEF IsLeapYear
<1>2. IsLeapYearUNIX(y) <=> y % 4 = 2
  BY DEF IsLeapYearUNIX
<1> QED
  BY <1>1, <1>2 DEF IsLeapYear, MonthLength

LEMMA SameFunction ==
  ASSUME NEW S, NEW g, NEW h, g = [y \in S |-> g[y]], h = [y \in S |-> h[y]],
         \A y \in S : g[y] = h[y]
  PROVE  g = h
<1>1. [y \in S |-> g[y]] = [y \in S |-> h[y]]
  OBVIOUS
<1> QED
  BY <1>1

(* A total that begins at nought and grows by each is the total of them.    *)
LEMMA TotalIs ==
  ASSUME NEW first \in Nat \ {0}, NEW last \in Nat, first - 1 <= last, NEW d, NEW sum,
         sum[first - 1] = 0, \A n \in first .. last : sum[n] = sum[n - 1] + d[n]
  PROVE  Total(d, first, last) = sum[last]
<1> DEFINE before == first - 1
           Is(f) == f = [n \in before .. last |->
                           IF n = before THEN 0 ELSE f[n - 1] + d[n]]
           total == CHOOSE f : Is(f)
           g == [n \in before .. last |-> sum[n]]
<1>1. Total(d, first, last) = total[last]
  BY DEF Total
<1>2. before \in Nat /\ before \in before .. last /\ last \in before .. last
  OBVIOUS
<1>3. \A n \in before .. last : n = before \/ (n \in first .. last /\ n - 1 \in before .. last)
  OBVIOUS
<1> HIDE DEF before, g
<1>4. g = [n \in before .. last |-> g[n]] /\ \A n \in before .. last : g[n] = sum[n]
  BY DEF g
<1>5. sum[before] = 0
  BY DEF before
<1>6. Is(g)
  <2> DEFINE h == [n \in before .. last |-> IF n = before THEN 0 ELSE g[n - 1] + d[n]]
  <2>1. \A n \in before .. last : g[n] = h[n]
    BY <1>3, <1>4, <1>5
  <2>2. h = [n \in before .. last |-> h[n]]
    OBVIOUS
  <2> HIDE DEF h
  <2>3. g = h
    BY <1>4, <2>1, <2>2, SameFunction
  <2> QED
    BY <2>3 DEF h
<1> HIDE DEF Is
<1>7. Is(total)
  BY <1>6
<1> HIDE DEF total
<1>8. total[before] = g[before]
  BY <1>2, <1>4, <1>5, <1>7 DEF Is
<1>9. \A n \in before + 1 .. last : total[n - 1] = g[n - 1] => total[n] = g[n]
  <2>1. ASSUME NEW n \in before + 1 .. last, total[n - 1] = g[n - 1] PROVE total[n] = g[n]
    <3>1. n \in before .. last /\ n # before /\ n \in first .. last /\ n - 1 \in before .. last
      BY <1>2 DEF before
    <3>2. total[n] = total[n - 1] + d[n]
      BY <1>7, <3>1 DEF Is
    <3>3. g[n] = sum[n] /\ g[n - 1] = sum[n - 1] /\ sum[n] = sum[n - 1] + d[n]
      BY <1>4, <3>1
    <3> QED
      BY <2>1, <3>2, <3>3
  <2> QED
    BY <2>1
<1>10. total[last] = g[last]
  <2>1. before <= last
    BY DEF before
  <2> QED
    BY <1>2, <1>8, <1>9, <2>1, GrowsAs
<1> QED
  BY <1>1, <1>2, <1>4, <1>10

LEMMA LeapsCounted ==
  ASSUME NEW year \in 1971 .. 2099
  PROVE  LeapsBefore(year) = (year - 1971) \div 4
<1> DEFINE d == [y \in 1971 .. year |-> IF IsLeapYearUNIX(y) THEN 1 ELSE 0]
           sum == [y \in 1970 .. year |-> (y - 1970) \div 4]
<1> HIDE DEF d, sum
<1>1. ASSUME NEW y \in 1971 .. year - 1 PROVE sum[y] = sum[y - 1] + d[y]
  <2>1. /\ sum[y] = (y - 1970) \div 4 /\ sum[y - 1] = ((y - 1) - 1970) \div 4
        /\ d[y] = IF IsLeapYearUNIX(y) THEN 1 ELSE 0
    BY DEF d, sum
  <2>2. y \in 1970 .. 2099
    OBVIOUS
  <2>3. d[y] = IF y % 4 = 2 THEN 1 ELSE 0
    BY <2>1, <2>2, LeapYears
  <2>4. (y - 1970) \div 4 = ((y - 1) - 1970) \div 4 + IF y % 4 = 2 THEN 1 ELSE 0
    OBVIOUS
  <2> QED
    BY <2>1, <2>3, <2>4
<1>2. sum[1971 - 1] = 0 /\ sum[year - 1] = (year - 1971) \div 4
  BY DEF sum
<1>3. LeapsBefore(year) = Total(d, 1971, year - 1)
  BY DEF LeapsBefore, d
<1>4. year - 1 \in Nat /\ 1971 \in Nat \ {0} /\ 1971 - 1 <= year - 1
  OBVIOUS
<1>5. Total(d, 1971, year - 1) = sum[year - 1]
  BY <1>1, <1>2, <1>4, TotalIs
<1> QED
  BY <1>2, <1>3, <1>5

(* The days of the years.                                                   *)
LEMMA YearsCounted ==
  ASSUME NEW year \in 1970 .. 2099
  PROVE  DaysTo(year) = 365 * (year - 1970) + (year - 1969) \div 4
<1> DEFINE d == [y \in 1970 .. year |-> 337 + MonthLength(y, 2)]
           sum == [y \in 1969 .. year |-> 365 * (y - 1969) + (y - 1968) \div 4]
<1> HIDE DEF d, sum
<1>1. ASSUME NEW y \in 1970 .. year - 1 PROVE sum[y] = sum[y - 1] + d[y]
  <2>1. /\ sum[y] = 365 * (y - 1969) + (y - 1968) \div 4
        /\ sum[y - 1] = 365 * ((y - 1) - 1969) + ((y - 1) - 1968) \div 4
        /\ d[y] = 337 + MonthLength(y, 2)
    BY DEF d, sum
  <2>2. y \in 1970 .. 2099
    OBVIOUS
  <2>3. d[y] = 337 + IF y % 4 = 0 THEN 29 ELSE 28
    BY <2>1, <2>2, LeapYears
  <2>4. (y - 1968) \div 4 = ((y - 1) - 1968) \div 4 + IF y % 4 = 0 THEN 1 ELSE 0
    OBVIOUS
  <2> QED
    BY <2>1, <2>3, <2>4
<1>2. sum[1970 - 1] = 0 /\ sum[year - 1] = 365 * (year - 1970) + (year - 1969) \div 4
  BY DEF sum
<1>3. DaysTo(year) = Total(d, 1970, year - 1)
  BY DEF DaysTo, d
<1>4. year - 1 \in Nat /\ 1970 \in Nat \ {0} /\ 1970 - 1 <= year - 1
  OBVIOUS
<1>5. Total(d, 1970, year - 1) = sum[year - 1]
  BY <1>1, <1>2, <1>4, TotalIs
<1> QED
  BY <1>2, <1>3, <1>5

(* The days of the months, in the calendar and as time() adds them.         *)
BeforeMonth == <<0, 31, 59, 90, 120, 151, 181, 212, 243, 273, 304, 334>>
IntoYear(y, m) == BeforeMonth[m] + IF y % 4 = 0 /\ m > 2 THEN 1 ELSE 0

LEMMA MonthByMonth ==
  ASSUME NEW m \in 1 .. 11, NEW y \in 2000 .. 2099
  PROVE  IntoYear(y, m + 1) = IntoYear(y, m) + IF m = 2 /\ y % 4 = 0 THEN 29 ELSE monthDays[m]
<1>1. m = 1 \/ m = 2 \/ m = 3 \/ m = 4 \/ m = 5 \/ m = 6 \/ m = 7 \/ m = 8 \/ m = 9 \/ m = 10
      \/ m = 11
  OBVIOUS
<1> QED
  BY <1>1 DEF IntoYear, BeforeMonth, monthDays

LEMMA LengthOfMonth ==
  ASSUME NEW m \in 1 .. 11, NEW y \in 2000 .. 2099
  PROVE  MonthLength(y, m) = IF m = 2 /\ y % 4 = 0 THEN 29 ELSE monthDays[m]
<1>1. m = 1 \/ m = 2 \/ m = 3 \/ m = 4 \/ m = 5 \/ m = 6 \/ m = 7 \/ m = 8 \/ m = 9 \/ m = 10
      \/ m = 11
  OBVIOUS
<1> QED
  BY <1>1 DEF MonthLength, monthDays

MonthsOf(d, y) == \A m \in 1 .. 11 : d[m] = IF m = 2 /\ y % 4 = 0 THEN 29 ELSE monthDays[m]

LEMMA MonthsTotal ==
  ASSUME NEW month \in 1 .. 12, NEW y \in 2000 .. 2099, NEW d, MonthsOf(d, y)
  PROVE  Total(d, 1, month - 1) = IntoYear(y, month)
<1> DEFINE sum == [m \in 0 .. 11 |-> IntoYear(y, m + 1)]
<1> HIDE DEF sum
<1>1. ASSUME NEW m \in 1 .. month - 1 PROVE sum[m] = sum[m - 1] + d[m]
  <2>1. m \in 1 .. 11 /\ (m - 1) + 1 = m
    OBVIOUS
  <2>2. sum[m] = IntoYear(y, m + 1) /\ sum[m - 1] = IntoYear(y, m)
    BY <2>1 DEF sum
  <2> QED
    BY <2>1, <2>2, MonthByMonth DEF MonthsOf
<1>2. sum[1 - 1] = 0 /\ sum[month - 1] = IntoYear(y, month)
  BY DEF sum, IntoYear, BeforeMonth
<1>3. month - 1 \in Nat /\ 1 \in Nat \ {0} /\ 1 - 1 <= month - 1
  OBVIOUS
<1>4. Total(d, 1, month - 1) = sum[month - 1]
  BY <1>1, <1>2, <1>3, TotalIs, SMTT(30)
<1> QED
  BY <1>2, <1>4

LEMMA MonthsAdded ==
  ASSUME NEW month \in 1 .. 12, NEW y \in 2000 .. 2099
  PROVE  DaysBefore(y, month) = IntoYear(y, month)
<1> DEFINE d == [monthDays EXCEPT ![2] = IF IsLeapYear(y) THEN 29 ELSE @]
<1>1. IsLeapYear(y) <=> y % 4 = 0
  BY DEF IsLeapYear
<1>2. MonthsOf(d, y)
  BY <1>1 DEF MonthsOf, monthDays
<1>3. DaysBefore(y, month) = Total(d, 1, month - 1)
  BY DEF DaysBefore
<1> HIDE DEF d
<1>4. Total(d, 1, month - 1) = IntoYear(y, month)
  BY <1>2, MonthsTotal
<1> QED
  BY <1>3, <1>4

LEMMA MonthsCounted ==
  ASSUME NEW month \in 1 .. 12, NEW y \in 2000 .. 2099
  PROVE  DaysInto(y, month) = IntoYear(y, month)
<1> DEFINE d == [m \in 1 .. 12 |-> MonthLength(y, m)]
<1>1. MonthsOf(d, y)
  BY LengthOfMonth DEF MonthsOf
<1>2. DaysInto(y, month) = Total(d, 1, month - 1)
  BY DEF DaysInto
<1> HIDE DEF d
<1>3. Total(d, 1, month - 1) = IntoYear(y, month)
  BY <1>1, MonthsTotal
<1> QED
  BY <1>2, <1>3

LEMMA IntoYearIs ==
  ASSUME NEW m \in 1 .. 12, NEW y \in 2000 .. 2099
  PROVE  IntoYear(y, m) \in Nat
<1>1. m = 1 \/ m = 2 \/ m = 3 \/ m = 4 \/ m = 5 \/ m = 6 \/ m = 7 \/ m = 8 \/ m = 9 \/ m = 10
      \/ m = 11 \/ m = 12
  OBVIOUS
<1> QED
  BY <1>1 DEF IntoYear, BeforeMonth

(* The day of the week, whatever way the days are counted.                  *)
LEMMA SevenDays ==
  ASSUME NEW a \in Nat, NEW b \in Nat, NEW weeks \in Nat, b = a + 7 * weeks
  PROVE  a % 7 = b % 7
OBVIOUS

Dated(t) == t.year \in 2000 .. 2099 /\ t.month \in 1 .. 12 /\ t.day \in 1 .. 31

LEMMA DateIs ==
  ASSUME NEW t, Dated(t)
  PROVE  DaysSince(t) = 365 * (t.year - 1970) + (t.year - 1969) \div 4
                        + IntoYear(t.year, t.month) + t.day - 1
<1>1. t.year \in 2000 .. 2099 /\ t.year \in 1970 .. 2099 /\ t.month \in 1 .. 12
  BY DEF Dated
<1> QED
  BY <1>1, YearsCounted, MonthsCounted DEF DaysSince

(* time() counts the days right, or one too many.                           *)
LEMMA DaysAreCounted ==
  ASSUME NEW t, Dated(t)
  PROVE  DaysCounted(t) = DaysSince(t) + IF t.year % 4 \in {1, 2} THEN 0 ELSE 1
<1> DEFINE y == t.year
           m == t.month
           d == t.day
           ahead == IF y % 4 \in {1, 2} THEN 0 ELSE 1
<1>1. DaysCounted(t) = 365 * (y - 1970) + LeapsBefore(y) + DaysBefore(y, m) + d
  BY DEF DaysCounted
<1>2. DaysSince(t) = 365 * (y - 1970) + (y - 1969) \div 4 + IntoYear(y, m) + d - 1
  BY DateIs
<1>3. y \in 2000 .. 2099 /\ y \in 1971 .. 2099 /\ m \in 1 .. 12 /\ d \in 1 .. 31
  BY DEF Dated
<1> HIDE DEF y, m, d
<1>4. LeapsBefore(y) = (y - 1971) \div 4 /\ DaysBefore(y, m) = IntoYear(y, m)
      /\ IntoYear(y, m) \in Nat
  BY <1>3, LeapsCounted, MonthsAdded, IntoYearIs
<1>5. /\ (y - 1971) \div 4 + 1 = (y - 1969) \div 4 + ahead
      /\ (y - 1971) \div 4 \in Nat /\ (y - 1969) \div 4 \in Nat /\ ahead \in {0, 1}
  BY <1>3
<1>6. DaysCounted(t) = DaysSince(t) + ahead
  <2> HIDE DEF ahead
  <2> QED
    BY <1>1, <1>2, <1>3, <1>4, <1>5
<1> QED
  BY <1>6 DEF y

(* gmtime_r(): from a month to the next the table advances as the days do.  *)
LEMMA TableOfMonths ==
  ASSUME NEW m \in 1 .. 12
  PROVE  \E k \in 0 .. 60 : BeforeMonth[m] = weekdays[m] + 7 * k + IF m > 2 THEN 1 ELSE 0
<1>1. m = 1 \/ m = 2 \/ m = 3 \/ m = 4 \/ m = 5 \/ m = 6 \/ m = 7 \/ m = 8 \/ m = 9 \/ m = 10
      \/ m = 11 \/ m = 12
  OBVIOUS
<1> DEFINE k == (BeforeMonth[m] - weekdays[m]) \div 7
<1>2. k \in 0 .. 60 /\ BeforeMonth[m] = weekdays[m] + 7 * k + IF m > 2 THEN 1 ELSE 0
  BY <1>1 DEF BeforeMonth, weekdays
<1> HIDE DEF k
<1> QED
  BY <1>2

LEMMA TableIs ==
  ASSUME NEW m \in 1 .. 12
  PROVE  weekdays[m] \in 0 .. 6 /\ BeforeMonth[m] \in 0 .. 334
<1>1. m = 1 \/ m = 2 \/ m = 3 \/ m = 4 \/ m = 5 \/ m = 6 \/ m = 7 \/ m = 8 \/ m = 9 \/ m = 10
      \/ m = 11 \/ m = 12
  OBVIOUS
<1> QED
  BY <1>1 DEF BeforeMonth, weekdays

LEMMA DayOfTheWeek ==
  ASSUME NEW t, Dated(t)
  PROVE  wday(t) = (DaysSince(t) + 4) % 7
<1> DEFINE y == t.year
           m == t.month
           d == t.day
           a == IF m < 3 THEN y - 1 ELSE y
           b == a + a \div 4 - a \div 100 + a \div 400 + weekdays[m] + d
<1>1. wday(t) = b % 7
  BY DEF wday
<1>2. DaysSince(t) = 365 * (y - 1970) + (y - 1969) \div 4 + IntoYear(y, m) + d - 1
  BY DateIs
<1>3. y \in 2000 .. 2099 /\ m \in 1 .. 12 /\ d \in 1 .. 31
  BY DEF Dated
<1> HIDE DEF y, m, d
<1>4. PICK n \in 0 .. 99 : y = 2000 + n
  <2>1. y - 2000 \in 0 .. 99 /\ y = 2000 + (y - 2000)
    BY <1>3
  <2> QED
    BY <2>1
<1>5. PICK k \in 0 .. 60 : BeforeMonth[m] = weekdays[m] + 7 * k + IF m > 2 THEN 1 ELSE 0
  BY <1>3, TableOfMonths
<1> DEFINE leap == IF n % 4 = 0 THEN 1 ELSE 0
           weeks == 1211 + 52 * n + k
           since == DaysSince(t) + 4
<1>6. weekdays[m] \in Nat /\ weeks \in Nat
  BY <1>3, TableIs
<1>7. since = 10960 + 365 * n + (n + 3) \div 4 + IntoYear(y, m) + d
  <2>1. IntoYear(y, m) \in Nat
    BY <1>3, IntoYearIs
  <2>2. (y - 1969) \div 4 = (n + 3) \div 4 + 7 /\ (n + 3) \div 4 \in Nat
    BY <1>4
  <2> QED
    BY <1>2, <1>3, <1>4, <2>1, <2>2
<1>8. b \in Nat /\ since \in Nat /\ since = b + 7 * weeks
  <2>1. CASE m > 2
    <3>1. b = 2485 + n + n \div 4 + weekdays[m] + d
      <4>1. a = 2000 + n
        BY <1>3, <1>4, <2>1
      <4> HIDE DEF a
      <4>2. a \div 4 = 500 + n \div 4 /\ a \div 100 = 20 /\ a \div 400 = 5 /\ n \div 4 \in Nat
        BY <4>1
      <4> QED
        BY <1>3, <1>6, <4>1, <4>2
    <3>2. (n + 3) \div 4 + leap = n \div 4 + 1 /\ n \div 4 \in Nat /\ (n + 3) \div 4 \in Nat
          /\ leap \in {0, 1}
      OBVIOUS
    <3>3. IntoYear(y, m) = weekdays[m] + 7 * k + 1 + leap
      <4>1. (y % 4 = 0) <=> (n % 4 = 0)
        BY <1>4
      <4> QED
        BY <1>3, <1>5, <1>6, <2>1, <4>1 DEF IntoYear
    <3> HIDE DEF b, since, leap
    <3> QED
      BY <1>3, <1>6, <1>7, <3>1, <3>2, <3>3
  <2>2. CASE ~(m > 2)
    <3>1. b = 2483 + n + (n + 3) \div 4 + weekdays[m] + d
      <4>1. a = 1999 + n
        BY <1>3, <1>4, <2>2
      <4> HIDE DEF a
      <4>2. a \div 4 = 499 + (n + 3) \div 4 /\ a \div 100 - a \div 400 = 15
            /\ a \div 100 \in Nat /\ a \div 400 \in Nat /\ (n + 3) \div 4 \in Nat
        BY <4>1
      <4> QED
        BY <1>3, <1>6, <4>1, <4>2
    <3>2. IntoYear(y, m) = weekdays[m] + 7 * k /\ (n + 3) \div 4 \in Nat
      <4>1. IntoYear(y, m) = BeforeMonth[m] + 0
        BY <2>2 DEF IntoYear
      <4> QED
        BY <1>3, <1>5, <1>6, <2>2, <4>1
    <3> HIDE DEF b, since
    <3> QED
      BY <1>3, <1>6, <1>7, <3>1, <3>2
  <2> QED
    BY <2>1, <2>2
<1> HIDE DEF b, since, weeks
<1>9. b % 7 = since % 7
  BY <1>6, <1>8, SevenDays
<1> QED
  BY <1>1, <1>9 DEF since
LEMMA NumberRead ==
  ASSUME NEW n \in 0 .. 99, NEW r, r # "hour"
  PROVE  Binary(r, Digits(clock, n)) = n
<1>1. CASE clock.binary
  BY <1>1 DEF Binary, Digits
<1>2. CASE ~clock.binary
  <2>1. Binary(r, Digits(clock, n)) = FromBcd(16 * (n \div 10) + (n % 10))
    BY <1>2 DEF Binary, Digits
  <2> QED
    BY <2>1 DEF FromBcd
<1> QED
  BY <1>1, <1>2

(* The hour, up to the half of the day when a 12-hour chip says 12.         *)
LEMMA DigitsOfHour ==
  ASSUME NEW n \in 0 .. 23, NEW half \in {0, 128}
  PROVE  Binary("hour", Digits(clock, n) + half) = n + half
<1>1. CASE clock.binary
  BY <1>1 DEF Binary, Digits
<1>2. CASE ~clock.binary
  <2> DEFINE b == 16 * (n \div 10) + (n % 10)
  <2>1. b \in 0 .. 127 /\ b % 16 = n % 10 /\ b \div 16 = n \div 10 /\ n = 10 * (n \div 10) + (n % 10)
        /\ n % 10 \in Nat /\ n \div 10 \in Nat
    OBVIOUS
  <2>2. Binary("hour", Digits(clock, n) + half)
        = FromBcd((b + half) % 128) + 128 * ((b + half) \div 128)
    BY <1>2 DEF Binary, Digits
  <2> HIDE DEF b
  <2>3. (b + half) % 128 = b /\ 128 * ((b + half) \div 128) = half
    BY <2>1
  <2>4. FromBcd(b) = n
    BY <2>1 DEF FromBcd
  <2> QED
    BY <2>2, <2>3, <2>4
<1> QED
  BY <1>1, <1>2

LEMMA HourIsRead ==
  ASSUME NEW h \in 0 .. 23
  PROVE  Hour24(Binary("hour", HourByte(clock, h))) = HourRead(h)
<1>1. CASE clock.to24
  <2>1. Binary("hour", HourByte(clock, h)) = h
    <3>1. HourByte(clock, h) = Digits(clock, h)
      BY <1>1 DEF HourByte
    <3>2. Digits(clock, h) + 0 = Digits(clock, h)
      BY DEF Digits
    <3> QED
      BY <3>1, <3>2, DigitsOfHour
  <2> QED
    BY <1>1, <2>1 DEF Hour24, HourRead
<1>2. CASE ~clock.to24
  <2> DEFINE n == IF h % 12 = 0 THEN 12 ELSE h % 12
             half == IF h >= 12 THEN 128 ELSE 0
  <2>1. HourByte(clock, h) = Digits(clock, n) + half
    BY <1>2 DEF HourByte
  <2>2. n \in 0 .. 23 /\ n \in 1 .. 12 /\ half \in {0, 128} /\ (half = 128 <=> h >= 12)
    OBVIOUS
  <2>3. h = IF half = 128 THEN (n % 12) + 12 ELSE n % 12
    OBVIOUS
  <2>4. n = 12 <=> h % 12 = 0
    OBVIOUS
  <2> HIDE DEF n, half
  <2>5. Binary("hour", HourByte(clock, h)) = n + half
    BY <2>1, <2>2, DigitsOfHour
  <2>6. CASE half = 128
    <3>1. Hour24(n + half) = (n + 12) % 24
      BY <1>2, <2>2, <2>6 DEF Hour24
    <3>2. HourRead(h) = (n + 12) % 24
      BY <1>2, <2>2, <2>3, <2>4, <2>6 DEF HourRead
    <3> QED
      BY <2>5, <3>1, <3>2
  <2>7. CASE half = 0
    <3>1. Hour24(n + half) = n
      BY <1>2, <2>2, <2>7 DEF Hour24
    <3>2. HourRead(h) = n
      BY <1>2, <2>2, <2>3, <2>4, <2>7 DEF HourRead
    <3> QED
      BY <2>5, <3>1, <3>2
  <2> QED
    BY <2>2, <2>6, <2>7
<1> QED
  BY <1>1, <1>2

LEMMA FieldIs ==
  ASSUME NEW k \in 1 .. 6
  PROVE  Field(Registers[k]) = Binary(Registers[k], read[k])
<1>1. \A n \in 1 .. Count : Registers[n] = Registers[k] <=> n = k
  BY DEF Registers, Count
<1>2. (CHOOSE n \in 1 .. Count : Registers[n] = Registers[k]) = k
  BY <1>1, SixRegisters
<1> QED
  BY <1>2 DEF Field

LEMMA LengthIs == \A y, m : MonthLength(y, m) \in {28, 29, 30, 31}
BY DEF MonthLength

IsDay(d, y) ==
  /\ d = [year |-> d.year, month |-> d.month, day |-> d.day]
  /\ d.year = y /\ d.month \in 1 .. 12 /\ d.day \in 1 .. 31

LEMMA NextDayIs ==
  ASSUME NEW y \in Nat, NEW d, IsDay(d, y)
  PROVE  \E z \in {y, y + 1} : IsDay(NextDay(d), z)
<1>1. PICK m \in 1 .. 12, n \in 1 .. 31 : d = [year |-> y, month |-> m, day |-> n]
  BY DEF IsDay
<1>2. CASE n < MonthLength(y, m)
  <2>1. NextDay(d) = [year |-> y, month |-> m, day |-> n + 1]
    BY <1>1, <1>2 DEF NextDay
  <2>2. n + 1 \in 1 .. 31
    BY <1>2, LengthIs
  <2> QED
    BY <2>1, <2>2 DEF IsDay
<1>3. CASE ~(n < MonthLength(y, m)) /\ m < 12
  <2>1. NextDay(d) = [year |-> y, month |-> m + 1, day |-> 1]
    BY <1>1, <1>3 DEF NextDay
  <2> QED
    BY <1>3, <2>1 DEF IsDay
<1>4. CASE ~(n < MonthLength(y, m)) /\ ~(m < 12)
  <2>1. NextDay(d) = [year |-> y + 1, month |-> 1, day |-> 1]
    BY <1>1, <1>4 DEF NextDay
  <2> QED
    BY <2>1 DEF IsDay
<1> QED
  BY <1>2, <1>3, <1>4

(* What the chip shows is a date and a time of the day.                     *)
IsMoment(m) ==
  /\ m = [year |-> m.year, month |-> m.month, day |-> m.day,
          hour |-> m.hour, minute |-> m.minute, second |-> m.second]
  /\ Dated(m)
  /\ m.hour \in 0 .. 23 /\ m.minute \in 0 .. 59 /\ m.second \in 0 .. 59

LEMMA ChipIs ==
  ASSUME clock \in Clocks
  PROVE  /\ clock.year \in 2000 .. 2099 /\ clock.month \in 1 .. 12 /\ clock.day \in 1 .. 31
         /\ clock.seconds \in Nat /\ clock.seconds < 86400
         /\ Moment(clock, MaxTicks).year < 2100
<1>1. clock \in Chips
  BY ChipsAssumption
<1>2. clock \in Settings /\ clock.seconds < 86400 /\ Moment(clock, MaxTicks).year < 2100
  BY <1>1 DEF Chips
<1> QED
  BY <1>2 DEF Settings

LEMMA MomentIs ==
  ASSUME clock \in Clocks, NEW i \in 0 .. MaxTicks
  PROVE  IsMoment(Moment(clock, i))
<1>1. /\ clock.year \in 2000 .. 2099 /\ clock.month \in 1 .. 12 /\ clock.day \in 1 .. 31
      /\ clock.seconds \in Nat /\ clock.seconds < 86400
      /\ Moment(clock, MaxTicks).year < 2100
  BY ChipIs
<1>2. MaxTicks \in Nat /\ MaxTicks < 86400
  BY ChipsAssumption, MaxTicksAssumption
<1> DEFINE s == clock.seconds + i
           d == IF s < 86400 THEN Day(clock) ELSE NextDay(Day(clock))
<1> HIDE DEF s, d
<1>3. Moment(clock, i)
      = [year |-> d.year, month |-> d.month, day |-> d.day, hour |-> (s \div 3600) % 24,
         minute |-> (s \div 60) % 60, second |-> s % 60]
  BY DEF Moment, s, d
<1>4. s \in Nat /\ s <= clock.seconds + MaxTicks
  BY <1>1, <1>2 DEF s
<1>5. (s < 86400 => d = Day(clock)) /\ (~(s < 86400) => d = NextDay(Day(clock)))
  BY DEF d
<1>6. (s \div 3600) % 24 \in 0 .. 23 /\ (s \div 60) % 60 \in 0 .. 59 /\ s % 60 \in 0 .. 59
  BY <1>4
<1>7. Dated(d)
  <2>1. Day(clock) = [year |-> clock.year, month |-> clock.month, day |-> clock.day]
    BY DEF Day
  <2>2. CASE s < 86400
    <3>1. d.year = clock.year /\ d.month = clock.month /\ d.day = clock.day
      BY <1>5, <2>1, <2>2
    <3> QED
      BY <1>1, <3>1 DEF Dated
  <2>3. CASE ~(s < 86400)
    <3>1. clock.year \in Nat
      BY <1>1
    <3>2. PICK z \in {clock.year, clock.year + 1} : IsDay(NextDay(Day(clock)), z)
      <4>1. IsDay(Day(clock), clock.year)
        BY <1>1, <2>1 DEF IsDay
      <4> QED
        BY <3>1, <4>1, NextDayIs
    <3>3. Moment(clock, MaxTicks).year = NextDay(Day(clock)).year
      <4>1. ~(clock.seconds + MaxTicks < 86400)
        BY <1>1, <1>2, <1>4, <2>3
      <4> QED
        BY <4>1 DEF Moment
    <3>4. d = NextDay(Day(clock))
      BY <1>5, <2>3
    <3>5. d.year \in 2000 .. 2099
      BY <1>1, <3>2, <3>3, <3>4 DEF IsDay
    <3> QED
      BY <3>2, <3>4, <3>5 DEF Dated, IsDay
  <2> QED
    BY <2>2, <2>3
<1> QED
  BY <1>3, <1>6, <1>7 DEF IsMoment, Dated

(* A reading of one moment gives that moment.                               *)
LEMMA WholeIsRead ==
  ASSUME clock \in Clocks, NEW i \in 0 .. MaxTicks, read = Shown(i)
  PROVE  Result = [Moment(clock, i) EXCEPT !.hour = HourRead(@)]
<1> DEFINE m == Moment(clock, i)
<1> HIDE DEF m
<1>1. IsMoment(m)
  BY MomentIs DEF m
<1>2. /\ m = [year |-> m.year, month |-> m.month, day |-> m.day,
              hour |-> m.hour, minute |-> m.minute, second |-> m.second]
      /\ m.year \in 2000 .. 2099 /\ m.month \in 0 .. 99 /\ m.day \in 0 .. 99
      /\ m.hour \in 0 .. 23 /\ m.minute \in 0 .. 99 /\ m.second \in 0 .. 99
  BY <1>1 DEF IsMoment, Dated
<1>3. /\ Registers[1] = "second" /\ Registers[2] = "minute" /\ Registers[3] = "hour"
      /\ Registers[4] = "day" /\ Registers[5] = "month" /\ Registers[6] = "year"
  BY DEF Registers
<1>4. \A k \in 1 .. 6 : read[k] = ChipByte(clock, i, Registers[k])
  BY RegistersAssumption, SixRegisters DEF Shown
<1>5. /\ read[1] = Digits(clock, m.second) /\ read[2] = Digits(clock, m.minute)
      /\ read[3] = HourByte(clock, m.hour) /\ read[4] = Digits(clock, m.day)
      /\ read[5] = Digits(clock, m.month) /\ read[6] = Digits(clock, m.year % 100)
  <2>1. /\ ChipByte(clock, i, "second") = Digits(clock, m.second)
        /\ ChipByte(clock, i, "minute") = Digits(clock, m.minute)
        /\ ChipByte(clock, i, "hour") = HourByte(clock, m.hour)
        /\ ChipByte(clock, i, "day") = Digits(clock, m.day)
        /\ ChipByte(clock, i, "month") = Digits(clock, m.month)
        /\ ChipByte(clock, i, "year") = Digits(clock, m.year % 100)
    BY <1>2 DEF ChipByte, m
  <2> QED
    BY <1>3, <1>4, <2>1
<1>6. /\ Field("second") = Binary("second", read[1]) /\ Field("minute") = Binary("minute", read[2])
      /\ Field("hour") = Binary("hour", read[3]) /\ Field("day") = Binary("day", read[4])
      /\ Field("month") = Binary("month", read[5]) /\ Field("year") = Binary("year", read[6])
  <2>1. \A k \in 1 .. 6 : Field(Registers[k]) = Binary(Registers[k], read[k])
    BY FieldIs
  <2> QED
    BY <1>3, <2>1
<1>7. /\ Field("second") = m.second /\ Field("minute") = m.minute
      /\ Field("day") = m.day /\ Field("month") = m.month
  BY <1>2, <1>5, <1>6, NumberRead
<1>8. Field("year") + 2000 = m.year
  <2>1. m.year % 100 \in 0 .. 99 /\ (m.year % 100) + 2000 = m.year
    BY <1>2
  <2>2. Field("year") = m.year % 100
    BY <1>5, <1>6, <2>1, NumberRead
  <2> QED
    BY <2>1, <2>2
<1>9. Hour24(Field("hour")) = HourRead(m.hour)
  BY <1>2, <1>5, <1>6, HourIsRead
<1>10. Result = [second |-> m.second, minute |-> m.minute, hour |-> HourRead(m.hour),
                 day |-> m.day, month |-> m.month, year |-> m.year]
  BY <1>7, <1>8, <1>9 DEF Result
<1>11. [m EXCEPT !.hour = HourRead(@)]
       = [second |-> m.second, minute |-> m.minute, hour |-> HourRead(m.hour),
          day |-> m.day, month |-> m.month, year |-> m.year]
  BY <1>2
<1> QED
  BY <1>10, <1>11 DEF m

(* What time() and gmtime_r() make of it.                                   *)
LEMMA TimeOfMoment ==
  ASSUME NEW m, IsMoment(m), NEW hour \in Int,
         NEW t, t.year = m.year, t.month = m.month, t.day = m.day,
         t.hour = hour, t.minute = m.minute, t.second = m.second
  PROVE  /\ time(t) = 86400 * (DaysSince(m) + IF m.year % 4 \in {1, 2} THEN 0 ELSE 1)
                      + 3600 * hour + 60 * m.minute + m.second
         /\ wday(t) = (DaysSince(m) + 4) % 7
<1>1. Dated(m) /\ Dated(t)
  BY DEF IsMoment, Dated
<1>2. DaysSince(t) = DaysSince(m)
  BY DEF DaysSince
<1>3. DaysCounted(t) = DaysSince(t) + IF t.year % 4 \in {1, 2} THEN 0 ELSE 1
  BY <1>1, DaysAreCounted
<1>4. wday(t) = (DaysSince(t) + 4) % 7
  BY <1>1, DayOfTheWeek
<1> QED
  BY <1>2, <1>3, <1>4 DEF time

(* A call of time() that has returned tells a moment of the call, up to     *)
(* the half of the day a 12-hour chip gives at twelve, and a day too many   *)
(* in two years of four (time.c 70-94, 107-198): for every chip, date and   *)
(* mode of this century, and however the chip ticks while it is read.       *)
THEOREM Told == RtcSpec => []TimeTold
<1>1. RtcIInv => TimeTold
  <2> SUFFICES ASSUME RtcIInv, pc = "done" PROVE TimeTold
    BY DEF TimeTold
  <2>1. PICK i \in began .. tick : read = Shown(i)
    BY DEF RtcIInv, ReadingWhole
  <2>2. clock \in Clocks /\ i \in 0 .. MaxTicks
    BY MaxTicksAssumption DEF RtcIInv, RtcTypeOK
  <2> DEFINE m == Moment(clock, i)
             shown == [m EXCEPT !.hour = HourRead(@)]
  <2>3. Result = shown
    BY <2>1, <2>2, WholeIsRead
  <2>4. IsMoment(m)
    BY <2>2, MomentIs
  <2> HIDE DEF m
  <2>5. /\ shown.year = m.year /\ shown.month = m.month /\ shown.day = m.day
        /\ shown.hour = HourRead(m.hour) /\ shown.minute = m.minute /\ shown.second = m.second
    BY <2>4 DEF IsMoment
  <2>6. HourRead(m.hour) \in Int
    BY <2>4 DEF IsMoment, HourRead
  <2> HIDE DEF shown
  <2>7. /\ time(shown) = 86400 * (DaysSince(m) + IF m.year % 4 \in {1, 2} THEN 0 ELSE 1)
                         + 3600 * shown.hour + 60 * m.minute + m.second
        /\ wday(shown) = (DaysSince(m) + 4) % 7
    BY <2>4, <2>5, <2>6, TimeOfMoment
  <2> QED
    BY <2>3, <2>7 DEF TimeTold, m, shown
<1>2. RtcSpec => []RtcIInv
  BY RtcIsRead, PTL
<1> QED
  BY <1>1, <1>2, PTL

----------------------------------------------------------------------------
(* The way of a context through the stack.  An interrupt's stays below what *)
(* the contexts it interrupted still need, its frame keeps their registers, *)
(* and from "load" on the registers are theirs again, one step at a time.   *)
Regs == SavedRegisters \cup Pushed
Going == halted = "no" /\ ~stray

At(m, x) == IF x \in DOMAIN m THEN m[x] ELSE 0
CpuOf(l) == IF l = Depth THEN cpu ELSE acts[l + 1].saved
StateOf(l) == IF l = Depth THEN intState ELSE acts[l + 1].state

(* The lowest word that a context still needs, at most.                     *)
Low(a) ==
  CASE a.at = "iret" -> a.base + 23
    [] a.at \in {"load", "window"} -> a.base
    [] a.at = "pop" -> a.base - 1
    [] a.at = "code" -> a.base - 2

FrameWhole(a, m) ==
  \A r \in IF a.at = "iret" THEN Pushed ELSE Regs : At(m, a.base + Offset(r)) = a.saved[r]

Given(a, c, rs) == \A r \in rs : c[r] = a.saved[r]

Handler(a, c, i, m) ==
  /\ a.kept["r12"] = a.base - 1 /\ a.kept["r15"] = a.base
  /\ CASE a.at = "code" -> c.rsp <= a.base - 3 /\ At(m, a.base - 1) = a.state
       [] a.at = "pop" -> c.rsp = a.base - 1 /\ c.r15 = a.base /\ At(m, a.base - 1) = a.state
       [] a.at = "load" -> c.rsp = a.base /\ c.r15 = a.base /\ i = a.state
       [] a.at = "window" -> /\ c.rsp = a.saved.r15 /\ c.r15 = a.base /\ i = a.state
                             /\ Given(a, c, SavedRegisters \ {"r15"})
       [] a.at = "iret" -> c.rsp = a.base + 23 /\ i = a.state /\ Given(a, c, SavedRegisters)

(* A trap's frame is taken one word too high, so the iretq faults.          *)
Trapped(a, c, m) ==
  /\ a.at # "pop" /\ (a.at # "code" => c["rflags"] = 2)
  /\ CASE a.at = "code" -> /\ c.rsp <= a.base - 3
                            /\ a.kept["rsp"] = a.base - 2 /\ At(m, a.base - 2) = a.base - 1
       [] a.at \in {"load", "window"} -> c.r15 = a.base + 1
       [] a.at = "iret" -> c.rsp = a.base + 24

ContextOK(a, c, i, m) ==
  /\ FrameWhole(a, m)
  /\ a.runs = "interrupt" => Handler(a, c, i, m)
  /\ a.runs = "trap" => Trapped(a, c, m)

(* Interrupts open or not, and nothing else in the flags.                   *)
Registers64 == {c \in [Regs -> Int] : c["cs"] = 8 /\ c["rflags"] \in {2, 514}}
Places == {"code", "pop", "load", "window", "iret"}
Entered ==
  [runs : {"interrupt", "trap"}, at : Places, kept : [Regs -> Int], saved : Registers64,
   state : Int, xmm : Nat, since : Nat, base : Int]

TrapTypeOK ==
  /\ cpu \in Registers64
  /\ \A a \in DOMAIN stack : stack[a] \in Int
  /\ intState \in Int /\ steps \in Nat
  /\ acts \in Seq([runs : {"thread", "interrupt", "trap"}, at : Places, kept : [Regs -> Int],
                   saved : Registers64, state : Int, xmm : Nat, since : Nat, base : Int])

Nested ==
  /\ Depth >= 1 /\ acts[1].runs = "thread" /\ acts[1].at = "code" /\ acts[1].base = Top
  /\ \A l \in 2 .. Depth :
       /\ acts[l] \in Entered
       /\ acts[l].base % 2 = 0 /\ acts[l].base > 8
       /\ acts[l].base + Size <= acts[l].saved.rsp /\ acts[l].saved.rsp <= Top
       /\ l < Depth /\ acts[l].runs = "trap" => acts[l].at = "code"
  /\ \A l, m \in 2 .. Depth : l < m => acts[m].saved.rsp <= Low(acts[l])

ThreadBelow == CpuOf(1)["rsp"] <= Top

ContextsOK == \A l \in 2 .. Depth : ContextOK(acts[l], CpuOf(l), StateOf(l), stack)

Inner == TrapTypeOK /\ Nested /\ ThreadBelow /\ ContextsOK

(* The SSE registers, since a context x was entered.                        *)
SseSince(x, a, n) == a.since <= n /\ (x = a.xmm \/ x \in a.since + 1 .. n)
SseOK ==
  /\ xmm \in Nat
  /\ Going => \A l \in 1 .. Depth : SseSince(xmm, acts[l], steps)

TrapIInv ==
  /\ Going => Inner
  /\ SseOK
  /\ halted = "panic" => FrameAt(running.base) = running.saved

----------------------------------------------------------------------------
(* The words of a frame.                                                    *)
LEMMA SizeIs == Size = 28
  BY DEF Size, StateWords

LEMMA OffsetOf ==
  ASSUME NEW i \in 1 .. 28, StateWords[i] # "unused"
  PROVE  Offset(StateWords[i]) = i - 1
<1>1. \A j \in 1 .. 28 : StateWords[j] = StateWords[i] => j = i
  BY SMTT(60) DEF StateWords
<1> QED
  BY <1>1, SizeIs DEF Offset

LEMMA Offsets ==
  /\ Offset("rip") = 23 /\ Offset("cs") = 24 /\ Offset("rflags") = 25 /\ Offset("rsp") = 26
  /\ Offset("ss") = 27 /\ Offset("r15") = 9
<1>1. StateWords[24] = "rip" /\ StateWords[25] = "cs" /\ StateWords[26] = "rflags"
      /\ StateWords[27] = "rsp" /\ StateWords[28] = "ss" /\ StateWords[10] = "r15"
  BY DEF StateWords
<1> QED
  BY <1>1, OffsetOf

LEMMA RegOffsets ==
  ASSUME NEW r \in Regs
  PROVE  Offset(r) \in 0 .. 27 /\ StateWords[Offset(r) + 1] = r
<1>1. PICK i \in 1 .. 28 : StateWords[i] = r /\ r # "unused"
  BY SMTT(60) DEF StateWords, Regs, SavedRegisters, Pushed
<1> QED
  BY <1>1, OffsetOf

LEMMA PushedOffsets == \A r \in Pushed : r \in Regs /\ Offset(r) \in 23 .. 27
  BY Offsets DEF Pushed, Regs

LEMMA RegNames ==
  /\ "rsp" \in Regs /\ "rip" \in Regs /\ "cs" \in Regs /\ "rflags" \in Regs /\ "ss" \in Regs
  /\ "r15" \in Regs /\ "r12" \in Regs /\ "rax" \in Regs /\ "rbx" \in Regs /\ "rbp" \in Regs
  /\ "rdx" \in Regs /\ "rsi" \in Regs /\ "rdi" \in Regs /\ "rcx" \in Regs
  BY DEF Regs, SavedRegisters, Pushed

LEMMA FlagsDiffer ==
  /\ Flags(TRUE) = 514 /\ Flags(FALSE) = 2
  /\ KERNEL64_CS = 8
  BY DEF Flags, IF_, KERNEL64_CS

LEMMA WordIs == \A x : Word(x) = At(stack, x)
  BY DEF Word, At

LEMMA WithReads ==
  ASSUME NEW w, NEW m, NEW x
  PROVE  At(With(w, m), x) = IF x \in DOMAIN w THEN w[x] ELSE At(m, x)
  BY DEF At, With

LEMMA WithTyped ==
  ASSUME NEW w, NEW m, \A x \in DOMAIN w : w[x] \in Int, \A x \in DOMAIN m : m[x] \in Int
  PROVE  \A x \in DOMAIN With(w, m) : With(w, m)[x] \in Int
  BY DEF With

LEMMA FrameReads ==
  ASSUME cpu \in [Regs -> Int], NEW base \in Int, NEW n, NEW fn
  PROVE  /\ \A r \in Regs : At(Framed(base, n, fn), base + Offset(r)) = cpu[r]
         /\ \A x \in Int : x \notin base .. base + 27 => At(Framed(base, n, fn), x) = At(stack, x)
<1> DEFINE w == [a \in base .. base + Size - 1 |->
                   LET name == StateWords[a - base + 1] IN
                   IF name \in DOMAIN cpu THEN cpu[name]
                   ELSE IF name = "trapno" THEN n
                   ELSE IF name = "trapfn" THEN fn ELSE Word(a)]
<1>1. Framed(base, n, fn) = With(w, stack) /\ DOMAIN w = base .. base + 27
  BY SizeIs DEF Framed
<1>2. ASSUME NEW r \in Regs PROVE At(Framed(base, n, fn), base + Offset(r)) = cpu[r]
  <2>1. Offset(r) \in 0 .. 27 /\ StateWords[Offset(r) + 1] = r
    BY RegOffsets
  <2>2. base + Offset(r) \in base .. base + 27 /\ base + Offset(r) - base + 1 = Offset(r) + 1
    BY <2>1
  <2>3. w[base + Offset(r)] = cpu[r]
    BY <2>1, <2>2, SizeIs
  <2> HIDE DEF w
  <2> QED
    BY <1>1, <2>2, <2>3, WithReads
<1> HIDE DEF w
<1>3. ASSUME NEW x \in Int, x \notin base .. base + 27
      PROVE  At(Framed(base, n, fn), x) = At(stack, x)
  BY <1>1, <1>3, WithReads
<1> QED
  BY <1>2, <1>3

LEMMA FrameTyped ==
  ASSUME TrapTypeOK, NEW base \in Int, NEW n \in Int, NEW fn \in Int
  PROVE  \A x \in DOMAIN Framed(base, n, fn) : Framed(base, n, fn)[x] \in Int
<1>1. \A x : Word(x) \in Int
  BY DEF TrapTypeOK, Word
<1>2. cpu \in [Regs -> Int]
  BY DEF TrapTypeOK, Registers64
<1> DEFINE w == [a \in base .. base + Size - 1 |->
                   LET name == StateWords[a - base + 1] IN
                   IF name \in DOMAIN cpu THEN cpu[name]
                   ELSE IF name = "trapno" THEN n
                   ELSE IF name = "trapfn" THEN fn ELSE Word(a)]
<1>3. \A x \in DOMAIN w : w[x] \in Int
  BY <1>1, <1>2
<1>4. \A x \in DOMAIN stack : stack[x] \in Int
  BY DEF TrapTypeOK
<1>5. Framed(base, n, fn) = With(w, stack)
  BY DEF Framed
<1> HIDE DEF w
<1> QED
  BY <1>3, <1>4, <1>5, WithTyped

----------------------------------------------------------------------------
(* What is written below a context's words leaves it as it is.              *)
LEMMA LowIs ==
  ASSUME NEW a \in Entered
  PROVE  /\ Low(a) \in Int /\ a.base - 2 <= Low(a) /\ Low(a) <= a.base + 23
         /\ a.at = "iret" => Low(a) = a.base + 23
         /\ a.at \in {"load", "window"} => Low(a) = a.base
         /\ a.at = "pop" => Low(a) = a.base - 1
         /\ a.at = "code" => Low(a) = a.base - 2
  BY DEF Entered, Places, Low

LEMMA WrittenBelow ==
  ASSUME NEW a \in Entered, NEW c, NEW i, NEW m, NEW m2, NEW x \in Int, x <= Low(a),
         \A y \in Int : y >= x => At(m2, y) = At(m, y), ContextOK(a, c, i, m)
  PROVE  ContextOK(a, c, i, m2)
<1>1. \A y \in Int : y >= Low(a) => At(m2, y) = At(m, y)
  BY LowIs
<1>2. a.base \in Int /\ a.at \in Places
  BY DEF Entered
<1>3. FrameWhole(a, m2)
  <2>1. SUFFICES ASSUME NEW r \in IF a.at = "iret" THEN Pushed ELSE Regs
                 PROVE  At(m2, a.base + Offset(r)) = At(m, a.base + Offset(r))
    BY DEF ContextOK, FrameWhole
  <2>2. CASE a.at = "iret"
    <3>1. Offset(r) \in 23 .. 27
      BY <2>2, PushedOffsets
    <3> QED
      BY <1>1, <1>2, <2>2, <3>1, LowIs
  <2>3. CASE a.at # "iret"
    <3>1. Offset(r) \in 0 .. 27
      BY <2>3, RegOffsets
    <3>2. Low(a) <= a.base
      BY <1>2, <2>3, LowIs DEF Places
    <3> QED
      BY <1>1, <1>2, <3>1, <3>2, LowIs
  <2> QED
    BY <2>2, <2>3
<1>4. a.at \in {"code", "pop"} => At(m2, a.base - 1) = At(m, a.base - 1)
  BY <1>1, <1>2, LowIs
<1>5. a.at = "code" => At(m2, a.base - 2) = At(m, a.base - 2)
  BY <1>1, <1>2, LowIs
<1>6. a.runs = "interrupt" => Handler(a, c, i, m2)
  BY <1>2, <1>4 DEF ContextOK, Handler, Places
<1>7. a.runs = "trap" => Trapped(a, c, m2)
  BY <1>2, <1>5 DEF ContextOK, Trapped, Places
<1> QED
  BY <1>3, <1>6, <1>7 DEF ContextOK

----------------------------------------------------------------------------
(* The four ways in which a step changes the contexts.                      *)
LEMMA FramesFollow == Inner => \A l \in 2 .. Depth :
                        acts[l].at \notin {"window", "iret"} => FrameAt(acts[l].base) = acts[l].saved
<1> SUFFICES ASSUME Inner, NEW l \in 2 .. Depth, acts[l].at \notin {"window", "iret"}
             PROVE  FrameAt(acts[l].base) = acts[l].saved
  OBVIOUS
<1>1. acts[l].saved \in [Regs -> Int]
  BY DEF Inner, Nested, Entered, Registers64
<1>2. \A r \in Regs : Word(acts[l].base + Offset(r)) = acts[l].saved[r]
  BY WordIs DEF Inner, ContextsOK, ContextOK, FrameWhole
<1>3. FrameAt(acts[l].base) = [r \in Regs |-> Word(acts[l].base + Offset(r))]
  BY DEF FrameAt, Regs
<1> QED
  BY <1>1, <1>2, <1>3

LEMMA RspBelow ==
  ASSUME Inner, Depth >= 2, cpu.rsp <= Low(running)
  PROVE  \A l \in 2 .. Depth : cpu.rsp <= Low(acts[l])
<1> SUFFICES ASSUME NEW l \in 2 .. Depth, l # Depth PROVE cpu.rsp <= Low(acts[l])
  BY DEF running
<1>0. Depth \in Nat /\ Depth \in 2 .. Depth /\ l < Depth
  <2>1. Depth \in Nat
    BY DEF Inner, TrapTypeOK, Depth
  <2> QED
    BY <2>1
<1>1. acts[Depth] \in Entered /\ acts[l] \in Entered
  BY <1>0 DEF Inner, Nested
<1>2. acts[Depth].base + 28 <= acts[Depth].saved.rsp /\ acts[Depth].saved.rsp <= Low(acts[l])
  BY <1>0, SizeIs DEF Inner, Nested
<1>3. Low(acts[Depth]) <= acts[Depth].base + 23 /\ Low(acts[Depth]) \in Int /\ Low(acts[l]) \in Int
  BY <1>1, LowIs
<1>4. acts[Depth].saved.rsp \in Int /\ acts[Depth].base \in Int /\ cpu.rsp \in Int
  <2>1. acts[Depth].saved \in Registers64 /\ cpu \in Registers64 /\ acts[Depth].base \in Int
    BY <1>1 DEF Entered, Inner, TrapTypeOK
  <2> QED
    BY <2>1, RegNames DEF Registers64
<1> QED
  BY <1>2, <1>3, <1>4 DEF running

LEMMA Writes ==
  ASSUME Inner, UNCHANGED acts, cpu' \in Registers64, intState' = intState, steps' \in Nat,
         \A x \in DOMAIN stack' : (stack')[x] \in Int,
         \A y \in Int : y >= cpu.rsp => At(stack', y) = At(stack, y),
         Depth = 1 => cpu'["rsp"] <= Top,
         Depth >= 2 => /\ cpu.rsp <= Low(running)
                       /\ ContextOK(running, cpu, intState, stack') =>
                            ContextOK(running, cpu', intState', stack')
  PROVE  Inner'
<1>0. Depth \in Nat /\ Depth' = Depth
  BY DEF Inner, TrapTypeOK, Depth
<1>1. TrapTypeOK'
  BY DEF Inner, TrapTypeOK
<1>2. Nested'
  BY <1>0 DEF Inner, Nested, Low
<1>3. ASSUME NEW l \in 2 .. Depth PROVE ContextOK(acts[l], CpuOf(l)', StateOf(l)', stack')
  <2>1. acts[l] \in Entered /\ ContextOK(acts[l], CpuOf(l), StateOf(l), stack)
    BY DEF Inner, Nested, ContextsOK
  <2>2. Depth >= 2 /\ cpu.rsp <= Low(acts[l])
    BY <1>0, <1>3, RspBelow
  <2>3. cpu.rsp \in Int
    BY RegNames DEF Inner, TrapTypeOK, Registers64
  <2>4. ContextOK(acts[l], CpuOf(l), StateOf(l), stack')
    BY <2>1, <2>2, <2>3, WrittenBelow
  <2>5. CASE l = Depth
    BY <1>0, <2>2, <2>4, <2>5 DEF CpuOf, StateOf, running
  <2>6. CASE l # Depth
    BY <1>0, <2>4, <2>6 DEF CpuOf, StateOf
  <2> QED
    BY <2>5, <2>6
<1>4. ContextsOK'
  BY <1>0, <1>3 DEF ContextsOK
<1>5. ThreadBelow'
  BY <1>0 DEF Inner, Nested, ThreadBelow, CpuOf
<1> QED
  BY <1>1, <1>2, <1>4, <1>5 DEF Inner

LEMMA Moves ==
  ASSUME Inner, Depth >= 2, NEW p \in Places, acts' = Goto(p), UNCHANGED <<stack, steps>>,
         cpu' \in Registers64, intState' \in Int,
         ContextOK([running EXCEPT !.at = p], cpu', intState', stack)
  PROVE  Inner'
<1>0. Depth \in Nat /\ Depth' = Depth /\ Depth \in 2 .. Depth /\ Depth \in 1 .. Depth
      /\ Depth = Len(acts)
  BY DEF Inner, TrapTypeOK, Depth, Goto
<1>1. /\ acts'[Depth] = [running EXCEPT !.at = p]
      /\ \A l \in 1 .. Depth : l # Depth => acts'[l] = acts[l]
  BY <1>0 DEF Inner, TrapTypeOK, Depth, Goto, running
<1>2. running \in Entered
  BY <1>0 DEF Inner, Nested, running
<1>3. TrapTypeOK'
  <2>1. acts' \in Seq([runs : {"thread", "interrupt", "trap"}, at : Places, kept : [Regs -> Int],
                   saved : Registers64, state : Int, xmm : Nat, since : Nat, base : Int])
    <3> DEFINE R == [runs : {"thread", "interrupt", "trap"}, at : Places, kept : [Regs -> Int],
                   saved : Registers64, state : Int, xmm : Nat, since : Nat, base : Int]
    <3>1. acts \in Seq(R)
      BY DEF Inner, TrapTypeOK
    <3>2. [running EXCEPT !.at = p] \in R
      BY <1>2 DEF Entered
    <3> HIDE DEF R
    <3>3. acts' = [acts EXCEPT ![Depth] = [running EXCEPT !.at = p]]
      BY DEF Goto, running
    <3>4. acts' \in Seq(R)
      BY <1>0, <3>1, <3>2, <3>3
    <3> QED
      BY <3>4 DEF R
  <2> QED
    BY <2>1 DEF Inner, TrapTypeOK
<1>4. /\ [running EXCEPT !.at = p] \in Entered
      /\ [running EXCEPT !.at = p].base = running.base
      /\ [running EXCEPT !.at = p].saved = running.saved
      /\ [running EXCEPT !.at = p].runs = running.runs
  BY <1>2 DEF Entered
<1>8. acts'[Depth].base = acts[Depth].base /\ acts'[Depth].saved = acts[Depth].saved
      /\ acts'[Depth].state = acts[Depth].state
  <2>1. [running EXCEPT !.at = p].state = running.state
    BY <1>2 DEF Entered
  <2> QED
    BY <1>1, <1>4, <2>1 DEF running
<1>9. acts'[Depth] \in Entered
  BY <1>1, <1>4
<1>10. ASSUME NEW k \in 2 .. Depth PROVE acts'[k].saved = acts[k].saved
  <2>1. CASE k = Depth
    BY <1>8, <2>1
  <2>2. CASE k # Depth
    BY <1>0, <1>1, <2>2
  <2> QED
    BY <2>1, <2>2
<1>5. Nested'
  <2>1. /\ Depth' >= 1 /\ acts'[1].runs = "thread" /\ acts'[1].at = "code" /\ acts'[1].base = Top
    BY <1>0, <1>1 DEF Inner, Nested
  <2>2. ASSUME NEW l \in 2 .. Depth
        PROVE  /\ acts'[l] \in Entered
               /\ acts'[l].base % 2 = 0 /\ acts'[l].base > 8
               /\ acts'[l].base + Size <= acts'[l].saved.rsp /\ acts'[l].saved.rsp <= Top
               /\ l < Depth /\ acts'[l].runs = "trap" => acts'[l].at = "code"
    <3>1. CASE l = Depth
      <4>1. /\ acts[Depth].base % 2 = 0 /\ acts[Depth].base > 8
            /\ acts[Depth].base + Size <= acts[Depth].saved.rsp /\ acts[Depth].saved.rsp <= Top
        BY <1>0 DEF Inner, Nested
      <4> QED
        BY <1>0, <1>8, <1>9, <3>1, <4>1
    <3>2. CASE l # Depth
      BY <1>0, <1>1, <3>2 DEF Inner, Nested
    <3> QED
      BY <3>1, <3>2
  <2>3. ASSUME NEW l \in 2 .. Depth, NEW m \in 2 .. Depth, l < m
        PROVE  acts'[m].saved.rsp <= Low(acts'[l])
    <3>1. acts'[l] = acts[l] /\ acts'[m].saved = acts[m].saved
      BY <1>0, <1>1, <1>10, <2>3
    <3> QED
      BY <2>3, <3>1 DEF Inner, Nested
  <2>4. \A a : (Low(a))' = Low(a)
    BY DEF Low
  <2> QED
    BY <1>0, <2>1, <2>2, <2>3, <2>4 DEF Nested
<1>6. ASSUME NEW l \in 2 .. Depth PROVE ContextOK(acts'[l], CpuOf(l)', StateOf(l)', stack)
  <2>1. CASE l = Depth
    BY <1>0, <1>1, <2>1 DEF CpuOf, StateOf
  <2>2. CASE l # Depth
    <3>1. acts'[l] = acts[l] /\ acts'[l + 1].saved = acts[l + 1].saved
          /\ acts'[l + 1].state = acts[l + 1].state
      <4>1. l + 1 \in 1 .. Depth /\ l \in 1 .. Depth
        BY <1>0, <2>2
      <4>2. CASE l + 1 = Depth
        BY <1>1, <1>8, <2>2, <4>1, <4>2
      <4> QED
        BY <1>1, <2>2, <4>1, <4>2
    <3> QED
      BY <1>0, <2>2, <3>1 DEF CpuOf, StateOf, Inner, ContextsOK
  <2> QED
    BY <2>1, <2>2
<1>7. ContextsOK'
  BY <1>0, <1>6 DEF ContextsOK
<1>11. ThreadBelow'
  <2>1. CpuOf(1) = acts[2].saved /\ CpuOf(1)' = acts'[2].saved
    BY <1>0 DEF CpuOf
  <2>2. acts'[2].saved = acts[2].saved
    BY <1>0, <1>10
  <2> QED
    BY <2>1, <2>2 DEF Inner, ThreadBelow
<1> QED
  BY <1>3, <1>5, <1>7, <1>11 DEF Inner

LEMMA Enters ==
  ASSUME Inner, NEW new \in Entered, acts' = Append(acts, new),
         new.saved = cpu, new.state = intState, cpu.rsp <= Top,
         Depth >= 2 => /\ cpu.rsp <= Low(running)
                       /\ running.runs = "trap" => running.at = "code",
         new.base % 2 = 0, new.base > 8, new.base + 28 <= cpu.rsp,
         cpu' \in Registers64, intState' \in Int, steps' \in Nat,
         \A x \in DOMAIN stack' : (stack')[x] \in Int,
         \A y \in Int : y >= cpu.rsp => At(stack', y) = At(stack, y),
         ContextOK(new, cpu', intState', stack')
  PROVE  Inner'
<1> DEFINE R == [runs : {"thread", "interrupt", "trap"}, at : Places, kept : [Regs -> Int],
                 saved : Registers64, state : Int, xmm : Nat, since : Nat, base : Int]
<1>1. acts \in Seq(R) /\ new \in R
  BY DEF Inner, TrapTypeOK, Entered
<1> HIDE DEF R
<1>0. /\ Depth = Len(acts) /\ Depth \in Nat /\ Depth' = Depth + 1 /\ Depth >= 1
      /\ acts'[Depth + 1] = new /\ acts' \in Seq(R)
      /\ \A l \in 1 .. Depth : acts'[l] = acts[l]
  BY <1>1 DEF Depth, Inner, Nested
<1>2. TrapTypeOK'
  BY <1>0 DEF TrapTypeOK, R, Inner
<1>3. cpu.rsp \in Int
  BY RegNames DEF Inner, TrapTypeOK, Registers64
<1>4. \A l \in 2 .. Depth : cpu.rsp <= Low(acts[l])
  BY <1>0, RspBelow
<1>5. Nested'
  <2>1. /\ Depth' >= 1 /\ acts'[1].runs = "thread" /\ acts'[1].at = "code" /\ acts'[1].base = Top
    BY <1>0 DEF Inner, Nested
  <2>2. ASSUME NEW l \in 2 .. Depth + 1
        PROVE  /\ acts'[l] \in Entered
               /\ acts'[l].base % 2 = 0 /\ acts'[l].base > 8
               /\ acts'[l].base + Size <= acts'[l].saved.rsp /\ acts'[l].saved.rsp <= Top
               /\ l < Depth + 1 /\ acts'[l].runs = "trap" => acts'[l].at = "code"
    <3>1. CASE l = Depth + 1
      BY <1>0, <3>1, SizeIs
    <3>2. CASE l = Depth
      BY <1>0, <2>2, <3>2 DEF Inner, Nested, running
    <3>3. CASE l < Depth
      BY <1>0, <2>2, <3>3 DEF Inner, Nested
    <3> QED
      BY <1>0, <3>1, <3>2, <3>3
  <2>3. ASSUME NEW l \in 2 .. Depth + 1, NEW m \in 2 .. Depth + 1, l < m
        PROVE  acts'[m].saved.rsp <= Low(acts'[l])
    <3>1. acts'[l] = acts[l] /\ l \in 2 .. Depth
      BY <1>0, <2>3
    <3>2. CASE m = Depth + 1
      BY <1>0, <1>4, <3>1, <3>2
    <3>3. CASE m # Depth + 1
      BY <1>0, <2>3, <3>1, <3>3 DEF Inner, Nested
    <3> QED
      BY <3>2, <3>3
  <2>4. \A a : (Low(a))' = Low(a)
    BY DEF Low
  <2> QED
    BY <1>0, <2>1, <2>2, <2>3, <2>4 DEF Nested
<1>6. ASSUME NEW l \in 2 .. Depth + 1 PROVE ContextOK(acts'[l], CpuOf(l)', StateOf(l)', stack')
  <2>1. CASE l = Depth + 1
    BY <1>0, <2>1 DEF CpuOf, StateOf
  <2>2. CASE l # Depth + 1
    <3>1. l \in 2 .. Depth /\ acts'[l] = acts[l] /\ acts[l] \in Entered
      BY <1>0, <2>2 DEF Inner, Nested
    <3>2. CpuOf(l)' = CpuOf(l) /\ StateOf(l)' = StateOf(l)
      <4>1. CASE l = Depth
        BY <1>0, <4>1 DEF CpuOf, StateOf
      <4>2. CASE l # Depth
        <5>1. acts'[l + 1] = acts[l + 1] /\ l # Depth + 1
          BY <1>0, <3>1, <4>2
        <5> QED
          BY <1>0, <4>2, <5>1 DEF CpuOf, StateOf
      <4> QED
        BY <4>1, <4>2
    <3>3. ContextOK(acts[l], CpuOf(l), StateOf(l), stack)
      BY <3>1 DEF Inner, ContextsOK
    <3>4. ContextOK(acts[l], CpuOf(l), StateOf(l), stack')
      BY <1>3, <1>4, <3>1, <3>3, WrittenBelow
    <3> QED
      BY <3>1, <3>2, <3>4
  <2> QED
    BY <2>1, <2>2
<1>7. ContextsOK'
  BY <1>0, <1>6 DEF ContextsOK
<1>8. ThreadBelow'
  <2>1. CpuOf(1)' = acts'[2].saved
    BY <1>0 DEF CpuOf
  <2>2. CASE Depth = 1
    <3>1. 2 = Depth + 1 /\ acts'[Depth + 1] = new
      BY <1>0, <2>2
    <3> QED
      BY <2>1, <3>1, TrapAssumption DEF ThreadBelow
  <2>3. CASE Depth # 1
    <3>1. acts'[2] = acts[2] /\ CpuOf(1) = acts[2].saved
      BY <1>0, <2>3 DEF CpuOf
    <3> QED
      BY <2>1, <3>1, TrapAssumption DEF ThreadBelow, Inner
  <2> QED
    BY <2>2, <2>3
<1> QED
  BY <1>2, <1>5, <1>7, <1>8 DEF Inner

LEMMA Leaves ==
  ASSUME Inner, Depth >= 2, acts' = SubSeq(acts, 1, Depth - 1), UNCHANGED <<stack, steps>>,
         cpu' = running.saved, intState' = running.state
  PROVE  Inner'
<1> DEFINE R == [runs : {"thread", "interrupt", "trap"}, at : Places, kept : [Regs -> Int],
                 saved : Registers64, state : Int, xmm : Nat, since : Nat, base : Int]
<1>1. acts \in Seq(R)
  BY DEF Inner, TrapTypeOK
<1> HIDE DEF R
<1>0. /\ Depth = Len(acts) /\ Depth \in Nat /\ Depth' = Depth - 1 /\ acts' \in Seq(R)
      /\ \A l \in 1 .. Depth - 1 : acts'[l] = acts[l]
  BY <1>1 DEF Depth
<1>2. running \in Entered
  BY <1>0 DEF Inner, Nested, running
<1>3. TrapTypeOK'
  BY <1>0, <1>2 DEF TrapTypeOK, R, Inner, Entered
<1>4. Nested'
  <2>1. \A a : (Low(a))' = Low(a)
    BY DEF Low
  <2>2. /\ Depth' >= 1 /\ acts'[1].runs = "thread" /\ acts'[1].at = "code" /\ acts'[1].base = Top
    BY <1>0 DEF Inner, Nested
  <2>3. ASSUME NEW l \in 2 .. Depth - 1
        PROVE  /\ acts'[l] \in Entered
               /\ acts'[l].base % 2 = 0 /\ acts'[l].base > 8
               /\ acts'[l].base + Size <= acts'[l].saved.rsp /\ acts'[l].saved.rsp <= Top
               /\ l < Depth - 1 /\ acts'[l].runs = "trap" => acts'[l].at = "code"
    BY <1>0 DEF Inner, Nested
  <2>4. ASSUME NEW l \in 2 .. Depth - 1, NEW m \in 2 .. Depth - 1, l < m
        PROVE  acts'[m].saved.rsp <= Low(acts'[l])
    BY <1>0, <2>4 DEF Inner, Nested
  <2> QED
    BY <1>0, <2>1, <2>2, <2>3, <2>4 DEF Nested
<1>5. ASSUME NEW l \in 2 .. Depth - 1 PROVE ContextOK(acts'[l], CpuOf(l)', StateOf(l)', stack)
  <2>1. CASE l = Depth - 1
    BY <1>0, <2>1 DEF CpuOf, StateOf, running, Inner, ContextsOK
  <2>2. CASE l # Depth - 1
    <3>1. acts'[l] = acts[l] /\ acts'[l + 1] = acts[l + 1] /\ l # Depth /\ l \in 2 .. Depth
      BY <1>0, <2>2
    <3> QED
      BY <1>0, <2>2, <3>1 DEF CpuOf, StateOf, Inner, ContextsOK
  <2> QED
    BY <2>1, <2>2
<1>6. ContextsOK'
  BY <1>0, <1>5 DEF ContextsOK
<1>7. ThreadBelow'
  <2>1. CpuOf(1) = acts[2].saved
    BY <1>0 DEF CpuOf
  <2>2. CpuOf(1)' = acts[2].saved
    <3>1. CASE Depth = 2
      BY <1>0, <3>1 DEF CpuOf, running
    <3>2. CASE Depth # 2
      <4>1. acts'[2] = acts[2] /\ Depth' # 1
        BY <1>0, <3>2
      <4> QED
        BY <1>0, <3>2, <4>1 DEF CpuOf
    <3> QED
      BY <3>1, <3>2
  <2> QED
    BY <2>1, <2>2, TrapAssumption DEF ThreadBelow, Inner
<1> QED
  BY <1>3, <1>4, <1>6, <1>7 DEF Inner

----------------------------------------------------------------------------
(* The steps.                                                               *)
RunningFacts ==
  /\ Depth \in Nat /\ Depth >= 1
  /\ cpu \in [Regs -> Int] /\ DOMAIN cpu = Regs
  /\ cpu["cs"] = 8 /\ cpu["rflags"] \in {2, 514}
  /\ Depth = 1 => /\ running.runs = "thread" /\ running.at = "code" /\ running.base = Top
                  /\ cpu["rsp"] <= Top
  /\ Depth >= 2 => /\ running \in Entered
                   /\ ContextOK(running, cpu, intState, stack)
                   /\ running.base % 2 = 0 /\ running.base > 8
                   /\ running.base + 28 <= running.saved["rsp"] /\ running.saved["rsp"] <= Top
                   /\ running.runs # "thread"

LEMMA OfRunning == Inner => RunningFacts
<1> SUFFICES ASSUME Inner PROVE RunningFacts
  OBVIOUS
<1>1. Depth \in Nat /\ Depth >= 1
  BY DEF Inner, TrapTypeOK, Nested, Depth
<1>2. cpu \in [Regs -> Int] /\ DOMAIN cpu = Regs /\ cpu["cs"] = 8 /\ cpu["rflags"] \in {2, 514}
  BY DEF Inner, TrapTypeOK, Registers64
<1>3. Depth = 1 => /\ running.runs = "thread" /\ running.at = "code" /\ running.base = Top
                   /\ cpu["rsp"] <= Top
  BY DEF Inner, Nested, running, ThreadBelow, CpuOf
<1>4. ASSUME Depth >= 2
      PROVE  /\ running \in Entered
             /\ ContextOK(running, cpu, intState, stack)
             /\ running.base % 2 = 0 /\ running.base > 8
             /\ running.base + 28 <= running.saved["rsp"] /\ running.saved["rsp"] <= Top
             /\ running.runs # "thread"
  <2>1. Depth \in 2 .. Depth
    BY <1>1, <1>4
  <2>2. running \in Entered /\ ContextOK(running, cpu, intState, stack)
    BY <2>1 DEF Inner, Nested, ContextsOK, CpuOf, StateOf, running
  <2>3. /\ running.base % 2 = 0 /\ running.base > 8
        /\ running.base + 28 <= running.saved["rsp"] /\ running.saved["rsp"] <= Top
    BY <2>1, SizeIs DEF Inner, Nested, running
  <2> QED
    BY <2>2, <2>3 DEF Entered
<1> QED
  BY <1>1, <1>2, <1>3, <1>4 DEF RunningFacts

LEMMA FreshTyped ==
  ASSUME NEW n \in Nat, NEW r \in Regs, r \in SavedRegisters \cup {"rip"}
  PROVE  FreshValues(n)[r] \in Int
<1>1. Offset(r) \in Int
  BY RegOffsets
<1> QED
  BY <1>1 DEF FreshValues

LEMMA ComputeKeeps ==
  ASSUME Inner, NEW k \in Locals, Compute(k)
  PROVE  Inner'
<1>0. RunningFacts /\ k \in Nat /\ steps \in Nat /\ cpu.rsp \in Int
  BY OfRunning, TrapAssumption, RegNames DEF Inner, TrapTypeOK, RunningFacts
<1>1. cpu' \in Registers64 /\ cpu'.rsp = cpu.rsp - k /\ cpu'.rflags = cpu.rflags
  <2>1. ASSUME NEW r \in Regs PROVE cpu'[r] \in Int
    <3>1. CASE r = "rsp"
      BY <1>0, <3>1 DEF Compute, RunningFacts
    <3>2. CASE r # "rsp" /\ r \in Pushed \ {"rip"}
      BY <1>0, <3>2 DEF Compute, RunningFacts
    <3>3. CASE r # "rsp" /\ r \notin Pushed \ {"rip"}
      <4>1. r \in SavedRegisters \cup {"rip"}
        BY <3>3 DEF Regs
      <4>2. FreshValues(steps + 1)[r] \in Int
        BY <1>0, <4>1, FreshTyped
      <4> QED
        BY <1>0, <3>3, <4>2 DEF Compute, RunningFacts
    <3> QED
      BY <3>1, <3>2, <3>3
  <2>2. DOMAIN cpu' = Regs /\ cpu' = [r \in Regs |-> cpu'[r]]
    BY <1>0 DEF Compute, RunningFacts
  <2>3. cpu'["cs"] = cpu["cs"] /\ cpu'["rflags"] = cpu["rflags"] /\ cpu'["rsp"] = cpu["rsp"] - k
    BY <1>0, RegNames DEF Compute, RunningFacts, Pushed
  <2>4. cpu' \in [Regs -> Int]
    BY <2>1, <2>2
  <2> QED
    BY <1>0, <2>3, <2>4 DEF RunningFacts, Registers64
<1> DEFINE w == [a \in cpu.rsp - k .. cpu.rsp - 1 |-> 1000 + 32 * (steps + 1)]
<1>2. stack' = With(w, stack) /\ \A x \in DOMAIN w : w[x] \in Int /\ x < cpu.rsp
  BY <1>0 DEF Compute
<1> HIDE DEF w
<1>3. \A x \in DOMAIN stack' : (stack')[x] \in Int
  BY <1>2, WithTyped DEF Inner, TrapTypeOK
<1>4. \A y \in Int : y >= cpu.rsp => At(stack', y) = At(stack, y)
  BY <1>0, <1>2, WithReads
<1>5. ASSUME Depth >= 2 PROVE cpu.rsp <= Low(running)
  <2>1. running.at = "code" /\ cpu.rsp <= running.base - 3
    BY <1>0, <1>5 DEF Compute, RunningFacts, ContextOK, Handler, Trapped, Entered
  <2> QED
    BY <1>0, <1>5, <2>1, LowIs DEF RunningFacts, Entered
<1>6. ASSUME Depth >= 2, ContextOK(running, cpu, intState, stack')
      PROVE  ContextOK(running, cpu', intState', stack')
  <2>1. running.at = "code" /\ intState' = intState /\ running.base \in Int
    BY <1>0, <1>6 DEF Compute, RunningFacts, Entered
  <2>2. cpu'.rsp <= cpu.rsp
    BY <1>0, <1>1
  <2>3. cpu'.rsp \in Int
    BY <1>0, <1>1
  <2> QED
    BY <1>0, <1>6, <2>1, <2>2, <2>3 DEF ContextOK, Handler, Trapped
<1>7. Depth = 1 => cpu'["rsp"] <= Top
  BY <1>0, <1>1, TrapAssumption DEF RunningFacts
<1> QED
  <2>1. UNCHANGED acts /\ intState' = intState /\ steps' \in Nat
    BY <1>0 DEF Compute
  <2> QED
    BY <1>1, <1>3, <1>4, <1>5, <1>6, <1>7, <2>1, Writes

LEMMA PrintKeeps == Inner /\ PrintCharacter => Inner'
<1> SUFFICES ASSUME Inner, PrintCharacter PROVE Inner'
  OBVIOUS
<1>0. RunningFacts /\ running.at = "code" /\ running.runs = "interrupt" /\ steps \in Nat
  BY OfRunning DEF PrintCharacter, Inner, TrapTypeOK
<1>1. Depth >= 2
  BY <1>0 DEF RunningFacts
<1>2. cpu' = [cpu EXCEPT !["rflags"] = 514]
  BY DEF PrintCharacter, Flags, IF_
<1>3. cpu' \in Registers64 /\ cpu'["rsp"] = cpu["rsp"]
  BY <1>0, <1>2, RegNames DEF RunningFacts, Registers64
<1>4. cpu.rsp <= Low(running)
  <2>1. cpu.rsp <= running.base - 3 /\ cpu.rsp \in Int
    BY <1>0, <1>1, RegNames DEF RunningFacts, ContextOK, Handler
  <2> QED
    BY <1>0, <1>1, <2>1, LowIs DEF RunningFacts, Entered
<1>5. ContextOK(running, cpu, intState, stack') => ContextOK(running, cpu', intState', stack')
  BY <1>0, <1>3 DEF ContextOK, Handler, PrintCharacter
<1>6. UNCHANGED <<acts, stack>> /\ intState' = intState /\ steps' = steps
  BY DEF PrintCharacter
<1>7. \A x \in DOMAIN stack' : (stack')[x] \in Int
  BY <1>6 DEF Inner, TrapTypeOK
<1>8. \A y \in Int : y >= cpu.rsp => At(stack', y) = At(stack, y)
  BY <1>6
<1> QED
  BY <1>0, <1>1, <1>3, <1>4, <1>5, <1>6, <1>7, <1>8, Writes

LEMMA NextPlace ==
  ASSUME Inner, Depth >= 2, NEW p \in Places
  PROVE  LET a == [running EXCEPT !.at = p] IN
         /\ a \in Entered /\ a.at = p /\ a.runs = running.runs
         /\ a.base = running.base /\ a.saved = running.saved /\ a.kept = running.kept
         /\ a.state = running.state
         /\ running.at # "iret" => FrameWhole(a, stack)
<1>1. running \in Entered /\ FrameWhole(running, stack)
  BY OfRunning DEF RunningFacts, ContextOK
<1>2. Pushed \subseteq Regs
  BY DEF Regs
<1> QED
  BY <1>1, <1>2 DEF Entered, FrameWhole

LEMMA ReturnedIs ==
  ASSUME Inner, Depth >= 2
  PROVE  /\ Returned \in [Regs -> Int]
         /\ Returned["r12"] = running.kept["r12"] /\ Returned["r15"] = running.kept["r15"]
         /\ Returned["cs"] = cpu["cs"] /\ Returned["rflags"] = cpu["rflags"]
<1>0. RunningFacts /\ running.kept \in [Regs -> Int] /\ steps \in Nat
  BY OfRunning DEF RunningFacts, Entered, Inner, TrapTypeOK
<1>1. ASSUME NEW r \in Regs PROVE Returned[r] \in Int
  <2>1. CASE r \in CalleeSaved
    BY <1>0, <2>1 DEF Returned, RunningFacts
  <2>2. CASE r \notin CalleeSaved /\ r \in Pushed
    BY <1>0, <2>2 DEF Returned, RunningFacts
  <2>3. CASE r \notin CalleeSaved /\ r \notin Pushed
    <3>1. FreshValues(steps + 1)[r] \in Int
      BY <1>0, <2>3, FreshTyped DEF Regs
    <3> QED
      BY <1>0, <2>3, <3>1 DEF Returned, RunningFacts
  <2> QED
    BY <2>1, <2>2, <2>3
<1>2. Returned \in [Regs -> Int]
  <2>1. DOMAIN Returned = Regs /\ Returned = [r \in Regs |-> Returned[r]]
    BY <1>0 DEF Returned, RunningFacts
  <2> QED
    BY <1>1, <2>1
<1>3. Returned["r12"] = running.kept["r12"] /\ Returned["r15"] = running.kept["r15"]
  BY <1>0, RegNames DEF Returned, CalleeSaved, RunningFacts
<1>4. Returned["cs"] = cpu["cs"] /\ Returned["rflags"] = cpu["rflags"]
  BY <1>0, RegNames DEF Returned, CalleeSaved, RunningFacts, Pushed
<1> QED
  BY <1>2, <1>3, <1>4

LEMMA InterruptDoneKeeps == Inner /\ InterruptDone => Inner'
<1> SUFFICES ASSUME Inner, InterruptDone PROVE Inner'
  OBVIOUS
<1>0. RunningFacts /\ running.at = "code" /\ running.runs = "interrupt" /\ intState \in Int
  BY OfRunning DEF InterruptDone, Inner, TrapTypeOK
<1>1. Depth >= 2
  BY <1>0 DEF RunningFacts
<1>2. cpu' = [Returned EXCEPT !["rsp"] = Returned["r12"], !["rip"] = 1]
  BY DEF InterruptDone
<1>3. /\ running.kept["r12"] = running.base - 1 /\ running.kept["r15"] = running.base
      /\ At(stack, running.base - 1) = running.state /\ running.base \in Int
  BY <1>0, <1>1 DEF RunningFacts, ContextOK, Handler, Entered
<1>4. /\ cpu' \in [Regs -> Int] /\ cpu'["rsp"] = running.base - 1 /\ cpu'["r15"] = running.base
      /\ cpu'["cs"] = 8 /\ cpu'["rflags"] \in {2, 514}
  BY <1>0, <1>1, <1>2, <1>3, ReturnedIs, RegNames DEF RunningFacts
<1>5. cpu' \in Registers64
  BY <1>4 DEF Registers64
<1>6. ContextOK([running EXCEPT !.at = "pop"], cpu', intState', stack)
  BY <1>0, <1>1, <1>3, <1>4, NextPlace DEF ContextOK, Handler, Places
<1>7. acts' = Goto("pop") /\ UNCHANGED <<stack, steps>> /\ intState' \in Int /\ "pop" \in Places
  BY <1>0 DEF InterruptDone, Places
<1> QED
  BY <1>1, <1>5, <1>6, <1>7, Moves

LEMMA PopStateKeeps == Inner /\ PopState => Inner'
<1> SUFFICES ASSUME Inner, PopState PROVE Inner'
  OBVIOUS
<1>0. RunningFacts /\ running.at = "pop"
  BY OfRunning DEF PopState
<1>1. Depth >= 2 /\ running.runs = "interrupt" /\ running.base \in Int /\ running.state \in Int
  BY <1>0 DEF RunningFacts, ContextOK, Trapped, Entered
<1>2. cpu' = [cpu EXCEPT !["rsp"] = @ + 1, !["rip"] = 2]
  BY DEF PopState
<1>3. /\ cpu["rsp"] = running.base - 1 /\ cpu["r15"] = running.base
      /\ At(stack, running.base - 1) = running.state
      /\ running.kept["r12"] = running.base - 1 /\ running.kept["r15"] = running.base
  BY <1>0, <1>1 DEF RunningFacts, ContextOK, Handler
<1>4. /\ cpu' \in [Regs -> Int] /\ cpu'["rsp"] = running.base /\ cpu'["r15"] = running.base
      /\ cpu'["cs"] = 8 /\ cpu'["rflags"] \in {2, 514}
  BY <1>0, <1>1, <1>2, <1>3, RegNames DEF RunningFacts
<1>5. cpu' \in Registers64
  BY <1>4 DEF Registers64
<1>6. intState' = running.state
  BY <1>3, WordIs DEF PopState, SavedState
<1>7. ContextOK([running EXCEPT !.at = "load"], cpu', intState', stack)
  BY <1>0, <1>1, <1>3, <1>4, <1>6, NextPlace DEF ContextOK, Handler, Places
<1>8. acts' = Goto("load") /\ UNCHANGED <<stack, steps>> /\ intState' \in Int /\ "load" \in Places
  BY <1>1, <1>6 DEF PopState, Places
<1> QED
  BY <1>1, <1>5, <1>7, <1>8, Moves

LEMMA TrapDoneKeeps == Inner /\ TrapDone => Inner'
<1> SUFFICES ASSUME Inner, TrapDone PROVE Inner'
  OBVIOUS
<1>0. RunningFacts /\ running.at = "code" /\ running.runs = "trap" /\ intState \in Int
  BY OfRunning DEF TrapDone, Inner, TrapTypeOK
<1>1. Depth >= 2 /\ running.base \in Int
  BY <1>0 DEF RunningFacts, Entered
<1>2. /\ running.kept["rsp"] = running.base - 2
      /\ At(stack, running.base - 2) = running.base - 1
  BY <1>0, <1>1 DEF RunningFacts, ContextOK, Trapped
<1> DEFINE sp == running.base - 1
<1>3. Word(running.kept.rsp) = sp /\ Word(sp) \in Int
  BY <1>2, WordIs DEF Inner, TrapTypeOK, Word
<1>4. cpu' = [Returned EXCEPT !["rbp"] = Word(sp), !["rsp"] = sp + 2, !["r15"] = sp + 2,
                              !["rflags"] = 2, !["rip"] = 2]
  BY <1>3 DEF TrapDone, Flags
<1>5. /\ cpu' \in [Regs -> Int] /\ cpu'["r15"] = running.base + 1
      /\ cpu'["cs"] = 8 /\ cpu'["rflags"] = 2
  BY <1>0, <1>1, <1>3, <1>4, ReturnedIs, RegNames DEF RunningFacts
<1>6. cpu' \in Registers64
  BY <1>5 DEF Registers64
<1>7. ContextOK([running EXCEPT !.at = "load"], cpu', intState', stack)
  BY <1>0, <1>1, <1>5, NextPlace DEF ContextOK, Trapped, Places
<1>8. acts' = Goto("load") /\ UNCHANGED <<stack, steps>> /\ intState' \in Int /\ "load" \in Places
  BY <1>0 DEF TrapDone, Places
<1> QED
  BY <1>1, <1>6, <1>7, <1>8, Moves

LEMMA LoadKeeps == Inner /\ Load => Inner'
<1> SUFFICES ASSUME Inner, Load PROVE Inner'
  OBVIOUS
<1>0. RunningFacts /\ running.at = "load" /\ intState \in Int
  BY OfRunning DEF Load, Inner, TrapTypeOK
<1>1. Depth >= 2 /\ running \in Entered /\ running.base \in Int /\ cpu["r15"] \in Int
  BY <1>0, RegNames DEF RunningFacts, Entered
<1>2. \A x : Word(x) \in Int
  BY DEF Inner, TrapTypeOK, Word
<1>3. cpu' \in [Regs -> Int]
  <2>1. ASSUME NEW r \in Regs PROVE cpu'[r] \in Int
    BY <1>0, <1>2 DEF Load, RunningFacts
  <2>2. cpu' = [r \in Regs |-> cpu'[r]]
    BY <1>0 DEF Load, RunningFacts
  <2> QED
    BY <2>1, <2>2
<1>4. /\ cpu'["rsp"] = Word(cpu["r15"] + 9) /\ cpu'["r15"] = cpu["r15"]
      /\ cpu'["cs"] = cpu["cs"] /\ cpu'["rflags"] = cpu["rflags"]
  BY <1>0, RegNames, Offsets DEF Load, RunningFacts, SavedRegisters
<1>5. \A r \in SavedRegisters \ {"r15"} : cpu'[r] = Word(cpu["r15"] + Offset(r))
  <2>1. SUFFICES ASSUME NEW r \in SavedRegisters \ {"r15"}
                 PROVE  cpu'[r] = Word(cpu["r15"] + Offset(r))
    OBVIOUS
  <2>2. r \in Regs /\ r # "rsp" /\ r # "rip"
    BY DEF Regs, SavedRegisters
  <2> QED
    BY <1>0, <2>2 DEF Load, RunningFacts
<1>6. cpu' \in Registers64
  BY <1>0, <1>3, <1>4 DEF Registers64, RunningFacts
<1>7. \A r \in Regs : Word(running.base + Offset(r)) = running.saved[r]
  BY <1>0, <1>1, WordIs DEF RunningFacts, ContextOK, FrameWhole
<1>8. CASE running.runs = "interrupt"
  <2>1. /\ cpu["r15"] = running.base /\ intState = running.state
        /\ running.kept["r12"] = running.base - 1 /\ running.kept["r15"] = running.base
    BY <1>0, <1>1, <1>8 DEF RunningFacts, ContextOK, Handler
  <2>2. cpu'["rsp"] = running.saved["r15"]
    BY <1>4, <1>7, <2>1, Offsets, RegNames
  <2>3. \A r \in SavedRegisters \ {"r15"} : cpu'[r] = running.saved[r]
    BY <1>5, <1>7, <2>1 DEF Regs
  <2>4. ContextOK([running EXCEPT !.at = "window"], cpu', intState', stack)
    <3>1. intState' = intState /\ cpu'["r15"] = running.base
      BY <1>4, <2>1 DEF Load
    <3> QED
      BY <1>0, <1>1, <1>8, <2>1, <2>2, <2>3, <3>1, NextPlace
         DEF ContextOK, Handler, Given, Places
  <2> QED
    BY <1>0, <1>1, <1>6, <2>4, Moves DEF Load, Places
<1>9. CASE running.runs = "trap"
  <2>1. cpu["r15"] = running.base + 1 /\ cpu["rflags"] = 2
    BY <1>0, <1>1, <1>9 DEF RunningFacts, ContextOK, Trapped
  <2>2. ContextOK([running EXCEPT !.at = "window"], cpu', intState', stack)
    BY <1>0, <1>1, <1>4, <1>9, <2>1, NextPlace DEF ContextOK, Trapped, Places
  <2> QED
    BY <1>0, <1>1, <1>6, <2>2, Moves DEF Load, Places
<1> QED
  BY <1>1, <1>8, <1>9 DEF Entered

LEMMA SwapKeeps == Inner /\ Swap => Inner'
<1> SUFFICES ASSUME Inner, Swap PROVE Inner'
  OBVIOUS
<1>0. RunningFacts /\ running.at = "window" /\ intState \in Int
  BY OfRunning DEF Swap, Inner, TrapTypeOK
<1>1. Depth >= 2 /\ running \in Entered /\ running.base \in Int
  BY <1>0 DEF RunningFacts, Entered
<1>2. cpu' = [cpu EXCEPT !["r15"] = cpu["rsp"], !["rsp"] = cpu["r15"] + 23, !["rip"] = 4]
  BY Offsets DEF Swap, Popped
<1>3. /\ cpu' \in [Regs -> Int] /\ cpu'["r15"] = cpu["rsp"] /\ cpu'["rsp"] = cpu["r15"] + 23
      /\ cpu'["cs"] = 8 /\ cpu'["rflags"] = cpu["rflags"] /\ cpu'["rflags"] \in {2, 514}
  BY <1>0, <1>2, RegNames DEF RunningFacts
<1>4. cpu' \in Registers64
  BY <1>3 DEF Registers64
<1>5. CASE running.runs = "interrupt"
  <2>1. /\ cpu["r15"] = running.base /\ intState = running.state
        /\ cpu["rsp"] = running.saved["r15"] /\ Given(running, cpu, SavedRegisters \ {"r15"})
        /\ running.kept["r12"] = running.base - 1 /\ running.kept["r15"] = running.base
    BY <1>0, <1>1, <1>5 DEF RunningFacts, ContextOK, Handler
  <2>2. \A r \in SavedRegisters : cpu'[r] = running.saved[r]
    <3>1. SUFFICES ASSUME NEW r \in SavedRegisters, r # "r15" PROVE cpu'[r] = running.saved[r]
      BY <1>3, <2>1
    <3>2. r \in Regs /\ r # "rsp" /\ r # "rip" /\ cpu[r] = running.saved[r]
      BY <2>1, <3>1 DEF Regs, SavedRegisters, Given
    <3> QED
      BY <1>0, <1>2, <3>1, <3>2 DEF RunningFacts
  <2>3. ContextOK([running EXCEPT !.at = "iret"], cpu', intState', stack)
    <3>1. intState' = intState /\ cpu'["rsp"] = running.base + 23
      BY <1>3, <2>1 DEF Swap
    <3> QED
      BY <1>0, <1>1, <1>5, <2>1, <2>2, <3>1, NextPlace DEF ContextOK, Handler, Given, Places
  <2> QED
    BY <1>0, <1>1, <1>4, <2>3, Moves DEF Swap, Places
<1>6. CASE running.runs = "trap"
  <2>1. cpu["r15"] = running.base + 1 /\ cpu["rflags"] = 2
    BY <1>0, <1>1, <1>6 DEF RunningFacts, ContextOK, Trapped
  <2>2. ContextOK([running EXCEPT !.at = "iret"], cpu', intState', stack)
    BY <1>0, <1>1, <1>3, <1>6, <2>1, NextPlace DEF ContextOK, Trapped, Places
  <2> QED
    BY <1>0, <1>1, <1>4, <2>2, Moves DEF Swap, Places
<1> QED
  BY <1>1, <1>5, <1>6 DEF Entered

(* An interrupt returns to what it interrupted; the flags of a trap's frame *)
(* are no selector.                                                         *)
LEMMA IretReturns ==
  ASSUME Inner, Iret
  PROVE  \/ /\ acts' = SubSeq(acts, 1, Depth - 1) /\ Depth >= 2
            /\ cpu' = running.saved /\ intState = running.state /\ halted' = halted
         \/ acts' = acts /\ halted' = "double fault"
<1>0. RunningFacts /\ running.at = "iret"
  BY OfRunning DEF Iret
<1>1. Depth >= 2 /\ running \in Entered /\ running.base \in Int /\ running.saved \in Registers64
  BY <1>0 DEF RunningFacts, Entered
<1>2. /\ Word(running.base + 23) = running.saved["rip"]
      /\ Word(running.base + 24) = running.saved["cs"]
      /\ Word(running.base + 25) = running.saved["rflags"]
      /\ Word(running.base + 26) = running.saved["rsp"]
      /\ Word(running.base + 27) = running.saved["ss"]
  <2>1. \A r \in Pushed : Word(running.base + Offset(r)) = running.saved[r]
    BY <1>0, <1>1, WordIs DEF RunningFacts, ContextOK, FrameWhole
  <2> QED
    BY <2>1, Offsets DEF Pushed
<1>3. CASE running.runs = "interrupt"
  <2>1. /\ cpu["rsp"] = running.base + 23 /\ intState = running.state
        /\ \A r \in SavedRegisters : cpu[r] = running.saved[r]
    BY <1>0, <1>1, <1>3 DEF RunningFacts, ContextOK, Handler, Given
  <2>2. Word(cpu.rsp + 1) = KERNEL64_CS
    BY <1>1, <1>2, <2>1 DEF KERNEL64_CS, Registers64
  <2>3. cpu' = [cpu EXCEPT !["rip"] = running.saved["rip"], !["cs"] = running.saved["cs"],
                           !["rflags"] = running.saved["rflags"],
                           !["rsp"] = running.saved["rsp"], !["ss"] = running.saved["ss"]]
    <3>1. /\ cpu.rsp + 1 = running.base + 24 /\ cpu.rsp + 2 = running.base + 25
          /\ cpu.rsp + 3 = running.base + 26 /\ cpu.rsp + 4 = running.base + 27
      BY <1>1, <2>1
    <3>2. cpu' = [cpu EXCEPT !.rip = Word(cpu.rsp), !.cs = Word(cpu.rsp + 1),
                             !.rflags = Word(cpu.rsp + 2),
                             !.rsp = Word(cpu.rsp + 3), !.ss = Word(cpu.rsp + 4)]
      BY <2>2 DEF Iret
    <3> QED
      BY <1>2, <2>1, <3>1, <3>2
  <2>4. ASSUME NEW r \in Regs PROVE cpu'[r] = running.saved[r]
    <3>1. CASE r \in Pushed
      BY <1>0, <2>3, <3>1, RegNames DEF Pushed, RunningFacts
    <3>2. CASE r \notin Pushed
      <4>1. r \in SavedRegisters
        BY <3>2 DEF Regs
      <4> QED
        BY <1>0, <2>1, <2>3, <3>2, <4>1 DEF Pushed, RunningFacts
    <3> QED
      BY <3>1, <3>2
  <2>5. cpu' = running.saved
    <3>1. cpu' = [r \in Regs |-> cpu'[r]]
      BY <1>0, <2>3 DEF RunningFacts
    <3>2. running.saved = [r \in Regs |-> running.saved[r]]
      BY <1>1 DEF Registers64
    <3> QED
      BY <2>4, <3>1, <3>2
  <2> QED
    BY <1>1, <2>1, <2>2, <2>5 DEF Iret
<1>4. CASE running.runs = "trap"
  <2>1. cpu["rsp"] = running.base + 24
    BY <1>0, <1>1, <1>4 DEF RunningFacts, ContextOK, Trapped
  <2>2. Word(cpu.rsp + 1) # KERNEL64_CS
    BY <1>1, <1>2, <2>1 DEF KERNEL64_CS, Registers64
  <2> QED
    BY <2>2 DEF Iret
<1> QED
  BY <1>1, <1>3, <1>4 DEF Entered

(* Where a frame is pushed: below what the running context needs.           *)
LEMMA Below ==
  ASSUME Inner, cpu.rsp <= Live, IntsOpen \/ running.at = "code"
  PROVE  /\ cpu.rsp <= Top
         /\ Depth >= 2 => /\ cpu.rsp <= Low(running)
                          /\ running.runs = "trap" => running.at = "code"
<1>0. RunningFacts /\ cpu["rsp"] \in Int
  BY OfRunning, RegNames DEF RunningFacts
<1>1. CASE Depth = 1
  BY <1>0, <1>1 DEF RunningFacts, Live
<1>2. CASE Depth # 1
  <2>1. /\ Depth >= 2 /\ running \in Entered /\ running.base \in Int
        /\ running.saved["rsp"] \in Int /\ Top \in Nat
    BY <1>0, <1>2, TrapAssumption, RegNames DEF RunningFacts, Entered, Registers64
  <2>2. running.runs = "trap" => running.at = "code"
    <3>1. IntsOpen => cpu["rflags"] = 514
      BY DEF IntsOpen, Flags, IF_
    <3> QED
      BY <1>0, <2>1, <3>1 DEF RunningFacts, ContextOK, Trapped
  <2>3. cpu["rsp"] <= running.base + 23
    BY <1>0, <2>1, Offsets DEF Live
  <2>4. cpu["rsp"] <= Top
    BY <1>0, <2>1, <2>3 DEF RunningFacts
  <2>5. cpu["rsp"] <= Low(running)
    <3>1. CASE running.runs = "interrupt"
      <4>1. /\ running.at = "code" => cpu["rsp"] <= running.base - 3
            /\ running.at = "pop" => cpu["rsp"] = running.base - 1
            /\ running.at = "load" => cpu["rsp"] = running.base
            /\ running.at = "iret" => cpu["rsp"] = running.base + 23
        BY <1>0, <2>1, <3>1 DEF RunningFacts, ContextOK, Handler
      <4>2. running.at = "window" => cpu["rsp"] <= running.base
        BY DEF Live
      <4>3. running.at \in Places
        BY <2>1 DEF Entered
      <4> QED
        BY <1>0, <2>1, <4>1, <4>2, <4>3, LowIs DEF Places
    <3>2. CASE running.runs = "trap"
      <4>1. running.at = "code" /\ cpu["rsp"] <= running.base - 3
        BY <1>0, <2>1, <2>2, <3>2 DEF RunningFacts, ContextOK, Trapped
      <4> QED
        BY <1>0, <2>1, <4>1, LowIs
    <3> QED
      BY <2>1, <3>1, <3>2 DEF Entered
  <2> QED
    BY <2>2, <2>4, <2>5
<1> QED
  BY <1>0, <1>1, <1>2 DEF RunningFacts

LEMMA DispatchedIs ==
  ASSUME Inner, NEW base \in Int, NEW n \in Int, NEW fn \in Int
  PROVE  /\ Dispatched(base, n, fn) \in [Regs -> Int]
         /\ Dispatched(base, n, fn)["rsp"] = base /\ Dispatched(base, n, fn)["r15"] = base
         /\ Dispatched(base, n, fn)["cs"] = 8 /\ Dispatched(base, n, fn)["rflags"] = 2
<1>1. RunningFacts
  BY OfRunning
<1>2. Dispatched(base, n, fn) =
        [cpu EXCEPT !["rsp"] = base, !["r15"] = base, !["rax"] = 0, !["rbx"] = n, !["rdx"] = fn,
                    !["rsi"] = 8, !["cs"] = 8, !["rflags"] = 2]
  BY DEF Dispatched, KERNEL64_CS, Flags
<1> QED
  BY <1>1, <1>2, RegNames DEF RunningFacts

(* The frame of the entering context, under words written below it.         *)
LEMMA FrameEntered ==
  ASSUME Inner, NEW base \in Int, NEW n \in Int, NEW fn \in Int, base + 28 <= cpu.rsp,
         NEW w, \A x \in DOMAIN w : x \in Int /\ x < base /\ w[x] \in Int,
         stack' = With(w, Framed(base, n, fn))
  PROVE  /\ \A r \in Regs : At(stack', base + Offset(r)) = cpu[r]
         /\ \A y \in Int : y >= cpu.rsp => At(stack', y) = At(stack, y)
         /\ \A x \in DOMAIN w : At(stack', x) = w[x]
         /\ \A x \in DOMAIN stack' : (stack')[x] \in Int
<1>0. cpu \in [Regs -> Int] /\ cpu["rsp"] \in Int
  BY OfRunning, RegNames DEF RunningFacts
<1>1. \A x : At(stack', x) = IF x \in DOMAIN w THEN w[x] ELSE At(Framed(base, n, fn), x)
  BY WithReads
<1>2. ASSUME NEW r \in Regs PROVE At(stack', base + Offset(r)) = cpu[r]
  <2>1. Offset(r) \in 0 .. 27
    BY RegOffsets
  <2>2. base + Offset(r) \notin DOMAIN w
    BY <2>1
  <2>3. At(Framed(base, n, fn), base + Offset(r)) = cpu[r]
    BY <1>0, FrameReads
  <2> QED
    BY <1>1, <2>2, <2>3
<1>3. ASSUME NEW y \in Int, y >= cpu.rsp PROVE At(stack', y) = At(stack, y)
  <2>1. y \notin DOMAIN w /\ y \notin base .. base + 27
    BY <1>0, <1>3
  <2>2. At(Framed(base, n, fn), y) = At(stack, y)
    BY <1>0, <2>1, FrameReads
  <2> QED
    BY <1>1, <2>1, <2>2
<1>4. \A x \in DOMAIN Framed(base, n, fn) : Framed(base, n, fn)[x] \in Int
  BY FrameTyped DEF Inner
<1>5. \A x \in DOMAIN stack' : (stack')[x] \in Int
  BY <1>4, WithTyped
<1> QED
  BY <1>1, <1>2, <1>3, <1>5

LEMMA InterruptKeeps ==
  ASSUME Inner, xmm \in Nat, NEW v \in Vectors, Interrupt(v), ~stray'
  PROVE  Inner'
<1>0. /\ RunningFacts /\ cpu["rsp"] \in Int /\ intState \in Int /\ steps \in Nat
      /\ v \in Int /\ cpu["rsp"] <= Live /\ IntsOpen
  <2>1. RunningFacts /\ cpu["rsp"] \in Int
    BY OfRunning, RegNames DEF RunningFacts
  <2>2. intState \in Int /\ steps \in Nat
    BY DEF Inner, TrapTypeOK
  <2>3. v \in Int
    BY TrapAssumption
  <2>4. cpu["rsp"] <= Live /\ IntsOpen
    <3>1. stray' = ~(cpu.rsp <= Live)
      <4>1. stray' = (cpu.rsp > Live) /\ Live \in Int
        BY <2>1, TrapAssumption, Offsets DEF Interrupt, Live, RunningFacts, Entered
      <4> QED
        BY <2>1, <4>1
    <3> QED
      BY <3>1 DEF Interrupt
  <2> QED
    BY <2>1, <2>2, <2>3, <2>4
<1> DEFINE base == 2 * (cpu["rsp"] \div 2) - 28
           c == Dispatched(base, v, HNDL_ALLINTRS)
           w == [a \in {base - 1} |-> intState]
           called == [c EXCEPT !["r12"] = base - 1, !["rdi"] = base,
                               !["rsp"] = 2 * ((base - 1) \div 2), !["rcx"] = Top]
           new == [runs |-> "interrupt", at |-> "code", kept |-> called, saved |-> cpu,
                   state |-> intState, xmm |-> xmm, since |-> steps, base |-> base]
<1>1. PushesAt(v) - Size = base
  <2>1. IST(v) = 0
    BY TrapAssumption DEF IST
  <2> QED
    BY <2>1, SizeIs DEF PushesAt
<1>2. /\ base \in Int /\ base % 2 = 0 /\ base + 28 <= cpu["rsp"]
      /\ 2 * ((base - 1) \div 2) = base - 2
  BY <1>0
<1>3. /\ cpu.rsp <= Top
      /\ Depth >= 2 => /\ cpu.rsp <= Low(running)
                       /\ running.runs = "trap" => running.at = "code"
  BY <1>0, Below
<1>4. base > 8
  BY <1>1 DEF Interrupt
<1>5. OnInterruptStack(base)
  BY <1>0, <1>2, <1>3, <1>4, TrapAssumption DEF OnInterruptStack
<1>6. stack' = With(w, Framed(base, v, HNDL_ALLINTRS))
  <2>1. stack' = With([a \in {base - 1} \cup {} |-> IF a = base - 1 THEN intState ELSE base],
                      Framed(base, v, HNDL_ALLINTRS))
    BY <1>1, <1>5 DEF Interrupt
  <2>2. [a \in {base - 1} \cup {} |-> IF a = base - 1 THEN intState ELSE base] = w
    OBVIOUS
  <2> QED
    BY <2>1, <2>2
<1>7. cpu' = [called EXCEPT !["rsp"] = @ - 1] /\ acts' = Append(acts, new) /\ intState' = base
  BY <1>1, <1>5 DEF Interrupt, Entering
<1>8. /\ c \in [Regs -> Int] /\ c["r15"] = base /\ c["cs"] = 8 /\ c["rflags"] = 2
  <2>1. base \in Int /\ v \in Int /\ HNDL_ALLINTRS \in Int
    BY <1>0, <1>2 DEF HNDL_ALLINTRS
  <2> HIDE DEF base
  <2> QED
    BY ONLY <2>1, Inner, DispatchedIs
<1>9. \A x \in DOMAIN w : x \in Int /\ x < base /\ w[x] \in Int
  BY <1>0, <1>2
<1>10. At(stack', base - 1) = intState
       /\ (\A r \in Regs : At(stack', base + Offset(r)) = cpu[r])
       /\ (\A y \in Int : y >= cpu.rsp => At(stack', y) = At(stack, y))
       /\ (\A x \in DOMAIN stack' : (stack')[x] \in Int)
  <2>1. base - 1 \in DOMAIN w /\ w[base - 1] = intState
    OBVIOUS
  <2>2. 1 \in Int /\ HNDL_ALLINTRS \in Int
    BY DEF HNDL_ALLINTRS
  <2> HIDE DEF w, base
  <2>3. /\ \A r \in Regs : At(stack', base + Offset(r)) = cpu[r]
        /\ \A y \in Int : y >= cpu.rsp => At(stack', y) = At(stack, y)
        /\ \A x \in DOMAIN w : At(stack', x) = w[x]
        /\ \A x \in DOMAIN stack' : (stack')[x] \in Int
    BY <1>0, <1>2, <1>6, <1>9, <2>2, FrameEntered
  <2> QED
    BY <2>1, <2>3
<1> HIDE DEF w, base, c
<1>11. /\ called \in [Regs -> Int] /\ called["r12"] = base - 1 /\ called["r15"] = base
       /\ called["rsp"] = base - 2 /\ called["cs"] = 8 /\ called["rflags"] = 2
  BY <1>2, <1>8, RegNames, TrapAssumption
<1> HIDE DEF called
<1>12. cpu' \in Registers64 /\ cpu'["rsp"] = base - 3
  <2>1. cpu' \in [Regs -> Int] /\ cpu'["rsp"] = base - 3 /\ cpu'["cs"] = 8 /\ cpu'["rflags"] = 2
    BY <1>2, <1>7, <1>11, RegNames
  <2> QED
    BY <2>1 DEF Registers64
<1>13. new \in Entered
  BY <1>0, <1>2, <1>11 DEF Entered, Places, Inner, TrapTypeOK
<1>14. ContextOK(new, cpu', intState', stack')
  <2>1. FrameWhole(new, stack')
    BY <1>10 DEF FrameWhole
  <2>2. Handler(new, cpu', intState', stack')
    BY <1>2, <1>10, <1>11, <1>12 DEF Handler
  <2> QED
    BY <2>1, <2>2 DEF ContextOK
<1>15. /\ new.saved = cpu /\ new.state = intState /\ new.base = base
       /\ intState' \in Int /\ steps' \in Nat
  BY <1>0, <1>2, <1>7, SMTT(60) DEF Interrupt
<1> HIDE DEF new
<1> QED
  BY <1>2, <1>3, <1>4, <1>7, <1>10, <1>12, <1>13, <1>14, <1>15, Enters

LEMMA IgnoredTrapKeeps ==
  ASSUME Inner, xmm \in Nat, NEW t, IgnoredTrap(t)
  PROVE  Inner'
<1>0. /\ RunningFacts /\ cpu["rsp"] \in Int /\ cpu["rbp"] \in Int /\ intState \in Int
      /\ steps \in Nat /\ t \in {1, 15} /\ running.at = "code" /\ cpu["rflags"] \in {2, 514}
  BY OfRunning, RegNames DEF RunningFacts, IgnoredTrap, Ignores, T_DEBUG, Inner, TrapTypeOK
<1> DEFINE base == 2 * (cpu["rsp"] \div 2) - 28
           c == Dispatched(base, t, HNDL_ALLTRAPS)
           w == [a \in {base - 1, base - 2} |-> IF a = base - 1 THEN cpu["rbp"] ELSE base - 1]
           called == [c EXCEPT !["rdi"] = base, !["rbp"] = base - 1, !["r12"] = base - 1,
                               !["rsi"] = base - 2, !["rsp"] = base - 2]
           new == [runs |-> "trap", at |-> "code", kept |-> called, saved |-> cpu,
                   state |-> intState, xmm |-> xmm, since |-> steps, base |-> base]
<1>1. PushesAt(t) - Size = base
  <2>1. IST(t) = 0
    BY <1>0 DEF IST
  <2> QED
    BY <2>1, SizeIs DEF PushesAt
<1>2. base \in Int /\ base % 2 = 0 /\ base + 28 <= cpu["rsp"]
  BY <1>0
<1>3. /\ cpu.rsp <= Top
      /\ Depth >= 2 => /\ cpu.rsp <= Low(running)
                       /\ running.runs = "trap" => running.at = "code"
  <2>1. cpu.rsp <= Live
    <3>1. CASE Depth = 1
      BY <1>0, <3>1 DEF RunningFacts, Live
    <3>2. CASE Depth # 1
      <4>1. Depth >= 2 /\ running \in Entered
        BY <1>0, <3>2 DEF RunningFacts
      <4>2. cpu["rsp"] <= running.base - 3 /\ running.base \in Int
        BY <1>0, <4>1 DEF RunningFacts, ContextOK, Handler, Trapped, Entered
      <4> QED
        BY <1>0, <4>2 DEF Live
    <3> QED
      BY <3>1, <3>2
  <2> QED
    BY <1>0, <2>1, Below
<1>4. base > 8
  BY <1>1 DEF IgnoredTrap
<1>6. stack' = With(w, Framed(base, t, HNDL_ALLTRAPS))
  BY <1>1 DEF IgnoredTrap
<1>7. cpu' = [called EXCEPT !["rsp"] = @ - 1, !["rflags"] = cpu["rflags"]]
      /\ acts' = Append(acts, new)
  BY <1>1 DEF IgnoredTrap, Entering
<1>8. c \in [Regs -> Int] /\ c["cs"] = 8
  <2>1. base \in Int /\ t \in Int /\ HNDL_ALLTRAPS \in Int
    BY <1>0, <1>2 DEF HNDL_ALLTRAPS
  <2> HIDE DEF base
  <2> QED
    BY ONLY <2>1, Inner, DispatchedIs
<1>9. \A x \in DOMAIN w : x \in Int /\ x < base /\ w[x] \in Int
  BY <1>0, <1>2
<1>10. At(stack', base - 2) = base - 1
       /\ (\A r \in Regs : At(stack', base + Offset(r)) = cpu[r])
       /\ (\A y \in Int : y >= cpu.rsp => At(stack', y) = At(stack, y))
       /\ (\A x \in DOMAIN stack' : (stack')[x] \in Int)
  <2>1. base - 2 \in DOMAIN w /\ w[base - 2] = base - 1
    BY <1>2
  <2>2. t \in Int /\ HNDL_ALLTRAPS \in Int
    BY <1>0 DEF HNDL_ALLTRAPS
  <2> HIDE DEF w, base
  <2>3. /\ \A r \in Regs : At(stack', base + Offset(r)) = cpu[r]
        /\ \A y \in Int : y >= cpu.rsp => At(stack', y) = At(stack, y)
        /\ \A x \in DOMAIN w : At(stack', x) = w[x]
        /\ \A x \in DOMAIN stack' : (stack')[x] \in Int
    BY <1>0, <1>2, <1>6, <1>9, <2>2, FrameEntered
  <2> QED
    BY <2>1, <2>3
<1> HIDE DEF w, base, c
<1>11. /\ called \in [Regs -> Int] /\ called["rsp"] = base - 2 /\ called["cs"] = 8
  BY <1>2, <1>8, RegNames
<1> HIDE DEF called
<1>12. cpu' \in Registers64 /\ cpu'["rsp"] = base - 3
  <2>1. cpu' \in [Regs -> Int] /\ cpu'["rsp"] = base - 3 /\ cpu'["cs"] = 8
        /\ cpu'["rflags"] \in {2, 514}
    <3>1. cpu["rflags"] \in Int /\ called["rsp"] - 1 \in Int /\ base - 2 - 1 = base - 3
      BY <1>0, <1>2, <1>11
    <3>2. cpu' = [called EXCEPT !["rsp"] = called["rsp"] - 1, !["rflags"] = cpu["rflags"]]
      BY <1>7
    <3>3. cpu' \in [Regs -> Int]
      BY <1>11, <3>1, <3>2, RegNames
    <3>4. cpu'["rsp"] = base - 3 /\ cpu'["cs"] = 8 /\ cpu'["rflags"] = cpu["rflags"]
      BY <1>11, <3>1, <3>2, RegNames
    <3> QED
      BY <1>0, <3>3, <3>4
  <2> QED
    BY <2>1 DEF Registers64
<1>13. new \in Entered
  BY <1>0, <1>2, <1>11 DEF Entered, Places, Inner, TrapTypeOK
<1>14. ContextOK(new, cpu', intState', stack')
  <2>1. FrameWhole(new, stack')
    BY <1>10 DEF FrameWhole
  <2>2. Trapped(new, cpu', stack')
    BY <1>2, <1>10, <1>11, <1>12 DEF Trapped
  <2> QED
    BY <2>1, <2>2 DEF ContextOK
<1>15. /\ new.saved = cpu /\ new.state = intState /\ new.base = base
       /\ intState' \in Int /\ steps' \in Nat
  BY <1>0, <1>2, <1>7 DEF IgnoredTrap
<1> HIDE DEF new
<1> QED
  BY <1>2, <1>3, <1>4, <1>7, <1>10, <1>12, <1>13, <1>14, <1>15, Enters

(* What a panic prints; IST1 puts the frame at the top, whatever is there.  *)
LEMMA PanicShows ==
  ASSUME Inner, NEW t, FatalTrap(t)
  PROVE  FrameAt(running.base)' = running'.saved
<1>0. RunningFacts /\ cpu["rsp"] \in Int /\ Top \in Int
  BY OfRunning, RegNames, TrapAssumption DEF RunningFacts
<1> DEFINE base == PushesAt(t) - Size
           new == [runs |-> "panic", at |-> "code", kept |-> cpu, saved |-> cpu,
                   state |-> intState, xmm |-> xmm, since |-> steps, base |-> base]
<1>1. base \in Int
  <2>1. IST(t) = 0 \/ IST(t) = 1 \/ IST(t) = 2
    BY DEF IST
  <2>2. PushesAt(t) \in Int
    BY <1>0, <2>1 DEF PushesAt
  <2> QED
    BY <2>2, SizeIs
<1>2. acts' = Append(acts, new) /\ stack' = Framed(base, t, HNDL_ALLTRAPS)
  BY DEF FatalTrap, Entering
<1> HIDE DEF base
<1>3. running' = new
  BY <1>0, <1>2 DEF running, Depth, Inner, TrapTypeOK
<1>4. \A r \in Regs : At(stack', base + Offset(r)) = cpu[r]
  BY <1>0, <1>1, <1>2, FrameReads DEF RunningFacts
<1>5. FrameAt(running.base)' = [r \in Regs |-> At(stack', running'.base + Offset(r))]
  BY DEF FrameAt, Regs, Word, At
<1>6. cpu = [r \in Regs |-> cpu[r]]
  BY <1>0 DEF RunningFacts
<1>7. running'.base = base /\ running'.saved = cpu
  BY <1>3
<1>8. [r \in Regs |-> At(stack', running'.base + Offset(r))] = [r \in Regs |-> cpu[r]]
  BY <1>4, <1>7
<1> QED
  BY <1>5, <1>6, <1>7, <1>8

(* A step leaves the SSE registers alone, or is one of code in C; entries   *)
(* and returns only add to the contexts or take one off.                    *)
LEMMA SseKeeps ==
  ASSUME Inner, halted = "no", ~stray, SseOK, TrapNext
  PROVE  SseOK'
<1> DEFINE R == [runs : {"thread", "interrupt", "trap"}, at : Places, kept : [Regs -> Int],
                 saved : Registers64, state : Int, xmm : Nat, since : Nat, base : Int]
<1>1. acts \in Seq(R) /\ steps \in Nat /\ xmm \in Nat
  BY DEF Inner, TrapTypeOK, SseOK
<1>2. ASSUME NEW l \in 1 .. Depth
      PROVE  /\ acts[l].since \in Nat /\ acts[l].xmm \in Nat
             /\ SseSince(xmm, acts[l], steps)
  <2> HIDE DEF R
  <2>1. acts[l] \in R
    BY <1>1, <1>2 DEF Depth
  <2>2. acts[l].since \in Nat /\ acts[l].xmm \in Nat
    BY <2>1 DEF R
  <2> QED
    BY <1>2, <2>2 DEF SseOK, Going
<1> HIDE DEF R
<1>3. ASSUME UNCHANGED <<xmm, acts, steps>> PROVE SseOK'
  BY <1>1, <1>2, <1>3 DEF SseOK, Depth
<1>4. ASSUME NEW p, acts' = Goto(p), UNCHANGED <<xmm, steps>> PROVE SseOK'
  <2>1. /\ Depth' = Depth
        /\ \A l \in 1 .. Depth : acts'[l].since = acts[l].since /\ acts'[l].xmm = acts[l].xmm
    BY <1>1, <1>4 DEF Goto, Depth, R
  <2> QED
    BY <1>1, <1>2, <1>4, <2>1 DEF SseOK, SseSince
<1>5. ASSUME NEW what, NEW base, NEW called, acts' = Entering(what, base, called), xmm' = xmm,
             steps' \in Nat, steps <= steps'
      PROVE  SseOK'
  <2>1. /\ Depth \in Nat /\ Depth' = Depth + 1 /\ \A l \in 1 .. Depth : acts'[l] = acts[l]
        /\ acts'[Depth + 1].xmm = xmm /\ acts'[Depth + 1].since = steps
    BY <1>1, <1>5 DEF Entering, Depth
  <2>2. ASSUME NEW l \in 1 .. Depth + 1 PROVE SseSince(xmm, acts'[l], steps')
    <3>1. CASE l = Depth + 1
      BY <1>5, <2>1, <3>1 DEF SseSince
    <3>2. CASE l # Depth + 1
      <4>1. l \in 1 .. Depth
        BY <2>1, <2>2, <3>2
      <4>2. acts'[l] = acts[l] /\ acts[l].since \in Nat /\ SseSince(xmm, acts[l], steps)
        BY <1>2, <2>1, <4>1
      <4> QED
        BY <1>1, <1>5, <4>2 DEF SseSince
    <3> QED
      BY <3>1, <3>2
  <2> QED
    BY <1>1, <1>5, <2>1, <2>2 DEF SseOK
<1>6. ASSUME NEW k \in Locals, Compute(k) PROVE SseOK'
  <2>1. acts' = acts /\ xmm' = steps + 1 /\ steps' = steps + 1
    BY <1>6 DEF Compute
  <2>2. \A l \in 1 .. Depth : SseSince(steps + 1, acts[l], steps + 1)
    BY <1>1, <1>2 DEF SseSince
  <2> QED
    BY <1>1, <2>1, <2>2 DEF SseOK, Depth
<1>7. CASE PrintCharacter
  BY <1>3, <1>7 DEF PrintCharacter
<1>8. CASE InterruptDone
  BY <1>4, <1>8 DEF InterruptDone
<1>9. CASE PopState \/ TrapDone
  BY <1>4, <1>9 DEF PopState, TrapDone
<1>10. CASE Load \/ Swap
  BY <1>4, <1>10 DEF Load, Swap
<1>11. CASE Iret
  <2>1. UNCHANGED <<xmm, steps>> /\ (acts' = acts \/ (acts' = SubSeq(acts, 1, Depth - 1) /\ Depth >= 2))
    BY <1>11, IretReturns DEF Iret
  <2>2. ASSUME acts' = SubSeq(acts, 1, Depth - 1), Depth >= 2
        PROVE  Depth \in Nat /\ Depth' = Depth - 1 /\ \A l \in 1 .. Depth - 1 : acts'[l] = acts[l]
    BY <1>1, <2>2 DEF Depth
  <2> QED
    BY <1>1, <1>2, <1>3, <2>1, <2>2 DEF SseOK
<1>12. ASSUME NEW v \in Vectors, Interrupt(v) PROVE SseOK'
  BY <1>1, <1>5, <1>12 DEF Interrupt
<1>13. ASSUME NEW t \in Traps, IgnoredTrap(t) PROVE SseOK'
  BY <1>1, <1>5, <1>13 DEF IgnoredTrap
<1>14. ASSUME NEW t \in Traps, FatalTrap(t) PROVE SseOK'
  <2>1. xmm' = xmm /\ steps' = steps
    BY <1>14 DEF FatalTrap
  <2>2. acts' = Entering("panic", PushesAt(t) - Size, cpu)
    BY <1>14 DEF FatalTrap
  <2> QED
    BY <1>1, <1>5, <2>1, <2>2
<1> QED
  BY <1>6, <1>7, <1>8, <1>9, <1>10, <1>11, <1>12, <1>13, <1>14 DEF TrapNext

LEMMA TrapStarts == TrapInit => TrapIInv
<1> SUFFICES ASSUME TrapInit PROVE Inner /\ halted = "no" /\ SseOK
  BY DEF TrapIInv
<1>1. cpu \in [Regs -> Int] /\ cpu["cs"] = 8 /\ cpu["rflags"] = 514 /\ cpu["rsp"] = Top - 1
  <2>1. cpu = [r \in Regs |->
                 CASE r \in SavedRegisters \cup {"rip"} -> FreshValues(0)[r] [] r = "cs" -> 8
                   [] r = "rflags" -> 514 [] r = "rsp" -> Top - 1 [] r = "ss" -> 0]
    BY DEF TrapInit, Regs, Flags, IF_, KERNEL64_CS
  <2>2. ASSUME NEW r \in Regs PROVE cpu[r] \in Int
    <3>1. CASE r \in SavedRegisters \cup {"rip"}
      <4>1. FreshValues(0)[r] \in Int
        BY <3>1, FreshTyped
      <4>2. ~ (r = "cs" \/ r = "rflags" \/ r = "rsp" \/ r = "ss")
        BY <3>1 DEF SavedRegisters
      <4> QED
        BY <2>1, <3>1, <4>1, <4>2
    <3>2. CASE r \notin SavedRegisters \cup {"rip"}
      <4>1. r \in {"cs", "rflags", "rsp", "ss"}
        BY <3>2 DEF Regs, Pushed
      <4> QED
        BY <2>1, <3>2, <4>1, TrapAssumption
    <3> QED
      BY <3>1, <3>2
  <2>3. cpu["cs"] = 8 /\ cpu["rflags"] = 514 /\ cpu["rsp"] = Top - 1
    BY <2>1, RegNames DEF SavedRegisters
  <2> QED
    BY <2>1, <2>2, <2>3
<1>2. cpu \in Registers64
  BY <1>1 DEF Registers64
<1> DEFINE first == [runs |-> "thread", at |-> "code", kept |-> cpu, saved |-> cpu,
                     state |-> 0, xmm |-> 0, since |-> 0, base |-> Top]
<1>3. acts = <<first>> /\ Depth = 1 /\ acts[1] = first
  BY DEF TrapInit, Depth
<1>4. first \in [runs : {"thread", "interrupt", "trap"}, at : Places, kept : [Regs -> Int],
                 saved : Registers64, state : Int, xmm : Nat, since : Nat, base : Int]
  BY <1>1, <1>2, TrapAssumption DEF Places
<1>5. TrapTypeOK
  <2>1. \A a \in DOMAIN stack : stack[a] \in Int
    BY DEF TrapInit
  <2>2. intState \in Int /\ steps \in Nat
    BY DEF TrapInit
  <2> HIDE DEF first
  <2>3. acts \in Seq([runs : {"thread", "interrupt", "trap"}, at : Places, kept : [Regs -> Int],
                     saved : Registers64, state : Int, xmm : Nat, since : Nat, base : Int])
    BY <1>3, <1>4
  <2> QED
    BY <1>2, <2>1, <2>2, <2>3 DEF TrapTypeOK
<1>6. Nested /\ ContextsOK
  BY <1>3 DEF Nested, ContextsOK
<1>7. ThreadBelow
  BY <1>1, <1>3, TrapAssumption DEF ThreadBelow, CpuOf
<1>8. SseOK
  BY <1>3 DEF TrapInit, SseOK, SseSince
<1> QED
  BY <1>5, <1>6, <1>7, <1>8 DEF Inner, TrapInit

LEMMA TrapKeeps == TrapIInv /\ [TrapNext]_trapVars => TrapIInv'
<1> SUFFICES ASSUME TrapIInv, [TrapNext]_trapVars PROVE TrapIInv'
  OBVIOUS
<1>0. SseOK'
  <2>1. CASE UNCHANGED trapVars
    BY <2>1 DEF TrapIInv, SseOK, Going, Depth, trapVars
  <2>2. CASE TrapNext
    BY <2>2, SseKeeps DEF TrapIInv, Going, TrapNext
  <2> QED
    BY <2>1, <2>2
<1>1. CASE UNCHANGED trapVars
  <2>1. UNCHANGED <<cpu, stack, intState, acts, steps, halted, stray>>
    BY <1>1 DEF trapVars
  <2>2. UNCHANGED Inner
    BY <2>1 DEF Inner, TrapTypeOK, Nested, ThreadBelow, ContextsOK, CpuOf, StateOf, Depth,
                Low, ContextOK, FrameWhole, Handler, Trapped, Given, At
  <2>3. UNCHANGED FrameAt(running.base) /\ UNCHANGED running
    BY <2>1 DEF FrameAt, Word, running, Depth
  <2> QED
    BY <1>0, <2>1, <2>2, <2>3 DEF TrapIInv, Going
<1>2. CASE TrapNext
  <2>0. Inner /\ halted = "no" /\ ~stray /\ xmm \in Nat /\ SseOK'
    BY <1>0, <1>2 DEF TrapNext, TrapIInv, Going, SseOK
  <2>1. ASSUME NEW k \in Locals, Compute(k) PROVE TrapIInv'
    BY <2>0, <2>1, ComputeKeeps DEF Compute, TrapIInv
  <2>2. CASE PrintCharacter
    BY <2>0, <2>2, PrintKeeps DEF PrintCharacter, TrapIInv
  <2>3. CASE InterruptDone
    BY <2>0, <2>3, InterruptDoneKeeps DEF InterruptDone, TrapIInv
  <2>4. CASE PopState
    BY <2>0, <2>4, PopStateKeeps DEF PopState, TrapIInv
  <2>5. CASE TrapDone
    BY <2>0, <2>5, TrapDoneKeeps DEF TrapDone, TrapIInv
  <2>6. CASE Load
    BY <2>0, <2>6, LoadKeeps DEF Load, TrapIInv
  <2>7. CASE Swap
    BY <2>0, <2>7, SwapKeeps DEF Swap, TrapIInv
  <2>8. CASE Iret
    <3>1. CASE halted' = halted
      <4>1. Inner'
        BY <2>0, <2>8, <3>1, IretReturns, Leaves DEF Iret
      <4> QED
        BY <2>0, <3>1, <4>1 DEF TrapIInv
    <3>2. CASE halted' = "double fault"
      BY <2>0, <3>2 DEF TrapIInv, Going
    <3> QED
      BY <2>0, <2>8, <3>1, <3>2, IretReturns
  <2>9. ASSUME NEW v \in Vectors, Interrupt(v) PROVE TrapIInv'
    <3>1. halted' = "no"
      BY <2>0, <2>9 DEF Interrupt
    <3>2. ~stray' => Inner'
      BY <2>0, <2>9, InterruptKeeps
    <3> QED
      BY <2>0, <3>1, <3>2 DEF TrapIInv, Going
  <2>10. ASSUME NEW t \in Traps, IgnoredTrap(t) PROVE TrapIInv'
    BY <2>0, <2>10, IgnoredTrapKeeps DEF IgnoredTrap, TrapIInv
  <2>11. ASSUME NEW t \in Traps, FatalTrap(t) PROVE TrapIInv'
    <3>1. halted' # "no"
      BY <2>11 DEF FatalTrap
    <3>2. (FrameAt(running.base) = running.saved)'
      BY <2>0, <2>11, PanicShows
    <3> QED
      BY <2>0, <3>1, <3>2 DEF TrapIInv, Going
  <2> QED
    BY <1>2, <2>1, <2>2, <2>3, <2>4, <2>5, <2>6, <2>7, <2>8, <2>9, <2>10, <2>11 DEF TrapNext
<1> QED
  BY <1>1, <1>2

LEMMA OnlyIretLeaves ==
  ASSUME TrapIInv, TrapNext, ~ Iret
  PROVE  Len(acts') \in Nat /\ Len(acts') >= Depth
<1>0. acts \in Seq([runs : {"thread", "interrupt", "trap"}, at : Places, kept : [Regs -> Int],
                    saved : Registers64, state : Int, xmm : Nat, since : Nat, base : Int])
      /\ Depth = Len(acts) /\ Depth \in Nat
  BY DEF TrapNext, TrapIInv, Going, Inner, TrapTypeOK, Depth
<1>1. ASSUME NEW p, acts' = Goto(p) PROVE Len(acts') = Depth
  BY <1>0, <1>1 DEF Goto
<1>2. ASSUME NEW what, NEW base, NEW called, acts' = Entering(what, base, called)
      PROVE  Len(acts') = Depth + 1
  BY <1>0, <1>2 DEF Entering
<1>3. ASSUME acts' = acts PROVE Len(acts') = Depth
  BY <1>0, <1>3
<1>4. (\E k \in Locals : Compute(k)) \/ PrintCharacter => acts' = acts
  BY DEF Compute, PrintCharacter
<1>5. InterruptDone => acts' = Goto("pop")
  BY DEF InterruptDone
<1>6. PopState \/ TrapDone => acts' = Goto("load")
  BY DEF PopState, TrapDone
<1>7. (Load => acts' = Goto("window")) /\ (Swap => acts' = Goto("iret"))
  BY DEF Load, Swap
<1>8. ASSUME NEW v \in Vectors, Interrupt(v) PROVE Len(acts') = Depth + 1
  BY <1>2, <1>8 DEF Interrupt
<1>9. ASSUME NEW t \in Traps, IgnoredTrap(t) PROVE Len(acts') = Depth + 1
  BY <1>2, <1>9 DEF IgnoredTrap
<1>10. ASSUME NEW t \in Traps, FatalTrap(t) PROVE Len(acts') = Depth + 1
  BY <1>2, <1>10 DEF FatalTrap
<1>11. Len(acts') = Depth \/ Len(acts') = Depth + 1
  BY <1>1, <1>3, <1>4, <1>5, <1>6, <1>7, <1>8, <1>9, <1>10 DEF TrapNext
<1> QED
  BY <1>0, <1>11

(* For any stack, vectors, traps and any code in C: as long as no interrupt *)
(* found the processor off its stack, frames keep what was interrupted.     *)
THEOREM Kept == TrapSpec => []FramesKept
<1>1. TrapInit => TrapIInv
  BY TrapStarts
<1>2. TrapIInv /\ [TrapNext]_trapVars => TrapIInv'
  BY TrapKeeps
<1>3. TrapIInv => FramesKept
  <2> SUFFICES ASSUME TrapIInv, ~stray, NEW l \in 2 .. Depth,
                      acts[l].at \notin {"window", "iret"},
                      IF halted = "no" THEN TRUE ELSE l = Depth /\ halted = "panic"
               PROVE  FrameAt(acts[l].base) = acts[l].saved
    BY DEF FramesKept
  <2>1. CASE halted = "no"
    BY <2>1, FramesFollow DEF TrapIInv, Going
  <2>2. CASE halted # "no"
    BY <2>2 DEF TrapIInv, running
  <2> QED
    BY <2>1, <2>2
<1> QED
  BY <1>1, <1>2, <1>3, PTL DEF TrapSpec

(* A context is left by an iretq only, and what it interrupted goes on with *)
(* every general register, its stack and CPU_INT_STATE as they were; what   *)
(* nothing saves is as it was, or as code that ran since left it.           *)
THEOREM Resumed == TrapSpec => ResumedAsInterrupted
<1>1. TrapInit => TrapIInv
  BY TrapStarts
<1>2. TrapIInv /\ [TrapNext]_trapVars => TrapIInv'
  BY TrapKeeps
<1>3. TrapIInv /\ [TrapNext]_trapVars =>
        [Len(acts') < Depth /\ ~ignored =>
           /\ cpu' = running.saved /\ intState = running.state
           /\ xmm' = running.xmm \/ xmm' \in running.since + 1 .. steps]_trapVars
  <2> SUFFICES ASSUME TrapIInv, TrapNext, Len(acts') < Depth
               PROVE  /\ cpu' = running.saved /\ intState = running.state
                      /\ xmm' = running.xmm \/ xmm' \in running.since + 1 .. steps
    OBVIOUS
  <2>0. Inner /\ Depth \in Nat /\ Depth = Len(acts)
    BY DEF TrapNext, TrapIInv, Going, Inner, TrapTypeOK, Depth
  <2>1. ~ (Len(acts') >= Depth)
    <3>1. CASE acts' = acts
      BY <2>0, <3>1
    <3>2. CASE acts' # acts /\ Iret
      <4>1. acts' = SubSeq(acts, 1, Depth - 1) /\ Depth >= 2
        BY <2>0, <3>2, IretReturns
      <4>2. Len(acts') = Depth - 1
        BY <2>0, <4>1 DEF Inner, TrapTypeOK
      <4> QED
        BY <2>0, <4>2
    <3>3. CASE ~ Iret
      BY <2>0, <3>3, OnlyIretLeaves
    <3> QED
      BY <3>1, <3>2, <3>3
  <2>2. Iret
    BY <2>1, OnlyIretLeaves
  <2>3. acts' # acts
    BY <2>0, <2>1
  <2>4. Depth >= 2 /\ cpu' = running.saved /\ intState = running.state
    BY <2>0, <2>2, <2>3, IretReturns
  <2>5. xmm' = xmm /\ SseSince(xmm, running, steps)
    <3>1. Depth \in 1 .. Depth /\ SseOK /\ Going
      BY <2>0, <2>4 DEF TrapIInv, TrapNext, Going
    <3> QED
      BY <2>2, <3>1 DEF Iret, SseOK, running
  <2> QED
    BY <2>4, <2>5 DEF SseSince
<1> QED
  BY <1>1, <1>2, <1>3, PTL DEF TrapSpec, ResumedAsInterrupted

----------------------------------------------------------------------------
(* Copies.  The flag says that somebody draws, and who draws is there.       *)
DrawersKnown ==
  /\ depth \in Levels /\ drawing \subseteq 0 .. depth
  /\ canUseSSEmemcpy \in BOOLEAN /\ (canUseSSEmemcpy => drawing # {})

Copies == [at : {"none", "load", "store", "rest", "done"}, length : Nat, aligned : BOOLEAN,
           next : Nat \ {0}, bytes : SUBSET Int, crossed : SUBSET Int, within : BOOLEAN]

(* The blocks before the next one are at their place, or were crossed; so   *)
(* is the one that a level holds with a handler above.  A copy by blocks is *)
(* one to the screen, or read the flag of a level below.                    *)
BlocksPassed(c) == 0 .. 16 * (c.next - 1) - 1 \subseteq c.bytes \cup c.crossed
BlockHeld(l, c, d, x) ==
  (l = d /\ x = [by |-> l, block |-> c.next]) \/ With16(c.next) \subseteq c.crossed
CopyDone(c) ==
  LET lost == (0 .. c.length - 1) \ (c.bytes \cup c.crossed)
  IN \/ lost = {}
     \/ c.within /\ c.length % 16 >= 8 /\ lost \subseteq c.length - 8 .. c.length - 1
CopyRight(l, c, d, x) ==
  /\ c.at \in {"load", "store", "rest"} =>
       BlocksPassed(c) /\ (c.within \/ (c.length % 16 = 0 /\ c.aligned))
  /\ c.at \in {"load", "store"} => c.next <= Blocks(c.length)
  /\ c.at = "store" => BlockHeld(l, c, d, x)
  /\ c.at = "rest" => c.next = Blocks(c.length) + 1
  /\ c.at = "done" => CopyDone(c)

CopiesRight ==
  /\ copies \in [Levels -> Copies]
  /\ \A l \in Levels : IF l <= depth THEN CopyRight(l, copies[l], depth, xmm0)
                       ELSE copies[l] = NoCopy

CopyIInv == DrawersKnown /\ CopiesRight /\ (fault => copying.within /\ ~copying.aligned)

LEMMA NoCopyRight ==
  ASSUME NEW l, NEW d, NEW x
  PROVE  NoCopy \in Copies /\ CopyRight(l, NoCopy, d, x)
<1>1. NoCopy \in Copies
  BY DEF NoCopy, Copies
<1> QED
  BY <1>1 DEF NoCopy, CopyRight

(* What is in xmm0 matters to the level on top only.                        *)
LEMMA CopyBelow ==
  ASSUME NEW l, NEW c, NEW d, NEW x, NEW e, NEW y, CopyRight(l, c, d, x), l # d
  PROVE  CopyRight(l, c, e, y)
BY DEF CopyRight, BlockHeld

(* A step of the level on top, which keeps its copy right.                  *)
LEMMA TopRight ==
  ASSUME DrawersKnown, CopiesRight, depth' = depth, copies' \in [Levels -> Copies],
         \A l \in Levels \ {depth} : copies'[l] = copies[l],
         CopyRight(depth, copies'[depth], depth, xmm0')
  PROVE  CopiesRight'
<1>1. ASSUME NEW l \in Levels
      PROVE  IF l <= depth THEN CopyRight(l, copies'[l], depth, xmm0') ELSE copies'[l] = NoCopy
  <2>1. CASE l = depth
    BY <2>1 DEF DrawersKnown, Levels
  <2>2. CASE l # depth
    <3>1. /\ copies'[l] = copies[l]
          /\ IF l <= depth THEN CopyRight(l, copies[l], depth, xmm0) ELSE copies[l] = NoCopy
      BY <2>2 DEF CopiesRight
    <3> QED
      BY <2>2, <3>1, CopyBelow
  <2> QED
    BY <2>1, <2>2
<1> QED
  BY <1>1 DEF CopiesRight

LEMMA StartsRight ==
  ASSUME DrawersKnown, CopiesRight, HandlerStarts
  PROVE  DrawersKnown' /\ CopiesRight'
<1>1. /\ depth \in Levels /\ depth + 1 \in Levels /\ depth' = depth + 1 /\ xmm0' = xmm0
      /\ UNCHANGED <<canUseSSEmemcpy, drawing>>
  BY ScreenAssumption DEF HandlerStarts, DrawersKnown, Levels
<1> DEFINE c == copies[depth]
           e == [c EXCEPT !.crossed = IF c.at = "store" THEN c.crossed \cup With16(c.next)
                                      ELSE c.crossed]
<1>2. copies' = [copies EXCEPT ![depth] = e]
  BY DEF HandlerStarts, copying
<1>3. c \in Copies /\ CopyRight(depth, c, depth, xmm0)
  BY <1>1 DEF CopiesRight, Levels
<1>4. With16(c.next) \subseteq Int
  BY <1>3 DEF With16, Copies
<1>5. /\ e \in Copies /\ e.at = c.at /\ e.length = c.length /\ e.next = c.next
      /\ e.aligned = c.aligned /\ e.within = c.within /\ e.bytes = c.bytes
      /\ c.crossed \subseteq e.crossed
      /\ c.at = "store" => With16(c.next) \subseteq e.crossed
      /\ c.at # "store" => e.crossed = c.crossed
  BY <1>3, <1>4 DEF Copies
<1> HIDE DEF c, e
<1>6. CopyRight(depth, e, depth', xmm0')
  BY <1>3, <1>5 DEF CopyRight, BlocksPassed, BlockHeld, CopyDone
<1>7. copies' \in [Levels -> Copies]
  BY <1>1, <1>2, <1>5 DEF CopiesRight
<1>8. ASSUME NEW l \in Levels
      PROVE  IF l <= depth' THEN CopyRight(l, copies'[l], depth', xmm0') ELSE copies'[l] = NoCopy
  <2>1. CASE l = depth
    BY <1>1, <1>2, <1>6, <2>1 DEF CopiesRight, Levels
  <2>2. CASE l # depth
    <3>1. copies'[l] = copies[l]
      BY <1>2, <2>2 DEF CopiesRight
    <3>2. CASE l <= depth
      BY <1>1, <2>2, <3>1, <3>2, CopyBelow DEF CopiesRight, Levels
    <3>3. CASE ~(l <= depth)
      BY <3>1, <3>3, NoCopyRight DEF CopiesRight
    <3> QED
      BY <3>2, <3>3
  <2> QED
    BY <2>1, <2>2
<1>9. DrawersKnown'
  BY <1>1 DEF DrawersKnown, Levels
<1> QED
  BY <1>7, <1>8, <1>9 DEF CopiesRight

LEMMA EndsRight ==
  ASSUME DrawersKnown, CopiesRight, HandlerEnds
  PROVE  DrawersKnown' /\ CopiesRight'
<1>1. /\ depth \in Levels /\ depth - 1 \in Levels /\ depth' = depth - 1 /\ xmm0' = xmm0
      /\ depth \notin drawing /\ UNCHANGED <<canUseSSEmemcpy, drawing>>
      /\ copies' = [copies EXCEPT ![depth] = NoCopy]
  BY ScreenAssumption DEF HandlerEnds, DrawersKnown, Levels
<1>2. copies' \in [Levels -> Copies]
  BY <1>1, NoCopyRight DEF CopiesRight
<1>3. ASSUME NEW l \in Levels
      PROVE  IF l <= depth' THEN CopyRight(l, copies'[l], depth', xmm0') ELSE copies'[l] = NoCopy
  <2>1. CASE l <= depth'
    <3>1. l # depth /\ l <= depth /\ copies'[l] = copies[l]
      BY <1>1, <2>1 DEF CopiesRight, Levels
    <3> QED
      BY <2>1, <3>1, CopyBelow DEF CopiesRight
  <2>2. CASE ~(l <= depth')
    <3>1. l = depth \/ ~(l <= depth)
      BY <1>1, <2>2 DEF Levels
    <3> QED
      BY <1>1, <2>2, <3>1 DEF CopiesRight
  <2> QED
    BY <2>1, <2>2
<1>4. DrawersKnown'
  BY <1>1 DEF DrawersKnown, Levels
<1> QED
  BY <1>2, <1>3, <1>4 DEF CopiesRight

LEMMA BeginsRight ==
  ASSUME DrawersKnown, CopiesRight, NEW n \in Lengths \cup {LineLength}, NEW aligned \in BOOLEAN,
         Begin(n, aligned)
  PROVE  CopiesRight'
<1> DEFINE w == \E l \in drawing : l < depth
           c == IF ~canUseSSEmemcpy THEN CopyOf(n, aligned, "done", 0 .. n - 1)
                ELSE CopyOf(n, aligned, IF Blocks(n) = 0 THEN "rest" ELSE "load", {})
<1>1. n \in Nat /\ (n = LineLength => n % 16 = 0) /\ w \in BOOLEAN /\ depth \in Levels
  BY ScreenAssumption DEF DrawersKnown
<1>2. /\ copies' = [copies EXCEPT ![depth] = c] /\ xmm0' = xmm0 /\ depth' = depth
      /\ depth \in drawing => n = LineLength /\ aligned
  BY DEF Begin
<1>4. canUseSSEmemcpy => w \/ (n % 16 = 0 /\ aligned)
  <2>1. SUFFICES ASSUME canUseSSEmemcpy, ~w PROVE n % 16 = 0 /\ aligned
    OBVIOUS
  <2>2. PICK l \in drawing : l \in 0 .. depth
    BY <2>1 DEF DrawersKnown
  <2>3. l = depth
    BY <1>1, <2>1, <2>2 DEF Levels
  <2> QED
    BY <1>1, <1>2, <2>2, <2>3
<1>3. ASSUME NEW at, NEW bytes
      PROVE  CopyOf(n, aligned, at, bytes) =
               [at |-> at, length |-> n, aligned |-> aligned, next |-> 1, bytes |-> bytes,
                crossed |-> {}, within |-> w]
  BY DEF CopyOf
<1> HIDE DEF w
<1>5. c \in Copies /\ CopyRight(depth, c, depth, xmm0')
  <2>1. CASE ~canUseSSEmemcpy
    <3>1. c = [at |-> "done", length |-> n, aligned |-> aligned, next |-> 1, bytes |-> 0 .. n - 1,
               crossed |-> {}, within |-> w]
      BY <1>3, <2>1
    <3> HIDE DEF c
    <3>2. c \in Copies
      BY <1>1, <3>1 DEF Copies
    <3> QED
      BY <3>1, <3>2 DEF CopyRight, CopyDone
  <2>2. CASE canUseSSEmemcpy
    <3>1. /\ c \in Copies /\ c.length = n /\ c.next = 1 /\ c.within = w /\ c.aligned = aligned
          /\ c.at = IF Blocks(n) = 0 THEN "rest" ELSE "load"
      BY <1>1, <1>3, <2>2 DEF Copies
    <3> HIDE DEF c
    <3>2. BlocksPassed(c) /\ Blocks(n) \in Nat
      BY <1>1, <3>1 DEF BlocksPassed, Blocks
    <3> QED
      BY <1>4, <2>2, <3>1, <3>2 DEF CopyRight
  <2> QED
    BY <2>1, <2>2
<1> HIDE DEF c
<1>6. /\ copies' \in [Levels -> Copies] /\ copies'[depth] = c
      /\ \A l \in Levels \ {depth} : copies'[l] = copies[l]
  BY <1>1, <1>2, <1>5 DEF CopiesRight
<1> QED
  BY <1>2, <1>5, <1>6, TopRight

LEMMA LoadsRight ==
  ASSUME DrawersKnown, CopiesRight, LoadBlock
  PROVE  CopiesRight'
<1> DEFINE c == copies[depth]
           e == [c EXCEPT !.at = "store"]
<1>1. /\ c.at = "load" /\ xmm0' = [by |-> depth, block |-> c.next]
      /\ copies' = [copies EXCEPT ![depth] = e] /\ depth' = depth /\ depth \in Levels
  BY DEF LoadBlock, copying, DrawersKnown
<1>2. c \in Copies /\ CopyRight(depth, c, depth, xmm0)
  BY <1>1 DEF CopiesRight, Levels
<1>3. /\ e \in Copies /\ e.at = "store" /\ e.length = c.length /\ e.next = c.next
      /\ e.aligned = c.aligned /\ e.within = c.within /\ e.bytes = c.bytes
      /\ e.crossed = c.crossed
  BY <1>2 DEF Copies
<1> HIDE DEF c, e
<1>4. CopyRight(depth, e, depth, xmm0')
  BY <1>1, <1>2, <1>3 DEF CopyRight, BlocksPassed, BlockHeld
<1>5. /\ copies' \in [Levels -> Copies] /\ copies'[depth] = e
      /\ \A l \in Levels \ {depth} : copies'[l] = copies[l]
  BY <1>1, <1>3 DEF CopiesRight
<1> QED
  BY <1>1, <1>4, <1>5, TopRight

(* The block is at its place now, or the handler that lost it was noted.    *)
LEMMA StoresRight ==
  ASSUME DrawersKnown, CopiesRight, StoreBlock
  PROVE  CopiesRight' /\ (fault' => fault \/ (copying'.within /\ ~copying'.aligned))
<1> DEFINE c == copies[depth]
           then == IF c.next = Blocks(c.length) THEN "rest" ELSE "load"
           there == IF xmm0 = [by |-> depth, block |-> c.next]
                    THEN c.bytes \cup With16(c.next) ELSE c.bytes
           e == [c EXCEPT !.at = then, !.next = c.next + 1, !.bytes = there]
<1>1. c.at = "store" /\ depth' = depth /\ depth \in Levels /\ xmm0' = xmm0
  BY DEF StoreBlock, copying, DrawersKnown
<1>2. c \in Copies /\ CopyRight(depth, c, depth, xmm0)
  BY <1>1 DEF CopiesRight, Levels
<1>3. CASE c.aligned
  <2>1. copies' = [copies EXCEPT ![depth] = e] /\ fault' = fault
    BY <1>3 DEF StoreBlock, copying
  <2>2. With16(c.next) \subseteq Int /\ c.next \in Nat \ {0}
    BY <1>2 DEF With16, Copies
  <2>3. /\ e \in Copies /\ e.at = IF c.next = Blocks(c.length) THEN "rest" ELSE "load"
        /\ e.length = c.length /\ e.next = c.next + 1
        /\ e.aligned = c.aligned /\ e.within = c.within /\ e.crossed = c.crossed
        /\ c.bytes \subseteq e.bytes
        /\ xmm0 = [by |-> depth, block |-> c.next] => With16(c.next) \subseteq e.bytes
    <3>1. there \subseteq Int /\ then \in {"rest", "load"} /\ c.next + 1 \in Nat \ {0}
      BY <1>2, <2>2 DEF Copies
    <3>2. c.bytes \subseteq there
      OBVIOUS
    <3>3. xmm0 = [by |-> depth, block |-> c.next] => With16(c.next) \subseteq there
      OBVIOUS
    <3> HIDE DEF there, then, c
    <3>4. /\ e \in Copies /\ e.at = then /\ e.length = c.length /\ e.next = c.next + 1
          /\ e.aligned = c.aligned /\ e.within = c.within /\ e.crossed = c.crossed
          /\ e.bytes = there
      BY <1>2, <3>1 DEF Copies
    <3> HIDE DEF e
    <3> QED
      BY <3>2, <3>3, <3>4 DEF then
  <2>4. Blocks(c.length) \in Nat
    BY <1>2 DEF Copies, Blocks
  <2> HIDE DEF c, e
  <2>5. /\ BlocksPassed(c) /\ c.next <= Blocks(c.length) /\ BlockHeld(depth, c, depth, xmm0)
        /\ c.within \/ (c.length % 16 = 0 /\ c.aligned)
    BY <1>1, <1>2 DEF CopyRight
  <2>6. BlocksPassed(e)
    <3>1. With16(c.next) \subseteq e.bytes \cup e.crossed
      BY <2>3, <2>5 DEF BlockHeld
    <3>2. 0 .. 16 * (c.next - 1) - 1 \subseteq e.bytes \cup e.crossed
      BY <2>3, <2>5 DEF BlocksPassed
    <3>3. 0 .. 16 * c.next - 1 \subseteq (0 .. 16 * (c.next - 1) - 1) \cup With16(c.next)
      BY <2>2 DEF With16
    <3>4. e.next - 1 = c.next
      BY <2>2, <2>3
    <3> QED
      BY <3>1, <3>2, <3>3, <3>4 DEF BlocksPassed
  <2>7. CopyRight(depth, e, depth, xmm0')
    BY <2>2, <2>3, <2>4, <2>5, <2>6 DEF CopyRight
  <2>8. /\ copies' \in [Levels -> Copies] /\ copies'[depth] = e
        /\ \A l \in Levels \ {depth} : copies'[l] = copies[l]
    BY <1>1, <2>1, <2>3 DEF CopiesRight
  <2> QED
    BY <1>1, <2>1, <2>7, <2>8, TopRight
<1>4. CASE ~c.aligned
  <2>1. UNCHANGED <<copies, depth, xmm0>>
    BY <1>4 DEF StoreBlock, copying
  <2>2. c.within
    BY <1>1, <1>2, <1>4 DEF CopyRight
  <2> QED
    BY <1>4, <2>1, <2>2 DEF CopiesRight, copying
<1> QED
  BY <1>3, <1>4

(* What the last bytes of a copy are: all that are left, or all but eight.  *)
LEMMA RestIs ==
  ASSUME NEW n \in Nat
  PROVE  /\ n % 16 < 8 => 0 .. n - 1 \subseteq (0 .. 16 * Blocks(n) - 1) \cup Rest(n)
         /\ n % 16 >= 8 => 0 .. n - 9 \subseteq (0 .. 16 * Blocks(n) - 1) \cup Rest(n)
<1>1. PICK q \in Nat, r \in 0 .. 15 : n = 16 * q + r /\ q = n \div 16 /\ r = n % 16
  OBVIOUS
<1>2. r < 8 => n % 8 = r
  BY <1>1
<1>3. r >= 8 => n % 8 = r - 8
  <2>1. r >= 8 => n = 8 * (2 * q + 1) + (r - 8)
    BY <1>1
  <2> QED
    BY <1>1, <2>1
<1>4. Rest(n) = 16 * q .. 16 * q + (n % 8) - 1 /\ Blocks(n) = q
  BY <1>1 DEF Rest, Blocks
<1> QED
  BY <1>1, <1>2, <1>3, <1>4

LEMMA RestsRight ==
  ASSUME DrawersKnown, CopiesRight, MoveRest
  PROVE  CopiesRight'
<1> DEFINE c == copies[depth]
           e == [c EXCEPT !.at = "done", !.bytes = c.bytes \cup Rest(c.length)]
<1>1. c.at = "rest" /\ depth' = depth /\ depth \in Levels /\ copies' = [copies EXCEPT ![depth] = e]
  BY DEF MoveRest, copying, DrawersKnown
<1>2. c \in Copies /\ CopyRight(depth, c, depth, xmm0)
  BY <1>1 DEF CopiesRight, Levels
<1>3. Rest(c.length) \subseteq Int
  BY <1>2 DEF Copies, Rest, Blocks
<1>4. /\ e \in Copies /\ e.at = "done" /\ e.length = c.length /\ e.within = c.within
      /\ e.crossed = c.crossed /\ e.bytes = c.bytes \cup Rest(c.length)
  BY <1>2, <1>3 DEF Copies
<1>5. c.length \in Nat /\ Blocks(c.length) \in Nat
  BY <1>2 DEF Copies, Blocks
<1> HIDE DEF c, e
<1>6. /\ 0 .. 16 * Blocks(c.length) - 1 \subseteq c.bytes \cup c.crossed
      /\ c.within \/ c.length % 16 = 0
  <2>1. /\ BlocksPassed(c) /\ c.next = Blocks(c.length) + 1
        /\ c.within \/ (c.length % 16 = 0 /\ c.aligned)
    BY <1>1, <1>2 DEF CopyRight
  <2>2. c.next - 1 = Blocks(c.length)
    BY <1>5, <2>1
  <2> QED
    BY <2>1, <2>2 DEF BlocksPassed
<1>7. CopyDone(e)
  <2> DEFINE lost == (0 .. e.length - 1) \ (e.bytes \cup e.crossed)
  <2>1. (0 .. 16 * Blocks(c.length) - 1) \cup Rest(c.length) \subseteq e.bytes \cup e.crossed
    BY <1>4, <1>6
  <2>2. CASE c.length % 16 < 8
    <3>1. lost = {}
      BY <1>4, <1>5, <2>1, <2>2, RestIs
    <3> QED
      BY <3>1 DEF CopyDone
  <2>3. CASE c.length % 16 >= 8
    <3>1. 0 .. c.length - 9 \subseteq e.bytes \cup e.crossed
      BY <1>5, <2>1, <2>3, RestIs
    <3>2. lost \subseteq c.length - 8 .. c.length - 1
      BY <1>4, <1>5, <3>1
    <3> QED
      BY <1>4, <1>6, <2>3, <3>2 DEF CopyDone
  <2> QED
    BY <1>5, <2>2, <2>3
<1>8. CopyRight(depth, e, depth, xmm0')
  BY <1>4, <1>7 DEF CopyRight
<1>9. /\ copies' \in [Levels -> Copies] /\ copies'[depth] = e
      /\ \A l \in Levels \ {depth} : copies'[l] = copies[l]
  BY <1>1, <1>4 DEF CopiesRight
<1> QED
  BY <1>1, <1>8, <1>9, TopRight

LEMMA CopyKeeps == CopyIInv /\ [CopyNext]_copyVars => CopyIInv'
<1> SUFFICES ASSUME CopyIInv, [CopyNext]_copyVars PROVE CopyIInv'
  OBVIOUS
<1>0. DrawersKnown /\ CopiesRight
  BY DEF CopyIInv
<1>1. CASE UNCHANGED copyVars
  BY <1>1 DEF CopyIInv, DrawersKnown, CopiesRight, copyVars, copying
<1>2. CASE CopyNext
  <2>1. ~fault
    BY <1>2 DEF CopyNext
  <2>2. CASE HandlerStarts
    BY <1>0, <2>1, <2>2, StartsRight DEF CopyIInv, HandlerStarts
  <2>3. CASE HandlerEnds
    BY <1>0, <2>1, <2>3, EndsRight DEF CopyIInv, HandlerEnds
  <2>4. CASE StartDrawing
    BY <1>0, <2>1, <2>4 DEF CopyIInv, StartDrawing, DrawersKnown, CopiesRight, Levels
  <2>5. CASE EndDrawing
    BY <1>0, <2>1, <2>5 DEF CopyIInv, EndDrawing, DrawersKnown, CopiesRight
  <2>6. CASE Computes
    <3>1. /\ UNCHANGED <<canUseSSEmemcpy, depth, drawing, copies, fault>>
          /\ copies[depth].at \in {"none", "done"} /\ depth \in Levels
      BY <1>0, <2>6 DEF Computes, Resting, copying, DrawersKnown
    <3>2. CopyRight(depth, copies[depth], depth, xmm0)
      BY <1>0, <3>1 DEF CopiesRight, Levels
    <3>3. CopyRight(depth, copies'[depth], depth, xmm0')
      BY <3>1, <3>2 DEF CopyRight
    <3>4. CopiesRight'
      BY <1>0, <3>1, <3>3, TopRight DEF CopiesRight
    <3> QED
      BY <1>0, <2>1, <3>1, <3>4 DEF CopyIInv, DrawersKnown
  <2>7. ASSUME NEW n \in Lengths \cup {LineLength}, NEW aligned \in BOOLEAN, Begin(n, aligned)
        PROVE  CopyIInv'
    BY <1>0, <2>1, <2>7, BeginsRight DEF CopyIInv, Begin, DrawersKnown
  <2>8. CASE LoadBlock
    BY <1>0, <2>1, <2>8, LoadsRight DEF CopyIInv, LoadBlock, DrawersKnown
  <2>9. CASE StoreBlock
    <3>1. CopiesRight' /\ (fault' => copying'.within /\ ~copying'.aligned)
      BY <1>0, <2>1, <2>9, StoresRight
    <3>2. DrawersKnown'
      BY <1>0, <2>9 DEF StoreBlock, DrawersKnown
    <3> QED
      BY <3>1, <3>2 DEF CopyIInv
  <2>10. CASE MoveRest
    BY <1>0, <2>1, <2>10, RestsRight DEF CopyIInv, MoveRest, DrawersKnown
  <2> QED
    BY <1>2, <2>2, <2>3, <2>4, <2>5, <2>6, <2>7, <2>8, <2>9, <2>10 DEF CopyNext
<1> QED
  BY <1>1, <1>2

(* For copies of any lengths and handlers to any depth: every byte is moved *)
(* but those of a block that was held as a handler started and, under the   *)
(* flag of a level below, eight at the end; a copy ends the kernel only     *)
(* there.                                                                   *)
THEOREM Copied == CopySpec => []CopyWhole
<1>1. CopyInit => CopyIInv
  <2> SUFFICES ASSUME CopyInit PROVE CopyIInv
    OBVIOUS
  <2>1. copies = [l \in Levels |-> NoCopy] /\ depth = 0 /\ drawing = {} /\ ~canUseSSEmemcpy /\ ~fault
        /\ canUseSSEmemcpy \in BOOLEAN
    BY DEF CopyInit
  <2>2. DrawersKnown
    BY <2>1, ScreenAssumption DEF DrawersKnown, Levels
  <2>3. CopiesRight
    BY <2>1, NoCopyRight DEF CopiesRight
  <2> QED
    BY <2>1, <2>2, <2>3 DEF CopyIInv
<1>2. CopyIInv /\ [CopyNext]_copyVars => CopyIInv'
  BY CopyKeeps
<1>3. CopyIInv => CopyWhole
  <2> SUFFICES ASSUME CopyIInv PROVE CopyWhole
    OBVIOUS
  <2>1. ASSUME NEW l \in 0 .. depth, copies[l].at = "done" PROVE CopyDone(copies[l])
    <3>1. l \in Levels /\ l <= depth
      BY ScreenAssumption DEF CopyIInv, DrawersKnown, Levels
    <3> QED
      BY <2>1, <3>1 DEF CopyIInv, CopiesRight, CopyRight
  <2> QED
    BY <2>1 DEF CopyIInv, CopyWhole, CopyDone
<1> QED
  BY <1>1, <1>2, <1>3, PTL DEF CopySpec
----------------------------------------------------------------------------
(* A USB 2 controller and its driver.  Where the driver is: bringing the    *)
(* controller to a stop, past its reset, giving it the lists, at a port.    *)

EhciStates ==
  {"off", "found", "still", "reset", "fresh", "absent", "ask", "look", "force", "lists", "start",
   "runs", "switch", "line", "on", "press", "release", "ended", "late", "judge", "up", "stops",
   "stopped"}
AtPort == {"line", "on", "press", "release", "ended", "late", "judge"}
Unset == {"off", "found", "still", "reset", "fresh", "absent"}
BeforeStart == {"still", "reset", "fresh", "absent", "ask", "look", "force", "lists", "start"}

EhciDrivers ==
  [at : EhciStates, polls : Nat, again : BOOLEAN, port : 1 .. EhciPorts + 1, hasty : SUBSET EPorts]
EhciPortSet ==
  [device : Devices, mine : BOOLEAN, power : BOOLEAN, enabled : BOOLEAN,
   reset : {"no", "on", "ending"}, chirped : BOOLEAN, moved : BOOLEAN]
EhciHosts ==
  [gone : BOOLEAN, legacy : BOOLEAN, firmware : BOOLEAN, asked : BOOLEAN, smi : BOOLEAN,
   running : BOOLEAN, halted : BOOLEAN, resetting : BOOLEAN, lists : {"none", "firmware", "virtual"},
   companions : BOOLEAN, power : BOOLEAN, plugs : Nat, ports : [EPorts -> EhciPortSet]]
EhciTypeOK ==
  /\ ehci \in EhciDrivers /\ ehost \in EhciHosts
  /\ ehci.at \in AtPort => ehci.port \in EPorts
  /\ ehci.at \notin AtPort \cup {"up", "stops", "stopped"} => ehci.port = 1

(* A controller that was told to run is the driver's own.                   *)
Stands ==
  /\ ehci.at \in {"off", "found"} /\ ehost.running => ~ehost.halted
  /\ ehci.at \in BeforeStart => ~ehost.running
  /\ ehost.resetting => ehci.at \in {"fresh", "absent"}
  /\ ~ehost.legacy => ~ehost.firmware /\ ~ehost.smi
  /\ ehci.at \notin Unset \cup {"ask", "look", "force"} => ~ehost.firmware /\ ~ehost.smi
  /\ ehci.at \notin (BeforeStart \ {"start"}) \cup {"off", "found"} => ehost.lists = "virtual"

(* A port whose device has answered a reset has a high-speed one.  A port   *)
(* that was settled is its speaker's; the one being reset is powered, and   *)
(* unless the driver was hasty its device has answered.                     *)
Answered(socket) ==
  /\ socket.enabled => socket.chirped
  /\ socket.chirped => socket.device = "high"
Settled(socket, p) ==
  /\ ~ehost.companions => socket.mine
  /\ ~socket.moved /\ socket.device = "high" /\ p \notin ehci.hasty => socket.mine /\ socket.enabled
  /\ ~socket.moved /\ socket.device # "high" /\ ehost.companions => ~socket.mine
Judged(socket, p, hasty) ==
  /\ socket.reset # "on"
  /\ ~socket.moved /\ socket.device = "high" /\ p \notin hasty =>
       socket.chirped /\ (socket.reset = "no" => socket.enabled)
PortsOK ==
  /\ \A p \in EPorts : Answered(ehost.ports[p])
  /\ ehci.at \in AtPort \cup {"up"} =>
       \A p \in EPorts :
         IF p < ehci.port THEN Settled(ehost.ports[p], p) ELSE ehost.ports[p].mine
  /\ ehci.at = "up" => ehci.port = EhciPorts + 1
  /\ ehci.at \in {"press", "release", "ended", "late", "judge"} => EPort.power
  /\ ehci.at \in {"ended", "late", "judge"} => Judged(EPort, ehci.port, ehci.hasty)
  /\ ehci.at = "judge" => EPort.reset = "no" \/ ehci.port \in ehci.hasty

EhciIInv == EhciTypeOK /\ (ehost.gone \/ (Stands /\ PortsOK))

LEMMA EhciStarts == EhciInit => EhciIInv
<1> SUFFICES ASSUME EhciInit PROVE EhciIInv
  OBVIOUS
<1>1. ehci \in EhciDrivers /\ ehost \in EhciHosts
  BY EhciAssumption DEF EhciInit, EhciDrivers, EhciHosts, EhciStates, EhciPortSet, EhciPort, EPorts, Devices
<1>2. EhciTypeOK
  BY <1>1 DEF EhciInit, EhciTypeOK, AtPort
<1> QED
  BY <1>2 DEF EhciInit, EhciIInv, Stands, PortsOK, Answered, EhciPort, AtPort, BeforeStart, Unset

LEMMA EhciGoes ==
  ASSUME ehci \in EhciDrivers, NEW there \in EhciStates, EGo(there)
  PROVE  /\ ehci' \in EhciDrivers
         /\ ehci'.at = there /\ ehci'.port = ehci.port /\ ehci'.hasty = ehci.hasty
  BY DEF EhciDrivers, EGo

(* A wait leaves the driver where it is, or moves it on, and nothing else.  *)
LEMMA EhciWaits ==
  ASSUME ehci \in EhciDrivers, NEW there \in BOOLEAN, NEW ok \in EhciStates,
         NEW timedOut \in EhciStates, NEW removed \in EhciStates,
         EhciHandshake(there, ok, timedOut, removed)
  PROVE  /\ ehci' \in EhciDrivers
         /\ ehci'.port = ehci.port /\ ehci'.hasty = ehci.hasty
         /\ \/ ehci'.at = ehci.at
            \/ ehci'.at = ok /\ there
            \/ ehci'.at = timedOut /\ ~there
            \/ ehci'.at = removed /\ ehost.gone
<1> DEFINE Out(label) == [ehci EXCEPT !.at = label, !.polls = 0, !.again = FALSE]
<1>1. \A label \in EhciStates :
        /\ Out(label) \in EhciDrivers /\ Out(label).at = label
        /\ Out(label).port = ehci.port /\ Out(label).hasty = ehci.hasty
  BY DEF EhciDrivers
<1>2. CASE ~ehci.again /\ ehost.gone
  BY <1>1, <1>2 DEF EhciHandshake
<1>3. CASE ~ehci.again /\ ~ehost.gone
  <2>1. ehci' = [ehci EXCEPT !.again = TRUE]
    BY <1>3 DEF EhciHandshake
  <2> QED
    BY <2>1 DEF EhciDrivers
<1>4. CASE ehci.again /\ there
  <2>1. ehci' = Out(ok)
    BY <1>4 DEF EhciHandshake
  <2> QED
    BY <1>1, <1>4, <2>1
<1>5. CASE ehci.again /\ ~there
  <2>1. CASE ehci.polls + 1 = EhciPolls
    <3>1. ehci' = Out(timedOut)
      BY <1>5, <2>1 DEF EhciHandshake
    <3> QED
      BY <1>1, <1>5, <3>1
  <2>2. CASE ehci.polls + 1 # EhciPolls
    <3>1. ehci' = [ehci EXCEPT !.again = FALSE, !.polls = @ + 1]
      BY <1>5, <2>2 DEF EhciHandshake
    <3>2. ehci.polls + 1 \in Nat
      BY DEF EhciDrivers
    <3> QED
      BY <3>1, <3>2 DEF EhciDrivers
  <2> QED
    BY <2>1, <2>2
<1>6. ehci.again \in BOOLEAN
  BY DEF EhciDrivers
<1> QED
  BY <1>2, <1>3, <1>4, <1>5, <1>6

LEMMA EhciNextPort ==
  ASSUME ehci \in EhciDrivers, ehci.port \in EPorts, ehci' = NextPort(ehci)
  PROVE  /\ ehci' \in EhciDrivers
         /\ ehci'.port = ehci.port + 1 /\ ehci'.hasty = ehci.hasty
         /\ \/ ehci'.at = "up" /\ ehci.port = EhciPorts
            \/ ehci'.at = "line" /\ ehci'.port \in EPorts
<1>1. ehci.port + 1 \in 1 .. EhciPorts + 1
  BY EhciAssumption DEF EPorts
<1>2. ehci.port # EhciPorts => ehci.port + 1 \in EPorts
  BY EhciAssumption DEF EPorts
<1> QED
  BY <1>1, <1>2 DEF NextPort, EhciDrivers, EhciStates

(* One port changes, and nothing else of the controller.                    *)
EhciPortIs(p, new) ==
  /\ ehost' \in EhciHosts
  /\ ehost'.ports[p] = new
  /\ \A q \in EPorts \ {p} : ehost'.ports[q] = ehost.ports[q]
  /\ ehost'.gone = ehost.gone /\ ehost'.legacy = ehost.legacy
  /\ ehost'.firmware = ehost.firmware /\ ehost'.smi = ehost.smi
  /\ ehost'.running = ehost.running /\ ehost'.halted = ehost.halted
  /\ ehost'.resetting = ehost.resetting /\ ehost'.lists = ehost.lists
  /\ ehost'.companions = ehost.companions

LEMMA EhciPortSet1 ==
  ASSUME ehost \in EhciHosts, ehci.port \in EPorts, NEW new \in EhciPortSet, SetEPort(new)
  PROVE  EhciPortIs(ehci.port, new)
  BY DEF EhciHosts, SetEPort, EhciPortIs

LEMMA EhciPortSame ==
  ASSUME ehost \in EhciHosts, ehci.port \in EPorts, ehost' = ehost
  PROVE  EhciPortIs(ehci.port, EPort)
  BY DEF EhciHosts, EPort, EhciPortIs

LEMMA EhciStandsAtPort ==
  ASSUME Stands, ehci.at \in AtPort, NEW p, NEW new, EhciPortIs(p, new),
         ehci'.at \in AtPort \cup {"up"}
  PROVE  Stands'
  BY DEF Stands, AtPort, EhciPortIs, BeforeStart, Unset

(* A step at a port, which stays the one; and the last one, which settles   *)
(* it.                                                                      *)
LEMMA EhciStays ==
  ASSUME EhciTypeOK, PortsOK, ehci.at \in AtPort, NEW new \in EhciPortSet,
         EhciPortIs(ehci.port, new), ehci' \in EhciDrivers, ehci'.port = ehci.port,
         ehci.hasty \subseteq ehci'.hasty, ehci'.at \in AtPort, Answered(new), new.mine,
         ehci'.at \in {"press", "release", "ended", "late", "judge"} => new.power,
         ehci'.at \in {"ended", "late", "judge"} => Judged(new, ehci.port, ehci'.hasty),
         ehci'.at = "judge" => new.reset = "no" \/ ehci.port \in ehci'.hasty
  PROVE  PortsOK'
<1>1. ehci.port \in EPorts /\ (ehost.ports[ehci.port])' = new /\ EPort' = new
  BY DEF EhciTypeOK, EhciPortIs, EPort
<1>2. \A p \in EPorts : Answered(ehost.ports[p])'
  BY <1>1 DEF PortsOK, EhciPortIs, Answered
<1>3. ASSUME NEW p \in EPorts
      PROVE  IF p < ehci'.port THEN Settled(ehost.ports[p], p)' ELSE (ehost.ports[p].mine)'
  <2>1. CASE p = ehci.port
    BY <1>1, <2>1 DEF EPorts
  <2>2. CASE p # ehci.port
    BY <1>1, <2>2 DEF PortsOK, EhciPortIs, Settled
  <2> QED
    BY <2>1, <2>2
<1>4. ehci'.at # "up"
  BY DEF AtPort
<1> QED
  BY <1>1, <1>2, <1>3, <1>4 DEF PortsOK

LEMMA EhciPasses ==
  ASSUME EhciTypeOK, PortsOK, ehci.at \in AtPort, NEW new \in EhciPortSet,
         EhciPortIs(ehci.port, new), ehci' = NextPort(ehci), Answered(new),
         Settled(new, ehci.port)
  PROVE  PortsOK'
<1>1. ehci.port \in EPorts /\ ehost'.ports[ehci.port] = new /\ ehci \in EhciDrivers
  BY DEF EhciTypeOK, EhciPortIs
<1>2. \A p \in EPorts : Answered(ehost.ports[p])'
  BY <1>1 DEF PortsOK, EhciPortIs, Answered
<1>3. /\ ehci'.port = ehci.port + 1 /\ ehci'.hasty = ehci.hasty
      /\ ehci'.at = "up" \/ ehci'.at = "line"
      /\ ehci'.at = "up" => ehci.port = EhciPorts
  BY <1>1, EhciNextPort
<1>4. ASSUME NEW p \in EPorts
      PROVE  IF p < ehci'.port THEN Settled(ehost.ports[p], p)' ELSE (ehost.ports[p].mine)'
  <2>1. CASE p = ehci.port
    BY <1>1, <1>3, <2>1 DEF EPorts, Settled, EhciPortIs
  <2>2. CASE p # ehci.port
    <3>1. p < ehci'.port <=> p < ehci.port
      BY <1>1, <1>3, <2>2 DEF EPorts
    <3> QED
      BY <1>1, <1>3, <2>2, <3>1 DEF PortsOK, EhciPortIs, Settled
  <2> QED
    BY <2>1, <2>2
<1> QED
  BY <1>2, <1>3, <1>4 DEF PortsOK

(* The typed effect of what only the controller sees.                       *)
LEMMA EhciPortTyped ==
  ASSUME EhciTypeOK, ehci.at \in AtPort
  PROVE  EPort \in EhciPortSet /\ ehci.port \in EPorts
  BY DEF EhciTypeOK, EhciHosts, EPort

(* Every step of the driver keeps the invariant.                            *)
LEMMA EhciDriverKeeps ==
  ASSUME EhciTypeOK, EhciDriver
  PROVE  /\ EhciTypeOK' /\ ehost'.gone = ehost.gone
         /\ ~ehost.gone /\ Stands /\ PortsOK => Stands' /\ PortsOK'
<1>0. /\ ehci \in EhciDrivers /\ ehost \in EhciHosts
      /\ ehci.at \in AtPort => ehci.port \in EPorts
      /\ ehci.at \notin AtPort \cup {"up", "stops", "stopped"} => ehci.port = 1
      /\ 1 \in EPorts
  BY EhciAssumption DEF EhciTypeOK, EPorts
<1>1. CASE EhciFound
  <2>1. /\ ehost' \in EhciHosts /\ ehost'.ports = ehost.ports /\ ehost'.gone = ehost.gone
        /\ ehost'.legacy = ehost.legacy /\ ehost'.firmware = ehost.firmware
        /\ ehost'.smi = ehost.smi /\ ehost'.running = (ehost.running /\ (ehost.gone \/ ehost.halted))
        /\ ehost'.halted = ehost.halted /\ ehost'.resetting = ehost.resetting
        /\ ehost'.lists = ehost.lists /\ ehost'.companions = ehost.companions
    BY <1>0, <1>1 DEF EhciFound, EhciHosts
  <2>2. "still" \in EhciStates /\ EGo("still")
    BY <1>1 DEF EhciFound, EhciStates
  <2>3. ehci' \in EhciDrivers /\ ehci'.at = "still" /\ ehci'.port = ehci.port
    BY <1>0, <2>2, EhciGoes
  <2> QED
    BY <1>0, <1>1, <2>1, <2>3 DEF EhciFound, EhciTypeOK, Stands, PortsOK, Answered, AtPort, BeforeStart, Unset
<1>2. CASE EhciStill
  <2> DEFINE there == ehost.gone \/ ehost.halted
  <2>1. EhciHandshake(there, "reset", "absent", "absent") /\ ehost' = ehost
    BY <1>2 DEF EhciStill
  <2>2. there \in BOOLEAN
    OBVIOUS
  <2>3. {"reset", "absent", "absent"} \subseteq EhciStates
    BY DEF EhciStates
  <2> HIDE DEF there
  <2>4. /\ ehci' \in EhciDrivers /\ ehci'.port = ehci.port
        /\ \/ ehci'.at = ehci.at
           \/ ehci'.at = "reset" /\ there
           \/ ehci'.at = "absent" /\ ~there
           \/ ehci'.at = "absent" /\ ehost.gone
    BY <1>0, <2>1, <2>2, <2>3, EhciWaits
  <2> USE DEF there
  <2> QED
    BY <1>0, <1>2, <2>1, <2>4 DEF EhciStill, EhciTypeOK, Stands, PortsOK, Answered, AtPort, BeforeStart, Unset
<1>3. CASE EhciReset
  <2>1. /\ ehost' \in EhciHosts /\ ehost'.ports = ehost.ports /\ ehost'.gone = ehost.gone
        /\ ehost'.legacy = ehost.legacy /\ ehost'.firmware = ehost.firmware
        /\ ehost'.smi = ehost.smi /\ ehost'.running = ehost.running
        /\ ehost'.halted = ehost.halted /\ ehost'.resetting = TRUE
        /\ ehost'.lists = ehost.lists /\ ehost'.companions = ehost.companions
    BY <1>0, <1>3 DEF EhciReset, EhciHosts
  <2>2. "fresh" \in EhciStates /\ EGo("fresh")
    BY <1>3 DEF EhciReset, EhciStates
  <2>3. ehci' \in EhciDrivers /\ ehci'.at = "fresh" /\ ehci'.port = ehci.port
    BY <1>0, <2>2, EhciGoes
  <2> QED
    BY <1>0, <1>3, <2>1, <2>3 DEF EhciReset, EhciTypeOK, Stands, PortsOK, Answered, AtPort, BeforeStart, Unset
<1>4. CASE EhciFresh
  <2> DEFINE there == ~ehost.gone /\ ~ehost.resetting
  <2>1. EhciHandshake(there, "ask", "absent", "absent") /\ ehost' = ehost
    BY <1>4 DEF EhciFresh
  <2>2. there \in BOOLEAN
    OBVIOUS
  <2>3. {"ask", "absent", "absent"} \subseteq EhciStates
    BY DEF EhciStates
  <2> HIDE DEF there
  <2>4. /\ ehci' \in EhciDrivers /\ ehci'.port = ehci.port
        /\ \/ ehci'.at = ehci.at
           \/ ehci'.at = "ask" /\ there
           \/ ehci'.at = "absent" /\ ~there
           \/ ehci'.at = "absent" /\ ehost.gone
    BY <1>0, <2>1, <2>2, <2>3, EhciWaits
  <2> USE DEF there
  <2> QED
    BY <1>0, <1>4, <2>1, <2>4 DEF EhciFresh, EhciTypeOK, Stands, PortsOK, Answered, AtPort, BeforeStart, Unset
<1>5. CASE EhciAsk
  <2>1. /\ ehost' \in EhciHosts /\ ehost'.ports = ehost.ports /\ ehost'.gone = ehost.gone
        /\ ehost'.legacy = ehost.legacy /\ ehost'.firmware = ehost.firmware
        /\ ehost'.smi = ehost.smi /\ ehost'.running = ehost.running
        /\ ehost'.resetting = ehost.resetting
    BY <1>0, <1>5 DEF EhciAsk, EhciHosts
  <2>2. PICK to \in {"lists", "look", "force"} :
          EGo(to) /\ (to = "lists" => ehost.gone \/ ~ehost.legacy)
    BY <1>5 DEF EhciAsk
  <2>3. to \in EhciStates
    BY <2>2 DEF EhciStates
  <2>4. ehci' \in EhciDrivers /\ ehci'.at = to /\ ehci'.port = ehci.port
    BY <1>0, <2>2, <2>3, EhciGoes
  <2> QED
    BY <1>0, <1>5, <2>1, <2>2, <2>4 DEF EhciAsk, EhciTypeOK, Stands, PortsOK, Answered, AtPort, BeforeStart, Unset
<1>6. CASE EhciLook
  <2>1. /\ ehost' \in EhciHosts /\ ehost'.ports = ehost.ports /\ ehost'.gone = ehost.gone
        /\ ehost'.legacy = ehost.legacy /\ ehost'.firmware = ehost.firmware
        /\ ehost'.smi = ehost.smi /\ ehost'.running = ehost.running
        /\ ehost'.halted = ehost.halted /\ ehost'.resetting = ehost.resetting
        /\ ehost'.lists = ehost.lists /\ ehost'.companions = ehost.companions
    BY <1>0, <1>6 DEF EhciLook, EhciHosts
  <2>2. "force" \in EhciStates /\ EGo("force")
    BY <1>6 DEF EhciLook, EhciStates
  <2>3. ehci' \in EhciDrivers /\ ehci'.at = "force" /\ ehci'.port = ehci.port
    BY <1>0, <2>2, EhciGoes
  <2> QED
    BY <1>0, <1>6, <2>1, <2>3 DEF EhciLook, EhciTypeOK, Stands, PortsOK, Answered, AtPort, BeforeStart, Unset
<1>7. CASE EhciForce
  <2>1. /\ ehost' \in EhciHosts /\ ehost'.ports = ehost.ports /\ ehost'.gone = ehost.gone
        /\ ~ehost.gone => ~ehost'.firmware /\ ~ehost'.smi
        /\ ehost'.running = ehost.running /\ ehost'.resetting = ehost.resetting
    BY <1>0, <1>7 DEF EhciForce, EhciHosts
  <2>2. "lists" \in EhciStates /\ EGo("lists")
    BY <1>7 DEF EhciForce, EhciStates
  <2>3. ehci' \in EhciDrivers /\ ehci'.at = "lists" /\ ehci'.port = ehci.port
    BY <1>0, <2>2, EhciGoes
  <2> QED
    BY <1>0, <1>7, <2>1, <2>3 DEF EhciForce, EhciTypeOK, Stands, PortsOK, Answered, AtPort, BeforeStart, Unset
<1>8. CASE EhciLists
  <2>1. /\ ehost' \in EhciHosts /\ ehost'.ports = ehost.ports /\ ehost'.gone = ehost.gone
        /\ ehost'.legacy = ehost.legacy /\ ehost'.firmware = ehost.firmware
        /\ ehost'.smi = ehost.smi /\ ehost'.running = ehost.running
        /\ ehost'.halted = ehost.halted /\ ehost'.resetting = ehost.resetting
        /\ ehost'.lists = "virtual" /\ ehost'.companions = ehost.companions
    BY <1>0, <1>8 DEF EhciLists, EhciHosts
  <2>2. "start" \in EhciStates /\ EGo("start")
    BY <1>8 DEF EhciLists, EhciStates
  <2>3. ehci' \in EhciDrivers /\ ehci'.at = "start" /\ ehci'.port = ehci.port
    BY <1>0, <2>2, EhciGoes
  <2> QED
    BY <1>0, <1>8, <2>1, <2>3 DEF EhciLists, EhciTypeOK, Stands, PortsOK, Answered, AtPort, BeforeStart, Unset
<1>9. CASE EhciStart
  <2>1. /\ ehost' \in EhciHosts /\ ehost'.ports = ehost.ports /\ ehost'.gone = ehost.gone
        /\ ehost'.legacy = ehost.legacy /\ ehost'.firmware = ehost.firmware
        /\ ehost'.smi = ehost.smi /\ ehost'.running = TRUE
        /\ ehost'.halted = ehost.halted /\ ehost'.resetting = ehost.resetting
        /\ ehost'.lists = ehost.lists /\ ehost'.companions = ehost.companions
    BY <1>0, <1>9 DEF EhciStart, EhciHosts
  <2>2. "runs" \in EhciStates /\ EGo("runs")
    BY <1>9 DEF EhciStart, EhciStates
  <2>3. ehci' \in EhciDrivers /\ ehci'.at = "runs" /\ ehci'.port = ehci.port
    BY <1>0, <2>2, EhciGoes
  <2>4. EhciTypeOK'
    BY <1>0, <1>9, <2>1, <2>3 DEF EhciStart, EhciTypeOK, AtPort
  <2>5. Stands => Stands'
    BY <1>9, <2>1, <2>3 DEF EhciStart, Stands, BeforeStart, Unset
  <2>6. PortsOK => PortsOK'
    BY <2>1, <2>3 DEF PortsOK, Answered, AtPort
  <2> QED
    BY <2>1, <2>4, <2>5, <2>6
<1>10. CASE EhciRuns
  <2> DEFINE there == ~ehost.gone /\ ~ehost.halted
  <2>1. EhciHandshake(there, "switch", "switch", "switch") /\ ehost' = ehost
    BY <1>10 DEF EhciRuns
  <2>2. there \in BOOLEAN
    OBVIOUS
  <2>3. {"switch", "switch", "switch"} \subseteq EhciStates
    BY DEF EhciStates
  <2> HIDE DEF there
  <2>4. /\ ehci' \in EhciDrivers /\ ehci'.port = ehci.port
        /\ \/ ehci'.at = ehci.at
           \/ ehci'.at = "switch" /\ there
           \/ ehci'.at = "switch" /\ ~there
           \/ ehci'.at = "switch" /\ ehost.gone
    BY <1>0, <2>1, <2>2, <2>3, EhciWaits
  <2> USE DEF there
  <2> QED
    BY <1>0, <1>10, <2>1, <2>4 DEF EhciRuns, EhciTypeOK, Stands, PortsOK, Answered, AtPort, BeforeStart, Unset
<1>11. CASE EhciSwitch
  <2> DEFINE new == [p \in EPorts |-> [ehost.ports[p] EXCEPT !.mine = TRUE]]
  <2>1. ehost' = [ehost EXCEPT !.ports = new]
    BY <1>11 DEF EhciSwitch
  <2>2. ASSUME NEW p \in EPorts
        PROVE  /\ new[p] \in EhciPortSet /\ new[p].mine
               /\ Answered(ehost.ports[p]) => Answered(new[p])
    BY <1>0, ZenonT(60) DEF EhciHosts, EhciPortSet, Answered
  <2>3. new \in [EPorts -> EhciPortSet]
    BY <2>2
  <2> HIDE DEF new
  <2>4. /\ ehost' \in EhciHosts /\ ehost'.ports = new /\ ehost'.gone = ehost.gone
        /\ ehost'.legacy = ehost.legacy /\ ehost'.firmware = ehost.firmware
        /\ ehost'.smi = ehost.smi /\ ehost'.lists = ehost.lists
        /\ ehost'.resetting = ehost.resetting
    BY <1>0, <2>1, <2>3 DEF EhciHosts
  <2>5. "line" \in EhciStates /\ EGo("line")
    BY <1>11 DEF EhciSwitch, EhciStates
  <2>6. ehci' \in EhciDrivers /\ ehci'.at = "line" /\ ehci'.port = 1
    BY <1>0, <1>11, <2>5, EhciGoes DEF EhciSwitch, AtPort
  <2>7. EhciTypeOK'
    BY <1>0, <2>4, <2>6 DEF EhciTypeOK, AtPort
  <2>8. Stands => Stands'
    BY <1>11, <2>4, <2>6 DEF EhciSwitch, Stands, BeforeStart, Unset
  <2>9. PortsOK => PortsOK'
    <3>1. \A p \in EPorts : ~(p < 1)
      BY DEF EPorts
    <3> QED
      BY <2>2, <2>4, <2>6, <3>1 DEF PortsOK, Answered
  <2> QED
    BY <2>4, <2>7, <2>8, <2>9
<1>12. CASE EhciLine
  <2> DEFINE new == GivenAway
  <2>1. ehci.at \in AtPort /\ EPort \in EhciPortSet /\ ehci.port \in EPorts
    BY <1>0, <1>12, EhciPortTyped DEF EhciLine, AtPort
  <2>2. PortsOK => Answered(EPort) /\ EPort.mine
    BY <2>1 DEF PortsOK, EPort, EPorts
  <2>3. new \in EhciPortSet /\ (Answered(EPort) => Answered(new))
    BY <2>1 DEF EhciPortSet, Answered, GivenAway
  <2>4. KState => (PortsOK => Settled(new, ehci.port))
    BY <2>1, <2>2 DEF EhciPortSet, Settled, GivenAway, KState
  <2> HIDE DEF new
  <2>5. CASE KState
    <3>1. ehci' = NextPort(ehci) /\ SetEPort(new)
      BY <1>12, <2>5 DEF EhciLine, new
    <3>2. EhciPortIs(ehci.port, new)
      BY <1>0, <2>1, <2>3, <3>1, EhciPortSet1
    <3>3. PortsOK => PortsOK'
      BY <2>1, <2>2, <2>3, <2>4, <2>5, <3>1, <3>2, EhciPasses
    <3>4. /\ ehci' \in EhciDrivers
          /\ ehci'.at = "up" \/ (ehci'.at = "line" /\ ehci'.port \in EPorts)
      BY <1>0, <2>1, <3>1, EhciNextPort
    <3>5. Stands => Stands'
      BY <2>1, <3>2, <3>4, EhciStandsAtPort DEF AtPort
    <3>6. EhciTypeOK'
      BY <3>2, <3>4 DEF EhciTypeOK, EhciPortIs, AtPort
    <3> QED
      BY <3>2, <3>3, <3>5, <3>6 DEF EhciPortIs
  <2>6. CASE ~KState
    <3>1. "on" \in EhciStates /\ EGo("on") /\ ehost' = ehost
      BY <1>12, <2>6 DEF EhciLine, EhciStates
    <3>2. /\ ehci' \in EhciDrivers /\ ehci'.at = "on" /\ ehci'.port = ehci.port
          /\ ehci'.hasty = ehci.hasty
      BY <1>0, <3>1, EhciGoes
    <3> QED
      BY <1>0, <1>12, <2>1, <3>1, <3>2
      DEF EhciLine, EhciTypeOK, Stands, PortsOK, AtPort, BeforeStart, Unset, Answered, Settled
  <2> QED
    BY <2>5, <2>6
<1>13. CASE EhciOn
  <2>1. ehci.at \in AtPort /\ EPort \in EhciPortSet /\ ehci.port \in EPorts
    BY <1>0, <1>13, EhciPortTyped DEF EhciOn, AtPort
  <2>2. PortsOK => Answered(EPort) /\ EPort.mine
    BY <2>1 DEF PortsOK, EPort, EPorts
  <2> DEFINE new == [EPort EXCEPT !.power = TRUE]
  <2>3. /\ new \in EhciPortSet /\ new.mine = EPort.mine
        /\ Answered(EPort) => Answered(new)
        /\ new.power
    BY <2>1 DEF EhciPortSet, Answered
  <2>4. SetEPort(new)
    BY <1>13 DEF EhciOn
  <2> HIDE DEF new
  <2>5. EhciPortIs(ehci.port, new)
    BY <1>0, <2>1, <2>3, <2>4, EhciPortSet1
  <2>6. "press" \in EhciStates /\ EGo("press")
    BY <1>13 DEF EhciOn, EhciStates
  <2>7. /\ ehci' \in EhciDrivers /\ ehci'.at = "press" /\ ehci'.port = ehci.port
        /\ ehci'.hasty = ehci.hasty
    BY <1>0, <2>6, EhciGoes
  <2>8. ehci'.at \in AtPort
    BY <2>7 DEF AtPort
  <2>9. PortsOK => EPort.power \/ ehci.at = "on"
    BY <1>13 DEF EhciOn, PortsOK
  <2>10. PortsOK => PortsOK'
    BY <1>13, <2>1, <2>2, <2>3, <2>5, <2>7, <2>8, <2>9, EhciStays DEF EhciOn
  <2>11. Stands => Stands'
    BY <2>1, <2>5, <2>8, EhciStandsAtPort
  <2>12. EhciTypeOK'
    BY <1>0, <2>1, <2>5, <2>7, <2>8 DEF EhciTypeOK, EhciPortIs, AtPort
  <2> QED
    BY <2>5, <2>10, <2>11, <2>12 DEF EhciPortIs
<1>14. CASE EhciPress
  <2>1. ehci.at \in AtPort /\ EPort \in EhciPortSet /\ ehci.port \in EPorts
    BY <1>0, <1>14, EhciPortTyped DEF EhciPress, AtPort
  <2>2. PortsOK => Answered(EPort) /\ EPort.mine
    BY <2>1 DEF PortsOK, EPort, EPorts
  <2> DEFINE new == [EPort EXCEPT !.enabled = FALSE, !.reset = "on", !.chirped = FALSE]
  <2>3. /\ new \in EhciPortSet /\ new.mine = EPort.mine
        /\ Answered(EPort) => Answered(new)
        /\ new.power = EPort.power
    BY <2>1 DEF EhciPortSet, Answered
  <2>4. SetEPort(new)
    BY <1>14 DEF EhciPress
  <2> HIDE DEF new
  <2>5. EhciPortIs(ehci.port, new)
    BY <1>0, <2>1, <2>3, <2>4, EhciPortSet1
  <2>6. "release" \in EhciStates /\ EGo("release")
    BY <1>14 DEF EhciPress, EhciStates
  <2>7. /\ ehci' \in EhciDrivers /\ ehci'.at = "release" /\ ehci'.port = ehci.port
        /\ ehci'.hasty = ehci.hasty
    BY <1>0, <2>6, EhciGoes
  <2>8. ehci'.at \in AtPort
    BY <2>7 DEF AtPort
  <2>9. PortsOK => EPort.power \/ ehci.at = "on"
    BY <1>14 DEF EhciPress, PortsOK
  <2>10. PortsOK => PortsOK'
    BY <1>14, <2>1, <2>2, <2>3, <2>5, <2>7, <2>8, <2>9, EhciStays DEF EhciPress
  <2>11. Stands => Stands'
    BY <2>1, <2>5, <2>8, EhciStandsAtPort
  <2>12. EhciTypeOK'
    BY <1>0, <2>1, <2>5, <2>7, <2>8 DEF EhciTypeOK, EhciPortIs, AtPort
  <2> QED
    BY <2>5, <2>10, <2>11, <2>12 DEF EhciPortIs
<1>15. CASE EhciRelease
  <2>1. ehci.at \in AtPort /\ EPort \in EhciPortSet /\ ehci.port \in EPorts
    BY <1>0, <1>15, EhciPortTyped DEF EhciRelease, AtPort
  <2>2. PortsOK => Answered(EPort) /\ EPort.mine
    BY <2>1 DEF PortsOK, EPort, EPorts
  <2> DEFINE new == [EPort EXCEPT !.reset = "ending"]
               hasty == IF EPort.chirped THEN ehci.hasty ELSE ehci.hasty \cup {ehci.port}
  <2>3. /\ new \in EhciPortSet /\ new.mine = EPort.mine
        /\ Answered(EPort) => Answered(new)
        /\ new.power = EPort.power /\ new.reset = "ending" /\ new.chirped = EPort.chirped
    BY <2>1 DEF EhciPortSet, Answered
  <2>4. SetEPort(new) /\ ehci' = [ehci EXCEPT !.at = "ended", !.hasty = hasty]
    BY <1>15 DEF EhciRelease
  <2>5. hasty \in SUBSET EPorts /\ ehci.hasty \subseteq hasty
        /\ (ehci.port \notin hasty => EPort.chirped)
    BY <1>0, <2>1 DEF EhciDrivers
  <2> HIDE DEF new, hasty
  <2>6. EhciPortIs(ehci.port, new)
    BY <1>0, <2>1, <2>3, <2>4, EhciPortSet1
  <2>7. /\ ehci' \in EhciDrivers /\ ehci'.at = "ended" /\ ehci'.port = ehci.port
        /\ ehci'.hasty = hasty
    BY <1>0, <2>4, <2>5 DEF EhciDrivers, EhciStates
  <2>8. ehci'.at \in AtPort
    BY <2>7 DEF AtPort
  <2>9. PortsOK => EPort.power
    BY <1>15 DEF EhciRelease, PortsOK
  <2>A. Judged(new, ehci.port, ehci'.hasty)
    BY <2>3, <2>5, <2>7 DEF Judged
  <2>10. PortsOK => PortsOK'
    BY <1>15, <2>1, <2>2, <2>3, <2>5, <2>6, <2>7, <2>8, <2>9, <2>A, EhciStays
  <2>11. Stands => Stands'
    BY <2>1, <2>6, <2>8, EhciStandsAtPort
  <2>12. EhciTypeOK'
    BY <1>0, <2>1, <2>6, <2>7, <2>8 DEF EhciTypeOK, EhciPortIs, AtPort
  <2> QED
    BY <2>6, <2>10, <2>11, <2>12 DEF EhciPortIs
<1>16. CASE EhciEnded
  <2>1. ehci.at \in AtPort /\ EPort \in EhciPortSet /\ ehci.port \in EPorts
    BY <1>0, <1>16, EhciPortTyped DEF EhciEnded, AtPort
  <2>2. PortsOK => Answered(EPort) /\ EPort.mine
    BY <2>1 DEF PortsOK, EPort, EPorts
  <2> DEFINE there == ~ehost.gone /\ EPort.reset # "ending"
  <2>3. EhciHandshake(there, "judge", "late", "judge") /\ ehost' = ehost
    BY <1>16 DEF EhciEnded
  <2>4. there \in BOOLEAN /\ {"judge", "late", "judge"} \subseteq EhciStates
    BY DEF EhciStates
  <2> HIDE DEF there
  <2>5. /\ ehci' \in EhciDrivers /\ ehci'.port = ehci.port /\ ehci'.hasty = ehci.hasty
        /\ \/ ehci'.at = ehci.at
           \/ ehci'.at = "judge" /\ there
           \/ ehci'.at = "late"
           \/ ehci'.at = "judge" /\ ehost.gone
    BY <1>0, <2>3, <2>4, EhciWaits
  <2>6. ehci'.at \in {"ended", "judge", "late"} /\ ehci.hasty \subseteq ehci'.hasty
        /\ (~ehost.gone /\ ehci'.at = "judge" /\ PortsOK => EPort.reset = "no")
    <3>1. PortsOK => EPort.reset # "on"
      BY <1>16 DEF EhciEnded, PortsOK, Judged
    <3>2. EPort.reset \in {"no", "on", "ending"}
      BY <2>1 DEF EhciPortSet
    <3> QED
      BY <1>16, <2>5, <3>1, <3>2 DEF EhciEnded, there
  <2>7. EhciPortIs(ehci.port, EPort)
    BY <1>0, <2>1, <2>3, EhciPortSame
  <2>8. ehci'.at \in AtPort
    BY <2>6 DEF AtPort
  <2>9. PortsOK => EPort.power /\ Judged(EPort, ehci.port, ehci.hasty)
    BY <1>16 DEF EhciEnded, PortsOK
  <2>A. PortsOK => Judged(EPort, ehci.port, ehci'.hasty)
    BY <2>5, <2>6, <2>9 DEF Judged
  <2>10. ~ehost.gone /\ PortsOK => PortsOK'
    <3> DEFINE new == EPort
    <3>1. new = EPort
      OBVIOUS
    <3> HIDE DEF new
    <3>2. EhciPortIs(ehci.port, new) /\ new \in EhciPortSet
      BY <2>1, <2>7, <3>1
    <3> QED
      BY <2>1, <2>2, <2>5, <2>6, <2>8, <2>9, <2>A, <3>1, <3>2, EhciStays
  <2>11. Stands => Stands'
    BY <2>1, <2>7, <2>8, EhciStandsAtPort
  <2>12. EhciTypeOK'
    BY <1>0, <2>1, <2>7, <2>5, <2>8 DEF EhciTypeOK, EhciPortIs, AtPort
  <2> QED
    BY <2>7, <2>10, <2>11, <2>12 DEF EhciPortIs
<1>17. CASE EhciLate
  <2>1. ehci.at \in AtPort /\ EPort \in EhciPortSet /\ ehci.port \in EPorts
    BY <1>0, <1>17, EhciPortTyped DEF EhciLate, AtPort
  <2>2. PortsOK => Answered(EPort) /\ EPort.mine
    BY <2>1 DEF PortsOK, EPort, EPorts
  <2>3. ehost' = ehost /\ ehci' = [ehci EXCEPT !.at = "judge", !.hasty = @ \cup {ehci.port}]
    BY <1>17 DEF EhciLate
  <2>5. /\ ehci' \in EhciDrivers /\ ehci'.port = ehci.port
        /\ ehci'.hasty = ehci.hasty \cup {ehci.port} /\ ehci'.at = "judge"
    BY <1>0, <2>1, <2>3 DEF EhciDrivers, EhciStates
  <2>6. ehci'.at \in {"ended", "judge", "late"} /\ ehci.hasty \subseteq ehci'.hasty
        /\ ehci.port \in ehci'.hasty
    BY <2>5
  <2>7. EhciPortIs(ehci.port, EPort)
    BY <1>0, <2>1, <2>3, EhciPortSame
  <2>8. ehci'.at \in AtPort
    BY <2>6 DEF AtPort
  <2>9. PortsOK => EPort.power /\ Judged(EPort, ehci.port, ehci.hasty)
    BY <1>17 DEF EhciLate, PortsOK
  <2>A. PortsOK => Judged(EPort, ehci.port, ehci'.hasty)
    BY <2>5, <2>6, <2>9 DEF Judged
  <2>10. ~ehost.gone /\ PortsOK => PortsOK'
    <3> DEFINE new == EPort
    <3>1. new = EPort
      OBVIOUS
    <3> HIDE DEF new
    <3>2. EhciPortIs(ehci.port, new) /\ new \in EhciPortSet
      BY <2>1, <2>7, <3>1
    <3> QED
      BY <2>1, <2>2, <2>5, <2>6, <2>8, <2>9, <2>A, <3>1, <3>2, EhciStays
  <2>11. Stands => Stands'
    BY <2>1, <2>7, <2>8, EhciStandsAtPort
  <2>12. EhciTypeOK'
    BY <1>0, <2>1, <2>7, <2>5, <2>8 DEF EhciTypeOK, EhciPortIs, AtPort
  <2> QED
    BY <2>7, <2>10, <2>11, <2>12 DEF EhciPortIs
<1>18. CASE EhciJudge
  <2>1. ehci.at \in AtPort /\ EPort \in EhciPortSet /\ ehci.port \in EPorts
    BY <1>0, <1>18, EhciPortTyped DEF EhciJudge, AtPort
  <2>2. PortsOK => Answered(EPort) /\ EPort.mine
    BY <2>1 DEF PortsOK, EPort, EPorts
  <2> DEFINE new == IF ehost.gone \/ ~EPort.power \/ EPort.enabled THEN EPort ELSE GivenAway
  <2>3. new \in EhciPortSet /\ (Answered(EPort) => Answered(new))
    BY <2>1 DEF EhciPortSet, Answered, GivenAway
  <2>4. EhciPortIs(ehci.port, new)
    <3>1. CASE ehost.gone \/ ~EPort.power \/ EPort.enabled
      BY <1>0, <1>18, <2>1, <3>1, EhciPortSame DEF EhciJudge
    <3>2. CASE ~(ehost.gone \/ ~EPort.power \/ EPort.enabled)
      <4>1. new = GivenAway /\ SetEPort(GivenAway) /\ GivenAway \in EhciPortSet
        BY <1>18, <2>3, <3>2 DEF EhciJudge
      <4> QED
        BY <1>0, <2>1, <4>1, EhciPortSet1
    <3> QED
      BY <3>1, <3>2
  <2>5. PortsOK => /\ EPort.power /\ Judged(EPort, ehci.port, ehci.hasty)
                   /\ EPort.reset = "no" \/ ehci.port \in ehci.hasty
    BY <1>18 DEF EhciJudge, PortsOK
  <2>6. ~ehost.gone /\ PortsOK => Settled(new, ehci.port)
    BY <2>1, <2>2, <2>5 DEF EhciPortSet, Settled, GivenAway, Judged, Answered
  <2>7. ehci' = NextPort(ehci)
    BY <1>18 DEF EhciJudge
  <2> HIDE DEF new
  <2>8. ~ehost.gone /\ PortsOK => PortsOK'
    BY <2>1, <2>2, <2>3, <2>4, <2>6, <2>7, EhciPasses
  <2>9. /\ ehci' \in EhciDrivers
        /\ ehci'.at = "up" \/ (ehci'.at = "line" /\ ehci'.port \in EPorts)
    BY <1>0, <2>1, <2>7, EhciNextPort
  <2>10. Stands => Stands'
    BY <2>1, <2>4, <2>9, EhciStandsAtPort DEF AtPort
  <2>11. EhciTypeOK'
    BY <2>4, <2>9 DEF EhciTypeOK, EhciPortIs, AtPort
  <2> QED
    BY <2>4, <2>8, <2>10, <2>11 DEF EhciPortIs
<1>19. CASE EhciStop
  <2>1. /\ ehost' \in EhciHosts /\ ehost'.ports = ehost.ports /\ ehost'.gone = ehost.gone
        /\ ehost'.legacy = ehost.legacy /\ ehost'.firmware = ehost.firmware
        /\ ehost'.smi = ehost.smi /\ ehost'.running = (ehost.running /\ (ehost.gone \/ ehost.halted))
        /\ ehost'.halted = ehost.halted /\ ehost'.resetting = ehost.resetting
        /\ ehost'.lists = ehost.lists /\ ehost'.companions = ehost.companions
    BY <1>0, <1>19 DEF EhciStop, EhciHosts
  <2>2. "stops" \in EhciStates /\ EGo("stops")
    BY <1>19 DEF EhciStop, EhciStates
  <2>3. ehci' \in EhciDrivers /\ ehci'.at = "stops" /\ ehci'.port = ehci.port
    BY <1>0, <2>2, EhciGoes
  <2> QED
    BY <1>0, <1>19, <2>1, <2>3 DEF EhciStop, EhciTypeOK, Stands, PortsOK, Answered, AtPort, BeforeStart, Unset
<1>20. CASE EhciStops
  <2> DEFINE there == ehost.gone \/ ehost.halted
  <2>1. EhciHandshake(there, "stopped", "stopped", "stopped") /\ ehost' = ehost
    BY <1>20 DEF EhciStops
  <2>2. there \in BOOLEAN
    OBVIOUS
  <2>3. {"stopped", "stopped", "stopped"} \subseteq EhciStates
    BY DEF EhciStates
  <2> HIDE DEF there
  <2>4. /\ ehci' \in EhciDrivers /\ ehci'.port = ehci.port
        /\ \/ ehci'.at = ehci.at
           \/ ehci'.at = "stopped" /\ there
           \/ ehci'.at = "stopped" /\ ~there
           \/ ehci'.at = "stopped" /\ ehost.gone
    BY <1>0, <2>1, <2>2, <2>3, EhciWaits
  <2> USE DEF there
  <2> QED
    BY <1>0, <1>20, <2>1, <2>4 DEF EhciStops, EhciTypeOK, Stands, PortsOK, Answered, AtPort, BeforeStart, Unset
<1> QED
  BY <1>1, <1>2, <1>3, <1>4, <1>5, <1>6, <1>7, <1>8, <1>9, <1>10, <1>11, <1>12, <1>13, <1>14, <1>15, <1>16, <1>17, <1>18, <1>19, <1>20 DEF EhciDriver

(* The firmware leaves something, and the controller is found.              *)
LEMMA EhciPowers == EhciIInv /\ EhciPower => EhciIInv'
<1> SUFFICES ASSUME EhciIInv, EhciPower PROVE EhciIInv'
  OBVIOUS
<1>0. ehci \in EhciDrivers /\ ehost \in EhciHosts /\ ehci.at = "off" /\ ehci.port = 1
  BY DEF EhciIInv, EhciTypeOK, EhciPower, AtPort
<1>1. PICK l \in BOOLEAN, r \in BOOLEAN, c \in BOOLEAN, w \in BOOLEAN, ds \in [EPorts -> Devices] :
        ehost' = [ehost EXCEPT !.legacy = l, !.firmware = l, !.smi = l, !.running = l /\ r,
                   !.halted = ~(l /\ r), !.lists = IF l /\ r THEN "firmware" ELSE "none",
                   !.companions = c, !.power = w,
                   !.ports = [p \in EPorts |-> EhciPort(ds[p], w)]]
  BY DEF EhciPower
<1> DEFINE ports == [p \in EPorts |-> EhciPort(ds[p], w)]
<1>2. \A p \in EPorts : ports[p] \in EhciPortSet /\ Answered(ports[p])
  BY DEF EhciPort, EhciPortSet, Answered
<1>3. ports \in [EPorts -> EhciPortSet]
  BY <1>2
<1> HIDE DEF ports
<1>4. ehost' = [ehost EXCEPT !.legacy = l, !.firmware = l, !.smi = l, !.running = l /\ r,
                 !.halted = ~(l /\ r), !.lists = IF l /\ r THEN "firmware" ELSE "none",
                 !.companions = c, !.power = w, !.ports = ports]
  BY <1>1 DEF ports
<1> DEFINE run == l /\ r
           stand == ~(l /\ r)
           old == IF l /\ r THEN "firmware" ELSE "none"
<1>5. /\ run \in BOOLEAN /\ stand \in BOOLEAN /\ stand = ~run
      /\ old \in {"none", "firmware", "virtual"}
      /\ ehost' = [ehost EXCEPT !.legacy = l, !.firmware = l, !.smi = l, !.running = run,
                     !.halted = stand, !.lists = old, !.companions = c, !.power = w,
                     !.ports = ports]
  BY <1>4
<1> HIDE DEF run, stand, old
<1>6. /\ ehost' \in EhciHosts /\ ehost'.ports = ports /\ ehost'.resetting = ehost.resetting
      /\ ehost'.gone = ehost.gone
      /\ ehost'.running = run /\ ehost'.halted = stand
      /\ ehost'.legacy = l /\ ehost'.firmware = l /\ ehost'.smi = l
  <2> DEFINE first == [ehost EXCEPT !.legacy = l, !.firmware = l, !.smi = l]
             then == [first EXCEPT !.running = run, !.halted = stand, !.lists = old]
  <2>1. /\ first \in EhciHosts /\ first.resetting = ehost.resetting
        /\ first.gone = ehost.gone /\ first.legacy = l /\ first.firmware = l /\ first.smi = l
    BY <1>0 DEF EhciHosts
  <2> HIDE DEF first
  <2>2. /\ then \in EhciHosts /\ then.resetting = first.resetting /\ then.gone = first.gone
        /\ then.running = run /\ then.halted = stand
        /\ then.legacy = first.legacy /\ then.firmware = first.firmware /\ then.smi = first.smi
    BY <1>5, <2>1 DEF EhciHosts
  <2>3. ehost' = [then EXCEPT !.companions = c, !.power = w, !.ports = ports]
    BY <1>5 DEF first
  <2> HIDE DEF then
  <2> DEFINE last == [then EXCEPT !.companions = c, !.power = w]
  <2>4. /\ last \in EhciHosts /\ last.resetting = then.resetting /\ last.gone = then.gone
        /\ last.running = then.running /\ last.halted = then.halted
        /\ last.legacy = then.legacy /\ last.firmware = then.firmware /\ last.smi = then.smi
    BY <2>2 DEF EhciHosts
  <2>5. ehost' = [last EXCEPT !.ports = ports]
    BY <2>2, <2>3 DEF EhciHosts
  <2> HIDE DEF last
  <2>6. /\ ehost' \in EhciHosts /\ ehost'.ports = ports /\ ehost'.resetting = last.resetting
        /\ ehost'.gone = last.gone /\ ehost'.running = last.running
        /\ ehost'.halted = last.halted /\ ehost'.legacy = last.legacy
        /\ ehost'.firmware = last.firmware /\ ehost'.smi = last.smi
    BY <1>3, <2>4, <2>5 DEF EhciHosts
  <2> QED
    BY <2>1, <2>2, <2>4, <2>6
<1>7. "found" \in EhciStates /\ EGo("found")
  BY DEF EhciPower, EhciStates
<1>8. ehci' \in EhciDrivers /\ ehci'.at = "found" /\ ehci'.port = 1
  BY <1>0, <1>7, EhciGoes
<1>9. EhciTypeOK'
  BY <1>6, <1>8 DEF EhciTypeOK, AtPort
<1>10. PortsOK'
  BY <1>2, <1>6, <1>8 DEF PortsOK, Answered, AtPort
<1>11. ehost.gone \/ Stands'
  BY <1>0, <1>5, <1>6, <1>8 DEF EhciIInv, Stands, BeforeStart, Unset
<1> QED
  BY <1>6, <1>9, <1>10, <1>11 DEF EhciIInv

(* What a port does by itself: it may not lose an answer without being      *)
(* moved, nor begin a reset again.                                          *)
LEMMA EhciMoves ==
  ASSUME EhciTypeOK, Stands, PortsOK, NEW p \in EPorts, NEW new \in EhciPortSet,
         EhciPortIs(p, new), ehci' = ehci, Answered(new),
         new.mine = ehost.ports[p].mine, new.power = ehost.ports[p].power,
         ehost.ports[p].reset = "no" => new.reset = "no",
         Settled(ehost.ports[p], p) => Settled(new, p),
         Judged(ehost.ports[p], p, ehci.hasty) => Judged(new, p, ehci.hasty)
  PROVE  EhciTypeOK' /\ Stands' /\ PortsOK'
<1>1. EhciTypeOK'
  BY DEF EhciTypeOK, EhciPortIs
<1>2. Stands'
  BY DEF Stands, EhciPortIs
<1>3. \A q \in EPorts :
        /\ Answered(ehost.ports[q])'
        /\ ehost'.ports[q].mine = ehost.ports[q].mine
        /\ ehost'.ports[q].power = ehost.ports[q].power
        /\ ehost.ports[q].reset = "no" => ehost'.ports[q].reset = "no"
        /\ Settled(ehost.ports[q], q) => Settled(ehost.ports[q], q)'
        /\ Judged(ehost.ports[q], q, ehci.hasty) => Judged(ehost.ports[q], q, ehci.hasty)'
  BY DEF PortsOK, EhciPortIs, Answered, Settled, Judged
<1>4. ehci.at \in AtPort => ehci.port \in EPorts
  BY DEF EhciTypeOK
<1>5. PortsOK'
  <2>1. \A q \in EPorts : Answered(ehost.ports[q])'
    BY <1>3
  <2>2. ehci'.at \in AtPort \cup {"up"} =>
          \A q \in EPorts :
            IF q < ehci'.port THEN Settled(ehost.ports[q], q)' ELSE ehost'.ports[q].mine
    BY <1>3 DEF PortsOK
  <2>3. /\ ehci'.at = "up" => ehci'.port = EhciPorts + 1
        /\ ehci'.at \in {"press", "release", "ended", "late", "judge"} => EPort'.power
        /\ ehci'.at \in {"ended", "late", "judge"} => Judged(EPort, ehci.port, ehci.hasty)'
        /\ ehci'.at = "judge" => EPort'.reset = "no" \/ ehci'.port \in ehci'.hasty
    BY <1>3, <1>4 DEF PortsOK, EPort, AtPort
  <2> QED
    BY <2>1, <2>2, <2>3 DEF PortsOK
<1> QED
  BY <1>1, <1>2, <1>5

LEMMA EhciPortChanged ==
  ASSUME ehost \in EhciHosts, NEW p \in EPorts, NEW new \in EhciPortSet, NEW n \in Nat,
         ehost' = [ehost EXCEPT !.plugs = n, !.ports[p] = new]
  PROVE  EhciPortIs(p, new)
  BY DEF EhciHosts, EhciPortIs

LEMMA EhciFlagsKeep ==
  ASSUME EhciTypeOK, PortsOK, ehci' = ehci, ehost' \in EhciHosts,
         ehost'.ports = ehost.ports, ehost'.companions = ehost.companions
  PROVE  EhciTypeOK' /\ PortsOK'
<1>1. EhciTypeOK'
  BY DEF EhciTypeOK
<1>2. \A p \in EPorts : Answered(ehost.ports[p])'
  BY DEF PortsOK, Answered
<1>3. \A p \in EPorts : Settled(ehost.ports[p], p) => Settled(ehost.ports[p], p)'
  BY DEF Settled
<1>4. EPort' = EPort /\ (Judged(EPort, ehci.port, ehci.hasty) => Judged(EPort, ehci.port, ehci.hasty)')
  BY DEF EPort, Judged
<1>5. PortsOK'
  <2>1. ehci'.at \in AtPort \cup {"up"} =>
          \A p \in EPorts :
            IF p < ehci'.port THEN Settled(ehost.ports[p], p)' ELSE ehost'.ports[p].mine
    BY <1>3 DEF PortsOK
  <2> QED
    BY <1>2, <1>4, <2>1 DEF PortsOK
<1> QED
  BY <1>1, <1>5

LEMMA EhciControllerKeeps ==
  ASSUME EhciIInv, EhciController PROVE EhciIInv'
<1>0. /\ ehci \in EhciDrivers /\ ehost \in EhciHosts /\ ehci' = ehci /\ ~ehost.gone
      /\ Stands /\ PortsOK /\ EhciTypeOK /\ ehost.plugs \in Nat
      /\ ehci.at \notin {"off", "absent", "stopped"}
  BY DEF EhciIInv, EhciTypeOK, EhciController, EhciHosts
<1>1. CASE EHostResets
  <2> DEFINE ports == [p \in EPorts |-> EhciPort(ehost.ports[p].device, ehost.power)]
  <2>1. \A p \in EPorts : ports[p] \in EhciPortSet /\ Answered(ports[p])
    BY <1>0 DEF EhciPort, EhciPortSet, EhciHosts, Answered
  <2>2. ports \in [EPorts -> EhciPortSet]
    BY <2>1
  <2>3. ehost' = [ehost EXCEPT !.resetting = FALSE, !.running = FALSE, !.halted = TRUE,
                   !.lists = "none", !.ports = ports]
    BY <1>1 DEF EHostResets
  <2> HIDE DEF ports
  <2>4. /\ ehost' \in EhciHosts /\ ehost'.ports = ports /\ ~ehost'.resetting
        /\ ~ehost'.running /\ ehost'.legacy = ehost.legacy
        /\ ehost'.firmware = ehost.firmware /\ ehost'.smi = ehost.smi
    BY <1>0, <2>2, <2>3 DEF EhciHosts
  <2>5. ehci.at = "fresh"
    BY <1>0, <1>1 DEF EHostResets, Stands
  <2>6. EhciTypeOK'
    BY <1>0, <2>4 DEF EhciTypeOK
  <2>7. Stands'
    BY <1>0, <2>4, <2>5 DEF Stands, BeforeStart, Unset
  <2>8. PortsOK'
    BY <1>0, <2>1, <2>4, <2>5 DEF PortsOK, Answered, AtPort
  <2> QED
    BY <2>6, <2>7, <2>8 DEF EhciIInv
<1>2. CASE EHostHalts
  <2>1. /\ ehost' \in EhciHosts /\ ehost'.ports = ehost.ports /\ ehost'.running = ehost.running
        /\ ~ehost.running /\ ehost'.legacy = ehost.legacy /\ ehost'.resetting = ehost.resetting
        /\ ehost'.firmware = ehost.firmware /\ ehost'.smi = ehost.smi
        /\ ehost'.lists = ehost.lists /\ ehost'.companions = ehost.companions
    BY <1>0, <1>2 DEF EhciHosts, EHostHalts
  <2>2. Stands'
    BY <1>0, <2>1 DEF Stands
  <2> QED
    BY <1>0, <2>1, <2>2, EhciFlagsKeep DEF EhciIInv
<1>3. CASE EHostRuns
  <2>1. /\ ehost' \in EhciHosts /\ ehost'.ports = ehost.ports /\ ehost'.running = ehost.running
        /\ ~ehost'.halted /\ ehost'.legacy = ehost.legacy /\ ehost'.resetting = ehost.resetting
        /\ ehost'.firmware = ehost.firmware /\ ehost'.smi = ehost.smi
        /\ ehost'.lists = ehost.lists /\ ehost'.companions = ehost.companions
    BY <1>0, <1>3 DEF EhciHosts, EHostRuns
  <2>2. Stands'
    BY <1>0, <2>1 DEF Stands
  <2> QED
    BY <1>0, <2>1, <2>2, EhciFlagsKeep DEF EhciIInv
<1>9. CASE EHostFails
  <2>1. /\ ehost' \in EhciHosts /\ ehost'.ports = ehost.ports /\ ~ehost'.running
        /\ ehost'.halted /\ ehost.running
        /\ ehost'.legacy = ehost.legacy /\ ehost'.resetting = ehost.resetting
        /\ ehost'.firmware = ehost.firmware /\ ehost'.smi = ehost.smi
        /\ ehost'.lists = ehost.lists /\ ehost'.companions = ehost.companions
    BY <1>0, <1>9 DEF EhciHosts, EHostFails
  <2>2. Stands'
    BY <1>0, <2>1 DEF Stands
  <2> QED
    BY <1>0, <2>1, <2>2, EhciFlagsKeep DEF EhciIInv
<1>4. CASE EFirmwareLeaves
  <2>1. /\ ehost' \in EhciHosts /\ ehost'.ports = ehost.ports /\ ehost'.running = ehost.running
        /\ ehost'.halted = ehost.halted /\ ehost'.legacy = ehost.legacy
        /\ ehost'.resetting = ehost.resetting /\ ~ehost'.firmware /\ ehost'.smi = ehost.smi
        /\ ehost'.lists = ehost.lists /\ ehost'.companions = ehost.companions
    BY <1>0, <1>4 DEF EhciHosts, EFirmwareLeaves
  <2>2. Stands'
    BY <1>0, <2>1 DEF Stands
  <2> QED
    BY <1>0, <2>1, <2>2, EhciFlagsKeep DEF EhciIInv
<1>5. CASE Chirps
  <2>1. PICK p \in EPorts :
          /\ ehost.ports[p].reset = "on" /\ ehost.ports[p].device = "high"
          /\ ehost' = [ehost EXCEPT !.ports[p].chirped = TRUE]
    BY <1>5 DEF Chirps
  <2> DEFINE new == [ehost.ports[p] EXCEPT !.chirped = TRUE]
  <2>2. ehost.ports[p] \in EhciPortSet
    BY <1>0 DEF EhciHosts
  <2>3. /\ new \in EhciPortSet /\ Answered(new) /\ new.mine = ehost.ports[p].mine
        /\ new.power = ehost.ports[p].power /\ new.reset = ehost.ports[p].reset
        /\ Settled(ehost.ports[p], p) => Settled(new, p)
        /\ Judged(ehost.ports[p], p, ehci.hasty) => Judged(new, p, ehci.hasty)
    BY <2>1, <2>2 DEF EhciPortSet, Answered, Settled, Judged
  <2>4. ehost' = [ehost EXCEPT !.plugs = ehost.plugs, !.ports[p] = new]
    BY <1>0, <2>1 DEF EhciHosts
  <2> HIDE DEF new
  <2>5. EhciPortIs(p, new)
    BY <1>0, <2>3, <2>4, EhciPortChanged
  <2> QED
    BY <1>0, <2>3, <2>5, EhciMoves DEF EhciIInv
<1>6. CASE ResetEnds
  <2>1. PICK p \in EPorts :
          /\ ehost.ports[p].reset = "ending"
          /\ ehost' = [ehost EXCEPT !.ports[p] = [@ EXCEPT !.reset = "no", !.enabled = ehost.ports[p].chirped]]
    BY <1>6 DEF ResetEnds
  <2> DEFINE new == [ehost.ports[p] EXCEPT !.reset = "no", !.enabled = ehost.ports[p].chirped]
  <2>2. ehost.ports[p] \in EhciPortSet /\ Answered(ehost.ports[p])
    BY <1>0 DEF EhciHosts, PortsOK
  <2>3. /\ new \in EhciPortSet /\ Answered(new) /\ new.mine = ehost.ports[p].mine
        /\ new.power = ehost.ports[p].power /\ new.reset = "no"
        /\ Settled(ehost.ports[p], p) => Settled(new, p)
        /\ Judged(ehost.ports[p], p, ehci.hasty) => Judged(new, p, ehci.hasty)
    BY <2>1, <2>2 DEF EhciPortSet, Answered, Settled, Judged
  <2>4. ehost' = [ehost EXCEPT !.plugs = ehost.plugs, !.ports[p] = new]
    BY <1>0, <2>1 DEF EhciHosts
  <2> HIDE DEF new
  <2>5. EhciPortIs(p, new)
    BY <1>0, <2>3, <2>4, EhciPortChanged
  <2> QED
    BY <1>0, <2>3, <2>5, EhciMoves DEF EhciIInv
<1>7. CASE EPlugged
  <2>1. PICK p \in EPorts, d \in Devices :
          /\ d # ehost.ports[p].device
          /\ "none" \in {d, ehost.ports[p].device}
          /\ ehost' = [ehost EXCEPT !.plugs = @ + 1,
                                    !.ports[p] = [@ EXCEPT !.device = d, !.chirped = FALSE,
                                                           !.enabled = FALSE, !.moved = TRUE]]
    BY <1>7, Zenon DEF EPlugged
  <2> DEFINE new == [ehost.ports[p] EXCEPT !.device = d, !.chirped = FALSE, !.enabled = FALSE,
                                           !.moved = TRUE]
  <2>2. ehost.ports[p] \in EhciPortSet
    BY <1>0 DEF EhciHosts
  <2>3. /\ new \in EhciPortSet /\ Answered(new) /\ new.mine = ehost.ports[p].mine
        /\ new.power = ehost.ports[p].power /\ new.reset = ehost.ports[p].reset
        /\ Settled(ehost.ports[p], p) => Settled(new, p)
        /\ Judged(ehost.ports[p], p, ehci.hasty) => Judged(new, p, ehci.hasty)
    BY <2>1, <2>2 DEF EhciPortSet, Answered, Settled, Judged
  <2>4. /\ ehost' = [ehost EXCEPT !.plugs = ehost.plugs + 1, !.ports[p] = new]
        /\ ehost.plugs + 1 \in Nat
    <3>1. ehost.plugs + 1 \in Nat
      BY <1>0
    <3>2. ehost' = [ehost EXCEPT !.plugs = ehost.plugs + 1, !.ports[p] = new]
      BY <1>0, <2>1 DEF EhciHosts
    <3> QED
      BY <3>1, <3>2
  <2> HIDE DEF new
  <2>5. EhciPortIs(p, new)
    BY <1>0, <2>3, <2>4, EhciPortChanged
  <2> QED
    BY <1>0, <2>3, <2>5, EhciMoves DEF EhciIInv
<1>8. CASE ERemoved
  <2>1. ehost' \in EhciHosts /\ ehost'.gone
    <3>1. ehost.plugs + 1 \in Nat
      BY <1>0
    <3> QED
      BY <1>0, <1>8, <3>1 DEF ERemoved, EhciHosts
  <2> QED
    BY <1>0, <2>1 DEF EhciIInv, EhciTypeOK
<1> QED
  BY <1>1, <1>2, <1>3, <1>4, <1>5, <1>6, <1>7, <1>8, <1>9 DEF EhciController

LEMMA EhciRightFollows == EhciIInv => EhciRight
<1> SUFFICES ASSUME EhciIInv, ~ehost.gone PROVE EhciRight
  BY DEF EhciRight
<1>1. ehost.running /\ ehci.at \notin {"off", "found", "still"} =>
        ehost.lists = "virtual" /\ ~ehost.resetting /\ ~ehost.firmware /\ ~ehost.smi
  BY DEF EhciIInv, Stands, BeforeStart, Unset
<1>2. ehci.at = "up" => \A p \in EPorts : p < ehci.port /\ Settled(ehost.ports[p], p)
  BY EhciAssumption DEF EhciIInv, PortsOK, EPorts
<1> QED
  BY <1>1, <1>2 DEF EhciRight, Settled

(* A USB 2 controller is run by its driver alone, and every device ends     *)
(* with who can speak to it, for any number of ports and any plugging.      *)
THEOREM EhciSafe == EhciSpec => []EhciRight
<1>1. EhciInit => EhciIInv
  BY EhciStarts
<1>2. EhciIInv /\ [EhciNext]_ehciVars => EhciIInv'
  <2> SUFFICES ASSUME EhciIInv, [EhciNext]_ehciVars PROVE EhciIInv'
    OBVIOUS
  <2>1. CASE UNCHANGED ehciVars
    BY <2>1 DEF ehciVars, EhciIInv, EhciTypeOK, Stands, PortsOK, Answered, Settled, Judged, EPort
  <2>2. CASE EhciPower
    BY <2>2, EhciPowers
  <2>3. CASE EhciDriver
    <3>1. EhciTypeOK
      BY DEF EhciIInv
    <3> QED
      BY <2>3, <3>1, EhciDriverKeeps DEF EhciIInv
  <2>4. CASE EhciController
    BY <2>4, EhciControllerKeeps
  <2> QED
    BY <2>1, <2>2, <2>3, <2>4 DEF EhciNext
<1>3. EhciIInv => EhciRight
  BY EhciRightFollows
<1> QED
  BY <1>1, <1>2, <1>3, PTL DEF EhciSpec

----------------------------------------------------------------------------
(* A USB 3 controller and its driver: before the ports, at a port, with the *)
(* firmware asked, with the rings given.                                    *)

XhciStates ==
  {"off", "found", "absent", "legacy", "leaves", "stubborn", "smi", "routes", "start", "answers",
   "reset", "still", "rings", "run", "runs", "slow", "port", "power", "powered", "warm", "done",
   "links", "writes", "check", "speed", "up", "gaveUp", "stops", "stopped"}
AtXPort == {"port", "power", "powered", "warm", "done", "links", "writes", "check", "speed"}
BeforePorts ==
  {"off", "found", "legacy", "leaves", "stubborn", "smi", "routes", "start", "answers", "reset",
   "still", "rings", "run", "runs"}
BeforeTaken == {"off", "found", "legacy", "leaves", "stubborn", "smi", "absent"}
RingsGiven == AtXPort \cup {"run", "runs", "slow", "up"}

Setups ==
  [port : XPorts, speed : 0 .. 15, told : Nat, kept : Nat, asked : Nat, number : Nat]
XhciDrivers ==
  [at : XhciStates, polls : Nat, again : BOOLEAN, port : 1 .. Len(XhciPorts) + 1, read : BOOLEAN,
   stubborn : BOOLEAN, early : BOOLEAN, slow : BOOLEAN, disabled : SUBSET XPorts,
   late : SUBSET XPorts, setup : SUBSET Setups,
   commands : Seq([is : {"address"}, slot : {0}, context : {"lastOutput"}]), pending : Nat,
   written : SUBSET {"lastOutput"}]
XhciPortSet ==
  [device : 0 .. 5, power : BOOLEAN, warm : BOOLEAN, reset : BOOLEAN,
   link : {"empty", "off", "polling", "reset", "enabled", "disabled"}]
Parts == {"zero", "firmware", "contexts", "ring"}
Addresses == [low : Parts, high : Parts]
HostsRegisters == [contexts : Addresses, ring : Addresses]
Halved == HostRegisters(kvtophys("contexts"), Address("ring", "zero"))
XhciHosts ==
  [gone : BOOLEAN, legacy : BOOLEAN, firmware : BOOLEAN, asked : BOOLEAN, smi : BOOLEAN,
   running : BOOLEAN, halted : BOOLEAN, busy : BOOLEAN, resetting : BOOLEAN, registers : HostsRegisters,
   plugs : Nat, ports : [XPorts -> XhciPortSet]]
XhciTypeOK ==
  /\ xhci \in XhciDrivers /\ xhost \in XhciHosts
  /\ xhci.at \in AtXPort => xhci.port \in XPorts
  /\ xhci.at \in BeforePorts => xhci.port = 1

(* The controller is the driver's, and knows what the driver wrote into its *)
(* registers, or will have forgotten it.                                    *)
Own ==
  /\ xhost.running /\ xhost.halted => xhci.at \in {"runs", "slow"} \/ xhci.slow
  /\ xhci.at \in {"stops", "stopped"} /\ xhost.running => xhci.slow
  /\ ~xhost.legacy => ~xhost.firmware /\ ~xhost.smi
  /\ xhci.at \notin BeforeTaken \ {"smi"} /\ xhost.firmware => xhci.stubborn
  /\ xhci.at \notin BeforeTaken => ~xhost.smi
  /\ xhci.at \in {"still", "rings"} => xhost.resetting \/ xhost.registers = FirstValues
  /\ xhci.at \in RingsGiven =>
       \/ xhost.registers = Halved
       \/ xhci.early /\ (xhost.resetting \/ xhost.registers = FirstValues)
  /\ xhci.at \in RingsGiven /\ xhost.resetting => xhci.early

(* A port that is enabled, or about to be, is one of USB 3 and has power;   *)
(* one that the driver disabled is not.  A device that was set up is at a   *)
(* port the driver has passed and not disabled, and there is one command    *)
(* for each.  An enabled port that was passed was set up, or too late.      *)
Trained(socket, p) == socket.link \in {"enabled", "reset"} => XhciPorts[p] = "usb3" /\ socket.power
SetUp(s) ==
  /\ s.port < xhci.port /\ XhciPorts[s.port] = "usb3" /\ s.port \notin xhci.disabled
  /\ s.speed = 4 => s.told = s.kept
Known(p) == p \in xhci.late \/ \E s \in xhci.setup : s.port = p
XPortsOK ==
  /\ \A p \in XPorts : Trained(xhost.ports[p], p)
  /\ \A p \in xhci.disabled : xhost.ports[p].link # "enabled"
  /\ xhci.at \in AtXPort \cup {"up"} =>
       \A p \in XPorts : p < xhci.port /\ xhost.ports[p].link = "enabled" => Known(p)
DevicesOK ==
  /\ \A s \in xhci.setup : SetUp(s)
  /\ IsFiniteSet(xhci.setup) /\ Len(xhci.commands) = Cardinality(xhci.setup) /\ xhci.pending = 0
  /\ xhci.written = IF xhci.setup = {} THEN {} ELSE {"lastOutput"}
  /\ xhci.at = "up" => xhci.port = Len(XhciPorts) + 1
  /\ xhci.at = "speed" => XhciPorts[xhci.port] = "usb3" /\ xhci.port \notin xhci.disabled

XhciIInv == XhciTypeOK /\ (xhost.gone \/ (Own /\ XPortsOK /\ DevicesOK))

LEMMA XhciFacts ==
  /\ XPorts = 1 .. Len(XhciPorts) /\ Len(XhciPorts) \in Nat \ {0} /\ 1 \in XPorts
  /\ \A p \in XPorts : XhciPorts[p] \in {"usb2", "usb3"}
  BY XhciAssumption DEF XPorts

LEMMA XhciTypes ==
  ASSUME XhciTypeOK
  PROVE  /\ xhci \in XhciDrivers /\ xhost \in XhciHosts /\ xhci.port \in Nat
         /\ xhci.at \in AtXPort => Port \in XhciPortSet /\ xhci.port \in XPorts
         /\ \A p \in XPorts : xhost.ports[p] \in XhciPortSet
  BY DEF XhciTypeOK, XhciHosts, XhciDrivers, Port

LEMMA XhciValues == FirstValues \in HostsRegisters /\ Firmwares \in HostsRegisters
  BY DEF FirstValues, Firmwares, HostRegisters, HostsRegisters, kvtophys, Address, Addresses, Parts

LEMMA XhciStarts == XhciInit => XhciIInv
<1> SUFFICES ASSUME XhciInit PROVE XhciIInv
  OBVIOUS
<1> DEFINE ports == [p \in XPorts |-> FreshPort(NoDevice)]
<1>1. \A p \in XPorts : ports[p] \in XhciPortSet /\ Trained(ports[p], p)
  BY DEF FreshPort, NoDevice, XhciPortSet, Trained
<1>2. ports \in [XPorts -> XhciPortSet]
  BY <1>1
<1>3. xhost \in XhciHosts /\ xhost.ports = ports /\ ~xhost.running /\ ~xhost.resetting
      /\ ~xhost.firmware /\ ~xhost.smi
  <2> HIDE DEF ports
  <2> QED
    BY <1>2, XhciValues DEF XhciInit, XhciHosts, ports
<1>4. /\ xhci \in XhciDrivers /\ xhci.at = "off" /\ xhci.port = 1 /\ xhci.setup = {}
      /\ xhci.written = {} /\ xhci.commands = <<>> /\ xhci.pending = 0 /\ xhci.disabled = {}
  BY XhciFacts DEF XhciInit, XhciDrivers, XhciStates
<1> HIDE DEF ports
<1>5. XhciTypeOK
  BY <1>3, <1>4 DEF XhciTypeOK, AtXPort
<1>6. Own
  BY <1>3, <1>4 DEF Own, BeforeTaken, RingsGiven, AtXPort
<1>7. XPortsOK
  BY <1>1, <1>3, <1>4 DEF XPortsOK, AtXPort
<1>8. IsFiniteSet(xhci.setup) /\ Cardinality(xhci.setup) = 0
  BY <1>4, FS_EmptySet
<1>9. DevicesOK
  BY <1>4, <1>8 DEF DevicesOK
<1> QED
  BY <1>5, <1>6, <1>7, <1>9 DEF XhciIInv

(* A step of the driver that only moves it on; a wait, which leaves it      *)
(* where it is or does that.                                                *)
XhciKeeps ==
  /\ xhci' \in XhciDrivers
  /\ xhci'.port = xhci.port /\ xhci'.disabled = xhci.disabled /\ xhci'.late = xhci.late
  /\ xhci'.setup = xhci.setup /\ xhci'.commands = xhci.commands /\ xhci'.pending = xhci.pending
  /\ xhci'.written = xhci.written
Given3 ==
  xhci'.stubborn = xhci.stubborn /\ xhci'.early = xhci.early /\ xhci'.slow = xhci.slow

LEMMA XhciGoes ==
  ASSUME xhci \in XhciDrivers, NEW there \in XhciStates, XGo(there)
  PROVE  XhciKeeps /\ Given3 /\ xhci'.at = there
  BY DEF XhciDrivers, XGo, XhciKeeps, Given3

LEMMA XhciWaits ==
  ASSUME xhci \in XhciDrivers, NEW there \in BOOLEAN, NEW ok \in XhciStates,
         NEW timedOut \in XhciStates, NEW removed \in XhciStates,
         Handshake(there, ok, timedOut, removed)
  PROVE  /\ XhciKeeps /\ Given3
         /\ \/ xhci'.at = xhci.at
            \/ xhci'.at = ok /\ there
            \/ xhci'.at = timedOut /\ ~there
            \/ xhci'.at = removed /\ xhost.gone
<1> DEFINE Out(label) == [xhci EXCEPT !.at = label, !.polls = 0, !.again = FALSE]
<1>1. ASSUME NEW label \in XhciStates, xhci' = Out(label)
      PROVE  XhciKeeps /\ Given3 /\ xhci'.at = label
  <2>1. xhci' \in XhciDrivers
    BY <1>1 DEF XhciDrivers
  <2>2. Given3 /\ xhci'.at = label
    BY <1>1 DEF XhciDrivers, Given3
  <2> QED
    BY <1>1, <2>1, <2>2 DEF XhciDrivers, XhciKeeps
<1>2. CASE ~xhci.again /\ xhost.gone
  <2>1. xhci' = Out(removed)
    BY <1>2 DEF Handshake
  <2> HIDE DEF Out
  <2> QED
    BY <1>1, <1>2, <2>1
<1>3. CASE ~xhci.again /\ ~xhost.gone
  <2>1. xhci' = [xhci EXCEPT !.again = TRUE]
    BY <1>3 DEF Handshake
  <2> QED
    BY <2>1 DEF XhciDrivers, XhciKeeps, Given3
<1>4. CASE xhci.again /\ there
  <2>1. xhci' = Out(ok)
    BY <1>4 DEF Handshake
  <2> HIDE DEF Out
  <2> QED
    BY <1>1, <1>4, <2>1
<1>5. CASE xhci.again /\ ~there
  <2>1. CASE xhci.polls + 1 = UsbPolls
    <3>1. xhci' = Out(timedOut)
      BY <1>5, <2>1 DEF Handshake
    <3> HIDE DEF Out
    <3> QED
      BY <1>1, <1>5, <3>1
  <2>2. CASE xhci.polls + 1 # UsbPolls
    <3>1. xhci' = [xhci EXCEPT !.again = FALSE, !.polls = @ + 1]
      BY <1>5, <2>2 DEF Handshake
    <3>2. xhci.polls + 1 \in Nat
      BY DEF XhciDrivers
    <3> QED
      BY <3>1, <3>2 DEF XhciDrivers, XhciKeeps, Given3
  <2> QED
    BY <2>1, <2>2
<1>6. xhci.again \in BOOLEAN
  BY DEF XhciDrivers
<1> QED
  BY <1>2, <1>3, <1>4, <1>5, <1>6

(* What the devices and ports are does not change while the driver does not *)
(* look at them.                                                            *)
Elsewhere ==
  {"off", "found", "absent", "legacy", "leaves", "stubborn", "smi", "routes", "start", "answers",
   "reset", "still", "rings", "run", "runs", "slow", "gaveUp", "stops", "stopped"}

LEMMA XhciElsewhere ==
  ASSUME XhciTypeOK, XhciKeeps, xhost'.ports = xhost.ports,
         xhci'.at \in Elsewhere \/ (xhci'.at = "port" /\ xhci.at \in BeforePorts),
         XPortsOK, DevicesOK
  PROVE  XPortsOK' /\ DevicesOK'
<1>1. XPortsOK'
  <2>1. xhci'.at \in AtXPort \cup {"up"} => xhci'.port = 1
    BY DEF Elsewhere, AtXPort, XhciTypeOK, XhciKeeps
  <2>2. \A p \in XPorts : ~(p < 1)
    BY XhciFacts
  <2>3. \A p \in XPorts : Trained(xhost.ports[p], p)'
    BY DEF XPortsOK, Trained
  <2>4. \A p \in xhci'.disabled : xhost'.ports[p].link # "enabled"
    BY DEF XPortsOK, XhciKeeps
  <2> QED
    BY <2>1, <2>2, <2>3, <2>4 DEF XPortsOK
<1>2. DevicesOK'
  <2>1. \A x \in xhci'.setup : SetUp(x)'
    BY DEF DevicesOK, XhciKeeps, SetUp
  <2>2. xhci'.at # "up" /\ xhci'.at # "speed"
    BY DEF Elsewhere
  <2> QED
    BY <2>1, <2>2 DEF DevicesOK, XhciKeeps
<1> QED
  BY <1>1, <1>2

LEMMA XhciTypedElsewhere ==
  ASSUME XhciTypeOK, XhciKeeps, xhost' \in XhciHosts,
         xhci'.at \in Elsewhere \/ (xhci'.at = "port" /\ xhci.at \in BeforePorts),
         xhci.at \in BeforePorts \/ xhci'.at \notin BeforePorts
  PROVE  XhciTypeOK'
<1>1. xhci'.at \in AtXPort => xhci'.port \in XPorts
  BY XhciFacts DEF XhciTypeOK, XhciKeeps, Elsewhere, AtXPort
<1>2. xhci'.at \in BeforePorts => xhci'.port = 1
  BY DEF XhciTypeOK, XhciKeeps
<1> QED
  BY <1>1, <1>2 DEF XhciTypeOK, XhciKeeps

(* One port changes, and nothing else of the controller.                    *)
XhciPortIs(p, new) ==
  /\ xhost' \in XhciHosts
  /\ xhost'.ports[p] = new
  /\ \A q \in XPorts \ {p} : xhost'.ports[q] = xhost.ports[q]
  /\ xhost'.gone = xhost.gone /\ xhost'.legacy = xhost.legacy
  /\ xhost'.firmware = xhost.firmware /\ xhost'.smi = xhost.smi
  /\ xhost'.running = xhost.running /\ xhost'.halted = xhost.halted
  /\ xhost'.resetting = xhost.resetting /\ xhost'.registers = xhost.registers

LEMMA XhciPortSet1 ==
  ASSUME xhost \in XhciHosts, xhci.port \in XPorts, NEW new \in XhciPortSet, SetPort(new)
  PROVE  XhciPortIs(xhci.port, new)
  BY DEF XhciHosts, SetPort, XhciPortIs

LEMMA XhciPortSame ==
  ASSUME xhost \in XhciHosts, xhci.port \in XPorts, xhost' = xhost
  PROVE  XhciPortIs(xhci.port, Port)
  BY DEF XhciHosts, Port, XhciPortIs

LEMMA XhciOwnAtPort ==
  ASSUME Own, xhci.at \in AtXPort, NEW p, NEW new, XhciPortIs(p, new), Given3,
         xhci'.at \in AtXPort \cup {"up"}
  PROVE  Own'
  BY DEF Own, AtXPort, XhciPortIs, BeforeTaken, RingsGiven, Given3

(* A step at a port that stays the one, and the last one.                   *)
LEMMA XhciStays ==
  ASSUME XhciTypeOK, xhci.at \in AtXPort, NEW new \in XhciPortSet, XhciPortIs(xhci.port, new),
         xhci' \in XhciDrivers, xhci'.port = xhci.port, xhci'.late = xhci.late,
         xhci'.setup = xhci.setup, xhci'.commands = xhci.commands, xhci'.pending = xhci.pending,
         xhci'.written = xhci.written,
         xhci.disabled \subseteq xhci'.disabled,
         xhci'.disabled \subseteq xhci.disabled \cup {xhci.port}, xhci'.at \in AtXPort,
         XPortsOK, DevicesOK, Trained(new, xhci.port),
         xhci.port \in xhci'.disabled => new.link # "enabled",
         xhci'.at = "speed" => XhciPorts[xhci.port] = "usb3" /\ xhci.port \notin xhci'.disabled
  PROVE  XPortsOK' /\ DevicesOK'
<1>1. xhci.port \in XPorts /\ xhost'.ports[xhci.port] = new /\ xhci.port \in Nat
  BY XhciTypes DEF XhciPortIs
<1>2. XPortsOK'
  <2>1. \A p \in XPorts : Trained(xhost.ports[p], p)'
    BY <1>1 DEF XPortsOK, XhciPortIs, Trained
  <2>2. ASSUME NEW p \in xhci'.disabled PROVE xhost'.ports[p].link # "enabled"
    <3>1. p \in XPorts
      BY DEF XhciDrivers
    <3> QED
      BY <1>1, <2>2, <3>1 DEF XPortsOK, XhciPortIs
  <2>3. ASSUME NEW p \in XPorts, p < xhci.port, xhost'.ports[p].link = "enabled"
        PROVE  Known(p)'
    <3>1. p # xhci.port
      BY <1>1, <2>3, XhciFacts
    <3> QED
      BY <2>3, <3>1 DEF XPortsOK, XhciPortIs, Known
  <2> QED
    BY <2>1, <2>2, <2>3 DEF XPortsOK
<1>3. DevicesOK'
  <2>1. ASSUME NEW x \in xhci'.setup PROVE SetUp(x)'
    <3>1. x \in xhci.setup /\ SetUp(x) /\ x \in Setups
      BY <2>1 DEF DevicesOK, XhciDrivers
    <3>2. x.port # xhci.port
      BY <1>1, <3>1, XhciFacts DEF SetUp, Setups
    <3> QED
      BY <3>1, <3>2 DEF SetUp
  <2>2. xhci'.at # "up"
    BY DEF AtXPort
  <2> QED
    BY <2>1, <2>2 DEF DevicesOK
<1> QED
  BY <1>2, <1>3

LEMMA XhciPast ==
  ASSUME XhciTypeOK, xhci.port \in XPorts
  PROVE  /\ Past \in XhciDrivers /\ Past.port = xhci.port + 1
         /\ Past.disabled = xhci.disabled /\ Past.late = xhci.late /\ Past.setup = xhci.setup
         /\ Past.commands = xhci.commands /\ Past.pending = xhci.pending
         /\ Past.written = xhci.written
         /\ Past.stubborn = xhci.stubborn /\ Past.early = xhci.early /\ Past.slow = xhci.slow
         /\ \/ Past.at = "up" /\ xhci.port = Len(XhciPorts)
            \/ Past.at = "port" /\ xhci.port + 1 \in XPorts
<1>1. /\ xhci.port + 1 \in 1 .. Len(XhciPorts) + 1
      /\ xhci.port # Len(XhciPorts) => xhci.port + 1 \in XPorts
  BY XhciFacts
<1> QED
  BY <1>1 DEF Past, XhciTypeOK, XhciDrivers, XhciStates

LEMMA XhciPasses ==
  ASSUME XhciTypeOK, xhci.at \in AtXPort, NEW new \in XhciPortSet, XhciPortIs(xhci.port, new),
         xhci' \in XhciDrivers, xhci'.port = xhci.port + 1, xhci'.late = xhci.late,
         xhci.setup \subseteq xhci'.setup, xhci'.disabled = xhci.disabled,
         xhci'.at \in {"up", "port"},
         XPortsOK, Trained(new, xhci.port),
         xhci.port \in xhci.disabled => new.link # "enabled",
         new.link = "enabled" => \E x \in xhci'.setup : x.port = xhci.port
  PROVE  XPortsOK'
<1>1. xhci.port \in XPorts /\ xhost'.ports[xhci.port] = new /\ xhci.port \in Nat
  BY XhciTypes DEF XhciPortIs
<1>2. \A p \in XPorts : Trained(xhost.ports[p], p)'
  BY <1>1 DEF XPortsOK, XhciPortIs, Trained
<1>3. ASSUME NEW p \in xhci'.disabled PROVE xhost'.ports[p].link # "enabled"
  <2>1. p \in XPorts
    BY DEF XhciDrivers
  <2> QED
    BY <1>1, <1>3, <2>1 DEF XPortsOK, XhciPortIs
<1>4. ASSUME NEW p \in XPorts, p < xhci'.port, xhost'.ports[p].link = "enabled"
      PROVE  Known(p)'
  <2>1. CASE p = xhci.port
    BY <1>1, <1>4, <2>1 DEF Known
  <2>2. CASE p # xhci.port
    <3>1. p < xhci.port
      BY <1>1, <1>4, <2>2, XhciFacts
    <3>2. xhost.ports[p].link = "enabled"
      BY <1>4, <2>2 DEF XhciPortIs
    <3>3. Known(p)
      BY <3>1, <3>2 DEF XPortsOK
    <3> QED
      BY <3>3 DEF Known
  <2> QED
    BY <2>1, <2>2
<1> QED
  BY <1>2, <1>3, <1>4 DEF XPortsOK

LEMMA XhciTypedPast ==
  ASSUME XhciTypeOK, xhost' \in XhciHosts, xhci' \in XhciDrivers, xhci.port \in XPorts,
         xhci'.port = Past.port, xhci'.at = Past.at
  PROVE  XhciTypeOK' /\ xhci'.at \in {"up", "port"} /\ xhci'.at \in AtXPort \cup {"up"}
<1>1. /\ xhci'.at = "port" => xhci'.port \in XPorts
      /\ xhci'.at \in {"up", "port"}
  BY XhciPast
<1> QED
  BY <1>1 DEF XhciTypeOK, AtXPort, BeforePorts

LEMMA XhciTypedStays ==
  ASSUME XhciTypeOK, xhci.at \in AtXPort, xhost' \in XhciHosts, xhci' \in XhciDrivers,
         xhci'.port = xhci.port, xhci'.at \in AtXPort
  PROVE  XhciTypeOK'
<1>1. xhci'.at \notin BeforePorts
  BY DEF AtXPort, BeforePorts
<1> QED
  BY <1>1 DEF XhciTypeOK

(* Every step of the driver keeps the invariant.                            *)
XhciSafe == Own /\ XPortsOK /\ DevicesOK

LEMMA XhciDriverKeeps ==
  ASSUME XhciTypeOK, XhciDriver
  PROVE  XhciTypeOK' /\ xhost'.gone = xhost.gone /\ (~xhost.gone /\ XhciSafe => XhciSafe')
<1>0. /\ xhci \in XhciDrivers /\ xhost \in XhciHosts /\ xhost.gone \in BOOLEAN
      /\ xhost.halted \in BOOLEAN /\ xhost.running \in BOOLEAN /\ xhost.legacy \in BOOLEAN
      /\ xhost.resetting \in BOOLEAN /\ xhost.smi \in BOOLEAN
  BY DEF XhciTypeOK, XhciHosts
<1>1. CASE XhciFound
  <2>1. /\ xhost' \in XhciHosts /\ xhost'.ports = xhost.ports /\ xhost'.gone = xhost.gone
        /\ xhost'.legacy = xhost.legacy /\ xhost'.firmware = xhost.firmware
        /\ xhost'.smi = xhost.smi /\ xhost'.running = xhost.running
        /\ xhost'.halted = xhost.halted /\ xhost'.resetting = xhost.resetting
        /\ xhost'.registers = xhost.registers
    BY <1>0, <1>1 DEF XhciFound, XhciHosts
  <2>2. PICK to \in {"absent", "legacy", "routes"} : XGo(to) /\ (to = "absent" => xhost.gone) /\ (to = "routes" => xhost.gone \/ ~xhost.legacy)
    BY <1>0, <1>1 DEF XhciFound
  <2>3. to \in XhciStates
    BY <2>2 DEF XhciStates
  <2>4. XhciKeeps /\ Given3 /\ xhci'.at = to
    BY <1>0, <2>2, <2>3, XhciGoes
  <2>7. XhciTypeOK'
    <3>1. /\ \/ xhci'.at \in Elsewhere
             \/ xhci'.at = "port" /\ xhci.at \in BeforePorts
          /\ xhci.at \in BeforePorts \/ xhci'.at \notin BeforePorts
      BY <1>1, <2>2, <2>4 DEF XhciFound, Elsewhere, BeforePorts
    <3> QED
      BY <2>1, <2>2, <2>4, <3>1, XhciTypedElsewhere
  <2>8. XPortsOK /\ DevicesOK => XPortsOK' /\ DevicesOK'
    <3>1. \/ xhci'.at \in Elsewhere
          \/ xhci'.at = "port" /\ xhci.at \in BeforePorts
      BY <1>1, <2>2, <2>4 DEF XhciFound, Elsewhere, BeforePorts
    <3> QED
      BY <2>1, <2>2, <2>4, <3>1, XhciElsewhere
  <2>9. ~xhost.gone /\ Own => Own'
    BY <1>0, <1>1, <2>1, <2>2, <2>4 DEF XhciFound, Own, BeforeTaken, RingsGiven, AtXPort, Given3
  <2> QED
    BY <2>1, <2>7, <2>8, <2>9 DEF XhciSafe
<1>2. CASE XhciAsk
  <2>1. /\ xhost' \in XhciHosts /\ xhost'.ports = xhost.ports /\ xhost'.gone = xhost.gone
        /\ xhost'.legacy = xhost.legacy /\ xhost'.firmware = xhost.firmware
        /\ xhost'.smi = xhost.smi /\ xhost'.running = xhost.running
        /\ xhost'.halted = xhost.halted /\ xhost'.resetting = xhost.resetting
        /\ xhost'.registers = xhost.registers
    BY <1>0, <1>2 DEF XhciAsk, XhciHosts
  <2>2. PICK to \in {"routes", "leaves", "smi"} : XGo(to) /\ (to = "routes" => xhost.gone) /\ (to = "smi" => ~xhost.firmware)
    BY <1>0, <1>2 DEF XhciAsk
  <2>3. to \in XhciStates
    BY <2>2 DEF XhciStates
  <2>4. XhciKeeps /\ Given3 /\ xhci'.at = to
    BY <1>0, <2>2, <2>3, XhciGoes
  <2>7. XhciTypeOK'
    <3>1. /\ \/ xhci'.at \in Elsewhere
             \/ xhci'.at = "port" /\ xhci.at \in BeforePorts
          /\ xhci.at \in BeforePorts \/ xhci'.at \notin BeforePorts
      BY <1>2, <2>2, <2>4 DEF XhciAsk, Elsewhere, BeforePorts
    <3> QED
      BY <2>1, <2>2, <2>4, <3>1, XhciTypedElsewhere
  <2>8. XPortsOK /\ DevicesOK => XPortsOK' /\ DevicesOK'
    <3>1. \/ xhci'.at \in Elsewhere
          \/ xhci'.at = "port" /\ xhci.at \in BeforePorts
      BY <1>2, <2>2, <2>4 DEF XhciAsk, Elsewhere, BeforePorts
    <3> QED
      BY <2>1, <2>2, <2>4, <3>1, XhciElsewhere
  <2>9. ~xhost.gone /\ Own => Own'
    BY <1>0, <1>2, <2>1, <2>2, <2>4 DEF XhciAsk, Own, BeforeTaken, RingsGiven, AtXPort, Given3
  <2> QED
    BY <2>1, <2>7, <2>8, <2>9 DEF XhciSafe
<1>3. CASE XhciLeaves
  <2> DEFINE there == ~xhost.gone /\ ~xhost.firmware
  <2>1. Handshake(there, "smi", "stubborn", "routes") /\ xhost' = xhost
    BY <1>3 DEF XhciLeaves
  <2>2. there \in BOOLEAN
    OBVIOUS
  <2>3. {"smi", "stubborn", "routes"} \subseteq XhciStates
    BY DEF XhciStates
  <2> HIDE DEF there
  <2>4. /\ XhciKeeps /\ Given3
        /\ \/ xhci'.at = xhci.at
           \/ xhci'.at = "smi" /\ there
           \/ xhci'.at = "stubborn" /\ ~there
           \/ xhci'.at = "routes" /\ xhost.gone
    BY <1>0, <2>1, <2>2, <2>3, XhciWaits
  <2>5. /\ xhost' \in XhciHosts /\ xhost'.ports = xhost.ports /\ xhost'.gone = xhost.gone
        /\ xhost'.legacy = xhost.legacy /\ xhost'.firmware = xhost.firmware
        /\ xhost'.smi = xhost.smi /\ xhost'.running = xhost.running
        /\ xhost'.halted = xhost.halted /\ xhost'.resetting = xhost.resetting
        /\ xhost'.registers = xhost.registers
    BY <1>0, <2>1
  <2> USE DEF there
  <2>7. XhciTypeOK'
    <3>1. /\ \/ xhci'.at \in Elsewhere
             \/ xhci'.at = "port" /\ xhci.at \in BeforePorts
          /\ xhci.at \in BeforePorts \/ xhci'.at \notin BeforePorts
      BY <1>3, <2>4 DEF XhciLeaves, Elsewhere, BeforePorts
    <3> QED
      BY <2>5, <2>4, <3>1, XhciTypedElsewhere
  <2>8. XPortsOK /\ DevicesOK => XPortsOK' /\ DevicesOK'
    <3>1. \/ xhci'.at \in Elsewhere
          \/ xhci'.at = "port" /\ xhci.at \in BeforePorts
      BY <1>3, <2>4 DEF XhciLeaves, Elsewhere, BeforePorts
    <3> QED
      BY <2>5, <2>4, <3>1, XhciElsewhere
  <2>9. ~xhost.gone /\ Own => Own'
    BY <1>0, <1>3, <2>4, <2>5 DEF XhciLeaves, Own, BeforeTaken, RingsGiven, AtXPort, Given3
  <2> QED
    BY <2>5, <2>7, <2>8, <2>9 DEF XhciSafe
<1>4. CASE XhciStubborn
  <2>1. /\ xhost' \in XhciHosts /\ xhost'.ports = xhost.ports /\ xhost'.gone = xhost.gone
        /\ xhost'.legacy = xhost.legacy /\ xhost'.firmware = xhost.firmware
        /\ xhost'.smi = xhost.smi /\ xhost'.running = xhost.running
        /\ xhost'.halted = xhost.halted /\ xhost'.resetting = xhost.resetting
        /\ xhost'.registers = xhost.registers
    BY <1>0, <1>4 DEF XhciStubborn, XhciHosts
  <2>2. xhci' = [xhci EXCEPT !.at = "smi", !.stubborn = TRUE]
    BY <1>4 DEF XhciStubborn
  <2>3. /\ XhciKeeps /\ xhci'.at = "smi" /\ xhci'.stubborn = TRUE
        /\ xhci'.early = xhci.early /\ xhci'.slow = xhci.slow
    BY <1>0, <2>2 DEF XhciDrivers, XhciKeeps, XhciStates
  <2>7. XhciTypeOK'
    <3>1. /\ \/ xhci'.at \in Elsewhere
             \/ xhci'.at = "port" /\ xhci.at \in BeforePorts
          /\ xhci.at \in BeforePorts \/ xhci'.at \notin BeforePorts
      BY <1>4, <2>3 DEF XhciStubborn, Elsewhere, BeforePorts
    <3> QED
      BY <2>1, <2>3, <3>1, XhciTypedElsewhere
  <2>8. XPortsOK /\ DevicesOK => XPortsOK' /\ DevicesOK'
    <3>1. \/ xhci'.at \in Elsewhere
          \/ xhci'.at = "port" /\ xhci.at \in BeforePorts
      BY <1>4, <2>3 DEF XhciStubborn, Elsewhere, BeforePorts
    <3> QED
      BY <2>1, <2>3, <3>1, XhciElsewhere
  <2>9. ~xhost.gone /\ Own => Own'
    BY <1>0, <1>4, <2>1, <2>3 DEF XhciStubborn, Own, BeforeTaken, RingsGiven, AtXPort, Given3
  <2> QED
    BY <2>1, <2>7, <2>8, <2>9 DEF XhciSafe
<1>5. CASE XhciSmi
  <2>1. /\ xhost' \in XhciHosts /\ xhost'.ports = xhost.ports /\ xhost'.gone = xhost.gone
        /\ xhost'.legacy = xhost.legacy /\ xhost'.firmware = xhost.firmware
        /\ xhost'.smi = (xhost.smi /\ xhost.gone) /\ xhost'.running = xhost.running
        /\ xhost'.halted = xhost.halted /\ xhost'.resetting = xhost.resetting
        /\ xhost'.registers = xhost.registers
    BY <1>0, <1>5 DEF XhciSmi, XhciHosts
  <2>2. PICK to \in {"routes"} : XGo(to) /\ TRUE
    BY <1>0, <1>5 DEF XhciSmi
  <2>3. to \in XhciStates
    BY <2>2 DEF XhciStates
  <2>4. XhciKeeps /\ Given3 /\ xhci'.at = to
    BY <1>0, <2>2, <2>3, XhciGoes
  <2>7. XhciTypeOK'
    <3>1. /\ \/ xhci'.at \in Elsewhere
             \/ xhci'.at = "port" /\ xhci.at \in BeforePorts
          /\ xhci.at \in BeforePorts \/ xhci'.at \notin BeforePorts
      BY <1>5, <2>2, <2>4 DEF XhciSmi, Elsewhere, BeforePorts
    <3> QED
      BY <2>1, <2>2, <2>4, <3>1, XhciTypedElsewhere
  <2>8. XPortsOK /\ DevicesOK => XPortsOK' /\ DevicesOK'
    <3>1. \/ xhci'.at \in Elsewhere
          \/ xhci'.at = "port" /\ xhci.at \in BeforePorts
      BY <1>5, <2>2, <2>4 DEF XhciSmi, Elsewhere, BeforePorts
    <3> QED
      BY <2>1, <2>2, <2>4, <3>1, XhciElsewhere
  <2>9. ~xhost.gone /\ Own => Own'
    BY <1>0, <1>5, <2>1, <2>2, <2>4 DEF XhciSmi, Own, BeforeTaken, RingsGiven, AtXPort, Given3
  <2> QED
    BY <2>1, <2>7, <2>8, <2>9 DEF XhciSafe
<1>6. CASE XhciRoutes
  <2>1. /\ xhost' \in XhciHosts /\ xhost'.ports = xhost.ports /\ xhost'.gone = xhost.gone
        /\ xhost'.legacy = xhost.legacy /\ xhost'.firmware = xhost.firmware
        /\ xhost'.smi = xhost.smi /\ xhost'.running = xhost.running
        /\ xhost'.halted = xhost.halted /\ xhost'.resetting = xhost.resetting
        /\ xhost'.registers = xhost.registers
    BY <1>0, <1>6 DEF XhciRoutes, XhciHosts
  <2>2. PICK to \in {"absent", "start"} : XGo(to) /\ (to = "absent" => xhost.gone)
    BY <1>0, <1>6 DEF XhciRoutes
  <2>3. to \in XhciStates
    BY <2>2 DEF XhciStates
  <2>4. XhciKeeps /\ Given3 /\ xhci'.at = to
    BY <1>0, <2>2, <2>3, XhciGoes
  <2>7. XhciTypeOK'
    <3>1. /\ \/ xhci'.at \in Elsewhere
             \/ xhci'.at = "port" /\ xhci.at \in BeforePorts
          /\ xhci.at \in BeforePorts \/ xhci'.at \notin BeforePorts
      BY <1>6, <2>2, <2>4 DEF XhciRoutes, Elsewhere, BeforePorts
    <3> QED
      BY <2>1, <2>2, <2>4, <3>1, XhciTypedElsewhere
  <2>8. XPortsOK /\ DevicesOK => XPortsOK' /\ DevicesOK'
    <3>1. \/ xhci'.at \in Elsewhere
          \/ xhci'.at = "port" /\ xhci.at \in BeforePorts
      BY <1>6, <2>2, <2>4 DEF XhciRoutes, Elsewhere, BeforePorts
    <3> QED
      BY <2>1, <2>2, <2>4, <3>1, XhciElsewhere
  <2>9. ~xhost.gone /\ Own => Own'
    BY <1>0, <1>6, <2>1, <2>2, <2>4 DEF XhciRoutes, Own, BeforeTaken, RingsGiven, AtXPort, Given3
  <2> QED
    BY <2>1, <2>7, <2>8, <2>9 DEF XhciSafe
<1>7. CASE XhciStart
  <2>1. /\ xhost' \in XhciHosts /\ xhost'.ports = xhost.ports /\ xhost'.gone = xhost.gone
        /\ xhost'.legacy = xhost.legacy /\ xhost'.firmware = xhost.firmware
        /\ xhost'.smi = xhost.smi /\ xhost'.running = xhost.running
        /\ xhost'.halted = xhost.halted /\ xhost'.resetting = xhost.resetting
        /\ xhost'.registers = xhost.registers
    BY <1>0, <1>7 DEF XhciStart, XhciHosts
  <2>2. PICK to \in {"gaveUp", "answers"} : XGo(to) /\ (to = "gaveUp" => xhost.gone)
    BY <1>0, <1>7 DEF XhciStart
  <2>3. to \in XhciStates
    BY <2>2 DEF XhciStates
  <2>4. XhciKeeps /\ Given3 /\ xhci'.at = to
    BY <1>0, <2>2, <2>3, XhciGoes
  <2>7. XhciTypeOK'
    <3>1. /\ \/ xhci'.at \in Elsewhere
             \/ xhci'.at = "port" /\ xhci.at \in BeforePorts
          /\ xhci.at \in BeforePorts \/ xhci'.at \notin BeforePorts
      BY <1>7, <2>2, <2>4 DEF XhciStart, Elsewhere, BeforePorts
    <3> QED
      BY <2>1, <2>2, <2>4, <3>1, XhciTypedElsewhere
  <2>8. XPortsOK /\ DevicesOK => XPortsOK' /\ DevicesOK'
    <3>1. \/ xhci'.at \in Elsewhere
          \/ xhci'.at = "port" /\ xhci.at \in BeforePorts
      BY <1>7, <2>2, <2>4 DEF XhciStart, Elsewhere, BeforePorts
    <3> QED
      BY <2>1, <2>2, <2>4, <3>1, XhciElsewhere
  <2>9. ~xhost.gone /\ Own => Own'
    BY <1>0, <1>7, <2>1, <2>2, <2>4 DEF XhciStart, Own, BeforeTaken, RingsGiven, AtXPort, Given3
  <2> QED
    BY <2>1, <2>7, <2>8, <2>9 DEF XhciSafe
<1>8. CASE XhciAnswers
  <2> DEFINE there == ~xhost.gone /\ ~xhost.busy
  <2>1. Handshake(there, "reset", "gaveUp", "gaveUp") /\ xhost' = xhost
    BY <1>8 DEF XhciAnswers
  <2>2. there \in BOOLEAN
    OBVIOUS
  <2>3. {"reset", "gaveUp", "gaveUp"} \subseteq XhciStates
    BY DEF XhciStates
  <2> HIDE DEF there
  <2>4. /\ XhciKeeps /\ Given3
        /\ \/ xhci'.at = xhci.at
           \/ xhci'.at = "reset" /\ there
           \/ xhci'.at = "gaveUp" /\ ~there
           \/ xhci'.at = "gaveUp" /\ xhost.gone
    BY <1>0, <2>1, <2>2, <2>3, XhciWaits
  <2>5. /\ xhost' \in XhciHosts /\ xhost'.ports = xhost.ports /\ xhost'.gone = xhost.gone
        /\ xhost'.legacy = xhost.legacy /\ xhost'.firmware = xhost.firmware
        /\ xhost'.smi = xhost.smi /\ xhost'.running = xhost.running
        /\ xhost'.halted = xhost.halted /\ xhost'.resetting = xhost.resetting
        /\ xhost'.registers = xhost.registers
    BY <1>0, <2>1
  <2> USE DEF there
  <2>7. XhciTypeOK'
    <3>1. /\ \/ xhci'.at \in Elsewhere
             \/ xhci'.at = "port" /\ xhci.at \in BeforePorts
          /\ xhci.at \in BeforePorts \/ xhci'.at \notin BeforePorts
      BY <1>8, <2>4 DEF XhciAnswers, Elsewhere, BeforePorts
    <3> QED
      BY <2>5, <2>4, <3>1, XhciTypedElsewhere
  <2>8. XPortsOK /\ DevicesOK => XPortsOK' /\ DevicesOK'
    <3>1. \/ xhci'.at \in Elsewhere
          \/ xhci'.at = "port" /\ xhci.at \in BeforePorts
      BY <1>8, <2>4 DEF XhciAnswers, Elsewhere, BeforePorts
    <3> QED
      BY <2>5, <2>4, <3>1, XhciElsewhere
  <2>9. ~xhost.gone /\ Own => Own'
    BY <1>0, <1>8, <2>4, <2>5 DEF XhciAnswers, Own, BeforeTaken, RingsGiven, AtXPort, Given3
  <2> QED
    BY <2>5, <2>7, <2>8, <2>9 DEF XhciSafe
<1>9. CASE XhciReset
  <2>1. /\ xhost' \in XhciHosts /\ xhost'.ports = xhost.ports /\ xhost'.gone = xhost.gone
        /\ xhost'.legacy = xhost.legacy /\ xhost'.firmware = xhost.firmware
        /\ xhost'.smi = xhost.smi /\ xhost'.running = FALSE
        /\ xhost'.halted = xhost.halted /\ xhost'.resetting = TRUE
        /\ xhost'.registers = xhost.registers
    BY <1>0, <1>9 DEF XhciReset, XhciHosts
  <2>2. PICK to \in {"still"} : XGo(to) /\ TRUE
    BY <1>0, <1>9 DEF XhciReset
  <2>3. to \in XhciStates
    BY <2>2 DEF XhciStates
  <2>4. XhciKeeps /\ Given3 /\ xhci'.at = to
    BY <1>0, <2>2, <2>3, XhciGoes
  <2>7. XhciTypeOK'
    <3>1. /\ \/ xhci'.at \in Elsewhere
             \/ xhci'.at = "port" /\ xhci.at \in BeforePorts
          /\ xhci.at \in BeforePorts \/ xhci'.at \notin BeforePorts
      BY <1>9, <2>2, <2>4 DEF XhciReset, Elsewhere, BeforePorts
    <3> QED
      BY <2>1, <2>2, <2>4, <3>1, XhciTypedElsewhere
  <2>8. XPortsOK /\ DevicesOK => XPortsOK' /\ DevicesOK'
    <3>1. \/ xhci'.at \in Elsewhere
          \/ xhci'.at = "port" /\ xhci.at \in BeforePorts
      BY <1>9, <2>2, <2>4 DEF XhciReset, Elsewhere, BeforePorts
    <3> QED
      BY <2>1, <2>2, <2>4, <3>1, XhciElsewhere
  <2>9. ~xhost.gone /\ Own => Own'
    BY <1>0, <1>9, <2>1, <2>2, <2>4 DEF XhciReset, Own, BeforeTaken, RingsGiven, AtXPort, Given3
  <2> QED
    BY <2>1, <2>7, <2>8, <2>9 DEF XhciSafe
<1>10. CASE XhciStill
  <2> DEFINE there == xhost.gone \/ xhost.halted
  <2>1. Handshake(there, "rings", "gaveUp", "gaveUp") /\ xhost' = xhost
    BY <1>10 DEF XhciStill
  <2>2. there \in BOOLEAN
    OBVIOUS
  <2>3. {"rings", "gaveUp", "gaveUp"} \subseteq XhciStates
    BY DEF XhciStates
  <2> HIDE DEF there
  <2>4. /\ XhciKeeps /\ Given3
        /\ \/ xhci'.at = xhci.at
           \/ xhci'.at = "rings" /\ there
           \/ xhci'.at = "gaveUp" /\ ~there
           \/ xhci'.at = "gaveUp" /\ xhost.gone
    BY <1>0, <2>1, <2>2, <2>3, XhciWaits
  <2>5. /\ xhost' \in XhciHosts /\ xhost'.ports = xhost.ports /\ xhost'.gone = xhost.gone
        /\ xhost'.legacy = xhost.legacy /\ xhost'.firmware = xhost.firmware
        /\ xhost'.smi = xhost.smi /\ xhost'.running = xhost.running
        /\ xhost'.halted = xhost.halted /\ xhost'.resetting = xhost.resetting
        /\ xhost'.registers = xhost.registers
    BY <1>0, <2>1
  <2> USE DEF there
  <2>7. XhciTypeOK'
    <3>1. /\ \/ xhci'.at \in Elsewhere
             \/ xhci'.at = "port" /\ xhci.at \in BeforePorts
          /\ xhci.at \in BeforePorts \/ xhci'.at \notin BeforePorts
      BY <1>10, <2>4 DEF XhciStill, Elsewhere, BeforePorts
    <3> QED
      BY <2>5, <2>4, <3>1, XhciTypedElsewhere
  <2>8. XPortsOK /\ DevicesOK => XPortsOK' /\ DevicesOK'
    <3>1. \/ xhci'.at \in Elsewhere
          \/ xhci'.at = "port" /\ xhci.at \in BeforePorts
      BY <1>10, <2>4 DEF XhciStill, Elsewhere, BeforePorts
    <3> QED
      BY <2>5, <2>4, <3>1, XhciElsewhere
  <2>9. ~xhost.gone /\ Own => Own'
    BY <1>0, <1>10, <2>4, <2>5 DEF XhciStill, Own, BeforeTaken, RingsGiven, AtXPort, Given3
  <2> QED
    BY <2>5, <2>7, <2>8, <2>9 DEF XhciSafe
<1>11. CASE XhciRings
  <2>1. /\ xhost' \in XhciHosts /\ xhost'.ports = xhost.ports /\ xhost'.gone = xhost.gone
        /\ xhost'.legacy = xhost.legacy /\ xhost'.firmware = xhost.firmware
        /\ xhost'.smi = xhost.smi /\ xhost'.running = xhost.running
        /\ xhost'.halted = xhost.halted /\ xhost'.resetting = xhost.resetting
        /\ xhost'.registers = GivenTo(xhost.registers)
    <3>1. GivenTo(xhost.registers) \in HostsRegisters
      BY <1>0 DEF XhciHosts, HostsRegisters, Addresses, Parts, GivenTo, HostRegisters, Address,
                  kvtophys
    <3> QED
      BY <1>0, <1>11, <3>1 DEF XhciRings, XhciHosts
  <2>2. xhci' = [xhci EXCEPT !.at = "run", !.early = xhost.resetting]
    BY <1>11 DEF XhciRings
  <2>3. /\ XhciKeeps /\ xhci'.at = "run" /\ xhci'.early = xhost.resetting
        /\ xhci'.stubborn = xhci.stubborn /\ xhci'.slow = xhci.slow
    BY <1>0, <2>2 DEF XhciDrivers, XhciKeeps, XhciStates
  <2>7. XhciTypeOK'
    <3>1. /\ \/ xhci'.at \in Elsewhere
             \/ xhci'.at = "port" /\ xhci.at \in BeforePorts
          /\ xhci.at \in BeforePorts \/ xhci'.at \notin BeforePorts
      BY <1>11, <2>3 DEF XhciRings, Elsewhere, BeforePorts
    <3> QED
      BY <2>1, <2>3, <3>1, XhciTypedElsewhere
  <2>8. XPortsOK /\ DevicesOK => XPortsOK' /\ DevicesOK'
    <3>1. \/ xhci'.at \in Elsewhere
          \/ xhci'.at = "port" /\ xhci.at \in BeforePorts
      BY <1>11, <2>3 DEF XhciRings, Elsewhere, BeforePorts
    <3> QED
      BY <2>1, <2>3, <3>1, XhciElsewhere
  <2>9. ~xhost.gone /\ Own => Own'
    <3>1. xhost.registers = FirstValues => xhost'.registers = Halved
      BY <2>1 DEF GivenTo, Halved, FirstValues, HostRegisters, Address, kvtophys
    <3> QED
      BY <1>0, <1>11, <2>1, <2>3, <3>1
      DEF XhciRings, Own, BeforeTaken, RingsGiven, AtXPort, Given3
  <2> QED
    BY <2>1, <2>7, <2>8, <2>9 DEF XhciSafe
<1>12. CASE XhciRun
  <2>1. /\ xhost' \in XhciHosts /\ xhost'.ports = xhost.ports /\ xhost'.gone = xhost.gone
        /\ xhost'.legacy = xhost.legacy /\ xhost'.firmware = xhost.firmware
        /\ xhost'.smi = xhost.smi /\ xhost'.running = TRUE
        /\ xhost'.halted = xhost.halted /\ xhost'.resetting = xhost.resetting
        /\ xhost'.registers = xhost.registers
    BY <1>0, <1>12 DEF XhciRun, XhciHosts
  <2>2. PICK to \in {"runs"} : XGo(to) /\ TRUE
    BY <1>0, <1>12 DEF XhciRun
  <2>3. to \in XhciStates
    BY <2>2 DEF XhciStates
  <2>4. XhciKeeps /\ Given3 /\ xhci'.at = to
    BY <1>0, <2>2, <2>3, XhciGoes
  <2>7. XhciTypeOK'
    <3>1. /\ \/ xhci'.at \in Elsewhere
             \/ xhci'.at = "port" /\ xhci.at \in BeforePorts
          /\ xhci.at \in BeforePorts \/ xhci'.at \notin BeforePorts
      BY <1>12, <2>2, <2>4 DEF XhciRun, Elsewhere, BeforePorts
    <3> QED
      BY <2>1, <2>2, <2>4, <3>1, XhciTypedElsewhere
  <2>8. XPortsOK /\ DevicesOK => XPortsOK' /\ DevicesOK'
    <3>1. \/ xhci'.at \in Elsewhere
          \/ xhci'.at = "port" /\ xhci.at \in BeforePorts
      BY <1>12, <2>2, <2>4 DEF XhciRun, Elsewhere, BeforePorts
    <3> QED
      BY <2>1, <2>2, <2>4, <3>1, XhciElsewhere
  <2>9. ~xhost.gone /\ Own => Own'
    BY <1>0, <1>12, <2>1, <2>2, <2>4 DEF XhciRun, Own, BeforeTaken, RingsGiven, AtXPort, Given3
  <2> QED
    BY <2>1, <2>7, <2>8, <2>9 DEF XhciSafe
<1>13. CASE XhciRuns
  <2> DEFINE there == ~xhost.gone /\ ~xhost.halted
  <2>1. Handshake(there, "port", "slow", "slow") /\ xhost' = xhost
    BY <1>13 DEF XhciRuns
  <2>2. there \in BOOLEAN
    OBVIOUS
  <2>3. {"port", "slow", "slow"} \subseteq XhciStates
    BY DEF XhciStates
  <2> HIDE DEF there
  <2>4. /\ XhciKeeps /\ Given3
        /\ \/ xhci'.at = xhci.at
           \/ xhci'.at = "port" /\ there
           \/ xhci'.at = "slow" /\ ~there
           \/ xhci'.at = "slow" /\ xhost.gone
    BY <1>0, <2>1, <2>2, <2>3, XhciWaits
  <2>5. /\ xhost' \in XhciHosts /\ xhost'.ports = xhost.ports /\ xhost'.gone = xhost.gone
        /\ xhost'.legacy = xhost.legacy /\ xhost'.firmware = xhost.firmware
        /\ xhost'.smi = xhost.smi /\ xhost'.running = xhost.running
        /\ xhost'.halted = xhost.halted /\ xhost'.resetting = xhost.resetting
        /\ xhost'.registers = xhost.registers
    BY <1>0, <2>1
  <2> USE DEF there
  <2>7. XhciTypeOK'
    <3>1. /\ \/ xhci'.at \in Elsewhere
             \/ xhci'.at = "port" /\ xhci.at \in BeforePorts
          /\ xhci.at \in BeforePorts \/ xhci'.at \notin BeforePorts
      BY <1>13, <2>4 DEF XhciRuns, Elsewhere, BeforePorts
    <3> QED
      BY <2>5, <2>4, <3>1, XhciTypedElsewhere
  <2>8. XPortsOK /\ DevicesOK => XPortsOK' /\ DevicesOK'
    <3>1. \/ xhci'.at \in Elsewhere
          \/ xhci'.at = "port" /\ xhci.at \in BeforePorts
      BY <1>13, <2>4 DEF XhciRuns, Elsewhere, BeforePorts
    <3> QED
      BY <2>5, <2>4, <3>1, XhciElsewhere
  <2>9. ~xhost.gone /\ Own => Own'
    BY <1>0, <1>13, <2>4, <2>5 DEF XhciRuns, Own, BeforeTaken, RingsGiven, AtXPort, Given3
  <2> QED
    BY <2>5, <2>7, <2>8, <2>9 DEF XhciSafe
<1>14. CASE XhciSlow
  <2>1. /\ xhost' \in XhciHosts /\ xhost'.ports = xhost.ports /\ xhost'.gone = xhost.gone
        /\ xhost'.legacy = xhost.legacy /\ xhost'.firmware = xhost.firmware
        /\ xhost'.smi = xhost.smi /\ xhost'.running = xhost.running
        /\ xhost'.halted = xhost.halted /\ xhost'.resetting = xhost.resetting
        /\ xhost'.registers = xhost.registers
    BY <1>0, <1>14 DEF XhciSlow, XhciHosts
  <2>2. xhci' = [xhci EXCEPT !.at = "gaveUp", !.slow = TRUE]
    BY <1>14 DEF XhciSlow
  <2>3. /\ XhciKeeps /\ xhci'.at = "gaveUp" /\ xhci'.slow = TRUE
        /\ xhci'.stubborn = xhci.stubborn /\ xhci'.early = xhci.early
    BY <1>0, <2>2 DEF XhciDrivers, XhciKeeps, XhciStates
  <2>7. XhciTypeOK'
    <3>1. /\ \/ xhci'.at \in Elsewhere
             \/ xhci'.at = "port" /\ xhci.at \in BeforePorts
          /\ xhci.at \in BeforePorts \/ xhci'.at \notin BeforePorts
      BY <1>14, <2>3 DEF XhciSlow, Elsewhere, BeforePorts
    <3> QED
      BY <2>1, <2>3, <3>1, XhciTypedElsewhere
  <2>8. XPortsOK /\ DevicesOK => XPortsOK' /\ DevicesOK'
    <3>1. \/ xhci'.at \in Elsewhere
          \/ xhci'.at = "port" /\ xhci.at \in BeforePorts
      BY <1>14, <2>3 DEF XhciSlow, Elsewhere, BeforePorts
    <3> QED
      BY <2>1, <2>3, <3>1, XhciElsewhere
  <2>9. ~xhost.gone /\ Own => Own'
    BY <1>0, <1>14, <2>1, <2>3 DEF XhciSlow, Own, BeforeTaken, RingsGiven, AtXPort, Given3
  <2> QED
    BY <2>1, <2>7, <2>8, <2>9 DEF XhciSafe
<1>15. CASE XhciPort
  <2>1. xhci.at \in AtXPort /\ Port \in XhciPortSet /\ xhci.port \in XPorts
    BY <1>15, XhciTypes DEF XhciPort, AtXPort
  <2>2. XPortsOK => /\ Trained(Port, xhci.port)
                   /\ (xhci.port \in xhci.disabled => Port.link # "enabled")
    BY <2>1 DEF XPortsOK, Port
  <2>a. CASE xhost.gone
    <3>1. "gaveUp" \in XhciStates /\ XGo("gaveUp") /\ xhost' = xhost
      BY <1>15, <2>a DEF XhciPort, XhciStates
    <3>2. XhciKeeps /\ xhci'.at = "gaveUp"
      BY <1>0, <3>1, XhciGoes
    <3>3. XhciTypeOK'
      BY <1>0, <3>1, <3>2, XhciTypedElsewhere DEF Elsewhere, BeforePorts
    <3> QED
      BY <2>a, <3>1, <3>3
  <2>b. CASE ~xhost.gone
    <3> DEFINE new == [Port EXCEPT !.warm = FALSE]
    <3>3. SetPort(new)
      BY <1>15, <2>1, <2>b DEF XhciPort
    <3>4. /\ new \in XhciPortSet
          /\ Trained(Port, xhci.port) => Trained(new, xhci.port)
          /\ new.link = "enabled" => Port.link = "enabled"
      BY <2>1 DEF XhciPortSet, Trained, WrittenBack
    <3> HIDE DEF new
    <3>5. XhciPortIs(xhci.port, new)
      BY <1>0, <2>1, <3>3, <3>4, XhciPortSet1
    <3>6. XhciKeeps /\ Given3 /\ xhci'.at = "power"
      <4>1. "power" \in XhciStates /\ XGo("power")
        BY <1>15, <2>b DEF XhciPort, XhciStates
      <4> QED
        BY <1>0, <4>1, XhciGoes
    <3>7. xhci'.at \in AtXPort /\ xhci'.at # "speed"
      BY <3>6 DEF AtXPort
    <3>8. ASSUME XPortsOK, DevicesOK PROVE XPortsOK' /\ DevicesOK'
      <4>1. /\ xhci' \in XhciDrivers /\ xhci'.port = xhci.port /\ xhci'.late = xhci.late
            /\ xhci'.setup = xhci.setup /\ xhci'.commands = xhci.commands
            /\ xhci'.pending = xhci.pending /\ xhci'.written = xhci.written
            /\ xhci.disabled \subseteq xhci'.disabled
            /\ xhci'.disabled \subseteq xhci.disabled \cup {xhci.port}
        BY <3>6 DEF XhciKeeps
      <4>2. /\ Trained(new, xhci.port)
            /\ xhci.port \in xhci'.disabled => new.link # "enabled"
        BY <2>2, <3>4, <3>6, <3>8 DEF XhciKeeps
      <4> QED
        BY <2>1, <3>4, <3>5, <3>7, <3>8, <4>1, <4>2, XhciStays
    <3>9. Own => Own'
      BY <2>1, <3>5, <3>6, <3>7, XhciOwnAtPort
    <3>10. XhciTypeOK'
      BY <2>1, <3>5, <3>6, <3>7, XhciTypedStays DEF XhciPortIs, XhciKeeps
    <3> QED
      BY <3>5, <3>8, <3>9, <3>10 DEF XhciSafe, XhciPortIs
  <2> QED
    BY <2>a, <2>b
<1>16. CASE XhciPowers
  <2>1. xhci.at \in AtXPort /\ Port \in XhciPortSet /\ xhci.port \in XPorts
    BY <1>16, XhciTypes DEF XhciPowers, AtXPort
  <2>2. XPortsOK => /\ Trained(Port, xhci.port)
                   /\ (xhci.port \in xhci.disabled => Port.link # "enabled")
    BY <2>1 DEF XPortsOK, Port
  <2> DEFINE new == [Port EXCEPT !.power = TRUE, !.link = IF @ = "off" THEN "polling" ELSE @]
  <2>3. SetPort(new)
    BY <1>16, <2>1 DEF XhciPowers
  <2>4. /\ new \in XhciPortSet
        /\ Trained(Port, xhci.port) => Trained(new, xhci.port)
        /\ new.link = "enabled" => Port.link = "enabled"
    BY <2>1 DEF XhciPortSet, Trained, WrittenBack
  <2> HIDE DEF new
  <2>5. XhciPortIs(xhci.port, new)
    BY <1>0, <2>1, <2>3, <2>4, XhciPortSet1
  <2>6. XhciKeeps /\ Given3 /\ xhci'.at = "powered"
    <3>1. "powered" \in XhciStates /\ XGo("powered")
      BY <1>16 DEF XhciPowers, XhciStates
    <3> QED
      BY <1>0, <3>1, XhciGoes
  <2>7. xhci'.at \in AtXPort /\ xhci'.at # "speed"
    BY <2>6 DEF AtXPort
  <2>8. ASSUME XPortsOK, DevicesOK PROVE XPortsOK' /\ DevicesOK'
    <3>1. /\ xhci' \in XhciDrivers /\ xhci'.port = xhci.port /\ xhci'.late = xhci.late
          /\ xhci'.setup = xhci.setup /\ xhci'.commands = xhci.commands
          /\ xhci'.pending = xhci.pending /\ xhci'.written = xhci.written
          /\ xhci.disabled \subseteq xhci'.disabled
          /\ xhci'.disabled \subseteq xhci.disabled \cup {xhci.port}
      BY <2>6 DEF XhciKeeps
    <3>2. /\ Trained(new, xhci.port)
          /\ xhci.port \in xhci'.disabled => new.link # "enabled"
      BY <2>2, <2>4, <2>6, <2>8 DEF XhciKeeps
    <3> QED
      BY <2>1, <2>4, <2>5, <2>7, <2>8, <3>1, <3>2, XhciStays
  <2>9. Own => Own'
    BY <2>1, <2>5, <2>6, <2>7, XhciOwnAtPort
  <2>10. XhciTypeOK'
    BY <2>1, <2>5, <2>6, <2>7, XhciTypedStays DEF XhciPortIs, XhciKeeps
  <2> QED
    BY <2>5, <2>8, <2>9, <2>10 DEF XhciSafe, XhciPortIs
<1>17. CASE XhciPowered
  <2>1. xhci.at \in AtXPort /\ Port \in XhciPortSet /\ xhci.port \in XPorts
    BY <1>17, XhciTypes DEF XhciPowered, AtXPort
  <2>2. XPortsOK => /\ Trained(Port, xhci.port)
                   /\ (xhci.port \in xhci.disabled => Port.link # "enabled")
    BY <2>1 DEF XPortsOK, Port
  <2> DEFINE new == Port
  <2>4. /\ new \in XhciPortSet
        /\ Trained(Port, xhci.port) => Trained(new, xhci.port)
        /\ new.link = "enabled" => Port.link = "enabled"
    BY <2>1
  <2>5. XhciPortIs(xhci.port, new)
    BY <1>0, <1>17, <2>1, XhciPortSame DEF XhciPowered
  <2> HIDE DEF new
  <2> DEFINE there == xhost.gone \/ Port.power
  <2>6. XhciKeeps /\ Given3 /\ xhci'.at \in {xhci.at, "warm"}
    <3>1. Handshake(there, "warm", "warm", "warm") /\ "warm" \in XhciStates /\ there \in BOOLEAN
      BY <1>17 DEF XhciPowered, XhciStates
    <3> HIDE DEF there
    <3> QED
      BY <1>0, <3>1, XhciWaits
  <2>7. xhci'.at \in AtXPort /\ xhci'.at # "speed"
    BY <1>17, <2>6 DEF AtXPort, XhciPowered
  <2>8. ASSUME XPortsOK, DevicesOK PROVE XPortsOK' /\ DevicesOK'
    <3>1. /\ xhci' \in XhciDrivers /\ xhci'.port = xhci.port /\ xhci'.late = xhci.late
          /\ xhci'.setup = xhci.setup /\ xhci'.commands = xhci.commands
          /\ xhci'.pending = xhci.pending /\ xhci'.written = xhci.written
          /\ xhci.disabled \subseteq xhci'.disabled
          /\ xhci'.disabled \subseteq xhci.disabled \cup {xhci.port}
      BY <2>6 DEF XhciKeeps
    <3>2. /\ Trained(new, xhci.port)
          /\ xhci.port \in xhci'.disabled => new.link # "enabled"
      BY <2>2, <2>4, <2>6, <2>8 DEF XhciKeeps
    <3> QED
      BY <2>1, <2>4, <2>5, <2>7, <2>8, <3>1, <3>2, XhciStays
  <2>9. Own => Own'
    BY <2>1, <2>5, <2>6, <2>7, XhciOwnAtPort
  <2>10. XhciTypeOK'
    BY <2>1, <2>5, <2>6, <2>7, XhciTypedStays DEF XhciPortIs, XhciKeeps
  <2> QED
    BY <2>5, <2>8, <2>9, <2>10 DEF XhciSafe, XhciPortIs
<1>18. CASE XhciWarm
  <2>1. xhci.at \in AtXPort /\ Port \in XhciPortSet /\ xhci.port \in XPorts
    BY <1>18, XhciTypes DEF XhciWarm, AtXPort
  <2>2. XPortsOK => /\ Trained(Port, xhci.port)
                   /\ (xhci.port \in xhci.disabled => Port.link # "enabled")
    BY <2>1 DEF XPortsOK, Port
  <2>a. CASE xhost.gone \/ Port.power
    <3> DEFINE new == IF XhciPorts[xhci.port] = "usb3" /\ Port.device # NoDevice /\ ~xhost.gone
                      THEN [Port EXCEPT !.link = "reset"] ELSE Port
    <3>4. /\ new \in XhciPortSet
          /\ Trained(Port, xhci.port) => Trained(new, xhci.port)
          /\ new.link = "enabled" => Port.link = "enabled"
      BY <2>1, <2>a DEF XhciPortSet, Trained
    <3>5. XhciPortIs(xhci.port, new)
      <4>1. CASE new = Port /\ xhost' = xhost
        BY <1>0, <2>1, <4>1, XhciPortSame
      <4>2. CASE SetPort(new)
        <5> HIDE DEF new
        <5> QED
          BY <1>0, <2>1, <3>4, <4>2, XhciPortSet1
      <4>3. \/ new = Port /\ xhost' = xhost
            \/ SetPort(new)
        BY <1>18, <2>a DEF XhciWarm
      <4> QED
        BY <4>1, <4>2, <4>3
    <3> HIDE DEF new
    <3>6. XhciKeeps /\ Given3 /\ xhci'.at = "done"
      <4>1. "done" \in XhciStates /\ XGo("done")
        BY <1>18, <2>a DEF XhciWarm, XhciStates
      <4> QED
        BY <1>0, <4>1, XhciGoes
    <3>7. xhci'.at \in AtXPort /\ xhci'.at # "speed"
      BY <3>6 DEF AtXPort
    <3>8. ASSUME XPortsOK, DevicesOK PROVE XPortsOK' /\ DevicesOK'
      <4>1. /\ xhci' \in XhciDrivers /\ xhci'.port = xhci.port /\ xhci'.late = xhci.late
            /\ xhci'.setup = xhci.setup /\ xhci'.commands = xhci.commands
            /\ xhci'.pending = xhci.pending /\ xhci'.written = xhci.written
            /\ xhci.disabled \subseteq xhci'.disabled
            /\ xhci'.disabled \subseteq xhci.disabled \cup {xhci.port}
        BY <3>6 DEF XhciKeeps
      <4>2. /\ Trained(new, xhci.port)
            /\ xhci.port \in xhci'.disabled => new.link # "enabled"
        BY <2>2, <3>4, <3>6, <3>8 DEF XhciKeeps
      <4> QED
        BY <2>1, <3>4, <3>5, <3>7, <3>8, <4>1, <4>2, XhciStays
    <3>9. Own => Own'
      BY <2>1, <3>5, <3>6, <3>7, XhciOwnAtPort
    <3>10. XhciTypeOK'
      BY <2>1, <3>5, <3>6, <3>7, XhciTypedStays DEF XhciPortIs, XhciKeeps
    <3> QED
      BY <3>5, <3>8, <3>9, <3>10 DEF XhciSafe, XhciPortIs
  <2>b. CASE ~(xhost.gone \/ Port.power)
    <3> DEFINE new == [WrittenBack(Port, FALSE)
                        EXCEPT !.power = TRUE, !.link = IF @ = "off" THEN "polling" ELSE @]
    <3>3. SetPort(new) /\ xhci' = Past
      BY <1>18, <2>b DEF XhciWarm
    <3>4. /\ new \in XhciPortSet
          /\ Trained(Port, xhci.port) => Trained(new, xhci.port)
          /\ new.link = "enabled" => Port.link = "enabled"
      BY <2>1 DEF XhciPortSet, Trained, WrittenBack
    <3> HIDE DEF new
    <3>5. XhciPortIs(xhci.port, new)
      BY <1>0, <2>1, <3>3, <3>4, XhciPortSet1
    <3>6. XPortsOK => new.link # "enabled"
      BY <2>2, <2>b, <3>4 DEF Trained
    <3>7. /\ xhci' \in XhciDrivers /\ Given3 /\ xhci'.port = xhci.port + 1
          /\ xhci'.disabled = xhci.disabled /\ xhci'.late = xhci.late /\ xhci'.setup = xhci.setup
          /\ xhci'.commands = xhci.commands /\ xhci'.pending = xhci.pending
          /\ xhci'.written = xhci.written
          /\ xhci'.at = "up" => xhci.port = Len(XhciPorts)
      BY <2>1, <3>3, XhciPast DEF Given3
    <3>8. XhciTypeOK' /\ xhci'.at \in {"up", "port"} /\ xhci'.at \in AtXPort \cup {"up"}
      BY <2>1, <3>3, <3>5, <3>7, XhciTypedPast DEF XhciPortIs
    <3>9. Own => Own'
      BY <2>1, <3>5, <3>7, <3>8, XhciOwnAtPort
    <3>10. XPortsOK => XPortsOK'
      BY <2>1, <2>2, <3>4, <3>5, <3>6, <3>7, <3>8, XhciPasses
    <3>11. ASSUME DevicesOK PROVE DevicesOK'
      <4>1. ASSUME NEW x \in xhci'.setup PROVE SetUp(x)'
        <5>1. SetUp(x) /\ x.port \in XPorts
          BY <1>0, <3>7, <3>11, <4>1 DEF DevicesOK, XhciDrivers, Setups
        <5> QED
          BY <2>1, <3>7, <5>1, XhciFacts DEF SetUp
      <4>2. xhci'.at # "speed"
        BY <3>8
      <4> QED
        BY <3>7, <3>11, <4>1, <4>2 DEF DevicesOK
    <3> QED
      BY <3>5, <3>8, <3>9, <3>10, <3>11 DEF XhciSafe, XhciPortIs
  <2> QED
    BY <2>a, <2>b
<1>19. CASE XhciDone
  <2>1. xhci.at \in AtXPort /\ Port \in XhciPortSet /\ xhci.port \in XPorts
    BY <1>19, XhciTypes DEF XhciDone, AtXPort
  <2>2. XPortsOK => /\ Trained(Port, xhci.port)
                   /\ (xhci.port \in xhci.disabled => Port.link # "enabled")
    BY <2>1 DEF XPortsOK, Port
  <2> DEFINE new == Port
  <2>4. /\ new \in XhciPortSet
        /\ Trained(Port, xhci.port) => Trained(new, xhci.port)
        /\ new.link = "enabled" => Port.link = "enabled"
    BY <2>1
  <2>5. XhciPortIs(xhci.port, new)
    BY <1>0, <1>19, <2>1, XhciPortSame DEF XhciDone
  <2> HIDE DEF new
  <2>6. XhciKeeps /\ Given3 /\ xhci'.at \in {"done", "links"}
    <3>1. CASE xhost.gone \/ Port.reset \/ xhci.polls + 1 = UsbPolls
      <4>1. xhci' = [xhci EXCEPT !.at = "links", !.polls = 0]
        BY <1>19, <3>1 DEF XhciDone
      <4> QED
        BY <1>0, <4>1 DEF XhciDrivers, XhciStates, XhciKeeps, Given3
    <3>2. CASE ~(xhost.gone \/ Port.reset \/ xhci.polls + 1 = UsbPolls)
      <4>1. xhci' = [xhci EXCEPT !.polls = @ + 1] /\ xhci.at = "done"
        BY <1>19, <3>2 DEF XhciDone
      <4>2. xhci.polls + 1 \in Nat
        BY <1>0 DEF XhciDrivers
      <4> QED
        BY <1>0, <4>1, <4>2 DEF XhciDrivers, XhciKeeps, Given3
    <3> QED
      BY <3>1, <3>2
  <2>7. xhci'.at \in AtXPort /\ xhci'.at # "speed"
    BY <2>6 DEF AtXPort
  <2>8. ASSUME XPortsOK, DevicesOK PROVE XPortsOK' /\ DevicesOK'
    <3>1. /\ xhci' \in XhciDrivers /\ xhci'.port = xhci.port /\ xhci'.late = xhci.late
          /\ xhci'.setup = xhci.setup /\ xhci'.commands = xhci.commands
          /\ xhci'.pending = xhci.pending /\ xhci'.written = xhci.written
          /\ xhci.disabled \subseteq xhci'.disabled
          /\ xhci'.disabled \subseteq xhci.disabled \cup {xhci.port}
      BY <2>6 DEF XhciKeeps
    <3>2. /\ Trained(new, xhci.port)
          /\ xhci.port \in xhci'.disabled => new.link # "enabled"
      BY <2>2, <2>4, <2>6, <2>8 DEF XhciKeeps
    <3> QED
      BY <2>1, <2>4, <2>5, <2>7, <2>8, <3>1, <3>2, XhciStays
  <2>9. Own => Own'
    BY <2>1, <2>5, <2>6, <2>7, XhciOwnAtPort
  <2>10. XhciTypeOK'
    BY <2>1, <2>5, <2>6, <2>7, XhciTypedStays DEF XhciPortIs, XhciKeeps
  <2> QED
    BY <2>5, <2>8, <2>9, <2>10 DEF XhciSafe, XhciPortIs
<1>20. CASE XhciLinks
  <2>1. xhci.at \in AtXPort /\ Port \in XhciPortSet /\ xhci.port \in XPorts
    BY <1>20, XhciTypes DEF XhciLinks, AtXPort
  <2>2. XPortsOK => /\ Trained(Port, xhci.port)
                   /\ (xhci.port \in xhci.disabled => Port.link # "enabled")
    BY <2>1 DEF XPortsOK, Port
  <2> DEFINE new == Port
  <2>4. /\ new \in XhciPortSet
        /\ Trained(Port, xhci.port) => Trained(new, xhci.port)
        /\ new.link = "enabled" => Port.link = "enabled"
    BY <2>1
  <2>5. XhciPortIs(xhci.port, new)
    BY <1>0, <1>20, <2>1, XhciPortSame DEF XhciLinks
  <2> HIDE DEF new
  <2>6. XhciKeeps /\ Given3 /\ xhci'.at = "writes"
    <3> DEFINE seen == Enabled
    <3>1. xhci' = [xhci EXCEPT !.at = "writes", !.read = seen] /\ seen \in BOOLEAN
      BY <1>0, <1>20 DEF XhciLinks, Enabled
    <3> HIDE DEF seen
    <3> QED
      BY <1>0, <3>1 DEF XhciDrivers, XhciStates, XhciKeeps, Given3
  <2>7. xhci'.at \in AtXPort /\ xhci'.at # "speed"
    BY <2>6 DEF AtXPort
  <2>8. ASSUME XPortsOK, DevicesOK PROVE XPortsOK' /\ DevicesOK'
    <3>1. /\ xhci' \in XhciDrivers /\ xhci'.port = xhci.port /\ xhci'.late = xhci.late
          /\ xhci'.setup = xhci.setup /\ xhci'.commands = xhci.commands
          /\ xhci'.pending = xhci.pending /\ xhci'.written = xhci.written
          /\ xhci.disabled \subseteq xhci'.disabled
          /\ xhci'.disabled \subseteq xhci.disabled \cup {xhci.port}
      BY <2>6 DEF XhciKeeps
    <3>2. /\ Trained(new, xhci.port)
          /\ xhci.port \in xhci'.disabled => new.link # "enabled"
      BY <2>2, <2>4, <2>6, <2>8 DEF XhciKeeps
    <3> QED
      BY <2>1, <2>4, <2>5, <2>7, <2>8, <3>1, <3>2, XhciStays
  <2>9. Own => Own'
    BY <2>1, <2>5, <2>6, <2>7, XhciOwnAtPort
  <2>10. XhciTypeOK'
    BY <2>1, <2>5, <2>6, <2>7, XhciTypedStays DEF XhciPortIs, XhciKeeps
  <2> QED
    BY <2>5, <2>8, <2>9, <2>10 DEF XhciSafe, XhciPortIs
<1>21. CASE XhciWrites
  <2>1. xhci.at \in AtXPort /\ Port \in XhciPortSet /\ xhci.port \in XPorts
    BY <1>21, XhciTypes DEF XhciWrites, AtXPort
  <2>2. XPortsOK => /\ Trained(Port, xhci.port)
                   /\ (xhci.port \in xhci.disabled => Port.link # "enabled")
    BY <2>1 DEF XPortsOK, Port
  <2> DEFINE new == WrittenBack(Port, xhci.read)
  <2>3. SetPort(new)
    BY <1>21, <2>1 DEF XhciWrites
  <2>4. /\ new \in XhciPortSet
        /\ Trained(Port, xhci.port) => Trained(new, xhci.port)
        /\ new.link = "enabled" => Port.link = "enabled"
    BY <2>1 DEF XhciPortSet, Trained, WrittenBack
  <2> HIDE DEF new
  <2>5. XhciPortIs(xhci.port, new)
    BY <1>0, <2>1, <2>3, <2>4, XhciPortSet1
  <2> DEFINE disabled == IF xhci.read /\ Port.link = "enabled"
                         THEN xhci.disabled \cup {xhci.port} ELSE xhci.disabled
  <2>A. /\ disabled \in SUBSET XPorts /\ xhci.disabled \subseteq disabled
        /\ disabled \subseteq xhci.disabled \cup {xhci.port}
    BY <1>0, <2>1 DEF XhciDrivers
  <2>B. XPortsOK /\ xhci.port \in disabled => new.link # "enabled"
    <3>1. CASE xhci.read /\ Port.link = "enabled"
      BY <2>1, <3>1 DEF new, WrittenBack, XhciPortSet
    <3>2. CASE ~(xhci.read /\ Port.link = "enabled")
      BY <2>2, <2>4, <3>2
    <3> QED
      BY <3>1, <3>2
  <2>C. xhci' = [xhci EXCEPT !.at = "check", !.read = FALSE, !.disabled = disabled]
    BY <1>21 DEF XhciWrites
  <2> HIDE DEF disabled
  <2>6. /\ xhci' \in XhciDrivers /\ Given3 /\ xhci'.at = "check" /\ xhci'.disabled = disabled
        /\ xhci'.port = xhci.port /\ xhci'.late = xhci.late /\ xhci'.setup = xhci.setup
        /\ xhci'.commands = xhci.commands /\ xhci'.pending = xhci.pending
        /\ xhci'.written = xhci.written
    BY <1>0, <2>A, <2>C DEF XhciDrivers, XhciStates, Given3
  <2>7. xhci'.at \in AtXPort /\ xhci'.at # "speed"
    BY <2>6 DEF AtXPort
  <2>8. ASSUME XPortsOK, DevicesOK PROVE XPortsOK' /\ DevicesOK'
    <3>1. /\ xhci' \in XhciDrivers /\ xhci'.port = xhci.port /\ xhci'.late = xhci.late
          /\ xhci'.setup = xhci.setup /\ xhci'.commands = xhci.commands
          /\ xhci'.pending = xhci.pending /\ xhci'.written = xhci.written
          /\ xhci.disabled \subseteq xhci'.disabled
          /\ xhci'.disabled \subseteq xhci.disabled \cup {xhci.port}
      BY <2>6, <2>A DEF XhciKeeps
    <3>2. /\ Trained(new, xhci.port)
          /\ xhci.port \in xhci'.disabled => new.link # "enabled"
      BY <2>2, <2>4, <2>6, <2>8, <2>B DEF XhciKeeps
    <3> QED
      BY <2>1, <2>4, <2>5, <2>7, <2>8, <3>1, <3>2, XhciStays
  <2>9. Own => Own'
    BY <2>1, <2>5, <2>6, <2>7, XhciOwnAtPort
  <2>10. XhciTypeOK'
    BY <2>1, <2>5, <2>6, <2>7, XhciTypedStays DEF XhciPortIs
  <2> QED
    BY <2>5, <2>8, <2>9, <2>10 DEF XhciSafe, XhciPortIs
<1>22. CASE XhciCheck
  <2>1. xhci.at \in AtXPort /\ Port \in XhciPortSet /\ xhci.port \in XPorts
    BY <1>22, XhciTypes DEF XhciCheck, AtXPort
  <2>2. XPortsOK => /\ Trained(Port, xhci.port)
                   /\ (xhci.port \in xhci.disabled => Port.link # "enabled")
    BY <2>1 DEF XPortsOK, Port
  <2> DEFINE new == Port
  <2>3. /\ new \in XhciPortSet
        /\ Trained(Port, xhci.port) => Trained(new, xhci.port)
        /\ new.link = "enabled" => Port.link = "enabled"
    BY <2>1
  <2>5. XhciPortIs(xhci.port, new)
    BY <1>0, <1>22, <2>1, XhciPortSame DEF XhciCheck
  <2>a. CASE Enabled
    <3>4. new \in XhciPortSet /\ (Trained(Port, xhci.port) => Trained(new, xhci.port))
      BY <2>3
    <3>5. XhciPortIs(xhci.port, new)
      BY <2>5
    <3>6. XhciKeeps /\ Given3 /\ xhci'.at = "speed"
      <4>1. xhci' = [xhci EXCEPT !.at = "speed"]
        BY <1>22, <2>a DEF XhciCheck
      <4> QED
        BY <1>0, <4>1 DEF XhciDrivers, XhciStates, XhciKeeps, Given3
    <3>7. xhci'.at \in AtXPort
      BY <3>6 DEF AtXPort
    <3>8. ASSUME ~xhost.gone, XPortsOK, DevicesOK PROVE XPortsOK' /\ DevicesOK'
      <4>1. Port.link = "enabled"
        BY <2>a, <3>8 DEF Enabled
      <4>2. XhciPorts[xhci.port] = "usb3" /\ xhci.port \notin xhci.disabled
        BY <2>2, <3>8, <4>1 DEF Trained
      <4>3. /\ xhci' \in XhciDrivers /\ xhci'.port = xhci.port /\ xhci'.late = xhci.late
            /\ xhci'.setup = xhci.setup /\ xhci'.commands = xhci.commands
            /\ xhci'.pending = xhci.pending /\ xhci'.written = xhci.written
            /\ xhci.disabled \subseteq xhci'.disabled
            /\ xhci'.disabled \subseteq xhci.disabled \cup {xhci.port}
            /\ xhci'.disabled = xhci.disabled
        BY <3>6 DEF XhciKeeps
      <4>4. Trained(new, xhci.port)
        BY <2>2, <3>4, <3>8
      <4> HIDE DEF new
      <4> QED
        BY <2>1, <3>4, <3>5, <3>7, <3>8, <4>2, <4>3, <4>4, XhciStays
    <3> HIDE DEF new
    <3>9. Own => Own'
      BY <2>1, <3>5, <3>6, <3>7, XhciOwnAtPort
    <3>10. XhciTypeOK'
      BY <2>1, <3>5, <3>6, <3>7, XhciTypedStays DEF XhciPortIs, XhciKeeps
    <3> QED
      BY <3>5, <3>8, <3>9, <3>10 DEF XhciSafe, XhciPortIs
  <2>b. CASE ~Enabled
    <3>3. xhci' = Past
      BY <1>22, <2>b DEF XhciCheck
    <3>4. /\ new \in XhciPortSet
          /\ Trained(Port, xhci.port) => Trained(new, xhci.port)
      BY <2>3
    <3>5. XhciPortIs(xhci.port, new)
      BY <2>5
    <3>6. XPortsOK => new.link # "enabled"
      BY <2>b DEF Enabled
    <3> HIDE DEF new
    <3>7. /\ xhci' \in XhciDrivers /\ Given3 /\ xhci'.port = xhci.port + 1
          /\ xhci'.disabled = xhci.disabled /\ xhci'.late = xhci.late /\ xhci'.setup = xhci.setup
          /\ xhci'.commands = xhci.commands /\ xhci'.pending = xhci.pending
          /\ xhci'.written = xhci.written
          /\ xhci'.at = "up" => xhci.port = Len(XhciPorts)
      BY <2>1, <3>3, XhciPast DEF Given3
    <3>8. XhciTypeOK' /\ xhci'.at \in {"up", "port"} /\ xhci'.at \in AtXPort \cup {"up"}
      BY <2>1, <3>3, <3>5, <3>7, XhciTypedPast DEF XhciPortIs
    <3>9. Own => Own'
      BY <2>1, <3>5, <3>7, <3>8, XhciOwnAtPort
    <3>10. XPortsOK => XPortsOK'
      BY <2>1, <2>2, <3>4, <3>5, <3>6, <3>7, <3>8, XhciPasses
    <3>11. ASSUME DevicesOK PROVE DevicesOK'
      <4>1. ASSUME NEW x \in xhci'.setup PROVE SetUp(x)'
        <5>1. SetUp(x) /\ x.port \in XPorts
          BY <1>0, <3>7, <3>11, <4>1 DEF DevicesOK, XhciDrivers, Setups
        <5> QED
          BY <2>1, <3>7, <5>1, XhciFacts DEF SetUp
      <4>2. xhci'.at # "speed"
        BY <3>8
      <4> QED
        BY <3>7, <3>11, <4>1, <4>2 DEF DevicesOK
    <3> QED
      BY <3>5, <3>8, <3>9, <3>10, <3>11 DEF XhciSafe, XhciPortIs
  <2> QED
    BY <2>a, <2>b
<1>23. CASE XhciSpeed
  <2>1. xhci.at \in AtXPort /\ Port \in XhciPortSet /\ xhci.port \in XPorts
    BY <1>23, XhciTypes DEF XhciSpeed, AtXPort
  <2>2. XPortsOK => /\ Trained(Port, xhci.port)
                   /\ (xhci.port \in xhci.disabled => Port.link # "enabled")
    BY <2>1 DEF XPortsOK, Port
  <2> DEFINE speed == IF xhost.gone THEN 15 ELSE Port.device
             device == SetupDevice(CreateDevice(xhci.port, speed), xhci.port)
             enqueued == AddressDeviceCommand(Described(Past, 0), 0)
  <2>3. xhci' = SetupUSBDevice(RingDoorbellForHostAndWait(enqueued), speed) /\ xhost' = xhost
    BY <1>23 DEF XhciSpeed
  <2>4. speed \in 0 .. 15
    BY <2>1 DEF XhciPortSet
  <2> HIDE DEF speed
  <2>5. /\ device \in Setups /\ device.port = xhci.port
        /\ device.speed = 4 => device.told = device.kept
    BY <2>1, <2>4
    DEF SetupDevice, CreateDevice, GetDeviceDescriptor, TransferSuccess, MaxPacketSize, MPS, Setups
  <2>6. /\ Past \in XhciDrivers /\ Past.port = xhci.port + 1 /\ Past.pending = xhci.pending
        /\ Past.disabled = xhci.disabled /\ Past.late = xhci.late /\ Past.setup = xhci.setup
        /\ Past.commands = xhci.commands /\ Past.stubborn = xhci.stubborn
        /\ Past.early = xhci.early /\ Past.slow = xhci.slow /\ Past.written = xhci.written
        /\ Past.at = "up" => xhci.port = Len(XhciPorts)
    BY <2>1, XhciPast
  <2> DEFINE command == [is |-> "address", slot |-> 0, context |-> "lastOutput"]
             described == [Past EXCEPT !.written = xhci.written \cup {"lastOutput"}]
  <2>15. /\ described \in XhciDrivers /\ described = Described(Past, 0)
         /\ described.at = Past.at /\ described.port = Past.port
         /\ described.pending = xhci.pending
         /\ described.disabled = xhci.disabled /\ described.late = xhci.late
         /\ described.setup = xhci.setup /\ described.commands = xhci.commands
         /\ described.stubborn = xhci.stubborn /\ described.early = xhci.early
         /\ described.slow = xhci.slow
         /\ described.written = xhci.written \cup {"lastOutput"}
    <3>1. xhci.written \cup {"lastOutput"} \in SUBSET {"lastOutput"}
      BY <1>0 DEF XhciDrivers
    <3>2. described = Described(Past, 0)
      BY <2>6 DEF Described, InputContext
    <3> QED
      BY <2>6, <3>1, <3>2 DEF XhciDrivers
  <2>7. xhci' = [described EXCEPT !.commands = Append(@, command), !.pending = 0,
                                  !.setup = @ \cup {device}]
    <3>1. enqueued = [described EXCEPT !.commands = Append(@, command), !.pending = @ + 1]
      BY <2>15 DEF AddressDeviceCommand, EnqueueCommand, InputContext
    <3>2. enqueued.pending > 0
      <4>1. described.pending \in Nat /\ described.pending + 1 > 0
        BY <2>15 DEF XhciDrivers
      <4> HIDE DEF enqueued, command, described
      <4>2. enqueued.pending = described.pending + 1
        BY <2>15, <3>1 DEF XhciDrivers
      <4> QED
        BY <4>1, <4>2
    <3>3. xhci' = [[enqueued EXCEPT !.pending = 0] EXCEPT !.setup = @ \cup {device}]
      BY <2>3, <3>2 DEF SetupUSBDevice, RingDoorbellForHostAndWait
    <3> HIDE DEF device, command, enqueued, described
    <3> QED
      BY <2>15, <3>1, <3>3 DEF XhciDrivers
  <2>8. Append(xhci.commands, command)
          \in Seq([is : {"address"}, slot : {0}, context : {"lastOutput"}])
        /\ Len(Append(xhci.commands, command)) = Len(xhci.commands) + 1
    BY <1>0 DEF XhciDrivers
  <2> HIDE DEF device, command, described
  <2>9. /\ xhci' \in XhciDrivers /\ Given3 /\ xhci'.port = xhci.port + 1 /\ xhci'.at = Past.at
        /\ xhci'.disabled = xhci.disabled /\ xhci'.late = xhci.late
        /\ xhci'.setup = xhci.setup \cup {device} /\ xhci'.pending = 0
        /\ Len(xhci'.commands) = Len(xhci.commands) + 1
        /\ xhci'.written = xhci.written \cup {"lastOutput"}
    BY <1>0, <2>5, <2>6, <2>7, <2>8, <2>15 DEF XhciDrivers, Given3
  <2>10. XhciTypeOK' /\ xhci'.at \in {"up", "port"} /\ xhci'.at \in AtXPort \cup {"up"}
    BY <1>0, <2>1, <2>3, <2>6, <2>9, XhciTypedPast
  <2>11. XhciPortIs(xhci.port, Port)
    BY <1>0, <2>1, <2>3, XhciPortSame
  <2>12. Own => Own'
    BY <2>1, <2>9, <2>10, <2>11, XhciOwnAtPort
  <2>13. ASSUME XPortsOK PROVE XPortsOK'
    <3>1. device \in xhci'.setup /\ xhci.setup \subseteq xhci'.setup
      BY <2>9
    <3>2. Port.link = "enabled" => \E x \in xhci'.setup : x.port = xhci.port
      BY <2>5, <3>1
    <3> DEFINE new == Port
    <3>3. /\ new \in XhciPortSet /\ XhciPortIs(xhci.port, new) /\ Trained(new, xhci.port)
          /\ new.link = "enabled" => \E x \in xhci'.setup : x.port = xhci.port
          /\ xhci.port \in xhci.disabled => new.link # "enabled"
      BY <2>1, <2>2, <2>11, <2>13, <3>2
    <3> HIDE DEF new
    <3> QED
      BY <2>1, <2>9, <2>10, <2>13, <3>1, <3>3, XhciPasses
  <2>14. ASSUME DevicesOK PROVE DevicesOK'
    <3>1. \A x \in xhci.setup : SetUp(x)
      BY <2>14 DEF DevicesOK
    <3>2. device \notin xhci.setup
      BY <2>1, <2>5, <3>1, XhciFacts DEF SetUp
    <3>3. /\ IsFiniteSet(xhci'.setup)
          /\ Cardinality(xhci'.setup) = Cardinality(xhci.setup) + 1
      <4>1. IsFiniteSet(xhci.setup)
        BY <2>14 DEF DevicesOK
      <4>2. xhci'.setup = xhci.setup \cup {device}
        BY <2>9
      <4> QED
        BY <3>2, <4>1, <4>2, FS_AddElement
    <3>4. ASSUME NEW x \in xhci'.setup PROVE SetUp(x)'
      <4>1. CASE x = device
        <5>1. XhciPorts[xhci.port] = "usb3" /\ xhci.port \notin xhci.disabled
          BY <1>23, <2>14 DEF DevicesOK, XhciSpeed
        <5> QED
          BY <2>1, <2>5, <2>9, <4>1, <5>1, XhciFacts DEF SetUp
      <4>2. CASE x \in xhci.setup
        <5>1. SetUp(x) /\ x.port \in XPorts
          BY <1>0, <3>1, <4>2 DEF XhciDrivers, Setups
        <5> QED
          BY <2>1, <2>9, <5>1, XhciFacts DEF SetUp
      <4> QED
        BY <2>9, <3>4, <4>1, <4>2
    <3>5. xhci'.at # "speed" /\ (xhci'.at = "up" => xhci'.port = Len(XhciPorts) + 1)
      BY <2>6, <2>9, <2>10
    <3>6. xhci'.written = {"lastOutput"} /\ xhci'.setup # {}
      BY <1>0, <2>9 DEF XhciDrivers
    <3> QED
      BY <2>9, <2>14, <3>3, <3>4, <3>5, <3>6 DEF DevicesOK
  <2> QED
    BY <2>3, <2>10, <2>12, <2>13, <2>14 DEF XhciSafe
<1>24. CASE XhciStop
  <2>1. /\ xhost' \in XhciHosts /\ xhost'.ports = xhost.ports /\ xhost'.gone = xhost.gone
        /\ xhost'.legacy = xhost.legacy /\ xhost'.firmware = xhost.firmware
        /\ xhost'.smi = xhost.smi /\ xhost'.running = (xhost.running /\ (xhost.gone \/ xhost.halted))
        /\ xhost'.halted = xhost.halted /\ xhost'.resetting = xhost.resetting
        /\ xhost'.registers = xhost.registers
    BY <1>0, <1>24 DEF XhciStop, XhciHosts
  <2>2. PICK to \in {"stops"} : XGo(to) /\ TRUE
    BY <1>0, <1>24 DEF XhciStop
  <2>3. to \in XhciStates
    BY <2>2 DEF XhciStates
  <2>4. XhciKeeps /\ Given3 /\ xhci'.at = to
    BY <1>0, <2>2, <2>3, XhciGoes
  <2>7. XhciTypeOK'
    <3>1. /\ \/ xhci'.at \in Elsewhere
             \/ xhci'.at = "port" /\ xhci.at \in BeforePorts
          /\ xhci.at \in BeforePorts \/ xhci'.at \notin BeforePorts
      BY <1>24, <2>2, <2>4 DEF XhciStop, Elsewhere, BeforePorts
    <3> QED
      BY <2>1, <2>2, <2>4, <3>1, XhciTypedElsewhere
  <2>8. XPortsOK /\ DevicesOK => XPortsOK' /\ DevicesOK'
    <3>1. \/ xhci'.at \in Elsewhere
          \/ xhci'.at = "port" /\ xhci.at \in BeforePorts
      BY <1>24, <2>2, <2>4 DEF XhciStop, Elsewhere, BeforePorts
    <3> QED
      BY <2>1, <2>2, <2>4, <3>1, XhciElsewhere
  <2>9. ~xhost.gone /\ Own => Own'
    BY <1>0, <1>24, <2>1, <2>2, <2>4 DEF XhciStop, Own, BeforeTaken, RingsGiven, AtXPort, Given3
  <2> QED
    BY <2>1, <2>7, <2>8, <2>9 DEF XhciSafe
<1>25. CASE XhciStops
  <2> DEFINE there == xhost.gone \/ xhost.halted
  <2>1. Handshake(there, "stopped", "stopped", "stopped") /\ xhost' = xhost
    BY <1>25 DEF XhciStops
  <2>2. there \in BOOLEAN
    OBVIOUS
  <2>3. {"stopped", "stopped", "stopped"} \subseteq XhciStates
    BY DEF XhciStates
  <2> HIDE DEF there
  <2>4. /\ XhciKeeps /\ Given3
        /\ \/ xhci'.at = xhci.at
           \/ xhci'.at = "stopped" /\ there
           \/ xhci'.at = "stopped" /\ ~there
           \/ xhci'.at = "stopped" /\ xhost.gone
    BY <1>0, <2>1, <2>2, <2>3, XhciWaits
  <2>5. /\ xhost' \in XhciHosts /\ xhost'.ports = xhost.ports /\ xhost'.gone = xhost.gone
        /\ xhost'.legacy = xhost.legacy /\ xhost'.firmware = xhost.firmware
        /\ xhost'.smi = xhost.smi /\ xhost'.running = xhost.running
        /\ xhost'.halted = xhost.halted /\ xhost'.resetting = xhost.resetting
        /\ xhost'.registers = xhost.registers
    BY <1>0, <2>1
  <2> USE DEF there
  <2>7. XhciTypeOK'
    <3>1. /\ \/ xhci'.at \in Elsewhere
             \/ xhci'.at = "port" /\ xhci.at \in BeforePorts
          /\ xhci.at \in BeforePorts \/ xhci'.at \notin BeforePorts
      BY <1>25, <2>4 DEF XhciStops, Elsewhere, BeforePorts
    <3> QED
      BY <2>5, <2>4, <3>1, XhciTypedElsewhere
  <2>8. XPortsOK /\ DevicesOK => XPortsOK' /\ DevicesOK'
    <3>1. \/ xhci'.at \in Elsewhere
          \/ xhci'.at = "port" /\ xhci.at \in BeforePorts
      BY <1>25, <2>4 DEF XhciStops, Elsewhere, BeforePorts
    <3> QED
      BY <2>5, <2>4, <3>1, XhciElsewhere
  <2>9. ~xhost.gone /\ Own => Own'
    BY <1>0, <1>25, <2>4, <2>5 DEF XhciStops, Own, BeforeTaken, RingsGiven, AtXPort, Given3
  <2> QED
    BY <2>5, <2>7, <2>8, <2>9 DEF XhciSafe
<1> QED
  BY <1>1, <1>2, <1>3, <1>4, <1>5, <1>6, <1>7, <1>8, <1>9, <1>10, <1>11, <1>12, <1>13, <1>14, <1>15, <1>16, <1>17, <1>18, <1>19, <1>20, <1>21, <1>22, <1>23, <1>24, <1>25 DEF XhciDriver

(* The firmware leaves something behind, and the controller is found.       *)
LEMMA XhciPowers1 ==
  ASSUME XhciIInv, XhciPower PROVE XhciIInv'
<1>0. /\ xhci \in XhciDrivers /\ xhost \in XhciHosts /\ xhci.at = "off" /\ XhciTypeOK
      /\ xhci.port = 1
  BY DEF XhciIInv, XhciTypeOK, XhciPower, BeforePorts
<1>1. PICK l \in BOOLEAN, r \in BOOLEAN, ds \in [XPorts -> 0 .. 5] :
        xhost' = [xhost EXCEPT !.legacy = l, !.firmware = l, !.smi = l, !.running = l /\ r,
                   !.halted = ~(l /\ r),
                   !.registers = IF l /\ r THEN Firmwares ELSE FirstValues,
                   !.ports = [p \in XPorts |-> FreshPort(ds[p])]]
  BY DEF XhciPower
<1> DEFINE ports == [p \in XPorts |-> FreshPort(ds[p])]
           run == l /\ r
           stand == ~(l /\ r)
           old == IF l /\ r THEN Firmwares ELSE FirstValues
<1>2. ASSUME NEW p \in XPorts
      PROVE  ports[p] \in XhciPortSet /\ Trained(ports[p], p) /\ ports[p].link # "enabled"
  BY DEF FreshPort, XhciPortSet, Trained
<1>3. ports \in [XPorts -> XhciPortSet]
  BY <1>2
<1>4. /\ run \in BOOLEAN /\ stand \in BOOLEAN /\ stand = ~run /\ old \in HostsRegisters
      /\ xhost' = [xhost EXCEPT !.legacy = l, !.firmware = l, !.smi = l, !.running = run,
                     !.halted = stand, !.registers = old, !.ports = ports]
  BY <1>1, XhciValues
<1> HIDE DEF ports, run, stand, old
<1>5. /\ xhost' \in XhciHosts /\ xhost'.ports = ports /\ xhost'.gone = xhost.gone
      /\ xhost'.running = run /\ xhost'.halted = stand
      /\ xhost'.legacy = l /\ xhost'.firmware = l /\ xhost'.smi = l
  BY <1>0, <1>3, <1>4 DEF XhciHosts
<1>6. "found" \in XhciStates /\ XGo("found")
  BY DEF XhciPower, XhciStates
<1>7. XhciKeeps /\ Given3 /\ xhci'.at = "found"
  BY <1>0, <1>6, XhciGoes
<1>8. XhciTypeOK'
  BY <1>0, <1>5, <1>7, XhciTypedElsewhere DEF Elsewhere, BeforePorts
<1>9. Own'
  BY <1>4, <1>5, <1>7 DEF Own, BeforeTaken, RingsGiven, AtXPort
<1>10. XPortsOK'
  <2>1. \A p \in XPorts : Trained(xhost.ports[p], p)'
    BY <1>2, <1>5 DEF Trained
  <2>2. \A p \in xhci'.disabled : xhost'.ports[p].link # "enabled"
    BY <1>2, <1>5, <1>7 DEF XhciKeeps, XhciDrivers
  <2>3. xhci'.at \notin AtXPort \cup {"up"}
    BY <1>7 DEF AtXPort
  <2> QED
    BY <2>1, <2>2, <2>3 DEF XPortsOK
<1>11. ASSUME DevicesOK PROVE DevicesOK'
  <2>1. \A x \in xhci'.setup : SetUp(x)'
    BY <1>7, <1>11 DEF DevicesOK, XhciKeeps, SetUp
  <2> QED
    BY <1>7, <1>11, <2>1 DEF DevicesOK, XhciKeeps
<1> QED
  BY <1>5, <1>8, <1>9, <1>10, <1>11 DEF XhciIInv

LEMMA XhciPortChanged ==
  ASSUME xhost \in XhciHosts, NEW p \in XPorts, NEW new \in XhciPortSet, NEW n \in Nat,
         xhost' = [xhost EXCEPT !.plugs = n, !.ports[p] = new]
  PROVE  XhciPortIs(p, new)
  BY DEF XhciHosts, XhciPortIs

(* The driver is told nothing of what a port does.                          *)
LEMMA XhciUnseen ==
  ASSUME XhciTypeOK, xhost' \in XhciHosts, xhci' = xhci
  PROVE  XhciTypeOK' /\ (DevicesOK => DevicesOK')
  BY DEF XhciTypeOK, DevicesOK, SetUp

LEMMA XhciOwnKept ==
  ASSUME Own, NEW p, NEW new, XhciPortIs(p, new), Given3, xhci'.at = xhci.at
  PROVE  Own'
  BY DEF Own, XhciPortIs, Given3

LEMMA XhciLoses ==
  ASSUME XhciTypeOK, XhciSafe, NEW p \in XPorts, NEW new \in XhciPortSet, XhciPortIs(p, new),
         xhci' = xhci, Trained(new, p), new.link # "enabled"
  PROVE  XhciTypeOK' /\ XhciSafe'
<1>1. XhciTypeOK' /\ DevicesOK'
  BY XhciUnseen DEF XhciPortIs, XhciSafe
<1>2. Own'
  BY XhciOwnKept DEF XhciSafe, Given3
<1>3. \A q \in XPorts : Trained(xhost.ports[q], q)'
  BY DEF XhciSafe, XPortsOK, XhciPortIs, Trained
<1>4. \A q \in XPorts : xhost'.ports[q].link = "enabled" => xhost.ports[q].link = "enabled"
  BY DEF XhciPortIs
<1>5. xhci.disabled \subseteq XPorts
  BY DEF XhciTypeOK, XhciDrivers
<1>6. XPortsOK'
  <2>1. \A q \in xhci'.disabled : xhost'.ports[q].link # "enabled"
    BY <1>4, <1>5 DEF XhciSafe, XPortsOK
  <2>2. ASSUME xhci'.at \in AtXPort \cup {"up"}, NEW q \in XPorts, q < xhci'.port,
               xhost'.ports[q].link = "enabled"
        PROVE  Known(q)'
    <3>1. Known(q)
      BY <1>4, <2>2 DEF XhciSafe, XPortsOK
    <3> QED
      BY <3>1 DEF Known
  <2> QED
    BY <1>3, <2>1, <2>2 DEF XPortsOK
<1> QED
  BY <1>1, <1>2, <1>6 DEF XhciSafe

LEMMA XhciComes ==
  ASSUME XhciTypeOK, XhciSafe, NEW p \in XPorts, NEW new \in XhciPortSet, XhciPortIs(p, new),
         xhci' = Comes(p), Trained(new, p)
  PROVE  XhciTypeOK' /\ XhciSafe'
<1>1. /\ xhci \in XhciDrivers /\ xhci.disabled \subseteq XPorts
      /\ xhci.at \in AtXPort => xhci.port \in XPorts
      /\ xhci.at \in BeforePorts => xhci.port = 1
      /\ xhost' \in XhciHosts /\ xhci.port \in Nat
  BY DEF XhciTypeOK, XhciDrivers, XhciPortIs
<1>2. /\ xhci' \in XhciDrivers /\ Given3 /\ xhci'.at = xhci.at /\ xhci'.port = xhci.port
      /\ xhci'.disabled = xhci.disabled \ {p} /\ xhci'.setup = xhci.setup
      /\ xhci'.late = IF p < xhci.port THEN xhci.late \cup {p} ELSE xhci.late
      /\ xhci'.commands = xhci.commands /\ xhci'.pending = xhci.pending
      /\ xhci'.written = xhci.written
  <2> DEFINE late == IF p < xhci.port THEN xhci.late \cup {p} ELSE xhci.late
             disabled == xhci.disabled \ {p}
  <2>1. late \in SUBSET XPorts /\ disabled \in SUBSET XPorts
    BY <1>1 DEF XhciDrivers
  <2>2. xhci' = [xhci EXCEPT !.disabled = disabled, !.late = late]
    BY DEF Comes
  <2> HIDE DEF late, disabled
  <2>3. /\ xhci' \in XhciDrivers /\ Given3 /\ xhci'.at = xhci.at /\ xhci'.port = xhci.port
        /\ xhci'.disabled = disabled /\ xhci'.setup = xhci.setup /\ xhci'.late = late
        /\ xhci'.commands = xhci.commands /\ xhci'.pending = xhci.pending
        /\ xhci'.written = xhci.written
    BY <1>1, <2>1, <2>2 DEF XhciDrivers, Given3
  <2> QED
    BY <2>3 DEF late, disabled
<1>3. XhciTypeOK'
  BY <1>1, <1>2 DEF XhciTypeOK
<1>4. Own'
  BY <1>2, XhciOwnKept DEF XhciSafe
<1>5. XPortsOK'
  <2>1. \A q \in XPorts : Trained(xhost.ports[q], q)'
    BY DEF XhciSafe, XPortsOK, XhciPortIs, Trained
  <2>2. ASSUME NEW q \in xhci'.disabled PROVE xhost'.ports[q].link # "enabled"
    <3>1. q \in xhci.disabled /\ q # p /\ q \in XPorts
      BY <1>1, <1>2, <2>2
    <3> QED
      BY <3>1 DEF XhciSafe, XPortsOK, XhciPortIs
  <2>3. ASSUME xhci'.at \in AtXPort \cup {"up"}, NEW q \in XPorts, q < xhci'.port,
               xhost'.ports[q].link = "enabled"
        PROVE  Known(q)'
    <3>1. CASE q = p
      BY <1>2, <2>3, <3>1 DEF Known
    <3>2. CASE q # p
      <4>1. Known(q)
        BY <1>2, <2>3, <3>2 DEF XhciSafe, XPortsOK, XhciPortIs
      <4> QED
        BY <1>2, <4>1 DEF Known
    <3> QED
      BY <3>1, <3>2
  <2> QED
    BY <2>1, <2>2, <2>3 DEF XPortsOK
<1>6. DevicesOK'
  <2>1. ASSUME NEW x \in xhci'.setup PROVE SetUp(x)'
    BY <1>2, <2>1 DEF XhciSafe, DevicesOK, SetUp
  <2> QED
    BY <1>2, <2>1 DEF XhciSafe, DevicesOK
<1> QED
  BY <1>3, <1>4, <1>5, <1>6 DEF XhciSafe

LEMMA XhciFlagsKeep ==
  ASSUME XhciTypeOK, XhciSafe, xhost' \in XhciHosts, xhci' = xhci, xhost'.ports = xhost.ports
  PROVE  XhciTypeOK' /\ XPortsOK' /\ DevicesOK'
<1>1. XhciTypeOK' /\ DevicesOK'
  BY XhciUnseen DEF XhciSafe
<1>2. XPortsOK'
  BY DEF XhciSafe, XPortsOK, Trained, Known
<1> QED
  BY <1>1, <1>2

LEMMA XhciControllerKeeps ==
  ASSUME XhciIInv, XhciController PROVE XhciIInv'
<1>0. /\ xhci \in XhciDrivers /\ xhost \in XhciHosts /\ ~xhost.gone
      /\ XhciSafe /\ XhciTypeOK /\ xhost.plugs \in Nat /\ xhost.plugs + 1 \in Nat
      /\ \A p \in XPorts : xhost.ports[p] \in XhciPortSet
      /\ \A p \in XPorts : Trained(xhost.ports[p], p)
  BY DEF XhciIInv, XhciTypeOK, XhciController, XhciHosts, XhciSafe, XPortsOK
<1>1. CASE HostAnswers /\ xhci' = xhci
  <2>1. /\ xhost' \in XhciHosts /\ xhost'.ports = xhost.ports
        /\ xhost'.legacy = xhost.legacy /\ xhost'.firmware = xhost.firmware
        /\ xhost'.smi = xhost.smi /\ xhost'.running = xhost.running
        /\ xhost'.halted = xhost.halted /\ xhost'.resetting = xhost.resetting
        /\ xhost'.registers = xhost.registers
    BY <1>0, <1>1 DEF HostAnswers, XhciHosts
  <2>2. Own'
    BY <1>0, <1>1, <2>1 DEF XhciSafe, Own
  <2> QED
    BY <1>0, <1>1, <2>1, <2>2, XhciFlagsKeep DEF XhciIInv
<1>2. CASE HostHalts /\ xhci' = xhci
  <2>1. /\ xhost' \in XhciHosts /\ xhost'.ports = xhost.ports /\ ~xhost.running
        /\ xhost'.legacy = xhost.legacy /\ xhost'.firmware = xhost.firmware
        /\ xhost'.smi = xhost.smi /\ xhost'.running = xhost.running
        /\ xhost'.halted = TRUE /\ xhost'.resetting = xhost.resetting
        /\ xhost'.registers = xhost.registers
    BY <1>0, <1>2 DEF HostHalts, XhciHosts
  <2>2. Own'
    BY <1>0, <1>2, <2>1 DEF XhciSafe, Own
  <2> QED
    BY <1>0, <1>2, <2>1, <2>2, XhciFlagsKeep DEF XhciIInv
<1>3. CASE HostRuns /\ xhci' = xhci
  <2>1. /\ xhost' \in XhciHosts /\ xhost'.ports = xhost.ports
        /\ xhost'.legacy = xhost.legacy /\ xhost'.firmware = xhost.firmware
        /\ xhost'.smi = xhost.smi /\ xhost'.running = xhost.running
        /\ xhost'.halted = FALSE /\ xhost'.resetting = xhost.resetting
        /\ xhost'.registers = xhost.registers
    BY <1>0, <1>3 DEF HostRuns, XhciHosts
  <2>2. Own'
    BY <1>0, <1>3, <2>1 DEF XhciSafe, Own
  <2> QED
    BY <1>0, <1>3, <2>1, <2>2, XhciFlagsKeep DEF XhciIInv
<1>12. CASE HostFails /\ xhci' = xhci
  <2>1. /\ xhost' \in XhciHosts /\ xhost'.ports = xhost.ports
        /\ xhost'.legacy = xhost.legacy /\ xhost'.firmware = xhost.firmware
        /\ xhost'.smi = xhost.smi /\ ~xhost'.running
        /\ xhost'.halted = TRUE /\ xhost'.resetting = xhost.resetting
        /\ xhost'.registers = xhost.registers
    BY <1>0, <1>12 DEF HostFails, XhciHosts
  <2>2. Own'
    BY <1>0, <1>12, <2>1 DEF XhciSafe, Own
  <2> QED
    BY <1>0, <1>12, <2>1, <2>2, XhciFlagsKeep DEF XhciIInv
<1>4. CASE FirmwareLeaves /\ xhci' = xhci
  <2>1. /\ xhost' \in XhciHosts /\ xhost'.ports = xhost.ports
        /\ xhost'.legacy = xhost.legacy /\ xhost'.firmware = FALSE
        /\ xhost'.smi = xhost.smi /\ xhost'.running = xhost.running
        /\ xhost'.halted = xhost.halted /\ xhost'.resetting = xhost.resetting
        /\ xhost'.registers = xhost.registers
    BY <1>0, <1>4 DEF FirmwareLeaves, XhciHosts
  <2>2. Own'
    BY <1>0, <1>4, <2>1 DEF XhciSafe, Own
  <2> QED
    BY <1>0, <1>4, <2>1, <2>2, XhciFlagsKeep DEF XhciIInv
<1>5. CASE HostResets /\ xhci' = xhci
  <2> DEFINE ports == [p \in XPorts |-> FreshPort(xhost.ports[p].device)]
  <2>1. \A p \in XPorts :
          ports[p] \in XhciPortSet /\ Trained(ports[p], p) /\ ports[p].link # "enabled"
    BY <1>0 DEF FreshPort, NoDevice, XhciPortSet, Trained
  <2>2. ports \in [XPorts -> XhciPortSet]
    BY <2>1
  <2>3. xhost' = [xhost EXCEPT !.resetting = FALSE, !.running = FALSE, !.halted = TRUE,
                   !.registers = FirstValues, !.ports = ports] /\ xhost.resetting
    BY <1>5 DEF HostResets
  <2> HIDE DEF ports
  <2>4. /\ xhost' \in XhciHosts /\ xhost'.ports = ports /\ ~xhost'.resetting
        /\ ~xhost'.running /\ xhost'.legacy = xhost.legacy
        /\ xhost'.firmware = xhost.firmware /\ xhost'.smi = xhost.smi
        /\ xhost'.registers = FirstValues
    BY <1>0, <2>2, <2>3, XhciValues DEF XhciHosts
  <2>5. XhciTypeOK' /\ DevicesOK'
    BY <1>0, <1>5, <2>4, XhciUnseen DEF XhciSafe
  <2>6. Own'
    BY <1>0, <1>5, <2>3, <2>4 DEF XhciSafe, Own
  <2>7. XPortsOK'
    <3>1. xhci.disabled \subseteq XPorts
      BY <1>0 DEF XhciDrivers
    <3> QED
      BY <1>5, <2>1, <2>4, <3>1 DEF XPortsOK, Trained
  <2> QED
    BY <2>5, <2>6, <2>7 DEF XhciIInv
<1>6. CASE XhciPlugged /\ xhci' = xhci
  <2>1. PICK p \in XPorts, d \in 0 .. 5 :
          Plug(p, [xhost.ports[p] EXCEPT !.device = d,
                     !.link = IF xhost.ports[p].power THEN "polling" ELSE "off"])
    <3>1. PICK p \in XPorts : \E d \in SpeedsOn(p) :
            Plug(p, [xhost.ports[p] EXCEPT !.device = d,
                       !.link = IF xhost.ports[p].power THEN "polling" ELSE "off"])
      BY <1>6 DEF XhciPlugged
    <3>2. SpeedsOn(p) \subseteq 0 .. 5
      BY DEF SpeedsOn
    <3> QED
      BY <3>1, <3>2
  <2> DEFINE new == [xhost.ports[p] EXCEPT !.device = d,
                     !.link = IF xhost.ports[p].power THEN "polling" ELSE "off"]
  <2>2. new \in XhciPortSet /\ new.link \notin {"enabled", "reset"} /\ Trained(new, p)
    BY <1>0, ZenonT(60) DEF XhciPortSet, NoDevice, Trained
  <2>3. xhost' = [xhost EXCEPT !.plugs = xhost.plugs + 1, !.ports[p] = new]
    BY <2>1 DEF Plug
  <2> HIDE DEF new
  <2>4. XhciPortIs(p, new)
    BY <1>0, <2>2, <2>3, XhciPortChanged
  <2> QED
    BY <1>0, <1>6, <2>2, <2>4, XhciLoses DEF XhciIInv, XhciSafe
<1>7. CASE XhciUnplugged /\ xhci' = xhci
  <2>1. PICK p \in XPorts :
          Plug(p, [xhost.ports[p] EXCEPT !.device = NoDevice, !.link = "empty"])
    BY <1>7 DEF XhciUnplugged
  <2> DEFINE new == [xhost.ports[p] EXCEPT !.device = NoDevice, !.link = "empty"]
  <2>2. new \in XhciPortSet /\ new.link \notin {"enabled", "reset"} /\ Trained(new, p)
    <3>1. xhost.ports[p] \in XhciPortSet /\ NoDevice \in 0 .. 5
      BY <1>0 DEF NoDevice
    <3>2. new \in XhciPortSet /\ new.link = "empty"
      BY <3>1 DEF XhciPortSet
    <3> QED
      BY <3>2 DEF Trained
  <2>3. xhost' = [xhost EXCEPT !.plugs = xhost.plugs + 1, !.ports[p] = new]
    BY <2>1 DEF Plug
  <2> HIDE DEF new
  <2>4. XhciPortIs(p, new)
    BY <1>0, <2>2, <2>3, XhciPortChanged
  <2> QED
    BY <1>0, <1>7, <2>2, <2>4, XhciLoses DEF XhciIInv, XhciSafe
<1>8. CASE XhciPowerFails /\ xhci' = xhci
  <2>1. PICK p \in XPorts :
          Plug(p, [xhost.ports[p] EXCEPT !.power = FALSE,
                     !.link = IF @ = "empty" THEN "empty" ELSE "off"])
    BY <1>8 DEF XhciPowerFails
  <2> DEFINE new == [xhost.ports[p] EXCEPT !.power = FALSE,
                     !.link = IF @ = "empty" THEN "empty" ELSE "off"]
  <2>2. new \in XhciPortSet /\ new.link \notin {"enabled", "reset"} /\ Trained(new, p)
    BY <1>0, ZenonT(60) DEF XhciPortSet, NoDevice, Trained
  <2>3. xhost' = [xhost EXCEPT !.plugs = xhost.plugs + 1, !.ports[p] = new]
    BY <2>1 DEF Plug
  <2> HIDE DEF new
  <2>4. XhciPortIs(p, new)
    BY <1>0, <2>2, <2>3, XhciPortChanged
  <2> QED
    BY <1>0, <1>8, <2>2, <2>4, XhciLoses DEF XhciIInv, XhciSafe
<1>9. CASE XhciRemoved /\ xhci' = xhci
  <2>1. xhost' \in XhciHosts /\ xhost'.gone
    BY <1>0, <1>9 DEF XhciRemoved, XhciHosts
  <2> QED
    BY <1>0, <1>9, <2>1, XhciUnseen DEF XhciIInv
<1>10. CASE PortTrains
  <2>1. PICK p \in XPorts :
          /\ XhciPorts[p] = "usb3" /\ xhost.ports[p].power
          /\ xhost' = [xhost EXCEPT !.ports[p].link = "enabled"]
          /\ xhci' = Comes(p)
    BY <1>10 DEF PortTrains
  <2> DEFINE new == [xhost.ports[p] EXCEPT !.link = "enabled"]
  <2>2. new \in XhciPortSet /\ Trained(new, p)
    BY <1>0, <2>1 DEF XhciPortSet, Trained
  <2>3. xhost' = [xhost EXCEPT !.plugs = xhost.plugs, !.ports[p] = new]
    BY <1>0, <2>1 DEF XhciHosts
  <2> HIDE DEF new
  <2>4. XhciPortIs(p, new)
    BY <1>0, <2>2, <2>3, XhciPortChanged
  <2> QED
    BY <1>0, <2>1, <2>2, <2>4, XhciComes DEF XhciIInv, XhciSafe
<1>11. CASE PortResets
  <2>1. PICK p \in XPorts :
          /\ xhost.ports[p].link = "reset"
          /\ xhost' = [xhost EXCEPT !.ports[p].link = "enabled", !.ports[p].reset = TRUE,
                                    !.ports[p].warm = TRUE]
          /\ xhci' = Comes(p)
    BY <1>11 DEF PortResets
  <2> DEFINE new == [xhost.ports[p] EXCEPT !.link = "enabled", !.reset = TRUE, !.warm = TRUE]
  <2>2. new \in XhciPortSet /\ Trained(new, p)
    BY <1>0, <2>1 DEF XhciPortSet, Trained
  <2>3. xhost' = [xhost EXCEPT !.plugs = xhost.plugs, !.ports[p] = new]
    BY <1>0, <2>1 DEF XhciHosts
  <2> HIDE DEF new
  <2>4. XhciPortIs(p, new)
    BY <1>0, <2>2, <2>3, XhciPortChanged
  <2> QED
    BY <1>0, <2>1, <2>2, <2>4, XhciComes DEF XhciIInv, XhciSafe
<1> QED
  BY <1>1, <1>2, <1>3, <1>4, <1>5, <1>6, <1>7, <1>8, <1>9, <1>10, <1>11, <1>12 DEF XhciController

LEMMA XhciRightFollows == XhciIInv => XhciRight
<1> SUFFICES ASSUME XhciIInv, ~xhost.gone PROVE XhciRight
  BY DEF XhciRight
<1>1. XhciTypeOK /\ Own /\ XPortsOK /\ DevicesOK
  BY DEF XhciIInv
<1>2. Walking => xhci.at \in AtXPort
  BY DEF Walking, AtXPort
<1>3. Walking /\ xhost.legacy => ~xhost.smi /\ (xhost.firmware => xhci.stubborn)
  BY <1>1, <1>2 DEF Own, AtXPort, BeforeTaken
<1>4. Walking =>
        \/ xhost.registers = HostRegisters(kvtophys("contexts"), Address("ring", "zero"))
        \/ xhci.early /\ (xhost.resetting \/ xhost.registers = FirstValues)
  BY <1>1, <1>2 DEF Own, RingsGiven, Halved
<1>5. \A s \in xhci.setup :
        /\ XhciPorts[s.port] = "usb3" /\ s.port \notin xhci.disabled
        /\ s.speed = 4 => s.told = s.kept
  BY <1>1 DEF DevicesOK, SetUp
<1>6. xhci.at = "up" =>
        \A p \in XPorts :
          xhost.ports[p].link = "enabled" => p \in xhci.late \/ \E s \in xhci.setup : s.port = p
  <2>1. xhci.at = "up" => \A p \in XPorts : p < xhci.port
    BY <1>1, XhciFacts DEF DevicesOK
  <2> QED
    BY <1>1, <2>1 DEF XPortsOK, Known
<1>7. xhci.at = "stopped" /\ xhost.running => xhci.slow
  BY <1>1 DEF Own
<1>8. /\ Len(xhci.commands) = Cardinality(xhci.setup) /\ xhci.pending = 0
      /\ xhci.written = IF xhci.setup = {} THEN {} ELSE {"lastOutput"}
  BY <1>1 DEF DevicesOK
<1> QED
  BY <1>3, <1>4, <1>5, <1>6, <1>7, <1>8 DEF XhciRight

(* A USB 3 controller is run by its driver alone, knowing the driver's      *)
(* contexts and 16 bits of the address of its ring, and its devices are set *)
(* up once, for any ports and any plugging.                                 *)
THEOREM XhciSafely == XhciSpec => []XhciRight
<1>1. XhciInit => XhciIInv
  BY XhciStarts
<1>2. XhciIInv /\ [XhciNext]_xhciVars => XhciIInv'
  <2> SUFFICES ASSUME XhciIInv, [XhciNext]_xhciVars PROVE XhciIInv'
    OBVIOUS
  <2>1. CASE UNCHANGED xhciVars
    <3>1. xhci' = xhci /\ xhost' = xhost
      BY <2>1 DEF xhciVars
    <3>2. XhciTypeOK'
      BY <3>1 DEF XhciIInv, XhciTypeOK
    <3>3. Own => Own'
      BY <3>1 DEF Own
    <3>4. XPortsOK => XPortsOK'
      BY <3>1 DEF XPortsOK, Trained, Known
    <3>5. DevicesOK => DevicesOK'
      BY <3>1 DEF DevicesOK, SetUp
    <3> QED
      BY <3>1, <3>2, <3>3, <3>4, <3>5 DEF XhciIInv
  <2>2. CASE XhciPower
    BY <2>2, XhciPowers1
  <2>3. CASE XhciDriver
    <3>1. XhciTypeOK
      BY DEF XhciIInv
    <3> QED
      BY <2>3, <3>1, XhciDriverKeeps DEF XhciIInv, XhciSafe
  <2>4. CASE XhciController
    BY <2>4, XhciControllerKeeps
  <2> QED
    BY <2>1, <2>2, <2>3, <2>4 DEF XhciNext
<1>3. XhciIInv => XhciRight
  BY XhciRightFollows
<1> QED
  BY <1>1, <1>2, <1>3, PTL DEF XhciSpec

(* Both controllers are run by their drivers alone, though with addresses   *)
(* cut short, for any ports and any plugging (XHCIController.cpp 215-605,   *)
(* EHCIController.cpp 169-447).                                             *)
THEOREM HostsSafe == HostsSpec => []HostsRight
<1>1. XhciRight /\ EhciRight => HostsRight
  BY DEF HostsRight
<1> QED
  BY <1>1, XhciSafely, EhciSafe, PTL DEF HostsSpec

----------------------------------------------------------------------------
(* The keyboard.  Until one of the four troubles, the bytes still to be     *)
(* read lead from what was read so far to what the keys mean: every byte,   *)
(* in its turn, is a step of the way.                                       *)

(* What was read so far: the text, shift, and the caps lock; of a shifted   *)
(* key in the middle of pollchar, what it is going to be.                   *)
Soon(c) ==
  IF InTable(c) THEN Taken(got, keymap[c.key][IF capsed THEN 1 ELSE 2]) ELSE got
Now ==
  [text |-> IF reader.pc = "second" THEN Soon(reader.c) ELSE got,
   shifted |-> shifted, lock |-> capsed]

(* What a byte adds to it.                                                  *)
Down(s) == IF s.shifted THEN {"shift"} ELSE {}
After(s, c) ==
  IF InTable(c)
  THEN [text |-> Taken(s.text, Meaning(c.key, Down(s), s.lock)),
        shifted |-> s.shifted \/ c.key = "shift",
        lock |-> s.lock # (c.key = "caps")]
  ELSE [s EXCEPT !.shifted = @ /\ c # Break("shift")]

Leads(s, q, g) ==
  \E f : /\ f[0] = s /\ f[Len(q)] = g
         /\ \A n \in 1 .. Len(q) : f[n] = After(f[n - 1], q[n])

Meant == [text |-> meant.text, shifted |-> "shift" \in held, lock |-> meant.lock]

OnTheWay == Leads(IF port.full THEN After(Now, port.data) ELSE Now, port.coming, Meant)

(* An arrow comes behind its prefix.                                        *)
Prefixed ==
  /\ port.full /\ port.data = Make("arrow") => e0ed
  /\ \A n \in 1 .. Len(port.coming) :
       port.coming[n] = Make("arrow") =>
         IF n > 1 THEN port.coming[n - 1] = E0
         ELSE IF port.full THEN port.data = E0 ELSE e0ed

(* In the middle of pollchar the port still shows the byte that was read,   *)
(* or the answer of the keyboard's lights.                                  *)
InPoll ==
  LET c == reader.c IN
  /\ reader.pc = "second" =>
       /\ shifted
       /\ c = E0 \/ \E k \in Keys \ {"arrow"} : c = Make(k)
       /\ c = Make("shift") => ~e0ed
       /\ port.full \/ port.data = c \/ (c = Make("caps") /\ port.data = Ack)
  /\ reader.pc \in {"ask", "acknowledged", "lit"} =>
       /\ c = Make("caps")
       /\ port.full \/ port.data \in {c, Ack}

KeyIInv == KeyTypeOK /\ (trouble = "none" => OnTheWay /\ Prefixed /\ InPoll)

LEMMA LeadsNowhere ==
  ASSUME NEW s, NEW g, Leads(s, <<>>, g)
  PROVE  s = g
BY DEF Leads

LEMMA LeadsFrom ==
  ASSUME NEW s, NEW q \in Seq(Codes), q # <<>>, NEW g, Leads(s, q, g)
  PROVE  Leads(After(s, Head(q)), Tail(q), g)
<1> DEFINE Way(f, t, r, e) ==
             f[0] = t /\ f[Len(r)] = e /\ \A n \in 1 .. Len(r) : f[n] = After(f[n - 1], r[n])
<1>1. PICK f : Way(f, s, q, g)
  BY DEF Leads
<1> DEFINE h == [n \in 0 .. Len(q) - 1 |-> f[n + 1]]
<1>2. /\ Len(q) \in Nat \ {0} /\ Len(Tail(q)) = Len(q) - 1 /\ Head(q) = q[1]
      /\ \A n \in 1 .. Len(q) - 1 : Tail(q)[n] = q[n + 1]
  OBVIOUS
<1>3. h[0] = After(s, Head(q)) /\ h[Len(q) - 1] = g
  BY <1>1, <1>2
<1>4. \A n \in 1 .. Len(q) - 1 : h[n] = After(h[n - 1], Tail(q)[n])
  <2> SUFFICES ASSUME NEW n \in 1 .. Len(q) - 1 PROVE h[n] = After(h[n - 1], Tail(q)[n])
    OBVIOUS
  <2>1. h[n] = f[n + 1] /\ h[n - 1] = f[n] /\ Tail(q)[n] = q[n + 1] /\ n + 1 \in 1 .. Len(q)
    BY <1>2
  <2>2. f[n + 1] = After(f[(n + 1) - 1], q[n + 1])
    BY <1>1, <2>1
  <2> QED
    BY <2>1, <2>2
<1> QED
  BY <1>2, <1>3, <1>4 DEF Leads

LEMMA LeadsOn ==
  ASSUME NEW s, NEW q \in Seq(Codes), NEW c \in Codes, NEW g, Leads(s, q, g)
  PROVE  Leads(s, Append(q, c), After(g, c))
<1>1. PICK f : f[0] = s /\ f[Len(q)] = g /\ \A n \in 1 .. Len(q) : f[n] = After(f[n - 1], q[n])
  BY DEF Leads
<1> DEFINE r == Append(q, c)
           h == [n \in 0 .. Len(q) + 1 |-> IF n = Len(q) + 1 THEN After(g, c) ELSE f[n]]
<1>2. /\ Len(q) \in Nat /\ Len(r) = Len(q) + 1 /\ r[Len(q) + 1] = c
      /\ \A n \in 1 .. Len(q) : r[n] = q[n]
  OBVIOUS
<1>3. h[0] = s /\ h[Len(r)] = After(g, c) /\ \A n \in 0 .. Len(q) : h[n] = f[n]
  BY <1>1, <1>2
<1>4. \A n \in 1 .. Len(r) : h[n] = After(h[n - 1], r[n])
  <2> SUFFICES ASSUME NEW n \in 1 .. Len(r) PROVE h[n] = After(h[n - 1], r[n])
    OBVIOUS
  <2>1. CASE n = Len(q) + 1
    <3>1. h[n] = After(g, c) /\ h[n - 1] = g /\ r[n] = c
      BY <1>1, <1>2, <1>3, <2>1
    <3> QED
      BY <3>1
  <2>2. CASE n \in 1 .. Len(q)
    <3>1. h[n] = f[n] /\ h[n - 1] = f[n - 1] /\ r[n] = q[n]
      BY <1>2, <1>3, <2>2
    <3> QED
      BY <1>1, <2>2, <3>1
  <2> QED
    BY <1>2, <2>1, <2>2
<1> HIDE DEF h, r
<1>5. Leads(s, r, After(g, c))
  BY <1>3, <1>4 DEF Leads
<1> QED
  BY <1>5 DEF r

(* The bytes, one by one.                                                   *)
LEMMA CodesAre ==
  /\ E0 \in Codes /\ Ack \in Codes /\ ~InTable(E0) /\ ~InTable(Ack)
  /\ E0 # Ack /\ E0.key # "caps" /\ Break("shift") # E0 /\ Break("shift") # Ack
  /\ \A k \in Keys : /\ Make(k) \in Codes /\ Break(k) \in Codes
                     /\ InTable(Make(k)) /\ ~InTable(Break(k)) /\ Make(k).key = k
                     /\ Make(k) # E0 /\ Make(k) # Ack /\ Make(k) # Break("shift")
                     /\ Break(k) # E0 /\ (Break(k) = Break("shift") <=> k = "shift")
                     /\ \A l \in Keys : (Make(k) = Make(l) <=> k = l) /\ Make(k) # Break(l)
  /\ \A c \in Codes : c = E0 \/ c.up \/ \E k \in Keys : c = Make(k)
  /\ \A k \in Keys : ~Make(k).up
  /\ ~E0.up
<1>1. "shift" \in Keys /\ \A k \in Keys : k # "E0" /\ k # "FA"
  BY DEF Keys, keymap
<1>2. \A k : /\ Make(k).key = k /\ Make(k).up = FALSE /\ Break(k).key = k /\ Break(k).up = TRUE
  BY DEF Make, Break
<1>3. E0.key = "E0" /\ E0.up = FALSE /\ Ack.key = "FA" /\ Ack.up = TRUE
  BY DEF E0, Ack
<1>4. /\ E0 \in Codes /\ Ack \in Codes
      /\ \A k \in Keys : Make(k) \in Codes /\ Break(k) \in Codes
      /\ \A c \in Codes : c = E0 \/ c = Ack \/ \E k \in Keys : c = Make(k) \/ c = Break(k)
  BY DEF Codes
<1>5. /\ ~InTable(E0) /\ ~InTable(Ack)
      /\ \A k \in Keys : InTable(Make(k)) /\ ~InTable(Break(k))
  BY <1>1, <1>2, <1>3 DEF InTable
<1>6. /\ E0 # Ack /\ E0.key # "caps" /\ Break("shift") # E0 /\ Break("shift") # Ack
      /\ \A k \in Keys : /\ Make(k) # E0 /\ Make(k) # Ack /\ Break(k) # E0
                         /\ \A l \in Keys : Make(k) # Break(l)
  BY <1>1, <1>2, <1>3
<1>7. \A k, l \in Keys : (Make(k) = Make(l) <=> k = l) /\ (Break(k) = Break(l) <=> k = l)
  BY <1>2
<1> QED
  BY <1>1, <1>2, <1>3, <1>4, <1>5, <1>6, <1>7

LEMMA KeysAre ==
  /\ Keys = {"c", "one", "back", "enter", "arrow", "ctrl", "shift", "caps"}
  /\ \A i \in 1 .. 3 : keymap["shift"][i] = Nothing /\ keymap["caps"][i] = Nothing
  /\ keymap["arrow"][3] = Nothing
BY DEF Keys, keymap

LEMMA NothingTaken == \A e : Taken(e, Nothing) = e
BY DEF Taken

LEMMA KeyTypes ==
  ASSUME KeyTypeOK
  PROVE  /\ port.coming \in Seq(Codes) /\ Len(port.coming) \in Nat
         /\ port.data \in Codes /\ port.full \in BOOLEAN
         /\ port = [data |-> port.data, full |-> port.full, coming |-> port.coming]
         /\ events \in Nat /\ held \subseteq Keys /\ MaxEvents \in Nat
         /\ e0ed \in BOOLEAN /\ capsed \in BOOLEAN /\ shifted \in BOOLEAN
         /\ reader.c \in Codes
<1>1. port \in [data : Codes, full : BOOLEAN, coming : Seq(Codes)]
  BY DEF KeyTypeOK
<1>2. events \in 0 .. MaxEvents
  BY DEF KeyTypeOK
<1>3. held \subseteq Keys /\ reader.c \in Codes
      /\ e0ed \in BOOLEAN /\ capsed \in BOOLEAN /\ shifted \in BOOLEAN
  BY DEF KeyTypeOK
<1>4. port.coming \in Seq(Codes)
  BY <1>1
<1> QED
  BY <1>1, <1>2, <1>3, <1>4, KeyAssumption

(* The steps of pollchar.                                                   *)
LEMMA Columns ==
  /\ \A k \in Keys \ {"arrow"}, lock \in BOOLEAN :
       /\ Meaning(k, {"shift"}, lock) = keymap[k][IF lock THEN 1 ELSE 2]
       /\ Meaning(k, {}, lock) = keymap[k][IF lock /\ IsLetter(k) THEN 2 ELSE 1]
  /\ \A down, lock : Meaning("arrow", down, lock) = Nothing
  /\ \A down, lock : Meaning("shift", down, lock) = Nothing /\ Meaning("caps", down, lock) = Nothing
BY KeysAre DEF Meaning

LEMMA WorseIs ==
  ASSUME NEW why
  PROVE  /\ Worse(why) = "none" <=> trouble = "none" /\ why = "none"
         /\ KeyTypeOK /\ why \in {"none", "outside", "leftover", "passed over", "dropped"} =>
              Worse(why) \in {"none", "outside", "leftover", "passed over", "dropped"}
BY DEF Worse, KeyTypeOK

LEMMA OutsideIs ==
  ASSUME NEW c, NEW v
  PROVE  /\ Outside(c, v) \in {"none", "outside"}
         /\ Outside(c, v) = "none" <=> InTable(c) \/ v = Nothing
BY DEF Outside

(* What the table gives for a code: the row's, or nothing, or trouble.      *)
LEMMA LookedUp ==
  ASSUME NEW c, NEW column, NEW v \in Looked(c, column), Outside(c, v) = "none"
  PROVE  v = IF InTable(c) THEN keymap[c.key][column] ELSE Nothing
BY OutsideIs DEF Looked

LEMMA ReturnTypes ==
  ASSUME KeyTypeOK, NEW v, NEW why \in {"none", "outside", "leftover", "passed over", "dropped"},
         Return(v, why)
  PROVE  /\ reader' \in [pc : {"poll", "second", "ask", "acknowledged", "lit"}, c : Codes]
         /\ trouble' \in {"none", "outside", "leftover", "passed over", "dropped"}
         /\ reader'.pc = "poll" /\ got' = Taken(got, v)
         /\ trouble' = "none" <=> trouble = "none" /\ why = "none"
<1>1. reader' = [pc |-> "poll", c |-> Ack] /\ trouble' = Worse(why) /\ got' = Taken(got, v)
  BY DEF Return
<1> QED
  BY <1>1, WorseIs, CodesAre

LEMMA DecodeIs ==
  ASSUME KeyTypeOK, NEW c \in Codes, Decode(c)
  PROVE  /\ reader' \in [pc : {"poll", "second", "ask", "acknowledged", "lit"}, c : Codes]
         /\ trouble' \in {"none", "outside", "leftover", "passed over", "dropped"}
         /\ shifted' = (shifted \/ c = Make("shift"))
         /\ trouble' = "none" => trouble = "none"
         /\ shifted' => reader' = [pc |-> "second", c |-> c] /\ got' = got
         /\ ~shifted' => reader'.pc = "poll"
         /\ ~shifted' /\ trouble' = "none" =>
              got' = IF InTable(c)
                     THEN Taken(got, keymap[c.key][IF capsed /\ IsLetter(c.key) THEN 2 ELSE 1])
                     ELSE got
<1>1. shifted \in BOOLEAN /\ trouble \in {"none", "outside", "leftover", "passed over", "dropped"}
  BY DEF KeyTypeOK
<1>2. CASE c = Make("shift") \/ shifted
  <2>1. shifted' = TRUE /\ reader' = [pc |-> "second", c |-> c] /\ got' = got /\ trouble' = trouble
    BY <1>2 DEF Decode, ToStep
  <2> QED
    BY <1>1, <1>2, <2>1
<1>3. CASE ~(c = Make("shift") \/ shifted)
  <2> DEFINE column == IF capsed /\ IsLetter(c.key) THEN 2 ELSE 1
  <2>1. shifted' = shifted /\ ~shifted' /\ c # Make("shift")
    BY <1>3 DEF Decode
  <2>2. PICK v \in Looked(c, column) : Return(v, Outside(c, v))
    BY <1>3 DEF Decode
  <2>3. Outside(c, v) = "none" => v = IF InTable(c) THEN keymap[c.key][column] ELSE Nothing
    BY LookedUp
  <2>4. /\ reader' \in [pc : {"poll", "second", "ask", "acknowledged", "lit"}, c : Codes]
        /\ trouble' \in {"none", "outside", "leftover", "passed over", "dropped"}
        /\ reader'.pc = "poll" /\ got' = Taken(got, v)
        /\ trouble' = "none" <=> trouble = "none" /\ Outside(c, v) = "none"
    BY <2>2, OutsideIs, ReturnTypes
  <2> HIDE DEF column
  <2>5. trouble' = "none" => got' = IF InTable(c) THEN Taken(got, keymap[c.key][column]) ELSE got
    BY <2>3, <2>4, NothingTaken
  <2> QED
    BY <1>1, <1>3, <2>1, <2>4, <2>5 DEF column
<1> QED
  BY <1>2, <1>3

(* So much, as a step of the way.                                           *)
So(t, s, l) == [text |-> t, shifted |-> s, lock |-> l]

LEMMA DecodeLeads ==
  ASSUME KeyTypeOK, NEW c \in Codes, Decode(c), trouble' = "none", capsed' = capsed,
         c = E0 \/ \E k \in Keys \ {"arrow"} : c = Make(k)
  PROVE  /\ c # Make("caps") => Now' = After(So(got, shifted, capsed), c)
         /\ c = Make("caps") => Now' = So(got, shifted, capsed)
<1> DEFINE s == So(got, shifted, capsed)
           text == IF InTable(c) THEN Taken(got, Meaning(c.key, Down(s), capsed)) ELSE got
<1>1. shifted \in BOOLEAN /\ capsed \in BOOLEAN
  BY DEF KeyTypeOK
<1>2. s.text = got /\ s.shifted = shifted /\ s.lock = capsed
      /\ Down(s) = IF shifted THEN {"shift"} ELSE {}
  BY DEF So, Down
<1>3. (c = E0 /\ ~InTable(c)) \/ \E k \in Keys \ {"arrow"} : c = Make(k) /\ c.key = k /\ InTable(c)
  BY CodesAre
<1>4. InTable(c) => c.key \in Keys \ {"arrow"} /\ c = Make(c.key)
  BY <1>3
<1>5. /\ Now'.text = text /\ Now' = So(Now'.text, shifted', capsed)
      /\ shifted' = (shifted \/ c = Make("shift"))
  <2>1. shifted' = (shifted \/ c = Make("shift"))
    BY DecodeIs
  <2>2. Now' = So(Now'.text, shifted', capsed)
    BY DEF Now, So
  <2>3. CASE ~shifted'
    <3>1. reader'.pc = "poll" /\ ~shifted
          /\ got' = IF InTable(c)
                    THEN Taken(got, keymap[c.key][IF capsed /\ IsLetter(c.key) THEN 2 ELSE 1])
                    ELSE got
      BY <1>1, <2>1, <2>3, DecodeIs
    <3>2. Now'.text = got'
      BY <3>1 DEF Now
    <3>3. Down(s) = {}
      BY <1>2, <3>1
    <3>4. InTable(c) => Meaning(c.key, Down(s), capsed)
                        = keymap[c.key][IF capsed /\ IsLetter(c.key) THEN 2 ELSE 1]
      BY <1>1, <1>4, <3>3, Columns
    <3> QED
      BY <2>1, <2>2, <3>1, <3>2, <3>4
  <2>4. CASE shifted'
    <3>1. reader' = [pc |-> "second", c |-> c] /\ got' = got
      BY <2>4, DecodeIs
    <3>2. Now'.text = Soon(c)'
      BY <3>1 DEF Now
    <3>3. Soon(c)' = IF InTable(c) THEN Taken(got, keymap[c.key][IF capsed THEN 1 ELSE 2]) ELSE got
      BY <3>1 DEF Soon
    <3>4. CASE shifted
      <4>1. InTable(c) => Meaning(c.key, Down(s), capsed) = keymap[c.key][IF capsed THEN 1 ELSE 2]
        BY <1>1, <1>2, <1>4, <3>4, Columns
      <4> QED
        BY <2>1, <2>2, <3>2, <3>3, <4>1
    <3>5. CASE ~shifted
      <4>1. c = Make("shift") /\ c.key = "shift" /\ InTable(c)
        BY <1>1, <2>1, <2>4, <3>5, CodesAre, KeysAre
      <4>2. Meaning(c.key, Down(s), capsed) = Nothing
            /\ keymap[c.key][IF capsed THEN 1 ELSE 2] = Nothing
        BY <4>1, Columns, KeysAre
      <4> QED
        BY <2>1, <2>2, <3>2, <3>3, <4>1, <4>2
    <3> QED
      BY <3>4, <3>5
  <2> QED
    BY <2>3, <2>4
<1>6. ASSUME c # Make("caps") PROVE Now' = After(s, c)
  <2>1. CASE InTable(c)
    <3>1. (c.key = "caps") = FALSE /\ (c = Make("shift")) = (c.key = "shift")
      BY <1>4, <1>6, <2>1, CodesAre, KeysAre
    <3>2. After(s, c) = So(text, shifted \/ c.key = "shift", capsed # FALSE)
      BY <1>2, <2>1, <3>1 DEF After, So
    <3>3. (capsed # FALSE) = capsed
      BY <1>1
    <3> QED
      BY <1>5, <3>1, <3>2, <3>3
  <2>2. CASE ~InTable(c)
    <3>1. c = E0 /\ c # Break("shift") /\ c # Make("shift")
      BY <1>3, <2>2, CodesAre, KeysAre
    <3>2. After(s, c) = So(got, shifted /\ TRUE, capsed)
      BY <2>2, <3>1 DEF After, So
    <3> QED
      BY <1>1, <1>5, <2>2, <3>1, <3>2
  <2> QED
    BY <2>1, <2>2
<1>7. ASSUME c = Make("caps") PROVE Now' = s
  <2>1. InTable(c) /\ c.key = "caps" /\ c # Make("shift")
    BY <1>7, CodesAre, KeysAre
  <2>2. text = got
    BY <2>1, Columns, NothingTaken
  <2> QED
    BY <1>1, <1>5, <2>1, <2>2
<1> QED
  BY <1>6, <1>7

(* What is read, and what is added to what is to be read.                   *)
Mid == IF port.full THEN After(Now, port.data) ELSE Now

LEMMA MidLeads == OnTheWay <=> Leads(Mid, port.coming, Meant)
BY DEF OnTheWay, Mid

LEMMA MeantStays ==
  ASSUME held' = held, meant' = meant
  PROVE  Meant' = Meant
BY DEF Meant

LEMMA AnswerIgnored ==
  ASSUME NEW t, NEW s \in BOOLEAN, NEW l
  PROVE  After(So(t, s, l), Ack) = So(t, s, l) /\ After(So(t, s, l), E0) = So(t, s, l)
<1>1. (s /\ Ack # Break("shift")) = s /\ (s /\ E0 # Break("shift")) = s
  BY CodesAre
<1>2. /\ After(So(t, s, l), Ack) = So(t, s /\ Ack # Break("shift"), l)
      /\ After(So(t, s, l), E0) = So(t, s /\ E0 # Break("shift"), l)
  BY CodesAre DEF After, So
<1> QED
  BY <1>1, <1>2

LEMMA IsSo == Now = So(Now.text, shifted, capsed)
              /\ Meant = So(meant.text, "shift" \in held, meant.lock)
BY DEF Now, Meant, So

LEMMA Consumed ==
  ASSUME OnTheWay, Now' = Mid, ~port'.full, port'.coming = port.coming, Meant' = Meant
  PROVE  OnTheWay'
<1>1. Mid' = Now'
  BY DEF Mid
<1> QED
  BY <1>1, MidLeads DEF OnTheWay, Mid

LEMMA Appended ==
  ASSUME KeyTypeOK, OnTheWay, Mid' = Mid, NEW c \in Codes,
         port'.coming = Append(port.coming, c), Meant' = After(Meant, c)
  PROVE  OnTheWay'
<1>1. Leads(Mid, Append(port.coming, c), After(Meant, c))
  BY MidLeads, LeadsOn DEF KeyTypeOK
<1> QED
  BY <1>1 DEF OnTheWay, Mid

Code(k, up) == [key |-> k, up |-> up]

LEMMA SentIs ==
  ASSUME NEW q \in Seq(Codes), NEW k \in Keys, NEW up \in BOOLEAN
  PROVE  /\ Code(k, up) \in Codes /\ q \o Sent(k, up) \in Seq(Codes)
         /\ k = "arrow" => q \o Sent(k, up) = Append(Append(q, E0), Code(k, up))
         /\ k # "arrow" => q \o Sent(k, up) = Append(q, Code(k, up))
<1> DEFINE x == Code(k, up)
<1>1. x = Make(k) \/ x = Break(k)
  BY DEF Make, Break, Code
<1>2. x \in Codes /\ E0 \in Codes
  BY <1>1, CodesAre
<1> HIDE DEF x
<1>3. /\ q \o (<<E0>> \o <<x>>) = Append(Append(q, E0), x) /\ q \o (<<>> \o <<x>>) = Append(q, x)
      /\ Append(q, E0) \in Seq(Codes) /\ Append(q, x) \in Seq(Codes)
      /\ Append(Append(q, E0), x) \in Seq(Codes)
  BY <1>2
<1>4. Sent(k, up) = IF k = "arrow" THEN <<E0>> \o <<x>> ELSE <<>> \o <<x>>
  BY DEF Sent, x, Code
<1> QED
  BY <1>2, <1>3, <1>4 DEF x

(* A key pressed or released.                                               *)
LEMMA KeySent ==
  ASSUME KeyTypeOK, OnTheWay, Prefixed, InPoll, NEW k \in Keys, NEW up \in BOOLEAN,
         port' = [port EXCEPT !.coming = @ \o Sent(k, up)],
         UNCHANGED <<reader, e0ed, capsed, shifted, got>>,
         Meant' = After(Meant, Code(k, up))
  PROVE  OnTheWay' /\ Prefixed' /\ InPoll'
<1> DEFINE x == Code(k, up)
           q == port.coming
<1>0. q \in Seq(Codes) /\ Len(q) \in Nat
  BY KeyTypes
<1>1. x \in Codes /\ E0 \in Codes /\ q \in Seq(Codes) /\ Len(q) \in Nat
  BY <1>0, SentIs, CodesAre
<1>2. /\ port'.coming = IF k = "arrow" THEN Append(Append(q, E0), x) ELSE Append(q, x)
      /\ port'.full = port.full /\ port'.data = port.data
  BY <1>0, SentIs DEF KeyTypeOK
<1>3. x = Make("arrow") => k = "arrow"
  BY DEF Make, Code
<1> HIDE DEF x
<1>4. Now' = Now /\ Mid' = Mid
  <2>1. Now' = Now
    BY DEF Now, Soon
  <2> QED
    BY <1>2, <2>1 DEF Mid
<1>5. After(Meant, E0) = Meant
  <2>1. After(So(meant.text, "shift" \in held, meant.lock), E0)
          = So(meant.text, "shift" \in held, meant.lock)
    <3>1. ("shift" \in held) \in BOOLEAN
      OBVIOUS
    <3> QED
      BY <3>1, AnswerIgnored, Zenon
  <2> QED
    BY <2>1, IsSo
<1>6. OnTheWay'
  <2>1. Leads(Mid, q, Meant) /\ Leads(Mid, Append(q, E0), Meant)
    BY <1>1, <1>5, MidLeads, LeadsOn
  <2>2. Append(q, E0) \in Seq(Codes)
    BY <1>1
  <2>3. Leads(Mid, port'.coming, After(Meant, x))
    BY <1>1, <1>2, <2>1, <2>2, LeadsOn
  <2> QED
    BY <1>4, <2>3, Zenon DEF OnTheWay, Mid, x
<1>7. Prefixed'
  <2>1. ASSUME NEW n \in 1 .. Len(port'.coming), port'.coming[n] = Make("arrow"), n > 1
        PROVE  port'.coming[n - 1] = E0
    <3>1. CASE n \in 1 .. Len(q)
      <4>1. port'.coming[n] = q[n] /\ port'.coming[n - 1] = q[n - 1]
        BY <1>1, <1>2, <2>1, <3>1
      <4> QED
        BY <2>1, <3>1, <4>1 DEF Prefixed
    <3>2. CASE n \notin 1 .. Len(q)
      <4>1. k = "arrow" \/ port'.coming[n] = x
        BY <1>1, <1>2, <2>1, <3>2
      <4>2. k = "arrow" /\ port'.coming = Append(Append(q, E0), x)
        BY <1>2, <1>3, <2>1, <4>1
      <4>3. E0 # Make("arrow")
        BY CodesAre, KeysAre
      <4>4. n = Len(q) + 2
        <5> DEFINE s == Append(q, E0)
        <5>1. s \in Seq(Codes) /\ Len(s) = Len(q) + 1 /\ s[Len(q) + 1] = E0
          BY <1>1
        <5> HIDE DEF s
        <5>2. Len(Append(s, x)) = Len(q) + 2 /\ Append(s, x)[Len(q) + 1] = s[Len(q) + 1]
          BY <1>1, <5>1
        <5>3. n \in 1 .. Len(q) + 2 /\ n # Len(q) + 1
          BY <2>1, <4>2, <4>3, <5>1, <5>2 DEF s
        <5> QED
          BY <1>1, <3>2, <5>3
      <4> DEFINE s == Append(q, E0)
      <4>5. s \in Seq(Codes) /\ Len(s) = Len(q) + 1 /\ s[Len(q) + 1] = E0
        BY <1>1
      <4> HIDE DEF s
      <4>6. Append(s, x)[Len(q) + 1] = s[Len(q) + 1]
        BY <1>1, <4>5
      <4> QED
        BY <1>1, <4>2, <4>4, <4>5, <4>6 DEF s
    <3> QED
      BY <3>1, <3>2
  <2>2. ASSUME port'.coming[1] = Make("arrow"), Len(port'.coming) > 0
        PROVE  IF port'.full THEN port'.data = E0 ELSE e0ed'
    <3>1. E0 # Make("arrow")
      BY CodesAre, KeysAre
    <3>2. Len(q) > 0 /\ q[1] = Make("arrow")
      BY <1>1, <1>2, <1>3, <2>2, <3>1
    <3>3. 1 \in 1 .. Len(q) /\ ~(1 > 1)
      BY <1>1, <3>2
    <3>5. IF port.full THEN port.data = E0 ELSE e0ed
      BY <3>2, <3>3, Zenon DEF Prefixed
    <3>4. e0ed' = e0ed
      OBVIOUS
    <3> QED
      BY <1>2, <3>5, <3>4
  <2> QED
    BY <1>2, <2>1, <2>2 DEF Prefixed
<1>8. InPoll'
  BY <1>2 DEF InPoll
<1> QED
  BY <1>6, <1>7, <1>8

LEMMA PressKeeps ==
  ASSUME KeyTypeOK, NEW k \in Keys, Press(k)
  PROVE  /\ KeyTypeOK' /\ trouble' = trouble
         /\ OnTheWay /\ Prefixed /\ InPoll => OnTheWay' /\ Prefixed' /\ InPoll'
<1>1. port.coming \o Sent(k, FALSE) \in Seq(Codes)
  <2>1. port.coming \in Seq(Codes)
    BY DEF KeyTypeOK
  <2> QED
    BY <2>1, SentIs
<1>2. KeyTypeOK'
  <2>1. port' \in [data : Codes, full : BOOLEAN, coming : Seq(Codes)]
    BY <1>1 DEF Press, KeyTypeOK
  <2>2. meant'.lock \in BOOLEAN
    BY DEF Press, KeyTypeOK
  <2>3. events' \in 0 .. MaxEvents /\ held' \subseteq Keys
    <3>1. events \in Nat /\ events < MaxEvents /\ events' = events + 1
      BY KeyTypes DEF Press
    <3>2. events' \in 0 .. MaxEvents
      BY <3>1, KeyAssumption
    <3> QED
      BY <3>2 DEF Press, KeyTypeOK
  <2> QED
    BY <2>1, <2>2, <2>3 DEF Press, KeyTypeOK
<1>3. Meant' = After(Meant, Make(k))
  <2>1. Meaning(k, held, meant.lock) = Meaning(k, Down(Meant), meant.lock)
    BY DEF Meaning, Down, Meant
  <2>2. Meant' = [text |-> Taken(meant.text, Meaning(k, held, meant.lock)),
                  shifted |-> "shift" \in held \cup {k}, lock |-> meant.lock # (k = "caps")]
    BY DEF Press, Meant
  <2>3. After(Meant, Make(k)) =
          [text |-> Taken(Meant.text, Meaning(k, Down(Meant), Meant.lock)),
           shifted |-> Meant.shifted \/ k = "shift", lock |-> Meant.lock # (k = "caps")]
    BY CodesAre DEF After
  <2>4. ("shift" \in held \cup {k}) = ("shift" \in held \/ k = "shift")
    OBVIOUS
  <2>5. Meant.text = meant.text /\ Meant.shifted = ("shift" \in held) /\ Meant.lock = meant.lock
    BY DEF Meant
  <2> QED
    BY <2>1, <2>2, <2>3, <2>4, <2>5
<1> QED
  BY <1>2, <1>3, KeySent, Zenon DEF Press, Make, Code

LEMMA ReleaseKeeps ==
  ASSUME KeyTypeOK, NEW k \in Keys, Release(k)
  PROVE  /\ KeyTypeOK' /\ trouble' = trouble
         /\ OnTheWay /\ Prefixed /\ InPoll => OnTheWay' /\ Prefixed' /\ InPoll'
<1>1. port.coming \o Sent(k, TRUE) \in Seq(Codes)
  <2>1. port.coming \in Seq(Codes)
    BY DEF KeyTypeOK
  <2> QED
    BY <2>1, SentIs
<1>2. KeyTypeOK'
  <2>1. port' \in [data : Codes, full : BOOLEAN, coming : Seq(Codes)]
    BY <1>1 DEF Release, KeyTypeOK
  <2>3. events' \in 0 .. MaxEvents /\ held' \subseteq Keys
    <3>1. events \in Nat /\ events < MaxEvents /\ events' = events + 1
      BY KeyTypes DEF Release
    <3>2. events' \in 0 .. MaxEvents
      BY <3>1, KeyAssumption
    <3> QED
      BY <3>2 DEF Release, KeyTypeOK
  <2> QED
    BY <2>1, <2>3 DEF Release, KeyTypeOK
<1>3. Meant' = After(Meant, Break(k))
  <2>1. Meant' = [text |-> meant.text, shifted |-> "shift" \in held \ {k}, lock |-> meant.lock]
    BY DEF Release, Meant
  <2>2. After(Meant, Break(k)) =
          [text |-> meant.text, shifted |-> "shift" \in held /\ k # "shift", lock |-> meant.lock]
    BY CodesAre DEF After, Meant
  <2>3. ("shift" \in held \ {k}) = ("shift" \in held /\ k # "shift")
    OBVIOUS
  <2> QED
    BY <2>1, <2>2, <2>3
<1> QED
  BY <1>2, <1>3, KeySent, Zenon DEF Release, Break, Code

(* The steps of the reader.                                                 *)
Reads == [pc : {"poll", "second", "ask", "acknowledged", "lit"}, c : Codes]
Troubles == {"none", "outside", "leftover", "passed over", "dropped"}
OK == OnTheWay /\ Prefixed /\ InPoll

LEMMA ReadIs ==
  ASSUME KeyTypeOK, Read
  PROVE  /\ port' \in [data : Codes, full : BOOLEAN, coming : Seq(Codes)]
         /\ ~port'.full /\ port'.data = port.data /\ port'.coming = port.coming
         /\ ~port.full => port' = port
<1>1. port = [data |-> port.data, full |-> port.full, coming |-> port.coming]
      /\ port.full \in BOOLEAN
  BY KeyTypes
<1>2. port' = [data |-> port.data, full |-> FALSE, coming |-> port.coming]
  BY <1>1 DEF Read
<1>3. ~port.full => port.full = FALSE
  BY <1>1
<1> QED
  BY <1>1, <1>2, <1>3, KeyTypes

LEMMA TypesFrom ==
  ASSUME KeyTypeOK, port' \in [data : Codes, full : BOOLEAN, coming : Seq(Codes)],
         UNCHANGED <<held, meant, events>>, reader' \in Reads, trouble' \in Troubles,
         e0ed' \in BOOLEAN, capsed' \in BOOLEAN, shifted' \in BOOLEAN
  PROVE  KeyTypeOK'
BY DEF KeyTypeOK, Reads, Troubles

LEMMA PrefixRead ==
  ASSUME KeyTypeOK, Prefixed, Read, port.full => port.data # E0 \/ e0ed',
         ~port.full => e0ed' = e0ed
  PROVE  Prefixed'
<1>1. ~port'.full /\ port'.data = port.data /\ port'.coming = port.coming
  BY ReadIs
<1>2. ASSUME NEW n \in 1 .. Len(port.coming), port.coming[n] = Make("arrow"), ~(n > 1)
      PROVE  e0ed'
  BY <1>2 DEF Prefixed
<1> QED
  BY <1>1, <1>2, Zenon DEF Prefixed

LEMMA FirstIs ==
  ASSUME KeyTypeOK, NEW c \in Codes, First(c)
  PROVE  /\ reader.pc = "poll" /\ port.full /\ port.data = c /\ Read
         /\ UNCHANGED <<held, meant, events>> /\ Meant' = Meant
         /\ Now = So(got, shifted, capsed) /\ Mid = After(So(got, shifted, capsed), c)
<1>1. reader.pc = "poll" /\ port.full /\ port.data = c /\ Read /\ UNCHANGED <<held, meant, events>>
  BY DEF First
<1>2. Now = So(got, shifted, capsed)
  BY <1>1 DEF Now, So
<1> QED
  BY <1>1, <1>2, MeantStays DEF Mid

LEMMA PollPrefixKeeps ==
  ASSUME KeyTypeOK, PollPrefix
  PROVE  /\ KeyTypeOK' /\ (trouble' = "none" => trouble = "none")
         /\ trouble' = "none" /\ OK => OK'
<1>1. First(E0) /\ Decode(E0) /\ e0ed' = TRUE /\ capsed' = capsed /\ E0 \in Codes
  BY CodesAre DEF PollPrefix
<1>2. port.data = E0 /\ Read /\ UNCHANGED <<held, meant, events>> /\ Meant' = Meant
      /\ Mid = After(So(got, shifted, capsed), E0)
  BY <1>1, FirstIs
<1>3. /\ reader' \in Reads /\ trouble' \in Troubles /\ shifted' = (shifted \/ E0 = Make("shift"))
      /\ trouble' = "none" => trouble = "none"
      /\ shifted' => reader' = [pc |-> "second", c |-> E0]
      /\ ~shifted' => reader'.pc = "poll"
  BY <1>1, DecodeIs DEF Reads, Troubles
<1>4. KeyTypeOK'
  BY <1>1, <1>2, <1>3, ReadIs, KeyTypes, TypesFrom
<1>5. ASSUME trouble' = "none", OK PROVE OK'
  <2>1. E0 # Make("caps")
    BY CodesAre, KeysAre
  <2>2. Now' = Mid
    BY <1>1, <1>2, <1>5, <2>1, DecodeLeads
  <2>5. OnTheWay'
    BY <1>2, <1>5, <2>2, ReadIs, Consumed DEF OK
  <2>6. port.full
    BY <1>1, CodesAre, FirstIs
  <2>7. Prefixed'
    BY <1>1, <1>2, <1>5, <2>6, PrefixRead DEF OK
  <2>3. OnTheWay' /\ Prefixed'
    BY <2>5, <2>7
  <2>4. InPoll'
    <3>1. E0 # Make("shift") /\ port'.data = E0
      BY <1>2, CodesAre, KeysAre, ReadIs
    <3>2. CASE shifted'
      BY <1>3, <3>1, <3>2 DEF InPoll
    <3>3. CASE ~shifted'
      BY <1>3, <3>3 DEF InPoll
    <3> QED
      BY <3>2, <3>3
  <2> QED
    BY <2>3, <2>4 DEF OK
<1> QED
  BY <1>3, <1>4, <1>5

LEMMA PollBreakKeeps ==
  ASSUME KeyTypeOK, PollBreak
  PROVE  /\ KeyTypeOK' /\ (trouble' = "none" => trouble = "none")
         /\ trouble' = "none" /\ OK => OK'
<1>1. PICK c \in Codes : c.up /\ First(c) /\ shifted' = Unshifted(c)
  BY DEF PollBreak
<1>2. Return(Nothing, "none") /\ UNCHANGED <<e0ed, capsed>>
  BY DEF PollBreak
<1>3. port.full /\ port.data = c /\ Read /\ UNCHANGED <<held, meant, events>> /\ Meant' = Meant
      /\ Mid = After(So(got, shifted, capsed), c)
  BY <1>1, FirstIs
<1>4. /\ reader' \in Reads /\ trouble' \in Troubles /\ reader'.pc = "poll" /\ got' = got
      /\ trouble' = "none" => trouble = "none"
  BY <1>2, ReturnTypes, NothingTaken DEF Reads, Troubles
<1>5. shifted' = (shifted /\ c # Break("shift")) /\ shifted' \in BOOLEAN
  BY <1>1, KeyTypes DEF Unshifted
<1>6. KeyTypeOK'
  BY <1>2, <1>3, <1>4, <1>5, ReadIs, KeyTypes, TypesFrom
<1>7. ~InTable(c) /\ c # E0
  BY <1>1, CodesAre DEF InTable
<1>8. ASSUME trouble' = "none", OK PROVE OK'
  <2>1. Now' = So(got, shifted', capsed)
    BY <1>2, <1>4 DEF Now, So
  <2>2. Mid = So(got, shifted /\ c # Break("shift"), capsed)
    BY <1>3, <1>7 DEF After, So
  <2>3. OnTheWay'
    BY <1>3, <1>5, <1>8, <2>1, <2>2, ReadIs, Consumed DEF OK
  <2>4. Prefixed'
    BY <1>2, <1>3, <1>7, <1>8, PrefixRead DEF OK
  <2> QED
    BY <1>4, <2>3, <2>4 DEF OK, InPoll
<1> QED
  BY <1>4, <1>6, <1>8

LEMMA PollExtendedKeeps ==
  ASSUME KeyTypeOK, PollExtended
  PROVE  /\ KeyTypeOK' /\ (trouble' = "none" => trouble = "none")
         /\ trouble' = "none" /\ OK => OK'
<1>1. PICK k \in Keys : First(Make(k)) /\ Return(keymap[k][3], IF k = "arrow" THEN "none" ELSE "leftover")
  BY DEF PollExtended
<1>2. e0ed' = FALSE /\ UNCHANGED <<capsed, shifted>> /\ Make(k) \in Codes
  BY CodesAre DEF PollExtended
<1>3. port.full /\ port.data = Make(k) /\ Read /\ UNCHANGED <<held, meant, events>> /\ Meant' = Meant
      /\ Mid = After(So(got, shifted, capsed), Make(k))
  BY <1>1, <1>2, FirstIs
<1>4. /\ reader' \in Reads /\ trouble' \in Troubles /\ reader'.pc = "poll"
      /\ got' = Taken(got, keymap[k][3])
      /\ trouble' = "none" => trouble = "none" /\ k = "arrow"
  BY <1>1, ReturnTypes DEF Reads, Troubles
<1>5. KeyTypeOK'
  BY <1>2, <1>3, <1>4, ReadIs, KeyTypes, TypesFrom
<1>6. ASSUME trouble' = "none", OK PROVE OK'
  <2>1. k = "arrow" /\ got' = got
    BY <1>4, <1>6, KeysAre, NothingTaken
  <2>2. Now' = So(got, shifted, capsed)
    BY <1>2, <1>4, <2>1 DEF Now, So
  <2>3. /\ InTable(Make(k)) /\ Make(k).key = "arrow" /\ Make(k) # E0
        /\ "arrow" # "shift" /\ "arrow" # "caps"
    BY <2>1, CodesAre
  <2>4. After(So(got, shifted, capsed), Make(k)) = So(got, shifted \/ FALSE, capsed # FALSE)
    <3>1. Taken(got, Meaning("arrow", Down(So(got, shifted, capsed)), capsed)) = got
      BY Columns, NothingTaken
    <3> QED
      BY <2>3, <3>1 DEF After, So
  <2>5. (shifted \/ FALSE) = shifted /\ (capsed # FALSE) = capsed
    BY KeyTypes
  <2>6. OnTheWay'
    BY <1>3, <1>6, <2>2, <2>4, <2>5, ReadIs, Consumed DEF OK
  <2>7. Prefixed'
    BY <1>3, <1>6, <2>3, PrefixRead DEF OK
  <2> QED
    BY <1>4, <2>6, <2>7 DEF OK, InPoll
<1> QED
  BY <1>4, <1>5, <1>6

LEMMA PollKeyKeeps ==
  ASSUME KeyTypeOK, PollKey
  PROVE  /\ KeyTypeOK' /\ (trouble' = "none" => trouble = "none")
         /\ trouble' = "none" /\ OK => OK'
<1>1. PICK k \in Keys \ {"caps"} : First(Make(k)) /\ Decode(Make(k))
  BY DEF PollKey
<1>2. ~e0ed /\ UNCHANGED <<e0ed, capsed>> /\ Make(k) \in Codes
  BY CodesAre DEF PollKey
<1>3. port.full /\ port.data = Make(k) /\ Read /\ UNCHANGED <<held, meant, events>> /\ Meant' = Meant
      /\ Mid = After(So(got, shifted, capsed), Make(k))
  BY <1>1, <1>2, FirstIs
<1>4. /\ reader' \in Reads /\ trouble' \in Troubles
      /\ shifted' = (shifted \/ Make(k) = Make("shift"))
      /\ trouble' = "none" => trouble = "none"
      /\ shifted' => reader' = [pc |-> "second", c |-> Make(k)]
      /\ ~shifted' => reader'.pc = "poll"
  BY <1>1, <1>2, DecodeIs DEF Reads, Troubles
<1>5. KeyTypeOK'
  BY <1>2, <1>3, <1>4, ReadIs, KeyTypes, TypesFrom
<1>6. ASSUME trouble' = "none", OK PROVE OK'
  <2>1. k \in Keys \ {"arrow"}
    BY <1>2, <1>3, <1>6 DEF OK, Prefixed
  <2>2. Make(k) # Make("caps") /\ Make(k) # E0
    BY CodesAre, KeysAre
  <2>3. Now' = Mid
    BY <1>1, <1>2, <1>3, <1>6, <2>1, <2>2, DecodeLeads
  <2>4. OnTheWay'
    BY <1>3, <1>6, <2>3, ReadIs, Consumed DEF OK
  <2>5. Prefixed'
    BY <1>2, <1>3, <1>6, <2>2, PrefixRead DEF OK
  <2>6. port'.data = Make(k)
    BY <1>3, ReadIs
  <2>7. CASE shifted'
    <3>1. reader'.pc = "second" /\ reader'.c = Make(k) /\ ~e0ed'
      BY <1>2, <1>4, <2>7
    <3> QED
      BY <2>1, <2>4, <2>5, <2>6, <2>7, <3>1 DEF OK, InPoll
  <2>8. CASE ~shifted'
    BY <1>4, <2>4, <2>5, <2>8 DEF OK, InPoll
  <2> QED
    BY <2>7, <2>8
<1> QED
  BY <1>4, <1>5, <1>6

LEMMA PollCapsKeeps ==
  ASSUME KeyTypeOK, PollCaps
  PROVE  /\ KeyTypeOK' /\ (trouble' = "none" => trouble = "none")
         /\ trouble' = "none" /\ OK => OK'
<1> DEFINE c == Make("caps")
<1>0. c \in Codes /\ InTable(c) /\ c.key = "caps" /\ c # E0
  BY CodesAre, KeysAre
<1>1. /\ First(c) /\ capsed' = ~capsed /\ UNCHANGED <<e0ed, shifted>>
      /\ reader' = [pc |-> "ask", c |-> c] /\ UNCHANGED <<got, trouble>>
  BY DEF PollCaps, ToStep
<1> HIDE DEF c
<1>3. port.full /\ port.data = c /\ Read /\ UNCHANGED <<held, meant, events>> /\ Meant' = Meant
      /\ Mid = After(So(got, shifted, capsed), c)
  BY <1>0, <1>1, FirstIs
<1>4. reader' \in Reads /\ trouble' \in Troubles /\ capsed' \in BOOLEAN
  BY <1>0, <1>1 DEF Reads, Troubles, KeyTypeOK
<1>5. KeyTypeOK'
  BY <1>1, <1>3, <1>4, ReadIs, KeyTypes, TypesFrom
<1>6. ASSUME trouble' = "none", OK PROVE OK'
  <2>1. Now' = So(got, shifted, ~capsed)
    BY <1>1 DEF Now, So
  <2>2. After(So(got, shifted, capsed), c) = So(got, shifted \/ FALSE, capsed # TRUE)
    <3>1. Taken(got, Meaning("caps", Down(So(got, shifted, capsed)), capsed)) = got
      BY Columns, NothingTaken
    <3> QED
      BY <1>0, <3>1 DEF After, So
  <2>3. (shifted \/ FALSE) = shifted /\ (capsed # TRUE) = ~capsed
    BY KeyTypes
  <2>4. OnTheWay'
    BY <1>3, <1>6, <2>1, <2>2, <2>3, ReadIs, Consumed DEF OK
  <2>5. Prefixed'
    BY <1>0, <1>3, <1>6, PrefixRead DEF OK
  <2>6. port'.data = c /\ reader'.c = c /\ reader'.pc = "ask"
    BY <1>1, <1>3, ReadIs
  <2> QED
    BY <2>4, <2>5, <2>6 DEF OK, InPoll, c
<1> QED
  BY <1>1, <1>5, <1>6

(* The second read.                                                         *)
LEMMA SecondKeeps ==
  ASSUME KeyTypeOK, Second
  PROVE  /\ KeyTypeOK' /\ (trouble' = "none" => trouble = "none")
         /\ trouble' = "none" /\ OK => OK'
<1> DEFINE d == port.data
           c == reader.c
           column == IF capsed THEN 1 ELSE 2
           values == IF d = Break("shift") /\ ~capsed THEN {Nothing} ELSE Looked(d, column)
<1>1. /\ reader.pc = "second" /\ Read /\ shifted' = Unshifted(d)
      /\ UNCHANGED <<held, e0ed, capsed, meant, events>> /\ Meant' = Meant
  BY MeantStays DEF Second
<1>2. PICK v \in values : Return(v, IF PassedOver THEN "passed over" ELSE Outside(d, v))
  BY DEF Second
<1>3. /\ reader' \in Reads /\ trouble' \in Troubles /\ reader'.pc = "poll" /\ got' = Taken(got, v)
      /\ trouble' = "none" => trouble = "none" /\ ~PassedOver /\ Outside(d, v) = "none"
  BY <1>2, ReturnTypes, OutsideIs DEF Reads, Troubles
<1>4. shifted' \in BOOLEAN /\ d \in Codes /\ c \in Codes
      /\ shifted' = (shifted /\ d # Break("shift"))
  BY <1>1, KeyTypes DEF Unshifted
<1>5. KeyTypeOK'
  BY <1>1, <1>3, <1>4, ReadIs, KeyTypes, TypesFrom
<1>6. ASSUME trouble' = "none", OK PROVE OK'
  <2> DEFINE add == IF InTable(d) THEN keymap[d.key][column] ELSE Nothing
  <2>1. v = add
    <3>1. CASE d = Break("shift") /\ ~capsed
      <4>1. ~InTable(d) /\ values = {Nothing}
        BY <3>1, CodesAre, KeysAre
      <4> QED
        BY <4>1
    <3>2. CASE ~(d = Break("shift") /\ ~capsed)
      BY <1>3, <1>6, <3>2, LookedUp
    <3> QED
      BY <3>1, <3>2
  <2>2. /\ shifted /\ (c = E0 \/ \E k \in Keys \ {"arrow"} : c = Make(k))
        /\ c = Make("shift") => ~e0ed
        /\ port.full \/ d = c \/ (c = Make("caps") /\ d = Ack)
        /\ port.full => c = Make("shift") /\ d # Make("caps") /\ d # E0
    BY <1>1, <1>3, <1>6 DEF OK, InPoll, PassedOver
  <2>3. Now' = So(Taken(got, add), shifted', capsed)
    BY <1>1, <1>3, <2>1 DEF Now, So
  <2>4. Now = So(Soon(c), shifted, capsed)
    BY <1>1 DEF Now, So
  <2>5. Now' = Mid
    <3>1. CASE port.full
      <4>1. Soon(c) = got
        <5>1. InTable(c) /\ c.key = "shift" /\ keymap["shift"][column] = Nothing
          BY <2>2, <3>1, CodesAre, KeysAre
        <5> QED
          BY <5>1, NothingTaken DEF Soon
      <4>2. Mid = After(So(got, shifted, capsed), d) /\ shifted = TRUE
        BY <2>2, <2>4, <3>1, <4>1, KeyTypes DEF Mid
      <4>3. CASE InTable(d)
        <5>1. d.key \in Keys \ {"arrow", "caps"} /\ d = Make(d.key) /\ d # Break("shift")
          <6>1. PICK k \in Keys : d = Make(k) /\ d.key = k
            BY <1>4, <4>3, CodesAre DEF InTable
          <6>2. d # Make("arrow")
            BY <1>6, <2>2, <3>1 DEF OK, Prefixed
          <6> QED
            BY <2>2, <3>1, <6>1, <6>2, CodesAre, KeysAre
        <5>2. Down(So(got, shifted, capsed)) = {"shift"} /\ capsed \in BOOLEAN
          BY <4>2, KeyTypes DEF Down, So
        <5>3. Meaning(d.key, {"shift"}, capsed) = keymap[d.key][column]
          BY <5>1, <5>2, Columns
        <5>4. After(So(got, shifted, capsed), d)
                = So(Taken(got, Meaning(d.key, {"shift"}, capsed)), shifted \/ d.key = "shift",
                     capsed # (d.key = "caps"))
          BY <4>3, <5>2 DEF After, So
        <5>5. (shifted \/ d.key = "shift") = shifted' /\ (capsed # (d.key = "caps")) = capsed
          BY <1>4, <4>2, <5>1, <5>2
        <5> QED
          BY <2>3, <4>2, <4>3, <5>3, <5>4, <5>5
      <4>4. CASE ~InTable(d)
        <5>1. After(So(got, shifted, capsed), d) = So(got, shifted /\ d # Break("shift"), capsed)
          BY <4>4 DEF After, So
        <5> QED
          BY <1>4, <2>3, <4>2, <4>4, <5>1, NothingTaken
      <4> QED
        BY <4>3, <4>4
    <3>2. CASE ~port.full
      <4>1. d # Break("shift") /\ shifted' = shifted
        <5>1. c # Break("shift") /\ Ack # Break("shift")
          BY <2>2, CodesAre
        <5> QED
          BY <1>4, <2>2, <3>2, <5>1, KeyTypes
      <4>2. Soon(c) = Taken(got, add)
        <5>1. CASE d = c
          BY <5>1, NothingTaken DEF Soon
        <5>2. CASE c = Make("caps") /\ d = Ack
          <6>1. InTable(c) /\ c.key = "caps" /\ ~InTable(d) /\ keymap["caps"][column] = Nothing
            BY <5>2, CodesAre, KeysAre
          <6> QED
            BY <6>1, NothingTaken DEF Soon
        <5> QED
          BY <2>2, <3>2, <5>1, <5>2
      <4> QED
        BY <2>3, <2>4, <3>2, <4>1, <4>2 DEF Mid
    <3> QED
      BY <3>1, <3>2
  <2>6. OnTheWay'
    BY <1>1, <1>6, <2>5, ReadIs, Consumed DEF OK
  <2>7. Prefixed'
    BY <1>1, <1>6, <2>2, PrefixRead DEF OK
  <2> QED
    BY <1>3, <2>6, <2>7 DEF OK, InPoll
<1> QED
  BY <1>3, <1>5, <1>6

(* The lights of the keyboard.                                              *)
Lit == {"ask", "acknowledged", "lit"}

LEMMA InLights ==
  ASSUME KeyTypeOK, reader.pc \in Lit
  PROVE  /\ Now = So(got, shifted, capsed)
         /\ InPoll => reader.c = Make("caps") /\ (port.full \/ port.data \in {Make("caps"), Ack})
         /\ Make("caps") \in Codes
<1>1. Now = So(got, shifted, capsed)
  BY DEF Lit, Now, So
<1> QED
  BY <1>1, CodesAre, KeysAre DEF Lit, InPoll

(* Decoding goes on, the port as it is or with the answer read.             *)
LEMMA LightsEnd ==
  ASSUME KeyTypeOK, reader.pc \in Lit, LightsDone, UNCHANGED <<held, e0ed, capsed, meant, events>>,
         UNCHANGED port \/ (Read /\ port.data = Ack)
  PROVE  /\ KeyTypeOK' /\ (trouble' = "none" => trouble = "none")
         /\ trouble' = "none" /\ OK => OK'
<1> DEFINE c == Make("caps")
<1>1. c \in Codes /\ Decode(c) /\ c # Make("shift") /\ \E k \in Keys \ {"arrow"} : c = Make(k)
  BY CodesAre, KeysAre DEF LightsDone
<1> HIDE DEF c
<1>2. /\ reader' \in Reads /\ trouble' \in Troubles /\ shifted' = (shifted \/ c = Make("shift"))
      /\ trouble' = "none" => trouble = "none"
      /\ shifted' => reader' = [pc |-> "second", c |-> c]
      /\ ~shifted' => reader'.pc = "poll"
  BY <1>1, DecodeIs DEF Reads, Troubles
<1>3. KeyTypeOK'
  <2>1. port' \in [data : Codes, full : BOOLEAN, coming : Seq(Codes)]
    BY ReadIs DEF KeyTypeOK
  <2> QED
    BY <1>1, <1>2, <2>1, KeyTypes, TypesFrom
<1>4. ASSUME trouble' = "none", OK PROVE OK'
  <2>1. Now' = So(got, shifted, capsed) /\ Now = So(got, shifted, capsed) /\ Meant' = Meant
    BY <1>1, <1>4, DecodeLeads, InLights, MeantStays DEF c
  <2>2. CASE UNCHANGED port
    <3>1. OnTheWay'
      BY <1>4, <2>1, <2>2 DEF OK, OnTheWay
    <3>2. Prefixed'
      BY <1>4, <2>2 DEF OK, Prefixed
    <3> QED
      BY <3>1, <3>2, <2>2, <1>1, <1>2, <1>4, InLights DEF OK, InPoll, c
  <2>3. CASE Read /\ port.data = Ack
    <3>1. Mid = Now
      BY <2>1, <2>3, AnswerIgnored, KeyTypes DEF Mid
    <3>2. OnTheWay'
      BY <1>4, <2>1, <2>3, <3>1, ReadIs, Consumed DEF OK
    <3>3. Prefixed'
      BY <1>4, <2>3, CodesAre, PrefixRead DEF OK
    <3>4. port'.data = Ack
      BY <2>3, ReadIs
    <3> QED
      BY <3>2, <3>3, <3>4, <1>1, <1>2 DEF OK, InPoll, c
  <2> QED
    BY <2>2, <2>3
<1> QED
  BY <1>2, <1>3, <1>4

(* The keyboard answers; an answer that was there may have been read.       *)
LEMMA AskedLights ==
  ASSUME KeyTypeOK, reader.pc \in Lit, NEW step \in Lit, ToStep(step, reader.c),
         UNCHANGED <<held, e0ed, capsed, meant, events, shifted>>,
         port'.coming = Append(port.coming, Ack),
         port' \in [data : Codes, full : BOOLEAN, coming : Seq(Codes)], port'.data = port.data,
         port'.full = port.full \/ (~port'.full /\ port.data = Ack)
  PROVE  /\ KeyTypeOK' /\ trouble' = trouble
         /\ OK => OK'
<1>1. reader' = [pc |-> step, c |-> reader.c] /\ UNCHANGED <<got, trouble>>
  BY DEF ToStep
<1>2. reader' \in Reads /\ trouble' \in Troubles
  BY <1>1, KeyTypes DEF Reads, Troubles, Lit, KeyTypeOK
<1>3. KeyTypeOK'
  BY <1>2, KeyTypes, TypesFrom
<1>4. ASSUME OK PROVE OK'
  <2>1. Now = So(got, shifted, capsed) /\ Now' = So(got, shifted, capsed) /\ Meant' = Meant
    <3>1. Now' = So(got, shifted, capsed)
      BY <1>1 DEF Now, So, Lit
    <3> QED
      BY <3>1, InLights, MeantStays
  <2>2. Ack \in Codes /\ Ack # E0 /\ Ack # Make("arrow") /\ shifted \in BOOLEAN
    BY CodesAre, KeysAre, KeyTypes
  <2>3. After(Now, Ack) = Now
    BY <2>1, <2>2, AnswerIgnored
  <2>4. Mid' = Mid
    BY <2>1, <2>3 DEF Mid
  <2>5. After(Meant, Ack) = Meant
    <3>1. ("shift" \in held) \in BOOLEAN
      OBVIOUS
    <3>2. After(So(meant.text, "shift" \in held, meant.lock), Ack)
            = So(meant.text, "shift" \in held, meant.lock)
      BY <3>1, AnswerIgnored, Zenon
    <3> QED
      BY <3>2, IsSo
  <2>6. OnTheWay'
    BY <1>4, <2>1, <2>2, <2>4, <2>5, Appended DEF OK
  <2>7. Prefixed'
    <3> DEFINE q == port.coming
    <3>1. q \in Seq(Codes) /\ Len(q) \in Nat /\ port.full \in BOOLEAN /\ port'.full \in BOOLEAN
      BY KeyTypes
    <3>2. ASSUME NEW n \in 1 .. Len(port'.coming), port'.coming[n] = Make("arrow")
          PROVE  /\ n \in 1 .. Len(q) /\ q[n] = Make("arrow")
                 /\ n > 1 => port'.coming[n - 1] = q[n - 1]
      BY <2>2, <3>1, <3>2
    <3> HIDE DEF q
    <3>3. ASSUME NEW n \in 1 .. Len(port'.coming), port'.coming[n] = Make("arrow")
          PROVE  IF n > 1 THEN port'.coming[n - 1] = E0
                 ELSE IF port'.full THEN port'.data = E0 ELSE e0ed'
      <4>1. IF n > 1 THEN q[n - 1] = E0 ELSE IF port.full THEN port.data = E0 ELSE e0ed
        BY <1>4, <3>2, <3>3 DEF OK, Prefixed, q
      <4> QED
        BY <2>2, <3>1, <3>2, <3>3, <4>1
    <3>4. port'.full /\ port'.data = Make("arrow") => e0ed'
      BY <1>4, <2>2, <3>1 DEF OK, Prefixed
    <3> QED
      BY <3>3, <3>4 DEF Prefixed
  <2>8. InPoll'
    <3>1. reader'.pc \in Lit /\ reader'.c = Make("caps")
          /\ (port'.full \/ port'.data \in {Make("caps"), Ack})
      BY <1>1, <1>4, InLights, KeyTypes DEF OK
    <3> QED
      BY <3>1 DEF InPoll, Lit
  <2> QED
    BY <2>6, <2>7, <2>8 DEF OK
<1> QED
  BY <1>1, <1>3, <1>4

LEMMA LightsAskKeeps ==
  ASSUME KeyTypeOK, LightsAsk
  PROVE  /\ KeyTypeOK' /\ (trouble' = "none" => trouble = "none")
         /\ trouble' = "none" /\ OK => OK'
<1>1. reader.pc \in Lit /\ UNCHANGED <<held, e0ed, capsed, meant, events>>
  BY DEF LightsAsk, Lit
<1>2. CASE LightsDone /\ UNCHANGED port
  BY <1>1, <1>2, LightsEnd
<1>3. CASE /\ port' = [port EXCEPT !.coming = Append(@, Ack)]
           /\ ToStep("acknowledged", reader.c) /\ UNCHANGED shifted
  <2>1. Append(port.coming, Ack) \in Seq(Codes)
    BY KeyTypes, CodesAre
  <2>2. port' = [data |-> port.data, full |-> port.full, coming |-> Append(port.coming, Ack)]
    BY <1>3, KeyTypes
  <2>3. /\ port' \in [data : Codes, full : BOOLEAN, coming : Seq(Codes)]
        /\ port'.coming = Append(port.coming, Ack) /\ port'.data = port.data
        /\ port'.full = port.full
    BY <2>1, <2>2, KeyTypes
  <2>4. "acknowledged" \in Lit
    BY DEF Lit
  <2> QED
    BY <1>1, <1>3, <2>3, <2>4, AskedLights
<1> QED
  BY <1>2, <1>3 DEF LightsAsk

LEMMA DropKeeps ==
  ASSUME KeyTypeOK, NEW step, DropByte(step), UNCHANGED <<held, e0ed, capsed, meant, events>>
  PROVE  /\ KeyTypeOK' /\ (trouble' = "none" => trouble = "none")
         /\ trouble' = "none" /\ OK => OK'
<1>1. Read /\ UNCHANGED <<reader, shifted, got>> /\ port.data # Ack
      /\ trouble' = Worse(IF Dropped THEN "dropped" ELSE "none")
  BY DEF DropByte
<1>2. trouble' \in Troubles /\ (trouble' = "none" => trouble = "none" /\ ~Dropped)
  <2> DEFINE why == IF Dropped THEN "dropped" ELSE "none"
  <2>1. why \in {"none", "dropped"} /\ (why = "none" <=> ~Dropped)
    OBVIOUS
  <2>2. trouble' = Worse(why)
    BY <1>1
  <2> HIDE DEF why
  <2> QED
    BY <2>1, <2>2, WorseIs DEF Troubles
<1>3. reader' \in Reads
  BY <1>1 DEF KeyTypeOK, Reads
<1>4. KeyTypeOK'
  BY <1>1, <1>2, <1>3, ReadIs, KeyTypes, TypesFrom
<1>5. ASSUME trouble' = "none", OK PROVE OK'
  <2>1. port' = port
    BY <1>1, <1>2, <1>5, ReadIs DEF Dropped
  <2>2. Now' = Now /\ Meant' = Meant
    BY <1>1, MeantStays DEF Now, Soon
  <2>3. OnTheWay'
    BY <1>5, <2>1, <2>2 DEF OK, OnTheWay
  <2> QED
    BY <1>1, <1>5, <2>1, <2>3 DEF OK, Prefixed, InPoll
<1> QED
  BY <1>2, <1>4, <1>5

LEMMA LightsTellKeeps ==
  ASSUME KeyTypeOK, LightsTell
  PROVE  /\ KeyTypeOK' /\ (trouble' = "none" => trouble = "none")
         /\ trouble' = "none" /\ OK => OK'
<1>1. UNCHANGED <<held, e0ed, capsed, meant, events>>
  BY DEF LightsTell
<1>2. CASE DropByte("acknowledged")
  BY <1>1, <1>2, DropKeeps
<1>3. CASE /\ reader.pc = "acknowledged" /\ port.data = Ack
           /\ port' = [port EXCEPT !.full = FALSE, !.coming = Append(@, Ack)]
           /\ ToStep("lit", reader.c) /\ UNCHANGED shifted
  <2>1. Append(port.coming, Ack) \in Seq(Codes)
    BY KeyTypes, CodesAre
  <2>2. port' = [data |-> port.data, full |-> FALSE, coming |-> Append(port.coming, Ack)]
    BY <1>3, KeyTypes
  <2>3. /\ port' \in [data : Codes, full : BOOLEAN, coming : Seq(Codes)]
        /\ port'.coming = Append(port.coming, Ack) /\ port'.data = port.data
        /\ ~port'.full
    BY <2>1, <2>2, KeyTypes
  <2>4. "lit" \in Lit /\ reader.pc \in Lit
    BY <1>3 DEF Lit
  <2> QED
    BY <1>1, <1>3, <2>3, <2>4, AskedLights
<1>4. CASE reader.pc = "acknowledged" /\ LightsDone /\ UNCHANGED port
  BY <1>1, <1>4, LightsEnd DEF Lit
<1> QED
  BY <1>2, <1>3, <1>4 DEF LightsTell

LEMMA LightsLitKeeps ==
  ASSUME KeyTypeOK, LightsLit
  PROVE  /\ KeyTypeOK' /\ (trouble' = "none" => trouble = "none")
         /\ trouble' = "none" /\ OK => OK'
<1>1. UNCHANGED <<held, e0ed, capsed, meant, events>>
  BY DEF LightsLit
<1>2. CASE DropByte("lit")
  BY <1>1, <1>2, DropKeeps
<1>3. CASE reader.pc = "lit" /\ port.data = Ack /\ Read /\ LightsDone
  BY <1>1, <1>3, LightsEnd DEF Lit
<1> QED
  BY <1>2, <1>3 DEF LightsLit

(* A byte gets into the port.                                               *)
LEMMA ArriveKeeps ==
  ASSUME KeyTypeOK, Arrive
  PROVE  /\ KeyTypeOK' /\ trouble' = trouble
         /\ OK => OK'
<1> DEFINE q == port.coming
<1>1. /\ ~port.full /\ q # <<>>
      /\ port' = [data |-> Head(q), full |-> TRUE, coming |-> Tail(q)]
      /\ UNCHANGED <<held, e0ed, capsed, shifted, reader, got, meant, trouble, events>>
  BY DEF Arrive
<1>2. q \in Seq(Codes) /\ Len(q) \in Nat \ {0} /\ Head(q) = q[1] /\ Head(q) \in Codes
      /\ Tail(q) \in Seq(Codes) /\ Len(Tail(q)) = Len(q) - 1
      /\ \A n \in 1 .. Len(q) - 1 : Tail(q)[n] = q[n + 1]
  BY <1>1, KeyTypes
<1>3. KeyTypeOK'
  <2>1. port' \in [data : Codes, full : BOOLEAN, coming : Seq(Codes)]
    BY <1>1, <1>2
  <2>2. reader' \in Reads /\ trouble' \in Troubles
    BY <1>1 DEF KeyTypeOK, Reads, Troubles
  <2> QED
    BY <1>1, <2>1, <2>2, KeyTypes, TypesFrom
<1>4. ASSUME OK PROVE OK'
  <2>1. Now' = Now /\ Meant' = Meant
    BY <1>1, MeantStays DEF Now, Soon
  <2>2. OnTheWay'
    <3>1. Leads(Now, q, Meant)
      BY <1>1, <1>4 DEF OK, OnTheWay
    <3>2. Leads(After(Now, Head(q)), Tail(q), Meant)
      BY <1>1, <1>2, <3>1, LeadsFrom
    <3>3. port'.full /\ port'.data = Head(q) /\ port'.coming = Tail(q)
      BY <1>1
    <3> QED
      BY <2>1, <3>2, <3>3 DEF OnTheWay
  <2>3. Prefixed'
    <3>1. port'.full /\ port'.data = q[1] /\ port'.coming = Tail(q) /\ e0ed' = e0ed
      BY <1>1, <1>2
    <3>2. q[1] = Make("arrow") => e0ed
      BY <1>1, <1>2, <1>4 DEF OK, Prefixed
    <3>3. \A n \in 2 .. Len(q) : q[n] = Make("arrow") => q[n - 1] = E0
      BY <1>2, <1>4 DEF OK, Prefixed
    <3> HIDE DEF q
    <3>4. ASSUME NEW n \in 1 .. Len(q) - 1, Tail(q)[n] = Make("arrow")
          PROVE  IF n > 1 THEN Tail(q)[n - 1] = E0 ELSE q[1] = E0
      <4>1. n + 1 \in 2 .. Len(q) /\ q[n + 1] = Make("arrow") /\ (n + 1) - 1 = n
        BY <1>2, <3>4
      <4>2. q[n] = E0
        BY <3>3, <4>1
      <4> QED
        BY <1>2, <4>2
    <3> QED
      BY <1>2, <3>1, <3>2, <3>4 DEF Prefixed
  <2>4. InPoll'
    BY <1>1, <1>4 DEF OK, InPoll
  <2> QED
    BY <2>2, <2>3, <2>4 DEF OK
<1> QED
  BY <1>1, <1>3, <1>4

LEMMA KeyStarts == KeyInit => KeyIInv
<1> SUFFICES ASSUME KeyInit PROVE KeyIInv
  OBVIOUS
<1>1. port = [data |-> Ack, full |-> FALSE, coming |-> <<>>] /\ Ack \in Codes
  BY CodesAre DEF KeyInit
<1>2. KeyTypeOK
  <2>1. port \in [data : Codes, full : BOOLEAN, coming : Seq(Codes)]
    BY <1>1
  <2>2. reader \in [pc : {"poll", "second", "ask", "acknowledged", "lit"}, c : Codes]
    BY <1>1 DEF KeyInit
  <2>3. /\ held = {} /\ e0ed = FALSE /\ capsed = FALSE /\ shifted = FALSE /\ meant.lock = FALSE
        /\ trouble = "none" /\ events = 0
    BY DEF KeyInit
  <2>4. events \in 0 .. MaxEvents
    BY <2>3, KeyAssumption
  <2> QED
    BY <2>1, <2>2, <2>3, <2>4 DEF KeyTypeOK
<1>3. OnTheWay
  <2>1. Now = Meant
    <3>1. /\ reader.pc = "poll" /\ shifted = FALSE /\ capsed = FALSE /\ held = {}
          /\ meant.text = got /\ meant.lock = FALSE
      BY DEF KeyInit
    <3>2. Now = So(got, FALSE, FALSE)
      BY <3>1 DEF Now, So
    <3>3. ("shift" \in held) = FALSE
      BY <3>1
    <3> QED
      BY <3>1, <3>2, <3>3 DEF Meant, So
  <2>2. Leads(Now, <<>>, Now)
    <3> DEFINE f == [n \in 0 .. 0 |-> Now]
    <3>1. f[0] = Now /\ f[Len(<<>>)] = Now /\ \A n \in 1 .. Len(<<>>) : f[n] = After(f[n - 1], <<>>[n])
      OBVIOUS
    <3> HIDE DEF f
    <3> QED
      BY <3>1 DEF Leads
  <2> QED
    BY <1>1, <2>1, <2>2 DEF OnTheWay
<1>4. Prefixed /\ InPoll
  BY <1>1 DEF KeyInit, Prefixed, InPoll
<1> QED
  BY <1>2, <1>3, <1>4 DEF KeyIInv

LEMMA KeyStep == KeyIInv /\ [KeyNext]_keyVars => KeyIInv'
<1> SUFFICES ASSUME KeyIInv, [KeyNext]_keyVars PROVE KeyIInv'
  OBVIOUS
<1>0. KeyTypeOK /\ (trouble = "none" => OK)
  BY DEF KeyIInv, OK
<1>1. CASE \E k \in Keys : Press(k) \/ Release(k)
  BY <1>0, <1>1, PressKeeps, ReleaseKeeps DEF KeyIInv, OK
<1>2. CASE Arrive
  BY <1>0, <1>2, ArriveKeeps DEF KeyIInv, OK
<1>3. CASE PollPrefix \/ PollBreak \/ PollExtended \/ PollKey \/ PollCaps \/ Second
  BY <1>0, <1>3, PollPrefixKeeps, PollBreakKeeps, PollExtendedKeeps, PollKeyKeeps, PollCapsKeeps,
     SecondKeeps DEF KeyIInv, OK
<1>4. CASE LightsAsk \/ LightsTell \/ LightsLit
  BY <1>0, <1>4, LightsAskKeeps, LightsTellKeeps, LightsLitKeeps DEF KeyIInv, OK
<1>5. CASE UNCHANGED keyVars
  BY <1>0, <1>5 DEF keyVars, KeyIInv, KeyTypeOK, OK, OnTheWay, Now, Soon, Meant, Prefixed, InPoll
<1> QED
  BY <1>1, <1>2, <1>3, <1>4, <1>5 DEF KeyNext

(* Whatever is typed, in whatever order keys go down and up and the port    *)
(* is read: gets() reads what the keys mean, and knows the shift keys and   *)
(* the lock, but for the four troubles (PS2Controller.cpp 44-138).          *)
THEOREM Typing == KeySpec => []TypedIsMeant
<1>1. KeyIInv => TypedIsMeant
  <2> SUFFICES ASSUME KeyIInv, Quiet, trouble = "none"
               PROVE  got = meant.text /\ shifted = ("shift" \in held) /\ capsed = meant.lock
    BY DEF TypedIsMeant
  <2>1. Leads(Now, <<>>, Meant)
    BY DEF KeyIInv, OnTheWay, Quiet
  <2>2. Now = Meant
    BY <2>1, LeadsNowhere
  <2> QED
    BY <2>2 DEF Now, Meant, Quiet
<1> QED
  BY <1>1, KeyStarts, KeyStep, PTL DEF KeySpec

----------------------------------------------------------------------------
(* The iterator.                                                            *)
Goes(link, e, n, at) == at[0] = e /\ \A k \in 1 .. n : at[k] = link[at[k - 1]]

(* From everywhere one can go n steps, and Steps is where they lead.        *)
LEMMA OneGoes ==
  ASSUME NEW link, NEW e, NEW n \in Nat
  PROVE  \E at : Goes(link, e, n, at)
<1> DEFINE Stuck == {m \in 0 .. n : ~\E at : Goes(link, e, m, at)}
<1>1. Stuck \subseteq Nat
  OBVIOUS
<1>2. CASE Stuck # {}
  <2>1. PICK m \in Stuck : \A k \in Stuck : m <= k
    BY <1>1, <1>2, LeastOf
  <2>2. m \in 0 .. n /\ ~\E at : Goes(link, e, m, at)
    BY <2>1
  <2>3. Goes(link, e, 0, [k \in {0} |-> e])
    BY DEF Goes
  <2>4. m # 0
    BY <2>2, <2>3
  <2>5. m - 1 \in 0 .. n /\ m - 1 \notin Stuck
    BY <2>1, <2>2, <2>4
  <2>6. PICK at : Goes(link, e, m - 1, at)
    BY <2>5
  <2> DEFINE to == [k \in 0 .. m |-> IF k = m THEN link[at[m - 1]] ELSE at[k]]
  <2>7. to[0] = e
    BY <2>2, <2>4, <2>6 DEF Goes
  <2>8. ASSUME NEW k \in 1 .. m PROVE to[k] = link[to[k - 1]]
    <3>1. k - 1 \in 0 .. m /\ k \in 0 .. m /\ k - 1 # m
      BY <2>2
    <3>2. to[k - 1] = at[k - 1]
      BY <3>1
    <3>3. CASE k = m
      BY <3>1, <3>2, <3>3
    <3>4. CASE k # m
      <4>1. k \in 1 .. m - 1
        BY <2>2, <3>4
      <4>2. to[k] = at[k]
        BY <3>1, <3>4
      <4> QED
        BY <2>6, <3>2, <4>1, <4>2 DEF Goes
    <3> QED
      BY <3>3, <3>4
  <2>9. Goes(link, e, m, to)
    <3> HIDE DEF to
    <3> QED
      BY <2>7, <2>8 DEF Goes
  <2> QED
    BY <2>2, <2>9
<1>3. CASE Stuck = {}
  BY <1>3
<1> QED
  BY <1>2, <1>3

LEMMA StepsGo ==
  ASSUME NEW link, NEW e, NEW n \in Nat, NEW to, Goes(link, e, n, to)
  PROVE  Steps(link, e, n) = to[n]
<1> DEFINE Is(f) == f = [k \in 0 .. n |-> IF k = 0 THEN e ELSE link[f[k - 1]]]
           at == CHOOSE f : Is(f)
           g == [k \in 0 .. n |-> to[k]]
<1>1. Steps(link, e, n) = at[n]
  BY DEF Steps
<1>2. g = [k \in 0 .. n |-> g[k]] /\ \A k \in 0 .. n : g[k] = to[k]
  OBVIOUS
<1> HIDE DEF g
<1>3. Is(g)
  <2> DEFINE h == [k \in 0 .. n |-> IF k = 0 THEN e ELSE link[g[k - 1]]]
  <2>1. \A k \in 0 .. n : k = 0 \/ (k \in 1 .. n /\ k - 1 \in 0 .. n)
    OBVIOUS
  <2>2. \A k \in 0 .. n : g[k] = h[k]
    BY <1>2, <2>1 DEF Goes
  <2>3. h = [k \in 0 .. n |-> h[k]]
    OBVIOUS
  <2> HIDE DEF h
  <2>4. g = h
    BY <1>2, <2>2, <2>3, SameFunction
  <2> QED
    BY <2>4 DEF h
<1> HIDE DEF Is
<1>4. Is(at)
  BY <1>3
<1> HIDE DEF at
<1>5. at[0] = to[0] /\ \A k \in 1 .. n : at[k - 1] = to[k - 1] => at[k] = to[k]
  <2>1. \A k \in 1 .. n : k \in 0 .. n /\ k # 0
    OBVIOUS
  <2>2. 0 \in 0 .. n
    OBVIOUS
  <2> QED
    BY <1>4, <2>1, <2>2 DEF Is, Goes
<1>6. at[n] = to[n]
  BY <1>5, GrowsAs
<1> QED
  BY <1>1, <1>6

LEMMA StepByStep ==
  ASSUME NEW link, NEW e, NEW n \in Nat
  PROVE  /\ Steps(link, e, 0) = e
         /\ Steps(link, e, n + 1) = link[Steps(link, e, n)]
<1>1. PICK to : Goes(link, e, n + 1, to)
  BY OneGoes
<1>2. Goes(link, e, 0, to) /\ Goes(link, e, n, to)
  BY <1>1 DEF Goes
<1>3. Steps(link, e, 0) = to[0] /\ Steps(link, e, n) = to[n] /\ Steps(link, e, n + 1) = to[n + 1]
  BY <1>1, <1>2, StepsGo
<1>4. to[0] = e
  BY <1>1 DEF Goes
<1>5. to[n + 1] = link[to[n]]
  BY <1>1 DEF Goes
<1> QED
  BY <1>3, <1>4, <1>5

(* The innermost node that lacks a child.                                   *)
LEMMA InnermostIs ==
  ASSUME NEW n \in Nat, NEW o \in [1 .. n -> Nat]
  PROVE  /\ Innermost(o) \in 0 .. n
         /\ Innermost(o) # 0 => o[Innermost(o)] > 0
         /\ \A e \in 1 .. n : e > Innermost(o) => o[e] = 0
<1> DEFINE open == {e \in DOMAIN o : o[e] > 0} \cup {0}
           above == {n - e : e \in open}
<1>1. open \subseteq 0 .. n /\ 0 \in open
  OBVIOUS
<1>2. above \subseteq Nat /\ above # {}
  BY <1>1
<1>3. PICK m \in above : \A k \in above : m <= k
  BY <1>2, LeastOf
<1>4. PICK x \in open : m = n - x
  OBVIOUS
<1>5. \A y \in open : x >= y
  <2> TAKE y \in open
  <2>1. n - y \in above
    OBVIOUS
  <2>2. n - x <= n - y
    BY <1>3, <1>4, <2>1
  <2> QED
    BY <1>1, <2>2
<1>6. Innermost(o) = CHOOSE z \in open : \A y \in open : z >= y
  BY DEF Innermost, Max, NULL
<1> HIDE DEF open
<1>7. Innermost(o) \in open /\ \A y \in open : Innermost(o) >= y
  BY <1>5, <1>6
<1> QED
  BY <1>1, <1>7 DEF open

LEMMA FewerIs ==
  ASSUME NEW n \in Nat, NEW o \in [1 .. n -> Nat]
  PROVE  /\ Fewer(o) \in [1 .. n -> Nat]
         /\ \A e \in 1 .. n : Fewer(o)[e] = IF e = Innermost(o) THEN o[e] - 1 ELSE o[e]
<1>1. CASE Innermost(o) = 0
  BY <1>1, InnermostIs DEF Fewer, NULL
<1>2. CASE Innermost(o) # 0
  <2>1. Innermost(o) \in 1 .. n /\ o[Innermost(o)] > 0
    BY <1>2, InnermostIs
  <2>2. Fewer(o) = [o EXCEPT ![Innermost(o)] = @ - 1]
    BY <1>2 DEF Fewer, NULL
  <2> QED
    BY <2>1, <2>2
<1> QED
  BY <1>1, <1>2

(* What TreesAssumption says of a tree, and a plain one.                    *)
Complete(t) ==
  /\ DOMAIN t = 1 .. Len(t) /\ Len(t) \in Nat \ {0}
  /\ \A e \in 1 .. Len(t) : Node(t, e).children \in Nat
  /\ \A e \in 1 .. Len(t) : Lacking(t)[Len(t)][e] = 0

Counts(t, m, l) ==
  /\ l[0] = [e \in 1 .. Len(t) |-> 0]
  /\ \A n \in 1 .. m : l[n] = [Fewer(l[n - 1]) EXCEPT ![n] = Node(t, n).children]

LEMMA OneCounts ==
  ASSUME NEW t, Len(t) \in Nat
  PROVE  \E l : Counts(t, Len(t), l)
<1> DEFINE Stuck == {m \in 0 .. Len(t) : ~\E l : Counts(t, m, l)}
<1>1. Stuck \subseteq Nat
  OBVIOUS
<1>2. CASE Stuck # {}
  <2>1. PICK m \in Stuck : \A k \in Stuck : m <= k
    BY <1>1, <1>2, LeastOf
  <2>2. m \in 0 .. Len(t) /\ ~\E l : Counts(t, m, l)
    BY <2>1
  <2>3. Counts(t, 0, [k \in {0} |-> [e \in 1 .. Len(t) |-> 0]])
    BY DEF Counts
  <2>4. m # 0
    BY <2>2, <2>3
  <2>5. m - 1 \in 0 .. Len(t) /\ m - 1 \notin Stuck
    BY <2>1, <2>2, <2>4
  <2>6. PICK l : Counts(t, m - 1, l)
    BY <2>5
  <2> DEFINE last == [Fewer(l[m - 1]) EXCEPT ![m] = Node(t, m).children]
             to == [k \in 0 .. m |-> IF k = m THEN last ELSE l[k]]
  <2>7. /\ to[0] = l[0] /\ to[m] = last
        /\ \A k \in 1 .. m : k - 1 # m /\ to[k - 1] = l[k - 1]
        /\ \A k \in 1 .. m - 1 : to[k] = l[k]
    BY <2>2, <2>4
  <2> HIDE DEF to
  <2>8. ASSUME NEW k \in 1 .. m
        PROVE  to[k] = [Fewer(to[k - 1]) EXCEPT ![k] = Node(t, k).children]
    <3>1. CASE k = m
      BY <2>7, <3>1
    <3>2. CASE k # m
      <4>1. k \in 1 .. m - 1
        BY <2>2, <3>2
      <4>2. l[k] = [Fewer(l[k - 1]) EXCEPT ![k] = Node(t, k).children]
        BY <2>6, <4>1 DEF Counts
      <4>3. to[k] = l[k] /\ to[k - 1] = l[k - 1]
        BY <2>7, <4>1
      <4> QED
        BY <4>2, <4>3
    <3> QED
      BY <3>1, <3>2
  <2>9. to[0] = [e \in 1 .. Len(t) |-> 0]
    BY <2>6, <2>7 DEF Counts
  <2>10. Counts(t, m, to)
    BY <2>8, <2>9 DEF Counts
  <2> QED
    BY <2>2, <2>10
<1>3. CASE Stuck = {}
  BY <1>3
<1> QED
  BY <1>2, <1>3

LEMMA LackingCounts ==
  ASSUME NEW t, Len(t) \in Nat
  PROVE  Counts(t, Len(t), Lacking(t))
<1> DEFINE Next(l, n) == [Fewer(l[n - 1]) EXCEPT ![n] = Node(t, n).children]
           none == [e \in 1 .. Len(t) |-> 0]
           Is(f) == f = [n \in 0 .. Len(t) |-> IF n = 0 THEN none ELSE Next(f, n)]
           lacks == CHOOSE f : Is(f)
<1>1. Lacking(t) = lacks
  BY DEF Lacking
<1>2. PICK l : Counts(t, Len(t), l)
  BY OneCounts
<1> DEFINE g == [n \in 0 .. Len(t) |-> l[n]]
<1>3. g = [n \in 0 .. Len(t) |-> g[n]] /\ \A n \in 0 .. Len(t) : g[n] = l[n]
  OBVIOUS
<1>4. /\ l[0] = none
      /\ \A n \in 1 .. Len(t) : l[n] = Next(l, n)
  BY <1>2 DEF Counts
<1> HIDE DEF g
<1>5. Is(g)
  <2>1. \A n \in 0 .. Len(t) : n = 0 \/ (n \in 1 .. Len(t) /\ n - 1 \in 0 .. Len(t))
    OBVIOUS
  <2>2. \A n \in 1 .. Len(t) : Next(l, n) = Next(g, n)
    BY <1>3, <2>1
  <2> DEFINE h == [n \in 0 .. Len(t) |-> IF n = 0 THEN none ELSE Next(g, n)]
  <2> HIDE DEF Next, none
  <2>3. \A n \in 0 .. Len(t) : g[n] = h[n]
    BY <1>3, <1>4, <2>1, <2>2
  <2>4. h = [n \in 0 .. Len(t) |-> h[n]]
    OBVIOUS
  <2> HIDE DEF h
  <2>5. g = h
    BY <1>3, <2>3, <2>4, SameFunction
  <2> QED
    BY <2>5 DEF h
<1> HIDE DEF Is
<1>6. Is(lacks)
  BY <1>5
<1> HIDE DEF lacks
<1>7. /\ lacks[0] = none
      /\ \A n \in 1 .. Len(t) : lacks[n] = Next(lacks, n)
  <2>1. \A n \in 1 .. Len(t) : n \in 0 .. Len(t) /\ n # 0
    OBVIOUS
  <2>2. 0 \in 0 .. Len(t)
    OBVIOUS
  <2> HIDE DEF Next, none
  <2> QED
    BY <1>6, <2>1, <2>2 DEF Is
<1> QED
  BY <1>1, <1>7 DEF Counts

LEMMA LackingIs ==
  ASSUME NEW t, Complete(t)
  PROVE  /\ \A n \in 0 .. Len(t) : Lacking(t)[n] \in [1 .. Len(t) -> Nat]
         /\ \A e \in 1 .. Len(t) : Lacking(t)[0][e] = 0
         /\ \A n, e \in 1 .. Len(t) :
              Lacking(t)[n][e] = IF e = n THEN Node(t, n).children ELSE Fewer(Lacking(t)[n - 1])[e]
<1> DEFINE l == Lacking(t)
           len == Len(t)
           Odd == {n \in 0 .. len : l[n] \notin [1 .. len -> Nat]}
<1>1. Counts(t, len, l)
  BY LackingCounts DEF Complete
<1>2. len \in Nat /\ \A n \in 1 .. len : Node(t, n).children \in Nat
  BY DEF Complete
<1> HIDE DEF l, len
<1>3. l[0] = [e \in 1 .. len |-> 0]
  BY <1>1 DEF Counts, len
<1>4. \A n \in 1 .. len : l[n] = [Fewer(l[n - 1]) EXCEPT ![n] = Node(t, n).children]
  BY <1>1 DEF Counts, len
<1>5. \A n \in 1 .. len : l[n - 1] \in [1 .. len -> Nat] => l[n] \in [1 .. len -> Nat]
  <2> TAKE n \in 1 .. len
  <2> HAVE l[n - 1] \in [1 .. len -> Nat]
  <2>1. Fewer(l[n - 1]) \in [1 .. len -> Nat]
    BY <1>2, FewerIs
  <2> QED
    BY <1>2, <1>4, <2>1
<1>6. Odd = {}
  <2> SUFFICES ASSUME Odd # {} PROVE FALSE
    OBVIOUS
  <2>1. Odd \subseteq Nat
    BY <1>2
  <2>2. PICK m \in Odd : \A n \in Odd : m <= n
    BY <2>1, LeastOf
  <2>3. m # 0
    BY <1>2, <1>3, <2>2
  <2>4. m \in 1 .. len /\ m - 1 \in 0 .. len /\ m - 1 \notin Odd
    BY <1>2, <2>2, <2>3
  <2> QED
    BY <1>5, <2>2, <2>4
<1>7. \A n \in 0 .. len : l[n] \in [1 .. len -> Nat]
  BY <1>6
<1>8. ASSUME NEW n \in 1 .. len, NEW e \in 1 .. len
      PROVE  l[n][e] = IF e = n THEN Node(t, n).children ELSE Fewer(l[n - 1])[e]
  <2>1. n - 1 \in 0 .. len
    BY <1>2
  <2>2. Fewer(l[n - 1]) \in [1 .. len -> Nat]
    BY <1>2, <1>7, <2>1, FewerIs
  <2> QED
    BY <1>4, <2>2
<1> QED
  BY <1>3, <1>7, <1>8 DEF l, len

(* A node that lacks no child lacks none later, unless it is placed.        *)
LEMMA LacksNone ==
  ASSUME NEW t, Complete(t), NEW e \in 1 .. Len(t), NEW m \in 0 .. Len(t), NEW n \in m .. Len(t),
         Lacking(t)[m][e] = 0, n < e \/ e <= m
  PROVE  Lacking(t)[n][e] = 0
<1> DEFINE Odd == {k \in m .. n : Lacking(t)[k][e] # 0}
<1>0. Len(t) \in Nat
  BY DEF Complete
<1>1. Odd \subseteq Nat
  BY <1>0
<1>2. CASE Odd # {}
  <2>1. PICK k \in Odd : \A j \in Odd : k <= j
    BY <1>1, <1>2, LeastOf
  <2>2. k # m /\ k \in m .. n /\ Lacking(t)[k][e] # 0
    BY <2>1
  <2>3. k \in 1 .. Len(t) /\ k - 1 \in 0 .. Len(t) /\ k - 1 \in m .. n /\ k # e
    BY <1>0, <2>2
  <2>4. Lacking(t)[k - 1][e] = 0
    BY <2>1, <2>2, <2>3
  <2>5. Lacking(t)[k - 1] \in [1 .. Len(t) -> Nat]
    BY <2>3, LackingIs
  <2>6. Innermost(Lacking(t)[k - 1]) # e
    <3>1. Innermost(Lacking(t)[k - 1]) # 0 =>
            Lacking(t)[k - 1][Innermost(Lacking(t)[k - 1])] > 0
      BY <1>0, <2>5, InnermostIs
    <3> QED
      BY <1>0, <2>4, <3>1
  <2>7. Fewer(Lacking(t)[k - 1])[e] = 0
    BY <1>0, <2>4, <2>5, <2>6, FewerIs
  <2>8. Lacking(t)[k][e] = Fewer(Lacking(t)[k - 1])[e]
    BY <2>3, LackingIs
  <2> QED
    BY <2>2, <2>7, <2>8
<1>3. CASE Odd = {}
  BY <1>0, <1>3
<1> QED
  BY <1>2, <1>3

LEMMA NotPlaced ==
  ASSUME NEW t, Complete(t), NEW n \in 0 .. Len(t), NEW e \in 1 .. Len(t), n < e
  PROVE  /\ Lacking(t)[n][e] = 0 /\ Fewer(Lacking(t)[n])[e] = 0
         /\ Innermost(Lacking(t)[n]) <= n
<1>0. Len(t) \in Nat
  BY DEF Complete
<1>1. \A x \in 1 .. Len(t) : n < x => Lacking(t)[n][x] = 0
  <2> TAKE x \in 1 .. Len(t)
  <2> HAVE n < x
  <2>1. 0 \in 0 .. Len(t) /\ n \in 0 .. Len(t)
    BY <1>0
  <2>2. Lacking(t)[0][x] = 0
    BY LackingIs
  <2> QED
    BY <2>1, <2>2, LacksNone
<1>2. Lacking(t)[n] \in [1 .. Len(t) -> Nat]
  BY LackingIs
<1>3. Innermost(Lacking(t)[n]) <= n
  BY <1>0, <1>1, <1>2, InnermostIs
<1>4. Fewer(Lacking(t)[n])[e] = 0
  BY <1>0, <1>1, <1>2, <1>3, FewerIs
<1> QED
  BY <1>1, <1>3, <1>4

(* The nodes from e to before a are the tree below e.                       *)
Ends(t, a, e) ==
  /\ a \in e + 1 .. Len(t) + 1
  /\ Lacking(t)[a - 1] = Fewer(Lacking(t)[e - 1])
  /\ \A n \in e .. a - 2 : Innermost(Lacking(t)[n]) >= e

(* k children of e, and all below them, lie before a.                       *)
Passed(t, a, e, k) ==
  /\ a \in e + 1 .. Len(t) + 1
  /\ Lacking(t)[a - 1] = [Fewer(Lacking(t)[e - 1]) EXCEPT ![e] = Node(t, e).children - k]
  /\ \A n \in e .. a - 2 : Innermost(Lacking(t)[n]) >= e

LEMMA PastNone ==
  ASSUME NEW t, Complete(t), NEW e \in 1 .. Len(t)
  PROVE  Passed(t, e + 1, e, 0)
<1>1. /\ e \in 1 .. Len(t) /\ e - 1 \in 0 .. Len(t) /\ Len(t) \in Nat
      /\ Node(t, e).children \in Nat
  BY DEF Complete
<1> DEFINE rest == Fewer(Lacking(t)[e - 1])
           l == Lacking(t)[e]
<1>2. rest \in [1 .. Len(t) -> Nat]
  BY <1>1, LackingIs, FewerIs, ZenonT(60)
<1>3. l \in [1 .. Len(t) -> Nat]
  <2>1. e \in 0 .. Len(t)
    BY <1>1
  <2> QED
    BY <2>1, LackingIs
<1>7. \A x \in 1 .. Len(t) : l[x] = IF x = e THEN Node(t, e).children ELSE rest[x]
  BY LackingIs
<1> HIDE DEF rest, l
<1>4. l = [rest EXCEPT ![e] = Node(t, e).children]
  BY <1>2, <1>3, <1>7
<1>5. e + 1 - 1 = e /\ e + 1 \in e + 1 .. Len(t) + 1 /\ Node(t, e).children - 0 = Node(t, e).children
  BY <1>1
<1>6. \A n \in e .. e + 1 - 2 : FALSE
  BY <1>1
<1> QED
  BY <1>4, <1>5, <1>6 DEF Passed, rest, l

LEMMA PastAll ==
  ASSUME NEW t, Complete(t), NEW e \in 1 .. Len(t), NEW a, Passed(t, a, e, Node(t, e).children)
  PROVE  Ends(t, a, e)
<1>1. /\ e \in 1 .. Len(t) /\ e - 1 \in 0 .. Len(t) /\ Len(t) \in Nat
      /\ Node(t, e).children \in Nat
  BY DEF Complete
<1> DEFINE rest == Fewer(Lacking(t)[e - 1])
<1>2. rest \in [1 .. Len(t) -> Nat]
  BY <1>1, LackingIs, FewerIs, ZenonT(60)
<1>3. rest[e] = 0
  BY <1>1, NotPlaced
<1> HIDE DEF rest
<1>4. [rest EXCEPT ![e] = Node(t, e).children - Node(t, e).children] = rest
  BY <1>1, <1>2, <1>3
<1> QED
  BY <1>4 DEF Passed, Ends, rest

(* Behind fewer than all the children of e lies one of them.                *)
LEMMA PastSome ==
  ASSUME NEW t, Complete(t), NEW e \in 1 .. Len(t), NEW k \in Nat, k < Node(t, e).children,
         NEW a, Passed(t, a, e, k)
  PROVE  a \in e + 1 .. Len(t) /\ Parent(t, a) = e
<1>1. /\ e \in 1 .. Len(t) /\ e - 1 \in 0 .. Len(t) /\ Len(t) \in Nat
      /\ Node(t, e).children \in Nat /\ Lacking(t)[Len(t)][e] = 0
  BY DEF Complete
<1> DEFINE rest == Fewer(Lacking(t)[e - 1])
           l == Lacking(t)[a - 1]
<1>2. rest \in [1 .. Len(t) -> Nat]
  BY <1>1, LackingIs, FewerIs
<1>3. \A x \in e .. Len(t) : rest[x] = 0
  BY <1>1, NotPlaced
<1>4. a \in e + 1 .. Len(t) + 1 /\ a - 1 \in 0 .. Len(t)
  BY <1>1 DEF Passed
<1>5. l \in [1 .. Len(t) -> Nat]
  BY <1>4, LackingIs
<1>6. l = [rest EXCEPT ![e] = Node(t, e).children - k]
  BY DEF Passed
<1>7. a - 1 # Len(t)
  <2>1. l[e] # 0
    BY <1>1, <1>2, <1>6
  <2> QED
    BY <1>1, <2>1
<1> HIDE DEF rest, l
<1>8. l[e] > 0 /\ \A x \in e + 1 .. Len(t) : l[x] = 0
  BY <1>1, <1>2, <1>3, <1>6
<1>9. Innermost(l) = e
  BY <1>1, <1>5, <1>8, InnermostIs, SMTT(60)
<1> QED
  BY <1>1, <1>4, <1>7, <1>9 DEF Parent, l

(* The tree below a child is one more.                                      *)
LEMMA PastOneMore ==
  ASSUME NEW t, Complete(t), NEW e \in 1 .. Len(t), NEW k \in Nat, k < Node(t, e).children,
         NEW a, Passed(t, a, e, k), NEW b, Ends(t, b, a)
  PROVE  Passed(t, b, e, k + 1)
<1>1. /\ e \in 1 .. Len(t) /\ e - 1 \in 0 .. Len(t) /\ Len(t) \in Nat
      /\ Node(t, e).children \in Nat
  BY DEF Complete
<1> DEFINE rest == Fewer(Lacking(t)[e - 1])
           l == Lacking(t)[a - 1]
           c == Node(t, e).children
<1>2. rest \in [1 .. Len(t) -> Nat]
  BY <1>1, LackingIs, FewerIs, ZenonT(60)
<1>3. a \in e + 1 .. Len(t) /\ Innermost(l) = e
  BY PastSome DEF Parent
<1>4. l \in [1 .. Len(t) -> Nat]
  BY <1>1, <1>3, LackingIs
<1>5. l = [rest EXCEPT ![e] = c - k]
  BY DEF Passed
<1>6. /\ Fewer(l) \in [1 .. Len(t) -> Nat]
      /\ \A x \in 1 .. Len(t) : Fewer(l)[x] = IF x = e THEN l[x] - 1 ELSE l[x]
  <2> HIDE DEF l
  <2>1. /\ Fewer(l) \in [1 .. Len(t) -> Nat]
        /\ \A x \in 1 .. Len(t) : Fewer(l)[x] = IF x = Innermost(l) THEN l[x] - 1 ELSE l[x]
    BY <1>1, <1>4, FewerIs
  <2> QED
    BY <1>3, <2>1
<1>7. b \in a + 1 .. Len(t) + 1 /\ Lacking(t)[b - 1] = Fewer(l)
  BY DEF Ends
<1>8. ASSUME NEW n \in e .. b - 2 PROVE Innermost(Lacking(t)[n]) >= e
  <2>1. CASE n \in e .. a - 2
    BY <2>1 DEF Passed
  <2>2. CASE n = a - 1
    BY <1>1, <1>3, <2>2
  <2>3. CASE n \in a .. b - 2
    <3>1. Innermost(Lacking(t)[n]) >= a
      BY <2>3 DEF Ends
    <3>2. n \in 0 .. Len(t)
      BY <1>1, <1>3, <1>7
    <3>3. Innermost(Lacking(t)[n]) \in Nat
      <4>1. Lacking(t)[n] \in [1 .. Len(t) -> Nat]
        BY <3>2, LackingIs
      <4> QED
        BY <1>1, <4>1, InnermostIs
    <3> QED
      BY <1>1, <1>3, <3>1, <3>3
  <2> QED
    BY <1>1, <1>3, <1>7, <2>1, <2>2, <2>3
<1> HIDE DEF rest, l
<1>9. Fewer(l) = [rest EXCEPT ![e] = c - (k + 1)]
  <2>0. c \in Nat /\ k + 1 <= c
    BY <1>1
  <2> HIDE DEF c
  <2>1. [rest EXCEPT ![e] = c - (k + 1)] \in [1 .. Len(t) -> Nat]
    BY <1>2, <2>0
  <2>3. \A x \in 1 .. Len(t) : l[x] = IF x = e THEN c - k ELSE rest[x]
    BY <1>2, <1>5
  <2>4. \A x \in 1 .. Len(t) :
          [rest EXCEPT ![e] = c - (k + 1)][x] = IF x = e THEN c - (k + 1) ELSE rest[x]
    BY <1>2
  <2>2. \A x \in 1 .. Len(t) : Fewer(l)[x] = [rest EXCEPT ![e] = c - (k + 1)][x]
    BY <1>6, <2>0, <2>3, <2>4
  <2> QED
    BY <1>6, <2>1, <2>2
<1>10. b \in e + 1 .. Len(t) + 1
  BY <1>1, <1>3, <1>7
<1> QED
  BY <1>7, <1>8, <1>9, <1>10 DEF Passed, rest, l

(* Where every tree behind e ends at its link, the children of e are passed *)
(* one by one.                                                              *)
AllEnd(t, link, e) == \A m \in e + 1 .. Len(t) : Ends(t, link[m], m)

LEMMA PastEach ==
  ASSUME NEW t, Complete(t), NEW e \in 1 .. Len(t), NEW link, AllEnd(t, link, e),
         NEW k \in 0 .. Node(t, e).children
  PROVE  Passed(t, Steps(link, e + 1, k), e, k)
<1> DEFINE c == Node(t, e).children
           Odd == {j \in 0 .. c : ~Passed(t, Steps(link, e + 1, j), e, j)}
<1>1. c \in Nat /\ k \in 0 .. c
  BY DEF Complete
<1> HIDE DEF c
<1>2. Odd \subseteq Nat
  BY <1>1
<1>3. CASE Odd # {}
  <2>1. PICK j \in Odd : \A i \in Odd : j <= i
    BY <1>2, <1>3, LeastOf
  <2>2. j \in 0 .. c /\ ~Passed(t, Steps(link, e + 1, j), e, j)
    BY <2>1
  <2>3. j # 0
    <3>1. Steps(link, e + 1, 0) = e + 1
      BY StepByStep
    <3> QED
      BY <2>2, <3>1, PastNone
  <2> DEFINE i == j - 1
             a == Steps(link, e + 1, i)
  <2>4. i \in Nat /\ i < c /\ i \in 0 .. c /\ j = i + 1 /\ i \notin Odd
    BY <1>1, <2>1, <2>2, <2>3
  <2> HIDE DEF i
  <2>5. Passed(t, a, e, i)
    BY <2>4
  <2>6. Steps(link, e + 1, j) = link[a]
    BY <2>4, StepByStep
  <2> HIDE DEF a
  <2>7. a \in e + 1 .. Len(t)
    BY <2>4, <2>5, PastSome DEF c
  <2>8. Ends(t, link[a], a)
    BY <2>7 DEF AllEnd
  <2>9. Passed(t, link[a], e, i + 1)
    BY <2>4, <2>5, <2>8, PastOneMore DEF c
  <2> QED
    BY <2>2, <2>4, <2>6, <2>9
<1>4. CASE Odd = {}
  BY <1>1, <1>4
<1> QED
  BY <1>3, <1>4

LEMMA StepsEnd ==
  ASSUME NEW t, Complete(t), NEW e \in 1 .. Len(t), NEW link, AllEnd(t, link, e)
  PROVE  Ends(t, Steps(link, e + 1, Node(t, e).children), e)
<1>1. Node(t, e).children \in 0 .. Node(t, e).children
  BY DEF Complete
<1> QED
  BY <1>1, PastEach, PastAll

LEMMA OneEnd ==
  ASSUME NEW t, Complete(t), NEW e \in 1 .. Len(t), NEW a, NEW b, Ends(t, a, e), Ends(t, b, e)
  PROVE  a = b
<1>1. e \in 1 .. Len(t) /\ e - 1 \in 0 .. Len(t) /\ Len(t) \in Nat
  BY DEF Complete
<1>2. ASSUME NEW x, NEW y, Ends(t, x, e), Ends(t, y, e), x < y PROVE FALSE
  <2> DEFINE l == Lacking(t)[x - 1]
  <2>1. x \in e + 1 .. Len(t) + 1 /\ y \in e + 1 .. Len(t) + 1 /\ l = Fewer(Lacking(t)[e - 1])
    BY <1>2 DEF Ends
  <2>2. x - 1 \in e .. y - 2
    BY <1>1, <1>2, <2>1
  <2>3. Innermost(l) >= e
    BY <1>2, <2>2 DEF Ends
  <2>4. \A z \in e .. Len(t) : l[z] = 0
    BY <1>1, <2>1, NotPlaced
  <2>5. l \in [1 .. Len(t) -> Nat]
    <3>1. x - 1 \in 0 .. Len(t)
      BY <1>1, <2>1
    <3> QED
      BY <3>1, LackingIs
  <2> HIDE DEF l
  <2>6. Innermost(l) \in 0 .. Len(t) /\ (Innermost(l) # 0 => l[Innermost(l)] > 0)
    BY <1>1, <2>5, InnermostIs
  <2> QED
    BY <1>1, <2>3, <2>4, <2>6
<1>3. a \in Int /\ b \in Int
  BY <1>1 DEF Ends
<1>4. ~(a < b) /\ ~(b < a)
  BY <1>2
<1> QED
  BY <1>3, <1>4

(* What holds of a node if it holds of all behind it holds of all.          *)
LEMMA FromTheLast ==
  ASSUME NEW n \in Nat, NEW T,
         \A e \in 1 .. n : (\A m \in e + 1 .. n : m \in T) => e \in T
  PROVE  \A e \in 1 .. n : e \in T
<1> DEFINE Odd == {n - e : e \in 1 .. n \ T}
<1>1. Odd \subseteq Nat
  OBVIOUS
<1>2. CASE Odd # {}
  <2>1. PICK d \in Odd : \A x \in Odd : d <= x
    BY <1>1, <1>2, LeastOf
  <2>2. PICK e \in 1 .. n \ T : d = n - e
    BY <2>1
  <2>3. ASSUME NEW m \in e + 1 .. n PROVE m \in T
    <3>1. CASE m \notin T
      <4>1. m \in 1 .. n \ T
        BY <2>2, <3>1
      <4>2. n - m \in Odd
        BY <4>1
      <4>3. n - e <= n - m
        BY <2>1, <2>2, <4>2
      <4> QED
        BY <2>2, <4>1, <4>3
    <3> QED
      BY <3>1
  <2> QED
    BY <2>2, <2>3
<1>3. CASE Odd = {}
  BY <1>3
<1> QED
  BY <1>2, <1>3

(* Where the tree below e ends; every tree ends.                            *)
End(t) == [e \in 1 .. Len(t) |-> CHOOSE a : Ends(t, a, e)]

LEMMA EveryTreeEnds ==
  ASSUME NEW t, Complete(t)
  PROVE  \A e \in 1 .. Len(t) : Ends(t, End(t)[e], e)
<1> DEFINE T == {e \in 1 .. Len(t) : Ends(t, End(t)[e], e)}
<1>1. Len(t) \in Nat
  BY DEF Complete
<1>2. ASSUME NEW e \in 1 .. Len(t), \A m \in e + 1 .. Len(t) : m \in T
      PROVE  e \in T
  <2>1. AllEnd(t, End(t), e)
    BY <1>2 DEF AllEnd
  <2>2. \E a : Ends(t, a, e)
    BY <2>1, StepsEnd
  <2>3. Ends(t, CHOOSE a : Ends(t, a, e), e)
    BY <2>2
  <2> QED
    BY <2>3 DEF End
<1> HIDE DEF T
<1>3. \A e \in 1 .. Len(t) : e \in T
  BY <1>1, <1>2, FromTheLast
<1> QED
  BY <1>3 DEF T

(* skipTree gives the end of the tree.                                      *)
LEMMA SkipTreeEnds ==
  ASSUME NEW t, Complete(t), Plain(t)
  PROVE  \A e \in 1 .. Len(t) : Ends(t, skipTree(t)[e], e)
<1> DEFINE Body(f, e) == IF skipProperties(t, e) = NULL THEN NULL
                         ELSE Steps(f, skipProperties(t, e), Node(t, e).children)
           Is(f) == f = [e \in 0 .. Len(t) + 1 |-> Body(f, e)]
           after == CHOOSE f : Is(f)
           g == [e \in 0 .. Len(t) + 1 |-> IF e \in 1 .. Len(t) THEN End(t)[e] ELSE NULL]
<1>1. skipTree(t) = after
  BY DEF skipTree
<1>2. Len(t) \in Nat /\ DOMAIN t = 1 .. Len(t)
  BY DEF Complete
<1>3. \A e \in 1 .. Len(t) : skipProperties(t, e) = e + 1 /\ skipProperties(t, e) # NULL
  BY <1>2 DEF skipProperties, Plain, InTree, NULL
<1>4. \A e \in 0 .. Len(t) + 1 : e \notin 1 .. Len(t) => skipProperties(t, e) = NULL
  BY DEF skipProperties, InTree
<1>5. /\ \A e \in 1 .. Len(t) : g[e] = End(t)[e]
      /\ \A e \in 0 .. Len(t) + 1 : e \notin 1 .. Len(t) => g[e] = NULL
  BY <1>2
<1>6. g = [e \in 0 .. Len(t) + 1 |-> g[e]]
  OBVIOUS
<1> HIDE DEF g
<1>7. \A f : \A e \in 1 .. Len(t) : Body(f, e) = Steps(f, e + 1, Node(t, e).children)
  BY <1>3
<1>8. \A f : \A e \in 0 .. Len(t) + 1 : e \notin 1 .. Len(t) => Body(f, e) = NULL
  BY <1>4
<1> HIDE DEF Body
<1>9. \A e \in 1 .. Len(t) : g[e] = Body(g, e)
  <2> TAKE e \in 1 .. Len(t)
  <2>1. \A m \in e + 1 .. Len(t) : Ends(t, g[m], m)
    <3>1. \A m \in e + 1 .. Len(t) : m \in 1 .. Len(t)
      BY <1>2
    <3> QED
      BY <1>5, <3>1, EveryTreeEnds
  <2>2. Ends(t, Steps(g, e + 1, Node(t, e).children), e)
    BY <2>1, StepsEnd DEF AllEnd
  <2>3. Ends(t, g[e], e)
    BY <1>5, EveryTreeEnds
  <2> QED
    BY <1>7, <2>2, <2>3, OneEnd
<1>10. Is(g)
  <2> DEFINE h == [e \in 0 .. Len(t) + 1 |-> Body(g, e)]
  <2>1. \A e \in 0 .. Len(t) + 1 : g[e] = h[e]
    BY <1>5, <1>8, <1>9
  <2>2. h = [e \in 0 .. Len(t) + 1 |-> h[e]]
    OBVIOUS
  <2> HIDE DEF h
  <2>3. g = h
    BY <1>6, <2>1, <2>2, SameFunction
  <2> QED
    BY <2>3 DEF h
<1> HIDE DEF Is
<1>11. Is(after)
  BY <1>10
<1> HIDE DEF after
<1>12. \A e \in 1 .. Len(t) : after[e] = Body(after, e)
  <2>1. \A e \in 1 .. Len(t) : e \in 0 .. Len(t) + 1
    BY <1>2
  <2> QED
    BY <1>11, <2>1 DEF Is
<1> DEFINE T == {e \in 1 .. Len(t) : Ends(t, after[e], e)}
<1>13. ASSUME NEW e \in 1 .. Len(t), \A m \in e + 1 .. Len(t) : m \in T
       PROVE  e \in T
  <2>1. AllEnd(t, after, e)
    BY <1>13 DEF AllEnd
  <2>2. Ends(t, Steps(after, e + 1, Node(t, e).children), e)
    BY <2>1, StepsEnd
  <2> QED
    BY <1>7, <1>12, <2>2
<1> HIDE DEF T
<1>14. \A e \in 1 .. Len(t) : e \in T
  BY <1>2, <1>13, FromTheLast
<1> QED
  BY <1>1, <1>14 DEF T

(* The k-th next node of the first child: the children, in order.           *)
Behind(t, e, k) == Steps(skipTree(t), e + 1, k)

LEMMA BehindIs ==
  ASSUME NEW t, Complete(t), Plain(t), NEW e \in 1 .. Len(t), NEW k \in 0 .. Node(t, e).children
  PROVE  Passed(t, Behind(t, e, k), e, k)
<1>1. AllEnd(t, skipTree(t), e)
  <2>1. \A m \in e + 1 .. Len(t) : m \in 1 .. Len(t)
    BY DEF Complete
  <2> QED
    BY <2>1, SkipTreeEnds DEF AllEnd
<1> QED
  BY <1>1, PastEach DEF Behind

LEMMA BehindNext ==
  ASSUME NEW t, Complete(t), Plain(t), NEW e \in 1 .. Len(t), NEW k \in 0 .. Node(t, e).children - 1
  PROVE  /\ Behind(t, e, k) \in e + 1 .. Len(t) /\ Parent(t, Behind(t, e, k)) = e
         /\ Behind(t, e, k + 1) = skipTree(t)[Behind(t, e, k)]
         /\ Ends(t, Behind(t, e, k + 1), Behind(t, e, k))
<1>1. k \in Nat /\ k \in 0 .. Node(t, e).children /\ k < Node(t, e).children
  BY DEF Complete
<1>2. Behind(t, e, k) \in e + 1 .. Len(t) /\ Parent(t, Behind(t, e, k)) = e
  BY <1>1, BehindIs, PastSome
<1>3. Behind(t, e, k + 1) = skipTree(t)[Behind(t, e, k)]
  BY <1>1, StepByStep DEF Behind
<1>4. Behind(t, e, k) \in 1 .. Len(t)
  BY <1>2 DEF Complete
<1> QED
  BY <1>2, <1>3, <1>4, SkipTreeEnds

LEMMA BehindGrows ==
  ASSUME NEW t, Complete(t), Plain(t), NEW e \in 1 .. Len(t),
         NEW i \in 0 .. Node(t, e).children, NEW j \in 0 .. Node(t, e).children, i < j
  PROVE  Behind(t, e, i) < Behind(t, e, j)
<1> DEFINE c == Node(t, e).children
           s(k) == Behind(t, e, k)
           Odd == {k \in i + 1 .. c : ~(s(i) < s(k))}
<1>1. c \in Nat /\ i \in 0 .. c /\ j \in i + 1 .. c
  BY DEF Complete
<1>2. \A k \in 0 .. c : s(k) \in Int
  <2> TAKE k \in 0 .. c
  <2>1. Passed(t, s(k), e, k)
    BY BehindIs
  <2> QED
    BY <2>1 DEF Passed, Complete
<1>3. ASSUME NEW k \in 0 .. c - 1 PROVE s(k) < s(k + 1)
  <2>1. Ends(t, s(k + 1), s(k)) /\ s(k) \in e + 1 .. Len(t)
    BY <1>3, BehindNext
  <2> QED
    BY <2>1 DEF Ends, Complete
<1> HIDE DEF c, s
<1>4. Odd \subseteq Nat
  BY <1>1
<1>5. CASE Odd # {}
  <2>1. PICK k \in Odd : \A l \in Odd : k <= l
    BY <1>4, <1>5, LeastOf
  <2>2. k \in i + 1 .. c /\ ~(s(i) < s(k)) /\ k - 1 \in 0 .. c - 1 /\ k - 1 \in 0 .. c /\ k \in 0 .. c
    BY <1>1, <2>1
  <2>3. s(k - 1) < s(k - 1 + 1)
    BY <1>3, <2>2
  <2>4. k - 1 + 1 = k
    BY <1>1, <2>2
  <2>5. k - 1 = i \/ s(i) < s(k - 1)
    BY <1>1, <2>1, <2>2
  <2>6. s(i) \in Int /\ s(k - 1) \in Int /\ s(k) \in Int
    BY <1>1, <1>2, <2>2
  <2>7. s(k - 1) < s(k)
    BY <2>3, <2>4
  <2> QED
    BY <2>2, <2>5, <2>6, <2>7
<1>6. CASE Odd = {}
  <2>1. j \notin Odd
    BY <1>6
  <2> QED
    BY <1>1, <2>1 DEF s
<1> QED
  BY <1>5, <1>6

(* Every child is one of them.                                              *)
LEMMA ChildIsBehind ==
  ASSUME NEW t, Complete(t), Plain(t), NEW e \in 1 .. Len(t), NEW n \in ChildrenOf(t, e)
  PROVE  \E k \in 0 .. Node(t, e).children - 1 : n = Behind(t, e, k)
<1> DEFINE c == Node(t, e).children
           s(k) == Behind(t, e, k)
           top(m) == Innermost(Lacking(t)[m])
<1>0. /\ c \in Nat /\ Len(t) \in Nat /\ e \in 1 .. Len(t) /\ n \in 1 .. Len(t)
      /\ n - 1 \in 0 .. Len(t)
  BY DEF Complete, ChildrenOf
<1>1. top(n - 1) = e
  BY DEF ChildrenOf, Parent
<1>2. Lacking(t)[n - 1][e] # 0
  <2>1. Lacking(t)[n - 1] \in [1 .. Len(t) -> Nat]
    BY <1>0, LackingIs
  <2>2. top(n - 1) # 0 => Lacking(t)[n - 1][top(n - 1)] > 0
    BY <1>0, <2>1, InnermostIs
  <2> QED
    BY <1>0, <1>1, <2>2
<1>3. e <= n - 1
  BY <1>0, <1>2, NotPlaced
<1>4. Passed(t, s(c), e, c)
  BY <1>0, BehindIs
<1>5. s(c) \in e + 1 .. Len(t) + 1 /\ Lacking(t)[s(c) - 1][e] = 0
  <2>1. Ends(t, s(c), e)
    BY <1>4, PastAll
  <2>2. s(c) \in e + 1 .. Len(t) + 1 /\ Lacking(t)[s(c) - 1] = Fewer(Lacking(t)[e - 1])
    BY <2>1 DEF Ends
  <2>3. e - 1 \in 0 .. Len(t) /\ e - 1 < e
    BY <1>0
  <2> QED
    BY <2>2, <2>3, NotPlaced
<1>6. n < s(c)
  <2>1. CASE n - 1 >= s(c) - 1
    <3>1. /\ s(c) - 1 \in 0 .. Len(t) /\ n - 1 \in s(c) - 1 .. Len(t)
          /\ e <= s(c) - 1
      BY <1>0, <1>5, <2>1
    <3> QED
      BY <1>2, <1>5, <3>1, LacksNone
  <2> QED
    BY <1>0, <1>5, <2>1
<1> HIDE DEF c, s, top
<1> DEFINE Later == {k \in 0 .. c : n < s(k)}
<1>7. Later \subseteq Nat /\ Later # {}
  BY <1>0, <1>6
<1>8. PICK k \in Later : \A l \in Later : k <= l
  BY <1>7, LeastOf
<1>9. k # 0
  <2>1. s(0) = e + 1
    BY StepByStep DEF s, Behind
  <2> QED
    BY <1>0, <1>3, <1>8, <2>1
<1> DEFINE i == k - 1
<1>10. i \in 0 .. c - 1 /\ i \in 0 .. c /\ k = i + 1 /\ i \notin Later
  BY <1>0, <1>8, <1>9
<1> HIDE DEF i
<1>11. s(i) \in e + 1 .. Len(t) /\ Ends(t, s(i + 1), s(i))
  BY <1>10, BehindNext DEF c, s
<1>12. s(i) <= n /\ n < s(i + 1)
  BY <1>0, <1>8, <1>10, <1>11
<1>13. CASE n # s(i)
  <2>1. s(i + 1) \in s(i) + 1 .. Len(t) + 1
    BY <1>11 DEF Ends
  <2>2. n - 1 \in s(i) .. s(i + 1) - 2
    BY <1>0, <1>11, <1>12, <1>13, <2>1
  <2>3. top(n - 1) >= s(i)
    BY <1>11, <2>2 DEF Ends, top
  <2> QED
    BY <1>0, <1>1, <1>11, <2>3
<1> QED
  BY <1>10, <1>13 DEF c, s

LEMMA CountBefore ==
  ASSUME NEW t, Complete(t), Plain(t), NEW e \in 1 .. Len(t), NEW k \in 0 .. Node(t, e).children - 1
  PROVE  /\ Behind(t, e, k) \in ChildrenOf(t, e)
         /\ Cardinality({x \in ChildrenOf(t, e) : x < Behind(t, e, k)}) = k
<1> DEFINE c == Node(t, e).children
           s(j) == Behind(t, e, j)
           S == {x \in ChildrenOf(t, e) : x < s(k)}
           f == [j \in 1 .. k |-> s(j - 1)]
<1>1. c \in Nat /\ Len(t) \in Nat /\ k \in 0 .. c - 1
  BY DEF Complete
<1>2. \A j \in 0 .. c - 1 : s(j) \in e + 1 .. Len(t) /\ s(j) \in ChildrenOf(t, e)
  <2> TAKE j \in 0 .. c - 1
  <2>1. s(j) \in e + 1 .. Len(t) /\ Parent(t, s(j)) = e
    BY BehindNext
  <2> QED
    BY <1>1, <2>1 DEF ChildrenOf
<1>3. \A i, j \in 0 .. c : i < j => s(i) < s(j)
  BY BehindGrows
<1>4. \A x \in ChildrenOf(t, e) : \E j \in 0 .. c - 1 : x = s(j)
  BY ChildIsBehind
<1> HIDE DEF c, s
<1>5. \A j \in 1 .. k : j - 1 \in 0 .. c - 1 /\ j - 1 \in 0 .. c /\ j - 1 < k /\ k \in 0 .. c
  BY <1>1
<1>6. \A j \in 1 .. k : f[j] \in S
  BY <1>2, <1>3, <1>5
<1>7. \A i, j \in 1 .. k : f[i] = f[j] => i = j
  <2> TAKE i \in 1 .. k, j \in 1 .. k
  <2> HAVE f[i] = f[j]
  <2>1. i - 1 \in 0 .. c /\ j - 1 \in 0 .. c /\ s(i - 1) = s(j - 1) /\ s(i - 1) \in Int
    BY <1>2, <1>5
  <2>2. ~(i - 1 < j - 1) /\ ~(j - 1 < i - 1)
    BY <1>3, <2>1
  <2> QED
    BY <2>2
<1>8. ASSUME NEW x \in S PROVE \E j \in 1 .. k : f[j] = x
  <2>1. PICK i \in 0 .. c - 1 : x = s(i)
    BY <1>4
  <2>2. s(i) < s(k) /\ i \in 0 .. c /\ k \in 0 .. c - 1 /\ k \in 0 .. c
    BY <1>1, <2>1
  <2>3. s(i) \in Int /\ s(k) \in Int
    BY <1>2, <2>2
  <2>4. i < k
    <3>1. i # k
      BY <2>2, <2>3
    <3>2. ~(k < i)
      BY <1>3, <2>2, <2>3
    <3> QED
      BY <1>1, <2>2, <3>1, <3>2
  <2>5. i + 1 \in 1 .. k /\ i + 1 - 1 = i
    BY <1>1, <2>4
  <2> QED
    BY <2>1, <2>5
<1> HIDE DEF S
<1>9. f \in Bijection(1 .. k, S)
  BY <1>6, <1>7, <1>8 DEF Bijection, Injection, Surjection, IsInjective
<1>10. Cardinality(S) = k
  BY <1>1, <1>9, FS_CountingElements DEF ExistsBijection
<1> QED
  BY <1>1, <1>2, <1>10 DEF S, s

(* An iterator's place: the child of its scope that its index says.         *)
Position == [scope : Nat, entry : Nat, index : Nat]
InPlace(t, p) ==
  /\ p \in Position
  /\ p.scope \in 1 .. Len(t) /\ p.index \in 0 .. Node(t, p.scope).children
  /\ p.entry = IF p.index = 0 THEN NULL ELSE Behind(t, p.scope, p.index - 1)

Placed ==
  /\ InPlace(tree, iter)
  /\ saved = [on |-> saved.on, next |-> saved.next, at |-> saved.at]
  /\ InPlace(tree, saved.at)
  /\ entered \in Seq(Position)
  /\ saved.on /\ ~saved.next => entered # <<>> /\ saved.at = Last(entered)

TreeIInv == tree \in Trees /\ (Plain(tree) => Placed)

LEMMA TreesAreComplete ==
  ASSUME NEW t \in Trees
  PROVE  Complete(t)
BY TreesAssumption DEF Complete

LEMMA StartInPlace ==
  ASSUME NEW t, Complete(t), NEW e \in 1 .. Len(t)
  PROVE  InPlace(t, AtStart(e))
BY DEF Complete, InPlace, AtStart, Position, NULL

LEMMA EntryInTree ==
  ASSUME NEW t, Complete(t), Plain(t), NEW p, InPlace(t, p), p.entry # NULL
  PROVE  p.entry \in 1 .. Len(t)
<1>1. p.index # 0 /\ p.index \in 0 .. Node(t, p.scope).children /\ p.scope \in 1 .. Len(t)
  BY DEF InPlace
<1>2. Node(t, p.scope).children \in Nat
  BY <1>1 DEF Complete
<1>3. p.index - 1 \in 0 .. Node(t, p.scope).children - 1
  BY <1>1, <1>2
<1>4. Behind(t, p.scope, p.index - 1) \in p.scope + 1 .. Len(t)
  BY <1>1, <1>3, BehindNext
<1>5. p.entry = Behind(t, p.scope, p.index - 1)
  BY <1>1 DEF InPlace
<1> QED
  BY <1>1, <1>4, <1>5 DEF Complete

LEMMA Repositioned ==
  ASSUME NEW t, NEW p \in Position, NEW v \in Nat, NEW w \in Nat,
         p.scope \in 1 .. Len(t), v \in 0 .. Node(t, p.scope).children,
         w = IF v = 0 THEN NULL ELSE Behind(t, p.scope, v - 1)
  PROVE  InPlace(t, [p EXCEPT !.index = v, !.entry = w])
<1> DEFINE q == [p EXCEPT !.index = v, !.entry = w]
<1>1. q \in Position /\ q.scope = p.scope /\ q.index = v /\ q.entry = w
  BY DEF Position
<1> HIDE DEF q
<1>2. InPlace(t, q)
  BY <1>1 DEF InPlace
<1> QED
  BY <1>2 DEF q

LEMMA NextInPlace ==
  ASSUME NEW t, Complete(t), Plain(t), NEW p, InPlace(t, p),
         p.index < Node(t, p.scope).children
  PROVE  InPlace(t, [p EXCEPT !.index = @ + 1,
                              !.entry = IF p.index = 0 THEN skipProperties(t, p.scope)
                                        ELSE skipTree(t)[@]])
<1> DEFINE e == p.scope
           k == p.index
           entry == IF k = 0 THEN skipProperties(t, e) ELSE skipTree(t)[p.entry]
           v == k + 1
<1>1. e \in 1 .. Len(t) /\ k \in Nat /\ p \in Position /\ Node(t, e).children \in Nat
      /\ k < Node(t, e).children
  BY DEF InPlace, Complete, Position
<1>2. entry = Behind(t, e, k)
  <2>1. CASE k = 0
    <3>1. skipProperties(t, e) = e + 1
      BY <1>1 DEF skipProperties, InTree, Plain, Complete, NULL
    <3>2. Behind(t, e, 0) = e + 1
      BY StepByStep DEF Behind
    <3> QED
      BY <2>1, <3>1, <3>2
  <2>2. CASE k # 0
    <3>1. p.entry = Behind(t, e, k - 1)
      BY <2>2 DEF InPlace
    <3>2. k - 1 \in 0 .. Node(t, e).children - 1 /\ k - 1 + 1 = k
      BY <1>1, <2>2
    <3>3. Behind(t, e, k - 1 + 1) = skipTree(t)[Behind(t, e, k - 1)]
      BY <1>1, <3>2, BehindNext
    <3> QED
      BY <2>2, <3>1, <3>2, <3>3
  <2> QED
    BY <2>1, <2>2
<1>3. Behind(t, e, k) \in Nat
  <2>1. k \in 0 .. Node(t, e).children
    BY <1>1
  <2>2. Passed(t, Behind(t, e, k), e, k)
    BY <1>1, <2>1, BehindIs
  <2> QED
    BY <1>1, <2>2 DEF Passed, Complete
<1> HIDE DEF entry
<1>4. p \in Position /\ v \in Nat /\ v \in 0 .. Node(t, p.scope).children /\ v # 0 /\ v - 1 = k
  BY <1>1
<1>5. entry \in Nat
  BY <1>2, <1>3
<1> HIDE DEF v
<1>6. p.scope \in 1 .. Len(t) /\ entry = IF v = 0 THEN NULL ELSE Behind(t, p.scope, v - 1)
  BY <1>1, <1>2, <1>4
<1>7. InPlace(t, [p EXCEPT !.index = v, !.entry = entry])
  BY <1>4, <1>5, <1>6, Repositioned
<1> QED
  BY <1>7 DEF v, entry

LEMMA LastOfAppend ==
  ASSUME NEW S, NEW s \in Seq(S), NEW x \in S
  PROVE  Append(s, x) \in Seq(S) /\ Append(s, x) # <<>> /\ Last(Append(s, x)) = x
BY DEF Last

LEMMA FrontIsSeq ==
  ASSUME NEW S, NEW s \in Seq(S), s # <<>>
  PROVE  Front(s) \in Seq(S)
BY DEF Front

LEMMA TreeStep ==
  ASSUME TreeIInv, [TreeNext]_treeVars
  PROVE  TreeIInv'
<1> SUFFICES ASSUME Plain(tree) PROVE tree' = tree /\ Placed'
  <2>1. tree' = tree
    BY DEF TreeNext, treeVars, GetProperty, FindByProperty, LookUp, AskFrequency, Ask, Called,
           DTIterateEntries, DTEnterEntry, DTExitEntry, DTRestartEntryIteration
  <2> QED
    BY <2>1 DEF TreeIInv
<1>0. Complete(tree) /\ Placed
  BY TreesAreComplete DEF TreeIInv
<1>1. CASE DTIterateEntries
  <2>1. UNCHANGED <<tree, saved, entered>>
    BY <1>1 DEF DTIterateEntries, Called
  <2>2. InPlace(tree, iter')
    BY <1>0, <1>1, NextInPlace DEF DTIterateEntries, Placed
  <2> QED
    BY <1>0, <2>1, <2>2 DEF Placed
<1>2. CASE DTEnterEntry
  <2>1. /\ tree' = tree /\ iter.entry # NULL /\ iter' = AtStart(iter.entry)
        /\ saved' = [on |-> TRUE, next |-> saved.on, at |-> iter]
        /\ entered' = Append(entered, iter)
    BY <1>2 DEF DTEnterEntry, Called
  <2>2. InPlace(tree, iter')
    BY <1>0, <2>1, EntryInTree, StartInPlace DEF Placed
  <2>3. InPlace(tree, iter) /\ iter \in Position
    BY <1>0 DEF Placed, InPlace
  <2>4. entered' \in Seq(Position) /\ entered' # <<>> /\ Last(entered') = iter
    BY <1>0, <2>1, <2>3, LastOfAppend DEF Placed
  <2> QED
    BY <2>1, <2>2, <2>3, <2>4 DEF Placed
<1>3. CASE DTExitEntry
  <2>1. /\ tree' = tree /\ saved.on /\ iter' = saved.at
        /\ saved' = [saved EXCEPT !.on = saved.next]
        /\ entered' = IF entered = <<>> THEN entered ELSE Front(entered)
    BY <1>3 DEF DTExitEntry, Called
  <2>2. saved'.on = saved.next /\ saved'.next = saved.next /\ saved'.at = saved.at
        /\ saved' = [on |-> saved.next, next |-> saved.next, at |-> saved.at]
    BY <1>0, <2>1 DEF Placed
  <2>3. entered' \in Seq(Position)
    BY <1>0, <2>1, FrontIsSeq DEF Placed
  <2> QED
    BY <1>0, <2>1, <2>2, <2>3 DEF Placed
<1>4. CASE DTRestartEntryIteration
  <2>1. UNCHANGED <<tree, saved, entered>> /\ iter' = AtStart(iter.scope)
    BY <1>4 DEF DTRestartEntryIteration, Called
  <2>2. InPlace(tree, iter')
    BY <1>0, <2>1, StartInPlace DEF Placed, InPlace
  <2> QED
    BY <1>0, <2>1, <2>2 DEF Placed
<1>5. CASE UNCHANGED <<tree, iter, saved, entered>>
  BY <1>0, <1>5 DEF Placed
<1> QED
  BY <1>1, <1>2, <1>3, <1>4, <1>5
  DEF TreeNext, treeVars, GetProperty, FindByProperty, LookUp, AskFrequency, Ask

(* For every tree whose nodes have properties, and any calls: the iterator  *)
(* stands at the child its index says, of its scope in the tree (device     *)
(* tree calls, DeviceTree.c 58-90, 258-351).                                *)
THEOREM Iterated == TreeSpec => []IteratorInPlace
<1>1. TreeInit => TreeIInv
  <2> SUFFICES ASSUME TreeInit PROVE TreeIInv
    OBVIOUS
  <2>1. Complete(tree) /\ tree \in Trees
    BY TreesAreComplete DEF TreeInit
  <2>2. InPlace(tree, AtStart(1))
    BY <2>1, StartInPlace DEF Complete
  <2> QED
    BY <2>1, <2>2 DEF TreeInit, TreeIInv, Placed
<1>2. TreeIInv /\ [TreeNext]_treeVars => TreeIInv'
  BY TreeStep
<1>3. TreeIInv => IteratorInPlace
  <2> SUFFICES ASSUME TreeIInv, Plain(tree) PROVE IteratorInPlace
    BY DEF IteratorInPlace
  <2> DEFINE e == iter.scope
             k == iter.index - 1
  <2>1. Complete(tree) /\ Placed /\ InPlace(tree, iter)
    BY TreesAreComplete DEF TreeIInv, Placed
  <2>2. CASE iter.index = 0
    BY <2>1, <2>2 DEF IteratorInPlace, Placed, InPlace
  <2>3. CASE iter.index # 0
    <3>1. /\ e \in 1 .. Len(tree) /\ iter.index \in 0 .. Node(tree, e).children
          /\ iter.entry = Behind(tree, e, k)
      BY <2>1, <2>3 DEF InPlace
    <3>2. Node(tree, e).children \in Nat
      BY <2>1, <3>1 DEF Complete
    <3>3. k \in 0 .. Node(tree, e).children - 1
      BY <2>3, <3>1, <3>2
    <3>4. /\ Behind(tree, e, k) \in ChildrenOf(tree, e)
          /\ Cardinality({x \in ChildrenOf(tree, e) : x < Behind(tree, e, k)}) = k
      BY <2>1, <3>1, <3>3, CountBefore
    <3> QED
      BY <2>1, <2>3, <3>1, <3>4 DEF IteratorInPlace, Placed
  <2> QED
    BY <2>2, <2>3
<1> QED
  BY <1>1, <1>2, <1>3, PTL DEF TreeSpec

=============================================================================
