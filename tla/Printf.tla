------------------------------- MODULE Printf -------------------------------
(* Numbers and strings written by __doprnt() and read back by strtol() and  *)
(* strtoul(): one directive, one argument, every flag.  int and long are    *)
(* scaled to few values.                                                    *)
EXTENDS BootArgs

CONSTANTS IntSpan, LongSpan,    \* how many values they have: 2^32 and 2^64
          Widths                \* of a field; a negative one comes from an int, by *

ASSUME PrintfAssumption ==
  /\ IntSpan \in Nat \ {0} /\ IntSpan % 2 = 0
  /\ LongSpan \in Nat /\ LongSpan % 2 = 0 /\ IntSpan <= LongSpan
  /\ Widths \subseteq Int

Long == 0 .. LongSpan - 1
AsInt(v) == v % IntSpan
Signed(v, span) == IF v >= span \div 2 THEN v - span ELSE v
Wrapped(n) == n % LongSpan

digits == <<"0", "1", "2", "3", "4", "5", "6", "7", "8", "9", "a", "b", "c", "d", "e", "f">>
capitals == <<"0", "1", "2", "3", "4", "5", "6", "7", "8", "9", "A", "B", "C", "D", "E", "F">>

(* The digits of a number, the last one first, as the loops make them.      *)
Backwards(base, table) ==
  LET made[u \in Long] ==
        <<table[(u % base) + 1]>> \o IF u < base THEN <<>> ELSE made[u \div base]
  IN made
itoa(u, base) == Reverse(Backwards(base, digits)[u])

----------------------------------------------------------------------------
(* A directive as it is parsed: flags in any order, then one 0, then the    *)
(* width; a negative one turns the side.                                    *)
Directives ==
  [flags : SUBSET {"#", "-", "+", " "}, zero : BOOLEAN, width : Widths,
   long : BOOLEAN, conv : {"d", "u", "o", "x", "X", "p", "z", "Z"}]

Width(d) == IF d.width < 0 THEN 0 - d.width ELSE d.width
LeftAdjusted(d) == ("-" \in d.flags) # (d.width < 0)
PlusSign(d) == IF "+" \in d.flags THEN <<"+">> ELSE IF " " \in d.flags THEN <<" ">> ELSE <<>>
Base(d) == CASE d.conv \in {"d", "u"} -> 10 [] d.conv = "o" -> 8 [] OTHER -> 16
IsSigned(d) == d.conv \in {"d", "z", "Z"}
IsLong(d) == d.long \/ d.conv = "p"
ValuesOf(d) == IF IsLong(d) THEN LongSpan ELSE IntSpan

(* The number taken from the arguments, its size and its sign.              *)
Argument(d, v) ==
  LET w == IF IsLong(d) THEN v ELSE AsInt(v)
  IN IF IsSigned(d) THEN Signed(w, ValuesOf(d)) ELSE w
Magnitude(n) == IF n < 0 THEN 0 - n ELSE n
SignChar(d, n) ==
  IF n < 0 THEN <<"-">> ELSE IF IsSigned(d) THEN PlusSign(d) ELSE <<>>
Prefix(d, u) ==
  IF u = 0 \/ ~("#" \in d.flags \/ d.conv = "p") THEN <<>>
  ELSE IF Base(d) = 8 THEN <<"0">> ELSE IF Base(d) = 16 THEN <<"0", "x">> ELSE <<>>

(* print_num.  With no room left, or less, nothing is padded.               *)
Filled(c, room) == IF room > 0 THEN [i \in 1 .. room |-> c] ELSE <<>>
PrintNum(d, n) ==
  LET u == Magnitude(n)
      number == Reverse(Backwards(Base(d), IF d.conv \in {"X", "Z"} THEN capitals ELSE digits)[u])
      head == SignChar(d, n) \o Prefix(d, u)
      room == Width(d) - Len(number) - Len(head)
  IN IF d.zero THEN head \o Filled("0", room) \o number
     ELSE IF LeftAdjusted(d) THEN head \o number \o Filled(" ", room)
     ELSE Filled(" ", room) \o head \o number

(* The hiding of kernel addresses in a log is left out.                    *)
Printed(d, v) == PrintNum(d, Argument(d, v))

(* %s: a string is cut to its precision, and to its width.                  *)
PrintedString(s, width, left, prec) ==
  LET n == Min({Len(s), prec})
      kept == SubSeq(s, 1, IF width > 0 THEN Min({n, width}) ELSE n)
      pad == Filled(" ", width - n)
  IN IF left THEN kept \o pad ELSE pad \o kept

----------------------------------------------------------------------------
(* strtol() and strtoul(): blanks, a sign, 0x or 0b, digits.  Every letter  *)
(* is one; 99 is for what is neither a numeral nor a letter.                *)
numerals == <<"0", "1", "2", "3", "4", "5", "6", "7", "8", "9">>
lower == <<"a", "b", "c", "d", "e", "f", "g", "h", "i", "j", "k", "l", "m", "n", "o", "p", "q",
           "r", "s", "t", "u", "v", "w", "x", "y", "z">>
upper == <<"A", "B", "C", "D", "E", "F", "G", "H", "I", "J", "K", "L", "M", "N", "O", "P", "Q",
           "R", "S", "T", "U", "V", "W", "X", "Y", "Z">>
Place(c, row) == CHOOSE i \in DOMAIN row : row[i] = c
DigitOf(c) ==
  IF c \in Range(numerals) THEN Place(c, numerals) - 1
  ELSE IF c \in Range(lower) THEN Place(c, lower) + 9
  ELSE IF c \in Range(upper) THEN Place(c, upper) + 9 ELSE 99
Blanks == {" ", "\t", "\n"}

From(s, i) == SubSeq(s, i, Len(s))
At(s, i) == IF i \in 1 .. Len(s) THEN s[i] ELSE "NUL"
Skip(s, blanks) ==
  From(s, Min({i \in 1 .. Len(s) + 1 : i = Len(s) + 1 \/ s[i] \notin blanks}))

(* What is left to read, in which base, and whether it is negative.         *)
Start(text, base) ==
  LET s == Skip(text, Blanks)
      t == IF At(s, 1) \in {"-", "+"} THEN Tail(s) ELSE s
      hex == base \in {0, 16} /\ At(t, 1) = "0" /\ At(t, 2) \in {"x", "X"}
      bin == ~hex /\ base \in {0, 2} /\ At(t, 1) = "0" /\ At(t, 2) \in {"b", "B"}
  IN [neg |-> At(s, 1) = "-",
      rest |-> IF hex \/ bin THEN From(t, 3) ELSE t,
      base |-> IF hex THEN 16 ELSE IF bin THEN 2
               ELSE IF base = 0 THEN IF At(t, 1) = "0" THEN 8 ELSE 10 ELSE base]

Reached(acc, over, stopped) == [acc |-> acc, over |-> over, stopped |-> stopped]

(* MUTANT: the last digit is not looked at.                                *)
TooLate(a, c, base, limit) ==
  IF a.stopped \/ DigitOf(c) >= base THEN Reached(a.acc, a.over, TRUE)
  ELSE IF a.over \/ a.acc > limit \div base THEN Reached(a.acc, TRUE, FALSE)
  ELSE Reached(a.acc * base + DigitOf(c), FALSE, FALSE)

(* The loop: any turns negative once the next digit would pass the limit.   *)
Accumulate(a, c, base, limit) ==
  IF a.stopped \/ DigitOf(c) >= base THEN Reached(a.acc, a.over, TRUE)
  ELSE IF a.over \/ a.acc > limit \div base \/ (a.acc = limit \div base /\ DigitOf(c) > limit % base)
  THEN Reached(a.acc, TRUE, FALSE)
  ELSE Reached(a.acc * base + DigitOf(c), FALSE, FALSE)
Accumulated(start, limit) ==
  LET reached[k \in 0 .. Len(start.rest)] ==
        IF k = 0 THEN Reached(0, FALSE, FALSE)
        ELSE Accumulate(reached[k - 1], start.rest[k], start.base, limit)
  IN reached[Len(start.rest)]

LONG_MAX == LongSpan \div 2 - 1
ULONG_MAX == LongSpan - 1
strtol(text, base) ==
  LET start == Start(text, base)
      limit == IF start.neg THEN LONG_MAX + 1 ELSE LONG_MAX
      a == Accumulated(start, limit)
  IN IF a.over THEN IF start.neg THEN 0 - limit ELSE limit
     ELSE IF start.neg THEN 0 - a.acc ELSE a.acc
strtoul(text, base) ==
  LET start == Start(text, base)
      a == Accumulated(start, ULONG_MAX)
  IN IF a.over THEN ULONG_MAX ELSE Wrapped(IF start.neg THEN 0 - a.acc ELSE a.acc)
----------------------------------------------------------------------------
(* What was printed, with any flags, is read back as the number it was made *)
(* from: by strtol() if the directive is a signed one, else by strtoul().   *)
(* The field is no wider than asked for, unless the number is.              *)
PrintedRight(d, v) ==
  LET p == Printed(d, v)
      bare == Printed([d EXCEPT !.width = 0], v)
  IN /\ Argument(d, v) = IF IsSigned(d) THEN strtol(p, Base(d)) ELSE strtoul(p, Base(d))
     /\ Len(p) = Max({Width(d), Len(bare)})

(* A string fills its field and never passes it; what is shown is as much   *)
(* of its beginning as the field and the precision allow, at the side asked *)
(* for, and blanks.                                                         *)
StringRight(s, width, left, prec) ==
  LET p == PrintedString(s, width, left, prec)
      room == Min({prec, Len(s)} \cup IF width > 0 THEN {width} ELSE {})
      before == IF left THEN 0 ELSE Len(p) - room
  IN /\ Len(p) = IF width > 0 THEN width ELSE room
     /\ \A i \in 1 .. Len(p) :
          p[i] = IF i \in before + 1 .. before + room THEN s[i - before] ELSE " "

(* The reference cuts a text: blanks up to place i, a sign up to j, what    *)
(* tells the base up to k.                                                  *)
Tells(base) ==
  {<<"0", x>> : x \in (IF base \in {0, 16} THEN {"x", "X"} ELSE {})
                     \cup IF base \in {0, 2} THEN {"b", "B"} ELSE {}}
Cut(text, base, i, j, k) ==
  /\ \A p \in 1 .. i - 1 : text[p] \in Blanks
  /\ At(text, i) \notin Blanks
  /\ j = IF At(text, i) \in {"-", "+"} THEN i + 1 ELSE i
  /\ k = IF <<At(text, j), At(text, j + 1)>> \in Tells(base) THEN j + 2 ELSE j
RadixAt(text, base, j, k) ==
  CASE k # j -> IF At(text, j + 1) \in {"x", "X"} THEN 16 ELSE 2
    [] k = j /\ base # 0 -> base
    [] OTHER -> IF At(text, j) = "0" THEN 8 ELSE 10

(* The digits a text begins with, by their places; the nearest number there *)
(* is, when that is too many.                                               *)
Leading(s, base) == Min({i \in 1 .. Len(s) + 1 : i = Len(s) + 1 \/ DigitOf(s[i]) >= base}) - 1
Exact(s, base) ==
  LET n == Leading(s, base) IN WorthOf([i \in 1 .. n |-> DigitOf(s[i])], n, base)
NumberRight(text, base) ==
  \E i \in 1 .. Len(text) + 1 : \E j \in {i, i + 1} : \E k \in {j, j + 2} :
    /\ Cut(text, base, i, j, k)
    /\ LET exact == Exact(From(text, k), RadixAt(text, base, j, k))
           n == IF At(text, i) = "-" THEN 0 - exact ELSE exact
       IN /\ strtol(text, base) = Max({0 - LONG_MAX - 1, Min({LONG_MAX, n})})
          /\ strtoul(text, base) = IF exact > ULONG_MAX THEN ULONG_MAX ELSE Wrapped(n)
=============================================================================
