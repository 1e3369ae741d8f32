------------------------------ MODULE BootArgs ------------------------------
(* Parse_boot_argn(): the value of an argument on the kernel's command      *)
(* line.  The line is a sequence of words: a name, which begins with a dash *)
(* in a switch, and perhaps "=" and a value, which is read character by     *)
(* character.                                                               *)
EXTENDS Integers, Sequences, SequencesExt, FiniteSetsExt

Suffix ==
  [c \in {"k", "K", "m", "M", "g", "G"} |->
     CASE c \in {"k", "K"} -> 1024 [] c \in {"m", "M"} -> 1024 * 1024
       [] c \in {"g", "G"} -> 1024 * 1024 * 1024]
DigitChars == <<"0", "1", "2", "3", "4", "5", "6", "7", "8", "9", "a", "b", "c", "d", "e", "f">>
CapitalChars == <<"A", "B", "C", "D", "E", "F">>
Value(c) ==
  IF c \in Range(DigitChars) THEN (CHOOSE i \in 1 .. 16 : DigitChars[i] = c) - 1
  ELSE IF c \in Range(CapitalChars) THEN (CHOOSE i \in 1 .. 6 : CapitalChars[i] = c) + 9 ELSE 99

(* getval(): the radix from what follows a first 0, digits, one suffix at   *)
(* the very end; anything else makes the value a string.                    *)
STR == [kind |-> "STR"]
NUM(n) == [kind |-> "NUM", n |-> n]

Radix(s) ==      \* and what is left to read; the first digit must be decimal
  LET Left(radix, rest) == [radix |-> radix, rest |-> rest]
  IN IF s = <<>> \/ Value(s[1]) >= 10 THEN Left(0, <<"?">>)
     ELSE IF s[1] # "0" \/ Len(s) = 1 THEN Left(10, s)
     ELSE IF s[2] = "x" THEN Left(16, SubSeq(s, 3, Len(s)))
     ELSE IF s[2] = "b" THEN Left(2, SubSeq(s, 3, Len(s)))
     ELSE IF Value(s[2]) < 8 THEN Left(8, Tail(s))
     ELSE Left(0, <<"?">>)

Reading(n, state) == [n |-> n, state |-> state]

(* MUTANT: a suffix may stand anywhere.                                    *)
DigitAfterSuffix(a, c, radix) ==
  IF a.state = "digits" /\ Value(c) < radix THEN Reading(a.n * radix + Value(c), "digits")
  ELSE IF a.state = "digits" /\ c \in DOMAIN Suffix THEN Reading(a.n * Suffix[c], "digits")
  ELSE Reading(a.n, "string")

Digit(a, c, radix) ==
  IF a.state = "digits" /\ Value(c) < radix THEN Reading(a.n * radix + Value(c), "digits")
  ELSE IF a.state = "digits" /\ c \in DOMAIN Suffix THEN Reading(a.n * Suffix[c], "ended")
  ELSE Reading(a.n, "string")
ReadDigits(s, radix) ==
  LET read[k \in 0 .. Len(s)] ==
        IF k = 0 THEN Reading(0, "digits") ELSE Digit(read[k - 1], s[k], radix)
  IN read[Len(s)]

Negative(s) == s # <<>> /\ s[1] = "-"
Unsigned(s) == IF Negative(s) THEN Tail(s) ELSE s
getval(s) ==
  LET r == Radix(Unsigned(s))
      a == ReadDigits(r.rest, r.radix)
  IN IF a.state = "string" THEN STR ELSE NUM(IF Negative(s) THEN 0 - a.n ELSE a.n)

(* A word that names the argument ends the search if it is a switch, or if  *)
(* the name begins with an underscore, which makes it a string; otherwise a *)
(* later word replaces the value.                                           *)
Naming(w, name) == (w.name.dash \/ w.equals) /\ w.name = name
Given(w) ==
  IF w.name.dash THEN NUM(1) ELSE IF w.name.underscore THEN STR ELSE getval(w.value)
Stops(w) == w.name.dash \/ w.name.underscore
Search(ended, got) == [ended |-> ended, got |-> got]
Parse_boot_argn(line, name) ==
  LET visited[n \in 0 .. Len(line)] ==
        IF n = 0 THEN Search(FALSE, <<>>)
        ELSE IF visited[n - 1].ended \/ ~Naming(line[n], name) THEN visited[n - 1]
        ELSE Search(Stops(line[n]), <<Given(line[n]), line[n].value>>)
  IN visited[Len(line)].got

(* A line of words.                                                         *)
IsBootLine(line) ==
  /\ DOMAIN line = 1 .. Len(line) /\ Len(line) \in Nat
  /\ \A i \in 1 .. Len(line) :
       line[i].equals \in BOOLEAN /\ line[i].name.dash \in BOOLEAN /\ line[i].name.underscore \in BOOLEAN

----------------------------------------------------------------------------
(* What a value means: a sign, a prefix, digits and a suffix.  The digits   *)
(* count by their places, from the last.                                    *)
Forms == {"dec", "oct", "hex", "bin"}
RadixOf(form) ==
  CASE form = "dec" -> 10 [] form = "oct" -> 8 [] form = "hex" -> 16 [] form = "bin" -> 2
PrefixOf(form) ==
  CASE form = "dec" -> <<>> [] form = "oct" -> <<"0">>
    [] form = "hex" -> <<"0", "x">> [] form = "bin" -> <<"0", "b">>
Endings == {"none", "k", "K", "m", "M", "g", "G"}
EndingLength(e) == IF e = "none" THEN 0 ELSE 1
Factor(e) ==
  CASE e = "none" -> 1 [] e \in {"k", "K"} -> 1024 [] e \in {"m", "M"} -> 1048576
    [] e \in {"g", "G"} -> 1073741824

Counted(sum, place) == [sum |-> sum, place |-> place]
WorthOf(ns, n, radix) ==
  LET counted[k \in 0 .. n] ==
        IF k = 0 THEN Counted(0, 1)
        ELSE Counted(counted[k - 1].sum + ns[n - k + 1] * counted[k - 1].place,
                     radix * counted[k - 1].place)
  IN counted[n].sum
Worth(ds, radix) == WorthOf([i \in 1 .. Len(ds) |-> Value(ds[i])], Len(ds), radix)

DigitsOf(t, form, e) == SubSeq(t, Len(PrefixOf(form)) + 1, Len(t) - EndingLength(e))
ReadsAs(t, form, e) ==
  LET ds == DigitsOf(t, form, e)
  IN /\ Len(PrefixOf(form)) + EndingLength(e) <= Len(t)
     /\ \A i \in 1 .. Len(PrefixOf(form)) : t[i] = PrefixOf(form)[i]
     /\ e # "none" => t[Len(t)] = e
     /\ \A i \in 1 .. Len(ds) : Value(ds[i]) < RadixOf(form)
     /\ form \in {"dec", "oct"} => ds # <<>>
     /\ form = "dec" => ds[1] # "0" \/ (Len(ds) = 1 /\ e = "none")
Meant(t, form, e) == Worth(DigitsOf(t, form, e), RadixOf(form)) * Factor(e)
Meanings(t) == {Meant(t, x[1], x[2]) : x \in {y \in Forms \X Endings : ReadsAs(t, y[1], y[2])}}

(* A value is a number exactly if it reads as one in some way, and then it  *)
(* is that number (bootargs.c 153-227).  The width of 64 bits is left out.  *)
ValueRight(s) ==
  LET meanings == Meanings(Unsigned(s))
  IN IF meanings = {} THEN getval(s) = STR
     ELSE \E n \in meanings :
            meanings = {n} /\ getval(s) = NUM(IF Negative(s) THEN 0 - n ELSE n)

(* The word that decides: the first switch or string by that name, the last *)
(* word for a number (bootargs.c 77-151).                                   *)
ArgumentRight(line, name) ==
  LET named == {i \in DOMAIN line : Naming(line[i], name)}
      i == IF name.dash \/ name.underscore THEN Min(named) ELSE Max(named)
  IN Parse_boot_argn(line, name) = IF named = {} THEN <<>> ELSE <<Given(line[i]), line[i].value>>
=============================================================================
