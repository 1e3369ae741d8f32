----------------------------- MODULE BasicString -----------------------------
(***************************************************************************)
(* std::string as the Swift runtime finds it: the kernel brings its own    *)
(* bodies for the members libc++ compiles out of line (objc.m).  A string  *)
(* of up to SMALL_STR_CAPACITY - 1 characters and its terminator fit into  *)
(* the object itself; a longer one is in memory from malloc, and the       *)
(* object keeps the capacity, whose lowest bit marks this form.            *)
(*                                                                         *)
(* The contents are the characters counted by the size, and whether a      *)
(* terminator follows them, for compare() goes by the terminator.  A write *)
(* past the object or past its memory, and a size read from bytes that     *)
(* were never written, end the model of that string: whatever comes next   *)
(* is up to what the memory held.                                          *)
(***************************************************************************)
EXTENDS Integers, Sequences

CONSTANTS
  Strings,             \* the string objects
  Chars, Junk,         \* characters, and what memory held before
  Texts,               \* the texts they are made from and appended
  SMALL_STR_CAPACITY,  \* 23 in the code
  Step,                \* memory comes in steps of so many bytes, 16 in the code
  MaxLen               \* bound: characters in a string

ASSUME StringAssumption ==
  /\ SMALL_STR_CAPACITY \in Nat /\ SMALL_STR_CAPACITY > 1
  /\ Step \in Nat \ {0} /\ MaxLen \in Nat
  /\ Texts \subseteq Seq(Chars) /\ Junk \notin Chars

VARIABLES
  str,        \* the objects
  value,      \* what each holds by the standard's account
  unfinished  \* those a call was made on that leaves out half of its work;
              \* of these no value is kept

stringVars == <<str, value, unfinished>>

(* fresh: nothing has put an end to it since it was made or moved.         *)
None == [form |-> "none", chars |-> <<>>, capacity |-> 0, room |-> 0, ended |-> FALSE,
         fresh |-> FALSE]

(* Of memory written past its end nothing is known any more, and of a      *)
(* string whose size was never written neither.                            *)
Overrun == [None EXCEPT !.form = "overrun"]
Unknown == [None EXCEPT !.form = "unknown"]

(* In the object.  ss.string has room for SMALL_STR_CAPACITY bytes.        *)
Short(chars, ended, fresh) ==
  [form |-> "short", chars |-> chars, capacity |-> SMALL_STR_CAPACITY,
   room |-> SMALL_STR_CAPACITY, ended |-> ended, fresh |-> fresh]

(* capacity | 1                                                            *)
Marked(n) == IF n % 2 = 1 THEN n ELSE n + 1

(* In memory of room bytes, of which the object keeps the number.          *)
Long(chars, room, ended, fresh) ==
  [form |-> "long", chars |-> chars, capacity |-> Marked(room), room |-> room,
   ended |-> ended, fresh |-> fresh]

(* get_str_capacity, get_str_size                                          *)
Capacity(o) == o.capacity - 1
Size(o) == Len(o.chars)

(* MUTANT: rounded up, without a byte for the terminator.                  *)
RoundedUp(len) == ((len + Step - 1) \div Step) * Step

(* best_str_capacity                                                       *)
BestCapacity(len) == ((len + Step) \div Step) * Step

(* The string o if its first n bytes are all the code writes.              *)
Writing(n, o) == IF n > o.room THEN Overrun ELSE o

----------------------------------------------------------------------------
StringInit ==
  /\ str = [s \in Strings |-> None]
  /\ value = [s \in Strings |-> <<>>]
  /\ unfinished = {}

(* __init(char const*, unsigned long): the terminator goes one byte too    *)
(* far, and what stands in its place was there before.                     *)
Made(text, ended) ==
  IF Len(text) <= SMALL_STR_CAPACITY
  THEN Writing(Len(text) + 2, Short(text, ended, TRUE))
  ELSE Writing(Len(text) + 2, Long(text, BestCapacity(Len(text)) + 1, ended, TRUE))

MakeFrom(s, text) ==
  /\ str[s].form = "none"
  /\ \E ended \in BOOLEAN : str' = [str EXCEPT ![s] = Made(text, ended)]
  /\ value' = [value EXCEPT ![s] = text]
  /\ UNCHANGED unfinished

(* __init(unsigned long, char): the characters are never written.          *)
MakeOf(s, n) ==
  /\ str[s].form = "none"
  /\ LET junk == [i \in 1 .. n |-> Junk]
     IN \E ended \in BOOLEAN : str' = [str EXCEPT ![s] =
          IF n < SMALL_STR_CAPACITY THEN Short(junk, ended, TRUE)
          ELSE Long(junk, BestCapacity(n) + 1, ended, TRUE)]
  /\ unfinished' = unfinished \cup {s}
  /\ UNCHANGED value

(* basic_string(std::string const&)                                        *)
CopyOf(s, t) ==
  /\ str[s].form = "none" /\ str[t].form \in {"short", "long"}
  /\ IF str[t].form = "short"
     THEN str' = [str EXCEPT ![s] = str[t]]
     ELSE \E ended \in BOOLEAN : str' = [str EXCEPT ![s] = Made(str[t].chars, ended)]
  /\ value' = [value EXCEPT ![s] = value[t]]
  /\ unfinished' = IF t \in unfinished THEN unfinished \cup {s} ELSE unfinished

----------------------------------------------------------------------------
Whole(s) == str[s].form \in {"short", "long"}

(* __grow_by_and_replace: new memory for exactly the characters.           *)
Replaced(o, new, chars) == Writing(Len(chars) + 1, Long(chars, new + 1, TRUE, FALSE))

(* MUTANT: the size is not set in new memory.                              *)
AppendedUncounted(o, text) ==
  IF Capacity(o) - Size(o) >= Len(text)
  THEN [o EXCEPT !.chars = @ \o text, !.ended = TRUE, !.fresh = FALSE]
  ELSE Replaced(o, Size(o) + Len(text), o.chars)

(* append(char const*, unsigned long).  The subtraction wraps in a short   *)
(* string of SMALL_STR_CAPACITY characters.                                *)
Appended(o, text) ==
  LET written == IF text = <<>> THEN o
                 ELSE Writing(Size(o) + Len(text) + 1,
                        [o EXCEPT !.chars = @ \o text, !.ended = TRUE, !.fresh = FALSE])
  IN IF Capacity(o) < Size(o) \/ Capacity(o) - Size(o) >= Len(text)
     THEN written
     ELSE Replaced(o, Size(o) + Len(text), o.chars \o text)

Add(s, text) ==
  /\ Whole(s) /\ Size(str[s]) + Len(text) <= MaxLen
  /\ str' = [str EXCEPT ![s] = Appended(@, text)]
  /\ value' = IF s \in unfinished THEN value ELSE [value EXCEPT ![s] = @ \o text]
  /\ UNCHANGED unfinished

(* basic_string(char const*, unsigned long) appends to an object that was  *)
(* never written: what it held may be taken for an empty string.           *)
MakeByAppending(s, text) ==
  /\ str[s].form = "none"
  /\ \/ str' = [str EXCEPT ![s] = Unknown]
     \/ str' = [str EXCEPT ![s] = Appended(Short(<<>>, TRUE, FALSE), text)]
  /\ value' = [value EXCEPT ![s] = text]
  /\ UNCHANGED unfinished

(* __grow_by: rounded up this time, with the old characters and, if there  *)
(* are any, a terminator.                                                  *)
Grown(o, new, ended) ==
  Writing(Size(o) + 1,
          Long(o.chars, BestCapacity(new) + 1, ended \/ o.chars # <<>>, o.chars = <<>>))

(* push_back has no room left.                                             *)
Full(o) == Size(o) = Capacity(o)

(* push_back                                                               *)
PushBack(s, c) ==
  /\ Whole(s) /\ Size(str[s]) < MaxLen
  /\ LET o == IF Full(str[s]) THEN Grown(str[s], Capacity(str[s]) + 1, TRUE) ELSE str[s]
     IN str' = [str EXCEPT ![s] =
          Writing(Size(o) + 2, [o EXCEPT !.chars = Append(@, c), !.ended = TRUE,
                                         !.fresh = FALSE])]
  /\ value' = IF s \in unfinished THEN value ELSE [value EXCEPT ![s] = Append(@, c)]
  /\ UNCHANGED unfinished

(* operator=, by assign(char const*, unsigned long)                        *)
Assign(s, t) ==
  /\ Whole(s) /\ Whole(t) /\ s # t
  /\ LET chars == str[t].chars
     IN str' = [str EXCEPT ![s] =
          IF Capacity(str[s]) >= Len(chars)
          THEN Writing(Len(chars) + 1, [str[s] EXCEPT !.chars = chars, !.ended = TRUE,
                                                      !.fresh = FALSE])
          ELSE Replaced(str[s], Len(chars), chars)]
  /\ value' = [value EXCEPT ![s] = value[t]]
  /\ unfinished' = IF t \in unfinished THEN unfinished \cup {s} ELSE unfinished \ {s}

----------------------------------------------------------------------------
(* reserve(): the size of a string that was short is not carried over.     *)
Reserve(s, new) ==
  /\ Whole(s) /\ new # Capacity(str[s]) /\ Capacity(str[s]) <= MaxLen
  /\ LET o == str[s]
         wanted == IF new < Size(o) THEN Size(o) ELSE new
     IN IF o.form = "short"
        THEN str' = [str EXCEPT ![s] = Unknown]
        ELSE \E ended \in BOOLEAN : str' = [str EXCEPT ![s] =
               Grown(o, Capacity(o) + wanted - Size(o), ended)]
  /\ UNCHANGED <<value, unfinished>>

(* resize() to fewer characters goes through append(n, c) with a number    *)
(* that wrapped: the string moves to memory for the new size, with all of  *)
(* its old characters.  To more, it only writes a terminator.              *)
Resized(o, n) ==
  IF n > Size(o) THEN Writing(n + 2, o)
  ELSE IF n = Size(o) THEN o
  ELSE Writing(Size(o) + 1,
               Long(SubSeq(o.chars, 1, n), BestCapacity(n) + 1, FALSE, FALSE))

Resize(s, n) ==
  /\ Whole(s)
  /\ str' = [str EXCEPT ![s] = Resized(@, n)]
  /\ value' = [value EXCEPT ![s] = <<>>]
  /\ unfinished' = unfinished \cup {s}

(* ~basic_string()                                                         *)
Destroy(s) ==
  /\ Whole(s)
  /\ str' = [str EXCEPT ![s] = None]
  /\ value' = [value EXCEPT ![s] = <<>>]
  /\ unfinished' = unfinished \ {s}

StringNext ==
  \E s \in Strings :
    \/ \E text \in Texts : MakeFrom(s, text) \/ MakeByAppending(s, text) \/ Add(s, text)
    \/ \E n \in 0 .. MaxLen : MakeOf(s, n) \/ Resize(s, n) \/ Reserve(s, n)
    \/ \E c \in Chars : PushBack(s, c)
    \/ \E t \in Strings : CopyOf(s, t) \/ Assign(s, t)
    \/ Destroy(s)

StringSpec == StringInit /\ [][StringNext]_stringVars

----------------------------------------------------------------------------
(* The capacity in the object is what malloc was asked for, or one more,   *)
(* where the mark was added to an even number.  A string fits its memory   *)
(* with its terminator, even so.                                           *)
CapacityCounts ==
  \A s \in Strings :
    LET o == str[s] IN
    /\ o.form \in {"none", "short", "long", "overrun", "unknown"}
    /\ Whole(s) => /\ o.chars \in Seq(Chars \cup {Junk})
                   /\ Len(o.chars) < o.room
                   /\ o.capacity \in {o.room, o.room + 1}
    /\ o.form = "short" => o.capacity = SMALL_STR_CAPACITY /\ o.room = SMALL_STR_CAPACITY
    /\ o.form = "long" => o.capacity % 2 = 1

(* Unless resize() was called or it was made of one character repeated, a  *)
(* string holds what std::string says, and a terminator after it unless    *)
(* nothing was written since it was made.                                  *)
ValueKept ==
  \A s \in Strings :
    Whole(s) /\ s \notin unfinished =>
      str[s].chars = value[s] /\ (str[s].ended \/ str[s].fresh)

(* Memory is overrun in three places only: where a string is made of as    *)
(* many characters as the object has room for with their terminator, or    *)
(* one more; where the capacity was one too high; and by resize().         *)
OverrunOnlyHere ==
  [][\A s \in Strings :
       str[s].form # "overrun" /\ str'[s].form = "overrun" =>
         \/ str[s].form = "none"
            /\ Len(value'[s]) \in {SMALL_STR_CAPACITY - 1, SMALL_STR_CAPACITY}
         \/ str[s].form = "long" /\ str[s].capacity > str[s].room
         \/ s \in unfinished']_stringVars
=============================================================================
