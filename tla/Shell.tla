------------------------------- MODULE Shell -------------------------------
(* findcommand(): a line is split into words, in place, and the command by  *)
(* the name of the first is run.                                            *)
EXTENDS Naturals, Sequences, SequencesExt, FiniteSetsExt

CONSTANTS MaxArgs,     \* 16 in the code
          Commands     \* the names addCommand() was given

ASSUME ShellAssumption == MaxArgs \in Nat \ {0}

Blank(c) == c \in {" ", "\t"}
Quote(c) == c \in {"'", "\""}

(* One character: escaping is set by any quote, and inside a word any quote *)
(* ends it.  Words past the last place of argv are cut, but not kept.       *)
Scanned(arg, escaping, argv, cuts) ==
  [arg |-> arg, escaping |-> escaping, argv |-> argv, cuts |-> cuts]
ScanOne(a, c, i) ==
  LET escaping == a.escaping \/ Quote(c)
      space == Blank(c) /\ ~a.escaping
  IN IF a.arg
     THEN IF space \/ Quote(c) THEN Scanned(FALSE, FALSE, a.argv, a.cuts \cup {i})
          ELSE Scanned(TRUE, escaping, a.argv, a.cuts)
     ELSE IF space THEN a
     ELSE Scanned(TRUE, escaping,
                  IF Len(a.argv) < MaxArgs THEN Append(a.argv, IF escaping THEN i + 1 ELSE i)
                  ELSE a.argv, a.cuts)
Scan(line) ==
  LET scan[i \in 0 .. Len(line)] ==
        IF i = 0 THEN Scanned(FALSE, FALSE, <<>>, {}) ELSE ScanOne(scan[i - 1], line[i], i)
  IN scan[Len(line)]

(* A pointer reads up to the next end of a string.                          *)
StringAt(line, cuts, p) ==
  SubSeq(line, p, Min({i \in p .. Len(line) + 1 : i \in cuts \/ i = Len(line) + 1}) - 1)
argv(line) ==
  LET a == Scan(line) IN [k \in DOMAIN a.argv |-> StringAt(line, a.cuts, a.argv[k])]

(* With no word at all argv[0] is read although nothing was stored there.   *)
Rejected(line) == line \in {<<>>, <<" ">>}
Found(line) ==
  IF Rejected(line) THEN "not found"
  ELSE IF argv(line) = <<>> THEN "uninitialized"
  ELSE IF argv(line)[1] \in Commands THEN "run" ELSE "not found"

----------------------------------------------------------------------------
(* The words of a line: each begins at the first character behind the one   *)
(* before that is no blank, and ends at a blank, or at a quote of either    *)
(* kind; a blank does not end it if it began with a quote.                  *)
BeginAfter(line, i) == Min({j \in i + 1 .. Len(line) : ~Blank(line[j])} \cup {Len(line) + 1})
EndAfter(line, i) ==
  Min({j \in i + 1 .. Len(line) : Quote(line[j]) \/ (Blank(line[j]) /\ ~Quote(line[i]))}
        \cup {Len(line) + 1})
WordEnds(line) ==
  LET end[k \in 0 .. Len(line)] ==
        IF k = 0 THEN 0 ELSE EndAfter(line, BeginAfter(line, end[k - 1]))
  IN end
WordBegin(line, k) == BeginAfter(line, WordEnds(line)[k - 1])
FirstOf(line, i) == IF Quote(line[i]) THEN i + 1 ELSE i
Words(line) ==
  [k \in 1 .. Max({0} \cup {k \in 1 .. Len(line) : WordBegin(line, k) <= Len(line)}) |->
     SubSeq(line, FirstOf(line, WordBegin(line, k)), WordEnds(line)[k] - 1)]

(* argv holds the first words of the line, and nothing is read from a line  *)
(* without one but where nothing was stored (command.c 100-153).            *)
LineRight(line) ==
  /\ argv(line) = SubSeq(Words(line), 1, Min({MaxArgs, Len(Words(line))}))
  /\ Found(line) = "uninitialized" => Words(line) = <<>>
  /\ Found(line) = "run" <=> Words(line) # <<>> /\ Words(line)[1] \in Commands
=============================================================================
