------------------------------ MODULE Keyboard ------------------------------
(* The polled keyboard: PS2::pollchar() decodes scan codes of the port,     *)
(* getchar() waits for a character, gets() edits a line.  The keyboard goes *)
(* on typing between any two reads of the port; reading the port twice      *)
(* gives the same byte again unless a new one has come.                     *)
EXTENDS Naturals, Sequences

CONSTANT MaxEvents   \* keys pressed and released in a behaviour
ASSUME KeyAssumption == MaxEvents \in Nat

VARIABLES port,      \* the controller: data, full, and the bytes still to come
          held,      \* keys that are down
          e0ed, capsed, shifted,
          reader,    \* where pollchar is, and c
          got,       \* what gets() has made of the characters it was given
          meant,     \* ghost: what it should have made of the keys
          trouble,   \* ghost: why they may differ
          events     \* ghost: keys pressed and released so far

keyVars == <<port, held, e0ed, capsed, shifted, reader, got, meant, trouble, events>>

Nothing == "nothing"     \* NULL_KEY and keys getchar() passes over

(* One row for each kind of row of the table: normal, shifted, 0xE0'ed.     *)
keymap == [c     |-> <<"c", "C", Nothing>>,
           one   |-> <<"1", "!", Nothing>>,
           back  |-> <<"back", "back", Nothing>>,
           enter |-> <<"enter", "enter", "enter">>,
           arrow |-> <<"8", "8", Nothing>>,
           ctrl  |-> <<"ctrl", "ctrl", "ctrl">>,
           shift |-> <<Nothing, Nothing, Nothing>>,
           caps  |-> <<Nothing, Nothing, Nothing>>]

Keys == DOMAIN keymap
IsLetter(k) == k = "c"
Make(k) == [key |-> k, up |-> FALSE]
Break(k) == [key |-> k, up |-> TRUE]
E0 == [key |-> "E0", up |-> FALSE]
Ack == [key |-> "FA", up |-> TRUE]
InTable(c) == c.key \in Keys /\ ~c.up
Codes == {Make(k) : k \in Keys} \cup {Break(k) : k \in Keys} \cup {E0, Ack}

(* The bytes of a key: the arrow comes with a prefix.                       *)
Sent(k, up) == (IF k = "arrow" THEN <<E0>> ELSE <<>>)
               \o <<[key |-> k, up |-> up]>>

----------------------------------------------------------------------------
(* getchar() waits after a ctrl key for one more character and drops it;    *)
(* for 'C' it returns 0xFF, which the waiting call, or gets(), drops too.   *)
Edited(e, v) ==
  CASE v = "back" -> [e EXCEPT !.line = IF @ = <<>> THEN @ ELSE SubSeq(@, 1, Len(@) - 1)]
    [] v = "enter" -> [e EXCEPT !.line = <<>>, !.lines = Append(@, e.line)]
    [] OTHER -> [e EXCEPT !.line = Append(@, v)]

Taken(e, v) ==
  IF v = Nothing THEN e
  ELSE IF v = "ctrl" THEN [e EXCEPT !.ctrls = @ + 1]
  ELSE IF e.ctrls = 0 THEN Edited(e, v)
  ELSE [e EXCEPT !.ctrls = IF v = "C" /\ @ > 1 THEN @ - 2 ELSE @ - 1]

(* What a key means: letters follow shift or the caps lock, other keys      *)
(* shift; with the caps lock on, shift gives the normal row.                *)
Meaning(k, down, lock) ==
  IF k = "arrow" THEN Nothing
  ELSE keymap[k][IF (lock /\ IsLetter(k) /\ "shift" \notin down)
                    \/ (~lock /\ "shift" \in down) THEN 2 ELSE 1]

----------------------------------------------------------------------------
KeyInit ==
  /\ port = [data |-> Ack, full |-> FALSE, coming |-> <<>>]
  /\ held = {}
  /\ e0ed = FALSE /\ capsed = FALSE /\ shifted = FALSE
  /\ reader = [pc |-> "poll", c |-> Ack]
  /\ got = [line |-> <<>>, lines |-> <<>>, ctrls |-> 0]
  /\ meant = [text |-> got, lock |-> FALSE]
  /\ trouble = "none"
  /\ events = 0

(* The person at the keyboard, and the byte that gets into the port.        *)
Press(k) ==
  /\ events < MaxEvents /\ k \notin held
  /\ events' = events + 1
  /\ held' = held \cup {k}
  /\ port' = [port EXCEPT !.coming = @ \o Sent(k, FALSE)]
  /\ meant' = [text |-> Taken(meant.text, Meaning(k, held, meant.lock)),
               lock |-> meant.lock # (k = "caps")]
  /\ UNCHANGED <<e0ed, capsed, shifted, reader, got, trouble>>

Release(k) ==
  /\ events < MaxEvents /\ k \in held
  /\ events' = events + 1
  /\ held' = held \ {k}
  /\ port' = [port EXCEPT !.coming = @ \o Sent(k, TRUE)]
  /\ UNCHANGED <<e0ed, capsed, shifted, reader, got, meant, trouble>>

Arrive ==
  /\ ~port.full /\ port.coming # <<>>
  /\ port' = [data |-> Head(port.coming), full |-> TRUE, coming |-> Tail(port.coming)]
  /\ UNCHANGED <<held, e0ed, capsed, shifted, reader, got, meant, trouble, events>>

----------------------------------------------------------------------------
Read == port' = [port EXCEPT !.full = FALSE]
Worse(why) == IF trouble = "none" THEN why ELSE trouble

(* keymap[c][column]: c may lie behind the 0x54 rows of the table, where    *)
(* any number may be read.                                                  *)
Looked(c, column) == IF InTable(c) THEN {keymap[c.key][column]} ELSE {Nothing, "8"}
Outside(c, v) == IF InTable(c) \/ v = Nothing THEN "none" ELSE "outside"

Return(v, why) ==
  /\ got' = Taken(got, v)
  /\ reader' = [pc |-> "poll", c |-> Ack]
  /\ trouble' = Worse(why)

ToStep(pc, c) ==
  /\ reader' = [pc |-> pc, c |-> c]
  /\ UNCHANGED <<got, trouble>>

(* The rest of pollchar, once the first byte has been sorted.               *)
Decode(c) ==
  IF c = Make("shift") \/ shifted
  THEN shifted' = TRUE /\ ToStep("second", c)
  ELSE /\ \E v \in Looked(c, IF capsed /\ IsLetter(c.key) THEN 2 ELSE 1) :
            Return(v, Outside(c, v))
       /\ UNCHANGED shifted

(* The first read of pollchar.                                              *)
First(c) ==
  /\ reader.pc = "poll" /\ port.full /\ port.data = c
  /\ Read
  /\ UNCHANGED <<held, meant, events>>

PollPrefix ==
  /\ First(E0)
  /\ e0ed' = TRUE
  /\ Decode(E0)
  /\ UNCHANGED capsed

(* MUTANT: shift is never let go.                                          *)
StillShifted(c) == shifted

(* Codes above 0x53.  A shift that went up unshifts; e0ed stays as it is.   *)
Unshifted(c) == shifted /\ c # Break("shift")

PollBreak ==
  /\ \E c \in Codes : c.up /\ First(c) /\ shifted' = Unshifted(c)
  /\ Return(Nothing, "none")
  /\ UNCHANGED <<e0ed, capsed>>

PollExtended ==
  /\ e0ed
  /\ \E k \in Keys : /\ First(Make(k))
                     /\ Return(keymap[k][3], IF k = "arrow" THEN "none" ELSE "leftover")
  /\ e0ed' = FALSE
  /\ UNCHANGED <<capsed, shifted>>

PollKey ==
  /\ ~e0ed
  /\ \E k \in Keys \ {"caps"} : First(Make(k)) /\ Decode(Make(k))
  /\ UNCHANGED <<e0ed, capsed>>

PollCaps ==
  /\ ~e0ed
  /\ First(Make("caps"))
  /\ capsed' = ~capsed
  /\ ToStep("ask", Make("caps"))
  /\ UNCHANGED <<e0ed, shifted>>

(* The second read, for a key with shift.  If a new byte has come since the *)
(* first, the first is lost; that is no harm if it was shift itself and the *)
(* new byte stands for a character.                                         *)
PassedOver == port.full /\ (reader.c # Make("shift") \/ port.data \in {Make("caps"), E0})

Second ==
  /\ reader.pc = "second"
  /\ Read
  /\ shifted' = Unshifted(port.data)
  /\ \E v \in IF port.data = Break("shift") /\ ~capsed THEN {Nothing}
              ELSE Looked(port.data, IF capsed THEN 1 ELSE 2) :
       Return(v, IF PassedOver THEN "passed over" ELSE Outside(port.data, v))
  /\ UNCHANGED <<held, e0ed, capsed, meant, events>>

----------------------------------------------------------------------------
(* UpdateLEDs: command 0xED, its 0xFA, the lights, its 0xFA.  Every other   *)
(* byte read meanwhile is dropped.  A busy controller, or no 0xFA in 1000   *)
(* reads, ends it early; the second 0xFA is waited for without end, but the *)
(* first one is still there to be read.                                     *)
LightsDone == Decode(Make("caps"))

LightsAsk ==
  /\ reader.pc = "ask"
  /\ \/ /\ port' = [port EXCEPT !.coming = Append(@, Ack)]
        /\ ToStep("acknowledged", reader.c)
        /\ UNCHANGED shifted
     \/ LightsDone /\ UNCHANGED port
  /\ UNCHANGED <<held, e0ed, capsed, meant, events>>

Dropped == port.full /\ port.data # Ack
DropByte(pc) ==
  /\ Read
  /\ reader.pc = pc /\ port.data # Ack
  /\ trouble' = Worse(IF Dropped THEN "dropped" ELSE "none")
  /\ UNCHANGED <<reader, shifted, got>>

LightsTell ==
  /\ \/ DropByte("acknowledged")
     \/ /\ reader.pc = "acknowledged" /\ port.data = Ack
        /\ port' = [port EXCEPT !.full = FALSE, !.coming = Append(@, Ack)]
        /\ ToStep("lit", reader.c)
        /\ UNCHANGED shifted
     \/ reader.pc = "acknowledged" /\ LightsDone /\ UNCHANGED port
  /\ UNCHANGED <<held, e0ed, capsed, meant, events>>

LightsLit ==
  /\ \/ DropByte("lit")
     \/ reader.pc = "lit" /\ port.data = Ack /\ Read /\ LightsDone
  /\ UNCHANGED <<held, e0ed, capsed, meant, events>>

----------------------------------------------------------------------------
KeyNext ==
  \/ \E k \in Keys : Press(k) \/ Release(k)
  \/ Arrive
  \/ PollPrefix \/ PollBreak \/ PollExtended \/ PollKey \/ PollCaps \/ Second
  \/ LightsAsk \/ LightsTell \/ LightsLit

KeySpec == KeyInit /\ [][KeyNext]_keyVars

----------------------------------------------------------------------------
Quiet == reader.pc = "poll" /\ ~port.full /\ port.coming = <<>>

(* Whatever the order in which keys are typed and the port is read, gets()  *)
(* ends up with the text the keys mean, and shifted and capsed with the     *)
(* keyboard's own state, unless one of four things happened: a number read  *)
(* behind the table was a character, the second read of a shifted key       *)
(* passed a byte over, the keyboard lights dropped one, or the e0ed left by *)
(* the release of an extended key turned the next key into one              *)
(* (PS2Controller.cpp 44-138, getchar.c 13-33, gets.cpp 11-36).             *)
TypedIsMeant ==
  Quiet /\ trouble = "none" => /\ got = meant.text
                               /\ shifted = ("shift" \in held)
                               /\ capsed = meant.lock

KeyTypeOK ==
  /\ port \in [data : Codes, full : BOOLEAN, coming : Seq(Codes)]
  /\ held \subseteq Keys
  /\ e0ed \in BOOLEAN /\ capsed \in BOOLEAN /\ shifted \in BOOLEAN /\ meant.lock \in BOOLEAN
  /\ reader \in [pc : {"poll", "second", "ask", "acknowledged", "lit"}, c : Codes]
  /\ trouble \in {"none", "outside", "leftover", "passed over", "dropped"}
  /\ events \in 0 .. MaxEvents
=============================================================================
