------------------------------ MODULE RtcRead ------------------------------
(* read_rtc(): the registers of the clock chip are read one after the       *)
(* other while the clock runs.  The update flag is looked at before, not    *)
(* during the reading, so a reading may be torn by a tick; it is repeated   *)
(* until two in a row are equal.                                            *)
EXTENDS Naturals, Sequences

CONSTANTS Clocks,              \* what the chip may be set to
          RegisterAt(_, _, _), \* of a clock, i seconds later: the byte of a register
          MaxTicks             \* seconds that pass in a behaviour: a call takes less

Registers == <<"second", "minute", "hour", "day", "month", "year">>
Count == Len(Registers)

(* In the time a call takes no two seconds show the same byte.              *)
ASSUME MaxTicksAssumption == MaxTicks \in Nat
ASSUME BytesAssumption ==
  \A c \in Clocks : \A i \in 0 .. MaxTicks : \A r \in 1 .. Count :
    RegisterAt(c, i, Registers[r]) \in 0 .. 255
ASSUME SecondsDiffer ==
  \A c \in Clocks : \A i, j \in 0 .. MaxTicks :
    RegisterAt(c, i, "second") = RegisterAt(c, j, "second") => i = j

VARIABLES clock,     \* how the chip was set
          tick,      \* seconds since
          updating,  \* bit 7 of register A: a tick is near
          pc,        \* "idle", "wait", "read" or "done"
          next,      \* the register to be read
          read,      \* second ... year
          previous,  \* last_second ... last_year
          again,     \* FALSE in the first reading, which has no previous one
          began      \* ghost: the tick at which the call began

rtcVars == <<clock, tick, updating, pc, next, read, previous, again, began>>

RtcInit ==
  /\ clock \in Clocks
  /\ tick = 0 /\ updating = FALSE
  /\ pc = "idle" /\ next = 1
  /\ read = [r \in 1 .. Count |-> 0] /\ previous = read /\ again = FALSE
  /\ began = 0

(* The chip.                                                                *)
UpdateNears ==
  /\ ~updating /\ tick < MaxTicks
  /\ updating' = TRUE
  /\ UNCHANGED <<clock, tick, pc, next, read, previous, again, began>>

Tick ==
  /\ updating
  /\ tick' = tick + 1 /\ updating' = FALSE
  /\ UNCHANGED <<clock, pc, next, read, previous, again, began>>

(* The reader.                                                              *)
Call ==
  /\ pc \in {"idle", "done"}
  /\ pc' = "wait" /\ again' = FALSE /\ began' = tick
  /\ UNCHANGED <<clock, tick, updating, next, read, previous>>

SeeNoUpdate ==
  /\ pc = "wait" /\ ~updating
  /\ pc' = "read" /\ next' = 1
  /\ UNCHANGED <<clock, tick, updating, read, previous, again, began>>

ReadRegister ==
  /\ pc = "read" /\ next <= Count
  /\ read' = [read EXCEPT ![next] = RegisterAt(clock, tick, Registers[next])]
  /\ next' = next + 1
  /\ UNCHANGED <<clock, tick, updating, pc, previous, again, began>>

(* MUTANT: only the seconds are compared.                                  *)
SameSecond == again /\ read[1] = previous[1]

Same == again /\ read = previous

Compare ==
  /\ pc = "read" /\ next > Count
  /\ IF Same THEN pc' = "done" /\ UNCHANGED <<previous, again>>
             ELSE pc' = "wait" /\ previous' = read /\ again' = TRUE
  /\ UNCHANGED <<clock, tick, updating, next, read, began>>

RtcNext == UpdateNears \/ Tick \/ Call \/ SeeNoUpdate \/ ReadRegister \/ Compare
RtcSpec == RtcInit /\ [][RtcNext]_rtcVars

----------------------------------------------------------------------------
Shown(i) == [r \in 1 .. Count |-> RegisterAt(clock, i, Registers[r])]

(* What read_rtc() ends with is what the chip showed at one moment of the   *)
(* call, however the ticks fell between the reads (time.c 107-150).         *)
ReadingWhole == pc = "done" => \E i \in began .. tick : read = Shown(i)
=============================================================================
