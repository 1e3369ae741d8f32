----------------------------- MODULE Interrupts -----------------------------
(***************************************************************************)
(* The interrupt path of the Swift kernel: the gate that pal_cli() and     *)
(* pal_sti() keep with the counter cliCalled, the controller (an I/O APIC  *)
(* or a pair of 8259s) behind InterruptManager, the table of handlers, and *)
(* interrupt() in trap.c, which runs a handler on top of whatever was      *)
(* interrupted.                                                            *)
(*                                                                         *)
(* One processor runs one context at a time: the kernel's thread, at level *)
(* 0, or the handler at the highest level.  Both draw on the screen, and   *)
(* every drawing routine is a section between pal_cli() and pal_sti().     *)
(* The timer's handler copies what was drawn to the display.               *)
(***************************************************************************)
EXTENDS Integers, FiniteSets

CONSTANTS
  PciLines,  \* the interrupt lines firmware may have given to PCI devices
  MaxLevel,  \* bound: handlers on top of each other
  MaxNest,   \* bound: sections open in one another
  MaxWork,   \* bound: what is drawn between two waits of the thread
  MaxLeaks   \* bound: outlined circles ever drawn

Timer == 0
Keyboard == 1
Cascade == 2
Irqs == {Timer, Keyboard} \cup PciLines

(* Firmware gives PCI devices none of the lines of the board's own devices.*)
ASSUME InterruptsAssumption ==
  /\ PciLines \subseteq 3 .. 15
  /\ MaxLevel \in Nat \ {0} /\ MaxNest \in Nat \ {0}
  /\ MaxWork \in Nat \ {0} /\ MaxLeaks \in Nat

VARIABLES
  controller,  \* the controller InterruptManager found
  handlers,    \* irqHandlers
  todo,        \* the drivers that have not registered a handler yet
  inputs,      \* the controller's inputs that are not masked
  irr, isr,    \* requests that wait, requests in service
  ints,        \* the processor's interrupt flag
  cliCalled,
  level, ctx,  \* the running context's level, every context
  leaks,       \* outlined circles drawn so far
  work,        \* how much was drawn since the thread last waited
  modified, shouldRedraw,
  unshown      \* a point was drawn that is not on the display

board  == <<controller, handlers, todo, inputs>>
gate   == <<ints, cliCalled>>
screen == <<modified, shouldRedraw, unshown>>
vars   == <<board, irr, isr, gate, level, ctx, leaks, work, screen>>

Drivers == {"timer", "ahci", "nic", "keyboard"}
Handlers == Drivers \cup {"unexpected"}
Silent == {"timer", "keyboard"}

(* Where a context can be; "paint" and "plot" are the sections of          *)
(* paint_char() and draw(point:).                                          *)
Points == {"run", "rendered", "counted", "paint", "plot", "plotted",
           "stored", "halted", "return"}

Context == [runs : {"thread"} \cup Handlers, irq : Irqs, at : Points,
            next : Points, open : 0 .. MaxNest]

Starting(h, irq) == [runs |-> h, irq |-> irq, at |-> "run", next |-> "run", open |-> 0]
Idle == Starting("thread", Timer)

(* disableAllIRQs(), or the masked entries of an I/O APIC after a reset.   *)
FirstInputs == {}

Init ==
  /\ controller \in {"APIC", "PIC8259"}
  /\ handlers = [irq \in Irqs |-> "unexpected"]
  /\ todo = Drivers
  /\ inputs = FirstInputs /\ irr = {} /\ isr = {}
  /\ ints = FALSE /\ cliCalled = -1
  /\ level = 0 /\ ctx = [l \in 0 .. MaxLevel |-> Idle]
  /\ leaks = 0 /\ work = 0
  /\ modified = FALSE /\ shouldRedraw = FALSE /\ unshown = FALSE

top == ctx[level]
Becomes(c) == ctx' = [ctx EXCEPT ![level] = c]
Goto(p) == Becomes([top EXCEPT !.at = p])

----------------------------------------------------------------------------
(* The controller.                                                         *)

(* What enableIRQ() unmasks: PIC8259 clears bit irq - 7 of the second      *)
(* controller's mask, which is the input after irq, and no bit for 15.     *)
Unmasked(irq) ==
  IF controller = "APIC" \/ irq <= 7 THEN {irq} ELSE {irq + 1} \cap 0 .. 15

(* An I/O APIC drops the edge of a masked input, an 8259 latches it.       *)
Raise(irq) ==
  /\ controller = "APIC" => irq \in inputs
  /\ irr' = irr \cup {irq}
  /\ UNCHANGED <<board, isr, gate, level, ctx, leaks, work, screen>>

(* The vectors of the APIC are all of one priority class; the first 8259   *)
(* puts its lower inputs first, and the second one stands behind input 2.  *)
Allowed(irq) ==
  IF controller = "APIC"
  THEN irq \in inputs /\ isr = {}
  ELSE /\ irq \in inputs /\ (irq > 7 => Cascade \in inputs)
       /\ \A i \in isr : irq < i /\ (irq > 7 => Cascade < i)

(* MUTANT: the controllers are programmed for automatic EOI (ICW4_AUTO).   *)
AutoEOI(irq) == isr

InService(irq) ==
  isr \cup {irq} \cup (IF controller = "PIC8259" /\ irq > 7 THEN {Cascade} ELSE {})

(* ackIRQ(): the second EOI for a line of the second 8259, meant for the   *)
(* cascade, goes to the second controller, where it is input 8 + 2.        *)
Acked(irq) ==
  isr \ (IF controller = "PIC8259" /\ irq > 7 THEN {irq, 8 + Cascade} ELSE {irq})

----------------------------------------------------------------------------
(* The gate: pal_cli() counts, then clears the flag.                       *)

Count(next) ==
  /\ cliCalled' = IF cliCalled >= 0 THEN cliCalled + 1 ELSE cliCalled
  /\ Becomes([top EXCEPT !.at = "counted", !.next = next])
  /\ UNCHANGED ints

Cli ==
  /\ top.at = "counted"
  /\ ints' = FALSE
  /\ Becomes([top EXCEPT !.at = top.next, !.next = "run", !.open = @ + 1])
  /\ UNCHANGED <<board, irr, isr, cliCalled, level, leaks, work, screen>>

(* MUTANT: pal_sti() sets the flag whatever the count.                     *)
AlwaysSti ==
  /\ cliCalled' = IF cliCalled > 0 THEN cliCalled - 1 ELSE cliCalled
  /\ ints' = TRUE

(* MUTANT: the count is tested before it is decremented.                   *)
StiTooSoon ==
  /\ cliCalled' = IF cliCalled > 0 THEN cliCalled - 1 ELSE cliCalled
  /\ ints' = (ints \/ cliCalled = 0)

Sti ==
  /\ cliCalled' = IF cliCalled > 0 THEN cliCalled - 1 ELSE cliCalled
  /\ ints' = (ints \/ cliCalled' = 0)

(* The end of the innermost section.                                       *)
Close(next) ==
  /\ Sti
  /\ Becomes([top EXCEPT !.at = next, !.open = @ - 1])

----------------------------------------------------------------------------
(* Drawing.  The thread draws as it likes, handlers only print.            *)

Draws ==
  /\ top.at = "run" /\ top.open < MaxNest /\ work < MaxWork
  /\ work' = work + 1

(* A line, rectangle, curve, or a scroll: sections with others inside.     *)
BeginDrawing ==
  /\ level = 0 /\ Draws
  /\ Count("run")
  /\ UNCHANGED <<board, irr, isr, level, leaks, screen>>

EndDrawing ==
  /\ level = 0 /\ top.at = "run" /\ top.open > 0
  /\ Close("run")
  /\ UNCHANGED <<board, irr, isr, level, leaks, work, screen>>

(* draw(circle:) returns from its first branch without its sti(); a shell  *)
(* command draws such a circle.                                            *)
EndOutlinedCircle ==
  /\ level = 0 /\ top.at = "run" /\ top.open = 1
  /\ todo = {} /\ leaks < MaxLeaks
  /\ leaks' = leaks + 1
  /\ Becomes([top EXCEPT !.open = 0])
  /\ UNCHANGED <<board, irr, isr, gate, level, work, screen>>

BeginPoint ==
  /\ level = 0 /\ Draws
  /\ Count("plot")
  /\ UNCHANGED <<board, irr, isr, level, leaks, screen>>

EndPoint ==
  /\ top.at = "plot"
  /\ unshown' = TRUE
  /\ Close("plotted")
  /\ UNCHANGED <<board, irr, isr, level, leaks, work, modified, shouldRedraw>>

MarkPoint ==
  /\ top.at = "plotted"
  /\ shouldRedraw' = TRUE
  /\ Goto("run")
  /\ UNCHANGED <<board, irr, isr, gate, level, leaks, work, modified, unshown>>

(* paint_char() reports the change and renders before it calls pal_cli().  *)
Render ==
  /\ level > 0 => top.runs \notin Silent
  /\ Draws
  /\ modified' = TRUE
  /\ Goto("rendered")
  /\ UNCHANGED <<board, irr, isr, gate, level, leaks, shouldRedraw, unshown>>

BeginPaint ==
  /\ top.at = "rendered"
  /\ Count("paint")
  /\ UNCHANGED <<board, irr, isr, level, leaks, work, screen>>

EndPaint ==
  /\ top.at = "paint"
  /\ Close("run")
  /\ UNCHANGED <<board, irr, isr, level, leaks, work, screen>>

----------------------------------------------------------------------------
(* The thread: it starts interrupts and drivers, and waits for keys.       *)

EnableIRQs ==
  /\ level = 0 /\ top.at = "run" /\ top.open = 0 /\ cliCalled = -1
  /\ cliCalled' = 0 /\ ints' = TRUE
  /\ UNCHANGED <<board, irr, isr, level, ctx, leaks, work, screen>>

Lines(d) == CASE d = "timer" -> {Timer}
              [] d = "keyboard" -> {Keyboard}
              [] OTHER -> PciLines

(* setIrqHandler() stores the handler, then asks the controller for the    *)
(* line.  The timer comes first and the keyboard last.                     *)
StoreHandler(d) ==
  /\ level = 0 /\ top.at = "run" /\ top.open = 0 /\ cliCalled >= 0
  /\ d \in todo /\ (d # "timer" => "timer" \notin todo)
  /\ todo' = IF d = "keyboard" THEN {} ELSE todo \ {d}
  /\ \E irq \in Lines(d) :
       /\ handlers' = [handlers EXCEPT ![irq] = d]
       /\ Becomes([top EXCEPT !.at = "stored", !.irq = irq])
  /\ UNCHANGED <<controller, inputs, irr, isr, gate, level, leaks, work, screen>>

EnableLine ==
  /\ top.at = "stored"
  /\ inputs' = inputs \cup Unmasked(top.irq)
  /\ Becomes(Idle)
  /\ UNCHANGED <<controller, handlers, todo, irr, isr, gate, level, leaks, work, screen>>

(* sti; hlt: getchar() found no key, or a driver waits for its device.     *)
Halt ==
  /\ level = 0 /\ top.at = "run" /\ top.open = 0 /\ "timer" \notin todo
  /\ ints' = TRUE
  /\ work' = 0
  /\ Goto("halted")
  /\ UNCHANGED <<board, irr, isr, cliCalled, level, leaks, screen>>

----------------------------------------------------------------------------
(* An interrupt: the processor clears its flag and enters interrupt(),     *)
(* which calls InterruptHandler().                                         *)

Deliver(irq) ==
  /\ ints /\ irq \in irr /\ Allowed(irq) /\ level < MaxLevel
  /\ ints' = FALSE
  /\ irr' = irr \ {irq}
  /\ isr' = InService(irq)
  /\ level' = level + 1
  /\ ctx' = [ctx EXCEPT ![level + 1] = Starting(handlers[irq], irq)]
  /\ UNCHANGED <<board, cliCalled, leaks, work, screen>>

(* MUTANT: the display is only refreshed if both kinds of change are there.*)
RefreshBoth ==
  IF shouldRedraw /\ modified
  THEN modified' = FALSE /\ shouldRedraw' = FALSE /\ unshown' = FALSE
  ELSE UNCHANGED screen

Refresh ==
  IF shouldRedraw \/ modified
  THEN modified' = FALSE /\ shouldRedraw' = FALSE /\ unshown' = FALSE
  ELSE UNCHANGED screen

(* The handler is done, the controller gets its EOI.                       *)
FinishHandler ==
  /\ level > 0 /\ top.at = "run"
  /\ IF top.runs = "timer" THEN Refresh ELSE UNCHANGED screen
  /\ isr' = Acked(top.irq)
  /\ Goto("return")
  /\ UNCHANGED <<board, irr, gate, level, leaks, work>>

Resumed(c) == IF c.at = "halted" THEN [c EXCEPT !.at = "run"] ELSE c

(* iretq: only a context with the flag set has been interrupted.           *)
Return ==
  /\ level > 0 /\ top.at = "return"
  /\ ints' = TRUE
  /\ level' = level - 1
  /\ ctx' = [ctx EXCEPT ![level] = Idle, ![level - 1] = Resumed(ctx[level - 1])]
  /\ UNCHANGED <<board, irr, isr, cliCalled, leaks, work, screen>>

----------------------------------------------------------------------------
Drawing == \/ BeginDrawing \/ EndDrawing \/ EndOutlinedCircle
           \/ BeginPoint \/ EndPoint \/ MarkPoint
           \/ Render \/ BeginPaint \/ EndPaint \/ Cli

Step == \/ Drawing \/ EnableIRQs \/ EnableLine \/ Halt
        \/ \E d \in Drivers : StoreHandler(d)
        \/ FinishHandler \/ Return

Next == Step \/ \E irq \in Irqs : Raise(irq) \/ Deliver(irq)

Spec == Init /\ [][Next]_vars

(* The timer goes on ticking, and no storm of requests keeps it or the     *)
(* interrupted thread from its turn; a context runs on while it can.       *)
Fairness ==
  /\ WF_vars(Step) /\ SF_vars(level = 0 /\ Step)
  /\ WF_vars(Raise(Timer)) /\ SF_vars(Deliver(Timer))

FairSpec == Spec /\ Fairness

----------------------------------------------------------------------------
(* The types of the variables.                                             *)
TypeOK ==
  /\ controller \in {"APIC", "PIC8259"}
  /\ handlers \in [Irqs -> Handlers]
  /\ todo \subseteq Drivers
  /\ inputs \subseteq 0 .. 15 /\ irr \subseteq Irqs /\ isr \subseteq 0 .. 15
  /\ ints \in BOOLEAN /\ cliCalled \in Nat \cup {-1}
  /\ level \in 0 .. MaxLevel /\ ctx \in [0 .. MaxLevel -> Context]
  /\ leaks \in 0 .. MaxLeaks /\ work \in 0 .. MaxWork
  /\ modified \in BOOLEAN /\ shouldRedraw \in BOOLEAN
  /\ unshown \in BOOLEAN

(* No context is interrupted inside a section, however deep its sections   *)
(* nest and whatever the handlers that interrupt it print: pal_sti() opens *)
(* the gate at the end of the outermost section only.                      *)
SectionsUninterrupted == \A l \in 0 .. level - 1 : ctx[l].open = 0

(* A handler is not entered again before it has returned to                *)
(* InterruptHandler(), although its printing opens the gate: the EOI comes *)
(* after the handler.                                                      *)
NotReentered ==
  \A l, m \in 1 .. level :
    l < m /\ ctx[l].irq = ctx[m].irq => ctx[l].at = "return"

(* UnexpectedInterrupt() never runs: a line is only unmasked once its      *)
(* handler is in the table.                                                *)
AllExpected == \A l \in 1 .. level : ctx[l].runs # "unexpected"

(* The controller holds a request in service as long as its handler runs,  *)
(* and no longer: no EOI is missing, wrong or sent twice.                  *)
InServiceIffRunning ==
  isr = {ctx[l].irq : l \in {m \in 1 .. level : ctx[m].at # "return"}}

(* Outside the sections the thread can be interrupted, as long as no       *)
(* outlined circle was drawn.                                              *)
OpenOutsideSections ==
  level = 0 /\ cliCalled >= 0 /\ leaks = 0 /\ top.open = 0 => ints

(* A point that was drawn comes to the display, even if the timer          *)
(* interrupts between the drawing and the mark, and even if a circle has   *)
(* left the gate closed, as the thread comes to wait again.                *)
PointsShown == unshown ~> ~unshown

(* The assertion at the end of interrupt(): ml_get_interrupts_enabled() is *)
(* FALSE there.                                                            *)
HandlerLeavesGateShut == level > 0 /\ top.at = "return" => ~ints
=============================================================================
