-------------------------- MODULE InterruptsProofs --------------------------
(***************************************************************************)
(* The safety properties of Interrupts, for every assignment of lines and  *)
(* every bound.                                                            *)
(***************************************************************************)
EXTENDS Interrupts, TLAPS

(* The call of pal_cli() in which a context was interrupted, if any.       *)
Counted(l) == IF l >= 0 /\ ctx[l].at = "counted" THEN 1 ELSE 0

(* Before enableIRQs() nothing is counted and nothing interrupts; after it *)
(* the count is exact.  The gate is only open where no section is, so a    *)
(* context below the running one has at most counted a section it has not  *)
(* entered; and over such a context the gate stays shut.                   *)
Balance ==
  /\ cliCalled = -1 => level = 0 /\ ~ints /\ "timer" \in todo /\ leaks = 0
  /\ cliCalled >= 0 =>
       cliCalled = leaks + top.open + Counted(level) + Counted(level - 1)
  /\ ints => top.open = 0
  /\ \A l \in 0 .. level - 1 : ctx[l].at = "counted" => l = level - 1 /\ ~ints

(* What each point of a context says of its sections.                      *)
Shape(l, c) ==
  /\ c.at \in {"rendered", "counted"} => c.open < MaxNest
  /\ c.at \in {"paint", "plot"} => c.open > 0
  /\ c.at \in {"stored", "halted"} => l = 0 /\ c.open = 0
  /\ c.at = "counted" => c.next \in {"run", "paint", "plot"}
  /\ c.at = "return" => l > 0
  /\ l > 0 =>
       /\ c.at \in {"run", "rendered", "counted", "paint", "return"}
       /\ c.open = (IF c.at = "paint" THEN 1 ELSE 0)
       /\ c.at = "counted" => c.next = "paint"

Shapes == \A l \in 0 .. level : Shape(l, ctx[l])

(* What the processor can be interrupted by has a handler, and is not      *)
(* behind the second 8259.                                                 *)
Live(irq) == controller = "APIC" \/ irq <= 7

Lined ==
  /\ controller = "PIC8259" => Cascade \notin inputs
  /\ \A irq \in Irqs \cap inputs : Live(irq) => handlers[irq] # "unexpected"
  /\ ctx[0].at = "stored" => handlers[ctx[0].irq] # "unexpected"
  /\ \A l \in 1 .. level : Live(ctx[l].irq)

IInv ==
  /\ TypeOK /\ Balance /\ Shapes /\ Lined
  /\ SectionsUninterrupted /\ NotReentered /\ AllExpected
  /\ InServiceIffRunning /\ OpenOutsideSections

----------------------------------------------------------------------------
(* The steps of the initial states, and of types.                          *)

LEMMA Initially == ASSUME Init PROVE IInv
<1> USE InterruptsAssumption
<1>1. TypeOK
  <2>1. Idle \in Context
    BY DEF Idle, Starting, Context, Points, Irqs
  <2>2. ctx \in [0 .. MaxLevel -> Context]
    BY <2>1 DEF Init
  <2>3. handlers \in [Irqs -> Handlers]
    BY DEF Init, Handlers
  <2>4. 0 \in 0 .. MaxLevel /\ 0 \in 0 .. MaxLeaks /\ 0 \in 0 .. MaxWork
    OBVIOUS
  <2> QED BY <2>2, <2>3, <2>4 DEF Init, TypeOK, FirstInputs
<1>2. Balance
  BY DEF Init, Balance, Drivers
<1>3. Shapes
  BY DEF Init, Shapes, Shape, Idle, Starting
<1>4. Lined
  BY DEF Init, Lined, FirstInputs, Idle, Starting
<1>5. SectionsUninterrupted /\ NotReentered /\ AllExpected /\ OpenOutsideSections
  BY DEF Init, SectionsUninterrupted, NotReentered, AllExpected, OpenOutsideSections
<1>6. InServiceIffRunning
  BY DEF Init, InServiceIffRunning
<1> QED BY <1>1, <1>2, <1>3, <1>4, <1>5, <1>6 DEF IInv

LEMMA Becoming ==
  ASSUME ctx \in [0 .. MaxLevel -> Context], level \in 0 .. MaxLevel,
         NEW c \in Context, Becomes(c)
  PROVE  ctx' \in [0 .. MaxLevel -> Context]
BY DEF Becomes

LEMMA TypeStep == ASSUME TypeOK, Shapes, Next PROVE TypeOK'
<1> USE InterruptsAssumption
<1> USE DEF TypeOK, board, gate, screen
<1>0. /\ level \in 0 .. MaxLevel /\ top \in Context /\ Shape(level, top)
      /\ Irqs \subseteq 0 .. 15 /\ Idle \in Context
  BY DEF top, Shapes, Irqs, Timer, Keyboard, Idle, Starting, Context, Points
<1>1. ASSUME NEW irq \in Irqs, Raise(irq) PROVE TypeOK'
  BY <1>1 DEF Raise
<1>2. ASSUME NEW irq \in Irqs, Deliver(irq) PROVE TypeOK'
  <2>1. Starting(handlers[irq], irq) \in Context
    BY DEF Starting, Context, Points
  <2>2. InService(irq) \subseteq 0 .. 15
    BY <1>0 DEF InService, Cascade
  <2>3. level' \in 0 .. MaxLevel /\ ctx' \in [0 .. MaxLevel -> Context]
    BY <1>2, <2>1 DEF Deliver
  <2> QED BY <1>2, <2>2, <2>3 DEF Deliver
<1>3. ASSUME BeginDrawing \/ BeginPoint \/ BeginPaint PROVE TypeOK'
  <2>1. PICK n \in {"run", "plot", "paint"} : Count(n)
    BY <1>3 DEF BeginDrawing, BeginPoint, BeginPaint
  <2>2. [top EXCEPT !.at = "counted", !.next = n] \in Context
    BY <1>0 DEF Context, Points
  <2>3. ctx' \in [0 .. MaxLevel -> Context]
    BY <1>0, <2>1, <2>2, Becoming DEF Count
  <2>4. cliCalled' \in Nat \cup {-1} /\ work' \in 0 .. MaxWork
    BY <1>3, <2>1 DEF BeginDrawing, BeginPoint, BeginPaint, Count, Draws
  <2> QED BY <1>3, <2>3, <2>4 DEF BeginDrawing, BeginPoint, BeginPaint, Count, Draws
<1>4. ASSUME EndDrawing \/ EndPoint \/ EndPaint PROVE TypeOK'
  <2>1. PICK n \in {"run", "plotted"} : Close(n)
    BY <1>4 DEF EndDrawing, EndPoint, EndPaint
  <2>2. top.open > 0
    BY <1>0, <1>4 DEF EndDrawing, EndPoint, EndPaint, top, Shape
  <2>3. top.open - 1 \in 0 .. MaxNest
    BY <1>0, <2>2 DEF Context
  <2>4. [top EXCEPT !.at = n, !.open = @ - 1] \in Context
    BY <1>0, <2>3 DEF Context, Points
  <2>5. ctx' \in [0 .. MaxLevel -> Context]
    BY <1>0, <2>1, <2>4, Becoming DEF Close
  <2>6. cliCalled' \in Nat \cup {-1} /\ ints' \in BOOLEAN
    BY <2>1 DEF Close, Sti
  <2> QED BY <1>4, <2>5, <2>6 DEF EndDrawing, EndPoint, EndPaint
<1>5. ASSUME EndOutlinedCircle PROVE TypeOK'
  <2>1. 0 \in 0 .. MaxNest
    OBVIOUS
  <2>2. [top EXCEPT !.open = 0] \in Context
    BY <1>0, <2>1 DEF Context
  <2>3. ctx' \in [0 .. MaxLevel -> Context]
    BY <1>0, <1>5, <2>2, Becoming DEF EndOutlinedCircle
  <2> QED BY <1>5, <2>3 DEF EndOutlinedCircle
<1>6. ASSUME Cli PROVE TypeOK'
  <2>1. top.open < MaxNest
    BY <1>0, <1>6 DEF Cli, Shape, top
  <2>2. top.open + 1 \in 0 .. MaxNest
    BY <1>0, <2>1 DEF Context
  <2>3. [top EXCEPT !.at = top.next, !.next = "run", !.open = @ + 1] \in Context
    BY <1>0, <2>2 DEF Context, Points
  <2>4. ctx' \in [0 .. MaxLevel -> Context]
    BY <1>0, <1>6, <2>3, Becoming DEF Cli
  <2> QED BY <1>6, <2>4 DEF Cli
<1>7. ASSUME MarkPoint \/ Render \/ Halt \/ FinishHandler PROVE TypeOK'
  <2>1. PICK p \in Points : Goto(p)
    BY <1>7 DEF MarkPoint, Render, Halt, FinishHandler, Points
  <2>2. [top EXCEPT !.at = p] \in Context
    BY <1>0 DEF Context
  <2>3. ctx' \in [0 .. MaxLevel -> Context]
    BY <1>0, <2>1, <2>2, Becoming DEF Goto
  <2>4. work' \in 0 .. MaxWork
    BY <1>7 DEF MarkPoint, Render, Halt, FinishHandler, Draws
  <2>5. isr' \subseteq 0 .. 15
    BY <1>7 DEF MarkPoint, Render, Halt, FinishHandler, Acked
  <2>6. modified' \in BOOLEAN /\ shouldRedraw' \in BOOLEAN /\ unshown' \in BOOLEAN
    BY <1>7 DEF MarkPoint, Render, Halt, FinishHandler, Refresh
  <2> QED BY <1>7, <2>3, <2>4, <2>6, <2>5 DEF MarkPoint, Render, Halt, FinishHandler
<1>8. CASE EnableIRQs
  BY <1>8 DEF EnableIRQs
<1>9. CASE EnableLine
  <2>1. Unmasked(top.irq) \subseteq 0 .. 15
    BY <1>0 DEF Unmasked, Context
  <2>2. ctx' \in [0 .. MaxLevel -> Context]
    BY <1>0, <1>9, Becoming DEF EnableLine
  <2> QED BY <1>9, <2>1, <2>2 DEF EnableLine
<1>10. ASSUME NEW d \in Drivers, StoreHandler(d) PROVE TypeOK'
  <2>1. PICK irq \in Lines(d) :
          /\ handlers' = [handlers EXCEPT ![irq] = d]
          /\ Becomes([top EXCEPT !.at = "stored", !.irq = irq])
    BY <1>10 DEF StoreHandler
  <2>2. irq \in Irqs
    BY DEF Lines, Irqs
  <2>3. [top EXCEPT !.at = "stored", !.irq = irq] \in Context
    BY <1>0, <2>2 DEF Context, Points
  <2>4. ctx' \in [0 .. MaxLevel -> Context]
    BY <1>0, <2>1, <2>3, Becoming
  <2>5. handlers' \in [Irqs -> Handlers]
    BY <2>1, <2>2 DEF Handlers
  <2> QED BY <1>10, <2>4, <2>5 DEF StoreHandler
<1>11. CASE Return
  <2>1. level - 1 \in 0 .. MaxLevel /\ ctx[level - 1] \in Context
    BY <1>0, <1>11 DEF Return
  <2>2. Resumed(ctx[level - 1]) \in Context
    BY <2>1 DEF Resumed, Context, Points
  <2>3. ctx' \in [0 .. MaxLevel -> Context]
    BY <1>0, <1>11, <2>1, <2>2 DEF Return
  <2> QED BY <1>11, <2>1, <2>3 DEF Return
<1> QED
  BY <1>1, <1>2, <1>3, <1>4, <1>5, <1>6, <1>7, <1>8, <1>9, <1>10, <1>11
  DEF Next, Step, Drawing

----------------------------------------------------------------------------
(* What a step does to the contexts: it changes the running one, enters a  *)
(* handler, or leaves one.                                                 *)

Others == \A l \in 0 .. MaxLevel : l # level => ctx'[l] = ctx[l]

LEMMA Changing ==
  ASSUME ctx \in [0 .. MaxLevel -> Context], level \in 0 .. MaxLevel,
         NEW c, Becomes(c)
  PROVE  ctx'[level] = c /\ Others
BY DEF Becomes, Others

LEMMA Entering ==
  ASSUME TypeOK, NEW irq \in Irqs, Deliver(irq)
  PROVE  /\ level' = level + 1 /\ level' \in 1 .. MaxLevel
         /\ ctx'[level'] = Starting(handlers[irq], irq)
         /\ \A l \in 0 .. level : ctx'[l] = ctx[l]
BY InterruptsAssumption DEF TypeOK, Deliver

LEMMA Leaving ==
  ASSUME TypeOK, Shapes, Return
  PROVE  /\ level > 0 /\ level' = level - 1 /\ level' \in 0 .. MaxLevel
         /\ ctx'[level'] = Resumed(ctx[level'])
         /\ \A l \in 0 .. level' - 1 : ctx'[l] = ctx[l]
         /\ \A l \in 1 .. level' : ctx'[l] = ctx[l]
<1> USE InterruptsAssumption DEF TypeOK
<1>1. /\ level > 0 /\ level' = level - 1 /\ level' \in 0 .. MaxLevel
      /\ ctx' = [ctx EXCEPT ![level] = Idle, ![level - 1] = Resumed(ctx[level - 1])]
  BY DEF Return, TypeOK
<1>2. ctx'[level'] = Resumed(ctx[level'])
  BY <1>1 DEF TypeOK
<1>3. \A l \in 0 .. level' - 1 : ctx'[l] = ctx[l]
  BY <1>1 DEF TypeOK
<1>4. level' > 0 => ctx[level'].at # "halted"
  BY <1>1 DEF Shapes, Shape, TypeOK
<1>5. level' > 0 => ctx'[level'] = ctx[level']
  BY <1>2, <1>4 DEF Resumed
<1>6. \A l \in 1 .. level' : ctx'[l] = ctx[l]
  BY <1>1, <1>3, <1>5 DEF TypeOK
<1> QED BY <1>1, <1>2, <1>3, <1>6

(* The steps of the running context, by what it becomes.                   *)
Same == level' = level /\ UNCHANGED <<controller, isr>>

Counting(n) ==
  /\ Same /\ UNCHANGED <<leaks, ints, handlers, inputs, todo>>
  /\ top.at \in {"run", "rendered"} /\ top.open < MaxNest
  /\ level > 0 => n = "paint"
  /\ Count(n)

Closing(n) ==
  /\ Same /\ UNCHANGED <<leaks, handlers, inputs, todo>>
  /\ top.at \in {"run", "paint", "plot"} /\ top.open > 0
  /\ level > 0 => n = "run"
  /\ Close(n)

(* A step that leaves the gate alone.                                      *)
Moving(p) ==
  /\ Same /\ UNCHANGED <<gate, leaks, handlers, inputs, todo>>
  /\ \/ top.at = "plotted" /\ p = "run"
     \/ top.at = "run" /\ top.open < MaxNest /\ p = "rendered"
  /\ Goto(p)

LEMMA Kinds ==
  ASSUME TypeOK, Shapes, Drawing
  PROVE  \/ \E n \in {"run", "paint", "plot"} : Counting(n)
         \/ \E n \in {"run", "plotted"} : Closing(n)
         \/ \E p \in Points : Moving(p)
         \/ EndOutlinedCircle
         \/ Cli
<1>0. Shape(level, top) /\ level \in 0 .. MaxLevel
  BY InterruptsAssumption DEF Shapes, TypeOK, top
<1>1. ASSUME BeginDrawing \/ BeginPoint \/ BeginPaint
      PROVE  \E n \in {"run", "paint", "plot"} : Counting(n)
  <2>1. top.at \in {"run", "rendered"} /\ top.open < MaxNest
    BY <1>0, <1>1 DEF BeginDrawing, BeginPoint, BeginPaint, Draws, Shape
  <2>2. PICK n \in {"run", "paint", "plot"} : Count(n) /\ (level > 0 => n = "paint")
    BY <1>0, <1>1 DEF BeginDrawing, BeginPoint, BeginPaint
  <2>3. Same /\ UNCHANGED <<leaks, ints, handlers, inputs, todo>>
    BY <1>1 DEF BeginDrawing, BeginPoint, BeginPaint, Count, Same, board
  <2> QED BY <2>1, <2>2, <2>3 DEF Counting
<1>2. ASSUME EndDrawing \/ EndPoint \/ EndPaint
      PROVE  \E n \in {"run", "plotted"} : Closing(n)
  <2>1. top.at = "plot" => level = 0
    BY <1>0 DEF Shape, top
  <2>2. top.at \in {"paint", "plot"} => top.open > 0
    BY <1>0 DEF Shape, top
  <2> QED BY <1>2, <2>1, <2>2 DEF EndDrawing, EndPoint, EndPaint, Closing, Same, board, screen
<1>3. ASSUME MarkPoint \/ Render PROVE \E p \in Points : Moving(p)
  BY <1>3 DEF MarkPoint, Render, Draws, Moving, Same, board, gate, Points
<1> QED BY <1>1, <1>2, <1>3 DEF Drawing

LEMMA ShapesStep == ASSUME TypeOK, Shapes, SectionsUninterrupted, Next PROVE Shapes'
<1> USE InterruptsAssumption
<1>0. /\ ctx \in [0 .. MaxLevel -> Context] /\ level \in 0 .. MaxLevel
      /\ top = ctx[level] /\ top \in Context /\ Shape(level, top)
      /\ top.open \in Nat
  BY DEF TypeOK, Shapes, top, Context
<1>1. ASSUME level' = level, Others, Shape(level, ctx'[level]) PROVE Shapes'
  BY <1>0, <1>1 DEF Shapes, Shape, Others
<1>2. ASSUME NEW irq \in Irqs, Raise(irq) PROVE Shapes'
  BY <1>2 DEF Raise, Shapes, Shape
<1>3. ASSUME NEW irq \in Irqs, Deliver(irq) PROVE Shapes'
  <2>1. Shape(level', ctx'[level'])
    <3>1. level' > 0 /\ ctx'[level'] = Starting(handlers[irq], irq)
      BY <1>3, Entering
    <3>2. \A h, i : \A l \in Int : l > 0 => Shape(l, Starting(h, i))
      BY DEF Shape, Starting
    <3>3. level' \in Int
      BY <1>3, Entering
    <3> QED BY <3>1, <3>2, <3>3
  <2>2. \A l \in 0 .. level : Shape(l, ctx'[l])
    BY <1>3, Entering DEF Shapes, Shape
  <2> QED BY <1>0, <1>3, <2>1, <2>2, Entering DEF Shapes
<1>4. ASSUME NEW n \in {"run", "paint", "plot"}, Counting(n) PROVE Shapes'
  <2>1. ctx'[level] = [top EXCEPT !.at = "counted", !.next = n] /\ Others
    BY <1>0, <1>4, Changing DEF Counting, Count
  <2>2. Shape(level, ctx'[level])
    BY <1>0, <1>4, <2>1 DEF Counting, Same, Shape, Context
  <2> QED BY <1>1, <1>4, <2>1, <2>2 DEF Counting, Same
<1>5. ASSUME NEW n \in {"run", "plotted"}, Closing(n) PROVE Shapes'
  <2>1. ctx'[level] = [top EXCEPT !.at = n, !.open = @ - 1] /\ Others
    BY <1>0, <1>5, Changing DEF Closing, Close
  <2>2. Shape(level, ctx'[level])
    BY <1>0, <1>5, <2>1 DEF Closing, Same, Shape, Context
  <2> QED BY <1>1, <1>5, <2>1, <2>2 DEF Closing, Same
<1>6. ASSUME NEW p \in Points, Moving(p) PROVE Shapes'
  <2>1. ctx'[level] = [top EXCEPT !.at = p] /\ Others
    BY <1>0, <1>6, Changing DEF Moving, Goto
  <2>2. Shape(level, ctx'[level])
    BY <1>0, <1>6, <2>1 DEF Moving, Same, Shape, Context
  <2> QED BY <1>1, <1>6, <2>1, <2>2 DEF Moving, Same
<1>7. CASE EndOutlinedCircle
  <2>1. ctx'[level] = [top EXCEPT !.open = 0] /\ Others
    BY <1>0, <1>7, Changing DEF EndOutlinedCircle
  <2>2. Shape(level, ctx'[level])
    BY <1>0, <1>7, <2>1 DEF EndOutlinedCircle, Shape, Context
  <2> QED BY <1>1, <1>7, <2>1, <2>2 DEF EndOutlinedCircle
<1>8. CASE Cli
  <2>1. /\ ctx'[level] = [top EXCEPT !.at = top.next, !.next = "run", !.open = @ + 1]
        /\ Others
    BY <1>0, <1>8, Changing DEF Cli
  <2>2. Shape(level, ctx'[level])
    BY <1>0, <1>8, <2>1 DEF Cli, Shape, Context
  <2> QED BY <1>1, <1>8, <2>1, <2>2 DEF Cli
<1>9. CASE EnableIRQs
  BY <1>9 DEF EnableIRQs, Shapes, Shape
<1>10. CASE EnableLine
  <2>1. ctx'[level] = Idle /\ Others
    BY <1>0, <1>10, Changing DEF EnableLine
  <2>2. Shape(level, ctx'[level])
    BY <1>0, <1>10, <2>1 DEF EnableLine, Shape, Idle, Starting
  <2> QED BY <1>1, <1>10, <2>1, <2>2 DEF EnableLine
<1>11. CASE Halt \/ FinishHandler
  <2>1. PICK p \in Points : /\ p = "halted" => level = 0 /\ top.open = 0
                            /\ p = "return" => level > 0 /\ top.at = "run"
                            /\ p \in {"halted", "return"} /\ Goto(p)
    BY <1>11 DEF Halt, FinishHandler, Points
  <2>2. ctx'[level] = [top EXCEPT !.at = p] /\ Others
    BY <1>0, <2>1, Changing DEF Goto
  <2>3. Shape(level, ctx'[level])
    BY <1>0, <1>11, <2>1, <2>2 DEF Halt, FinishHandler, Shape, Context
  <2> QED BY <1>1, <1>11, <2>2, <2>3 DEF Halt, FinishHandler
<1>12. ASSUME NEW d \in Drivers, StoreHandler(d) PROVE Shapes'
  <2>1. PICK irq \in Lines(d) : Becomes([top EXCEPT !.at = "stored", !.irq = irq])
    BY <1>12 DEF StoreHandler
  <2>2. ctx'[level] = [top EXCEPT !.at = "stored", !.irq = irq] /\ Others
    BY <1>0, <2>1, Changing
  <2>3. Shape(level, ctx'[level])
    BY <1>0, <1>12, <2>2 DEF StoreHandler, Shape, Context
  <2> QED BY <1>1, <1>12, <2>2, <2>3 DEF StoreHandler
<1>13. CASE Return
  <2>1. Shape(level', ctx'[level'])
    <3>1. /\ level' \in 0 .. level - 1 /\ ctx[level'] \in Context
          /\ ctx'[level'] = Resumed(ctx[level'])
      BY <1>0, <1>13, Leaving
    <3>2. Shape(level', ctx[level'])
      BY <1>0, <3>1 DEF Shapes
    <3> QED BY <1>0, <3>1, <3>2 DEF Resumed, Shape, Context
  <2>2. \A l \in 0 .. level' - 1 : Shape(l, ctx'[l])
    BY <1>0, <1>13, Leaving DEF Shapes, Shape
  <2> QED BY <1>0, <1>13, <2>1, <2>2, Leaving DEF Shapes
<1> QED
  BY <1>2, <1>3, <1>4, <1>5, <1>6, <1>7, <1>8, <1>9, <1>10, <1>11, <1>12, <1>13, Kinds
  DEF Next, Step

----------------------------------------------------------------------------
(* The gate.                                                               *)

Gate == Balance /\ SectionsUninterrupted /\ OpenOutsideSections

(* A step of the running context leaves the contexts below it alone.       *)
LEMMA SameLevel ==
  ASSUME TypeOK, SectionsUninterrupted, level' = level, Others
  PROVE  /\ SectionsUninterrupted'
         /\ Counted(level - 1)' = Counted(level - 1)
         /\ \A l \in 0 .. level - 1 : ctx'[l] = ctx[l]
<1> USE InterruptsAssumption DEF TypeOK
<1>1. \A l \in 0 .. level - 1 : ctx'[l] = ctx[l]
  BY DEF Others
<1>2. SectionsUninterrupted'
  BY <1>1 DEF SectionsUninterrupted
<1>3. Counted(level - 1)' = Counted(level - 1)
  <2>1. CASE level = 0
    BY <2>1 DEF Counted
  <2>2. CASE level > 0
    <3>1. level - 1 \in 0 .. level - 1
      BY <2>2
    <3> QED BY <1>1, <2>2, <3>1 DEF Counted
  <2> QED BY <2>1, <2>2
<1> QED BY <1>1, <1>2, <1>3

(* A step that neither counts nor opens nor closes a section.              *)
LEMMA GateAlone ==
  ASSUME TypeOK, Gate, level' = level, Others, UNCHANGED <<gate, leaks>>,
         ctx'[level].open = top.open, top.at # "counted", ctx'[level].at # "counted",
         cliCalled = -1 => UNCHANGED todo
  PROVE  Gate'
<1> USE InterruptsAssumption DEF TypeOK, gate
<1>1. top' = ctx'[level] /\ Counted(level)' = 0 /\ Counted(level) = 0
  BY DEF top, Counted
<1>2. OpenOutsideSections'
  BY <1>1 DEF Gate, OpenOutsideSections
<1>3. Balance'
  BY <1>1, SameLevel DEF Gate, Balance
<1> QED BY <1>2, <1>3, SameLevel DEF Gate

LEMMA GateStep == ASSUME TypeOK, Shapes, Gate, Next PROVE Gate'
<1> USE InterruptsAssumption
<1>0. /\ ctx \in [0 .. MaxLevel -> Context] /\ level \in 0 .. MaxLevel
      /\ top = ctx[level] /\ top \in Context /\ Shape(level, top)
      /\ top.open \in Nat /\ cliCalled \in Nat \cup {-1} /\ leaks \in Nat
      /\ ints \in BOOLEAN /\ Balance /\ SectionsUninterrupted
  BY DEF TypeOK, Shapes, top, Context, Gate
<1>1. ASSUME NEW irq \in Irqs, Raise(irq) PROVE Gate'
  BY <1>1 DEF Raise, gate, board, Gate, Balance, Counted, top, SectionsUninterrupted,
              OpenOutsideSections
<1>2. ASSUME NEW n \in {"run", "paint", "plot"}, Counting(n) PROVE Gate'
  <2>1. ctx'[level] = [top EXCEPT !.at = "counted", !.next = n] /\ Others /\ level' = level
    BY <1>0, <1>2, Changing DEF Counting, Count, Same
  <2>2. /\ top' = ctx'[level] /\ top'.open = top.open
        /\ Counted(level)' = 1 /\ Counted(level) = 0
    <3>1. top.at # "counted"
      BY <1>2 DEF Counting
    <3>2. top' = ctx'[level] /\ top'.open = top.open /\ top'.at = "counted"
      BY <1>0, <2>1 DEF top, Context
    <3> QED BY <1>0, <2>1, <3>1, <3>2 DEF top, Counted
  <2>3. /\ Counted(level - 1)' = Counted(level - 1) /\ Counted(level - 1) \in {0, 1}
        /\ \A l \in 0 .. level - 1 : ctx'[l] = ctx[l]
    BY <1>0, <2>1, SameLevel DEF Counted
  <2>4. /\ ints' = ints /\ leaks' = leaks /\ todo' = todo
        /\ cliCalled' = IF cliCalled >= 0 THEN cliCalled + 1 ELSE cliCalled
    BY <1>2 DEF Counting, Count
  <2>5. Balance'
    BY <1>0, <2>1, <2>2, <2>3, <2>4, SMTT(60) DEF Balance
  <2>6. OpenOutsideSections'
    BY <1>0, <1>2, <2>1, <2>2 DEF Counting, Count, Gate, OpenOutsideSections
  <2> QED BY <1>0, <2>1, <2>5, <2>6, SameLevel DEF Gate
<1>3. ASSUME NEW n \in {"run", "plotted"}, Closing(n) PROVE Gate'
  <2>1. ctx'[level] = [top EXCEPT !.at = n, !.open = @ - 1] /\ Others /\ level' = level
    BY <1>0, <1>3, Changing DEF Closing, Close, Same
  <2>2. /\ top' = ctx'[level] /\ top'.open = top.open - 1
        /\ Counted(level)' = 0 /\ Counted(level) = 0
    BY <1>0, <1>3, <2>1 DEF top, Counted, Closing, Context
  <2>3. ~ints /\ (ints' = (cliCalled' = 0))
    BY <1>0, <1>3 DEF Closing, Close, Sti, Balance
  <2>4. /\ Counted(level - 1)' = Counted(level - 1) /\ Counted(level - 1) \in {0, 1}
        /\ \A l \in 0 .. level - 1 : ctx'[l] = ctx[l]
    BY <1>0, <2>1, SameLevel DEF Counted
  <2>5. /\ cliCalled' = IF cliCalled > 0 THEN cliCalled - 1 ELSE cliCalled
        /\ leaks' = leaks /\ todo' = todo /\ top.open > 0
    BY <1>3 DEF Closing, Close, Sti
  <2>6. Balance'
    <3>1. CASE cliCalled = -1
      BY <1>0, <1>3, <2>1, <2>3, <3>1 DEF Closing, Close, Sti, Balance
    <3>2. CASE cliCalled >= 0
      <4>1. cliCalled = leaks + top.open + Counted(level - 1) /\ cliCalled' = cliCalled - 1
        BY <1>0, <2>2, <2>4, <2>5, <3>2 DEF Balance
      <4>2. cliCalled' = leaks' + top'.open + Counted(level)' + Counted(level - 1)'
        BY <1>0, <2>2, <2>4, <2>5, <4>1
      <4>3. ints' => top'.open = 0 /\ Counted(level - 1) = 0
        BY <1>0, <2>2, <2>3, <2>4, <2>5, <4>1
      <4>4. \A l \in 0 .. level - 1 : ctx'[l].at = "counted" => l = level - 1 /\ ~ints'
        <5> SUFFICES ASSUME NEW l \in 0 .. level - 1, ctx[l].at = "counted"
                     PROVE  l = level - 1 /\ ~ints'
          BY <2>4
        <5>1. l = level - 1
          BY <1>0 DEF Balance
        <5>2. Counted(level - 1) = 1
          BY <1>0, <5>1 DEF Counted
        <5> QED BY <4>3, <5>1, <5>2
      <4>5. cliCalled' >= 0 /\ cliCalled' # -1
        BY <1>0, <2>4, <2>5, <4>1
      <4> QED BY <2>1, <2>4, <4>2, <4>3, <4>4, <4>5 DEF Balance
    <3> QED BY <1>0, <3>1, <3>2
  <2>7. OpenOutsideSections'
    <3> SUFFICES ASSUME level = 0, cliCalled' >= 0, leaks' = 0, top'.open = 0 PROVE ints'
      BY <2>1 DEF OpenOutsideSections
    <3>1. cliCalled' = 0
      BY <1>0, <2>1, <2>2, <2>6 DEF Balance, Counted
    <3> QED BY <2>3, <3>1
  <2> QED BY <1>0, <2>1, <2>6, <2>7, SameLevel DEF Gate
<1>4. ASSUME NEW p \in Points, Moving(p) PROVE Gate'
  <2>1. ctx'[level] = [top EXCEPT !.at = p] /\ Others
    BY <1>0, <1>4, Changing DEF Moving, Goto
  <2> QED BY <1>0, <1>4, <2>1, GateAlone DEF Moving, Same, Context
<1>5. CASE EndOutlinedCircle
  <2>1. ctx'[level] = [top EXCEPT !.open = 0] /\ Others /\ level' = level
    BY <1>0, <1>5, Changing DEF EndOutlinedCircle
  <2>2. /\ top' = ctx'[level] /\ top'.open = 0 /\ leaks' = leaks + 1
        /\ Counted(level)' = 0 /\ Counted(level) = 0
    BY <1>0, <1>5, <2>1 DEF top, Counted, EndOutlinedCircle, Context
  <2>3. cliCalled >= 0 /\ top.open = 1 /\ level = 0 /\ UNCHANGED gate
    BY <1>0, <1>5 DEF EndOutlinedCircle, Balance
  <2>4. Counted(level - 1)' = 0 /\ Counted(level - 1) = 0
    BY <2>1, <2>3 DEF Counted
  <2>5. Balance'
    BY <1>0, <2>1, <2>2, <2>3, <2>4 DEF Balance, gate
  <2>6. OpenOutsideSections'
    BY <1>0, <2>2 DEF OpenOutsideSections
  <2> QED BY <1>0, <2>1, <2>5, <2>6, SameLevel DEF Gate
<1>6. CASE Cli
  <2>1. /\ ctx'[level] = [top EXCEPT !.at = top.next, !.next = "run", !.open = @ + 1]
        /\ Others /\ level' = level
    BY <1>0, <1>6, Changing DEF Cli
  <2>2. top' = ctx'[level] /\ top'.open = top.open + 1 /\ top'.at # "counted"
    BY <1>0, <1>6, <2>1 DEF top, Cli, Context, Shape
  <2>3. Counted(level)' = 0 /\ Counted(level) = 1
    BY <1>0, <1>6, <2>1, <2>2 DEF top, Counted, Cli
  <2>4. Balance'
    BY <1>0, <1>6, <2>1, <2>2, <2>3, SameLevel, SMTT(60) DEF Cli, board, Balance
  <2>5. OpenOutsideSections'
    BY <1>0, <2>2 DEF OpenOutsideSections
  <2> QED BY <1>0, <2>1, <2>4, <2>5, SameLevel DEF Gate
<1>7. CASE EnableIRQs
  <2>1. /\ level = 0 /\ top' = top /\ level' = 0 /\ Counted(level)' = 0 /\ Counted(level - 1)' = 0
        /\ leaks' = 0 /\ cliCalled' = 0 /\ ints' /\ top.open = 0
    BY <1>0, <1>7 DEF EnableIRQs, top, Counted, Balance
  <2> QED BY <2>1 DEF Gate, Balance, SectionsUninterrupted, OpenOutsideSections
<1>8. CASE EnableLine
  <2>1. ctx'[level] = Idle /\ Others
    BY <1>0, <1>8, Changing DEF EnableLine
  <2>2. top.open = 0
    BY <1>0, <1>8 DEF EnableLine, Shape
  <2> QED BY <1>0, <1>8, <2>1, <2>2, GateAlone DEF EnableLine, Idle, Starting
<1>9. CASE Halt
  <2>1. ctx'[level] = [top EXCEPT !.at = "halted"] /\ Others
    BY <1>0, <1>9, Changing DEF Halt, Goto
  <2>2. /\ level = 0 /\ level' = 0 /\ top' = ctx'[level] /\ top'.open = top.open
        /\ Counted(level)' = 0 /\ Counted(level) = 0
    BY <1>0, <1>9, <2>1 DEF Halt, top, Counted, Context
  <2>3. Counted(level - 1)' = 0 /\ Counted(level - 1) = 0
    BY <2>2 DEF Counted
  <2>4. /\ cliCalled >= 0 /\ cliCalled' = cliCalled /\ leaks' = leaks
        /\ ints' /\ top.open = 0
    BY <1>0, <1>9 DEF Halt, Balance
  <2> QED
    BY <1>0, <2>2, <2>3, <2>4 DEF Gate, Balance, SectionsUninterrupted, OpenOutsideSections
<1>10. CASE FinishHandler
  <2>1. ctx'[level] = [top EXCEPT !.at = "return"] /\ Others
    BY <1>0, <1>10, Changing DEF FinishHandler, Goto
  <2> QED BY <1>0, <1>10, <2>1, GateAlone DEF FinishHandler, board, Context
<1>11. ASSUME NEW d \in Drivers, StoreHandler(d) PROVE Gate'
  <2>1. PICK irq \in Lines(d) : Becomes([top EXCEPT !.at = "stored", !.irq = irq])
    BY <1>11 DEF StoreHandler
  <2>2. ctx'[level] = [top EXCEPT !.at = "stored", !.irq = irq] /\ Others
    BY <1>0, <2>1, Changing
  <2> QED BY <1>0, <1>11, <2>2, GateAlone DEF StoreHandler, Context
<1>12. ASSUME NEW irq \in Irqs, Deliver(irq) PROVE Gate'
  <2>1. /\ ints /\ ~ints' /\ cliCalled' = cliCalled /\ leaks' = leaks /\ todo' = todo
        /\ cliCalled >= 0 /\ top.open = 0
    BY <1>0, <1>12 DEF Deliver, Balance, board
  <2>2. /\ level' = level + 1 /\ \A l \in 0 .. level : ctx'[l] = ctx[l]
        /\ top' = Starting(handlers[irq], irq)
    BY <1>12, Entering DEF top
  <2>3. Counted(level)' = 0 /\ top'.open = 0
    BY <2>2 DEF Counted, top, Starting
  <2>4. Counted(level - 1)' = Counted(level) /\ Counted(level) \in {0, 1}
    BY <1>0, <2>2 DEF Counted
  <2>5. \A l \in 0 .. level - 1 : ctx[l].at # "counted" /\ ctx[l].open = 0
    BY <1>0, <2>1 DEF Balance, SectionsUninterrupted
  <2>6. Counted(level - 1) = 0
    BY <1>0, <2>5 DEF Counted
  <2>7. \A l \in 0 .. level' - 1 : ctx'[l].at = "counted" => l = level' - 1 /\ ~ints'
    BY <1>0, <2>1, <2>2, <2>5
  <2>8. Balance'
    BY <1>0, <2>1, <2>2, <2>3, <2>4, <2>6, <2>7 DEF Balance
  <2>9. SectionsUninterrupted'
    BY <1>0, <2>1, <2>2, <2>5 DEF SectionsUninterrupted
  <2>10. OpenOutsideSections'
    BY <1>0, <2>2 DEF OpenOutsideSections
  <2> QED BY <2>8, <2>9, <2>10 DEF Gate
<1>13. CASE Return
  <2>1. /\ level > 0 /\ level' = level - 1 /\ level' \in 0 .. MaxLevel
        /\ ctx'[level'] = Resumed(ctx[level'])
        /\ \A l \in 0 .. level' - 1 : ctx'[l] = ctx[l]
    BY <1>0, <1>13, Leaving
  <2>2. ints' /\ cliCalled' = cliCalled /\ leaks' = leaks /\ todo' = todo
    BY <1>13 DEF Return, board
  <2>3. ctx[level - 1] \in Context /\ ctx[level - 1].open = 0
    BY <1>0, <2>1 DEF SectionsUninterrupted
  <2>4. /\ top' = Resumed(ctx[level - 1]) /\ top'.open = 0
        /\ top'.at = "counted" <=> ctx[level - 1].at = "counted"
    BY <2>1, <2>3 DEF top, Resumed, Context
  <2>5. Counted(level)' = Counted(level - 1) /\ Counted(level - 1) \in {0, 1}
    BY <1>0, <2>1, <2>4 DEF Counted, top
  <2>6. Counted(level) = 0 /\ top.open = 0
    BY <1>0, <1>13 DEF Return, Counted, Shape
  <2>7. \A l \in 0 .. level' - 1 : ctx'[l].at # "counted"
    BY <1>0, <2>1 DEF Balance
  <2>8. Counted(level - 1)' = 0
    BY <1>0, <2>1, <2>7 DEF Counted
  <2>9. cliCalled >= 0
    BY <1>0, <2>1 DEF Balance
  <2>10. Balance'
    BY <1>0, <2>1, <2>2, <2>4, <2>5, <2>6, <2>7, <2>8, <2>9 DEF Balance
  <2>11. SectionsUninterrupted'
    BY <1>0, <2>1 DEF SectionsUninterrupted
  <2>12. OpenOutsideSections'
    BY <2>2 DEF OpenOutsideSections
  <2> QED BY <2>10, <2>11, <2>12 DEF Gate
<1> QED
  BY <1>0, <1>1, <1>2, <1>3, <1>4, <1>5, <1>6, <1>7, <1>8, <1>9, <1>10, <1>11, <1>12, <1>13, Kinds
  DEF Next, Step

----------------------------------------------------------------------------
(* The lines, their handlers, and the requests in service.                 *)

Served == Lined /\ AllExpected /\ NotReentered /\ InServiceIffRunning

(* A step that none of these can tell.                                     *)
Quiet ==
  /\ level' = level /\ UNCHANGED <<controller, handlers, inputs, isr>>
  /\ \A l \in 0 .. MaxLevel :
       /\ ctx'[l].irq = ctx[l].irq /\ ctx'[l].runs = ctx[l].runs
       /\ ctx'[l].at = "stored" => ctx[l].at = "stored"
       /\ (ctx'[l].at = "return") <=> (ctx[l].at = "return")

LEMMA LineRange == ASSUME NEW irq \in Irqs PROVE irq \in 0 .. 15 /\ irq # Cascade
BY InterruptsAssumption DEF Irqs, Timer, Keyboard, Cascade

LEMMA QuietKeeps == ASSUME TypeOK, Served, Quiet PROVE Served'
<1> USE InterruptsAssumption
<1>0. level \in 0 .. MaxLevel /\ level' = level
  BY DEF TypeOK, Quiet
<1>1. Lined'
  <2>1. ctx'[0].irq = ctx[0].irq /\ (ctx'[0].at = "stored" => ctx[0].at = "stored")
    BY <1>0 DEF Quiet
  <2>2. \A l \in 1 .. level' : Live(ctx[l].irq) /\ ctx'[l].irq = ctx[l].irq
    BY <1>0 DEF Quiet, Served, Lined
  <2>3. UNCHANGED <<controller, handlers, inputs>>
    BY DEF Quiet
  <2> QED BY <2>1, <2>2, <2>3 DEF Served, Lined, Live
<1>2. AllExpected'
  BY <1>0 DEF Served, Quiet, AllExpected
<1>3. NotReentered'
  BY <1>0 DEF Served, Quiet, NotReentered
<1>4. InServiceIffRunning'
  <2>1. isr' = isr
    BY DEF Quiet
  <2>2. \A l \in 1 .. level : /\ ctx'[l].irq = ctx[l].irq
                              /\ (ctx'[l].at = "return") <=> (ctx[l].at = "return")
    BY <1>0 DEF Quiet
  <2> QED BY <1>0, <2>1, <2>2 DEF Served, InServiceIffRunning
<1> QED BY <1>1, <1>2, <1>3, <1>4 DEF Served

LEMMA QuietSteps ==
  ASSUME TypeOK, Shapes, Drawing \/ EnableIRQs \/ Halt
  PROVE  Quiet
<1> USE InterruptsAssumption
<1>0. /\ ctx \in [0 .. MaxLevel -> Context] /\ level \in 0 .. MaxLevel
      /\ top = ctx[level] /\ top \in Context /\ Shape(level, top)
  BY DEF TypeOK, Shapes, top
<1>1. ASSUME NEW c, Becomes(c), c.irq = top.irq, c.runs = top.runs,
             c.at # "stored", c.at # "return", top.at # "return",
             level' = level, UNCHANGED <<controller, handlers, inputs, isr>>
      PROVE  Quiet
  <2>1. ctx'[level] = c /\ Others
    BY <1>0, <1>1, Changing
  <2> QED BY <1>0, <1>1, <2>1 DEF Others, Quiet
<1>2. ASSUME NEW n \in {"run", "paint", "plot"}, Counting(n) PROVE Quiet
  <2> DEFINE c == [top EXCEPT !.at = "counted", !.next = n]
  <2>1. c.irq = top.irq /\ c.runs = top.runs /\ c.at = "counted"
    BY <1>0 DEF Context
  <2>2. Becomes(c) /\ top.at # "return"
    BY <1>2 DEF Counting, Count
  <2> QED BY <1>1, <1>2, <2>1, <2>2 DEF Counting, Same
<1>3. ASSUME NEW n \in {"run", "plotted"}, Closing(n) PROVE Quiet
  <2> DEFINE c == [top EXCEPT !.at = n, !.open = @ - 1]
  <2>1. c.irq = top.irq /\ c.runs = top.runs /\ c.at = n
    BY <1>0 DEF Context
  <2>2. Becomes(c) /\ top.at # "return"
    BY <1>3 DEF Closing, Close
  <2> QED BY <1>1, <1>3, <2>1, <2>2 DEF Closing, Same
<1>4. ASSUME NEW p \in Points, Moving(p) PROVE Quiet
  <2> DEFINE c == [top EXCEPT !.at = p]
  <2>1. c.irq = top.irq /\ c.runs = top.runs /\ c.at = p
    BY <1>0 DEF Context
  <2>2. Becomes(c) /\ top.at # "return" /\ p \in {"run", "rendered"}
    BY <1>4 DEF Moving, Goto
  <2> QED BY <1>1, <1>4, <2>1, <2>2 DEF Moving, Same
<1>5. CASE EndOutlinedCircle
  <2> DEFINE c == [top EXCEPT !.open = 0]
  <2>1. c.irq = top.irq /\ c.runs = top.runs /\ c.at = top.at
    BY <1>0 DEF Context
  <2>2. Becomes(c) /\ top.at = "run"
    BY <1>5 DEF EndOutlinedCircle
  <2> QED BY <1>1, <1>5, <2>1, <2>2 DEF EndOutlinedCircle, board
<1>6. CASE Cli
  <2> DEFINE c == [top EXCEPT !.at = top.next, !.next = "run", !.open = @ + 1]
  <2>1. c.irq = top.irq /\ c.runs = top.runs /\ c.at = top.next
    BY <1>0 DEF Context
  <2>2. Becomes(c) /\ top.at = "counted" /\ top.next \in {"run", "paint", "plot"}
    BY <1>0, <1>6 DEF Cli, Shape
  <2> QED BY <1>1, <1>6, <2>1, <2>2 DEF Cli, board
<1>7. CASE EnableIRQs
  BY <1>0, <1>7 DEF EnableIRQs, Quiet, board
<1>8. CASE Halt
  <2> DEFINE c == [top EXCEPT !.at = "halted"]
  <2>1. c.irq = top.irq /\ c.runs = top.runs /\ c.at = "halted"
    BY <1>0 DEF Context
  <2>2. Becomes(c) /\ top.at = "run"
    BY <1>8 DEF Halt, Goto
  <2> QED BY <1>1, <1>8, <2>1, <2>2 DEF Halt, board
<1> QED BY <1>2, <1>3, <1>4, <1>5, <1>6, <1>7, <1>8, Kinds

(* A request is delivered to the handler of its line, and only when that   *)
(* handler is not already running below.                                   *)
LEMMA Delivering ==
  ASSUME TypeOK, Served, NEW irq \in Irqs, Deliver(irq)
  PROVE  Served'
<1> USE InterruptsAssumption
<1>0. /\ ctx \in [0 .. MaxLevel -> Context] /\ level \in 0 .. MaxLevel
      /\ handlers \in [Irqs -> Handlers] /\ controller \in {"APIC", "PIC8259"}
      /\ irq \in 0 .. 15
  BY DEF TypeOK, Irqs, Timer, Keyboard
<1>1. /\ level' = level + 1 /\ level' \in 1 .. MaxLevel
      /\ ctx'[level'] = Starting(handlers[irq], irq)
      /\ \A l \in 0 .. level : ctx'[l] = ctx[l]
  BY Entering
<1>2. UNCHANGED <<controller, handlers, inputs>> /\ irq \in inputs /\ isr' = InService(irq)
  BY DEF Deliver, Allowed, board
<1>3. Live(irq)
  BY <1>0 DEF Deliver, Allowed, Live, Served, Lined
<1>4. handlers[irq] # "unexpected"
  BY <1>2, <1>3 DEF Served, Lined
<1>5. /\ ctx'[level'].runs = handlers[irq] /\ ctx'[level'].irq = irq
      /\ ctx'[level'].at = "run"
  BY <1>1 DEF Starting
<1>6. irq \notin isr /\ isr' = isr \cup {irq}
  BY <1>0, <1>2, <1>3 DEF Deliver, Allowed, InService, Live
<1>7. Lined'
  <2>1. ctx'[0] = ctx[0]
    BY <1>0, <1>1
  <2>2. \A l \in 1 .. level' : Live(ctx'[l].irq)
    BY <1>0, <1>1, <1>3, <1>5 DEF Served, Lined
  <2> QED BY <1>2, <2>1, <2>2 DEF Served, Lined, Live
<1>8. AllExpected'
  BY <1>0, <1>1, <1>4, <1>5 DEF Served, AllExpected
<1>9. NotReentered'
  <2> SUFFICES ASSUME NEW l \in 1 .. level', NEW m \in 1 .. level',
                      l < m, ctx'[l].irq = ctx'[m].irq
               PROVE  ctx'[l].at = "return"
    BY DEF NotReentered
  <2>1. l \in 1 .. level /\ ctx'[l] = ctx[l]
    BY <1>0, <1>1
  <2>2. CASE m \in 1 .. level
    BY <1>0, <1>1, <2>1, <2>2 DEF Served, NotReentered
  <2>3. CASE m = level'
    BY <1>5, <1>6, <2>1, <2>3 DEF Served, InServiceIffRunning
  <2> QED BY <1>0, <1>1, <2>2, <2>3
<1>10. InServiceIffRunning'
  <2>1. \A l \in 1 .. level : ctx'[l] = ctx[l]
    BY <1>0, <1>1
  <2>2. 1 .. level' = (1 .. level) \cup {level'}
    BY <1>0, <1>1
  <2> QED BY <1>5, <1>6, <2>1, <2>2 DEF Served, InServiceIffRunning
<1> QED BY <1>7, <1>8, <1>9, <1>10 DEF Served

(* The EOI takes the line of the finished handler out of service, and no   *)
(* other handler that still runs has that line.                            *)
LEMMA Finishing == ASSUME TypeOK, Served, FinishHandler PROVE Served'
<1> USE InterruptsAssumption
<1>0. /\ ctx \in [0 .. MaxLevel -> Context] /\ level \in 1 .. MaxLevel
      /\ top = ctx[level] /\ top \in Context /\ controller \in {"APIC", "PIC8259"}
      /\ level' = level /\ top.at = "run"
  BY DEF TypeOK, top, FinishHandler
<1>1. ctx'[level] = [top EXCEPT !.at = "return"] /\ Others
  BY <1>0, Changing DEF FinishHandler, Goto
<1>2. /\ ctx'[level].irq = top.irq /\ ctx'[level].runs = top.runs
      /\ ctx'[level].at = "return" /\ \A l \in 0 .. level - 1 : ctx'[l] = ctx[l]
  BY <1>0, <1>1 DEF Context, Others
<1>3. UNCHANGED <<controller, handlers, inputs>> /\ isr' = Acked(top.irq)
  BY DEF FinishHandler, board
<1>4. Acked(top.irq) = isr \ {top.irq}
  <2>1. Live(top.irq)
    BY <1>0 DEF Served, Lined
  <2>2. top.irq \in Irqs
    BY <1>0 DEF Context
  <2>3. top.irq \in 0 .. 15
    BY <2>2, LineRange
  <2> QED BY <1>0, <2>1, <2>3 DEF Acked, Live
<1>5. Lined'
  <2>1. ctx'[0] = ctx[0]
    BY <1>0, <1>2
  <2>2. \A l \in 1 .. level' : Live(ctx'[l].irq)
    BY <1>0, <1>2 DEF Served, Lined
  <2> QED BY <1>3, <2>1, <2>2 DEF Served, Lined, Live
<1>6. AllExpected'
  BY <1>0, <1>2 DEF Served, AllExpected
<1>7. NotReentered'
  BY <1>0, <1>2 DEF Served, NotReentered
<1>8. InServiceIffRunning'
  <2>1. \A l \in 1 .. level - 1 : /\ ctx'[l] = ctx[l]
                                  /\ ctx[l].irq = top.irq => ctx[l].at = "return"
    BY <1>0, <1>2 DEF Served, NotReentered
  <2>2. 1 .. level = (1 .. level - 1) \cup {level}
    BY <1>0
  <2>3. isr = {ctx[l].irq : l \in {m \in 1 .. level - 1 : ctx[m].at # "return"}} \cup {top.irq}
    BY <1>0, <2>2 DEF Served, InServiceIffRunning
  <2>4. isr' = {ctx[l].irq : l \in {m \in 1 .. level - 1 : ctx[m].at # "return"}}
    BY <1>3, <1>4, <2>1, <2>3
  <2> QED BY <1>0, <1>2, <2>1, <2>2, <2>4 DEF InServiceIffRunning
<1> QED BY <1>5, <1>6, <1>7, <1>8 DEF Served

LEMMA ServedStep == ASSUME TypeOK, Shapes, Served, Next PROVE Served'
<1> USE InterruptsAssumption
<1>0. /\ ctx \in [0 .. MaxLevel -> Context] /\ level \in 0 .. MaxLevel
      /\ top = ctx[level] /\ top \in Context /\ Shape(level, top)
      /\ handlers \in [Irqs -> Handlers] /\ controller \in {"APIC", "PIC8259"}
  BY DEF TypeOK, Shapes, top
<1>1. ASSUME NEW irq \in Irqs, Raise(irq) PROVE Served'
  <2>1. Quiet
    BY <1>1 DEF Raise, Quiet, board
  <2> QED BY <2>1, QuietKeeps
<1>2. CASE Drawing \/ EnableIRQs \/ Halt
  BY <1>2, QuietSteps, QuietKeeps
<1>3. CASE EnableLine
  <2>1. level = 0 /\ level' = 0 /\ ctx'[0] = Idle /\ top.at = "stored" /\ top = ctx[0]
    BY <1>0, <1>3, Changing DEF EnableLine, Shape
  <2>2. UNCHANGED <<controller, handlers, isr>> /\ inputs' = inputs \cup Unmasked(top.irq)
    BY <1>3 DEF EnableLine
  <2>3. top.irq \in Irqs
    BY <1>0 DEF Context
  <2>4. top.irq \in Irqs /\ top.irq \in 0 .. 15 /\ top.irq # Cascade
    BY <2>3, LineRange
  <2>5. controller = "PIC8259" => Cascade \notin inputs'
    BY <1>0, <2>2, <2>4 DEF Unmasked, Served, Lined, Cascade
  <2>6. \A irq \in Irqs \cap inputs' : Live(irq) => handlers'[irq] # "unexpected"
    <3> SUFFICES ASSUME NEW irq \in Irqs \cap Unmasked(top.irq), Live(irq)
                 PROVE  handlers[irq] # "unexpected"
      BY <2>2 DEF Served, Lined
    <3>1. irq = top.irq
      BY <1>0, <2>4 DEF Unmasked, Live
    <3> QED BY <2>1, <3>1 DEF Served, Lined
  <2>7. Lined'
    BY <2>1, <2>2, <2>5, <2>6 DEF Lined, Idle, Starting, Live
  <2> QED BY <2>1, <2>2, <2>7 DEF Served, AllExpected, NotReentered, InServiceIffRunning
<1>4. ASSUME NEW d \in Drivers, StoreHandler(d) PROVE Served'
  <2>1. PICK irq \in Lines(d) :
          /\ handlers' = [handlers EXCEPT ![irq] = d]
          /\ Becomes([top EXCEPT !.at = "stored", !.irq = irq])
    BY <1>4 DEF StoreHandler
  <2>2. irq \in Irqs /\ d # "unexpected"
    BY DEF Lines, Irqs, Drivers
  <2>3. level = 0 /\ level' = 0 /\ UNCHANGED <<controller, inputs, isr>>
    BY <1>4 DEF StoreHandler
  <2>4. ctx'[0].irq = irq
    <3>1. ctx'[0] = [top EXCEPT !.at = "stored", !.irq = irq]
      BY <1>0, <2>1, <2>3, Changing
    <3> QED BY <1>0, <3>1 DEF Context
  <2>5. handlers'[irq] = d /\ \A i \in Irqs : i # irq => handlers'[i] = handlers[i]
    BY <1>0, <2>1, <2>2
  <2>6. Lined'
    BY <2>2, <2>3, <2>4, <2>5 DEF Served, Lined, Live
  <2> QED BY <2>3, <2>6 DEF Served, AllExpected, NotReentered, InServiceIffRunning
<1>5. ASSUME NEW irq \in Irqs, Deliver(irq) PROVE Served'
  BY <1>5, Delivering
<1>6. CASE FinishHandler
  BY <1>6, Finishing
<1>7. CASE Return
  <2>1. /\ level > 0 /\ level' = level - 1
        /\ ctx'[level'] = Resumed(ctx[level'])
        /\ \A l \in 0 .. level' - 1 : ctx'[l] = ctx[l]
        /\ \A l \in 1 .. level' : ctx'[l] = ctx[l]
    BY <1>7, Leaving
  <2>2. UNCHANGED <<controller, handlers, inputs, isr>> /\ ctx[level].at = "return"
    BY <1>0, <1>7 DEF Return, board
  <2>3. Lined'
    <3>1. ctx'[0] = ctx[0] \/ ctx'[0] = Resumed(ctx[0])
      BY <1>0, <2>1
    <3>2. ctx'[0].irq = ctx[0].irq /\ (ctx'[0].at = "stored" => ctx[0].at = "stored")
      BY <1>0, <3>1 DEF Resumed, Context
    <3>3. \A l \in 1 .. level' : Live(ctx'[l].irq)
      BY <1>0, <2>1 DEF Served, Lined
    <3> QED BY <2>2, <3>2, <3>3 DEF Served, Lined, Live
  <2>4. AllExpected'
    BY <1>0, <2>1 DEF Served, AllExpected
  <2>5. NotReentered'
    BY <1>0, <2>1 DEF Served, NotReentered
  <2>6. InServiceIffRunning'
    <3>1. 1 .. level = (1 .. level') \cup {level}
      BY <1>0, <2>1
    <3>2. {m \in 1 .. level : ctx[m].at # "return"} =
          {m \in 1 .. level' : ctx'[m].at # "return"}
      BY <2>1, <2>2, <3>1
    <3> QED BY <2>1, <2>2, <3>2 DEF Served, InServiceIffRunning
  <2> QED BY <2>3, <2>4, <2>5, <2>6 DEF Served
<1> QED BY <1>1, <1>2, <1>3, <1>4, <1>5, <1>6, <1>7 DEF Next, Step

----------------------------------------------------------------------------
(* The invariant and the theorems.                                         *)

LEMMA Stuttering == ASSUME IInv, UNCHANGED vars PROVE IInv'
<1> USE DEF vars, board, gate, screen
<1>1. TypeOK'
  BY DEF IInv, TypeOK
<1>2. Balance' /\ OpenOutsideSections' /\ SectionsUninterrupted'
  BY DEF IInv, Balance, OpenOutsideSections, SectionsUninterrupted, Counted, top
<1>3. Shapes'
  BY DEF IInv, Shapes, Shape
<1>4. Lined' /\ AllExpected'
  BY DEF IInv, Lined, Live, AllExpected
<1>5. NotReentered'
  BY DEF IInv, NotReentered
<1>6. InServiceIffRunning'
  BY DEF IInv, InServiceIffRunning
<1> QED BY <1>1, <1>2, <1>3, <1>4, <1>5, <1>6 DEF IInv

LEMMA Invariance == Spec => []IInv
<1>1. Init => IInv
  BY Initially
<1>2. IInv /\ [Next]_vars => IInv'
  <2>1. ASSUME IInv, Next PROVE IInv'
    <3>1. TypeOK' /\ Shapes'
      BY <2>1, TypeStep, ShapesStep DEF IInv
    <3>2. Gate'
      BY <2>1, GateStep DEF IInv, Gate
    <3>3. Served'
      BY <2>1, ServedStep DEF IInv, Served
    <3> QED BY <3>1, <3>2, <3>3 DEF IInv, Gate, Served
  <2> QED BY <2>1, Stuttering
<1> QED BY <1>1, <1>2, PTL DEF Spec

(* The variables keep their types; no sti is lost from the count below -1, *)
(* no section nests deeper than the drawing routines do.                   *)
THEOREM TypeCorrect == Spec => []TypeOK
<1>1. IInv => TypeOK
  BY DEF IInv
<1> QED BY <1>1, Invariance, PTL

(* No section is interrupted, whatever lines the devices share, however    *)
(* deep handlers and sections nest.                                        *)
THEOREM SectionsSafe == Spec => []SectionsUninterrupted
<1>1. IInv => SectionsUninterrupted
  BY DEF IInv
<1> QED BY <1>1, Invariance, PTL

(* No handler runs twice at a time, although handlers run with the gate    *)
(* open.                                                                   *)
THEOREM NoReentry == Spec => []NotReentered
<1>1. IInv => NotReentered
  BY DEF IInv
<1> QED BY <1>1, Invariance, PTL

(* No request finds the table without its handler.                         *)
THEOREM Expected == Spec => []AllExpected
<1>1. IInv => AllExpected
  BY DEF IInv
<1> QED BY <1>1, Invariance, PTL

(* The requests in service are those whose handlers run.                   *)
THEOREM ServiceExact == Spec => []InServiceIffRunning
<1>1. IInv => InServiceIffRunning
  BY DEF IInv
<1> QED BY <1>1, Invariance, PTL

(* Without a leaked count the thread is open to interrupts whenever it is  *)
(* outside its sections.                                                   *)
THEOREM GateOpen == Spec => []OpenOutsideSections
<1>1. IInv => OpenOutsideSections
  BY DEF IInv
<1> QED BY <1>1, Invariance, PTL
=============================================================================
