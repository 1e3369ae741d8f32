------------------------------ MODULE TrapEntry ------------------------------
(***************************************************************************)
(* Traps and interrupts of the kernel, from the gate to the iretq: the      *)
(* stubs of idt64.S, the stacks of mp_desc.c, interrupt() and kernel_trap() *)
(* of trap.c.  The kernel runs on the interrupt stack of its processor (the *)
(* last line of vstart()) and has no other; user code does not exist, so    *)
(* every entry is one from the kernel.                                      *)
(*                                                                          *)
(* Memory is a function of words of eight bytes.  Code in C may do what     *)
(* C may do: use the stack below rsp, change every register, and give back  *)
(* those a callee owes its caller.  Of the SSE and x87 registers, which no  *)
(* entry saves, the model has only which computation changed them last.     *)
(***************************************************************************)
EXTENDS Integers, Sequences

CONSTANTS Vectors,   \* of interrupts
          Traps,     \* that may come at any moment
          Locals,    \* words code in C takes of the stack
          Top,       \* cpu_int_stack_top, in words; the stack begins at 0
          MaxActs,   \* bound: contexts on top of each other
          MaxSteps   \* bound: computations and entries of a run

(* The first vector of an interrupt is 32.                                  *)
ASSUME TrapAssumption ==
  /\ Top \in Nat /\ Top % 2 = 0 /\ Top > 40
  /\ Locals \subseteq Nat /\ Vectors \subseteq Nat \ (0 .. 31)

VARIABLES cpu,        \* the general registers
          xmm,        \* the computation that changed the others last
          stack,      \* the words written
          intState,   \* CPU_INT_STATE
          acts,       \* the running contexts, the thread of the kernel first
          steps,      \* computations and entries so far
          ignored,    \* kernel_trap() has returned
          stray,      \* an interrupt was pushed on what is in use, or elsewhere
          halted      \* "no", or how the kernel ended

trapVars == <<cpu, xmm, stack, intState, acts, steps, ignored, stray, halted>>

(* The words of x86_saved_state_t.                                          *)
StateWords ==
  <<"flavor", "unused", "rdi", "rsi", "rdx", "r10", "r8", "r9", "cr2", "r15", "r14", "r13",
    "r12", "r11", "rbp", "rbx", "rcx", "rax", "segments", "unused", "trapno", "trapfn", "err",
    "rip", "cs", "rflags", "rsp", "ss">>
SavedRegisters == {"rdi", "rsi", "rdx", "r10", "r8", "r9", "r15", "r14", "r13", "r12", "r11",
            "rbp", "rbx", "rcx", "rax"}
Pushed == {"rip", "cs", "rflags", "rsp", "ss"}
CalleeSaved == {"rbx", "rbp", "r12", "r13", "r14", "r15", "rsp"}
Size == Len(StateWords)
Offset(n) == (CHOOSE i \in 1 .. Size : StateWords[i] = n) - 1

KERNEL64_CS == 8
IF_ == 512
Flags(open) == IF open THEN IF_ + 2 ELSE 2
IntsOpen == cpu.rflags = Flags(TRUE)

(* Values nothing else has: the n-th of each register.                      *)
FreshValues(n) == [r \in SavedRegisters \cup {"rip"} |-> 1000 + 32 * n + Offset(r)]

Word(a) == IF a \in DOMAIN stack THEN stack[a] ELSE 0
With(words, memory) ==
  [a \in DOMAIN words \cup DOMAIN memory |->
     IF a \in DOMAIN words THEN words[a] ELSE memory[a]]

Depth == Len(acts)
running == acts[Depth]
Goto(p) == [acts EXCEPT ![Depth].at = p]

TrapInit ==
  /\ cpu = [r \in SavedRegisters \cup Pushed |->
              CASE r \in SavedRegisters \cup {"rip"} -> FreshValues(0)[r] [] r = "cs" -> KERNEL64_CS
                [] r = "rflags" -> Flags(TRUE) [] r = "rsp" -> Top - 1 [] r = "ss" -> 0]
  /\ xmm = 0
  /\ stack = <<>>
  /\ intState = 0
  /\ acts = <<[runs |-> "thread", at |-> "code", kept |-> cpu, saved |-> cpu,
               state |-> 0, xmm |-> 0, since |-> 0, base |-> Top]>>
  /\ steps = 0 /\ ignored = FALSE /\ stray = FALSE /\ halted = "no"

----------------------------------------------------------------------------
(* Code in C.                                                               *)

(* It computes, and takes words of the stack.                               *)
Compute(k) ==
  /\ running.at = "code" /\ steps < MaxSteps /\ cpu.rsp - k >= 0
  /\ steps' = steps + 1
  /\ cpu' = [r \in DOMAIN cpu |->
               IF r = "rsp" THEN cpu.rsp - k
               ELSE IF r \in Pushed \ {"rip"} THEN cpu[r] ELSE FreshValues(steps + 1)[r]]
  /\ xmm' = steps + 1
  /\ stack' = With([a \in cpu.rsp - k .. cpu.rsp - 1 |-> 1000 + 32 * (steps + 1)], stack)
  /\ UNCHANGED <<intState, acts, ignored, stray, halted>>

(* It prints: pal_sti() at the end of paint_char() sets the flag.           *)
PrintCharacter ==
  /\ running.at = "code" /\ running.runs = "interrupt" /\ ~IntsOpen
  /\ cpu' = [cpu EXCEPT !.rflags = Flags(TRUE)]
  /\ UNCHANGED <<xmm, stack, intState, acts, steps, ignored, stray, halted>>

(* What a caller finds in the registers, as the code called leaves them.    *)
Returned ==
  [r \in DOMAIN cpu |->
     IF r \in CalleeSaved THEN running.kept[r]
     ELSE IF r \in Pushed THEN cpu[r] ELSE FreshValues(steps + 1)[r]]

----------------------------------------------------------------------------
(* Entries.                                                                 *)

(* Where the processor starts to push: IST1 and IST2 are at the top of the  *)
(* interrupt stack.                                                         *)
IST(t) == IF t = 2 THEN 2 ELSE IF t \in {8, 11, 12, 13, 18} THEN 1 ELSE 0
PushesAt(t) ==
  CASE IST(t) = 0 -> 2 * (cpu.rsp \div 2) [] IST(t) = 1 -> Top - 8 [] IST(t) = 2 -> Top

(* The frame that processor, stub and L_dispatch leave at base.             *)
Framed(base, n, fn) ==
  With([a \in base .. base + Size - 1 |->
          LET name == StateWords[a - base + 1] IN
          IF name \in DOMAIN cpu THEN cpu[name]
          ELSE IF name = "trapno" THEN n
          ELSE IF name = "trapfn" THEN fn ELSE Word(a)], stack)

HNDL_ALLINTRS == 1
HNDL_ALLTRAPS == 2

(* The registers as L_common_dispatch jumps to the handler.                 *)
Dispatched(base, n, fn) ==
  [cpu EXCEPT !.rsp = base, !.r15 = base, !.rax = 0, !.rbx = n, !.rdx = fn,
              !.rsi = KERNEL64_CS, !.cs = KERNEL64_CS, !.rflags = Flags(FALSE)]

Entering(what, base, called) ==
  Append(acts, [runs |-> what, at |-> "code", kept |-> called, saved |-> cpu,
                state |-> intState, xmm |-> xmm, since |-> steps, base |-> base])

(* What the running context still has to take from the stack.               *)
Live == IF running.at = "iret" THEN running.base + Offset("rip") ELSE running.base

(* MUTANT: the jump of the test is the wrong way round.                     *)
OffInterruptStack(rsp) == rsp > Top \/ rsp <= 0

(* hndl_allintrs looks which stack it is on.                                *)
OnInterruptStack(rsp) == rsp <= Top /\ rsp > 0

Interrupt(v) ==
  /\ IntsOpen /\ Depth < MaxActs /\ steps < MaxSteps
  /\ steps' = steps + 1
  /\ LET base == PushesAt(v) - Size
         frame == Framed(base, v, HNDL_ALLINTRS)
         c == Dispatched(base, v, HNDL_ALLINTRS)
         nested == OnInterruptStack(base)
         sp == IF nested THEN base ELSE Top - 1
         called == [c EXCEPT !.r12 = sp - 1, !.rdi = base, !.rsp = 2 * ((sp - 1) \div 2),
                             !.rcx = IF nested THEN Top ELSE base]
     IN /\ base > 8
        /\ stack' = With([a \in {sp - 1} \cup (IF nested THEN {} ELSE {sp}) |->
                            IF a = sp - 1 THEN intState ELSE base],
                         frame)
        /\ cpu' = [called EXCEPT !.rsp = @ - 1]
        /\ acts' = Entering("interrupt", base, called)
        /\ intState' = base
        /\ stray' = (cpu.rsp > Live)
  /\ UNCHANGED <<xmm, ignored, halted>>

(* What kernel_trap() returns from; the kernel sets no trace flag.          *)
T_DEBUG == 1
Ignores(t) == t \in {T_DEBUG, 15}

(* trap_from_kernel extends the chain of frames and calls kernel_trap(),    *)
(* which sets the interrupt flag to what it was.                            *)
IgnoredTrap(t) ==
  /\ Ignores(t) /\ Depth < MaxActs /\ running.at = "code" /\ steps < MaxSteps
  /\ steps' = steps + 1
  /\ LET base == PushesAt(t) - Size
         frame == Framed(base, t, HNDL_ALLTRAPS)
         called == [Dispatched(base, t, HNDL_ALLTRAPS) EXCEPT
                      !.rdi = base, !.rbp = base - 1, !.r12 = base - 1,
                      !.rsi = base - 2, !.rsp = base - 2]
     IN /\ base > 8
        /\ stack' = With([a \in {base - 1, base - 2} |->
                            IF a = base - 1 THEN cpu.rbp ELSE base - 1], frame)
        /\ cpu' = [called EXCEPT !.rsp = @ - 1, !.rflags = cpu.rflags]
        /\ acts' = Entering("trap", base, called)
  /\ UNCHANGED <<xmm, intState, ignored, stray, halted>>

(* The others end in panic_trap(), panic_double_fault64() or                *)
(* panic_machine_check64(), which print the frame; an NMI is moved to       *)
(* CPU_KERNEL_STACK, which is 0, and faults there.                          *)
FatalTrap(t) ==
  /\ ~Ignores(t) /\ running.at = "code"
  /\ LET base == PushesAt(t) - Size
     IN /\ base >= 0
        /\ stack' = Framed(base, t, HNDL_ALLTRAPS)
        /\ acts' = Entering("panic", base, cpu)
        /\ halted' = IF t = 2 THEN "double fault" ELSE "panic"
  /\ UNCHANGED <<cpu, xmm, intState, steps, ignored, stray>>

----------------------------------------------------------------------------
(* The ways out.                                                            *)

(* CCALL1 puts the stack back; the flag is as the handlers left it.         *)
InterruptDone ==
  /\ running.at = "code" /\ running.runs = "interrupt"
  /\ cpu' = [Returned EXCEPT !.rsp = Returned.r12, !.rip = 1]
  /\ acts' = Goto("pop")
  /\ UNCHANGED <<xmm, stack, intState, steps, ignored, stray, halted>>

(* MUTANT: the handler's own state is left in CPU_INT_STATE.                *)
LeaveState == intState

SavedState == Word(cpu.rsp)
PopState ==
  /\ running.at = "pop"
  /\ intState' = SavedState
  /\ cpu' = [cpu EXCEPT !.rsp = @ + 1, !.rip = 2]
  /\ acts' = Goto("load")
  /\ UNCHANGED <<xmm, stack, steps, ignored, stray, halted>>

(* kernel_trap() returns; the word for the return address of the simulated  *)
(* call is dropped, although its push is commented out.                     *)
TrapDone ==
  /\ running.at = "code" /\ running.runs = "trap"
  /\ LET sp == Word(running.kept.rsp)
     IN cpu' = [Returned EXCEPT !.rbp = Word(sp), !.rsp = sp + 2, !.r15 = sp + 2,
                                !.rflags = Flags(FALSE), !.rip = 2]
  /\ acts' = Goto("load") /\ ignored' = TRUE
  /\ UNCHANGED <<xmm, stack, intState, steps, stray, halted>>

(* L_64bit_return, up to the load of rsp with the saved r15.                *)
Load ==
  /\ running.at = "load"
  /\ cpu' = [r \in DOMAIN cpu |->
               IF r = "rsp" THEN Word(cpu.r15 + Offset("r15"))
               ELSE IF r = "rip" THEN 3
               ELSE IF r \in SavedRegisters \ {"r15"} THEN Word(cpu.r15 + Offset(r)) ELSE cpu[r]]
  /\ acts' = Goto("window")
  /\ UNCHANGED <<xmm, stack, intState, steps, ignored, stray, halted>>

(* What the add after the xchg leaves on the stack is for iretq.            *)
Popped == Offset("rip")
Swap ==
  /\ running.at = "window"
  /\ cpu' = [cpu EXCEPT !.r15 = cpu.rsp, !.rsp = cpu.r15 + Popped, !.rip = 4]
  /\ acts' = Goto("iret")
  /\ UNCHANGED <<xmm, stack, intState, steps, ignored, stray, halted>>

(* iretq faults on what is no code selector; the way of that fault leads    *)
(* through the empty user's state to a double fault.                        *)
Iret ==
  /\ running.at = "iret"
  /\ LET p == cpu.rsp IN
     IF Word(p + 1) = KERNEL64_CS
     THEN /\ cpu' = [cpu EXCEPT !.rip = Word(p), !.cs = Word(p + 1), !.rflags = Word(p + 2),
                                !.rsp = Word(p + 3), !.ss = Word(p + 4)]
          /\ acts' = SubSeq(acts, 1, Depth - 1)
          /\ UNCHANGED halted
     ELSE halted' = "double fault" /\ UNCHANGED <<cpu, acts>>
  /\ UNCHANGED <<xmm, stack, intState, steps, ignored, stray>>

TrapNext ==
  /\ halted = "no" /\ ~stray
  /\ \/ \E k \in Locals : Compute(k)
     \/ PrintCharacter \/ InterruptDone \/ PopState \/ TrapDone \/ Load \/ Swap \/ Iret
     \/ \E v \in Vectors : Interrupt(v)
     \/ \E t \in Traps : IgnoredTrap(t) \/ FatalTrap(t)

TrapSpec == TrapInit /\ [][TrapNext]_trapVars

----------------------------------------------------------------------------
FrameAt(base) == [r \in SavedRegisters \cup Pushed |-> Word(base + Offset(r))]

(* As long as no interrupt found the processor off its stack, the frame of  *)
(* a context keeps what the context it interrupted had, whatever interrupts *)
(* what and wherever, and what a panic prints is what the code that trapped *)
(* had (idt64.S 476-516, 1066-1215; trap.c 196-491, 588-700).               *)
FramesKept ==
  ~stray =>
    \A l \in 2 .. Depth :
      /\ acts[l].at \notin {"window", "iret"}
      /\ IF halted = "no" THEN TRUE ELSE l = Depth /\ halted = "panic"
      => FrameAt(acts[l].base) = acts[l].saved

(* A context goes on with every general register, its stack and             *)
(* CPU_INT_STATE as they were, unless the trap is one that is ignored.      *)
(* Nothing saves the SSE and x87 registers: they are as they were, or as    *)
(* code left them that ran in between (idt64.S 191-230, 1066-1215; trap.c   *)
(* 55-180).                                                                 *)
ResumedAsInterrupted ==
  [][Len(acts') < Depth /\ ~ignored =>
       /\ cpu' = running.saved /\ intState = running.state
       /\ xmm' = running.xmm \/ xmm' \in running.since + 1 .. steps]_trapVars

=============================================================================
