-------------------------- MODULE KernelHeapProofs --------------------------
(***************************************************************************)
(* Proofs about KernelHeap, for any number of blocks, any sizes and any    *)
(* size of the page tables.                                                *)
(***************************************************************************)
EXTENDS KernelHeap, TLAPS

InCall(c)    == pc[c] # "idle"
Reserving(c) == pc[c] \in {"mapping", "loaded"}
CallPages(c) == call[c].start .. call[c].start + call[c].pages - 1

(* What a context's locals hold at each point of the call.                 *)
CallShape ==
  \A c \in Contexts :
    /\ InCall(c) => /\ call[c].kind \in {"heap", "device"}
                    /\ call[c].pages \in Sizes
                    /\ c = "handler" => call[c].kind = "heap"
    /\ pc[c] = "loaded" => call[c].kind = "heap" /\ call[c].done = call[c].pages
    /\ pc[c] \in {"called", "started"} => call[c].done = 0

BlockShape ==
  \A b \in Blocks : block[b] = NoBlock \/ (/\ block[b].kind \in {"heap", "device"}
                                         /\ block[b].pages > 0)

(* How far virtual_avail may be beyond the page tables: a call that goes   *)
(* on to return has mapped its pages, so it started within them.  A        *)
(* handler's call is never interrupted.                                    *)
Limit ==
  /\ pc["handler"] = "started" => call["handler"].start = virtualAvail
  /\ pc["handler"] = "mapping" =>
       virtualAvail = call["handler"].start + call["handler"].pages
  /\ pc["thread"] = "started" => call["thread"].start <= 2 * KptPages
  /\ pc["handler"] # "mapping" =>
       /\ virtualAvail <= 3 * KptPages
       /\ pc["thread"] # "mapping" \/ call["thread"].start <= KptPages =>
            virtualAvail <= 2 * KptPages
       /\ pc["thread"] = "started" =>
            virtualAvail <= call["thread"].start \/ virtualAvail <= KptPages

(* Without a nested allocation the handler runs only while the thread is   *)
(* not exposed, ...                                                        *)
NotExposed ==
  InCall("handler") =>
    \/ ~InCall("thread")
    \/ /\ call["thread"].kind = "device"
       /\ pc["thread"] \in {"called", "mapping"}

(* ... what a call has read is still what it read, what it has mapped is   *)
(* still mapped, and nobody else holds the range it has reserved, ...      *)
CallTrusted(c) ==
  /\ pc[c] = "started" => call[c].start = virtualAvail
  /\ InCall(c) /\ call[c].kind = "heap" => call[c].phys = firstAvail
  /\ pc[c] = "loaded" => call[c].old = firstAvail
  /\ Reserving(c) =>
       /\ call[c].start + call[c].pages <= virtualAvail
       /\ \A k \in 0 .. call[c].done - 1 :
            /\ call[c].start + k < KptPages
            /\ pte[call[c].start + k] = call[c].phys + k
       /\ \A b \in Held : CallPages(c) \cap VirtPages(block[b]) = {}

CallsApart ==
  Reserving("thread") /\ Reserving("handler") =>
    CallPages("thread") \cap CallPages("handler") = {}

(* ... and every block lies below the two pointers.                        *)
BlocksBelow ==
  /\ FirstAvail <= firstAvail
  /\ \A b \in Held :
       /\ block[b].virt + block[b].pages <= virtualAvail
       /\ block[b].kind = "heap" => /\ FirstAvail <= block[b].phys
                                    /\ block[b].phys + block[b].pages <= firstAvail

Trusted ==
  /\ NotExposed
  /\ \A c \in Contexts : CallTrusted(c)
  /\ CallsApart
  /\ BlocksBelow
  /\ BlocksApart
  /\ MappedContiguously

IInv ==
  /\ TypeOK /\ CallShape /\ BlockShape /\ Limit
  /\ ~nested => Trusted

Labels == {"idle", "called", "started", "mapping", "loaded"}

(* Context c goes from one point of its call to another.                   *)
Moves(c, from, to) ==
  /\ pc' \in [Contexts -> Labels] /\ call' \in [Contexts -> Call]
  /\ pc[c] = from /\ pc'[c] = to
  /\ \A d \in Contexts \ {c} : pc'[d] = pc[d] /\ call'[d] = call[d]
  /\ c = "thread" \/ c = "handler"
  /\ c = "thread" => pc["handler"] = "idle"

(* Its locals are the same, but for one.                                   *)
SameRequest(c) ==
  /\ call'[c].kind = call[c].kind /\ call'[c].pages = call[c].pages
  /\ call'[c].phys = call[c].phys /\ call'[c].done = call[c].done

Basic == TypeOK /\ CallShape /\ BlockShape /\ Limit

----------------------------------------------------------------------------
(* A step of one context leaves the other where it is.                     *)
LEMMA GotoFacts ==
  ASSUME TypeOK, NEW c \in Contexts, NEW label \in Labels, NEW l \in Call,
         Goto(c, label, l)
  PROVE  /\ pc' \in [Contexts -> Labels] /\ call' \in [Contexts -> Call]
         /\ pc'[c] = label /\ call'[c] = l
         /\ \A d \in Contexts \ {c} : pc'[d] = pc[d] /\ call'[d] = call[d]
BY DEF TypeOK, Goto, Labels

(* Whose turn it is.                                                       *)
LEMMA RunsFacts ==
  ASSUME NEW c \in Contexts, NEW label, At(c, label)
  PROVE  /\ pc[c] = label
         /\ c = "thread" \/ c = "handler"
         /\ c = "thread" => pc["handler"] = "idle"
BY DEF At, Runs, Contexts

(* The types of the things the steps compute with.                         *)
LEMMA CallTypes ==
  ASSUME TypeOK, NEW c \in Contexts
  PROVE  /\ call[c] \in Call /\ pc[c] \in Labels
         /\ call[c].pages \in Nat /\ call[c].phys \in Nat /\ call[c].start \in Nat
         /\ call[c].done \in Nat /\ call[c].old \in Nat
         /\ call[c].done <= call[c].pages
         /\ KptPages \in Nat /\ firstAvail \in Nat /\ virtualAvail \in Nat
BY HeapAssumption DEF TypeOK, Call, Labels

LEMMA SizeTypes ==
  ASSUME NEW n \in Sizes
  PROVE  n \in Nat \ {0} /\ n <= KptPages
BY HeapAssumption

(* A step that touches no block and no page table entry.                   *)
LEMMA BlocksKept ==
  ASSUME ~nested, BlocksApart, MappedContiguously, block' = block, pte' = pte
  PROVE  BlocksApart' /\ MappedContiguously'
BY DEF BlocksApart, MappedContiguously, Held, VirtPages, PhysPages

(* ... nor the other context's call: its part of the invariant stays, as   *)
(* long as the pointers it has read do.                                    *)
LEMMA OtherTrusted ==
  ASSUME NEW d \in Contexts, CallTrusted(d), block' = block, pte' = pte,
         pc'[d] = pc[d], call'[d] = call[d],
         pc[d] = "started" => virtualAvail' = virtualAvail,
         virtualAvail \in Nat, virtualAvail' \in Nat,
         virtualAvail <= virtualAvail',
         call[d].start \in Nat, call[d].pages \in Nat,
         InCall(d) /\ call[d].kind = "heap" => firstAvail' = firstAvail,
         pc[d] = "loaded" => firstAvail' = firstAvail
  PROVE  CallTrusted(d)'
<1>1. Held' = Held
  BY DEF Held
<1> QED
  BY <1>1 DEF CallTrusted, InCall, Reserving, CallPages, VirtPages

----------------------------------------------------------------------------
(* Entering a call.                                                        *)
LEMMA EnterBasic ==
  ASSUME Basic, NEW c \in Contexts, NEW kind \in {"heap", "device"},
         NEW n \in Sizes, NEW phys \in Nat, c = "handler" => kind = "heap",
         Enter(c, kind, n, phys)
  PROVE  Basic'
<1> DEFINE l == [NoCall EXCEPT !.kind = kind, !.pages = n, !.phys = phys]
<1>1. /\ l \in Call /\ l.kind = kind /\ l.pages = n /\ l.phys = phys
      /\ l.start = 0 /\ l.done = 0 /\ l.old = 0
  BY SizeTypes DEF NoCall, Call
<1> HIDE DEF l
<1>2. Goto(c, "called", l) /\ At(c, "idle")
  BY DEF Enter, l
<1>3. /\ pc' \in [Contexts -> Labels] /\ call' \in [Contexts -> Call]
      /\ pc'[c] = "called" /\ call'[c] = l
      /\ \A d \in Contexts \ {c} : pc'[d] = pc[d] /\ call'[d] = call[d]
  BY <1>1, <1>2, GotoFacts DEF Basic, Labels
<1>4. /\ firstAvail' = firstAvail /\ virtualAvail' = virtualAvail /\ pte' = pte
      /\ block' = block /\ freed' = freed /\ panicked' = panicked
      /\ nested' \in BOOLEAN
  BY DEF Enter, Basic, TypeOK
<1>5. /\ pc[c] = "idle" /\ (c = "thread" \/ c = "handler")
      /\ c = "thread" => pc["handler"] = "idle"
  BY <1>2, RunsFacts
<1>6. TypeOK'
  BY <1>1, <1>3, <1>4, SizeTypes DEF Basic, TypeOK, Labels
<1>7. CallShape' /\ BlockShape'
  BY <1>1, <1>3, <1>4 DEF Basic, CallShape, BlockShape, InCall
<1>8. Limit'
  BY <1>3, <1>4, <1>5 DEF Basic, Limit, Contexts
<1> QED
  BY <1>6, <1>7, <1>8 DEF Basic

LEMMA EnterTrusted ==
  ASSUME Basic, NEW c \in Contexts, NEW kind \in {"heap", "device"},
         NEW n \in Sizes, NEW phys \in Nat, c = "handler" => kind = "heap",
         kind = "heap" => phys = firstAvail,
         Enter(c, kind, n, phys), ~nested', Trusted
  PROVE  Trusted'
<1> DEFINE l == [NoCall EXCEPT !.kind = kind, !.pages = n, !.phys = phys]
<1>1. /\ l \in Call /\ l.kind = kind /\ l.pages = n /\ l.phys = phys
      /\ l.start = 0 /\ l.done = 0 /\ l.old = 0
  BY SizeTypes DEF NoCall, Call
<1> HIDE DEF l
<1>2. Goto(c, "called", l) /\ At(c, "idle")
  BY DEF Enter, l
<1>3. /\ pc'[c] = "called" /\ call'[c] = l
      /\ \A d \in Contexts \ {c} : pc'[d] = pc[d] /\ call'[d] = call[d]
  BY <1>1, <1>2, GotoFacts DEF Basic, Labels
<1>4. /\ firstAvail' = firstAvail /\ virtualAvail' = virtualAvail /\ pte' = pte
      /\ block' = block
      /\ ~(c = "handler" /\ Exposed)
  BY DEF Enter
<1>5. /\ pc[c] = "idle" /\ (c = "thread" \/ c = "handler")
      /\ c = "thread" => pc["handler"] = "idle"
  BY <1>2, RunsFacts
<1>6. Held' = Held
  BY <1>4 DEF Held
<1>7. NotExposed'
  <2>1. CASE c = "thread"
    BY <1>3, <1>5, <2>1 DEF NotExposed, InCall, Contexts
  <2>2. CASE c = "handler"
    <3>1. pc'["thread"] = pc["thread"] /\ call'["thread"] = call["thread"]
      BY <1>3, <2>2 DEF Contexts
    <3>2. /\ pc["thread"] \in Labels /\ pc["thread"] # "started"
          /\ InCall("thread") => call["thread"].kind = "device"
          /\ pc["thread"] # "loaded"
      BY <1>4, <2>2, CallTypes DEF Exposed, Contexts, Basic, CallShape, InCall
    <3> QED
      BY <3>1, <3>2 DEF NotExposed, InCall, Labels
  <2> QED
    BY <1>5, <2>1, <2>2
<1>8. ASSUME NEW d \in Contexts
      PROVE  CallTrusted(d)'
  <2>1. CASE d = c
    BY <1>1, <1>3, <1>4, <2>1 DEF CallTrusted, InCall, Reserving
  <2>2. CASE d # c
    <3>1. pc'[d] = pc[d] /\ call'[d] = call[d]
      BY <1>3, <2>2
    <3> QED
      BY <1>4, <1>6, <3>1
      DEF Trusted, CallTrusted, InCall, Reserving, CallPages, VirtPages
  <2> QED
    BY <2>1, <2>2
<1>9. CallsApart'
  BY <1>3, <1>5 DEF CallsApart, Reserving, Contexts
<1>10. ~nested
  BY DEF Enter, Basic, TypeOK
<1>11. BlocksBelow'
  BY <1>4, <1>6 DEF Trusted, BlocksBelow
<1>12. BlocksApart' /\ MappedContiguously'
  BY <1>4, <1>6, <1>10, BlocksKept DEF Trusted
<1> QED
  BY <1>7, <1>8, <1>9, <1>11, <1>12 DEF Trusted

----------------------------------------------------------------------------
(* start = virtual_avail                                                   *)
ReadVirtualFacts(c) ==
  /\ Moves(c, "called", "started") /\ SameRequest(c)
  /\ call'[c].start = virtualAvail /\ call'[c].old = call[c].old
  /\ firstAvail' = firstAvail /\ virtualAvail' = virtualAvail
  /\ pte' = pte /\ block' = block /\ freed' = freed
  /\ panicked' = panicked /\ nested' = nested

LEMMA ReadVirtualStep ==
  ASSUME Basic, NEW c \in Contexts, ReadVirtual(c)
  PROVE  ReadVirtualFacts(c)
<1> DEFINE l == [call[c] EXCEPT !.start = virtualAvail]
<1>1. call[c] \in Call /\ virtualAvail \in Nat
  BY CallTypes DEF Basic
<1>2. /\ l \in Call /\ l.start = virtualAvail /\ l.kind = call[c].kind
      /\ l.pages = call[c].pages /\ l.phys = call[c].phys
      /\ l.done = call[c].done /\ l.old = call[c].old
  BY <1>1 DEF Call
<1> HIDE DEF l
<1>3. Goto(c, "started", l) /\ At(c, "called")
  BY DEF ReadVirtual, l
<1>4. /\ pc' \in [Contexts -> Labels] /\ call' \in [Contexts -> Call]
      /\ pc'[c] = "started" /\ call'[c] = l
      /\ \A d \in Contexts \ {c} : pc'[d] = pc[d] /\ call'[d] = call[d]
  BY <1>2, <1>3, GotoFacts DEF Basic, Labels
<1>5. /\ pc[c] = "called" /\ (c = "thread" \/ c = "handler")
      /\ c = "thread" => pc["handler"] = "idle"
  BY <1>3, RunsFacts
<1> QED
  BY <1>2, <1>4, <1>5 DEF ReadVirtual, ReadVirtualFacts, Moves, SameRequest

LEMMA ReadVirtualBasic ==
  ASSUME Basic, NEW c \in Contexts, ReadVirtual(c)
  PROVE  Basic'
<1>1. ReadVirtualFacts(c)
  BY ReadVirtualStep
<1>2. call[c].done = 0
  BY <1>1 DEF Basic, CallShape, ReadVirtualFacts, Moves
<1>3. TypeOK'
  BY <1>1, <1>2, CallTypes
  DEF Basic, TypeOK, Labels, ReadVirtualFacts, Moves, SameRequest
<1>4. CallShape' /\ BlockShape'
  BY <1>1 DEF Basic, CallShape, BlockShape, InCall, ReadVirtualFacts, Moves,
              SameRequest
<1>5. Limit'
  <2>1. virtualAvail \in Nat /\ KptPages \in Nat /\ Limit
    BY CallTypes DEF Basic
  <2>2. CASE c = "thread"
    <3>1. /\ pc["handler"] = "idle" /\ pc'["handler"] = "idle"
          /\ pc["thread"] = "called" /\ pc'["thread"] = "started"
          /\ call'["thread"].start = virtualAvail /\ virtualAvail' = virtualAvail
      BY <1>1, <2>2 DEF ReadVirtualFacts, Moves, Contexts
    <3> QED
      BY <2>1, <3>1 DEF Limit
  <2>3. CASE c = "handler"
    <3>1. /\ pc["handler"] = "called" /\ pc'["handler"] = "started"
          /\ pc'["thread"] = pc["thread"] /\ call'["thread"] = call["thread"]
          /\ call'["handler"].start = virtualAvail /\ virtualAvail' = virtualAvail
      BY <1>1, <2>3 DEF ReadVirtualFacts, Moves, Contexts
    <3> QED
      BY <2>1, <3>1 DEF Limit
  <2> QED
    BY <1>1, <2>2, <2>3 DEF ReadVirtualFacts, Moves
<1> QED
  BY <1>3, <1>4, <1>5 DEF Basic

LEMMA ReadVirtualTrusted ==
  ASSUME Basic, NEW c \in Contexts, ReadVirtual(c), ~nested, Trusted
  PROVE  Trusted'
<1>1. ReadVirtualFacts(c)
  BY ReadVirtualStep
<1>2. NotExposed'
  BY <1>1 DEF Trusted, NotExposed, InCall, Contexts, ReadVirtualFacts, Moves
<1>3. ASSUME NEW d \in Contexts
      PROVE  CallTrusted(d)'
  <2>1. CASE d = c
    BY <1>1, <2>1 DEF Trusted, CallTrusted, InCall, Reserving,
                      ReadVirtualFacts, Moves, SameRequest
  <2>2. CASE d # c
    <3>1. /\ pc'[d] = pc[d] /\ call'[d] = call[d] /\ block' = block /\ pte' = pte
          /\ virtualAvail' = virtualAvail /\ firstAvail' = firstAvail
      BY <1>1, <2>2 DEF ReadVirtualFacts, Moves
    <3>2. CallTrusted(d)
      BY DEF Trusted
    <3>3. virtualAvail \in Nat /\ call[d].start \in Nat /\ call[d].pages \in Nat
      BY CallTypes DEF Basic
    <3> QED
      BY <3>1, <3>2, <3>3, OtherTrusted
  <2> QED
    BY <2>1, <2>2
<1>4. CallsApart'
  BY <1>1 DEF Trusted, CallsApart, CallPages, Reserving, Contexts,
              ReadVirtualFacts, Moves
<1>5. BlocksBelow'
  BY <1>1 DEF Trusted, BlocksBelow, Held, ReadVirtualFacts
<1>6. BlocksApart' /\ MappedContiguously'
  BY <1>1, BlocksKept DEF Trusted, ReadVirtualFacts
<1> QED
  BY <1>2, <1>3, <1>4, <1>5, <1>6 DEF Trusted

----------------------------------------------------------------------------
(* virtual_avail += size                                                   *)
BumpFacts(c) ==
  /\ Moves(c, "started", "mapping") /\ call'[c] = call[c]
  /\ \E v \in {call[c].start, virtualAvail} : virtualAvail' = v + call[c].pages
  /\ firstAvail' = firstAvail
  /\ pte' = pte /\ block' = block /\ freed' = freed
  /\ panicked' = panicked /\ nested' = nested

LEMMA BumpStep ==
  ASSUME Basic, NEW c \in Contexts, BumpVirtual(c)
  PROVE  BumpFacts(c)
<1>1. call[c] \in Call
  BY CallTypes DEF Basic
<1>2. Goto(c, "mapping", call[c]) /\ At(c, "started")
  BY DEF BumpVirtual
<1>3. /\ pc' \in [Contexts -> Labels] /\ call' \in [Contexts -> Call]
      /\ pc'[c] = "mapping" /\ call'[c] = call[c]
      /\ \A d \in Contexts \ {c} : pc'[d] = pc[d] /\ call'[d] = call[d]
  BY <1>1, <1>2, GotoFacts DEF Basic, Labels
<1>4. /\ pc[c] = "started" /\ (c = "thread" \/ c = "handler")
      /\ c = "thread" => pc["handler"] = "idle"
  BY <1>2, RunsFacts
<1> QED
  BY <1>3, <1>4 DEF BumpVirtual, BumpFacts, Moves, Reserved

LEMMA BumpBasic ==
  ASSUME Basic, NEW c \in Contexts, BumpVirtual(c)
  PROVE  Basic'
<1>1. BumpFacts(c)
  BY BumpStep
<1>2. /\ call[c].pages \in 1 .. KptPages /\ call[c].done = 0
      /\ call[c].start \in Nat /\ virtualAvail \in Nat /\ KptPages \in Nat
  <2>1. call[c].pages \in Sizes /\ call[c].done = 0
    BY <1>1 DEF Basic, CallShape, BumpFacts, Moves, InCall
  <2>2. call[c].start \in Nat /\ virtualAvail \in Nat /\ KptPages \in Nat
    BY CallTypes DEF Basic
  <2> QED
    BY <2>1, <2>2, HeapAssumption
<1>3. virtualAvail' \in Nat
  BY <1>1, <1>2 DEF BumpFacts
<1>4. TypeOK'
  BY <1>1, <1>2, <1>3 DEF Basic, TypeOK, Labels, BumpFacts, Moves
<1>5. CallShape' /\ BlockShape'
  BY <1>1 DEF Basic, CallShape, BlockShape, InCall, BumpFacts, Moves
<1>6. Limit'
  <2>1. Limit
    BY DEF Basic
  <2>2. CASE c = "thread"
    <3>1. /\ pc["handler"] = "idle" /\ pc'["handler"] = "idle"
          /\ pc["thread"] = "started" /\ pc'["thread"] = "mapping"
          /\ call'["thread"] = call["thread"]
      BY <1>1, <2>2 DEF BumpFacts, Moves, Contexts
    <3>2. PICK v \in {call["thread"].start, virtualAvail} :
            virtualAvail' = v + call["thread"].pages
      BY <1>1, <2>2 DEF BumpFacts
    <3>3. /\ call["thread"].start <= 2 * KptPages
          /\ v <= call["thread"].start \/ v <= KptPages
      BY <1>2, <2>1, <2>2, <3>1 DEF Limit
    <3>4. /\ virtualAvail' <= 3 * KptPages
          /\ call["thread"].start <= KptPages => virtualAvail' <= 2 * KptPages
      BY <1>2, <2>2, <3>2, <3>3
    <3> QED
      BY <3>1, <3>4 DEF Limit
  <2>3. CASE c = "handler"
    <3>1. /\ pc["handler"] = "started" /\ pc'["handler"] = "mapping"
          /\ pc'["thread"] = pc["thread"] /\ call'["thread"] = call["thread"]
          /\ call'["handler"] = call["handler"]
      BY <1>1, <2>3 DEF BumpFacts, Moves, Contexts
    <3>2. virtualAvail' = call["handler"].start + call["handler"].pages
      BY <1>1, <2>1, <2>3, <3>1 DEF BumpFacts, Limit
    <3> QED
      BY <2>1, <3>1, <3>2 DEF Limit
  <2> QED
    BY <1>1, <2>2, <2>3 DEF BumpFacts, Moves
<1> QED
  BY <1>4, <1>5, <1>6 DEF Basic

LEMMA BumpTrusted ==
  ASSUME Basic, NEW c \in Contexts, BumpVirtual(c), ~nested, Trusted
  PROVE  Trusted'
<1>1. BumpFacts(c)
  BY BumpStep
<1>2. /\ pc[c] = "started" /\ pc'[c] = "mapping" /\ call'[c] = call[c]
      /\ \A d \in Contexts \ {c} : pc'[d] = pc[d] /\ call'[d] = call[d]
      /\ c = "thread" \/ c = "handler"
      /\ c = "thread" => pc["handler"] = "idle"
      /\ firstAvail' = firstAvail /\ pte' = pte /\ block' = block
  BY <1>1 DEF BumpFacts, Moves
<1>3. /\ call[c].pages \in Nat /\ call[c].start \in Nat /\ virtualAvail \in Nat
      /\ call[c].done = 0
  BY <1>2, CallTypes DEF Basic, CallShape
<1>4. /\ call[c].start = virtualAvail
      /\ virtualAvail' = virtualAvail + call[c].pages
  BY <1>1, <1>2 DEF BumpFacts, Trusted, CallTrusted
<1>5. virtualAvail' \in Nat /\ virtualAvail <= virtualAvail'
  BY <1>3, <1>4
<1>6. Held' = Held
  BY <1>2 DEF Held
<1>7. NotExposed'
  <2>1. CASE c = "thread"
    BY <1>2, <2>1 DEF NotExposed, InCall, Contexts
  <2>2. CASE c = "handler"
    BY <1>2, <2>2 DEF Trusted, NotExposed, InCall, Contexts
  <2> QED
    BY <1>2, <2>1, <2>2
<1>8. ASSUME NEW d \in Contexts
      PROVE  CallTrusted(d)'
  <2>1. CASE d = c
    <3>1. ASSUME NEW b \in Held
          PROVE  CallPages(c)' \cap VirtPages(block[b])' = {}
      <4>1. block[b].virt + block[b].pages <= virtualAvail
        BY DEF Trusted, BlocksBelow
      <4>2. block[b].virt \in Nat /\ block[b].pages \in Nat
        BY DEF Basic, TypeOK, Held, Block
      <4> QED
        BY <1>2, <1>3, <1>4, <4>1, <4>2 DEF CallPages, VirtPages
    <3>2. call[c].kind = "heap" => call[c].phys = firstAvail
      BY <1>2 DEF Trusted, CallTrusted, InCall
    <3> QED
      BY <1>2, <1>3, <1>4, <1>6, <2>1, <3>1, <3>2
      DEF CallTrusted, InCall, Reserving
  <2>2. CASE d # c
    <3>1. /\ pc'[d] = pc[d] /\ call'[d] = call[d]
      BY <1>2, <2>2
    <3>2. CallTrusted(d)
      BY DEF Trusted
    <3>3. call[d].start \in Nat /\ call[d].pages \in Nat
      BY CallTypes DEF Basic
    <3>4. pc[d] # "started"
      BY <1>2, <2>2 DEF Trusted, NotExposed, InCall, Contexts
    <3> QED
      BY <1>2, <1>3, <1>5, <3>1, <3>2, <3>3, <3>4, OtherTrusted
  <2> QED
    BY <2>1, <2>2
<1>9. CallsApart'
  <2>1. CASE c = "thread"
    BY <1>2, <2>1 DEF CallsApart, Reserving, Contexts
  <2>2. CASE c = "handler"
    <3>1. pc'["thread"] = pc["thread"] /\ call'["thread"] = call["thread"]
      BY <1>2, <2>2 DEF Contexts
    <3>2. Reserving("thread") =>
            call["thread"].start + call["thread"].pages <= virtualAvail
      BY DEF Trusted, CallTrusted, Contexts
    <3>3. call["thread"].start \in Nat /\ call["thread"].pages \in Nat
      BY CallTypes DEF Basic, Contexts
    <3> QED
      BY <1>2, <1>3, <1>4, <2>2, <3>1, <3>2, <3>3
      DEF CallsApart, Reserving, CallPages
  <2> QED
    BY <1>2, <2>1, <2>2
<1>10. BlocksBelow'
  <2>1. ASSUME NEW b \in Held
        PROVE  block[b].virt + block[b].pages <= virtualAvail'
    <3>1. block[b].virt + block[b].pages <= virtualAvail
      BY DEF Trusted, BlocksBelow
    <3>2. block[b].virt \in Nat /\ block[b].pages \in Nat
      BY DEF Basic, TypeOK, Held, Block
    <3> QED
      BY <1>3, <1>5, <3>1, <3>2
  <2> QED
    BY <1>2, <1>6, <2>1 DEF Trusted, BlocksBelow
<1>11. BlocksApart' /\ MappedContiguously'
  BY <1>2, BlocksKept DEF Trusted
<1> QED
  BY <1>7, <1>8, <1>9, <1>10, <1>11 DEF Trusted

----------------------------------------------------------------------------
(* Steps that change nothing, or only panic.                               *)
LEMMA NothingElse ==
  ASSUME Basic, panicked' \in BOOLEAN,
         UNCHANGED <<firstAvail, virtualAvail, pte, block, pc, call, freed, nested>>
  PROVE  Basic' /\ (Trusted => Trusted')
<1>1. TypeOK'
  BY DEF Basic, TypeOK
<1>2. CallShape' /\ BlockShape' /\ Limit'
  BY DEF Basic, CallShape, BlockShape, Limit, InCall
<1>3. ASSUME Trusted
      PROVE  Trusted'
  <2>1. NotExposed' /\ CallsApart'
    BY <1>3 DEF Trusted, NotExposed, CallsApart, InCall, Reserving, CallPages
  <2>2. \A c \in Contexts : CallTrusted(c)'
    BY <1>3 DEF Trusted, CallTrusted, InCall, Reserving, CallPages, Held, VirtPages
  <2>3. BlocksBelow'
    BY <1>3 DEF Trusted, BlocksBelow, Held
  <2>4. BlocksApart' /\ MappedContiguously'
    BY <1>3 DEF Trusted, BlocksApart, MappedContiguously, Held, VirtPages, PhysPages
  <2> QED
    BY <2>1, <2>2, <2>3, <2>4 DEF Trusted
<1> QED
  BY <1>1, <1>2, <1>3 DEF Basic

(* One page is mapped.                                                     *)
MapFacts(c) ==
  /\ pc[c] = "mapping" /\ (c = "thread" \/ c = "handler")
  /\ c = "thread" => pc["handler"] = "idle"
  /\ call[c].done < call[c].pages
  /\ call[c].start + call[c].done < KptPages
  /\ pte' = [pte EXCEPT ![call[c].start + call[c].done] =
               call[c].phys + call[c].done]
  /\ call' \in [Contexts -> Call]
  /\ call'[c].start = call[c].start /\ call'[c].old = call[c].old
  /\ call'[c].kind = call[c].kind /\ call'[c].pages = call[c].pages
  /\ call'[c].phys = call[c].phys /\ call'[c].done = call[c].done + 1
  /\ \A d \in Contexts \ {c} : call'[d] = call[d]
  /\ UNCHANGED <<firstAvail, virtualAvail, block, pc, freed, nested, panicked>>

LEMMA MapStep ==
  ASSUME Basic, NEW c \in Contexts, MapPage(c)
  PROVE  \/ MapFacts(c)
         \/ /\ panicked' = TRUE
            /\ UNCHANGED <<firstAvail, virtualAvail, pte, block, pc, call, freed,
                           nested>>
<1>1. /\ pc[c] = "mapping" /\ (c = "thread" \/ c = "handler")
      /\ c = "thread" => pc["handler"] = "idle"
  <2>1. At(c, "mapping")
    BY DEF MapPage
  <2> QED
    BY <2>1, RunsFacts
<1>2. /\ call[c] \in Call /\ call[c].done \in Nat /\ call \in [Contexts -> Call]
  BY CallTypes DEF Basic, TypeOK
<1>3. CASE Mappable(call[c].start + call[c].done)
  <2> DEFINE l == [call[c] EXCEPT !.done = @ + 1]
  <2>1. /\ l \in Call /\ l.start = call[c].start /\ l.old = call[c].old
        /\ l.kind = call[c].kind /\ l.pages = call[c].pages
        /\ l.phys = call[c].phys /\ l.done = call[c].done + 1
    BY <1>2 DEF Call
  <2>2. call' = [call EXCEPT ![c] = l]
    BY <1>3 DEF MapPage
  <2> HIDE DEF l
  <2>3. /\ call' \in [Contexts -> Call] /\ call'[c] = l
        /\ \A d \in Contexts \ {c} : call'[d] = call[d]
    BY <1>2, <2>1, <2>2
  <2> QED
    BY <1>1, <1>3, <2>1, <2>3 DEF MapPage, MapFacts, Mappable, Target
<1>4. CASE ~Mappable(call[c].start + call[c].done)
  BY <1>4 DEF MapPage
<1> QED
  BY <1>3, <1>4

LEMMA MapBasic ==
  ASSUME Basic, NEW c \in Contexts, MapFacts(c)
  PROVE  Basic'
<1>1. /\ call[c].pages \in Nat /\ call[c].start \in Nat /\ call[c].done \in Nat
      /\ call[c].phys \in Nat /\ KptPages \in Nat /\ virtualAvail \in Nat
  BY CallTypes DEF Basic
<1>2. TypeOK'
  <2>1. pte' \in [0 .. KptPages - 1 -> Nat \cup {NoPte}]
    BY <1>1 DEF Basic, TypeOK, MapFacts
  <2>2. ASSUME NEW d \in Contexts
        PROVE  /\ call'[d].done <= call'[d].pages
               /\ pc[d] \in {"mapping", "loaded"} /\ call'[d].done > 0
                    => call'[d].start + call'[d].done <= KptPages
    <3>1. CASE d = c
      BY <1>1, <3>1 DEF MapFacts
    <3>2. CASE d # c
      BY <3>2 DEF MapFacts, Basic, TypeOK
    <3> QED
      BY <3>1, <3>2
  <2> QED
    BY <2>1, <2>2 DEF Basic, TypeOK, MapFacts
<1>3. CallShape' /\ BlockShape'
  BY DEF Basic, CallShape, BlockShape, InCall, MapFacts
<1>4. Limit'
  BY DEF Basic, Limit, MapFacts, Contexts
<1> QED
  BY <1>2, <1>3, <1>4 DEF Basic

LEMMA MapTrusted ==
  ASSUME Basic, NEW c \in Contexts, MapFacts(c), ~nested, Trusted
  PROVE  Trusted'
<1> DEFINE v == call[c].start + call[c].done
<1>1. /\ call[c].pages \in Nat /\ call[c].start \in Nat /\ call[c].done \in Nat
      /\ call[c].phys \in Nat /\ KptPages \in Nat /\ virtualAvail \in Nat
  BY CallTypes DEF Basic
<1>2. /\ v \in CallPages(c) /\ v \in 0 .. KptPages - 1
      /\ pte' = [pte EXCEPT ![v] = call[c].phys + call[c].done]
      /\ pc[c] = "mapping"
      /\ c = "thread" \/ c = "handler"
      /\ c = "thread" => pc["handler"] = "idle"
      /\ block' = block /\ pc' = pc /\ firstAvail' = firstAvail
      /\ virtualAvail' = virtualAvail /\ nested' = nested
  BY <1>1 DEF CallPages, MapFacts
<1>3. /\ pte'[v] = call[c].phys + call[c].done
      /\ \A w \in 0 .. KptPages - 1 : w # v => pte'[w] = pte[w]
  BY <1>2 DEF Basic, TypeOK
<1>4. Held' = Held
  BY <1>2 DEF Held
<1>5. NotExposed'
  BY DEF Trusted, NotExposed, InCall, MapFacts, Contexts
<1>6. ASSUME NEW d \in Contexts
      PROVE  CallPages(d)' = CallPages(d)
  BY DEF CallPages, MapFacts
<1>7. CallsApart'
  BY <1>2, <1>6 DEF Trusted, CallsApart, Reserving, Contexts
<1>8. ASSUME NEW d \in Contexts
      PROVE  CallTrusted(d)'
  <2>1. CASE d = c
    <3>1. ASSUME NEW k \in 0 .. call'[c].done - 1
          PROVE  /\ call[c].start + k < KptPages
                 /\ pte'[call[c].start + k] = call[c].phys + k
      <4>1. CASE k = call[c].done
        BY <1>1, <1>2, <1>3, <4>1
      <4>2. CASE k # call[c].done
        <5>1. k \in 0 .. call[c].done - 1
          BY <1>1, <4>2 DEF MapFacts
        <5>2. /\ call[c].start + k < KptPages
              /\ pte[call[c].start + k] = call[c].phys + k
          BY <1>2, <5>1 DEF Trusted, CallTrusted, Reserving
        <5>3. call[c].start + k \in 0 .. KptPages - 1 /\ call[c].start + k # v
          BY <1>1, <4>2, <5>1, <5>2
        <5> QED
          BY <1>3, <5>2, <5>3
      <4> QED
        BY <4>1, <4>2
    <3>2. \A b \in Held : CallPages(c) \cap VirtPages(block[b]) = {}
      BY <1>2 DEF Trusted, CallTrusted, Reserving
    <3>3. CallTrusted(c) /\ CallPages(c)' = CallPages(c)
      BY <1>6 DEF Trusted
    <3> QED
      BY <1>2, <1>4, <2>1, <3>1, <3>2, <3>3
      DEF CallTrusted, InCall, Reserving, VirtPages, MapFacts
  <2>2. CASE d # c
    <3>1. call'[d] = call[d] /\ CallTrusted(d) /\ CallPages(d)' = CallPages(d)
      BY <1>6, <2>2 DEF Trusted, MapFacts
    <3>2. ASSUME Reserving(d), NEW k \in 0 .. call[d].done - 1
          PROVE  pte'[call[d].start + k] = call[d].phys + k
      <4>1. v \notin CallPages(d)
        BY <1>2, <2>2, <3>2 DEF Trusted, CallsApart, Contexts, Reserving
      <4>2. /\ call[d].start \in Nat /\ call[d].done \in Nat
            /\ call[d].pages \in Nat /\ call[d].done <= call[d].pages
        BY CallTypes DEF Basic
      <4>3. /\ call[d].start + k \in CallPages(d)
            /\ call[d].start + k \in Nat
        BY <4>2 DEF CallPages
      <4>4. /\ call[d].start + k < KptPages
            /\ pte[call[d].start + k] = call[d].phys + k
        BY <3>1, <3>2 DEF CallTrusted
      <4> QED
        BY <1>1, <1>3, <4>1, <4>3, <4>4
    <3> QED
      BY <1>2, <1>4, <3>1, <3>2
      DEF CallTrusted, InCall, Reserving, VirtPages
  <2> QED
    BY <2>1, <2>2
<1>9. BlocksBelow' /\ BlocksApart'
  BY <1>2, <1>4 DEF Trusted, BlocksBelow, BlocksApart, VirtPages, PhysPages
<1>10. MappedContiguously'
  <2>1. ASSUME NEW b \in Held, NEW k \in 0 .. block[b].pages - 1
        PROVE  /\ block[b].virt + k < KptPages
               /\ pte'[block[b].virt + k] = block[b].phys + k
    <3>1. /\ block[b].virt + k < KptPages
          /\ pte[block[b].virt + k] = block[b].phys + k
      BY DEF Trusted, MappedContiguously
    <3>2. block[b].virt \in Nat /\ block[b].pages \in Nat
      BY DEF Basic, TypeOK, Held, Block
    <3>3. block[b].virt + k \in VirtPages(block[b])
          /\ block[b].virt + k \in 0 .. KptPages - 1
      BY <1>1, <3>1, <3>2 DEF VirtPages
    <3>4. v \notin VirtPages(block[b])
      BY <1>2 DEF Trusted, CallTrusted, Reserving
    <3> QED
      BY <1>3, <3>1, <3>3, <3>4
  <2> QED
    BY <1>2, <1>4, <2>1 DEF MappedContiguously
<1> QED
  BY <1>5, <1>7, <1>8, <1>9, <1>10 DEF Trusted

----------------------------------------------------------------------------
(* A call whose pages are all mapped has mapped them within the tables.    *)
LEMMA MappedInTables ==
  ASSUME Basic, NEW c \in Contexts, pc[c] \in {"mapping", "loaded"},
         call[c].done = call[c].pages
  PROVE  /\ call[c].start + call[c].pages <= KptPages
         /\ call[c].start <= KptPages /\ call[c].pages > 0
<1>1. call[c].pages \in Sizes
  BY DEF Basic, CallShape, InCall
<1>2. call[c].pages \in Nat /\ call[c].pages > 0 /\ call[c].start \in Nat
      /\ KptPages \in Nat
  BY <1>1, SizeTypes, CallTypes DEF Basic
<1> QED
  BY <1>2 DEF Basic, TypeOK

(* first_avail is loaded.                                                  *)
LoadFacts(c) ==
  /\ Moves(c, "mapping", "loaded") /\ SameRequest(c)
  /\ call'[c].start = call[c].start /\ call'[c].old = firstAvail
  /\ call[c].done = call[c].pages /\ call[c].kind = "heap"
  /\ UNCHANGED <<firstAvail, virtualAvail, pte, block, freed, nested, panicked>>

LEMMA LoadStep ==
  ASSUME Basic, NEW c \in Contexts, LoadFirst(c)
  PROVE  LoadFacts(c)
<1> DEFINE l == [call[c] EXCEPT !.old = firstAvail]
<1>1. call[c] \in Call /\ firstAvail \in Nat
  BY CallTypes DEF Basic
<1>2. /\ l \in Call /\ l.start = call[c].start /\ l.kind = call[c].kind
      /\ l.pages = call[c].pages /\ l.phys = call[c].phys
      /\ l.done = call[c].done /\ l.old = firstAvail
  BY <1>1 DEF Call
<1> HIDE DEF l
<1>3. Goto(c, "loaded", l) /\ At(c, "mapping")
  BY DEF LoadFirst, Mapped, l
<1>4. /\ pc' \in [Contexts -> Labels] /\ call' \in [Contexts -> Call]
      /\ pc'[c] = "loaded" /\ call'[c] = l
      /\ \A d \in Contexts \ {c} : pc'[d] = pc[d] /\ call'[d] = call[d]
  BY <1>2, <1>3, GotoFacts DEF Basic, Labels
<1>5. /\ pc[c] = "mapping" /\ (c = "thread" \/ c = "handler")
      /\ c = "thread" => pc["handler"] = "idle"
  BY <1>3, RunsFacts
<1> QED
  BY <1>2, <1>4, <1>5 DEF LoadFirst, Mapped, LoadFacts, Moves, SameRequest

(* virtual_avail once a call of c is over.                                 *)
LEMMA LimitAfter ==
  ASSUME Basic, NEW c \in Contexts, pc[c] \in {"mapping", "loaded"},
         call[c].done = call[c].pages,
         c = "thread" \/ c = "handler", c = "thread" => pc["handler"] = "idle",
         virtualAvail' = virtualAvail,
         pc'[c] \in {"idle", "loaded"},
         \A d \in Contexts \ {c} : pc'[d] = pc[d] /\ call'[d] = call[d]
  PROVE  Limit'
<1>1. /\ call[c].start + call[c].pages <= KptPages /\ call[c].start <= KptPages
      /\ virtualAvail \in Nat /\ KptPages \in Nat
      /\ call[c].start \in Nat /\ call[c].pages \in Nat /\ Limit
  BY MappedInTables, CallTypes DEF Basic
<1>2. CASE c = "thread"
  <2>1. /\ pc["handler"] = "idle" /\ pc'["handler"] = "idle"
        /\ pc'["thread"] \in {"idle", "loaded"}
    BY <1>2 DEF Contexts
  <2>2. virtualAvail <= 2 * KptPages
    BY <1>1, <1>2, <2>1 DEF Limit
  <2> QED
    BY <1>1, <2>1, <2>2 DEF Limit
<1>3. CASE c = "handler"
  <2>1. /\ pc'["handler"] \in {"idle", "loaded"} /\ pc'["thread"] = pc["thread"]
        /\ call'["thread"] = call["thread"]
    BY <1>3 DEF Contexts
  <2>2. CASE pc["handler"] = "mapping"
    <3>1. virtualAvail <= KptPages
      BY <1>1, <1>3, <2>2 DEF Limit
    <3> QED
      BY <1>1, <2>1, <2>2, <3>1 DEF Limit
  <2>3. CASE pc["handler"] = "loaded"
    BY <1>1, <2>1, <2>3 DEF Limit
  <2> QED
    BY <1>3, <2>2, <2>3
<1> QED
  BY <1>2, <1>3

LEMMA LoadBasic ==
  ASSUME Basic, NEW c \in Contexts, LoadFirst(c)
  PROVE  Basic'
<1>1. LoadFacts(c)
  BY LoadStep
<1>2. TypeOK'
  BY <1>1 DEF Basic, TypeOK, LoadFacts, Moves, SameRequest, Labels
<1>3. CallShape' /\ BlockShape'
  BY <1>1 DEF Basic, CallShape, BlockShape, InCall, LoadFacts, Moves, SameRequest
<1>4. Limit'
  BY <1>1, LimitAfter DEF LoadFacts, Moves
<1> QED
  BY <1>2, <1>3, <1>4 DEF Basic

LEMMA LoadTrusted ==
  ASSUME Basic, NEW c \in Contexts, LoadFirst(c), ~nested, Trusted
  PROVE  Trusted'
<1>1. LoadFacts(c)
  BY LoadStep
<1>2. /\ pc[c] = "mapping" /\ pc'[c] = "loaded"
      /\ \A d \in Contexts \ {c} : pc'[d] = pc[d] /\ call'[d] = call[d]
      /\ c = "thread" \/ c = "handler"
      /\ c = "thread" => pc["handler"] = "idle"
      /\ firstAvail' = firstAvail /\ pte' = pte /\ block' = block
      /\ virtualAvail' = virtualAvail
  BY <1>1 DEF LoadFacts, Moves
<1>3. Held' = Held
  BY <1>2 DEF Held
<1>4. NotExposed'
  <2>1. CASE c = "thread"
    BY <1>2, <2>1 DEF NotExposed, InCall, Contexts
  <2>2. CASE c = "handler"
    BY <1>2, <2>2 DEF Trusted, NotExposed, InCall, Contexts
  <2> QED
    BY <1>2, <2>1, <2>2
<1>5. ASSUME NEW d \in Contexts
      PROVE  CallPages(d)' = CallPages(d)
  BY <1>1 DEF CallPages, LoadFacts, Moves, SameRequest
<1>6. ASSUME NEW d \in Contexts
      PROVE  CallTrusted(d)'
  <2>1. CASE d = c
    <3>1. CallTrusted(c)
      BY DEF Trusted
    <3> QED
      BY <1>1, <1>2, <1>3, <1>5, <2>1, <3>1
      DEF CallTrusted, InCall, Reserving, VirtPages, LoadFacts, SameRequest
  <2>2. CASE d # c
    <3>1. pc'[d] = pc[d] /\ call'[d] = call[d] /\ CallTrusted(d)
      BY <1>2, <2>2 DEF Trusted
    <3>2. /\ call[d].start \in Nat /\ call[d].pages \in Nat
          /\ virtualAvail \in Nat
      BY CallTypes DEF Basic
    <3> QED
      BY <1>2, <3>1, <3>2, OtherTrusted
  <2> QED
    BY <2>1, <2>2
<1>7. CallsApart'
  BY <1>2, <1>5 DEF Trusted, CallsApart, Reserving, Contexts
<1>8. BlocksBelow'
  BY <1>2, <1>3 DEF Trusted, BlocksBelow
<1>9. BlocksApart' /\ MappedContiguously'
  BY <1>2, BlocksKept DEF Trusted
<1> QED
  BY <1>4, <1>6, <1>7, <1>8, <1>9 DEF Trusted

----------------------------------------------------------------------------
(* A call returns its block.                                               *)
ReturnFacts(c, b) ==
  /\ pc[c] \in {"mapping", "loaded"} /\ Moves(c, pc[c], "idle")
  /\ call'[c] = NoCall
  /\ call[c].done = call[c].pages
  /\ block[b] = NoBlock
  /\ block' \in [Blocks -> Block]
  /\ block'[b].kind = call[c].kind /\ block'[b].virt = call[c].start
  /\ block'[b].phys = call[c].phys /\ block'[b].pages = call[c].pages
  /\ \A d \in Blocks \ {b} : block'[d] = block[d]
  /\ \/ call[c].kind = "device" /\ firstAvail' = firstAvail
     \/ /\ call[c].kind = "heap" /\ pc[c] = "loaded"
        /\ firstAvail' = call[c].old + call[c].pages
  /\ UNCHANGED <<virtualAvail, pte, freed, nested, panicked>>

LEMMA ReturnStep ==
  ASSUME Basic, NEW c \in Contexts, NEW b \in Blocks,
         ReturnMapping(c, b) \/ ReturnBlock(c, b)
  PROVE  ReturnFacts(c, b)
<1> DEFINE new == [kind  |-> call[c].kind, virt  |-> call[c].start,
                   phys  |-> call[c].phys, pages |-> call[c].pages]
<1>1. call[c] \in Call
  BY CallTypes DEF Basic
<1>2. /\ new \in Block /\ new.kind = call[c].kind /\ new.virt = call[c].start
      /\ new.phys = call[c].phys /\ new.pages = call[c].pages
  BY <1>1 DEF Call, Block
<1>3. Return(c, b)
  BY DEF ReturnMapping, ReturnBlock
<1>4. Goto(c, "idle", NoCall) /\ block[b] = NoBlock
      /\ block' = [block EXCEPT ![b] = new]
      /\ UNCHANGED <<virtualAvail, pte, freed, nested, panicked>>
  BY <1>3 DEF Return
<1> HIDE DEF new
<1>5. /\ block' \in [Blocks -> Block] /\ block'[b] = new
      /\ \A d \in Blocks \ {b} : block'[d] = block[d]
  BY <1>2, <1>4 DEF Basic, TypeOK
<1>6. NoCall \in Call
  BY DEF NoCall, Call
<1>7. /\ pc' \in [Contexts -> Labels] /\ call' \in [Contexts -> Call]
      /\ pc'[c] = "idle" /\ call'[c] = NoCall
      /\ \A d \in Contexts \ {c} : pc'[d] = pc[d] /\ call'[d] = call[d]
  BY <1>4, <1>6, GotoFacts DEF Basic, Labels
<1>8. CASE ReturnMapping(c, b)
  <2>1. At(c, "mapping") /\ call[c].done = call[c].pages
        /\ call[c].kind = "device" /\ firstAvail' = firstAvail
    BY <1>8 DEF ReturnMapping, Mapped
  <2>2. /\ pc[c] = "mapping" /\ (c = "thread" \/ c = "handler")
        /\ c = "thread" => pc["handler"] = "idle"
    BY <2>1, RunsFacts
  <2> QED
    BY <1>2, <1>4, <1>5, <1>7, <2>1, <2>2 DEF ReturnFacts, Moves
<1>9. CASE ReturnBlock(c, b)
  <2>1. At(c, "loaded") /\ firstAvail' = call[c].old + call[c].pages
    BY <1>9 DEF ReturnBlock, Advanced
  <2>2. /\ pc[c] = "loaded" /\ (c = "thread" \/ c = "handler")
        /\ c = "thread" => pc["handler"] = "idle"
    BY <2>1, RunsFacts
  <2>3. call[c].kind = "heap" /\ call[c].done = call[c].pages
    BY <2>2 DEF Basic, CallShape
  <2> QED
    BY <1>2, <1>4, <1>5, <1>7, <2>1, <2>2, <2>3 DEF ReturnFacts, Moves
<1> QED
  BY <1>8, <1>9

LEMMA ReturnBasic ==
  ASSUME Basic, NEW c \in Contexts, NEW b \in Blocks, ReturnFacts(c, b)
  PROVE  Basic'
<1>1. /\ call[c].done = call[c].pages /\ pc[c] \in {"mapping", "loaded"}
      /\ c = "thread" \/ c = "handler"
      /\ c = "thread" => pc["handler"] = "idle"
      /\ pc' \in [Contexts -> Labels] /\ call' \in [Contexts -> Call]
      /\ pc'[c] = "idle" /\ call'[c] = NoCall
      /\ \A d \in Contexts \ {c} : pc'[d] = pc[d] /\ call'[d] = call[d]
      /\ virtualAvail' = virtualAvail
  BY DEF ReturnFacts, Moves
<1>2. /\ call[c].pages \in Nat /\ call[c].old \in Nat /\ firstAvail \in Nat
  BY CallTypes DEF Basic
<1>3. firstAvail' \in Nat
  BY <1>2 DEF ReturnFacts
<1>4. TypeOK'
  <2>1. ASSUME NEW d \in Contexts
        PROVE  /\ call'[d].done <= call'[d].pages
               /\ pc'[d] \in {"mapping", "loaded"} /\ call'[d].done > 0
                    => call'[d].start + call'[d].done <= KptPages
    <3>1. CASE d = c
      BY <1>1, <3>1 DEF NoCall
    <3>2. CASE d # c
      BY <1>1, <3>2 DEF Basic, TypeOK
    <3> QED
      BY <3>1, <3>2
  <2> QED
    BY <1>1, <1>3, <2>1 DEF Basic, TypeOK, ReturnFacts, Labels
<1>5. call[c].pages > 0 /\ call[c].kind \in {"heap", "device"}
  BY <1>1, MappedInTables DEF Basic, CallShape, InCall
<1>6. CallShape'
  BY <1>1 DEF Basic, CallShape, InCall
<1>7. BlockShape'
  BY <1>5 DEF Basic, BlockShape, ReturnFacts
<1>8. Limit'
  BY <1>1, LimitAfter
<1> QED
  BY <1>4, <1>6, <1>7, <1>8 DEF Basic

LEMMA ReturnTrusted ==
  ASSUME Basic, NEW c \in Contexts, NEW b \in Blocks, ReturnFacts(c, b),
         ~nested, Trusted
  PROVE  Trusted'
<1>1. /\ call[c].done = call[c].pages /\ pc[c] \in {"mapping", "loaded"}
      /\ c = "thread" \/ c = "handler"
      /\ c = "thread" => pc["handler"] = "idle"
      /\ pc'[c] = "idle"
      /\ \A d \in Contexts \ {c} : pc'[d] = pc[d] /\ call'[d] = call[d]
      /\ virtualAvail' = virtualAvail /\ pte' = pte /\ nested' = nested
      /\ \A d \in Blocks \ {b} : block'[d] = block[d]
      /\ block[b] = NoBlock
      /\ block'[b].kind = call[c].kind /\ block'[b].virt = call[c].start
      /\ block'[b].phys = call[c].phys /\ block'[b].pages = call[c].pages
  BY DEF ReturnFacts, Moves
<1>2. /\ call[c].pages \in Nat /\ call[c].start \in Nat /\ call[c].phys \in Nat
      /\ firstAvail \in Nat /\ virtualAvail \in Nat
      /\ call[c].pages > 0
  BY <1>1, CallTypes, MappedInTables DEF Basic
<1>3. /\ b \notin Held /\ Held' = Held \cup {b}
      /\ \A d \in Held : block'[d] = block[d]
  BY <1>1, <1>2 DEF Held, NoBlock
<1>4. /\ call[c].start + call[c].pages <= virtualAvail
      /\ \A k \in 0 .. call[c].pages - 1 :
           /\ call[c].start + k < KptPages
           /\ pte[call[c].start + k] = call[c].phys + k
      /\ \A d \in Held : CallPages(c) \cap VirtPages(block[d]) = {}
      /\ call[c].kind = "heap" => call[c].phys = firstAvail
      /\ pc[c] = "loaded" => call[c].old = firstAvail
  <2>1. CallTrusted(c)
    BY DEF Trusted
  <2> QED
    BY <1>1, <2>1 DEF CallTrusted, InCall, Reserving
<1>5. \/ call[c].kind = "device" /\ firstAvail' = firstAvail
      \/ /\ call[c].kind = "heap" /\ call[c].phys = firstAvail
         /\ firstAvail' = firstAvail + call[c].pages
  BY <1>4 DEF ReturnFacts
<1>6. VirtPages(block'[b]) = CallPages(c)
  BY <1>1 DEF VirtPages, CallPages
<1>7. NotExposed'
  BY <1>1 DEF Trusted, NotExposed, InCall, Contexts
<1>8. ASSUME NEW d \in Contexts
      PROVE  CallTrusted(d)'
  <2>1. CASE d = c
    BY <1>1, <2>1 DEF CallTrusted, InCall, Reserving
  <2>2. CASE d # c
    <3>1. pc'[d] = pc[d] /\ call'[d] = call[d] /\ CallTrusted(d)
      BY <1>1, <2>2 DEF Trusted
    <3>2. Reserving(d) => CallPages(d) \cap CallPages(c) = {}
      BY <1>1, <2>2 DEF Trusted, CallsApart, Reserving, Contexts
    <3>3. pc[d] # "idle" => c = "handler" /\ d = "thread"
      BY <1>1, <2>2 DEF Contexts
    <3>4. pc[d] # "idle" => call[d].kind = "device"
      BY <1>1, <3>3 DEF Trusted, NotExposed, InCall
    <3>5. pc[d] # "loaded"
      BY <3>4 DEF Basic, CallShape
    <3>6. Reserving(d) =>
            \A e \in Held' : CallPages(d) \cap VirtPages(block'[e]) = {}
      BY <1>3, <1>6, <3>1, <3>2 DEF CallTrusted
    <3>7. CallPages(d)' = CallPages(d)
      BY <3>1 DEF CallPages
    <3> QED
      BY <1>1, <3>1, <3>4, <3>5, <3>6, <3>7
      DEF CallTrusted, InCall, Reserving, VirtPages
  <2> QED
    BY <2>1, <2>2
<1>9. CallsApart'
  BY <1>1 DEF CallsApart, Reserving, Contexts
<1>10. firstAvail <= firstAvail'
  BY <1>2, <1>5
<1>11. BlocksBelow'
  <2>1. ASSUME NEW d \in Held
        PROVE  /\ block[d].virt + block[d].pages <= virtualAvail
               /\ block[d].kind = "heap" => /\ FirstAvail <= block[d].phys
                                            /\ block[d].phys + block[d].pages <= firstAvail'
    <3>1. block[d].phys \in Nat /\ block[d].pages \in Nat
      BY DEF Basic, TypeOK, Held, Block
    <3>2. firstAvail' \in Nat
      BY <1>2, <1>5
    <3>3. /\ block[d].virt + block[d].pages <= virtualAvail
          /\ block[d].kind = "heap" => /\ FirstAvail <= block[d].phys
                                       /\ block[d].phys + block[d].pages <= firstAvail
      BY DEF Trusted, BlocksBelow
    <3> QED
      BY <1>2, <1>10, <3>1, <3>2, <3>3
  <2>2. /\ block'[b].virt + block'[b].pages <= virtualAvail
        /\ block'[b].kind = "heap" =>
             /\ FirstAvail <= block'[b].phys
             /\ block'[b].phys + block'[b].pages <= firstAvail'
    <3>1. FirstAvail <= firstAvail
      BY DEF Trusted, BlocksBelow
    <3> QED
      BY <1>1, <1>2, <1>4, <1>5, <3>1
  <2>3. FirstAvail <= firstAvail'
    BY <1>2, <1>5, HeapAssumption DEF Trusted, BlocksBelow
  <2> QED
    BY <1>1, <1>3, <2>1, <2>2, <2>3 DEF BlocksBelow
<1>12. MappedContiguously'
  <2>1. ASSUME NEW d \in Held, NEW k \in 0 .. block[d].pages - 1
        PROVE  /\ block[d].virt + k < KptPages
               /\ pte[block[d].virt + k] = block[d].phys + k
    BY DEF Trusted, MappedContiguously
  <2> QED
    BY <1>1, <1>3, <1>4, <2>1 DEF MappedContiguously
<1>13. BlocksApart'
  <2>1. \A d \in Held : VirtPages(block'[b]) \cap VirtPages(block[d]) = {}
    BY <1>4, <1>6
  <2>2. ASSUME NEW d \in Held
        PROVE  PhysPages(block'[b]) \cap PhysPages(block[d]) = {}
    <3>1. CASE call[c].kind = "heap" /\ block[d].kind = "heap"
      <4>1. block[d].phys \in Nat /\ block[d].pages \in Nat
        BY DEF Basic, TypeOK, Held, Block
      <4>2. block[d].phys + block[d].pages <= firstAvail
        BY <3>1 DEF Trusted, BlocksBelow
      <4>3. block'[b].phys = firstAvail
        BY <1>1, <1>5, <3>1
      <4> QED
        BY <1>2, <4>1, <4>2, <4>3 DEF PhysPages
    <3>2. CASE ~(call[c].kind = "heap" /\ block[d].kind = "heap")
      BY <1>1, <3>2 DEF PhysPages
    <3> QED
      BY <3>1, <3>2
  <2>3. \A d, e \in Held : d # e =>
          /\ VirtPages(block[d]) \cap VirtPages(block[e]) = {}
          /\ PhysPages(block[d]) \cap PhysPages(block[e]) = {}
    BY DEF Trusted, BlocksApart
  <2>4. \A d, e \in Held' : d # e =>
          /\ VirtPages(block'[d]) \cap VirtPages(block'[e]) = {}
          /\ PhysPages(block'[d]) \cap PhysPages(block'[e]) = {}
    BY <1>3, <2>1, <2>2, <2>3
  <2>5. ASSUME NEW p \in PhysPages(block'[b])
        PROVE  p >= FirstAvail
    <3>1. call[c].kind = "heap" /\ p \in firstAvail .. firstAvail + call[c].pages - 1
      BY <1>1, <1>5, <2>5 DEF PhysPages
    <3> QED
      BY <1>2, <3>1, HeapAssumption DEF Trusted, BlocksBelow
  <2>6. \A d \in Held' : \A p \in PhysPages(block'[d]) : p >= FirstAvail
    BY <1>3, <2>5 DEF Trusted, BlocksApart
  <2> QED
    BY <2>4, <2>6 DEF BlocksApart, VirtPages, PhysPages
<1> QED
  BY <1>7, <1>8, <1>9, <1>11, <1>12, <1>13 DEF Trusted

----------------------------------------------------------------------------
(* A block is freed.  virtual_avail never gets as far as the poisoned      *)
(* length, so the pointers stay.                                           *)
FreeFacts(b) ==
  /\ block[b] # NoBlock
  /\ block' \in [Blocks -> Block] /\ block'[b] = NoBlock
  /\ \A d \in Blocks \ {b} : block'[d] = block[d]
  /\ freed' = freed \cup {b}
  /\ UNCHANGED <<firstAvail, virtualAvail, pte, pc, call, nested, panicked>>

LEMMA FreeStep ==
  ASSUME Basic, NEW c \in Contexts, NEW b \in Blocks, Free(c, b)
  PROVE  FreeFacts(b)
<1>1. NoBlock \in Block /\ NoBlock.kind = "none"
  BY DEF NoBlock, Block
<1>2. /\ block' = [block EXCEPT ![b] = NoBlock] /\ block[b].kind = "heap"
      /\ freed' = freed \cup {b}
      /\ UNCHANGED <<pte, pc, call, nested, panicked>>
      /\ At(c, "idle")
  BY DEF Free
<1>3. pc["handler"] = "idle"
  <2>1. /\ pc[c] = "idle" /\ (c = "thread" \/ c = "handler")
        /\ c = "thread" => pc["handler"] = "idle"
    BY <1>2, RunsFacts
  <2> QED
    BY <2>1
<1>4. virtualAvail <= 3 * KptPages
  BY <1>3 DEF Basic, Limit
<1>5. block[b].virt \in Nat /\ virtualAvail \in Nat
  BY DEF Basic, TypeOK, Block
<1>6. block[b].virt + PoisonPages # virtualAvail
  BY <1>4, <1>5, HeapAssumption
<1>7. firstAvail' = firstAvail /\ virtualAvail' = virtualAvail
  BY <1>6 DEF Free, LengthFreed
<1>8. /\ block' \in [Blocks -> Block] /\ block'[b] = NoBlock
      /\ \A d \in Blocks \ {b} : block'[d] = block[d]
  BY <1>1, <1>2 DEF Basic, TypeOK
<1> QED
  BY <1>1, <1>2, <1>7, <1>8 DEF FreeFacts

LEMMA FreeBasic ==
  ASSUME Basic, NEW b \in Blocks, FreeFacts(b)
  PROVE  Basic'
<1>1. TypeOK'
  BY DEF Basic, TypeOK, FreeFacts
<1>2. CallShape' /\ Limit'
  BY DEF Basic, CallShape, Limit, InCall, FreeFacts
<1>3. BlockShape'
  BY DEF Basic, BlockShape, FreeFacts
<1> QED
  BY <1>1, <1>2, <1>3 DEF Basic

LEMMA FreeTrusted ==
  ASSUME Basic, NEW b \in Blocks, FreeFacts(b), Trusted, ~nested
  PROVE  Trusted'
<1>1. /\ Held' = Held \ {b} /\ \A d \in Held' : block'[d] = block[d]
  BY DEF Held, FreeFacts
<1>2. /\ firstAvail' = firstAvail /\ virtualAvail' = virtualAvail /\ pte' = pte
      /\ pc' = pc /\ call' = call /\ nested' = nested
  BY DEF FreeFacts
<1>3. NotExposed' /\ CallsApart'
  BY <1>2 DEF Trusted, NotExposed, CallsApart, InCall, Reserving, CallPages
<1>4. \A c \in Contexts : CallTrusted(c)'
  BY <1>1, <1>2 DEF Trusted, CallTrusted, InCall, Reserving, CallPages, VirtPages
<1>5. BlocksBelow'
  BY <1>1, <1>2 DEF Trusted, BlocksBelow
<1>6. BlocksApart'
  BY <1>1, <1>2 DEF Trusted, BlocksApart, VirtPages, PhysPages
<1>7. MappedContiguously'
  BY <1>1, <1>2 DEF Trusted, MappedContiguously
<1> QED
  BY <1>3, <1>4, <1>5, <1>6, <1>7 DEF Trusted

----------------------------------------------------------------------------
LEMMA InitIInv == Init => IInv
<1> SUFFICES ASSUME Init PROVE IInv
  OBVIOUS
<1>1. Held = {}
  BY DEF Init, Held
<1>2. TypeOK
  <2>1. NoBlock \in Block
    BY DEF NoBlock, Block
  <2>2. NoCall \in Call /\ NoCall.done = 0 /\ NoCall.pages = 0
    BY DEF NoCall, Call
  <2>3. pte \in [0 .. KptPages - 1 -> Nat \cup {NoPte}]
    BY HeapAssumption DEF Init
  <2>4. \A c \in Contexts : call[c] = NoCall /\ pc[c] = "idle"
    BY DEF Init
  <2>5. /\ block \in [Blocks -> Block] /\ call \in [Contexts -> Call]
        /\ pc \in [Contexts -> {"idle", "called", "started", "mapping", "loaded"}]
    BY <2>1, <2>2 DEF Init
  <2>6. \A c \in Contexts : /\ call[c].done <= call[c].pages
                            /\ pc[c] \in {"mapping", "loaded"} /\ call[c].done > 0
                                 => call[c].start + call[c].done <= KptPages
    BY <2>2, <2>4
  <2> QED
    BY <2>3, <2>5, <2>6, HeapAssumption DEF Init, TypeOK
<1>3. CallShape /\ BlockShape
  BY DEF Init, CallShape, BlockShape, InCall, Contexts
<1>4. Limit
  BY HeapAssumption DEF Init, Limit, Contexts
<1>5. NotExposed /\ CallsApart /\ \A c \in Contexts : CallTrusted(c)
  BY DEF Init, NotExposed, CallsApart, CallTrusted, InCall, Reserving, Contexts
<1>6. BlocksBelow /\ BlocksApart /\ MappedContiguously
  BY <1>1, HeapAssumption DEF Init, BlocksBelow, BlocksApart, MappedContiguously
<1> QED
  BY <1>2, <1>3, <1>4, <1>5, <1>6 DEF IInv, Trusted

(* What a step can be, with its effect on nested.                          *)
Steps ==
  \/ \E c \in Contexts, n \in Sizes, phys \in Nat, kind \in {"heap", "device"} :
       /\ Enter(c, kind, n, phys) /\ (c = "handler" => kind = "heap")
       /\ kind = "heap" => phys = firstAvail
  \/ \E c \in Contexts :
       \/ ReadVirtual(c) \/ BumpVirtual(c) \/ MapPage(c) \/ LoadFirst(c)
       \/ \E b \in Blocks : ReturnMapping(c, b) \/ ReturnBlock(c, b) \/ Free(c, b)

LEMMA NextSteps ==
  ASSUME TypeOK, Next
  PROVE  Steps
<1>1. firstAvail \in Nat
  BY DEF TypeOK
<1>2. CASE \E n \in Sizes, phys \in Devices : MapDevice(n, phys)
  <2>1. PICK n \in Sizes, phys \in Devices : Enter("thread", "device", n, phys)
    BY <1>2 DEF MapDevice
  <2>2. phys \in Nat /\ "thread" \in Contexts
    BY HeapAssumption DEF Contexts
  <2> QED
    BY <2>1, <2>2 DEF Steps
<1>3. CASE \E c \in Contexts : \E n \in Sizes : Malloc(c, n)
  <2>1. PICK c \in Contexts, n \in Sizes : Enter(c, "heap", n, firstAvail)
    BY <1>3 DEF Malloc
  <2> QED
    BY <1>1, <2>1 DEF Steps
<1> QED
  BY <1>2, <1>3 DEF Next, Steps

LEMMA NextIInv == IInv /\ [Next]_vars => IInv'
<1> SUFFICES ASSUME IInv, [Next]_vars
             PROVE  IInv'
  OBVIOUS
<1>1. Basic /\ (~nested => Trusted)
  BY DEF IInv, Basic
<1> SUFFICES Basic' /\ (~nested' => Trusted')
  BY DEF IInv, Basic
<1>2. ASSUME NEW c \in Contexts, NEW n \in Sizes, NEW phys \in Nat,
             NEW kind \in {"heap", "device"},
             Enter(c, kind, n, phys), c = "handler" => kind = "heap",
             kind = "heap" => phys = firstAvail
      PROVE  Basic' /\ (~nested' => Trusted')
  <2>1. Basic'
    BY <1>1, <1>2, EnterBasic
  <2>2. ~nested' => ~nested
    BY <1>1, <1>2 DEF Enter, Basic, TypeOK
  <2>3. ASSUME ~nested' PROVE Trusted'
    <3>1. Trusted
      BY <1>1, <2>2, <2>3
    <3> QED
      BY <1>1, <1>2, <2>3, <3>1, EnterTrusted
  <2> QED
    BY <2>1, <2>3
<1>3. ASSUME NEW c \in Contexts, ReadVirtual(c)
      PROVE  Basic' /\ (~nested' => Trusted')
  <2>1. nested' = nested
    BY <1>3 DEF ReadVirtual
  <2> QED
    BY <1>1, <1>3, <2>1, ReadVirtualBasic, ReadVirtualTrusted
<1>4. ASSUME NEW c \in Contexts, BumpVirtual(c)
      PROVE  Basic' /\ (~nested' => Trusted')
  <2>1. nested' = nested
    BY <1>4 DEF BumpVirtual
  <2> QED
    BY <1>1, <1>4, <2>1, BumpBasic, BumpTrusted
<1>5. ASSUME NEW c \in Contexts, MapPage(c)
      PROVE  Basic' /\ (~nested' => Trusted')
  <2>1. CASE MapFacts(c)
    <3>1. nested' = nested
      BY <2>1 DEF MapFacts
    <3> QED
      BY <1>1, <2>1, <3>1, MapBasic, MapTrusted
  <2>2. CASE /\ panicked' = TRUE
             /\ UNCHANGED <<firstAvail, virtualAvail, pte, block, pc, call, freed,
                            nested>>
    BY <1>1, <2>2, NothingElse
  <2> QED
    BY <1>1, <1>5, <2>1, <2>2, MapStep
<1>6. ASSUME NEW c \in Contexts, LoadFirst(c)
      PROVE  Basic' /\ (~nested' => Trusted')
  <2>1. nested' = nested
    BY <1>6 DEF LoadFirst
  <2> QED
    BY <1>1, <1>6, <2>1, LoadBasic, LoadTrusted
<1>7. ASSUME NEW c \in Contexts, NEW b \in Blocks,
             ReturnMapping(c, b) \/ ReturnBlock(c, b)
      PROVE  Basic' /\ (~nested' => Trusted')
  <2>1. ReturnFacts(c, b)
    BY <1>1, <1>7, ReturnStep
  <2>2. nested' = nested
    BY <2>1 DEF ReturnFacts
  <2> QED
    BY <1>1, <2>1, <2>2, ReturnBasic, ReturnTrusted
<1>8. ASSUME NEW c \in Contexts, NEW b \in Blocks, Free(c, b)
      PROVE  Basic' /\ (~nested' => Trusted')
  <2>1. FreeFacts(b)
    BY <1>1, <1>8, FreeStep
  <2>2. nested' = nested
    BY <2>1 DEF FreeFacts
  <2> QED
    BY <1>1, <2>1, <2>2, FreeBasic, FreeTrusted
<1>9. CASE UNCHANGED vars
  <2>1. /\ UNCHANGED <<firstAvail, virtualAvail, pte, block, pc, call, freed, nested>>
        /\ panicked' = panicked
    BY <1>9 DEF vars
  <2>2. panicked' \in BOOLEAN
    BY <1>1, <2>1 DEF Basic, TypeOK
  <2> QED
    BY <1>1, <2>1, <2>2, NothingElse
<1>10. CASE Next
  <2>1. Steps
    BY <1>1, <1>10, NextSteps DEF Basic
  <2> QED
    BY <1>2, <1>3, <1>4, <1>5, <1>6, <1>7, <1>8, <2>1 DEF Steps
<1> QED
  BY <1>9, <1>10

(* Every reachable state of the heap satisfies the invariant.              *)
LEMMA Invariant == Spec => []IInv
BY InitIInv, NextIInv, PTL DEF Spec

(* The variables keep their types, and a call maps nothing beyond the page *)
(* tables (pmap.c 396-416).                                                *)
THEOREM TypeCorrect == Spec => []TypeOK
<1>1. IInv => TypeOK
  BY DEF IInv
<1> QED
  BY <1>1, Invariant, PTL

(* For any number of blocks and any sizes: until a handler allocates in an *)
(* exposed call, no two blocks share a page (kalloc.c, io_map.c).          *)
THEOREM Apart == Spec => []BlocksApart
<1>1. IInv => BlocksApart
  BY DEF IInv, Trusted, BlocksApart
<1> QED
  BY <1>1, Invariant, PTL

(* ... and every block is mapped to consecutive pages of memory            *)
(* (pmap.c 396-416).                                                       *)
THEOREM Contiguous == Spec => []MappedContiguously
<1>1. IInv => MappedContiguously
  BY DEF IInv, Trusted, MappedContiguously
<1> QED
  BY <1>1, Invariant, PTL

----------------------------------------------------------------------------
(* The two pointers only grow.                                             *)
LEMMA PointersGrow ==
  ASSUME IInv, [Next]_vars, ~nested'
  PROVE  firstAvail' >= firstAvail /\ virtualAvail' >= virtualAvail
<1>1. Basic /\ (~nested => Trusted)
  BY DEF IInv, Basic
<1>2. firstAvail \in Nat /\ virtualAvail \in Nat
  BY <1>1 DEF Basic, TypeOK
<1>3. CASE UNCHANGED <<firstAvail, virtualAvail>>
  BY <1>2, <1>3
<1>4. ASSUME NEW c \in Contexts, BumpVirtual(c)
      PROVE  firstAvail' >= firstAvail /\ virtualAvail' >= virtualAvail
  <2>1. BumpFacts(c)
    BY <1>1, <1>4, BumpStep
  <2>2. nested' = nested /\ pc[c] = "started" /\ firstAvail' = firstAvail
        /\ virtualAvail' \in {call[c].start + call[c].pages,
                              virtualAvail + call[c].pages}
    BY <2>1 DEF BumpFacts, Moves
  <2>3. call[c].start = virtualAvail
    BY <1>1, <2>2 DEF Trusted, CallTrusted
  <2>4. call[c].pages \in Nat
    BY <1>1, CallTypes DEF Basic
  <2> QED
    BY <1>2, <2>2, <2>3, <2>4
<1>5. ASSUME NEW c \in Contexts, NEW b \in Blocks,
             ReturnMapping(c, b) \/ ReturnBlock(c, b)
      PROVE  firstAvail' >= firstAvail /\ virtualAvail' >= virtualAvail
  <2>1. ReturnFacts(c, b)
    BY <1>1, <1>5, ReturnStep
  <2>2. /\ nested' = nested /\ virtualAvail' = virtualAvail
        /\ \/ firstAvail' = firstAvail
           \/ pc[c] = "loaded" /\ firstAvail' = call[c].old + call[c].pages
    BY <2>1 DEF ReturnFacts
  <2>3. pc[c] = "loaded" => call[c].old = firstAvail
    BY <1>1, <2>2 DEF Trusted, CallTrusted
  <2>4. call[c].pages \in Nat
    BY <1>1, CallTypes DEF Basic
  <2> QED
    BY <1>2, <2>2, <2>3, <2>4
<1>6. ASSUME NEW c \in Contexts, NEW b \in Blocks, Free(c, b)
      PROVE  UNCHANGED <<firstAvail, virtualAvail>>
  BY <1>1, <1>6, FreeStep DEF FreeFacts
<1>7. CASE Next
  <2>1. Steps
    BY <1>1, <1>7, NextSteps DEF Basic
  <2>2. \/ UNCHANGED <<firstAvail, virtualAvail>>
        \/ \E c \in Contexts : BumpVirtual(c)
        \/ \E c \in Contexts, b \in Blocks : ReturnMapping(c, b) \/ ReturnBlock(c, b)
    BY <1>6, <2>1 DEF Steps, Enter, ReadVirtual, MapPage, LoadFirst
  <2> QED
    BY <1>3, <1>4, <1>5, <2>2
<1> QED
  BY <1>3, <1>7 DEF vars

(* Whatever is allocated and freed, memory is never handed out twice: the  *)
(* test in free_ (kalloc.c:50) fails for every block, as the page tables   *)
(* end long before the poisoned length does.                               *)
THEOREM NoReuse == Spec => NeverReused
<1>1. IInv /\ [Next]_vars =>
        [~nested' => firstAvail' >= firstAvail /\ virtualAvail' >= virtualAvail]_vars
  BY PointersGrow
<1> QED
  BY <1>1, Invariant, PTL DEF Spec, NeverReused

----------------------------------------------------------------------------
Holds == [b \in Blocks |-> [virt |-> VirtPages(block[b]),
                            phys |-> PhysPages(block[b])]]

LEMMA HoldsNothing ==
  ASSUME Basic, NEW b \in Blocks
  PROVE  /\ Holds[b].virt = VirtPages(block[b])
         /\ Holds[b].phys = PhysPages(block[b])
         /\ block[b] = NoBlock <=> Holds[b] = Contract!Nothing
<1>1. Holds[b] = [virt |-> VirtPages(block[b]), phys |-> PhysPages(block[b])]
  BY DEF Holds
<1>2. CASE block[b] = NoBlock
  <2>1. VirtPages(NoBlock) = {} /\ PhysPages(NoBlock) = {}
    BY DEF NoBlock, VirtPages, PhysPages
  <2> QED
    BY <1>1, <1>2, <2>1 DEF Contract!Nothing
<1>3. CASE block[b] # NoBlock
  <2>1. block[b].virt \in Nat /\ block[b].pages \in Nat /\ block[b].pages > 0
    BY <1>3 DEF Basic, TypeOK, Block, BlockShape
  <2>2. block[b].virt \in VirtPages(block[b])
    BY <2>1 DEF VirtPages
  <2> QED
    BY <1>1, <1>3, <2>2 DEF Contract!Nothing
<1> QED
  BY <1>2, <1>3

LEMMA ReturnAllocates ==
  ASSUME IInv, NEW c \in Contexts, NEW b \in Blocks,
         ReturnMapping(c, b) \/ ReturnBlock(c, b)
  PROVE  Contract!Allocate(b)
<1>1. Basic /\ (~nested => Trusted)
  BY DEF IInv, Basic
<1>2. ReturnFacts(c, b)
  BY <1>1, ReturnStep
<1>3. Basic' /\ (~nested => Trusted')
  BY <1>1, <1>2, ReturnBasic, ReturnTrusted
<1>4. /\ nested' = nested /\ block[b] = NoBlock
      /\ \A d \in Blocks \ {b} : block'[d] = block[d]
      /\ block'[b] # NoBlock
  <2>1. call[c].pages > 0
    BY <1>1, <1>2, MappedInTables DEF ReturnFacts
  <2> QED
    BY <1>2, <2>1 DEF ReturnFacts, NoBlock
<1>5. Holds[b] = Contract!Nothing
  BY <1>1, <1>4, HoldsNothing
<1>6. Holds'[b] # Contract!Nothing
  <2>1. /\ block'[b].virt \in Nat /\ block'[b].pages \in Nat
        /\ block'[b].pages > 0
    BY <1>3, <1>4 DEF Basic, TypeOK, Block, BlockShape
  <2>2. block'[b].virt \in VirtPages(block'[b])
    BY <2>1 DEF VirtPages
  <2> QED
    BY <2>2 DEF Holds, Contract!Nothing
<1>7. \A d \in Blocks \ {b} : Holds'[d] = Holds[d]
  BY <1>4 DEF Holds
<1>8. ASSUME ~nested, NEW d \in Blocks \ {b}
      PROVE  ~Contract!Overlap(Holds'[b], Holds[d])
  <2>1. /\ Holds'[b].virt = VirtPages(block'[b])
        /\ Holds'[b].phys = PhysPages(block'[b])
        /\ Holds[d].virt = VirtPages(block[d])
        /\ Holds[d].phys = PhysPages(block[d])
    BY DEF Holds
  <2>2. CASE d \in Held
    <3>1. d \in Held' /\ b \in Held' /\ block'[d] = block[d]
      BY <1>4, <2>2 DEF Held
    <3>2. BlocksApart'
      BY <1>3, <1>8 DEF Trusted
    <3>3. /\ VirtPages(block'[b]) \cap VirtPages(block'[d]) = {}
          /\ PhysPages(block'[b]) \cap PhysPages(block'[d]) = {}
      BY <1>4, <1>8, <3>1, <3>2 DEF BlocksApart, VirtPages, PhysPages
    <3> QED
      BY <2>1, <3>1, <3>3 DEF Contract!Overlap
  <2>3. CASE d \notin Held
    <3>1. Holds[d] = Contract!Nothing
      BY <1>1, <2>3, HoldsNothing DEF Held
    <3> QED
      BY <3>1 DEF Contract!Overlap, Contract!Nothing
  <2> QED
    BY <2>2, <2>3
<1> QED
  BY <1>4, <1>5, <1>6, <1>7, <1>8 DEF Contract!Allocate, Holds

LEMMA FreeReleases ==
  ASSUME IInv, NEW c \in Contexts, NEW b \in Blocks, Free(c, b)
  PROVE  Contract!Release(b)
<1>1. Basic
  BY DEF IInv, Basic
<1>2. FreeFacts(b)
  BY <1>1, FreeStep
<1>3. /\ nested' = nested /\ block[b] # NoBlock /\ block'[b] = NoBlock
      /\ \A d \in Blocks \ {b} : block'[d] = block[d]
  BY <1>2 DEF FreeFacts
<1>4. Holds[b] # Contract!Nothing
  BY <1>1, <1>3, HoldsNothing
<1>5. Holds'[b] = Contract!Nothing
  <2>1. VirtPages(NoBlock) = {} /\ PhysPages(NoBlock) = {}
    BY DEF NoBlock, VirtPages, PhysPages
  <2> QED
    BY <1>3, <2>1 DEF Holds, VirtPages, PhysPages, Contract!Nothing
<1>6. \A d \in Blocks \ {b} : Holds'[d] = Holds[d]
  BY <1>3 DEF Holds
<1>7. Holds' = [Holds EXCEPT ![b] = Contract!Nothing]
  BY <1>5, <1>6 DEF Holds
<1> QED
  BY <1>3, <1>4, <1>7 DEF Contract!Release, Holds

LEMMA StepRefines ==
  ASSUME IInv, [Next]_vars
  PROVE  Contract!Next \/ UNCHANGED <<Holds, nested>>
<1>1. Basic
  BY DEF IInv, Basic
<1>2. CASE block' = block /\ nested' = nested
  BY <1>2 DEF Holds
<1>3. CASE block' = block /\ nested' = TRUE
  BY <1>3 DEF Contract!Next, Contract!Nest, Holds
<1>4. CASE Next
  <2>1. Steps
    BY <1>1, <1>4, NextSteps DEF Basic
  <2>2. nested \in BOOLEAN
    BY <1>1 DEF Basic, TypeOK
  <2>3. \/ block' = block /\ (nested' = nested \/ nested' = TRUE)
        \/ \E c \in Contexts, b \in Blocks :
             ReturnMapping(c, b) \/ ReturnBlock(c, b) \/ Free(c, b)
    BY <2>1, <2>2 DEF Steps, Enter, ReadVirtual, BumpVirtual, MapPage, LoadFirst
  <2>4. CASE \E c \in Contexts, b \in Blocks :
               ReturnMapping(c, b) \/ ReturnBlock(c, b) \/ Free(c, b)
    BY <2>4, ReturnAllocates, FreeReleases DEF Contract!Next
  <2> QED
    BY <1>2, <1>3, <2>3, <2>4
<1> QED
  BY <1>2, <1>4 DEF vars

(* The heap keeps the contract of HeapContract: every call that returns    *)
(* hands out pages nobody holds, every free gives them up, and nothing     *)
(* else changes who holds what.                                            *)
THEOREM Implements == Spec => ImplementsContract
<1>1. Init => Contract!Init
  <2> SUFFICES ASSUME Init PROVE Contract!Init
    OBVIOUS
  <2>1. VirtPages(NoBlock) = {} /\ PhysPages(NoBlock) = {}
    BY DEF NoBlock, VirtPages, PhysPages
  <2> QED
    BY <2>1 DEF Init, Contract!Init, Contract!Nothing
<1>2. IInv /\ [Next]_vars =>
        [Contract!Next]_<<[b \in Blocks |-> [virt |-> VirtPages(block[b]),
                                             phys |-> PhysPages(block[b])]],
                          ~nested>>
  BY StepRefines DEF Holds
<1> QED
  BY <1>1, <1>2, Invariant, PTL DEF Spec, ImplementsContract, Contract!Spec
=============================================================================
