---------------------------- MODULE RuntimeProofs ----------------------------
(***************************************************************************)
(* For any number of closures and variables, and for any nesting of what   *)
(* they capture: no block is freed while something refers to it, and a     *)
(* variable is freed only if one copy captured it.  And for strings of any *)
(* kind, objects and memory of any size: the capacity in the object        *)
(* against the memory it stands for, the contents against std::string, and *)
(* the places where memory is overrun.                                     *)
(***************************************************************************)
EXTENDS Blocks, BasicString, TLAPS

(* Closures.  The counts are no counts: a block is at 1, at the latch or at *)
(* 0.  The invariant says what each of the three means: at 1 there is one   *)
(* reference, which the program holds or the release at work has just       *)
(* taken; at 0 there is none; everything that is captured is latched.       *)
Item == {Var(v) : v \in Vars} \cup {Blk(b) : b \in HeapBlocks}
Work == Item \cup {Gone(b) : b \in HeapBlocks}

Block == [state : {"unused", "live", "freed"}, count : {0, 1, Latch},
          captured : Seq(Item)]
Byref == [state : {"stack", "heap", "freed"}, count : {0, 2, Latch}]

BlocksTypeOK ==
  /\ block \in [HeapBlocks -> Block]
  /\ byref \in [Vars -> Byref]
  /\ scope \subseteq Vars
  /\ refs \in [HeapBlocks -> Nat]
  /\ copies \in [Vars -> 0 .. 2]
  /\ todo \in Seq(Work)
  /\ crashed \in BOOLEAN

(* A block at 0 is unused, freed, or about to be freed: nothing names it.  *)
NoneAtZero ==
  \A b \in HeapBlocks : block[b].count = 0 => refs[b] = 0 /\ ~ Captured(Blk(b))

(* At 1 the only reference is the program's, or that of the release that   *)
(* is at work.                                                             *)
CapturedLive(item) ==
  \E d \in HeapBlocks : block[d].count > 0 /\ item \in Items(block[d].captured)

OneAtOne ==
  \A b \in HeapBlocks : block[b].count = 1 =>
    /\ ~ CapturedLive(Blk(b))
    /\ \/ refs[b] = 1 /\ Blk(b) \notin Items(todo)
       \/ refs[b] = 0 /\ todo = <<Blk(b)>>

LiveIfCounted ==
  \A b \in HeapBlocks :
    /\ block[b].count > 0 => block[b].state = "live"
    /\ Gone(b) \in Items(todo) => block[b].count = 0

(* A variable's count says how many copies captured it.                    *)
CopiesCounted ==
  \A v \in Vars :
    \/ byref[v].state = "stack" /\ copies[v] = 0
    \/ byref[v].state = "heap" /\ byref[v].count = 2 /\ copies[v] = 1
    \/ byref[v].state = "heap" /\ byref[v].count = Latch /\ copies[v] = 2
    \/ byref[v].state = "freed" /\ copies[v] = 1

BlocksIInv ==
  BlocksTypeOK /\ NoneAtZero /\ OneAtOne /\ LiveIfCounted /\ CopiesCounted

----------------------------------------------------------------------------
(* The items of a sequence.                                                *)
LEMMA ItemsEmpty == Items(<<>>) = {}
  BY DEF Items

LEMMA ItemsOne ==
  ASSUME NEW x
  PROVE  Items(<<x>>) = {x}
  BY DEF Items

LEMMA ItemsTyped ==
  ASSUME NEW S, NEW s \in Seq(S)
  PROVE  Items(s) \subseteq S
  BY DEF Items

LEMMA ItemsTail ==
  ASSUME NEW S, NEW s \in Seq(S), s # <<>>
  PROVE  /\ Head(s) \in Items(s) /\ Items(Tail(s)) \subseteq Items(s)
         /\ Tail(s) \in Seq(S)
<1>1. Len(s) \in Nat /\ Len(s) >= 1 /\ Head(s) = s[1]
  OBVIOUS
<1>2. Tail(s) \in Seq(S) /\ Len(Tail(s)) = Len(s) - 1
  OBVIOUS
<1>3. \A k \in 1 .. Len(Tail(s)) : Tail(s)[k] = s[k + 1] /\ k + 1 \in 1 .. Len(s)
  BY <1>1, <1>2
<1> QED
  BY <1>1, <1>2, <1>3 DEF Items

LEMMA ItemsConcat ==
  ASSUME NEW S, NEW s \in Seq(S), NEW t \in Seq(S)
  PROVE  Items(s \o t) \subseteq Items(s) \cup Items(t)
<1> SUFFICES ASSUME NEW k \in 1 .. Len(s \o t)
             PROVE  (s \o t)[k] \in Items(s) \cup Items(t)
  BY DEF Items
<1>1. Len(s) \in Nat /\ Len(t) \in Nat /\ Len(s \o t) = Len(s) + Len(t)
  OBVIOUS
<1>2. CASE k \in 1 .. Len(s)
  <2>1. (s \o t)[k] = s[k]
    BY <1>1, <1>2
  <2> QED
    BY <1>2, <2>1 DEF Items
<1>3. CASE k \notin 1 .. Len(s)
  <2>1. k - Len(s) \in 1 .. Len(t) /\ (s \o t)[k] = t[k - Len(s)]
    BY <1>1, <1>3
  <2> QED
    BY <2>1 DEF Items
<1> QED
  BY <1>2, <1>3

LEMMA NamesApart ==
  /\ \A b, d \in HeapBlocks : Blk(b) = Blk(d) => b = d
  /\ \A b, d \in HeapBlocks : Gone(b) = Gone(d) => b = d
  /\ \A v, w \in Vars : Var(v) = Var(w) => v = w
  /\ \A b, d \in HeapBlocks : Blk(b) # Gone(d)
  /\ \A b \in HeapBlocks, v \in Vars : Blk(b) # Var(v) /\ Gone(b) # Var(v)
  BY DEF Blk, Gone, Var

LEMMA WorkFacts ==
  ASSUME NEW w \in Work
  PROVE  /\ w.op = "block" => w.x \in HeapBlocks /\ w = Blk(w.x)
         /\ w.op = "free" => w.x \in HeapBlocks /\ w = Gone(w.x)
         /\ w.op = "byref" => w.x \in Vars /\ w = Var(w.x)
  BY DEF Work, Item, Blk, Gone, Var

LEMMA CapturesTyped ==
  ASSUME NEW captured \in Captures
  PROVE  captured \in Seq(Item) /\ Items(captured) \subseteq Item
  BY BlocksAssumption, ItemsTyped DEF Item

----------------------------------------------------------------------------
LEMMA BlocksInitially == Init => BlocksIInv
<1> SUFFICES ASSUME Init PROVE BlocksIInv
  OBVIOUS
<1> USE DEF Init
<1>1. NoBlock \in Block
  <2>1. <<>> \in Seq(Item)
    OBVIOUS
  <2> QED
    BY <2>1 DEF NoBlock, Block
<1>2. OnStack \in Byref
  BY BlocksAssumption DEF OnStack, Byref
<1>3. BlocksTypeOK
  <2>1. <<>> \in Seq(Work)
    OBVIOUS
  <2>2. block \in [HeapBlocks -> Block] /\ byref \in [Vars -> Byref]
    BY <1>1, <1>2
  <2>3. refs \in [HeapBlocks -> Nat] /\ copies \in [Vars -> 0 .. 2]
    OBVIOUS
  <2> QED
    BY <2>1, <2>2, <2>3 DEF BlocksTypeOK
<1>4. \A b \in HeapBlocks : block[b].count = 0 /\ refs[b] = 0
  BY DEF NoBlock
<1>5. \A item : ~ Captured(item)
  BY <1>4, ItemsEmpty DEF Captured
<1>6. NoneAtZero /\ OneAtOne /\ LiveIfCounted
  BY <1>4, <1>5, ItemsEmpty DEF NoneAtZero, OneAtOne, LiveIfCounted
<1>7. CopiesCounted
  BY DEF CopiesCounted, OnStack
<1> QED
  BY <1>3, <1>6, <1>7 DEF BlocksIInv

(* A block the program holds a reference to, or one that a live block      *)
(* captures, is counted; if both, it is latched.                           *)
LEMMA HeldIsCounted ==
  ASSUME BlocksIInv, NEW b \in HeapBlocks
  PROVE  /\ block[b].count \in {0, 1, Latch} /\ Latch > 2 /\ Latch \in Nat
         /\ refs[b] > 0 => block[b].count \in {1, Latch}
         /\ CapturedLive(Blk(b)) => block[b].count = Latch
         /\ Blk(b) \in Items(todo) => block[b].count \in {1, Latch}
<1>1. block[b] \in Block /\ refs[b] \in Nat
  BY DEF BlocksIInv, BlocksTypeOK
<1>2. block[b].count \in {0, 1, Latch} /\ Latch > 2 /\ Latch \in Nat
  BY <1>1, BlocksAssumption DEF Block
<1>3. block[b].count = 0 => refs[b] = 0 /\ ~ Captured(Blk(b))
  BY DEF BlocksIInv, NoneAtZero
<1>4. block[b].count = 1 => ~ CapturedLive(Blk(b))
  BY DEF BlocksIInv, OneAtOne
<1>5. CapturedLive(Blk(b)) \/ Blk(b) \in Items(todo) => Captured(Blk(b))
  BY DEF Captured, CapturedLive
<1> QED
  BY <1>1, <1>2, <1>3, <1>4, <1>5

----------------------------------------------------------------------------
(* What _Block_copy captures is latched, so the new block cannot bring the *)
(* program a second reference that is not.                                 *)
LEMMA CopyStackKeeps ==
  ASSUME BlocksIInv, NEW b \in HeapBlocks, NEW captured \in Captures,
         CopyStack(b, captured)
  PROVE  BlocksIInv'
<1> USE DEF CopyStack, Idle
<1>1. /\ captured \in Seq(Item)
      /\ BlocksTypeOK /\ todo = <<>> /\ todo' = <<>> /\ Items(todo) = {} /\ Items(todo') = {}
  BY CapturesTyped, ItemsEmpty DEF BlocksIInv
<1>2. /\ refs' = [refs EXCEPT ![b] = 1] /\ refs[b] = 0 /\ ~ Captured(Blk(b))
      /\ block[b].count = 0
  <2>1. block[b].state = "unused" /\ block[b].count \in {0, 1, Latch}
    BY <1>1 DEF BlocksTypeOK, Block
  <2>2. ~ (block[b].count > 0)
    BY <2>1 DEF BlocksIInv, LiveIfCounted
  <2>3. block[b].count = 0
    BY <2>1, <2>2, BlocksAssumption
  <2> QED
    BY <2>3 DEF BlocksIInv, NoneAtZero
<1>3. Blk(b) \notin Items(captured)
  <2>1. \A item \in Items(captured) : item.op # "byref" => refs[item.x] > 0
    OBVIOUS
  <2> QED
    BY <2>1, <1>2 DEF Blk
<1>4. \A d \in HeapBlocks : Blk(d) \in Items(captured) => refs[d] > 0
  <2>1. \A item \in Items(captured) : item.op # "byref" => refs[item.x] > 0
    OBVIOUS
  <2> QED
    BY <2>1 DEF Blk
<1>5. block'[b] = [state |-> "live", count |-> 1, captured |-> captured]
  OBVIOUS
<1>6. ASSUME NEW d \in HeapBlocks, d # b
      PROVE  /\ block'[d].state = block[d].state /\ block'[d].captured = block[d].captured
             /\ Blk(d) \in Items(captured) => block'[d].count = Latch /\ block[d].count > 0
             /\ Blk(d) \notin Items(captured) => block'[d] = block[d]
             /\ refs'[d] = refs[d] /\ block'[d] \in Block
             /\ block'[d].count > 0 <=> block[d].count > 0
  <2>1. block[d] \in Block /\ refs[d] \in Nat
    BY <1>1 DEF BlocksTypeOK
  <2>2. CASE Blk(d) \in Items(captured)
    <3>1. block'[d] = [block[d] EXCEPT !.count = Latch]
      BY <1>6, <2>2 DEF LatchingIncr
    <3>2. block[d].count > 0
      BY <1>4, <2>2, HeldIsCounted
    <3>3. block'[d].count = Latch /\ block'[d].state = block[d].state
          /\ block'[d].captured = block[d].captured
      BY <2>1, <3>1 DEF Block
    <3>4. block'[d] \in Block
      BY <2>1, <3>1 DEF Block
    <3> QED
      BY <1>6, <2>2, <3>2, <3>3, <3>4, BlocksAssumption
  <2>3. CASE Blk(d) \notin Items(captured)
    BY <1>1, <1>6, <2>1, <2>3 DEF BlocksTypeOK
  <2> QED
    BY <2>2, <2>3
<1>7. BlocksTypeOK'
  <2>1. block'[b] \in Block
    BY <1>1, <1>5 DEF Block
  <2>2. block' \in [HeapBlocks -> Block]
    <3>1. block' = [d \in HeapBlocks |-> block'[d]]
      OBVIOUS
    <3>2. \A d \in HeapBlocks : block'[d] \in Block
      BY <2>1, <1>6
    <3> QED
      BY <3>1, <3>2
  <2>3. byref' \in [Vars -> Byref]
    <3>1. \A v \in Vars : byref[v] \in Byref
      BY <1>1 DEF BlocksTypeOK
    <3>2. \A r \in Byref : CopiedByref(r) \in Byref
      BY DEF CopiedByref, LatchingIncr, Byref
    <3> QED
      BY <3>1, <3>2
  <2>4. copies' \in [Vars -> 0 .. 2]
    BY <1>1 DEF BlocksTypeOK
  <2>5. refs' \in [HeapBlocks -> Nat]
    BY <1>1, <1>2 DEF BlocksTypeOK
  <2> QED
    BY <1>1, <2>2, <2>3, <2>4, <2>5 DEF BlocksTypeOK
<1>8. ASSUME NEW d \in HeapBlocks, Captured(Blk(d))'
      PROVE  /\ CapturedLive(Blk(d)) \/ Blk(d) \in Items(captured)
             /\ d # b /\ block'[d].count = Latch
  <2>1. PICK e \in HeapBlocks : block'[e].count > 0 /\ Blk(d) \in Items(block'[e].captured)
    BY <1>1, <1>8 DEF Captured
  <2>2. CapturedLive(Blk(d)) \/ Blk(d) \in Items(captured)
    BY <2>1, <1>5, <1>6 DEF CapturedLive
  <2>3. d # b
    BY <2>2, <1>2, <1>3 DEF Captured, CapturedLive
  <2> QED
    BY <2>2, <2>3, <1>6, HeldIsCounted
<1>9. NoneAtZero'
  <2>1. \A d \in HeapBlocks : block'[d].count = 0 => ~ Captured(Blk(d))'
    BY <1>8, BlocksAssumption
  <2>2. \A d \in HeapBlocks : block'[d].count = 0 => refs'[d] = 0
    <3> SUFFICES ASSUME NEW d \in HeapBlocks, block'[d].count = 0
                 PROVE  refs'[d] = 0
      OBVIOUS
    <3>1. d # b /\ block[d].count = 0
      BY <1>5, <1>6, HeldIsCounted
    <3> QED
      BY <3>1, <1>6 DEF BlocksIInv, NoneAtZero
  <2> QED
    BY <2>1, <2>2 DEF NoneAtZero
<1>10. OneAtOne'
  <2> SUFFICES ASSUME NEW d \in HeapBlocks, block'[d].count = 1
               PROVE  ~ CapturedLive(Blk(d))' /\ refs'[d] = 1
    BY <1>1 DEF OneAtOne
  <2>1. ~ CapturedLive(Blk(d))'
    BY <1>8, BlocksAssumption DEF Captured, CapturedLive
  <2>2. CASE d = b
    BY <2>1, <2>2, <1>1, <1>2 DEF BlocksTypeOK
  <2>3. CASE d # b
    <3>1. block[d].count = 1
      BY <2>3, <1>6, BlocksAssumption
    <3>2. refs[d] = 1
      BY <3>1, <1>1 DEF BlocksIInv, OneAtOne
    <3> QED
      BY <2>1, <2>3, <3>2, <1>6
  <2> QED
    BY <2>2, <2>3
<1>11. LiveIfCounted'
  <2> SUFFICES ASSUME NEW d \in HeapBlocks, block'[d].count > 0
               PROVE  block'[d].state = "live"
    BY <1>1 DEF LiveIfCounted
  <2>1. CASE d = b
    BY <2>1, <1>5
  <2>2. CASE d # b
    BY <2>2, <1>6 DEF BlocksIInv, LiveIfCounted
  <2> QED
    BY <2>1, <2>2
<1>12. CopiesCounted'
  <2> SUFFICES ASSUME NEW v \in Vars
               PROVE  \/ byref'[v].state = "stack" /\ copies'[v] = 0
                      \/ byref'[v].state = "heap" /\ byref'[v].count = 2 /\ copies'[v] = 1
                      \/ byref'[v].state = "heap" /\ byref'[v].count = Latch /\ copies'[v] = 2
                      \/ byref'[v].state = "freed" /\ copies'[v] = 1
    BY DEF CopiesCounted
  <2>1. byref[v] \in Byref /\ copies[v] \in 0 .. 2
    BY <1>1 DEF BlocksTypeOK
  <2>2. /\ byref'[v] = IF Var(v) \in Items(captured) THEN CopiedByref(byref[v]) ELSE byref[v]
        /\ copies'[v] = IF Var(v) \in Items(captured) /\ copies[v] < 2
                           /\ byref[v].state # "freed"
                        THEN copies[v] + 1 ELSE copies[v]
    OBVIOUS
  <2>3. \/ byref[v].state = "stack" /\ copies[v] = 0
        \/ byref[v].state = "heap" /\ byref[v].count = 2 /\ copies[v] = 1
        \/ byref[v].state = "heap" /\ byref[v].count = Latch /\ copies[v] = 2
        \/ byref[v].state = "freed" /\ copies[v] = 1
    BY DEF BlocksIInv, CopiesCounted
  <2> HIDE DEF CopyStack
  <2> QED
    BY <2>1, <2>2, <2>3 DEF CopiedByref, LatchingIncr, Byref
<1> QED
  BY <1>7, <1>9, <1>10, <1>11, <1>12 DEF BlocksIInv

----------------------------------------------------------------------------
(* A step that leaves the blocks and the references to them alone.         *)
LEMMA SameBlocks ==
  ASSUME BlocksIInv, UNCHANGED <<block, refs>>,
         NEW S, S = Items(todo'), 
         \A b \in HeapBlocks : /\ Blk(b) \in S => Blk(b) \in Items(todo)
                               /\ Gone(b) \in S => Gone(b) \in Items(todo)
                               /\ todo = <<Blk(b)>> => block[b].count # 1
  PROVE  (NoneAtZero /\ OneAtOne /\ LiveIfCounted)'
<1>1. \A item : CapturedLive(item)' <=> CapturedLive(item)
  BY DEF CapturedLive
<1>2. \A b \in HeapBlocks : Captured(Blk(b))' => Captured(Blk(b))
  BY DEF Captured
<1>3. NoneAtZero'
  BY <1>2 DEF BlocksIInv, NoneAtZero
<1>4. OneAtOne'
  BY <1>1 DEF BlocksIInv, OneAtOne
<1>5. LiveIfCounted'
  BY DEF BlocksIInv, LiveIfCounted
<1> QED
  BY <1>3, <1>4, <1>5

LEMMA LeaveScopeKeeps ==
  ASSUME BlocksIInv, NEW v \in Vars, LeaveScope(v)
  PROVE  BlocksIInv'
<1> USE DEF LeaveScope, Idle
<1>1. BlocksTypeOK /\ todo = <<>> /\ Items(todo') = {Var(v)}
  BY ItemsOne DEF BlocksIInv
<1>2. BlocksTypeOK'
  <2>1. Var(v) \in Work
    BY DEF Work, Item
  <2>2. todo' \in Seq(Work)
    BY <2>1
  <2> QED
    BY <1>1, <2>2 DEF BlocksTypeOK
<1>3. (NoneAtZero /\ OneAtOne /\ LiveIfCounted)'
  <2>1. \A b \in HeapBlocks : todo # <<Blk(b)>>
    BY <1>1
  <2> QED
    BY <1>1, <2>1, NamesApart, SameBlocks
<1>4. CopiesCounted'
  BY DEF BlocksIInv, CopiesCounted
<1> QED
  BY <1>2, <1>3, <1>4 DEF BlocksIInv

LEMMA DropByrefKeeps ==
  ASSUME BlocksIInv, DropByref
  PROVE  BlocksIInv'
<1> USE DEF DropByref, Doing
<1>1. BlocksTypeOK /\ todo # <<>> /\ todo \in Seq(Work) /\ todo' = Tail(todo)
  BY DEF BlocksIInv, BlocksTypeOK
<1>2. Head(todo) \in Items(todo) /\ Items(todo') \subseteq Items(todo) /\ todo' \in Seq(Work)
  BY <1>1, ItemsTail
<1> DEFINE v == Head(todo).x
           n == LatchingDecr(byref[v].count)
<1>3. v \in Vars /\ Head(todo) = Var(v)
  BY <1>1, <1>2, ItemsTyped, WorkFacts
<1>4. \/ byref[v].state = "stack" /\ copies[v] = 0
      \/ byref[v].state = "heap" /\ byref[v].count = 2 /\ copies[v] = 1
      \/ byref[v].state = "heap" /\ byref[v].count = Latch /\ copies[v] = 2
      \/ byref[v].state = "freed" /\ copies[v] = 1
  BY <1>3 DEF BlocksIInv, CopiesCounted
<1>5. \/ UNCHANGED byref
      \/ /\ byref[v].state = "heap"
         /\ byref' = [byref EXCEPT
              ![v] = [state |-> IF n = 0 THEN "freed" ELSE "heap", count |-> n]]
  OBVIOUS
<1>6. n \in {0, Latch} /\ (byref[v].count = Latch => n = Latch)
      /\ (byref[v].count = 2 => n = 0) /\ Latch # 0
  BY BlocksAssumption DEF LatchingDecr
<1>7. BlocksTypeOK'
  <2>1. byref' \in [Vars -> Byref]
    <3> HIDE DEF n, v, DropByref
    <3>1. [state |-> IF n = 0 THEN "freed" ELSE "heap", count |-> n] \in Byref
      BY <1>6 DEF Byref
    <3> QED
      BY <1>1, <1>5, <3>1 DEF BlocksTypeOK
  <2>2. crashed' \in BOOLEAN
    BY <1>1 DEF BlocksTypeOK
  <2>3. block' \in [HeapBlocks -> Block] /\ scope' \subseteq Vars
        /\ refs' \in [HeapBlocks -> Nat] /\ copies' \in [Vars -> 0 .. 2]
    BY <1>1 DEF BlocksTypeOK
  <2> HIDE DEF DropByref
  <2> QED
    BY <1>2, <2>1, <2>2, <2>3 DEF BlocksTypeOK
<1>8. (NoneAtZero /\ OneAtOne /\ LiveIfCounted)'
  <2>1. \A b \in HeapBlocks : todo # <<Blk(b)>>
    BY <1>3, NamesApart
  <2> QED
    BY <1>2, <2>1, SameBlocks
<1>9. CopiesCounted'
  <2>1. \A w \in Vars : w # v => byref'[w] = byref[w]
    BY <1>1, <1>5 DEF BlocksTypeOK
  <2>2. byref'[v] = byref[v] \/ byref'[v] = [state |-> IF n = 0 THEN "freed" ELSE "heap", count |-> n]
    BY <1>1, <1>3, <1>5 DEF BlocksTypeOK
  <2>3. copies' = copies
    OBVIOUS
  <2> HIDE DEF DropByref, v, n
  <2> SUFFICES ASSUME NEW w \in Vars
               PROVE  \/ byref'[w].state = "stack" /\ copies'[w] = 0
                      \/ byref'[w].state = "heap" /\ byref'[w].count = 2 /\ copies'[w] = 1
                      \/ byref'[w].state = "heap" /\ byref'[w].count = Latch /\ copies'[w] = 2
                      \/ byref'[w].state = "freed" /\ copies'[w] = 1
    BY DEF CopiesCounted
  <2>4. CASE w # v
    BY <2>1, <2>3, <2>4 DEF BlocksIInv, CopiesCounted
  <2>5. CASE w = v /\ UNCHANGED byref
    BY <2>3, <2>5 DEF BlocksIInv, CopiesCounted
  <2>6. CASE w = v /\ byref[v].state = "heap"
                   /\ byref'[v] = [state |-> IF n = 0 THEN "freed" ELSE "heap", count |-> n]
    BY <1>4, <1>6, <2>3, <2>6
  <2> QED
    BY <1>1, <1>3, <1>5, <2>2, <2>4, <2>5, <2>6 DEF BlocksTypeOK
<1> QED
  BY <1>7, <1>8, <1>9 DEF BlocksIInv

----------------------------------------------------------------------------
LEMMA CopyHeapKeeps ==
  ASSUME BlocksIInv, NEW b \in HeapBlocks, CopyHeap(b)
  PROVE  BlocksIInv'
<1> USE DEF CopyHeap, Idle
<1>1. BlocksTypeOK /\ todo = <<>> /\ todo' = <<>> /\ Items(todo) = {} /\ Items(todo') = {}
  BY ItemsEmpty DEF BlocksIInv
<1>2. refs[b] \in Nat /\ refs[b] > 0 /\ refs' = [refs EXCEPT ![b] = refs[b] + 1]
      /\ block[b].count > 0 /\ block[b].state = "live" /\ block[b] \in Block
  <2>1. refs[b] \in Nat /\ refs[b] > 0 /\ block[b] \in Block
    BY <1>1, BlocksAssumption DEF BlocksTypeOK
  <2>2. block[b].count > 0
    BY <2>1, HeldIsCounted
  <2> QED
    BY <2>1, <2>2 DEF BlocksIInv, LiveIfCounted
<1>3. block' = [block EXCEPT ![b] = [block[b] EXCEPT !.count = Latch]]
  BY DEF LatchingIncr
<1>4. /\ block'[b].count = Latch /\ block'[b].captured = block[b].captured
      /\ block'[b].state = "live" /\ block'[b] \in Block
  <2>1. block'[b] = [block[b] EXCEPT !.count = Latch]
    BY <1>1, <1>3 DEF BlocksTypeOK
  <2> QED
    BY <1>2, <2>1 DEF Block
<1>5. \A d \in HeapBlocks : d # b => block'[d] = block[d] /\ refs'[d] = refs[d]
  BY <1>1, <1>2, <1>3 DEF BlocksTypeOK
<1>6. \A item : Captured(item)' <=> Captured(item)
  BY <1>1, <1>2, <1>4, <1>5, BlocksAssumption DEF Captured
<1>7. \A item : CapturedLive(item)' <=> CapturedLive(item)
  BY <1>1, <1>2, <1>4, <1>5, BlocksAssumption DEF CapturedLive
<1>8. BlocksTypeOK'
  <2>1. block' \in [HeapBlocks -> Block]
    BY <1>1, <1>3, <1>4 DEF BlocksTypeOK
  <2>2. refs' \in [HeapBlocks -> Nat]
    BY <1>1, <1>2 DEF BlocksTypeOK
  <2> QED
    BY <1>1, <2>1, <2>2 DEF BlocksTypeOK
<1>9. NoneAtZero'
  BY <1>4, <1>5, <1>6, BlocksAssumption DEF BlocksIInv, NoneAtZero
<1>10. OneAtOne'
  BY <1>1, <1>4, <1>5, <1>7, BlocksAssumption DEF BlocksIInv, OneAtOne
<1>11. LiveIfCounted'
  BY <1>1, <1>4, <1>5 DEF BlocksIInv, LiveIfCounted
<1>12. CopiesCounted'
  BY DEF BlocksIInv, CopiesCounted
<1> QED
  BY <1>8, <1>9, <1>10, <1>11, <1>12 DEF BlocksIInv

LEMMA ReleaseKeeps ==
  ASSUME BlocksIInv, NEW b \in HeapBlocks, Release(b)
  PROVE  BlocksIInv'
<1> USE DEF Release, Idle
<1>1. BlocksTypeOK /\ todo = <<>> /\ todo' = <<Blk(b)>> /\ Items(todo) = {}
      /\ Items(todo') = {Blk(b)} /\ UNCHANGED block
  BY ItemsEmpty, ItemsOne DEF BlocksIInv
<1>2. refs[b] \in Nat /\ refs[b] > 0 /\ refs' = [refs EXCEPT ![b] = refs[b] - 1]
      /\ block[b].count \in {1, Latch}
  <2>1. refs[b] \in Nat /\ refs[b] > 0
    BY <1>1 DEF BlocksTypeOK
  <2> QED
    BY <2>1, HeldIsCounted
<1>3. refs'[b] = refs[b] - 1 /\ \A d \in HeapBlocks : d # b => refs'[d] = refs[d]
  BY <1>1, <1>2 DEF BlocksTypeOK
<1>4. \A item : CapturedLive(item)' <=> CapturedLive(item)
  BY <1>1 DEF CapturedLive
<1>5. \A item : Captured(item)' <=> Captured(item) \/ item = Blk(b)
  BY <1>1 DEF Captured
<1>6. BlocksTypeOK'
  <2>1. Blk(b) \in Work
    BY DEF Work, Item
  <2>2. todo' \in Seq(Work)
    BY <2>1
  <2>3. refs' \in [HeapBlocks -> Nat]
    BY <1>1, <1>2 DEF BlocksTypeOK
  <2> QED
    BY <1>1, <2>2, <2>3 DEF BlocksTypeOK
<1>7. NoneAtZero'
  BY <1>1, <1>2, <1>3, <1>5, NamesApart, BlocksAssumption DEF BlocksIInv, NoneAtZero
<1>8. OneAtOne'
  <2> SUFFICES ASSUME NEW d \in HeapBlocks, block[d].count = 1
               PROVE  /\ ~ CapturedLive(Blk(d))
                      /\ \/ refs'[d] = 1 /\ Blk(d) \notin Items(todo')
                         \/ refs'[d] = 0 /\ todo' = <<Blk(d)>>
    BY <1>1, <1>4 DEF OneAtOne
  <2>1. ~ CapturedLive(Blk(d)) /\ refs[d] = 1
    BY <1>1 DEF BlocksIInv, OneAtOne
  <2> QED
    BY <1>1, <1>3, <2>1, NamesApart
<1>9. LiveIfCounted'
  BY <1>1, NamesApart DEF BlocksIInv, LiveIfCounted
<1>10. CopiesCounted'
  BY DEF BlocksIInv, CopiesCounted
<1> QED
  BY <1>6, <1>7, <1>8, <1>9, <1>10 DEF BlocksIInv

LEMMA FreeBlockKeeps ==
  ASSUME BlocksIInv, FreeBlock
  PROVE  BlocksIInv'
<1> USE DEF FreeBlock, Doing
<1> DEFINE b == Head(todo).x
<1>1. BlocksTypeOK /\ todo # <<>> /\ todo \in Seq(Work) /\ todo' = Tail(todo)
  BY DEF BlocksIInv, BlocksTypeOK
<1>2. Head(todo) \in Items(todo) /\ Items(todo') \subseteq Items(todo) /\ todo' \in Seq(Work)
  BY <1>1, ItemsTail
<1>3. b \in HeapBlocks /\ Head(todo) = Gone(b)
  BY <1>1, <1>2, ItemsTyped, WorkFacts
<1>4. block[b].count = 0 /\ block[b] \in Block
  BY <1>1, <1>2, <1>3 DEF BlocksIInv, LiveIfCounted, BlocksTypeOK
<1>5. block' = [block EXCEPT ![b] = [block[b] EXCEPT !.state = "freed"]]
  OBVIOUS
<1> HIDE DEF b
<1>6. /\ block'[b].count = 0 /\ block'[b].captured = block[b].captured
      /\ block'[b] \in Block
  <2>1. block'[b] = [block[b] EXCEPT !.state = "freed"]
    BY <1>1, <1>3, <1>5 DEF BlocksTypeOK
  <2> QED
    BY <1>4, <2>1 DEF Block
<1>7. \A d \in HeapBlocks : block'[d].count = block[d].count
        /\ block'[d].captured = block[d].captured /\ (d # b => block'[d] = block[d])
  BY <1>1, <1>4, <1>5, <1>6 DEF BlocksTypeOK
<1>8. \A item : CapturedLive(item)' <=> CapturedLive(item)
  BY <1>7 DEF CapturedLive
<1>9. \A item : Captured(item)' => Captured(item)
  BY <1>2, <1>7 DEF Captured
<1>10. BlocksTypeOK'
  <2>1. block' \in [HeapBlocks -> Block]
    BY <1>1, <1>3, <1>5, <1>6 DEF BlocksTypeOK
  <2> QED
    BY <1>1, <1>2, <2>1 DEF BlocksTypeOK
<1>11. NoneAtZero'
  BY <1>7, <1>9 DEF BlocksIInv, NoneAtZero
<1>12. OneAtOne'
  <2>1. \A d \in HeapBlocks : todo # <<Blk(d)>>
    BY <1>3, NamesApart
  <2> QED
    <3>1. SUFFICES ASSUME NEW d \in HeapBlocks, block'[d].count = 1
                   PROVE  ~ CapturedLive(Blk(d))' /\ refs'[d] = 1 /\ Blk(d) \notin Items(todo')
      BY DEF OneAtOne
    <3>2. block[d].count = 1 /\ todo # <<Blk(d)>> /\ refs' = refs
      BY <1>7, <2>1, <3>1
    <3>3. ~ CapturedLive(Blk(d)) /\ refs[d] = 1 /\ Blk(d) \notin Items(todo)
      BY <3>2 DEF BlocksIInv, OneAtOne
    <3> QED
      BY <1>2, <1>8, <3>2, <3>3
<1>13. LiveIfCounted'
  <2>1. SUFFICES ASSUME NEW d \in HeapBlocks
                 PROVE  /\ block'[d].count > 0 => block'[d].state = "live"
                        /\ Gone(d) \in Items(todo') => block'[d].count = 0
    BY DEF LiveIfCounted
  <2>2. /\ block[d].count > 0 => block[d].state = "live"
        /\ Gone(d) \in Items(todo) => block[d].count = 0
    BY DEF BlocksIInv, LiveIfCounted
  <2>3. block'[d].count > 0 => block'[d] = block[d]
    BY <1>6, <1>7
  <2> QED
    BY <1>2, <1>7, <2>2, <2>3
<1>14. CopiesCounted'
  BY DEF BlocksIInv, CopiesCounted
<1> QED
  BY <1>10, <1>11, <1>12, <1>13, <1>14 DEF BlocksIInv

(* The release of a latched block changes nothing; that of a block at 1 is *)
(* the only work there is, and what the block captured is all latched.     *)
LEMMA DropBlockKeeps ==
  ASSUME BlocksIInv, DropBlock
  PROVE  BlocksIInv'
<1> USE DEF DropBlock, Doing
<1> DEFINE b == Head(todo).x
           n == LatchingDecr(block[b].count)
<1>1. BlocksTypeOK /\ todo # <<>> /\ todo \in Seq(Work)
  BY DEF BlocksIInv, BlocksTypeOK
<1>2. Head(todo) \in Items(todo) /\ Items(Tail(todo)) \subseteq Items(todo)
      /\ Tail(todo) \in Seq(Work)
  BY <1>1, ItemsTail
<1>3. b \in HeapBlocks /\ Head(todo) = Blk(b)
  BY <1>1, <1>2, ItemsTyped, WorkFacts
<1>4. block[b] \in Block /\ block[b].count \in {1, Latch} /\ block[b].captured \in Seq(Item)
      /\ Latch > 2 /\ Latch \in Nat
  BY <1>1, <1>2, <1>3, HeldIsCounted DEF BlocksTypeOK, Block
<1>5. /\ block' = [block EXCEPT ![b] = [block[b] EXCEPT !.count = n]]
      /\ todo' = IF n > 0 THEN Tail(todo)
                 ELSE block[b].captured \o <<Gone(b)>> \o Tail(todo)
      /\ UNCHANGED <<byref, scope, refs, copies, crashed>>
  OBVIOUS
<1> HIDE DEF b, DropBlock
<1>6. CASE block[b].count = Latch
  <2>1. n = Latch
    BY <1>6 DEF LatchingDecr
  <2>2. [block[b] EXCEPT !.count = n] = block[b]
    BY <1>4, <1>6, <2>1 DEF Block
  <2>3. block' = block
    BY <1>1, <1>5, <2>2 DEF BlocksTypeOK
  <2>4. todo' = Tail(todo)
    <3> HIDE DEF n
    <3>1. n > 0
      BY <1>4, <2>1
    <3> QED
      BY <1>5, <3>1
  <2>5. \A d \in HeapBlocks : todo = <<Blk(d)>> => block[d].count # 1
    BY <1>3, <1>4, <1>6, NamesApart
  <2>6. (NoneAtZero /\ OneAtOne /\ LiveIfCounted)'
    BY <1>2, <1>5, <2>3, <2>4, <2>5, SameBlocks
  <2>7. BlocksTypeOK'
    BY <1>1, <1>2, <1>5, <2>3, <2>4 DEF BlocksTypeOK
  <2>8. CopiesCounted'
    BY <1>5 DEF BlocksIInv, CopiesCounted
  <2> QED
    BY <2>6, <2>7, <2>8 DEF BlocksIInv
<1>7. CASE block[b].count = 1
  <2>1. n = 0
    BY <1>4, <1>7 DEF LatchingDecr
  <2>2. refs[b] = 0 /\ todo = <<Blk(b)>> /\ ~ CapturedLive(Blk(b))
    BY <1>2, <1>3, <1>7 DEF BlocksIInv, OneAtOne
  <2>3. Tail(todo) = <<>> /\ Items(todo) = {Blk(b)}
    BY <2>2, ItemsOne
  <2>4. block[b].captured \in Seq(Work) /\ <<Gone(b)>> \in Seq(Work)
    <3>1. Item \subseteq Work /\ Gone(b) \in Work
      BY <1>3 DEF Work
    <3>2. \A T : Item \subseteq T => Seq(Item) \subseteq Seq(T)
      OBVIOUS
    <3> QED
      BY <1>4, <3>1, <3>2
  <2>5. todo' = block[b].captured \o <<Gone(b)>> /\ todo' \in Seq(Work)
    <3> HIDE DEF n
    <3>1. todo' = block[b].captured \o <<Gone(b)>> \o Tail(todo)
      BY <1>5, <2>1
    <3>2. block[b].captured \o <<Gone(b)>> \in Seq(Work)
      BY <2>4
    <3>3. block[b].captured \o <<Gone(b)>> \o <<>> = block[b].captured \o <<Gone(b)>>
      BY <3>2
    <3> QED
      BY <2>3, <3>1, <3>2, <3>3
  <2>6. Items(todo') \subseteq Items(block[b].captured) \cup {Gone(b)}
    BY <2>4, <2>5, ItemsConcat, ItemsOne
  <2>7. Items(block[b].captured) \subseteq Item
    BY <1>4, ItemsTyped
  <2>8. \A d \in HeapBlocks : Blk(d) \in Items(todo') => CapturedLive(Blk(d))
    BY <1>3, <1>7, <2>6, NamesApart DEF CapturedLive
  <2>9. \A d \in HeapBlocks : Gone(d) \in Items(todo') => d = b
    <3>1. \A d \in HeapBlocks : Gone(d) \notin Item
      BY DEF Item, Gone, Var, Blk
    <3> QED
      BY <1>3, <2>6, <2>7, <3>1, NamesApart
  <2>10. block'[b].count = 0 /\ block'[b] \in Block
    <3>1. block'[b] = [block[b] EXCEPT !.count = 0]
      BY <1>1, <1>3, <1>5, <2>1 DEF BlocksTypeOK
    <3> QED
      BY <1>4, <3>1 DEF Block
  <2>11. \A d \in HeapBlocks : d # b => block'[d] = block[d]
    BY <1>1, <1>5 DEF BlocksTypeOK
  <2>12. \A item : CapturedLive(item)' => CapturedLive(item)
    BY <2>10, <2>11 DEF CapturedLive
  <2>13. \A d \in HeapBlocks : Captured(Blk(d))' => CapturedLive(Blk(d))
    BY <2>8, <2>12 DEF Captured, CapturedLive
  <2>14. BlocksTypeOK'
    <3>1. block' \in [HeapBlocks -> Block]
      BY <1>1, <1>3, <1>5, <2>10, <2>11 DEF BlocksTypeOK
    <3> QED
      BY <1>1, <1>5, <2>5, <3>1 DEF BlocksTypeOK
  <2>15. NoneAtZero'
    <3>1. \A d \in HeapBlocks : block'[d].count = 0 => ~ Captured(Blk(d))'
      BY <1>4, <2>2, <2>11, <2>13, HeldIsCounted
    <3>2. \A d \in HeapBlocks : block'[d].count = 0 => refs'[d] = 0
      BY <1>5, <2>2, <2>11 DEF BlocksIInv, NoneAtZero
    <3> QED
      BY <3>1, <3>2 DEF NoneAtZero
  <2>16. OneAtOne'
    <3> SUFFICES ASSUME NEW d \in HeapBlocks, block'[d].count = 1
                 PROVE  /\ ~ CapturedLive(Blk(d))' /\ refs'[d] = 1
                        /\ Blk(d) \notin Items(todo')
      BY DEF OneAtOne
    <3>1. d # b /\ block[d].count = 1
      BY <2>10, <2>11
    <3>2. ~ CapturedLive(Blk(d)) /\ todo # <<Blk(d)>>
      BY <1>3, <2>2, <3>1, NamesApart DEF BlocksIInv, OneAtOne
    <3>3. refs[d] = 1
      BY <3>1, <3>2 DEF BlocksIInv, OneAtOne
    <3> QED
      BY <1>5, <2>8, <2>12, <3>2, <3>3
  <2>17. LiveIfCounted'
    BY <2>9, <2>10, <2>11 DEF BlocksIInv, LiveIfCounted
  <2>18. CopiesCounted'
    BY <1>5 DEF BlocksIInv, CopiesCounted
  <2> QED
    BY <2>14, <2>15, <2>16, <2>17, <2>18 DEF BlocksIInv
<1> QED
  BY <1>4, <1>6, <1>7

LEMMA BlocksStep ==
  ASSUME BlocksIInv, [Next]_vars
  PROVE  BlocksIInv'
<1>1. CASE UNCHANGED vars
  BY <1>1 DEF vars, BlocksIInv, BlocksTypeOK, NoneAtZero, OneAtOne, LiveIfCounted,
              CopiesCounted, Captured, CapturedLive
<1>2. CASE Next
  BY <1>2, CopyHeapKeeps, ReleaseKeeps, CopyStackKeeps, LeaveScopeKeeps, DropBlockKeeps,
     FreeBlockKeeps, DropByrefKeeps DEF Next
<1> QED
  BY <1>1, <1>2

LEMMA BlocksInvariant == Spec => []BlocksIInv
  BY BlocksInitially, BlocksStep, PTL DEF Spec

----------------------------------------------------------------------------
(* Blocks, variables, references and the work of a release are what they   *)
(* are taken to be, and a count is 0, 1 or the latch (latching_incr_int    *)
(* and latching_decr_int go past every other number).                      *)
THEOREM BlocksTypeCorrect == Spec => []BlocksTypeOK
  BY BlocksInvariant, PTL DEF BlocksIInv

(* No closure on the heap is freed while the program, another closure or a *)
(* release in progress refers to it, although _Block_release takes every   *)
(* count but the latch straight to 0: only a single reference is ever      *)
(* counted as a number.                                                    *)
THEOREM BlocksSafe == Spec => []NoDanglingBlock
<1>1. ASSUME BlocksIInv, NEW b \in HeapBlocks, BlockUsed(b)
      PROVE  block[b].state = "live" /\ block[b].count > 0
  <2>1. block[b].count # 0
    BY <1>1 DEF BlocksIInv, BlocksTypeOK, BlockUsed, NoneAtZero
  <2> QED
    BY <1>1, <2>1, HeldIsCounted DEF BlocksIInv, LiveIfCounted
<1>2. ASSUME BlocksIInv, NEW b \in HeapBlocks,
             refs[b] > 1 \/ (refs[b] > 0 /\ Captured(Blk(b)))
      PROVE  block[b].count = Latch
  <2>1. refs[b] > 0
    BY <1>2 DEF BlocksIInv, BlocksTypeOK
  <2>2. block[b].count # 1
    <3> SUFFICES ASSUME block[b].count = 1 PROVE FALSE
      OBVIOUS
    <3>1. ~ CapturedLive(Blk(b)) /\ refs[b] = 1 /\ Blk(b) \notin Items(todo)
      BY <1>2, <2>1 DEF BlocksIInv, OneAtOne
    <3> QED
      BY <1>2, <3>1 DEF Captured, CapturedLive
  <2> QED
    BY <1>2, <2>1, <2>2, HeldIsCounted
<1>3. BlocksIInv => NoDanglingBlock
  BY <1>1, <1>2 DEF NoDanglingBlock
<1> QED
  BY <1>3, BlocksInvariant, PTL

(* A __block variable is freed under its frame or under a closure only if  *)
(* a single copy captured it: a second copy latches the count, and         *)
(* _Block_byref_release never takes it to 0 again.                         *)
THEOREM FreedCopiedOnce == Spec => []FreedIfCopiedOnce
<1>1. BlocksIInv => FreedIfCopiedOnce
  BY DEF BlocksIInv, CopiesCounted, FreedIfCopiedOnce
<1> QED
  BY <1>1, BlocksInvariant, PTL

(* Once latched, a block stays: one that was copied twice, or captured, is *)
(* never freed again, whatever releases follow.                            *)
THEOREM LatchedForever ==
  Spec => [][\A b \in HeapBlocks : block[b].count = Latch => block'[b] = block[b]]_vars
<1>1. ASSUME BlocksIInv, [Next]_vars
      PROVE  [\A b \in HeapBlocks : block[b].count = Latch => block'[b] = block[b]]_vars
  <2> SUFFICES ASSUME Next, NEW b \in HeapBlocks, block[b].count = Latch
               PROVE  block'[b] = block[b]
    BY <1>1
  <2>1. block[b] \in Block /\ block \in [HeapBlocks -> Block] /\ Latch > 2 /\ Latch \in Nat
    BY <1>1, BlocksAssumption DEF BlocksIInv, BlocksTypeOK
  <2>2. [block[b] EXCEPT !.count = Latch] = block[b]
    BY <2>1 DEF Block
  <2>3. ASSUME NEW d \in HeapBlocks, CopyHeap(d) PROVE block'[b] = block[b]
    BY <2>1, <2>2, <2>3 DEF CopyHeap, LatchingIncr
  <2>4. ASSUME NEW d \in HeapBlocks, NEW captured \in Captures, CopyStack(d, captured)
        PROVE  block'[b] = block[b]
    <3>1. block[d].state = "unused"
      BY <2>4 DEF CopyStack
    <3>2. d # b
      BY <1>1, <2>1, <3>1 DEF BlocksIInv, LiveIfCounted
    <3> QED
      BY <2>2, <2>4, <3>2 DEF CopyStack, LatchingIncr
  <2>5. ASSUME FreeBlock PROVE block'[b] = block[b]
    <3> DEFINE d == Head(todo).x
    <3>1. todo # <<>> /\ todo \in Seq(Work) /\ Head(todo).op = "free"
      BY <1>1, <2>5 DEF FreeBlock, Doing, BlocksIInv, BlocksTypeOK
    <3>2. Head(todo) \in Items(todo) /\ Head(todo) \in Work
      BY <3>1, ItemsTail, ItemsTyped
    <3>3. d \in HeapBlocks /\ Gone(d) \in Items(todo)
      BY <3>1, <3>2, WorkFacts
    <3>4. d # b
      BY <1>1, <2>1, <3>3 DEF BlocksIInv, LiveIfCounted
    <3> QED
      BY <2>1, <2>5, <3>4 DEF FreeBlock
  <2>6. ASSUME DropBlock PROVE block'[b] = block[b]
    <3> DEFINE d == Head(todo).x
    <3>1. block' = [block EXCEPT ![d].count = LatchingDecr(block[d].count)]
      BY <2>6 DEF DropBlock
    <3>2. CASE d = b
      <4>1. LatchingDecr(block[d].count) = Latch
        BY <3>2 DEF LatchingDecr
      <4> QED
        BY <2>1, <2>2, <3>1, <3>2, <4>1
    <3>3. CASE d # b
      BY <2>1, <3>1, <3>3
    <3> QED
      BY <3>2, <3>3
  <2> QED
    BY <2>3, <2>4, <2>5, <2>6 DEF Next, Release, LeaveScope, DropByref
<1> QED
  BY <1>1, BlocksInvariant, PTL DEF Spec

----------------------------------------------------------------------------
(* Strings.                                                                 *)
Text == Seq(Chars \cup {Junk})

Object ==
  [form : {"none", "short", "long", "overrun", "unknown"}, chars : Text,
   capacity : Nat, room : Nat, ended : BOOLEAN, fresh : BOOLEAN]

IsWhole(o) == o.form \in {"short", "long"}

(* CapacityCounts of one object.                                           *)
Fits(o) ==
  /\ IsWhole(o) => Len(o.chars) < o.room /\ o.capacity \in {o.room, o.room + 1}
  /\ o.form = "short" => o.capacity = SMALL_STR_CAPACITY /\ o.room = SMALL_STR_CAPACITY
  /\ o.form = "long" => o.capacity % 2 = 1

(* The memory is not what the capacity says.                               *)
OneTooHigh(o) == o.form = "long" /\ o.capacity > o.room

StringIInv ==
  /\ str \in [Strings -> Object]
  /\ value \in [Strings -> Text]
  /\ unfinished \subseteq Strings
  /\ \A s \in Strings : Fits(str[s])
  /\ ValueKept

----------------------------------------------------------------------------
LEMMA MarkedFacts ==
  ASSUME NEW n \in Nat
  PROVE  Marked(n) \in Nat /\ Marked(n) \in {n, n + 1} /\ Marked(n) % 2 = 1
  BY DEF Marked

(* There is room for one more than what is asked for.                      *)
LEMMA BestFacts ==
  ASSUME NEW len \in Nat
  PROVE  BestCapacity(len) \in Nat /\ BestCapacity(len) > len
<1>1. Step \in Nat \ {0}
  BY StringAssumption
<1> DEFINE q == (len + Step) \div Step
<1>2. q \in Nat
  BY <1>1
<1>3. len + Step = q * Step + ((len + Step) % Step) /\ (len + Step) % Step < Step
  BY <1>1
<1>4. q * Step \in Nat
  BY <1>1, <1>2
<1>5. (len + Step) % Step \in Nat
  BY <1>1
<1> HIDE DEF q
<1>6. q * Step > len
  BY <1>1, <1>3, <1>4, <1>5
<1> QED
  BY <1>4, <1>6 DEF BestCapacity, q

LEMMA NoneFits ==
  /\ None \in Object /\ Fits(None) /\ None.form = "none"
  /\ Overrun \in Object /\ Fits(Overrun) /\ Overrun.form = "overrun"
  /\ Unknown \in Object /\ Fits(Unknown) /\ Unknown.form = "unknown"
<1>1. <<>> \in Text
  BY DEF Text
<1>2. None \in Object /\ None.form = "none"
  BY <1>1 DEF None, Object
<1>3. Overrun \in Object /\ Overrun.form = "overrun"
  BY <1>1 DEF None, Overrun, Object
<1>4. Unknown \in Object /\ Unknown.form = "unknown"
  BY <1>1 DEF None, Unknown, Object
<1> QED
  BY <1>2, <1>3, <1>4 DEF Fits, IsWhole

LEMMA ShortFits ==
  ASSUME NEW chars \in Text, NEW ended \in BOOLEAN, NEW fresh \in BOOLEAN,
         Len(chars) < SMALL_STR_CAPACITY
  PROVE  /\ Short(chars, ended, fresh) \in Object
         /\ Fits(Short(chars, ended, fresh))
         /\ Short(chars, ended, fresh).form = "short"
         /\ Short(chars, ended, fresh).chars = chars
         /\ Short(chars, ended, fresh).ended = ended
         /\ Short(chars, ended, fresh).fresh = fresh
  BY StringAssumption DEF Short, Object, Fits, IsWhole

LEMMA LongFits ==
  \A chars \in Text, room \in Nat, ended \in BOOLEAN, fresh \in BOOLEAN :
    LET o == Long(chars, room, ended, fresh) IN
    Len(chars) < room =>
      /\ o \in Object /\ Fits(o) /\ o.form = "long" /\ o.chars = chars
      /\ o.ended = ended /\ o.fresh = fresh /\ o.room = room
  BY MarkedFacts DEF Long, Object, Fits, IsWhole

(* What init makes of a text.                                              *)
LEMMA MadeFits ==
  ASSUME NEW text \in Text, NEW ended \in BOOLEAN
  PROVE  LET o == Made(text, ended) IN
         /\ o \in Object /\ Fits(o)
         /\ o.form \in {"short", "long", "overrun"}
         /\ o.form = "overrun" =>
              Len(text) \in {SMALL_STR_CAPACITY - 1, SMALL_STR_CAPACITY}
         /\ o.form # "overrun" => o.chars = text /\ o.fresh = TRUE
<1>1. Len(text) \in Nat /\ SMALL_STR_CAPACITY \in Nat
  BY StringAssumption DEF Text
<1>2. CASE Len(text) <= SMALL_STR_CAPACITY
  <2> DEFINE o == Short(text, ended, TRUE)
  <2>1. Made(text, ended) = IF Len(text) + 2 > SMALL_STR_CAPACITY THEN Overrun ELSE o
    BY <1>2 DEF Made, Writing, Short
  <2>2. CASE Len(text) + 2 > SMALL_STR_CAPACITY
    BY <2>1, <2>2, <1>1, <1>2, NoneFits
  <2>3. CASE ~(Len(text) + 2 > SMALL_STR_CAPACITY)
    <3>1. Len(text) < SMALL_STR_CAPACITY
      BY <1>1, <2>3
    <3>2. o \in Object /\ Fits(o) /\ o.form = "short" /\ o.chars = text /\ o.fresh = TRUE
      BY ONLY <3>1, ShortFits, text \in Text, ended \in BOOLEAN
    <3> HIDE DEF o
    <3>3. Made(text, ended) = o
      BY <2>1, <2>3
    <3> QED
      BY <3>2, <3>3
  <2> QED
    BY <2>2, <2>3
<1>3. CASE ~(Len(text) <= SMALL_STR_CAPACITY)
  <2>1. PICK room \in Nat : room = BestCapacity(Len(text)) + 1 /\ Len(text) + 2 <= room
    <3>1. BestCapacity(Len(text)) \in Nat /\ BestCapacity(Len(text)) > Len(text)
      BY ONLY <1>1, BestFacts
    <3> QED
      BY <1>1, <3>1
  <2>2. Made(text, ended) = Writing(Len(text) + 2, Long(text, room, ended, TRUE))
    BY <1>3, <2>1 DEF Made
  <2>3. Len(text) + 2 \in Nat /\ Len(text) < room
    BY <1>1, <2>1
  <2>4. Made(text, ended) = Long(text, room, ended, TRUE)
    BY <2>1, <2>2, <2>3 DEF Writing, Long
  <2>5. Long(text, room, ended, TRUE) \in Object /\ Fits(Long(text, room, ended, TRUE))
    BY ONLY <2>1, <2>3, LongFits, text \in Text, ended \in BOOLEAN, Zenon
  <2> QED
    BY ONLY <2>4, <2>5 DEF Long
<1> QED
  BY <1>2, <1>3

(* What grow_by_and_replace makes of one.                                  *)
LEMMA ReplacedFits ==
  ASSUME NEW o \in Object, NEW chars \in Text
  PROVE  LET r == Replaced(o, Len(chars), chars) IN
         /\ r \in Object /\ Fits(r) /\ r.form = "long"
         /\ r.chars = chars /\ r.ended = TRUE
<1>1. Len(chars) \in Nat
  BY DEF Text
<1>2. Len(chars) + 1 \in Nat /\ Len(chars) < Len(chars) + 1
  BY <1>1
<1>3. LET w == Long(chars, Len(chars) + 1, TRUE, FALSE) IN
      /\ w \in Object /\ Fits(w) /\ w.form = "long" /\ w.chars = chars /\ w.ended = TRUE
  BY ONLY <1>2, LongFits, chars \in Text
<1>4. Replaced(o, Len(chars), chars) = Long(chars, Len(chars) + 1, TRUE, FALSE)
  BY <1>1 DEF Replaced, Writing, Long
<1> QED
  BY ONLY <1>3, <1>4

(* A write to an object that stays what it is.                             *)
LEMMA WrittenFits ==
  ASSUME NEW o \in Object, IsWhole(o), Fits(o), NEW chars \in Text
  PROVE  LET w == Writing(Len(chars) + 1,
                    [o EXCEPT !.chars = chars, !.ended = TRUE, !.fresh = FALSE]) IN
         /\ w \in Object /\ Fits(w)
         /\ w.form \in {"short", "long", "overrun"}
         /\ w.form = "overrun" => Len(chars) >= o.room
         /\ w.form # "overrun" => w.chars = chars /\ w.ended = TRUE
<1> DEFINE n == [o EXCEPT !.chars = chars, !.ended = TRUE, !.fresh = FALSE]
<1>1. Len(chars) \in Nat /\ o.room \in Nat
  BY DEF Text, Object
<1>2. /\ n \in Object /\ n.form = o.form /\ n.chars = chars /\ n.ended = TRUE
      /\ n.room = o.room /\ n.capacity = o.capacity
  BY DEF Object
<1>3. CASE Len(chars) + 1 > o.room
  BY <1>1, <1>2, <1>3, NoneFits DEF Writing
<1>4. CASE ~(Len(chars) + 1 > o.room)
  <2>1. Fits(n)
    BY <1>1, <1>2, <1>4 DEF Fits, IsWhole
  <2> QED
    BY <1>1, <1>2, <1>4, <2>1 DEF Writing, IsWhole
<1> QED
  BY <1>3, <1>4

LEMMA GrownFits ==
  ASSUME NEW o \in Object, NEW new \in Nat, new >= Len(o.chars), NEW ended \in BOOLEAN
  PROVE  LET g == Grown(o, new, ended) IN
         /\ g \in Object /\ Fits(g) /\ g.form = "long"
         /\ g.chars = o.chars /\ g.room \in Nat /\ Len(o.chars) + 2 <= g.room
         /\ g.ended \/ g.fresh
<1>1. o.chars \in Text /\ Len(o.chars) \in Nat
  BY DEF Object, Text
<1>2. PICK room \in Nat : room = BestCapacity(new) + 1 /\ Len(o.chars) + 2 <= room
  <2>1. BestCapacity(new) \in Nat /\ BestCapacity(new) > new
    BY ONLY BestFacts, new \in Nat
  <2> QED
    BY <1>1, <2>1
<1>3. Len(o.chars) + 1 \in Nat /\ Len(o.chars) + 1 <= room /\ Len(o.chars) < room
  BY <1>1, <1>2
<1>4. Grown(o, new, ended) =
        Writing(Len(o.chars) + 1, Long(o.chars, room, ended \/ o.chars # <<>>, o.chars = <<>>))
  BY <1>2 DEF Grown, Size
<1>5. CASE o.chars = <<>>
  <2>1. Grown(o, new, ended) = Long(o.chars, room, ended, TRUE)
    <3>1. (ended \/ o.chars # <<>>) = ended /\ (o.chars = <<>>) = TRUE
      BY <1>5
    <3>2. Grown(o, new, ended) = Writing(Len(o.chars) + 1, Long(o.chars, room, ended, TRUE))
      BY ONLY <1>4, <3>1
    <3> QED
      BY ONLY <1>3, <3>2, room \in Nat DEF Writing, Long
  <2>2. /\ Long(o.chars, room, ended, TRUE) \in Object
        /\ Fits(Long(o.chars, room, ended, TRUE))
    BY ONLY <1>1, <1>2, <1>3, LongFits, ended \in BOOLEAN, Zenon
  <2> QED
    BY ONLY <1>2, <2>1, <2>2 DEF Long
<1>6. CASE o.chars # <<>>
  <2>1. Grown(o, new, ended) = Long(o.chars, room, TRUE, FALSE)
    <3>1. (ended \/ o.chars # <<>>) = TRUE /\ (o.chars = <<>>) = FALSE
      BY <1>6
    <3>2. Grown(o, new, ended) = Writing(Len(o.chars) + 1, Long(o.chars, room, TRUE, FALSE))
      BY ONLY <1>4, <3>1
    <3> QED
      BY ONLY <1>3, <3>2, room \in Nat DEF Writing, Long
  <2>2. /\ Long(o.chars, room, TRUE, FALSE) \in Object
        /\ Fits(Long(o.chars, room, TRUE, FALSE))
    BY ONLY <1>1, <1>2, <1>3, LongFits, ended \in BOOLEAN, Zenon
  <2> QED
    BY ONLY <1>2, <2>1, <2>2 DEF Long
<1> QED
  BY <1>5, <1>6

(* A string that fits has its size below its capacity, and a write that    *)
(* the capacity allows passes the memory only where it is one too high.    *)
LEMMA CapacityBounds ==
  ASSUME NEW o \in Object, IsWhole(o), Fits(o)
  PROVE  /\ Len(o.chars) \in Nat /\ o.room \in Nat /\ Capacity(o) \in Nat
         /\ Len(o.chars) <= Capacity(o) /\ o.room <= Capacity(o) + 1
         /\ Capacity(o) + 1 > o.room => OneTooHigh(o)
<1>1. Len(o.chars) \in Nat /\ o.room \in Nat /\ o.capacity \in Nat
  BY DEF Object, Text
<1>2. Len(o.chars) < o.room /\ o.capacity \in {o.room, o.room + 1}
  BY DEF Fits
<1>3. Capacity(o) = o.capacity - 1
  BY DEF Capacity
<1>4. o.capacity > o.room => o.form = "long"
  BY <1>1 DEF Fits, IsWhole
<1>5. Capacity(o) \in Nat /\ Capacity(o) + 1 = o.capacity
  BY <1>1, <1>2, <1>3
<1> QED
  BY <1>1, <1>2, <1>4, <1>5 DEF OneTooHigh

LEMMA AppendedFits ==
  ASSUME NEW o \in Object, IsWhole(o), Fits(o), NEW text \in Text
  PROVE  LET w == Appended(o, text) IN
         /\ w \in Object /\ Fits(w)
         /\ w.form \in {"short", "long", "overrun"}
         /\ w.form = "overrun" => OneTooHigh(o)
         /\ w.form # "overrun" =>
              /\ w.chars = o.chars \o text
              /\ (o.ended \/ o.fresh) => (w.ended \/ w.fresh)
<1> DEFINE chars == o.chars \o text
<1>1. /\ Len(o.chars) \in Nat /\ o.room \in Nat /\ Capacity(o) \in Nat
      /\ Len(o.chars) <= Capacity(o) /\ o.room <= Capacity(o) + 1
      /\ Capacity(o) + 1 > o.room => OneTooHigh(o)
  BY CapacityBounds
<1>2. o.chars \in Text
  BY DEF Object
<1>3. chars \in Text /\ Len(chars) = Len(o.chars) + Len(text) /\ Len(text) \in Nat
  BY <1>2 DEF Text
<1>4. ~(Capacity(o) < Size(o)) /\ Size(o) = Len(o.chars)
  BY <1>1 DEF Size
<1>5. CASE ~(Capacity(o) - Size(o) >= Len(text))
  <2>1. Appended(o, text) = Replaced(o, Len(chars), chars)
    BY <1>3, <1>4, <1>5 DEF Appended
  <2>2. LET r == Replaced(o, Len(chars), chars) IN
        r \in Object /\ Fits(r) /\ r.form = "long" /\ r.chars = chars /\ r.ended = TRUE
    BY ONLY <1>3, ReplacedFits, o \in Object
  <2> QED
    BY ONLY <2>1, <2>2
<1>6. CASE Capacity(o) - Size(o) >= Len(text) /\ text = <<>>
  <2>1. Appended(o, text) = o
    BY <1>4, <1>6 DEF Appended
  <2>2. o.chars \o text = o.chars
    BY <1>2, <1>6 DEF Text
  <2> QED
    BY <2>1, <2>2 DEF IsWhole
<1>7. CASE Capacity(o) - Size(o) >= Len(text) /\ text # <<>>
  <2> DEFINE w == Writing(Len(chars) + 1,
                    [o EXCEPT !.chars = chars, !.ended = TRUE, !.fresh = FALSE])
  <2>1. Appended(o, text) = w
    BY <1>3, <1>4, <1>7 DEF Appended
  <2>2. /\ w \in Object /\ Fits(w) /\ w.form \in {"short", "long", "overrun"}
        /\ w.form = "overrun" => Len(chars) >= o.room
        /\ w.form # "overrun" => w.chars = chars /\ w.ended = TRUE
    BY <1>3, WrittenFits
  <2>3. Len(chars) >= o.room => OneTooHigh(o)
    BY <1>1, <1>3, <1>4, <1>7
  <2> HIDE DEF w
  <2> QED
    BY <2>1, <2>2, <2>3
<1> QED
  BY <1>5, <1>6, <1>7

Pushed(o, c) ==
  LET g == IF Full(o) THEN Grown(o, Capacity(o) + 1, TRUE) ELSE o
  IN Writing(Size(g) + 2,
       [g EXCEPT !.chars = Append(@, c), !.ended = TRUE, !.fresh = FALSE])

LEMMA PushedFits ==
  ASSUME NEW o \in Object, IsWhole(o), Fits(o), NEW c \in Chars
  PROVE  LET w == Pushed(o, c) IN
         /\ w \in Object /\ Fits(w)
         /\ w.form \in {"short", "long", "overrun"}
         /\ w.form = "overrun" => OneTooHigh(o)
         /\ w.form # "overrun" => w.chars = Append(o.chars, c) /\ w.ended = TRUE
<1>1. /\ Len(o.chars) \in Nat /\ o.room \in Nat /\ Capacity(o) \in Nat
      /\ Len(o.chars) <= Capacity(o) /\ o.room <= Capacity(o) + 1
      /\ Capacity(o) + 1 > o.room => OneTooHigh(o)
  BY CapacityBounds
<1> DEFINE g == IF Full(o) THEN Grown(o, Capacity(o) + 1, TRUE) ELSE o
<1>2. /\ g \in Object /\ Fits(g) /\ IsWhole(g) /\ g.chars = o.chars
      /\ Len(o.chars) + 1 >= g.room => OneTooHigh(o)
  <2>1. CASE Full(o)
    <3>1. Capacity(o) + 1 \in Nat /\ Capacity(o) + 1 >= Len(o.chars) /\ TRUE \in BOOLEAN
      BY <1>1
    <3>2. LET x == Grown(o, Capacity(o) + 1, TRUE) IN
          /\ x \in Object /\ Fits(x) /\ x.form = "long"
          /\ x.chars = o.chars /\ x.room \in Nat /\ Len(o.chars) + 2 <= x.room
      BY ONLY <3>1, GrownFits, o \in Object
    <3>3. g = Grown(o, Capacity(o) + 1, TRUE)
      BY <2>1
    <3> HIDE DEF g
    <3>4. g.room \in Nat /\ Len(o.chars) + 2 <= g.room
      BY ONLY <3>2, <3>3
    <3>5. ~(Len(o.chars) + 1 >= g.room)
      BY ONLY <1>1, <3>4
    <3> QED
      BY <3>2, <3>3, <3>5 DEF IsWhole
  <2>2. CASE ~Full(o)
    <3>1. Len(o.chars) # Capacity(o)
      BY <2>2 DEF Full, Size
    <3>2. Len(o.chars) + 1 >= o.room => OneTooHigh(o)
      BY <1>1, <3>1
    <3> QED
      BY <2>2, <3>2
  <2> QED
    BY <2>1, <2>2
<1> DEFINE chars == Append(o.chars, c)
<1>3. chars \in Text /\ Len(chars) = Len(o.chars) + 1
  BY DEF Object, Text
<1> DEFINE w == Writing(Len(chars) + 1,
                  [g EXCEPT !.chars = chars, !.ended = TRUE, !.fresh = FALSE])
<1> HIDE DEF g
<1>4. Pushed(o, c) = w
  <2>1. Size(g) = Len(o.chars)
    BY <1>2 DEF Size
  <2>2. Size(g) + 2 = Len(chars) + 1
    BY ONLY <1>1, <1>3, <2>1
  <2>3. Append(g.chars, c) = chars
    BY <1>2
  <2> QED
    BY <2>2, <2>3 DEF Pushed, g
<1>5. /\ w \in Object /\ Fits(w) /\ w.form \in {"short", "long", "overrun"}
      /\ w.form = "overrun" => Len(chars) >= g.room
      /\ w.form # "overrun" => w.chars = chars /\ w.ended = TRUE
  BY <1>2, <1>3, WrittenFits
<1> HIDE DEF w
<1> QED
  BY <1>2, <1>3, <1>4, <1>5

Assigned(o, chars) ==
  IF Capacity(o) >= Len(chars)
  THEN Writing(Len(chars) + 1, [o EXCEPT !.chars = chars, !.ended = TRUE, !.fresh = FALSE])
  ELSE Replaced(o, Len(chars), chars)

LEMMA AssignedFits ==
  ASSUME NEW o \in Object, IsWhole(o), Fits(o), NEW chars \in Text
  PROVE  LET w == Assigned(o, chars) IN
         /\ w \in Object /\ Fits(w)
         /\ w.form \in {"short", "long", "overrun"}
         /\ w.form = "overrun" => OneTooHigh(o)
         /\ w.form # "overrun" => w.chars = chars /\ w.ended = TRUE
<1>1. /\ Len(o.chars) \in Nat /\ o.room \in Nat /\ Capacity(o) \in Nat
      /\ Len(o.chars) <= Capacity(o) /\ o.room <= Capacity(o) + 1
      /\ Capacity(o) + 1 > o.room => OneTooHigh(o)
  BY CapacityBounds
<1>2. Len(chars) \in Nat
  BY DEF Text
<1>3. CASE Capacity(o) >= Len(chars)
  <2> DEFINE w == Writing(Len(chars) + 1,
                    [o EXCEPT !.chars = chars, !.ended = TRUE, !.fresh = FALSE])
  <2>1. Assigned(o, chars) = w
    BY <1>3 DEF Assigned
  <2>2. /\ w \in Object /\ Fits(w) /\ w.form \in {"short", "long", "overrun"}
        /\ w.form = "overrun" => Len(chars) >= o.room
        /\ w.form # "overrun" => w.chars = chars /\ w.ended = TRUE
    BY WrittenFits
  <2>3. Len(chars) >= o.room => OneTooHigh(o)
    BY <1>1, <1>2, <1>3
  <2> HIDE DEF w
  <2> QED
    BY <2>1, <2>2, <2>3
<1>4. CASE ~(Capacity(o) >= Len(chars))
  <2>1. Assigned(o, chars) = Replaced(o, Len(chars), chars)
    BY <1>4 DEF Assigned
  <2>2. LET r == Replaced(o, Len(chars), chars) IN
        r \in Object /\ Fits(r) /\ r.form = "long" /\ r.chars = chars /\ r.ended = TRUE
    BY ONLY ReplacedFits, o \in Object, chars \in Text
  <2> QED
    BY ONLY <2>1, <2>2
<1> QED
  BY <1>3, <1>4

LEMMA ResizedFits ==
  ASSUME NEW o \in Object, IsWhole(o), Fits(o), NEW n \in Nat
  PROVE  Resized(o, n) \in Object /\ Fits(Resized(o, n))
<1>1. Len(o.chars) \in Nat /\ Size(o) = Len(o.chars) /\ o.chars \in Text
  BY DEF Size, Object, Text
<1>2. CASE n > Size(o)
  <2>1. Resized(o, n) = Writing(n + 2, o)
    BY <1>1, <1>2 DEF Resized
  <2> QED
    BY <2>1, NoneFits DEF Writing
<1>3. CASE n = Size(o)
  BY <1>1, <1>3 DEF Resized
<1>4. CASE n < Size(o)
  <2> DEFINE chars == SubSeq(o.chars, 1, n)
  <2>1. chars \in Text /\ Len(chars) = n
    BY <1>1, <1>4 DEF Text
  <2>2. PICK room \in Nat : room = BestCapacity(n) + 1 /\ n < room
    <3>1. BestCapacity(n) \in Nat /\ BestCapacity(n) > n
      BY ONLY BestFacts, n \in Nat
    <3> QED
      BY <3>1
  <2>3. Resized(o, n) = Writing(Size(o) + 1, Long(chars, room, FALSE, FALSE))
    <3>1. ~(n > Size(o)) /\ n # Size(o)
      BY <1>1, <1>4
    <3> QED
      BY <2>2, <3>1, Zenon DEF Resized
  <2> HIDE DEF chars
  <2>4. /\ Long(chars, room, FALSE, FALSE) \in Object
        /\ Fits(Long(chars, room, FALSE, FALSE))
    BY <2>1, <2>2, LongFits, Zenon
  <2> QED
    BY <2>3, <2>4, NoneFits DEF Writing
<1> QED
  BY <1>1, <1>2, <1>3, <1>4

----------------------------------------------------------------------------
(* What an overrun may come from: OverrunOnlyHere of one string.           *)
Cause(s) ==
  \/ str[s].form = "none"
     /\ Len(value'[s]) \in {SMALL_STR_CAPACITY - 1, SMALL_STR_CAPACITY}
  \/ OneTooHigh(str[s])
  \/ s \in unfinished'

Overruns ==
  \A s \in Strings :
    str[s].form # "overrun" /\ str'[s].form = "overrun" => Cause(s)

Kept(o, v) == o.chars = v /\ (o.ended \/ o.fresh)

(* A call changes one string.                                              *)
LEMMA OneChange ==
  ASSUME StringIInv, NEW s \in Strings, NEW o \in Object, Fits(o), NEW v \in Text,
         str' = [str EXCEPT ![s] = o], value' = [value EXCEPT ![s] = v],
         unfinished' \in {unfinished, unfinished \cup {s}, unfinished \ {s}},
         IsWhole(o) /\ s \notin unfinished' => Kept(o, v),
         o.form = "overrun" => str[s].form = "overrun" \/ Cause(s)
  PROVE  StringIInv' /\ Overruns
<1>1. str \in [Strings -> Object] /\ value \in [Strings -> Text] /\ unfinished \subseteq Strings
  BY DEF StringIInv
<1>2. str' \in [Strings -> Object] /\ value' \in [Strings -> Text]
      /\ unfinished' \subseteq Strings
  BY <1>1
<1>3. str'[s] = o /\ value'[s] = v
  BY <1>1
<1>4. \A t \in Strings : t # s =>
        str'[t] = str[t] /\ value'[t] = value[t] /\ (t \in unfinished' <=> t \in unfinished)
  BY <1>1
<1>5. \A t \in Strings : Fits(str'[t])
  BY <1>3, <1>4 DEF StringIInv
<1>6. ValueKept'
  <2>1. SUFFICES ASSUME NEW t \in Strings, IsWhole(str'[t]), t \notin unfinished'
                 PROVE  Kept(str'[t], value'[t])
    BY DEF ValueKept, Whole, IsWhole, Kept
  <2>2. CASE t = s
    BY <1>3, <2>1, <2>2
  <2>3. CASE t # s
    <3>1. IsWhole(str[t]) /\ t \notin unfinished
      BY <1>4, <2>1, <2>3
    <3>2. Kept(str[t], value[t])
      BY <3>1 DEF StringIInv, ValueKept, Whole, IsWhole, Kept
    <3> QED
      BY <1>4, <2>3, <3>2
  <2> QED
    BY <2>2, <2>3
<1>7. Overruns
  BY <1>3, <1>4 DEF Overruns
<1>8. StringIInv'
  BY <1>2, <1>5, <1>6 DEF StringIInv
<1> QED
  BY <1>7, <1>8

(* A text of the program is a text, and so is a run of one character.      *)
LEMMA TextFacts ==
  /\ \A text \in Texts : text \in Text
  /\ \A n \in Nat : [i \in 1 .. n |-> Junk] \in Text /\ Len([i \in 1 .. n |-> Junk]) = n
  /\ <<>> \in Text
<1>1. ASSUME NEW text \in Texts PROVE text \in Text
  BY StringAssumption DEF Text
<1>2. ASSUME NEW n \in Nat
      PROVE  [i \in 1 .. n |-> Junk] \in Text /\ Len([i \in 1 .. n |-> Junk]) = n
  BY <1>2 DEF Text
<1> QED
  BY <1>1, <1>2 DEF Text

(* The state a call finds.                                                 *)
LEMMA Before ==
  ASSUME StringIInv, NEW s \in Strings
  PROVE  /\ str[s] \in Object /\ Fits(str[s]) /\ value[s] \in Text /\ str[s].chars \in Text
         /\ str[s].chars \in Seq(Chars \cup {Junk}) /\ Len(str[s].chars) \in Nat
         /\ Whole(s) <=> IsWhole(str[s])
         /\ IsWhole(str[s]) /\ s \notin unfinished => Kept(str[s], value[s])
         /\ str = [str EXCEPT ![s] = str[s]] /\ value = [value EXCEPT ![s] = value[s]]
<1>1. str \in [Strings -> Object] /\ value \in [Strings -> Text] /\ Fits(str[s])
  BY DEF StringIInv
<1>2. str[s] \in Object /\ value[s] \in Text
  BY <1>1
<1>3. str[s].chars \in Text
  BY <1>2 DEF Object
<1>4. str[s].chars \in Seq(Chars \cup {Junk}) /\ Len(str[s].chars) \in Nat
  BY <1>3 DEF Text
<1>5. IsWhole(str[s]) /\ s \notin unfinished => Kept(str[s], value[s])
  BY DEF StringIInv, ValueKept, Whole, IsWhole, Kept
<1>6. Whole(s) <=> IsWhole(str[s])
  BY DEF Whole, IsWhole
<1>7. str = [str EXCEPT ![s] = str[s]] /\ value = [value EXCEPT ![s] = value[s]]
  BY <1>1
<1> QED
  BY <1>1, <1>2, <1>3, <1>4, <1>5, <1>6, <1>7

LEMMA StepMakeFrom ==
  ASSUME StringIInv, NEW s \in Strings, NEW text \in Texts, MakeFrom(s, text)
  PROVE  StringIInv' /\ Overruns
<1>1. PICK ended \in BOOLEAN : str' = [str EXCEPT ![s] = Made(text, ended)]
  BY DEF MakeFrom
<1> DEFINE o == Made(text, ended)
<1>2. text \in Text
  BY TextFacts
<1>3. /\ o \in Object /\ Fits(o) /\ o.form \in {"short", "long", "overrun"}
      /\ o.form = "overrun" => Len(text) \in {SMALL_STR_CAPACITY - 1, SMALL_STR_CAPACITY}
      /\ o.form # "overrun" => o.chars = text /\ o.fresh = TRUE
  BY <1>1, <1>2, MadeFits
<1>4. value' = [value EXCEPT ![s] = text] /\ unfinished' = unfinished /\ str[s].form = "none"
  BY DEF MakeFrom
<1>5. value'[s] = text
  BY <1>4 DEF StringIInv
<1> HIDE DEF o
<1>6. o.form = "overrun" => Cause(s)
  BY <1>3, <1>4, <1>5 DEF Cause
<1>7. IsWhole(o) => Kept(o, text)
  BY <1>3 DEF IsWhole, Kept
<1>8. str' = [str EXCEPT ![s] = o]
  BY <1>1 DEF o
<1> QED
  BY <1>2, <1>3, <1>4, <1>6, <1>7, <1>8, OneChange

LEMMA StepMakeOf ==
  ASSUME StringIInv, NEW s \in Strings, NEW n \in 0 .. MaxLen, MakeOf(s, n)
  PROVE  StringIInv' /\ Overruns
<1> DEFINE junk == [i \in 1 .. n |-> Junk]
<1>1. n \in Nat /\ junk \in Text /\ Len(junk) = n
  BY StringAssumption, TextFacts
<1> HIDE DEF junk
<1>2. PICK ended \in BOOLEAN : str' = [str EXCEPT ![s] =
          IF n < SMALL_STR_CAPACITY THEN Short(junk, ended, TRUE)
          ELSE Long(junk, BestCapacity(n) + 1, ended, TRUE)]
  BY DEF MakeOf, junk
<1>3. PICK o \in Object : Fits(o) /\ o.form # "overrun" /\ str' = [str EXCEPT ![s] = o]
  <2>1. CASE n < SMALL_STR_CAPACITY
    <3>1. Len(junk) < SMALL_STR_CAPACITY
      BY <1>1, <2>1
    <3>2. /\ Short(junk, ended, TRUE) \in Object /\ Fits(Short(junk, ended, TRUE))
          /\ Short(junk, ended, TRUE).form = "short"
      BY ONLY <1>1, <1>2, <3>1, ShortFits
    <3> QED
      BY <1>2, <2>1, <3>2
  <2>2. CASE ~(n < SMALL_STR_CAPACITY)
    <3>1. BestCapacity(n) \in Nat /\ BestCapacity(n) > n
      BY ONLY <1>1, BestFacts
    <3>2. PICK room \in Nat : room = BestCapacity(n) + 1 /\ Len(junk) < room
      BY <1>1, <3>1
    <3>3. Long(junk, room, ended, TRUE) \in Object /\ Fits(Long(junk, room, ended, TRUE))
      BY ONLY <1>1, <1>2, <3>2, LongFits, Zenon
    <3>4. Long(junk, room, ended, TRUE).form = "long"
      BY DEF Long
    <3> QED
      BY <1>2, <2>2, <3>2, <3>3, <3>4
  <2> QED
    BY <2>1, <2>2
<1>4. value' = [value EXCEPT ![s] = value[s]] /\ value[s] \in Text
      /\ unfinished' = unfinished \cup {s}
  BY Before DEF MakeOf
<1>5. s \in unfinished'
  BY <1>4
<1> QED
  BY <1>3, <1>4, <1>5, OneChange

LEMMA StepMakeByAppending ==
  ASSUME StringIInv, NEW s \in Strings, NEW text \in Texts, MakeByAppending(s, text)
  PROVE  StringIInv' /\ Overruns
<1>1. text \in Text /\ <<>> \in Text
  BY TextFacts
<1>2. value' = [value EXCEPT ![s] = text] /\ unfinished' = unfinished
  BY DEF MakeByAppending
<1>3. CASE str' = [str EXCEPT ![s] = Unknown]
  <2>1. Unknown \in Object /\ Fits(Unknown) /\ Unknown.form = "unknown"
    BY NoneFits
  <2>2. ~IsWhole(Unknown)
    BY <2>1 DEF IsWhole
  <2> QED
    BY <1>1, <1>2, <1>3, <2>1, <2>2, OneChange
<1>4. CASE str' = [str EXCEPT ![s] = Appended(Short(<<>>, TRUE, FALSE), text)]
  <2> DEFINE e == Short(<<>>, TRUE, FALSE)
             o == Appended(e, text)
  <2>1. e \in Object /\ Fits(e) /\ e.form = "short" /\ e.chars = <<>> /\ e.ended = TRUE
    <3>1. Len(<<>>) < SMALL_STR_CAPACITY
      BY StringAssumption
    <3> QED
      BY ONLY <1>1, <3>1, ShortFits
  <2> HIDE DEF e
  <2>2. /\ o \in Object /\ Fits(o) /\ o.form \in {"short", "long", "overrun"}
        /\ o.form = "overrun" => OneTooHigh(e)
        /\ o.form # "overrun" =>
             o.chars = e.chars \o text /\ ((e.ended \/ e.fresh) => (o.ended \/ o.fresh))
    BY <1>1, <2>1, AppendedFits DEF IsWhole
  <2>3. str' = [str EXCEPT ![s] = o]
    BY <1>4 DEF e
  <2> HIDE DEF o
  <2>4. o.form # "overrun"
    BY <2>1, <2>2 DEF OneTooHigh
  <2>5. e.chars \o text = text
    BY <1>1, <2>1 DEF Text
  <2>6. Kept(o, text)
    BY <2>1, <2>2, <2>4, <2>5 DEF Kept
  <2> QED
    BY <1>1, <1>2, <2>2, <2>3, <2>4, <2>6, OneChange
<1> QED
  BY <1>3, <1>4 DEF MakeByAppending

LEMMA StepCopyOf ==
  ASSUME StringIInv, NEW s \in Strings, NEW t \in Strings, CopyOf(s, t)
  PROVE  StringIInv' /\ Overruns
<1>1. /\ str[t] \in Object /\ Fits(str[t]) /\ value[t] \in Text /\ str[t].chars \in Text
      /\ IsWhole(str[t]) /\ t \notin unfinished => Kept(str[t], value[t])
  BY Before
<1>2. /\ str[s].form = "none" /\ IsWhole(str[t]) /\ value' = [value EXCEPT ![s] = value[t]]
      /\ unfinished' = IF t \in unfinished THEN unfinished \cup {s} ELSE unfinished
  BY DEF CopyOf, IsWhole
<1>3. unfinished' \in {unfinished, unfinished \cup {s}, unfinished \ {s}}
      /\ (s \notin unfinished' => t \notin unfinished)
  BY <1>2
<1>4. value'[s] = value[t]
  BY <1>2 DEF StringIInv
<1>5. CASE str[t].form = "short"
  <2>1. str' = [str EXCEPT ![s] = str[t]] /\ str[t].form # "overrun"
    BY <1>5 DEF CopyOf
  <2> QED
    BY <1>1, <1>2, <1>3, <2>1, OneChange
<1>6. CASE str[t].form # "short"
  <2>1. PICK ended \in BOOLEAN : str' = [str EXCEPT ![s] = Made(str[t].chars, ended)]
    BY <1>6 DEF CopyOf
  <2> DEFINE o == Made(str[t].chars, ended)
  <2>2. /\ o \in Object /\ Fits(o) /\ o.form \in {"short", "long", "overrun"}
        /\ o.form = "overrun" =>
             Len(str[t].chars) \in {SMALL_STR_CAPACITY - 1, SMALL_STR_CAPACITY}
        /\ o.form # "overrun" => o.chars = str[t].chars /\ o.fresh = TRUE
    BY <1>1, <2>1, MadeFits
  <2>3. str' = [str EXCEPT ![s] = o]
    BY <2>1
  <2> HIDE DEF o
  <2>4. s \notin unfinished' => str[t].chars = value[t]
    BY <1>1, <1>2, <1>3 DEF Kept
  <2>5. o.form = "overrun" => Cause(s)
    BY <1>2, <1>4, <2>2, <2>4 DEF Cause
  <2>6. IsWhole(o) /\ s \notin unfinished' => Kept(o, value[t])
    BY <2>2, <2>4 DEF IsWhole, Kept
  <2> QED
    BY <1>1, <1>2, <1>3, <2>2, <2>3, <2>5, <2>6, OneChange
<1> QED
  BY <1>5, <1>6

LEMMA StepAdd ==
  ASSUME StringIInv, NEW s \in Strings, NEW text \in Texts, Add(s, text)
  PROVE  StringIInv' /\ Overruns
<1> DEFINE o == Appended(str[s], text)
           v == IF s \in unfinished THEN value[s] ELSE value[s] \o text
<1>1. text \in Text
  BY TextFacts
<1>2. /\ str[s] \in Object /\ Fits(str[s]) /\ value[s] \in Text
      /\ IsWhole(str[s]) /\ s \notin unfinished => Kept(str[s], value[s])
      /\ Whole(s) <=> IsWhole(str[s])
      /\ value = [value EXCEPT ![s] = value[s]]
  BY Before
<1>3. IsWhole(str[s]) /\ str' = [str EXCEPT ![s] = o] /\ unfinished' = unfinished
  BY <1>2 DEF Add
<1>4. value' = [value EXCEPT ![s] = v]
  BY <1>2 DEF Add
<1>5. v \in Text
  BY <1>1, <1>2 DEF Text
<1>6. /\ o \in Object /\ Fits(o) /\ o.form \in {"short", "long", "overrun"}
      /\ o.form = "overrun" => OneTooHigh(str[s])
      /\ o.form # "overrun" =>
           /\ o.chars = str[s].chars \o text
           /\ (str[s].ended \/ str[s].fresh) => (o.ended \/ o.fresh)
  BY <1>1, <1>2, <1>3, AppendedFits
<1>7. s \notin unfinished' => v = str[s].chars \o text /\ Kept(str[s], value[s])
  BY <1>2, <1>3 DEF Kept
<1> HIDE DEF o, v
<1>8. IsWhole(o) /\ s \notin unfinished' => Kept(o, v)
  BY <1>6, <1>7 DEF Kept, IsWhole
<1>9. o.form = "overrun" => Cause(s)
  BY <1>6 DEF Cause
<1> QED
  BY <1>3, <1>4, <1>5, <1>6, <1>8, <1>9, OneChange

LEMMA StepPushBack ==
  ASSUME StringIInv, NEW s \in Strings, NEW c \in Chars, PushBack(s, c)
  PROVE  StringIInv' /\ Overruns
<1> DEFINE o == Pushed(str[s], c)
           v == IF s \in unfinished THEN value[s] ELSE Append(value[s], c)
<1>1. /\ str[s] \in Object /\ Fits(str[s]) /\ value[s] \in Text
      /\ IsWhole(str[s]) /\ s \notin unfinished => Kept(str[s], value[s])
      /\ Whole(s) <=> IsWhole(str[s])
      /\ value = [value EXCEPT ![s] = value[s]]
  BY Before
<1>2. IsWhole(str[s]) /\ str' = [str EXCEPT ![s] = o] /\ unfinished' = unfinished
  BY <1>1 DEF PushBack, Pushed
<1>3. value' = [value EXCEPT ![s] = v]
  BY <1>1 DEF PushBack
<1>4. v \in Text
  BY <1>1 DEF Text
<1>5. /\ o \in Object /\ Fits(o) /\ o.form \in {"short", "long", "overrun"}
      /\ o.form = "overrun" => OneTooHigh(str[s])
      /\ o.form # "overrun" => o.chars = Append(str[s].chars, c) /\ o.ended = TRUE
  BY <1>1, <1>2, PushedFits
<1>6. s \notin unfinished' => v = Append(str[s].chars, c)
  BY <1>1, <1>2 DEF Kept
<1> HIDE DEF o, v
<1>7. IsWhole(o) /\ s \notin unfinished' => Kept(o, v)
  BY <1>5, <1>6 DEF Kept, IsWhole
<1>8. o.form = "overrun" => Cause(s)
  BY <1>5 DEF Cause
<1> QED
  BY <1>2, <1>3, <1>4, <1>5, <1>7, <1>8, OneChange

LEMMA StepAssign ==
  ASSUME StringIInv, NEW s \in Strings, NEW t \in Strings, Assign(s, t)
  PROVE  StringIInv' /\ Overruns
<1> DEFINE o == Assigned(str[s], str[t].chars)
<1>1. str[s] \in Object /\ Fits(str[s]) /\ (Whole(s) <=> IsWhole(str[s]))
  BY Before
<1>2. /\ value[t] \in Text /\ str[t].chars \in Text
      /\ IsWhole(str[t]) /\ t \notin unfinished => Kept(str[t], value[t])
      /\ Whole(t) <=> IsWhole(str[t])
  BY Before
<1>3. /\ IsWhole(str[s]) /\ IsWhole(str[t]) /\ str' = [str EXCEPT ![s] = o]
      /\ value' = [value EXCEPT ![s] = value[t]]
  <2>1. Whole(s) /\ Whole(t) /\ value' = [value EXCEPT ![s] = value[t]]
    BY DEF Assign
  <2>2. str' = [str EXCEPT ![s] = o]
    BY Zenon DEF Assign, Assigned
  <2> QED
    BY <1>1, <1>2, <2>1, <2>2
<1>4. unfinished' = IF t \in unfinished THEN unfinished \cup {s} ELSE unfinished \ {s}
  BY DEF Assign
<1>5. unfinished' \in {unfinished, unfinished \cup {s}, unfinished \ {s}}
      /\ (s \notin unfinished' => t \notin unfinished)
  BY <1>4
<1>6. /\ o \in Object /\ Fits(o) /\ o.form \in {"short", "long", "overrun"}
      /\ o.form = "overrun" => OneTooHigh(str[s])
      /\ o.form # "overrun" => o.chars = str[t].chars /\ o.ended = TRUE
  BY <1>1, <1>2, <1>3, AssignedFits
<1> HIDE DEF o
<1>7. IsWhole(o) /\ s \notin unfinished' => Kept(o, value[t])
  BY <1>2, <1>3, <1>5, <1>6 DEF Kept, IsWhole
<1>8. o.form = "overrun" => Cause(s)
  BY <1>6 DEF Cause
<1> QED
  BY <1>2, <1>3, <1>5, <1>6, <1>7, <1>8, OneChange

LEMMA StepReserve ==
  ASSUME StringIInv, NEW s \in Strings, NEW n \in 0 .. MaxLen, Reserve(s, n)
  PROVE  StringIInv' /\ Overruns
<1> DEFINE wanted == IF n < Size(str[s]) THEN Size(str[s]) ELSE n
           new == Capacity(str[s]) + wanted - Size(str[s])
<1>1. /\ str[s] \in Object /\ Fits(str[s]) /\ value[s] \in Text
      /\ IsWhole(str[s]) /\ s \notin unfinished => Kept(str[s], value[s])
      /\ Whole(s) <=> IsWhole(str[s])
      /\ value = [value EXCEPT ![s] = value[s]]
  BY Before
<1>2. IsWhole(str[s]) /\ unfinished' = unfinished /\ value' = [value EXCEPT ![s] = value[s]]
  BY <1>1 DEF Reserve
<1>3. CASE str[s].form = "short"
  <2>1. str' = [str EXCEPT ![s] = Unknown]
    BY <1>3 DEF Reserve
  <2>2. Unknown \in Object /\ Fits(Unknown) /\ Unknown.form = "unknown"
    BY NoneFits
  <2>3. ~IsWhole(Unknown)
    BY <2>2 DEF IsWhole
  <2> QED
    BY <1>1, <1>2, <2>1, <2>2, <2>3, OneChange
<1>4. CASE str[s].form # "short"
  <2>1. PICK ended \in BOOLEAN : str' = [str EXCEPT ![s] = Grown(str[s], new, ended)]
    BY <1>4 DEF Reserve
  <2>2. /\ Len(str[s].chars) \in Nat /\ Capacity(str[s]) \in Nat
        /\ Len(str[s].chars) <= Capacity(str[s])
    BY <1>1, <1>2, CapacityBounds
  <2>3. new \in Nat /\ new >= Len(str[s].chars)
    <3>1. n \in Nat /\ Size(str[s]) = Len(str[s].chars)
      BY StringAssumption DEF Size
    <3>2. wanted \in Nat /\ wanted >= Size(str[s])
      BY <2>2, <3>1
    <3> HIDE DEF wanted
    <3> QED
      BY <2>2, <3>1, <3>2
  <2> HIDE DEF new
  <2> DEFINE g == Grown(str[s], new, ended)
  <2>4. /\ g \in Object /\ Fits(g) /\ g.form = "long" /\ g.chars = str[s].chars
        /\ g.ended \/ g.fresh
    BY ONLY GrownFits, <1>1, <1>2, <2>1, <2>3
  <2>5. str' = [str EXCEPT ![s] = g]
    BY <2>1
  <2> HIDE DEF g
  <2>6. s \notin unfinished' => Kept(g, value[s])
    BY <1>1, <1>2, <2>4 DEF Kept
  <2>7. g.form # "overrun"
    BY <2>4
  <2> QED
    BY <1>1, <1>2, <2>4, <2>5, <2>6, <2>7, OneChange
<1> QED
  BY <1>3, <1>4

LEMMA StepResize ==
  ASSUME StringIInv, NEW s \in Strings, NEW n \in 0 .. MaxLen, Resize(s, n)
  PROVE  StringIInv' /\ Overruns
<1> DEFINE o == Resized(str[s], n)
<1>1. str[s] \in Object /\ Fits(str[s]) /\ (Whole(s) <=> IsWhole(str[s]))
  BY Before
<1>2. /\ IsWhole(str[s]) /\ str' = [str EXCEPT ![s] = o]
      /\ value' = [value EXCEPT ![s] = <<>>] /\ unfinished' = unfinished \cup {s}
  BY <1>1 DEF Resize
<1>3. n \in Nat /\ <<>> \in Text
  BY StringAssumption, TextFacts
<1>4. o \in Object /\ Fits(o)
  BY <1>1, <1>2, <1>3, ResizedFits
<1>5. s \in unfinished'
  BY <1>2
<1> HIDE DEF o
<1>6. Cause(s)
  BY <1>5 DEF Cause
<1> QED
  BY <1>2, <1>3, <1>4, <1>5, <1>6, OneChange

LEMMA StepDestroy ==
  ASSUME StringIInv, NEW s \in Strings, Destroy(s)
  PROVE  StringIInv' /\ Overruns
<1>1. /\ str' = [str EXCEPT ![s] = None]
      /\ value' = [value EXCEPT ![s] = <<>>] /\ unfinished' = unfinished \ {s}
  BY DEF Destroy
<1>2. None \in Object /\ Fits(None) /\ None.form = "none"
  BY NoneFits DEF None
<1>3. ~IsWhole(None)
  BY <1>2 DEF IsWhole
<1> QED
  BY <1>1, <1>2, <1>3, TextFacts, OneChange

----------------------------------------------------------------------------
(* The strings start right, and every call keeps them so and overruns      *)
(* memory only where it may.                                               *)
LEMMA StringsStart == StringInit => StringIInv
<1>1. SUFFICES ASSUME StringInit PROVE StringIInv
  OBVIOUS
<1>2. None \in Object /\ Fits(None) /\ None.form = "none"
  BY NoneFits DEF None
<1>3. str \in [Strings -> Object] /\ value \in [Strings -> Text] /\ unfinished \subseteq Strings
  BY <1>1, <1>2, TextFacts DEF StringInit
<1>4. \A s \in Strings : str[s] = None
  BY <1>1 DEF StringInit
<1>5. ValueKept
  BY <1>2, <1>4 DEF ValueKept, Whole
<1> QED
  BY <1>2, <1>3, <1>4, <1>5 DEF StringIInv

LEMMA Inductive ==
  ASSUME StringIInv, [StringNext]_stringVars
  PROVE  StringIInv' /\ Overruns
<1>1. CASE UNCHANGED stringVars
  <2>1. str' = str /\ value' = value /\ unfinished' = unfinished
    BY <1>1 DEF stringVars
  <2>2. Overruns
    BY <2>1 DEF Overruns
  <2>3. StringIInv'
    BY <2>1 DEF StringIInv, ValueKept, Whole
  <2> QED
    BY <2>2, <2>3
<1>2. CASE StringNext
  <2>1. PICK s \in Strings :
          \/ \E text \in Texts : MakeFrom(s, text) \/ MakeByAppending(s, text) \/ Add(s, text)
          \/ \E n \in 0 .. MaxLen : MakeOf(s, n) \/ Resize(s, n) \/ Reserve(s, n)
          \/ \E c \in Chars : PushBack(s, c)
          \/ \E t \in Strings : CopyOf(s, t) \/ Assign(s, t)
          \/ Destroy(s)
    BY <1>2 DEF StringNext
  <2>2. ASSUME NEW text \in Texts, MakeFrom(s, text) \/ MakeByAppending(s, text) \/ Add(s, text)
        PROVE  StringIInv' /\ Overruns
    BY <2>2, StepMakeFrom, StepMakeByAppending, StepAdd
  <2>3. ASSUME NEW n \in 0 .. MaxLen, MakeOf(s, n) \/ Resize(s, n) \/ Reserve(s, n)
        PROVE  StringIInv' /\ Overruns
    BY <2>3, StepMakeOf, StepResize, StepReserve
  <2>4. ASSUME NEW c \in Chars, PushBack(s, c) PROVE StringIInv' /\ Overruns
    BY <2>4, StepPushBack
  <2>5. ASSUME NEW t \in Strings, CopyOf(s, t) \/ Assign(s, t)
        PROVE  StringIInv' /\ Overruns
    BY <2>5, StepCopyOf, StepAssign
  <2>6. CASE Destroy(s)
    BY <2>6, StepDestroy
  <2> QED
    BY <2>1, <2>2, <2>3, <2>4, <2>5, <2>6
<1> QED
  BY <1>1, <1>2

LEMMA CapacityFollows == StringIInv => CapacityCounts
<1>1. SUFFICES ASSUME StringIInv, NEW s \in Strings
               PROVE  LET o == str[s] IN
                 /\ o.form \in {"none", "short", "long", "overrun", "unknown"}
                 /\ Whole(s) => /\ o.chars \in Seq(Chars \cup {Junk})
                                /\ Len(o.chars) < o.room
                                /\ o.capacity \in {o.room, o.room + 1}
                 /\ o.form = "short" => o.capacity = SMALL_STR_CAPACITY /\ o.room = SMALL_STR_CAPACITY
                 /\ o.form = "long" => o.capacity % 2 = 1
  BY DEF CapacityCounts
<1>2. /\ str[s] \in Object /\ Fits(str[s])
      /\ str[s].chars \in Seq(Chars \cup {Junk})
      /\ Whole(s) <=> IsWhole(str[s])
  BY <1>1, Before
<1>3. str[s].form \in {"none", "short", "long", "overrun", "unknown"}
  BY <1>2 DEF Object
<1> QED
  BY <1>2, <1>3 DEF Fits

----------------------------------------------------------------------------
(* Whatever calls are made, the capacity in the object is what its memory  *)
(* has room for, or one more.                                              *)
THEOREM CapacityCounted == StringSpec => []CapacityCounts
<1>1. StringInit => StringIInv
  BY StringsStart
<1>2. StringIInv /\ [StringNext]_stringVars => StringIInv'
  BY Inductive
<1>3. StringIInv => CapacityCounts
  BY CapacityFollows
<1> QED
  BY <1>1, <1>2, <1>3, PTL DEF StringSpec

(* A string on which no call left its work half done holds the characters  *)
(* the standard says.                                                      *)
THEOREM ValuesKept == StringSpec => []ValueKept
<1>1. StringInit => StringIInv
  BY StringsStart
<1>2. StringIInv /\ [StringNext]_stringVars => StringIInv'
  BY Inductive
<1>3. StringIInv => ValueKept
  BY DEF StringIInv
<1> QED
  BY <1>1, <1>2, <1>3, PTL DEF StringSpec

(* No call but the three that are known writes past the memory it has.     *)
THEOREM OverrunsKnown == StringSpec => OverrunOnlyHere
<1>1. StringInit => StringIInv
  BY StringsStart
<1>2. StringIInv /\ [StringNext]_stringVars => StringIInv'
  BY Inductive
<1>3. StringIInv /\ [StringNext]_stringVars =>
        [\A s \in Strings :
           str[s].form # "overrun" /\ str'[s].form = "overrun" =>
             \/ str[s].form = "none"
                /\ Len(value'[s]) \in {SMALL_STR_CAPACITY - 1, SMALL_STR_CAPACITY}
             \/ str[s].form = "long" /\ str[s].capacity > str[s].room
             \/ s \in unfinished']_stringVars
  BY Inductive DEF Overruns, Cause, OneTooHigh
<1> QED
  BY <1>1, <1>2, <1>3, PTL DEF StringSpec, OverrunOnlyHere
=============================================================================
