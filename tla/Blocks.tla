------------------------------- MODULE Blocks -------------------------------
(***************************************************************************)
(* The reference counts of closures (blocks) and of the variables they     *)
(* share with their frame (__block variables): _Block_copy(),              *)
(* _Block_release() and the helpers the compiler calls, in NSBlocks.m.     *)
(*                                                                         *)
(* A closure starts on the stack.  Copying it makes a heap block, and its  *)
(* copy helper visits what it captures: a captured variable moves to the   *)
(* heap with the first copy, a captured heap block is copied as well.      *)
(* There is no garbage collector (isGC is false), captured objects are not *)
(* retained at all, and global blocks are never counted: these paths       *)
(* change no state and are left out, as is a closure captured while it is  *)
(* itself on the stack, which is copied by the same code.                  *)
(***************************************************************************)
EXTENDS Integers, Sequences

CONSTANTS
  HeapBlocks,  \* the heap blocks of one run
  Vars,        \* the __block variables of one run
  Captures,    \* what a closure may capture: sequences of Var and Blk items
  Latch,       \* BLOCK_REFCOUNT_MASK
  MaxRefs      \* bound: the references the program holds to one block

Var(v) == [op |-> "byref", x |-> v]
Blk(b) == [op |-> "block", x |-> b]

ASSUME BlocksAssumption ==
  /\ Latch \in Nat /\ Latch > 2 /\ MaxRefs \in Nat \ {0}
  /\ Captures \subseteq Seq({Var(v) : v \in Vars} \cup {Blk(b) : b \in HeapBlocks})

VARIABLES
  block,    \* the heap blocks: state, reference count, what they capture
  byref,    \* the __block variables: where they live, the reference count
  scope,    \* the variables whose frame is still there
  refs,     \* the references the program holds to each block
  copies,   \* how many copies have captured each variable before it was
            \* freed: 0, 1 or more
  todo,     \* what a release still has to do, innermost call first
  crashed   \* poisoned memory was used as a helper's address

vars == <<block, byref, scope, refs, copies, todo, crashed>>

NoBlock == [state |-> "unused", count |-> 0, captured |-> <<>>]
OnStack == [state |-> "stack", count |-> 0]
Gone(b) == [op |-> "free", x |-> b]

Init ==
  /\ block = [b \in HeapBlocks |-> NoBlock]
  /\ byref = [v \in Vars |-> OnStack]
  /\ scope = Vars
  /\ refs = [b \in HeapBlocks |-> 0]
  /\ copies = [v \in Vars |-> 0]
  /\ todo = <<>> /\ crashed = FALSE

----------------------------------------------------------------------------
(* MUTANT: a second reference is not counted.                              *)
NotCounted(n) == n

(* latching_incr_int: the store's value is compared with the old one, so   *)
(* the loop goes on until the count latches.                               *)
LatchingIncr(n) == Latch

(* latching_decr_int: for the same reason it goes on to 0.                 *)
LatchingDecr(n) == IF n = Latch THEN Latch ELSE 0

Idle == ~crashed /\ todo = <<>>

Items(s) == {s[k] : k \in 1 .. Len(s)}

(* MUTANT: a variable that is on the heap already is not counted again.    *)
CopiedOnce(r) == IF r.state = "stack" THEN [state |-> "heap", count |-> 2] ELSE r

(* _Block_byref_assign_copy.  In a freed variable the poison looks like a  *)
(* flag of the collector, and nothing is done.                             *)
CopiedByref(r) ==
  CASE r.state = "stack" -> [state |-> "heap", count |-> 2]
    [] r.state = "heap"  -> [r EXCEPT !.count = LatchingIncr(@)]
    [] r.state = "freed" -> r

(* _Block_copy of a closure on the stack, with its copy helper.            *)
CopyStack(b, captured) ==
  /\ Idle /\ block[b].state = "unused"
  /\ \A item \in Items(captured) :
       IF item.op = "byref" THEN item.x \in scope ELSE refs[item.x] > 0
  /\ block' = [d \in HeapBlocks |->
                 IF d = b
                 THEN [state |-> "live", count |-> 1, captured |-> captured]
                 ELSE IF Blk(d) \in Items(captured)
                 THEN [block[d] EXCEPT !.count = LatchingIncr(@)]
                 ELSE block[d]]
  /\ byref' = [v \in Vars |-> IF Var(v) \in Items(captured)
                              THEN CopiedByref(byref[v]) ELSE byref[v]]
  /\ copies' = [v \in Vars |-> IF /\ Var(v) \in Items(captured) /\ copies[v] < 2
                                  /\ byref[v].state # "freed"
                               THEN copies[v] + 1 ELSE copies[v]]
  /\ refs' = [refs EXCEPT ![b] = 1]
  /\ UNCHANGED <<scope, todo, crashed>>

(* _Block_copy of a block that is on the heap.                             *)
CopyHeap(b) ==
  /\ Idle /\ refs[b] \in 1 .. MaxRefs - 1
  /\ block' = [block EXCEPT ![b].count = LatchingIncr(@)]
  /\ refs' = [refs EXCEPT ![b] = @ + 1]
  /\ UNCHANGED <<byref, scope, copies, todo, crashed>>

(* _Block_release is called ...                                            *)
Release(b) ==
  /\ Idle /\ refs[b] > 0
  /\ refs' = [refs EXCEPT ![b] = @ - 1]
  /\ todo' = <<Blk(b)>>
  /\ UNCHANGED <<block, byref, scope, copies, crashed>>

(* ... or a frame is left: the compiler disposes of its __block variable.  *)
LeaveScope(v) ==
  /\ Idle /\ v \in scope
  /\ scope' = scope \ {v}
  /\ todo' = <<Var(v)>>
  /\ UNCHANGED <<block, byref, refs, copies, crashed>>

Doing(op) == ~crashed /\ todo # <<>> /\ Head(todo).op = op

(* The body of _Block_release: at 0 the dispose helper releases what the   *)
(* block captures, then the block is freed.                                *)
DropBlock ==
  /\ Doing("block")
  /\ LET b == Head(todo).x
         n == LatchingDecr(block[b].count)
     IN /\ block' = [block EXCEPT ![b].count = n]
        /\ todo' = IF n > 0 THEN Tail(todo)
                   ELSE block[b].captured \o <<Gone(b)>> \o Tail(todo)
  /\ UNCHANGED <<byref, scope, refs, copies, crashed>>

FreeBlock ==
  /\ Doing("free")
  /\ block' = [block EXCEPT ![Head(todo).x].state = "freed"]
  /\ todo' = Tail(todo)
  /\ UNCHANGED <<byref, scope, refs, copies, crashed>>

(* _Block_byref_release.  The poison of a freed variable reads as a block  *)
(* with a reference count and a helper, whose address is the poison.       *)
DropByref ==
  /\ Doing("byref")
  /\ LET v == Head(todo).x
         n == LatchingDecr(byref[v].count)
     IN \/ /\ byref[v].state = "stack"
           /\ UNCHANGED <<byref, crashed>>
        \/ /\ byref[v].state = "heap"
           /\ byref' = [byref EXCEPT
                ![v] = [state |-> IF n = 0 THEN "freed" ELSE "heap", count |-> n]]
           /\ UNCHANGED crashed
        \/ /\ byref[v].state = "freed"
           /\ crashed' = TRUE /\ UNCHANGED byref
  /\ todo' = Tail(todo)
  /\ UNCHANGED <<block, scope, refs, copies>>

Next ==
  \/ \E b \in HeapBlocks : CopyHeap(b) \/ Release(b)
  \/ \E b \in HeapBlocks, captured \in Captures : CopyStack(b, captured)
  \/ \E v \in Vars : LeaveScope(v)
  \/ DropBlock \/ FreeBlock \/ DropByref

Spec == Init /\ [][Next]_vars

----------------------------------------------------------------------------
(* Something of the program still refers to x: a live block captures it,   *)
(* or a release has yet to reach it.                                       *)
Captured(item) ==
  \/ \E d \in HeapBlocks : block[d].count > 0 /\ item \in Items(block[d].captured)
  \/ item \in Items(todo)

BlockUsed(b) == refs[b] > 0 \/ Captured(Blk(b))
ByrefUsed(v) == v \in scope \/ Captured(Var(v))

(* A block is freed only when nobody refers to it any more, although a     *)
(* count goes from 1 to BLOCK_REFCOUNT_MASK and from anything else to 0:   *)
(* a count other than the latch means a single reference.                  *)
NoDanglingBlock ==
  \A b \in HeapBlocks :
    /\ BlockUsed(b) => block[b].state = "live" /\ block[b].count > 0
    /\ refs[b] > 1 \/ (refs[b] > 0 /\ Captured(Blk(b))) => block[b].count = Latch

(* The count of a variable starts at 2 and the first release takes it to   *)
(* 0, so it may be freed under its frame or under a block.  That happens   *)
(* only if one copy captured it: a second one latches the count, and the   *)
(* variable is never freed at all.                                         *)
FreedIfCopiedOnce ==
  \A v \in Vars : byref[v].state = "freed" => copies[v] = 1

(* A variable on the heap lives until both its frame and the blocks that   *)
(* captured it have released it: NSBlocks.m:262 counts "one for caller,    *)
(* one for stack".                                                         *)
ByrefAlive == \A v \in Vars : ByrefUsed(v) => byref[v].state # "freed"
=============================================================================
