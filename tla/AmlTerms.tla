------------------------------ MODULE AmlTerms ------------------------------
(* The terms of the ACPI machine language, their names, and what happens    *)
(* when they are executed (ACPI/AML: Types, GlobalObjects, NamedObject,     *)
(* Method, Type1Opcodes, Type2Opcodes).  In this version of the kernel the  *)
(* call that parses the tables is commented out (ACPI.swift).               *)
(*                                                                          *)
(* A term has an operation, a name, the bytes or the number it holds, and   *)
(* its operands.                                                            *)
EXTENDS Integers, SequencesExt, Bitwise

CONSTANT AmlBits  \* the width of AMLInteger: 64 in the code, more than 8 here

----------------------------------------------------------------------------
(* A name goes up a number of scopes, or begins at the root, and then down  *)
(* its segments.                                                            *)
Root == 0 - 1
Name(up, segs) == [up |-> up, segs |-> segs]
NoName == Name(0, <<>>)
Abs(segs) == Name(Root, segs)

NameLength(n) ==
  FoldSeq(LAMBDA seg, k : k + Len(seg) + 1, 0, n.segs)
    + (IF n.segs = <<>> THEN 0 ELSE 0 - 1) + (IF n.up = Root THEN 1 ELSE n.up)
IsNameSeg(n) == NameLength(n) <= 4

ShortName(n) ==
  CASE n = Abs(<<>>) -> n
    [] Len(n.segs) > 1 -> Name(0, <<Last(n.segs)>>)
    [] OTHER -> Name(IF n.up = Root THEN 0 ELSE n.up, n.segs)

(* The root is part of the first segment: a name that goes up past it is    *)
(* no longer absolute.                                                      *)
resolveNameTo(scope, path) ==
  LET left == Len(scope.segs) - path.up
  IN CASE path = NoName -> scope
       [] path.up = Root -> path
       [] path.up = 0 -> Name(scope.up, scope.segs \o path.segs)
       [] OTHER -> IF left > 0 THEN Name(scope.up, SubSeq(scope.segs, 1, left) \o path.segs)
                               ELSE Name(0, path.segs)

(* The objects that are there from the start; add() returns at once, so     *)
(* there are never others.  Segments are the codes of their characters.     *)
OSI == <<95, 79, 83, 73>>
GL == <<95, 71, 76>>
REV == <<95, 82, 69, 86>>
OS == <<95, 79, 83>>
Globals == {Abs(<<>>)} \cup {Abs(<<seg>>) : seg \in {OSI, GL, REV, OS}}

(* The name in its scope, or, for a short one, in a scope around it.        *)
Candidates(scope, name) ==
  <<resolveNameTo(scope, name)>> \o
  (IF IsNameSeg(name) /\ name.up = 0 /\ scope # NoName
   THEN [k \in 1 .. Len(scope.segs) - 1 |->
           Name(scope.up, SubSeq(scope.segs, 1, Len(scope.segs) - k) \o name.segs)]
        \o <<Abs(name.segs)>>
   ELSE <<>>)
Unnamed(scope, name) == NoName \in {name, resolveNameTo(scope, name)}
getGlobalObject(scope, name) ==
  SelectSeq(Candidates(scope, name), LAMBDA full : full \in Globals)

----------------------------------------------------------------------------
Term(op, name, val, args) == [op |-> op, name |-> name, val |-> val, args |-> args]
T(op, args) == Term(op, NoName, <<>>, args)
Num(n) == Term("Integer", NoName, <<n>>, <<>>)
Nil == T("nil", <<>>)
IsInt(t) == t.op = "Integer"

(* What the terms are in the program: which may stand in a list, be an      *)
(* operand, take a value, hold data.                                        *)
Type1 == {"Break", "BreakPoint", "Continue", "Else", "Fatal", "If", "Load", "Noop", "Notify",
          "Release", "Reset", "Return", "Signal", "Sleep", "Stall", "Unload", "While"}
NameSpaceModifiers == {"Alias", "Name", "Scope"}
NamedObjs == {"DataRegion", "Device", "External", "Method", "Mutex", "OpRegion", "Processor",
              "CreateBitField", "CreateByteField", "CreateWordField", "CreateDWordField",
              "CreateQWordField", "CreateField"}
Constants == {"Zero", "One", "Ones", "Revision"}
DataRefs == Constants \cup {"Integer", "String", "Debug", "Buffer", "Package"}
SimpleNames == {"NameString", "Local", "Arg"}
Type6 == {"Index", "DerefOf", "RefOf"}
SuperNames == SimpleNames \cup Type6 \cup {"Debug"}
BuffPkgStrs == DataRefs \cup NamedObjs \cup SuperNames
NotTermObjs == Constants \cup {"NameString", "Debug", "Event", "nil"}
NotTermArgs == Type1 \cup NameSpaceModifiers \cup {"Event", "nil"}

----------------------------------------------------------------------------
(* The context of an execution: the scope, the arguments and locals of the  *)
(* method, the two numbers that have a name, what it returns, and how it    *)
(* stands.  A fatalError, or a nil that is unwrapped, ends the kernel.      *)
Context(scope, args) ==
  [scope |-> scope, args |-> args, locals |-> [i \in 0 .. 7 |-> Nil],
   root |-> 0, rev |-> 2, ret |-> Nil, is |-> "runs"]
Got(v, c) == [v |-> v, c |-> c]
Dies(c) == Got(Nil, [c EXCEPT !.is = "dead"])
Throws(c) == Got(Nil, [c EXCEPT !.is = "thrown"])
Failed(c) == c.is \in {"dead", "thrown"}

MAX == 2 ^ AmlBits - 1
Truth(b) == IF b THEN 1 ELSE 0
Arithmetic == {"Add", "And", "Or", "Xor", "Subtract", "ShiftLeft", "ShiftRight", "Divide",
               "LAnd", "LOr", "LEqual", "LGreater", "LLess"}
(* The operations on two numbers; LGreater compares as LLess does.  No      *)
(* number comes out of an addition that overflows or a division by 0.       *)
Holds(op, a, b) ==
  CASE op = "LAnd" -> a # 0 /\ b # 0
    [] op = "LOr" -> a # 0 \/ b # 0
    [] op = "LEqual" -> a = b
    [] op \in {"LGreater", "LLess"} -> a < b
Shifted(op, a, b) ==
  CASE b >= AmlBits -> 0
    [] op = "ShiftLeft" -> (a % (2 ^ (AmlBits - b))) * 2 ^ b
    [] op = "ShiftRight" -> a \div 2 ^ b
Difference(a, b) == (a - b) % (2 ^ AmlBits)
EitherOr(a, b) == a ^^ b
Sum2(a, b) == IF a + b > MAX THEN <<>> ELSE <<a + b>>
Computed(op, a, b) ==
  CASE op = "Add" -> Sum2(a, b)
    [] op = "Divide" -> IF b = 0 THEN <<>> ELSE <<a \div b>>
    [] op = "And" -> <<a & b>>
    [] op = "Or" -> <<a | b>>
    [] op = "Xor" -> <<EitherOr(a, b)>>
    [] op = "Subtract" -> <<Difference(a, b)>>
    [] op \in {"ShiftLeft", "ShiftRight"} -> <<Shifted(op, a, b)>>
    [] OTHER -> <<Truth(Holds(op, a, b))>>
Incremented(a) == (a + 1) % (2 ^ AmlBits)
Decremented(a) == (a - 1) % (2 ^ AmlBits)
One(op, a) ==
  CASE op = "Not" -> MAX - a
    [] op = "LNot" -> Truth(a = 0)
    [] op = "Increment" -> Incremented(a)
    [] op = "Decrement" -> Decremented(a)
ConstantValue(op) ==
  CASE op = "Zero" -> 0 [] op = "One" -> 1 [] op = "Ones" -> 255 [] op = "Revision" -> 2

(* Values go where the target says; a name only prints it.                  *)
updateValue(target, v, c) ==
  CASE target.op = "Local" -> [c EXCEPT !.locals[target.val[1]] = v]
    [] target.op \in {"NullName", "NameString", "Debug"} -> c
    [] OTHER -> [c EXCEPT !.is = "dead"]

Darwin == <<68, 97, 114, 119, 105, 110>>
GlobalValue(name, c) ==
  LET found == getGlobalObject(c.scope, name)
  IN CASE Unnamed(c.scope, name) \/ found = <<>> -> Nil
       [] found[1] = Abs(<<>>) -> Num(c.root)
       [] found[1] = Abs(<<REV>>) -> Num(c.rev)
       [] found[1] = Abs(<<OS>>) -> Term("String", NoName, Darwin, <<>>)
       [] OTHER -> Nil

(* \_OSI is the one method that runs: it takes a string as it stands.       *)
IsOSI(name) == name \in {Abs(<<OSI>>), Name(0, <<OSI>>)}
OSIYes == 2 ^ (AmlBits \div 2) - 1  \* 0xffffffff, half the bits of AMLInteger
OSIResult(args) ==
  IF Len(args) # 1 THEN <<>>
  ELSE IF args[1].op # "String" THEN <<>>
  ELSE <<IF args[1].val = Darwin THEN OSIYes ELSE 0>>

RECURSIVE evaluate(_, _)
AsInteger(t, c) ==
  LET r == evaluate(t, c)
  IN IF IsInt(r.v) \/ r.c.is = "dead" THEN r ELSE Dies(r.c)

Binary(t, c) ==
  LET a == AsInteger(t.args[1], c)
      b == IF Failed(a.c) THEN a ELSE AsInteger(t.args[2], a.c)
      v == Computed(t.op, a.v.val[1], b.v.val[1])
  IN CASE Failed(b.c) -> b
       [] v = <<>> -> Dies(b.c)
       [] t.op = "And" -> Got(Num(v[1]), updateValue(t.args[3], Num(v[1]), b.c))
       [] OTHER -> Got(Num(v[1]), b.c)
Unary(t, c) ==
  LET a == AsInteger(t.args[1], c)
  IN IF Failed(a.c) THEN a ELSE Got(Num(One(t.op, a.v.val[1])), a.c)

(* What a term stands for.  A term that computes nothing stands for itself. *)
evaluate(t, c) ==
  CASE t.op \in Constants -> Got(Num(ConstantValue(t.op)), c)
    [] t.op \in Arithmetic -> Binary(t, c)
    [] t.op \in {"Not", "LNot", "Increment", "Decrement"} -> Unary(t, c)
    [] t.op = "Local" ->
         LET v == c.locals[t.val[1]] IN IF v = Nil THEN Dies(c) ELSE evaluate(v, c)
    [] t.op = "Arg" ->
         IF t.val[1] < Len(c.args) THEN Got(c.args[t.val[1] + 1], c) ELSE Dies(c)
    [] t.op = "NameString" ->
         LET v == GlobalValue(t.name, c) IN IF v = Nil THEN Dies(c) ELSE Got(v, c)
    [] t.op = "CondRefOf" ->
         IF t.args[1].op # "NameString" THEN Got(Num(0), c)
         ELSE IF Unnamed(c.scope, t.args[1].name) THEN Dies(c)
         ELSE Got(Num(Truth(getGlobalObject(c.scope, t.args[1].name) # <<>>)), c)
    [] t.op = "Call" ->
         LET v == OSIResult(t.args)
         IN IF IsOSI(t.name) /\ v # <<>> THEN Got(Num(v[1]), c) ELSE Dies(c)
    [] t.op = "OpRegion" -> Dies(c)
    [] OTHER -> Got(t, c)

(* A destination by name is one of the four objects, of which two hold a    *)
(* number; the source is evaluated for it once more, without the locals.    *)
ToName(source, name, v) ==
  LET c == v.c
      found == getGlobalObject(c.scope, name)
      again == AsInteger(source, [Context(Abs(<<>>), c.args) EXCEPT !.root = c.root, !.rev = c.rev])
  IN CASE Unnamed(c.scope, name) \/ found = <<>> \/ Failed(again.c) -> Dies(c)
       [] found[1] = Abs(<<>>) -> Got(v.v, [c EXCEPT !.root = again.v.val[1]])
       [] found[1] = Abs(<<REV>>) -> Got(v.v, [c EXCEPT !.rev = again.v.val[1]])
       [] OTHER -> Dies(c)
Store(t, c) ==
  LET arg == t.args[1]
      missing == arg.op = "Arg" /\ arg.val[1] >= Len(c.args)
      source == IF arg.op = "Arg" /\ ~missing THEN c.args[arg.val[1] + 1] ELSE arg
      v == IF missing THEN Dies(c) ELSE evaluate(source, c)
      name == t.args[2]
  IN CASE Failed(v.c) \/ name.op = "Debug" -> v
       [] name.op = "Local" -> Got(v.v, [v.c EXCEPT !.locals[name.val[1]] = v.v])
       [] name.op = "NameString" -> ToName(source, name.name, v)
       [] OTHER -> Throws(v.c)

Updating == {"Add", "And", "CopyObject", "Decrement", "Increment", "ShiftLeft", "ShiftRight"}
Answering == {"Or", "Subtract", "LAnd", "LEqual", "LGreater", "LLess", "LNot", "LOr"}

Divide(t, c) ==
  LET a == AsInteger(t.args[1], c)
      b == IF Failed(a.c) THEN a ELSE AsInteger(t.args[2], a.c)
      x == a.v.val[1]
      y == b.v.val[1]
      half == updateValue(t.args[4], Num(x \div y), b.c)
  IN CASE Failed(b.c) -> b
       [] y = 0 -> Dies(b.c)
       [] OTHER -> Got(Num(x \div y), IF Failed(half) THEN half
                                      ELSE updateValue(t.args[3], Num(x % y), half))

(* The first buffer loses its last two bytes.                               *)
ConcatRes(t, c) ==
  LET a == evaluate(t.args[1], c)
      b == IF Failed(a.c) THEN a ELSE evaluate(t.args[2], a.c)
      bytes == SubSeq(a.v.val, 1, Len(a.v.val) - 2) \o b.v.val
      buffer == Term("Buffer", NoName, bytes, <<Num(Len(bytes))>>)
  IN IF Failed(b.c) THEN b
     ELSE IF a.v.op # "Buffer" \/ b.v.op # "Buffer" \/ Len(a.v.val) < 2 THEN Dies(b.c)
     ELSE Got(buffer, updateValue(t.args[3], buffer, b.c))

Invoke(t, c) ==
  LET v == OSIResult(t.args)
      found == getGlobalObject(c.scope, t.name)
  IN CASE IsOSI(t.name) -> IF v = <<>> THEN Throws(c)
                           ELSE Got(Num(v[1]), [c EXCEPT !.ret = Num(v[1])])
       [] Unnamed(c.scope, t.name) -> Dies(c)
       [] found # <<>> -> IF found[1] = Abs(<<OSI>>) THEN Dies(c) ELSE Throws(c)
       [] OTHER -> Throws(c)

Update(t, c) ==
  LET r == evaluate(t, c)
  IN IF Failed(r.c) THEN r ELSE Got(r.v, updateValue(Last(t.args), r.v, r.c))
Return(t, c) ==
  LET r == evaluate(t.args[1], c)
  IN IF Failed(r.c) THEN r ELSE Got(Nil, [r.c EXCEPT !.ret = r.v, !.is = "returned"])

RECURSIVE execute(_, _)
IfElse(t, c) ==
  LET p == AsInteger(t.args[1], c)
  IN IF Failed(p.c) THEN p.c
     ELSE IF p.v.val[1] # 0 THEN execute(t.args[2].args, p.c)
     ELSE execute(t.args[3].args, p.c)
RECURSIVE While(_, _)
While(t, c) ==
  LET p == AsInteger(t.args[1], c)
      after == execute(t.args[2].args, p.c)
  IN IF Failed(p.c) \/ p.v.val[1] = 0 THEN p.c
     ELSE IF after.is # "runs" THEN after
     ELSE While(t, after)

(* One term of a list; operations the kernel does not have throw.           *)
Step(t, c) ==
  CASE t.op \in Updating -> Update(t, c).c
    [] t.op \in Answering -> evaluate(t, c).c
    [] t.op = "Store" -> Store(t, c).c
    [] t.op = "Divide" -> Divide(t, c).c
    [] t.op = "ConcatRes" -> ConcatRes(t, c).c
    [] t.op = "Call" -> Invoke(t, c).c
    [] t.op = "Return" -> Return(t, c).c
    [] t.op = "Buffer" -> AsInteger(t.args[1], c).c
    [] t.op = "Notify" -> AsInteger(t.args[2], c).c
    [] t.op = "Stall" -> AsInteger(t.args[1], c).c
    [] t.op = "If" -> IfElse(t, c)
    [] t.op = "Else" -> execute(t.args[1].args, c)
    [] t.op = "While" -> While(t, c)
    [] t.op \in NamedObjs \cup {"Alias", "Name", "Noop", "Sleep"} -> c
    [] t.op \in {"Fatal", "Integer", "String", "Arg", "Local"} -> [c EXCEPT !.is = "dead"]
    [] OTHER -> [c EXCEPT !.is = "thrown"]

(* The terms of a list in turn, until the method ends.                      *)
execute(ts, c) ==
  IF ts = <<>> \/ c.is # "runs" THEN c ELSE execute(Tail(ts), Step(Head(ts), c))

----------------------------------------------------------------------------
(* Fields of a region: bits of an array of elements, the lowest first       *)
(* (NamedObject.swift 402-522).                                             *)
CONSTANT ElementBits  \* the width of an element of the array: 8 to 64
Bits(n, first, last) == (n \div 2 ^ first) % (2 ^ (last + 1 - first))

RECURSIVE ReadBits(_, _, _, _)
ReadBits(array, index, start, width) ==
  LET last == IF width + start < ElementBits THEN width + start - 1 ELSE ElementBits - 1
      count == last + 1 - start
      v == Bits(array[index], start, last)
  IN IF count = width THEN v
     ELSE v + ReadBits(array, index + 1, 0, width - count) * 2 ^ count
ReadField(array, offset, width) ==
  ReadBits(array, offset \div ElementBits, offset % ElementBits, width)

(* What is written to an element around the bits of the field.              *)
Around(rule, n, start, count) ==
  CASE count = ElementBits \/ rule = "WriteAsZeros" -> 0
    [] rule = "WriteAsOnes" -> 2 ^ ElementBits - 1 - (2 ^ count - 1) * 2 ^ start
    [] OTHER -> n - Bits(n, start, start + count - 1) * 2 ^ start
RECURSIVE WriteBits(_, _, _, _, _, _)
WriteBits(rule, array, index, start, width, value) ==
  LET count == IF width + start < ElementBits THEN width ELSE ElementBits - start
      put == Around(rule, array[index], start, count) + (value % 2 ^ count) * 2 ^ start
      next == [array EXCEPT ![index] = put]
  IN IF count = width THEN next
     ELSE WriteBits(rule, next, index + 1, 0, width - count, value \div 2 ^ count)
(* A value that does not fit ends the kernel; one value too many fits, and  *)
(* none but 0 fits a field as wide as AMLInteger.                           *)
Fits(width, value) == value <= (IF width < AmlBits THEN 2 ^ width ELSE 0)
WriteField(rule, array, offset, width, value) ==
  IF Fits(width, value)
  THEN <<WriteBits(rule, array, offset \div ElementBits, offset % ElementBits, width, value)>>
  ELSE <<>>
=============================================================================
