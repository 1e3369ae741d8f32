----------------------------- MODULE AmlParser ------------------------------
(* The parser of the ACPI machine language (ACPI/AML/Parser.swift and       *)
(* Symbols.swift): from the bytes of a table to terms, and to the names the *)
(* name space is given on the way.                                          *)
(*                                                                          *)
(* A state of the parser is what is left of its bytes, its scope, the names *)
(* given so far, and whether a fatalError or an unwrapped nil ended it.     *)
EXTENDS AmlTerms, TLC

Parser(bytes, scope) == [in |-> bytes, scope |-> scope, added |-> <<>>, dead |-> FALSE]
Read(v, s) == [v |-> v, s |-> s]
Trap(s) == Read(Nil, [s EXCEPT !.dead = TRUE, !.in = <<>>])

----------------------------------------------------------------------------
(* Characters and operations.                                               *)
NullChar == 0
Lead == (65 .. 90) \cup {95}
DigitChar == 48 .. 57
RootChar == 92
ParentPrefix == 94
DualName == 46
MultiName == 47
Chars == {NullChar, RootChar, ParentPrefix, DualName, MultiName} \cup Lead \cup DigitChar
Prefix == 91
Ext(code) == 256 * Prefix + code

(* The operations by the operands that follow them.                         *)
NoOperand == [Break |-> 165, BreakPoint |-> 204, Continue |-> 159, Noop |-> 163, Zero |-> 0,
           One |-> 1, Ones |-> 255, Timer |-> Ext(51), Revision |-> Ext(48), Debug |-> Ext(49)]
TwoTarget == [Add |-> 114, And |-> 123, Concat |-> 115, ConcatRes |-> 132, Multiply |-> 119,
              NAnd |-> 124, Or |-> 125, NOr |-> 126, Xor |-> 127, ShiftLeft |-> 121,
              ShiftRight |-> 122, Subtract |-> 116, ToString |-> 156]
Two == [LAnd |-> 144, LOr |-> 145, LEqual |-> 147, LGreater |-> 148, LLess |-> 149]
OneTarget == [Not |-> 128, FindSetLeftBit |-> 129, FindSetRightBit |-> 130, FromBCD |-> Ext(40),
              ToBCD |-> Ext(41), ToBuffer |-> 150, ToDecimalString |-> 151, ToHexString |-> 152,
              ToInteger |-> 153]
Single == [LNot |-> 146, Sleep |-> Ext(34), Stall |-> Ext(33)]
OnName == [Increment |-> 117, Decrement |-> 118, RefOf |-> 113, SizeOf |-> 135, DerefOf |-> 131,
           ObjectType |-> 142, Release |-> Ext(39), Reset |-> Ext(38), Signal |-> Ext(36),
           Unload |-> Ext(42)]
CreateFields == [CreateBitField |-> 141, CreateByteField |-> 140, CreateWordField |-> 139,
                 CreateDWordField |-> 138, CreateQWordField |-> 143]
NotRead == [VarPackage |-> 19, BankField |-> Ext(135), PowerRes |-> Ext(132),
            ThermalZone |-> Ext(133), LoadTable |-> Ext(31), Match |-> 137, Mod |-> 133]
Others == [CondRefOf |-> Ext(18), Notify |-> 134, Wait |-> Ext(37), Store |-> 112,
           Acquire |-> Ext(35), CopyObject |-> 157, Divide |-> 120, Mid |-> 158, Index |-> 136,
           Load |-> Ext(32), Fatal |-> Ext(50), CreateField |-> Ext(19), Mutex |-> Ext(1),
           Event |-> Ext(2), Alias |-> 6, External |-> 21, DataRegion |-> Ext(136),
           OpRegion |-> Ext(128), Name |-> 8, Return |-> 164,
           BytePrefix |-> 10, WordPrefix |-> 11, DWordPrefix |-> 12, QWordPrefix |-> 14,
           String |-> 13, Else |-> 161]
Packages == [Scope |-> 16, Buffer |-> 17, Package |-> 18, Method |-> 20, If |-> 160,
             While |-> 162, Device |-> Ext(130), Processor |-> Ext(131), Field |-> Ext(129),
             IndexField |-> Ext(134)]
Named == NoOperand @@ TwoTarget @@ Two @@ OneTarget @@ Single @@ OnName @@ CreateFields @@ NotRead
           @@ Others @@ Packages
OpOf == [c \in {Named[op] : op \in DOMAIN Named} |->
           [op |-> CHOOSE op \in DOMAIN Named : Named[op] = c, i |-> 0]]
        @@ [c \in 96 .. 103 |-> [op |-> "Local", i |-> c - 96]]
        @@ [c \in 104 .. 110 |-> [op |-> "Arg", i |-> c - 104]]

(* What follows each operation: those that compute, those that control, and *)
(* those that name.                                                         *)
OperandsOfNamed ==
  [op \in DOMAIN CreateFields |-> <<"arg", "integer", "name">>] @@
  [CreateField |-> <<"arg", "integer", "integer", "name">>,
   Mutex |-> <<"name", "level">>, Event |-> <<"name">>, Alias |-> <<"name", "name">>,
   External |-> <<"short", "byte", "count">>, DataRegion |-> <<"short", "arg", "arg", "arg">>,
   OpRegion |-> <<"short", "space", "arg", "arg">>, Name |-> <<"name", "data">>,
   Scope |-> <<"scope", "list">>, Method |-> <<"name", "byte", "bytes">>,
   Device |-> <<"device", "objects">>,
   Processor |-> <<"scope", "byte", "dword", "byte", "objects">>]
OperandsOfControl ==
  [If |-> <<"arg", "list">>, While |-> <<"arg", "list">>, Return |-> <<"optional">>,
   Fatal |-> <<"byte", "dword", "arg">>, Load |-> <<"name", "super">>,
   Notify |-> <<"super", "arg">>]
OperandsOfComputing ==
  [op \in DOMAIN TwoTarget |-> <<"arg", "arg", "target">>] @@
  [op \in DOMAIN Two |-> <<"arg", "arg">>] @@
  [op \in DOMAIN OneTarget |-> <<"arg", "target">>] @@
  [CondRefOf |-> <<"super", "target">>, Wait |-> <<"super", "arg">>,
   Store |-> <<"arg", "super">>, Acquire |-> <<"super", "word">>,
   CopyObject |-> <<"arg", "simple">>, Divide |-> <<"arg", "arg", "target", "target">>,
   Mid |-> <<"arg", "arg", "arg", "target">>, Index |-> <<"object", "arg", "target">>,
   Buffer |-> <<"arg", "bytes">>]
Shape ==
  [op \in DOMAIN NoOperand |-> <<>>] @@ [op \in DOMAIN Single |-> <<"arg">>] @@
  [op \in DOMAIN OnName |-> <<"super">>] @@
  [String |-> <<"string">>, BytePrefix |-> <<"byte">>, WordPrefix |-> <<"word">>,
   DWordPrefix |-> <<"dword">>, QWordPrefix |-> <<"qword">>] @@
  OperandsOfNamed @@ OperandsOfControl @@ OperandsOfComputing

(* An operand that is missing is unwrapped all the same, but for these.     *)
Guarded(op, i) ==
  \/ op \in {"External", "Fatal", "Index", "Wait", "Load", "CopyObject", "Name", "If", "While",
             "Buffer", "String"}
  \/ op = "OpRegion" /\ i > 1
  \/ op \in {"Method", "Processor"} /\ i = 1

----------------------------------------------------------------------------
(* Bytes, numbers and lengths.                                              *)
None == 0 - 1
nextByte(s) ==
  IF s.in = <<>> THEN Read(None, s) ELSE Read(Head(s.in), [s EXCEPT !.in = Tail(@)])
(* A number of some bytes, the lowest first.                                *)
RECURSIVE nextBytes(_, _)
nextBytes(n, s) ==
  LET b == nextByte(s)
      rest == nextBytes(n - 1, b.s)
  IN IF n = 1 \/ b.v = None THEN b
     ELSE IF rest.v = None THEN rest ELSE Read(b.v + 256 * rest.v, rest.s)

(* The lead byte has the number of bytes that follow and the lowest digits. *)
PkgShiftWhole(x) == 2 ^ (8 * x)
PkgShift(x) == 2 ^ (8 * x + 4)
PkgSum(bytes) ==
  FoldFunction(+, 0, [x \in 1 .. Len(bytes) |-> bytes[x] * PkgShift(x - 1)])
parsePkgLength(s) ==
  LET b == nextByte(s)
      n == b.v \div 64
      left == Len(b.s.in)
  IN CASE b.v = None \/ n = 0 -> b
       [] n > 0 /\ (b.v \div 16) % 4 # 0 -> Read(None, b.s)
       [] n > left -> Read(None, [b.s EXCEPT !.in = <<>>])
       [] OTHER -> Read((b.v % 16) + PkgSum(SubSeq(b.s.in, 1, n)),
                        [b.s EXCEPT !.in = SubSeq(@, n + 1, left)])

(* A package has the bytes its length says, without those of the length.    *)
subParser(s) ==
  LET p == parsePkgLength(s)
      count == p.v - (Len(s.in) - Len(p.s.in))
  IN [ok |-> p.v # None /\ count \in 1 .. Len(p.s.in), count |-> count, s |-> p.s]
Inside(p) == [p.s EXCEPT !.in = SubSeq(@, 1, p.count)]
Behind(p, inner) ==
  [p.s EXCEPT !.in = IF inner.dead THEN <<>> ELSE SubSeq(@, p.count + 1, Len(@)),
              !.added = inner.added, !.dead = inner.dead]

(* The next byte as a character, or one or two bytes as an operation.       *)
nextSymbol(s) ==
  LET b == nextByte(s)
      c == nextByte(b.s)
      code == IF b.v = Prefix /\ c.v # None THEN Ext(c.v) ELSE b.v
      known == code \in DOMAIN OpOf
  IN [char |-> IF b.v \in Chars THEN b.v ELSE None,
      op |-> IF known THEN OpOf[code].op ELSE "nil",
      i |-> IF known THEN OpOf[code].i ELSE 0,
      s |-> IF b.v = Prefix THEN c.s ELSE b.s]
IsNil(y) == y.char = None /\ y.op = "nil"
IsName(y) == y.char \notin {None, NullChar}

----------------------------------------------------------------------------
(* Names.  A segment has four characters, filled up with '_'.               *)
Padding == 95
nextChar(s) == LET y == nextSymbol(s) IN Read(y.char, y.s)
Stripped(seg) ==
  SubSeq(seg, 1, Len(seg) - Cardinality({i \in 1 .. Len(seg) :
                                           \A j \in i .. Len(seg) : seg[j] = Padding}))
RECURSIVE NameChars(_, _, _)
NameChars(n, seg, s) ==
  LET c == nextChar(s)
  IN CASE n = 0 -> Read(Stripped(seg), s)
       [] c.v = None -> NameChars(n - 1, seg, c.s)
       [] c.v \in Lead \cup DigitChar -> NameChars(n - 1, Append(seg, c.v), c.s)
       [] OTHER -> Read(<<>>, c.s)
parseNameSeg(first, s) ==
  LET c == nextChar(s)
  IN CASE c.v = None -> Read(first, c.s)
       [] first = <<>> /\ c.v \notin Lead -> Read(<<>>, c.s)
       [] OTHER -> NameChars(3 - Len(first), Append(first, c.v), c.s)
Segments(seg) == IF seg = <<>> THEN <<>> ELSE <<seg>>
RECURSIVE NameSegs(_, _)
NameSegs(n, s) ==
  LET one == parseNameSeg(<<>>, s)
      rest == NameSegs(n - 1, one.s)
  IN IF n = 0 THEN Read(<<>>, s) ELSE Read(Segments(one.v) \o rest.v, rest.s)

parseNamePath(ch, s) ==
  LET one == parseNameSeg(<<ch>>, s)
      count == nextByte(s)
  IN CASE ch \in Lead -> Read(Segments(one.v), one.s)
       [] ch = DualName -> NameSegs(2, s)
       [] ch = MultiName -> IF count.v = None THEN Read(<<>>, s) ELSE NameSegs(count.v, count.s)
       [] OTHER -> Read(<<>>, s)

(* \ or any number of ^, and then a path.  No character is no name.         *)
RECURSIVE Parents(_, _, _)
Parents(n, ch, s) ==
  LET c == nextChar(s)
      path == parseNamePath(ch, s)
  IN CASE ch = None -> Read(Nil, s)
       [] ch = ParentPrefix -> Parents(n + 1, c.v, c.s)
       [] OTHER -> Read(Term("NameString", Name(n, path.v), <<>>, <<>>), path.s)
parseNameStringWith(ch, s) ==
  LET c == nextChar(s)
      path == parseNamePath(c.v, c.s)
  IN IF ch # RootChar THEN Parents(0, ch, s)
     ELSE IF c.v = None THEN Read(Nil, c.s)
     ELSE Read(Term("NameString", Abs(path.v), <<>>, <<>>), path.s)
parseNameString(s) == LET c == nextChar(s) IN parseNameStringWith(c.v, c.s)

(* Only an absolute name is given to the name space.                        *)
addGlobalObject(name, s) ==
  IF name.up = Root THEN [s EXCEPT !.added = Append(@, name)] ELSE s

----------------------------------------------------------------------------
(* Terms.  Most operations are read in one way: their operands in turn.     *)
RECURSIVE parseSymbol(_)
parseTermArg(s) ==
  LET y == nextSymbol(s)
      name == parseNameStringWith(y.char, y.s)
      t == parseSymbol(y)
  IN CASE IsName(y) -> IF name.v = Nil THEN name
                       ELSE IF Unnamed(s.scope, name.v.name) THEN Trap(name.s)
                       ELSE IF <<Abs(<<OSI>>)>> = getGlobalObject(s.scope, name.v.name) THEN t
                       ELSE name
       [] y.op = "nil" -> Read(Nil, y.s)
       [] OTHER -> IF t.v.op \in NotTermArgs THEN Read(Nil, t.s) ELSE t
(* Of the methods only \_OSI is found, which has one argument.              *)
parseMethodInvocation(name, s) ==
  LET arg == parseTermArg(s)
  IN CASE Unnamed(s.scope, name) -> Trap(s)
       [] getGlobalObject(s.scope, name) # <<Abs(<<OSI>>)>> -> Read(Nil, s)
       [] arg.v = Nil -> arg
       [] OTHER -> Read(Term("Call", name, <<>>, <<arg.v>>), arg.s)

parseSimpleName(y) ==
  LET t == parseSymbol(y)
  IN IF y.char # None THEN parseNameStringWith(y.char, y.s)
     ELSE IF t.v.op \in SimpleNames THEN t ELSE Read(Nil, t.s)
(* What is no simple name is read once more, behind what was read.          *)
parseSuperName(y) ==
  LET simple == parseSimpleName(y)
      t == parseSymbol([y EXCEPT !.s = simple.s])
  IN IF simple.v # Nil \/ simple.s.dead THEN simple
     ELSE IF t.v.op \in SuperNames THEN t ELSE Read(Nil, t.s)
parseTarget(y) ==
  LET t == parseSuperName(y)
  IN CASE IsNil(y) -> Read(Nil, y.s)
       [] y.char = NullChar -> Read(T("NullName", <<>>), y.s)
       [] OTHER -> IF t.v = Nil /\ y.char = None THEN Trap(t.s) ELSE t

(* A list ends with the bytes, or at one that begins nothing; a term that   *)
(* cannot be read is skipped.                                               *)
RECURSIVE parseTermList(_, _)
parseTermList(ts, s) ==
  LET y == nextSymbol(s)
      t == parseSymbol(y)
  IN IF IsNil(y) THEN Read(T("List", ts), y.s)
     ELSE parseTermList(IF t.v.op \in NotTermObjs THEN ts ELSE Append(ts, t.v), t.s)
parseObjectList(s) ==
  LET r == parseTermList(<<>>, s)
  IN IF \A i \in DOMAIN r.v.args : r.v.args[i].op \in NamedObjs \cup NameSpaceModifiers
     THEN r ELSE Trap(r.s)

RECURSIVE parseString(_, _)
parseString(chars, s) ==
  LET b == nextByte(s)
  IN CASE b.v = 0 -> Read(Term("String", NoName, chars, <<>>), b.s)
       [] b.v \in 1 .. 127 -> parseString(Append(chars, b.v), b.s)
       [] OTHER -> Read(Nil, b.s)

Number(n, within, s) ==
  LET b == nextBytes(n, s) IN Read(IF b.v \in within THEN Num(b.v) ELSE Nil, b.s)
RegionSpaces == 0 .. 9 \cup {128}
Shortened(t) == IF t = Nil THEN Nil ELSE [t EXCEPT !.name = ShortName(@)]
Entered(t, s) == IF t = Nil THEN s ELSE [s EXCEPT !.scope = resolveNameTo(@, t.name)]

operand(kind, s) ==
  LET y == nextSymbol(s)
      arg == parseTermArg(s)
      number == evaluate(arg.v, Context(s.scope, <<>>))
      t == parseSymbol(y)
      name == parseNameString(s)
      short == Shortened(name.v)
  IN CASE kind = "arg" -> arg
       [] kind = "optional" -> IF arg.v = Nil /\ ~arg.s.dead THEN Read(Num(0), arg.s) ELSE arg
       [] kind = "object" -> IF arg.v.op \in BuffPkgStrs THEN arg ELSE Read(Nil, arg.s)
       [] kind = "integer" -> IF arg.v = Nil THEN arg ELSE IF number.c.is = "dead" THEN Trap(arg.s)
                              ELSE Read(IF IsInt(number.v) THEN number.v ELSE Nil, arg.s)
       [] kind = "data" -> IF t.v.op \in DataRefs /\ ~IsNil(y) THEN t ELSE Read(Nil, t.s)
       [] kind = "super" -> IF IsNil(y) THEN Read(Nil, y.s) ELSE parseSuperName(y)
       [] kind = "simple" -> IF IsNil(y) THEN Read(Nil, y.s) ELSE parseSimpleName(y)
       [] kind = "target" -> parseTarget(y)
       [] kind = "name" -> name
       [] kind = "short" -> Read(short, name.s)
       [] kind = "scope" -> Read(name.v, Entered(name.v, name.s))
       [] kind = "device" -> Read(short, Entered(short, name.s))
       [] kind = "byte" -> Number(1, Nat, s)
       [] kind = "word" -> Number(2, Nat, s)
       [] kind = "dword" -> Number(4, Nat, s)
       [] kind = "qword" -> Number(8, Nat, s)
       [] kind = "level" -> Number(1, 0 .. 15, s)
       [] kind = "count" -> Number(1, 0 .. 7, s)
       [] kind = "space" -> Number(1, RegionSpaces, s)
       [] kind = "string" -> parseString(<<>>, s)
       [] kind = "list" -> parseTermList(<<>>, s)
       [] kind = "objects" -> parseObjectList(s)
       [] kind = "bytes" -> Read(Term("Bytes", NoName, s.in, <<>>), [s EXCEPT !.in = <<>>])

RECURSIVE operands(_, _, _)
operands(op, args, s) ==
  LET i == Len(args) + 1
      r == operand(Shape[op][i], s)
  IN CASE i > Len(Shape[op]) -> Read(T("operands", args), s)
       [] r.v = Nil -> IF Guarded(op, i) \/ r.s.dead THEN r ELSE Trap(r.s)
       [] OTHER -> operands(op, Append(args, r.v), r.s)

Made(y, args) ==
  CASE y.op \in {"Local", "Arg"} -> Term(y.op, NoName, <<y.i>>, <<>>)
    [] y.op \in {"BytePrefix", "WordPrefix", "DWordPrefix", "QWordPrefix", "String"} -> args[1]
    [] y.op = "Buffer" -> Term("Buffer", NoName, args[2].val, <<args[1]>>)
    [] y.op \in {"Name", "Method", "Processor"} -> T(y.op, <<Shortened(args[1])>> \o Tail(args))
    [] OTHER -> T(y.op, args)
(* The names of these are given to the name space, in the scope they are in.*)
Added(op, args, s) ==
  IF op \in {"Name", "Method", "Device", "OpRegion"}
  THEN addGlobalObject(resolveNameTo(s.scope, args[1].name), s) ELSE s
Finished(y, r) ==
  IF r.v = Nil THEN r ELSE Read(Made(y, r.v.args), Added(y.op, r.v.args, r.s))

parsePackaged(y) ==
  LET p == subParser(y.s)
      inner == operands(y.op, <<>>, Inside(p))
  IN IF ~p.ok THEN Read(Nil, p.s) ELSE Finished(y, Read(inner.v, Behind(p, inner.s)))

(* The elements of a package, until there are as many as it says or one is  *)
(* no data.                                                                 *)
RECURSIVE Elements(_, _, _)
Elements(n, ts, s) ==
  LET y == nextSymbol(s)
      t == IF IsName(y) THEN parseNameStringWith(y.char, y.s) ELSE parseSymbol(y)
  IN IF IsNil(y) \/ t.v.op \notin DataRefs \cup {"NameString"} THEN Read(ts, t.s)
     ELSE IF Len(ts) + 1 = n THEN Read(Append(ts, t.v), t.s)
     ELSE Elements(n, Append(ts, t.v), t.s)
parseDefPackage(y) ==
  LET p == subParser(y.s)
      n == nextByte(Inside(p))
      ts == Elements(n.v, <<>>, n.s)
  IN IF ~p.ok THEN Read(Nil, p.s)
     ELSE Read(T("Package", <<Num(n.v)>> \o ts.v), Behind(p, ts.s))

parseDefElse(y) ==
  LET p == subParser(y.s)
      ts == parseTermList(<<>>, Inside(p))
  IN IF ~p.ok THEN Read(T("Else", <<T("List", <<>>)>>), p.s)
     ELSE Read(T("Else", <<ts.v>>), Behind(p, ts.s))
(* Behind an if the next operation is looked at, and left if it is no else; *)
(* what is none is passed over.                                             *)
parseDefIfElse(y) ==
  LET r == parsePackaged(y)
      next == nextSymbol(r.s)
      else == parseDefElse(next)
      With(ts, s) == Read([r.v EXCEPT !.args = Append(@, ts)], s)
  IN CASE r.v = Nil \/ r.s.dead -> Read(Nil, r.s)
       [] IsNil(next) -> With(T("List", <<>>), next.s)
       [] next.op = "Else" -> With(else.v.args[1], else.s)
       [] OTHER -> With(T("List", <<>>), r.s)
(* The flags of a field are made by a function that calls itself for ever.  *)
parseDefField(y) ==
  LET p == subParser(y.s)
      name == parseNameString(Inside(p))
  IN IF ~p.ok THEN Read(Nil, p.s)
     ELSE IF y.op = "Field" /\ name.v = Nil THEN Read(Nil, Behind(p, name.s))
     ELSE Trap(p.s)

parseSymbol(y) ==
  LET name == parseNameStringWith(y.char, y.s)
  IN CASE IsName(y) -> IF name.v = Nil THEN name ELSE parseMethodInvocation(name.v.name, name.s)
       [] y.op = "nil" \/ y.op \in DOMAIN NotRead -> Read(Nil, y.s)
       [] y.op = "Else" -> parseDefElse(y)
       [] y.op = "If" -> parseDefIfElse(y)
       [] y.op = "Package" -> parseDefPackage(y)
       [] y.op \in {"Field", "IndexField"} -> parseDefField(y)
       [] y.op \in DOMAIN Packages -> parsePackaged(y)
       [] y.op \in {"Local", "Arg"} -> Read(Made(y, <<>>), y.s)
       [] OTHER -> Finished(y, operands(y.op, <<>>, y.s))

parse(bytes) == parseTermList(<<>>, Parser(bytes, Abs(<<>>)))
=============================================================================
