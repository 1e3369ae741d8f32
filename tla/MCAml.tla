------------------------------- MODULE MCAml --------------------------------
(* Programs of the ACPI machine language, as a firmware encodes them, and   *)
(* what the parser and the interpreter make of them.                        *)
EXTENDS AmlParser

----------------------------------------------------------------------------
(* The encoding.  A length may take more bytes than it needs; padded says   *)
(* how many more.                                                           *)
Low(n) == n % 256
PkgBytes(n, padded) ==
  LET Total(k) == n + k
      k == IF Total(1) < 64 /\ padded = 0 THEN 1
           ELSE IF padded > 1 \/ Total(2) >= 4096 THEN 3 ELSE 2
  IN IF k = 1 THEN <<Total(1)>>
     ELSE <<64 * (k - 1) + (Total(k) % 16)>>
          \o [x \in 1 .. k - 1 |-> Low(Total(k) \div 2 ^ (8 * x - 4))]
Pkg(bytes, padded) == PkgBytes(Len(bytes), padded) \o bytes

Filled4(seg) == seg \o [i \in 1 .. 4 - Len(seg) |-> Padding]
NameBytes(n) ==
  (IF n.up = Root THEN <<RootChar>> ELSE [i \in 1 .. n.up |-> ParentPrefix])
  \o (CASE Len(n.segs) = 0 -> <<NullChar>>
        [] Len(n.segs) = 1 -> <<>>
        [] Len(n.segs) = 2 -> <<DualName>>
        [] OTHER -> <<MultiName, Len(n.segs)>>)
  \o FlattenSeq([i \in 1 .. Len(n.segs) |-> Filled4(n.segs[i])])
OpBytes(code) == IF code > 255 THEN <<Prefix, code % 256>> ELSE <<code>>
IntBytes(n, k) == [i \in 1 .. k |-> Low(n \div 256 ^ (i - 1))]

RECURSIVE Bytes(_, _)
AllBytes(ts, padded) == FlattenSeq([i \in 1 .. Len(ts) |-> Bytes(ts[i], padded)])
OperandBytes(kind, t, padded) ==
  CASE kind \in {"byte", "level", "count", "space"} -> IntBytes(t.val[1], 1)
    [] kind = "word" -> IntBytes(t.val[1], 2)
    [] kind = "dword" -> IntBytes(t.val[1], 4)
    [] kind \in {"list", "objects"} -> AllBytes(t.args, padded)
    [] kind = "bytes" -> t.val
    [] OTHER -> Bytes(t, padded)
Bytes(t, padded) ==
  CASE t.op = "Integer" -> IF t.val[1] < 256 THEN <<10>> \o IntBytes(t.val[1], 1)
                           ELSE <<11>> \o IntBytes(t.val[1], 2)
    [] t.op = "String" -> <<13>> \o t.val \o <<NullChar>>
    [] t.op = "NameString" -> NameBytes(t.name)
    [] t.op = "NullName" -> <<NullChar>>
    [] t.op = "Local" -> <<96 + t.val[1]>>
    [] t.op = "Arg" -> <<104 + t.val[1]>>
    [] t.op = "Call" -> NameBytes(t.name) \o AllBytes(t.args, padded)
    [] t.op = "Buffer" -> OpBytes(17) \o Pkg(Bytes(t.args[1], padded) \o t.val, padded)
    [] t.op = "Package" ->
         OpBytes(18) \o Pkg(t.args[1].val \o AllBytes(Tail(t.args), padded), padded)
    [] t.op = "If" ->
         OpBytes(160) \o Pkg(Bytes(t.args[1], padded) \o AllBytes(t.args[2].args, padded), padded)
         \o (IF t.args[3].args = <<>> THEN <<>>
             ELSE OpBytes(161) \o Pkg(AllBytes(t.args[3].args, padded), padded))
    [] OTHER ->
         LET b == FlattenSeq([i \in 1 .. Len(t.args) |->
                                OperandBytes(Shape[t.op][i], t.args[i], padded)])
         IN OpBytes(Named[t.op]) \o (IF t.op \in DOMAIN Packages THEN Pkg(b, padded) ELSE b)

(* The names a list declares, each in its scope.                            *)
RECURSIVE Declared(_, _)
DeclaredBy(t, scope) ==
  LET full == resolveNameTo(scope, t.args[1].name)
  IN CASE t.op \in {"Name", "Method", "OpRegion"} -> <<full>>
       [] t.op = "Device" -> Declared(t.args[2].args, full) \o <<full>>
       [] t.op = "Processor" -> Declared(t.args[5].args, full)
       [] t.op = "Scope" -> Declared(t.args[2].args, full)
       [] t.op \in {"If", "While"} -> Declared(t.args[2].args, scope)
       [] OTHER -> <<>>
Declared(ts, scope) ==
  FlattenSeq([i \in 1 .. Len(ts) |->
                SelectSeq(DeclaredBy(ts[i], scope), LAMBDA full : full.up = Root)])

(* A table is read as the terms it encodes, and gives the name space the    *)
(* names it declares (Parser.swift 55-1268).                                *)
ParsedRight(ts, padded) ==
  LET r == parse(AllBytes(ts, padded))
  IN /\ r.v.args = ts /\ ~r.s.dead /\ r.s.in = <<>>
     /\ r.s.added = Declared(ts, Abs(<<>>))
(* A field anywhere in it ends the kernel.                                  *)
FieldOp == OpBytes(Named["Field"]) \o Pkg(NameBytes(Name(0, <<<<65>>>>)) \o <<1>>, 0)
FieldDies(ts) ==
  parse(AllBytes(ts, 0) \o FieldOp \o AllBytes(ts, 0)).s.dead

----------------------------------------------------------------------------
(* Programs: one statement after another, an if or a loop around some.      *)
Local(i) == Term("Local", NoName, <<i>>, <<>>)
Arg(i) == Term("Arg", NoName, <<i>>, <<>>)
NullName == T("NullName", <<>>)
NameOf(n) == Term("NameString", n, <<>>, <<>>)
List(ts) == T("List", ts)
Str(chars) == Term("String", NoName, chars, <<>>)
A == <<65>>
B == <<66, 49>>

MCValues == {Num(0), Num(1), Num(5), Num(200), Num(MAX), T("Zero", <<>>), T("One", <<>>),
             T("Ones", <<>>), T("Revision", <<>>), Local(1), Arg(0), NameOf(Abs(<<REV>>))}
MCSmall == {Num(2), Num(MAX), T("One", <<>>), Local(0)}
Binaries == DOMAIN TwoTarget \cap Arithmetic
MCExpressions ==
  {T(op, <<a, b, NullName>>) : op \in Binaries, a \in MCValues, b \in MCValues}
  \cup {T(op, <<a, b>>) : op \in DOMAIN Two, a \in MCValues, b \in MCValues}
  \cup {T("Divide", <<a, b, NullName, NullName>>) : a \in MCValues, b \in MCValues}
  \cup {T("LNot", <<a>>) : a \in MCValues} \cup {T("Not", <<a, NullName>>) : a \in MCValues}
  \cup {T("LNot", <<T("LLess", <<a, T("Add", <<b, d, NullName>>)>>)>>) :
          a \in MCSmall, b \in MCSmall, d \in MCSmall}

Plain(bytes) == Term("Buffer", NoName, bytes, <<Num(Len(bytes))>>)
MCStatements ==
  {T("Store", <<v, Local(0)>>) : v \in {Num(3), Arg(0), T("And", <<Arg(0), Num(6), Local(1)>>)}}
  \cup {T("Increment", <<Local(0)>>), T("Add", <<Local(0), Num(2), Local(1)>>),
        T("Divide", <<Num(17), Arg(0), Local(0), Local(1)>>), T("Noop", <<>>),
        T("ConcatRes", <<Plain(<<1, 2, 3>>), Plain(<<4>>), Local(1)>>),
        T("CopyObject", <<Num(2), Local(2)>>), T("Return", <<Local(0)>>), T("Break", <<>>), T("Store", <<Arg(0), NameOf(Abs(<<REV>>))>>),
        T("Store", <<Local(0), NameOf(Abs(<<REV>>))>>),
        Term("Call", Name(0, <<OSI>>), <<>>, <<Str(Darwin)>>)}
MCLoop(ts) == T("While", <<T("LLess", <<Local(0), Num(6)>>), List(ts)>>)
MCIf(p, ts, us) == T("If", <<p, List(ts), List(us)>>)
MCCounted == {<<T("Increment", <<Local(0)>>)>> \o us : us \in {<<s>> : s \in MCStatements} \cup {<<>>}}
MCBlocks == {<<>>} \cup {<<s>> : s \in MCStatements}
Stores0(t) == t.op = "Divide" \/ (t.op = "Store" /\ t.args[2] = Local(0))
MCCompound ==
  {MCLoop(ts) : ts \in {x \in MCCounted : \A i \in DOMAIN x : ~Stores0(x[i])}}
  \cup {MCIf(p, ts, us) : p \in {Local(0), Arg(0), T("Zero", <<>>)}, ts \in MCBlocks, us \in MCBlocks}
MCPrograms ==
  {<<s, t, T("Return", <<Local(0)>>)>> : s \in MCStatements, t \in MCStatements \cup MCCompound}

MCObjects ==
  {T("Name", <<NameOf(Name(0, <<A>>)), d>>) :
     d \in {T("One", <<>>), Num(300), Str(Darwin), T("Package", <<Num(2), Num(7), T("Ones", <<>>)>>),
            Term("Buffer", NoName, <<1, 0, 161>>, <<Num(3)>>)}}
  \cup {T("Method", <<NameOf(Name(0, <<B>>)), Num(1),
                      Term("Bytes", NoName, [i \in 1 .. n |-> 164], <<>>)>>) : n \in {0, 1, 70}}
  \cup {T("OpRegion", <<NameOf(Name(0, <<B>>)), Num(1), Num(96), Local(0)>>),
        T("Mutex", <<NameOf(Name(1, <<A>>)), Num(3)>>),
        T("External", <<NameOf(Name(0, <<A>>)), Num(8), Num(2)>>),
        T("Alias", <<NameOf(Abs(<<A, B, A>>)), NameOf(Name(2, <<B>>))>>),
        T("DataRegion", <<NameOf(Name(0, <<B>>)), Str(A), Str(<<>>), Str(B)>>),
        T("CreateField", <<Local(0), Num(4), Num(9), NameOf(Name(0, <<A, B>>))>>)}
Nested(n, ts) ==
  {T("Scope", <<NameOf(n), List(ts)>>)}
  \cup (IF Len(n.segs) = 1 /\ n.up = 0
        THEN {T("Device", <<NameOf(n), List(ts)>>),
              T("Processor", <<NameOf(n), Num(0), Num(1040), Num(6), List(ts)>>)}
        ELSE {})
MCNamesAml == {Name(0, <<A>>), Abs(<<B>>), Abs(<<A, B>>), Name(1, <<B>>), Abs(<<>>)}
MCTables ==
  UNION {Nested(n, <<o>>) \cup UNION {Nested(m, <<o>> \o <<x>>) : x \in UNION {Nested(n, <<p>>) :
           p \in {T("Name", <<NameOf(Name(0, <<A>>)), T("One", <<>>)>>)}}} :
         n \in MCNamesAml, m \in {Name(0, <<B>>), Abs(<<A>>)}, o \in MCObjects}

----------------------------------------------------------------------------
(* The value of an expression, by the definition of the language; Ones is   *)
(* taken for 255 and LGreater for LLess as the kernel does.                 *)
RECURSIVE Meaning(_, _)
Meaning(t, locals) ==
  LET a == Meaning(t.args[1], locals)
      b == Meaning(t.args[2], locals)
      Bit(n, k) == (n \div 2 ^ k) % 2
      Bitwise0(F(_, _)) == FoldFunction(+, 0, [k \in 0 .. AmlBits - 1 |->
                                           F(Bit(a, k), Bit(b, k)) * 2 ^ k])
  IN CASE t.op = "Integer" -> t.val[1]
       [] t.op = "Zero" -> 0 [] t.op = "One" -> 1 [] t.op = "Ones" -> 255
       [] t.op = "Revision" \/ t.op = "NameString" -> 2
       [] t.op = "Local" -> locals[t.val[1]] [] t.op = "Arg" -> 9
       [] t.op = "Add" -> (a + b) % 2 ^ AmlBits
       [] t.op = "Subtract" -> (2 ^ AmlBits + a - b) % 2 ^ AmlBits
       [] t.op = "And" -> Bitwise0(LAMBDA x, y : x * y)
       [] t.op = "Or" -> Bitwise0(LAMBDA x, y : IF x + y > 0 THEN 1 ELSE 0)
       [] t.op = "Xor" -> Bitwise0(LAMBDA x, y : (x + y) % 2)
       [] t.op = "ShiftLeft" -> (a * 2 ^ (IF b > AmlBits THEN AmlBits ELSE b)) % 2 ^ AmlBits
       [] t.op = "ShiftRight" -> a \div 2 ^ (IF b > AmlBits THEN AmlBits ELSE b)
       [] t.op = "Divide" -> a \div b
       [] t.op = "Not" -> MAX - a
       [] t.op = "LNot" -> Truth(a = 0)
       [] t.op = "LAnd" -> Truth(a * b > 0)
       [] t.op = "LOr" -> Truth(a + b > 0)
       [] t.op = "LEqual" -> Truth(a = b)
       [] t.op \in {"LLess", "LGreater"} -> Truth(b > a)
Overflows(t, locals) ==
  LET a == Meaning(t.args[1], locals)
      b == Meaning(t.args[2], locals)
  IN \/ t.op = "Add" /\ a + b > MAX
     \/ t.op = "Divide" /\ b = 0
RECURSIVE Defined(_, _)
Defined(t, locals) ==
  /\ ~(t.op \in {"Add", "Divide"} /\ Overflows(t, locals))
  /\ \A i \in DOMAIN t.args : Defined(t.args[i], locals)

MCContext == [Context(Abs(<<A>>), <<Num(9)>>)
                EXCEPT !.locals = [i \in 0 .. 7 |-> IF i < 2 THEN Num(4 + i) ELSE Nil]]
Ran(ts) == execute(ts, MCContext)

(* An expression has the value the language gives it, and only a sum that   *)
(* overflows or a division by 0 ends the kernel (Type2Opcodes.swift 45-981).*)
EvaluatedRight(t) ==
  LET r == evaluate(t, MCContext)
      locals == [i \in 0 .. 1 |-> 4 + i]
  IN IF Defined(t, locals) THEN r.c.is = "runs" /\ r.v = Num(Meaning(t, locals))
     ELSE r.c.is = "dead"

(* Of a program nothing runs behind its return, its end or what throws; a   *)
(* loop does what its body does, then itself, as long as its condition      *)
(* holds; numbers keep their width (Method.swift 38-61, Type1Opcodes.swift  *)
(* 34-178).                                                                 *)
Unrolled(t) ==
  IF t.op # "While" THEN <<t>>
  ELSE <<T("If", <<t.args[1], List(t.args[2].args \o <<t>>), List(<<>>)>>)>>
ExecutedRight(ts) ==
  LET after == Ran(ts)
  IN /\ \A k \in 1 .. Len(ts) :
          Ran(SubSeq(ts, 1, k)).is # "runs" => after = Ran(SubSeq(ts, 1, k))
     /\ after = Ran(FlattenSeq([i \in 1 .. Len(ts) |-> Unrolled(ts[i])]))
     /\ \A i \in 0 .. 7 : IsInt(after.locals[i]) => after.locals[i].val[1] \in 0 .. MAX

(* A field reads back what was written, and its neighbours keep their bits. *)
MCArrays == {[i \in 0 .. 3 |-> n] : n \in {0, 5, 10, 15}}
MCRules == {"Preserve", "WriteAsOnes", "WriteAsZeros"}
MCFields ==
  {f \in [array : MCArrays, rule : MCRules, offset : 0 .. 15, width : 1 .. AmlBits,
          value : {0, 1, 5, 64, 1365, 2048, MAX}] : f.offset + f.width <= 16}
FieldRight(f) ==
  LET after == WriteField(f.rule, f.array, f.offset, f.width, f.value)
      end == f.offset + f.width
      Kept(from, width) ==
        width > 0 => ReadField(after[1], from, width) = ReadField(f.array, from, width)
  IN f.value < 2 ^ f.width /\ f.width < AmlBits =>
       /\ after # <<>> /\ ReadField(after[1], f.offset, f.width) = f.value
       /\ f.rule = "Preserve" => Kept(0, f.offset) /\ Kept(end, 16 - end)
=============================================================================
