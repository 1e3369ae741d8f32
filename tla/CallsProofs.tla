----------------------------- MODULE CallsProofs -----------------------------
(***************************************************************************)
(* For any machine: the regions of its devices, the drivers of its buses,   *)
(* the pins of its interrupt lines and the volumes of its disks are found   *)
(* as the devices and the firmware say; and for any text: the value of an   *)
(* argument, an argument of the command line and the words of a line of the *)
(* shell are read as they were meant.                                       *)
(*                                                                          *)
(* The calls have no steps in between, so what is proved is what they       *)
(* compute.  Loops are recursive functions over places; that there is such  *)
(* a function, and what holds of its values, is shown by going up from the  *)
(* first place (Upwards, Recursion), so every loop has an invariant here    *)
(* that speaks of what was seen so far.                                     *)
(***************************************************************************)
EXTENDS Calls, FiniteSetTheorems, SequenceTheorems, WellFoundedInduction, TLAPS

----------------------------------------------------------------------------
(* Counting up, and functions defined by recursion.                        *)
LEMMA LeastOf ==
  ASSUME NEW T, T \subseteq Nat, T # {}
  PROVE  \E m \in T : \A n \in T : m <= n
<1>1. IsWellFoundedOn(OpToRel(<, Nat), Nat)
  BY NatLessThanWellFounded
<1>2. PICK m \in T : \A n \in T : ~(<<n, m>> \in OpToRel(<, Nat))
  BY <1>1, WFMin
<1>3. ASSUME NEW n \in T, n < m PROVE FALSE
  <2>1. <<n, m>> \in OpToRel(<, Nat)
    BY <1>3 DEF OpToRel
  <2> QED
    BY <1>2, <2>1
<1> QED
  BY <1>3

(* What holds at first and of each after the one before holds of all.       *)
LEMMA Upwards ==
  ASSUME NEW n \in Nat, NEW T, 0 \in T, \A k \in 1 .. n : k - 1 \in T => k \in T
  PROVE  \A k \in 0 .. n : k \in T
<1> DEFINE Odd == 0 .. n \ T
<1>1. Odd \subseteq Nat
  OBVIOUS
<1>2. CASE Odd # {}
  <2>1. PICK m \in Odd : \A k \in Odd : m <= k
    BY <1>1, <1>2, LeastOf
  <2>2. m \in 1 .. n /\ m - 1 \in 0 .. n /\ m - 1 \notin Odd
    BY <2>1
  <2> QED
    BY <2>1, <2>2
<1>3. CASE Odd = {}
  BY <1>3
<1> QED
  BY <1>2, <1>3

(* Steps from one of S to one of S are taken one after the other.           *)
Chain(f, n, base, step) == f[0] = base /\ \A k \in 1 .. n : f[k] = step[<<k, f[k - 1]>>]

(* Every step from S into S has a chain of its values.                      *)
LEMMA Recursion ==
  ASSUME NEW n \in Nat, NEW S, NEW base \in S, NEW step,
         \A k \in 1 .. n, x \in S : step[<<k, x>>] \in S
  PROVE  \E f \in [0 .. n -> S] : Chain(f, n, base, step)
<1> DEFINE T == {m \in 0 .. n : \E f \in [0 .. m -> S] : Chain(f, m, base, step)}
<1>1. 0 \in T
  <2> DEFINE f == [k \in 0 .. 0 |-> base]
  <2>1. f \in [0 .. 0 -> S] /\ Chain(f, 0, base, step) /\ 0 \in 0 .. n
    BY DEF Chain
  <2> QED
    BY <2>1
<1>2. ASSUME NEW k \in 1 .. n, k - 1 \in T PROVE k \in T
  <2>1. PICK f \in [0 .. k - 1 -> S] : Chain(f, k - 1, base, step)
    BY <1>2
  <2>2. PICK x \in S : x = step[<<k, f[k - 1]>>]
    <3>1. f[k - 1] \in S
      BY <2>1
    <3> QED
      BY <3>1
  <2> DEFINE g == [j \in 0 .. k |-> IF j = k THEN x ELSE f[j]]
  <2>3. g \in [0 .. k -> S]
    BY <2>2
  <2>4. g[k] = x /\ \A j \in 0 .. k - 1 : g[j] = f[j]
    OBVIOUS
  <2>5. g[0] = base
    BY <2>1, <2>4 DEF Chain
  <2> HIDE DEF g
  <2>6. ASSUME NEW j \in 1 .. k PROVE g[j] = step[<<j, g[j - 1]>>]
    <3>1. CASE j = k
      BY <3>1, <2>2, <2>4
    <3>2. CASE j # k
      <4>1. j \in 1 .. k - 1 /\ j - 1 \in 0 .. k - 1 /\ j \in 0 .. k - 1
        BY <3>2
      <4>2. f[j] = step[<<j, f[j - 1]>>]
        BY <4>1, <2>1 DEF Chain
      <4> QED
        BY <4>1, <4>2, <2>4
    <3> QED
      BY <3>1, <3>2
  <2>7. Chain(g, k, base, step)
    BY <2>5, <2>6 DEF Chain
  <2>8. k \in 0 .. n
    OBVIOUS
  <2> QED
    BY <2>3, <2>7, <2>8
<1> HIDE DEF T
<1>3. n \in T
  <2>1. \A k \in 0 .. n : k \in T
    BY <1>1, <1>2, Upwards
  <2> QED
    BY <2>1
<1> QED
  BY <1>3 DEF T

(* Functions over one set with the same values are the same.                *)
LEMMA SameFunction ==
  ASSUME NEW S, NEW g, NEW h, g = [y \in S |-> g[y]], h = [y \in S |-> h[y]],
         \A y \in S : g[y] = h[y]
  PROVE  g = h
<1>1. [y \in S |-> g[y]] = [y \in S |-> h[y]]
  OBVIOUS
<1> QED
  BY <1>1

----------------------------------------------------------------------------
(* Regions: what is left of all ones, and of the number, below the size.    *)
LEMMA Quotient ==
  ASSUME NEW n \in Nat \ {0}, NEW q \in Int, NEW r \in 0 .. n - 1, NEW a, a = (n * q) + r
  PROVE  a \div n = q /\ a % n = r
  OBVIOUS

(* A number is its quotient times n and its rest.                           *)
LEMMA Division ==
  ASSUME NEW n \in Nat \ {0}, NEW a \in Int
  PROVE  /\ a = (n * (a \div n)) + (a % n)
         /\ a % n \in 0 .. n - 1 /\ a \div n \in Int
  OBVIOUS

(* The quotient of a natural is a natural.                                  *)
LEMMA NatDivision ==
  ASSUME NEW n \in Nat \ {0}, NEW a \in Nat
  PROVE  a \div n \in Nat
  OBVIOUS

(* The rest of a multiple of n and something less than n.                   *)
LEMMA RestIs ==
  ASSUME NEW n \in Nat \ {0}, NEW q \in Int, NEW r \in Int, 0 <= r, r < n
  PROVE  ((n * q) + r) % n = r
<1>1. PICK a \in Int : a = (n * q) + r
  OBVIOUS
<1>2. r \in 0 .. n - 1
  OBVIOUS
<1>3. a % n = r
  BY <1>1, <1>2, Quotient
<1> QED
  BY <1>1, <1>3

(* What is aligned to n is a multiple of n.                                 *)
LEMMA Times ==
  ASSUME NEW n \in Nat \ {0}, NEW a \in Nat, a % n = 0
  PROVE  \E q \in Nat : a = n * q
<1>1. a \div n \in Nat /\ a = n * (a \div n)
  BY Division, NatDivision
<1> QED
  BY <1>1

(* The bits above and below a power of two can be put together and taken    *)
(* apart.                                                                   *)
LEMMA AboveIs ==
  ASSUME NEW n \in Nat \ {0}, NEW a \in Nat, a % n = 0, NEW r \in 0 .. n - 1
  PROVE  Above(a + r, n) = a /\ (a + r) % n = r
<1>1. PICK q \in Nat : a = n * q
  BY Times
<1>2. (a + r) % n = r
  BY <1>1, Quotient
<1> QED
  BY <1>2 DEF Above

(* All ones, in a register that writes down what is above its size.         *)
LEMMA OnesAre ==
  ASSUME NEW n \in Nat \ {0}, NEW a \in Nat \ {0}, a % n = 0
  PROVE  Above(a - 1, n) = a - n /\ (a - n) % n = 0 /\ n <= a
<1>1. PICK q \in Nat : a = n * q
  BY Times
<1>2. q # 0 /\ q - 1 \in Nat
  BY <1>1
<1>3. a - n = n * (q - 1)
  BY <1>1, <1>2
<1>4. (a - n) \in Nat
  BY <1>3, <1>2
<1>5. (a - n) % n = 0
  BY <1>3, <1>2, <1>4, Quotient
<1>6. a - 1 = (a - n) + (n - 1) /\ n - 1 \in 0 .. n - 1
  OBVIOUS
<1>7. Above((a - n) + (n - 1), n) = a - n
  BY <1>4, <1>5, <1>6, AboveIs
<1> QED
  BY <1>4, <1>5, <1>6, <1>7

(* What sizing a register reads: where it is, the bits that take a one, and *)
(* the register as it was before (PCIController.cpp 79-85).                 *)
LEMMA ReadIs ==
  ASSUME NEW size \in Nat \ {0}, NEW top \in Nat \ {0}, NEW v \in Nat, NEW flags \in Nat,
         v % size = 0, flags < size, v < top, Span % size = 0, Span # 0, Span \in Nat
  PROVE  ReadBar(Register(v, size, top, flags))
           = [address |-> v + flags, mask |-> ((Span - size) % top) + flags,
              after |-> Register(v, size, top, flags)]
<1>1. Above(Span - 1, size) = Span - size
  BY OnesAre
<1>0. flags \in 0 .. size - 1
  OBVIOUS
<1>2. Above(v + flags, size) = v
  BY <1>0, AboveIs, Zenon
<1>3. v % top = v
  OBVIOUS
<1>4. Written(Register(v, size, top, flags), Span - 1)
        = Register((Span - size) % top, size, top, flags)
  BY <1>1 DEF Written, Register
<1>5. GetConfig(Register(v, size, top, flags)) = v + flags
  BY DEF GetConfig, Register
<1>6. GetConfig(Register((Span - size) % top, size, top, flags)) = ((Span - size) % top) + flags
  BY DEF GetConfig, Register
<1>7. Written(Register((Span - size) % top, size, top, flags), v + flags)
        = Register(v, size, top, flags)
  BY <1>2, <1>3 DEF Written, Register
<1> QED
  BY <1>4, <1>5, <1>6, <1>7 DEF ReadBar

(* What the flags say, behind a number whose lowest bits are nought.        *)
LEMMA FlagsSay ==
  ASSUME NEW v \in Nat, v % 16 = 0, NEW f \in {0, 4, 8, 12}
  PROVE  /\ Has(v + f, WIDE) <=> f \in {4, 12}
         /\ ~Has(v + f, IO)
  BY DEF Has, WIDE, IO

(* The lowest bit of a port region says that it is one.                     *)
LEMMA PortsSay ==
  ASSUME NEW v \in Nat, v % 4 = 0
  PROVE  /\ Has(v + 1, WIDE) <=> Has(v, WIDE)
         /\ Has(v + 1, IO)
  BY DEF Has, WIDE, IO

(* What is below n is its own rest.                                         *)
LEMMA Within ==
  ASSUME NEW n \in Nat \ {0}, NEW a \in 0 .. n - 1
  PROVE  a % n = a
  OBVIOUS

(* Flags below sixteen are dropped from what is aligned to sixteen.         *)
LEMMA Sixteens ==
  ASSUME NEW x \in Nat, NEW s \in Nat, x % 16 = 0, s % 16 = 0, s <= x, NEW f \in {0, 4, 8, 12}
  PROVE  /\ Above(s + f, 16) = s
         /\ Above((x - s) + f, 16) = x - s /\ Above((x - s) + f, 4) = (x - s) + f
<1>1. (x - s) % 16 = 0 /\ x - s \in Nat
  OBVIOUS
<1>2. 16 \in Nat \ {0} /\ f \in 0 .. 16 - 1 /\ 4 \in Nat \ {0} /\ 0 \in 0 .. 4 - 1
  OBVIOUS
<1>3. Above(s + f, 16) = s /\ Above((x - s) + f, 16) = x - s
  BY <1>1, <1>2, AboveIs, Zenon
<1>4. ((x - s) + f) % 4 = 0
  BY <1>1
<1> QED
  BY <1>1, <1>3, <1>4 DEF Above

(* What is aligned to a multiple of n is aligned to n.                      *)
LEMMA Divides ==
  ASSUME NEW n \in Nat \ {0}, NEW a \in Nat \ {0}, NEW c \in Nat, a % n = 0, c % a = 0
  PROVE  c % n = 0
<1>1. PICK q \in Nat : a = n * q
  BY Times
<1>2. PICK p \in Nat : c = a * p
  BY Times
<1>3. c = n * (q * p) /\ q * p \in Nat
  BY <1>1, <1>2
<1> QED
  BY <1>3, Quotient

(* What the two classes make of the first register.                         *)
LEMMA CppReads ==
  ASSUME NEW A, NEW B, NEW a, NEW m, ReadBar(A) = [address |-> a, mask |-> m, after |-> A],
         ~Has(a, WIDE)
  PROVE  /\ getBAR(<<A, B>>).after = <<A, B>>
         /\ Has(a, IO) => /\ getBAR(<<A, B>>).is = "port"
                          /\ getBAR(<<A, B>>).at = Above(a, 4) % Ports
                          /\ getBAR(<<A, B>>).size = (Flipped(Above(m, 4), Span) + 1) % Ports
         /\ ~Has(a, IO) => /\ getBAR(<<A, B>>).is = "memory"
                           /\ getBAR(<<A, B>>).at = Above(a, 16)
                           /\ getBAR(<<A, B>>).size = (Flipped(Above(m, 16), Span) + 1) % Span
<1>1. <<A, B>>[1] = A /\ <<A, B>>[2] = B
  OBVIOUS
<1> QED
  BY <1>1 DEF getBAR

(* The same of a wide region: both registers are read, and put together.    *)
LEMMA CppReadsWide ==
  ASSUME NEW A, NEW B, NEW a, NEW m, ReadBar(A) = [address |-> a, mask |-> m, after |-> A],
         NEW c, NEW d, ReadBar(B) = [address |-> c, mask |-> d, after |-> B], Has(a, WIDE)
  PROVE  /\ getBAR(<<A, B>>).after = <<A, B>> /\ getBAR(<<A, B>>).is = "wide"
         /\ getBAR(<<A, B>>).at = Above(a, 16) + Span * c
         /\ getBAR(<<A, B>>).size
              = (Flipped(Span * d + Above(m, 16), Span * Span) + 1) % (Span * Span)
<1>1. <<A, B>>[1] = A /\ <<A, B>>[2] = B
  OBVIOUS
<1> QED
  BY <1>1 DEF getBAR

(* What the Swift class makes of a region: only the first register, and a   *)
(* trap where the size or the port does not fit its type.                   *)
LEMMA SwiftReads ==
  ASSUME NEW A, NEW B, NEW a, NEW m, ReadBar(A) = [address |-> a, mask |-> m, after |-> A],
         NEW size, size = Flipped(Above(m, 4), Span) + 1
  PROVE  /\ GetBAR(<<A, B>>).after = <<A, B>>
         /\ size = Span \/ (Has(a, IO) /\ Above(a, 4) >= Ports \div 2)
              => GetBAR(<<A, B>>).is = "trap"
         /\ ~(size = Span \/ (Has(a, IO) /\ Above(a, 4) >= Ports \div 2)) =>
              /\ GetBAR(<<A, B>>).is = IF Has(a, IO) THEN "port" ELSE "memory"
              /\ GetBAR(<<A, B>>).at = IF Has(a, IO) THEN Above(a, 4) ELSE Above(a, 16)
              /\ GetBAR(<<A, B>>).size = size
<1>1. <<A, B>>[1] = A /\ <<A, B>>[2] = B
  OBVIOUS
<1> QED
  BY <1>1 DEF GetBAR

(* Spans of addresses and ports are aligned to sixteen.                     *)
LEMMA SpanFacts ==
  /\ Span \in Nat \ {0} /\ Ports \in Nat \ {0} /\ PageSize \in Nat \ {0}
  /\ Span % 16 = 0 /\ Ports % 16 = 0 /\ Ports % 2 = 0 /\ Span >= 16 /\ Span % Ports = 0 /\ Ports < Span
  /\ 2 * (Ports \div 2) = Ports
<1>1. Ports % 16 = 0 /\ Ports % 2 = 0
  BY BarAssumption
<1>2. Span \in Nat \ {0}
  BY BarAssumption
<1>3. Span % 16 = 0
  <2>1. 16 \in Nat \ {0} /\ Ports \in Nat \ {0} /\ Span \in Nat /\ Span % Ports = 0
    BY BarAssumption
  <2> QED
    BY <1>1, <2>1, Divides
<1> QED
  BY <1>1, <1>2, <1>3, BarAssumption

(* A register that takes no ones is found as no region.                     *)
LEMMA NothingFound ==
  ASSUME NEW r, IsRegion(r), r.kind = "none"
  PROVE  BarRight(r)
<1> DEFINE A == Register(0, Span, Span, 0)
<1>1. r.size = Span /\ r.base = 0
  BY DEF IsRegion
<1>2. FlagsOf(r) = 0
  BY DEF FlagsOf
<1>3. 0 % Span = 0 /\ Span % Span = 0
  BY SpanFacts, Quotient
<1>4. RegistersOf(r) = <<A, A>>
  BY <1>1, <1>2, <1>3, SpanFacts DEF RegistersOf
<1>5. ReadBar(A) = [address |-> 0, mask |-> 0, after |-> A]
  <2>1. ReadBar(A) = [address |-> 0 + 0, mask |-> ((Span - Span) % Span) + 0, after |-> A]
    BY <1>3, SpanFacts, ReadIs
  <2>2. ((Span - Span) % Span) + 0 = 0
    BY <1>3, SpanFacts
  <2> QED
    BY <2>1, <2>2
<1>6. ~Has(0, WIDE) /\ ~Has(0, IO)
  BY DEF Has, WIDE, IO
<1>7. Above(0, 4) = 0 /\ Above(0, 16) = 0 /\ Flipped(0, Span) + 1 = Span
  BY SpanFacts DEF Above, Flipped
<1> HIDE DEF A
<1>8. /\ getBAR(<<A, A>>).after = <<A, A>> /\ getBAR(<<A, A>>).is = "memory"
      /\ getBAR(<<A, A>>).at = 0 /\ getBAR(<<A, A>>).size = 0
  BY <1>3, <1>5, <1>6, <1>7, CppReads
<1>9. GetBAR(<<A, A>>).after = <<A, A>> /\ GetBAR(<<A, A>>).is = "trap"
  BY <1>5, <1>7, SwiftReads
<1> QED
  BY <1>1, <1>4, <1>8, <1>9 DEF BarRight

(* What is rounded to pages does not depend on the flags.                   *)
LEMMA PagesAre ==
  ASSUME NEW s \in Nat \ {0}, s % 16 = 0, NEW f \in {0, 4, 8, 12}
  PROVE  round_page(s - f) = round_page(s)
<1>1. PageSize \in Nat \ {0} /\ PageSize % 16 = 0
  BY BarAssumption
<1>2. PICK a \in Nat : a = s + PageSize - 1
  BY <1>1
<1>3. a % 16 = 15
  BY <1>1, <1>2
<1>4. PICK q \in Nat, t \in 0 .. PageSize - 1 : a = (PageSize * q) + t
  <2>1. a \div PageSize \in Nat
    BY <1>1, NatDivision
  <2>2. a % PageSize \in 0 .. PageSize - 1 /\ a = (PageSize * (a \div PageSize)) + (a % PageSize)
    BY <1>1, Division
  <2> QED
    BY <2>1, <2>2
<1>5. PICK p \in Nat : PageSize = 16 * p
  <2>1. 16 \in Nat \ {0} /\ PageSize \in Nat /\ PageSize % 16 = 0
    BY <1>1
  <2> QED
    BY <2>1, Times
<1>6. PICK pq \in Int : pq = p * q
  OBVIOUS
<1>7. PageSize * q = 16 * pq
  BY <1>5, <1>6
<1>8. t % 16 = 15
  BY <1>3, <1>4, <1>7
<1>9. 0 <= t - f /\ t - f < PageSize /\ t - f \in Int /\ q \in Int
  BY <1>8, <1>4, <1>1
<1>10. a - f = (PageSize * q) + (t - f)
  <2>1. PageSize * q \in Int
    BY <1>1
  <2> QED
    BY <1>4, <2>1
<1>11. ((PageSize * q) + (t - f)) % PageSize = t - f
  BY <1>1, <1>9, RestIs
<1>12. ((PageSize * q) + t) % PageSize = t
  <2>1. t \in Int /\ 0 <= t /\ t < PageSize
    BY <1>4, <1>1
  <2> QED
    BY <1>1, <1>9, <2>1, RestIs
<1>13. a % PageSize = t /\ (a - f) % PageSize = t - f
  BY <1>4, <1>10, <1>11, <1>12
<1>14. a - f = s - f + PageSize - 1
  BY <1>1, <1>2
<1>15. round_page(s) = a - t /\ round_page(s - f) = (a - f) - (t - f)
  BY <1>2, <1>13, <1>14 DEF round_page, Above
<1> QED
  BY <1>2, <1>4, <1>15, <1>1

(* A memory region in one register is found where it is and as long as it   *)
(* is.                                                                      *)
LEMMA MemoryFound ==
  ASSUME NEW r, IsRegion(r), r.kind = "memory"
  PROVE  BarRight(r)
<1>0. /\ r.size \in Nat \ {0} /\ r.base \in Nat /\ r.base % r.size = 0 /\ r.size % 16 = 0
      /\ Span % r.size = 0 /\ 2 * r.size <= Span /\ r.base + r.size <= Span
  BY DEF IsRegion
<1>1. PICK s \in Nat \ {0}, b \in Nat :
        /\ s = r.size /\ b = r.base
        /\ b % s = 0 /\ s % 16 = 0 /\ Span % s = 0 /\ 2 * s <= Span /\ b + s <= Span
  BY <1>0
<1>2. PICK f \in {0, 8} : f = FlagsOf(r)
  BY DEF FlagsOf, PREFETCH
<1> DEFINE A == Register(b, s, Span, f)  B == Register(0, Span, Span, 0)
           m == (Span - s) + f
<1>3. /\ b % 16 = 0 /\ s >= 16 /\ s < Span /\ b < Span /\ Span - s \in Nat
      /\ b \in 0 .. Span - 1 /\ s \in 0 .. Span - 1 /\ Span - s \in 0 .. Span - 1
  <2>1. b % 16 = 0
    <3>1. 16 \in Nat \ {0}
      OBVIOUS
    <3> QED
      BY <1>1, <3>1, Divides
  <2> QED
    BY <1>1, <2>1, SpanFacts
<1>4. b % Span = b /\ s % Span = s /\ (Span - s) % Span = Span - s
  BY <1>3, SpanFacts, Within, Zenon
<1>5. RegistersOf(r) = <<A, B>>
  BY <1>1, <1>2, <1>3, <1>4 DEF RegistersOf
<1>6. ReadBar(A) = [address |-> b + f, mask |-> m, after |-> A]
  <2>1. f \in Nat /\ f < s /\ b < Span /\ Span # 0 /\ Span \in Nat \ {0} /\ Span \in Nat
    BY <1>2, <1>3, SpanFacts
  <2>2. b % s = 0 /\ Span % s = 0
    BY <1>1
  <2>3. ReadBar(Register(b, s, Span, f))
          = [address |-> b + f, mask |-> ((Span - s) % Span) + f, after |-> Register(b, s, Span, f)]
    BY <2>1, <2>2, ReadIs, ZenonT(60)
  <2> QED
    BY <2>3, <1>4
<1>7. ~Has(b + f, WIDE) /\ ~Has(b + f, IO)
  BY <1>3, <1>2, FlagsSay
<1>8. /\ Above(b + f, 16) = b /\ Above(m, 16) = Span - s /\ Above(m, 4) = m
  <2>1. f \in {0, 4, 8, 12} /\ b <= Span /\ s <= Span /\ Span \in Nat /\ s \in Nat
    BY <1>2, <1>3, SpanFacts
  <2>2. b % 16 = 0 /\ s % 16 = 0 /\ Span % 16 = 0
    BY <1>1, <1>3, SpanFacts
  <2>3. Above(b + f, 16) = b
    BY <2>1, <2>2, Sixteens, Zenon
  <2> QED
    BY <2>1, <2>2, <2>3, Sixteens, ZenonT(60)
<1>9. Flipped(Span - s, Span) + 1 = s /\ Flipped(m, Span) + 1 = s - f
  BY <1>2, <1>3, SpanFacts DEF Flipped
<1>10. s - f # Span
  BY <1>2, <1>3, SpanFacts
<1> HIDE DEF A, B, m
<1>11. /\ getBAR(<<A, B>>).after = <<A, B>> /\ getBAR(<<A, B>>).is = "memory"
       /\ getBAR(<<A, B>>).at = b /\ getBAR(<<A, B>>).size = s
  BY <1>4, <1>6, <1>7, <1>8, <1>9, CppReads
<1>12. /\ GetBAR(<<A, B>>).after = <<A, B>> /\ GetBAR(<<A, B>>).is = "memory"
       /\ GetBAR(<<A, B>>).at = b /\ GetBAR(<<A, B>>).size = s - f
  BY <1>6, <1>7, <1>8, <1>9, <1>10, SwiftReads
<1>13. round_page(s - f) = round_page(s)
  BY <1>1, <1>2, PagesAre
<1> QED
  BY <1>1, <1>5, <1>11, <1>12, <1>13 DEF BarRight

(* A span less a part of the ports, in the ports.                           *)
LeftOf(x, P, s) == (x - s) % P = P - s /\ (x - (P - s)) % P = s
LEMMA PortsLeft ==
  ASSUME NEW P \in Nat \ {0}, NEW x \in Nat, x % P = 0, P < x, NEW s \in 1 .. P - 1
  PROVE  LeftOf(x, P, s)
<1>1. PICK q \in Nat : x = P * q
  BY Times
<1>2. PICK k \in Int : k = q - 1
  BY <1>1
<1>3. PICK y \in Int : y = P * k
  BY <1>2
<1>4. x = y + P
  BY <1>1, <1>2, <1>3
<1>5. x - s = (P * k) + (P - s) /\ P - s \in Int /\ 0 <= P - s /\ P - s < P
  BY <1>3, <1>4
<1>6. x - (P - s) = (P * k) + s /\ s \in Int /\ 0 <= s /\ s < P
  BY <1>3, <1>4
<1>7. ((P * k) + (P - s)) % P = P - s /\ ((P * k) + s) % P = s
  BY <1>2, <1>5, <1>6, RestIs
<1> QED
  BY <1>5, <1>6, <1>7 DEF LeftOf

(* A port region is found where it is and as long as it is.                 *)
LEMMA PortsFound ==
  ASSUME NEW r, IsRegion(r), r.kind = "port"
  PROVE  BarRight(r)
<1>0. /\ r.size \in Nat \ {0} /\ r.base \in Nat /\ r.base % r.size = 0 /\ r.size % 4 = 0
      /\ Ports % r.size = 0 /\ 2 * r.size <= Ports /\ r.base + r.size <= Ports
      /\ r.narrow \in BOOLEAN
  BY DEF IsRegion
<1>1. PICK s \in Nat \ {0}, b \in Nat :
        /\ s = r.size /\ b = r.base
        /\ b % s = 0 /\ s % 4 = 0 /\ Ports % s = 0 /\ 2 * s <= Ports /\ b + s <= Ports
  BY <1>0
<1>2. FlagsOf(r) = 1
  BY DEF FlagsOf, IO
<1>3. PICK top \in {Ports, Span}, ones \in {Ports - s, Span - s} :
        IF r.narrow THEN top = Ports /\ ones = Ports - s ELSE top = Span /\ ones = Span - s
  BY <1>0
<1> DEFINE A == Register(b, s, top, 1)  B == Register(0, Span, Span, 0)
           m == ones + 1
<1>4. b % 4 = 0 /\ Span % s = 0
  <2>1. 4 \in Nat \ {0}
    OBVIOUS
  <2> QED
    BY <1>1, <2>1, SpanFacts, Divides
<1>5. /\ s >= 4 /\ s < Ports /\ b < Ports /\ Ports < Span /\ s < Span
      /\ b \in 0 .. Span - 1 /\ s \in 1 .. Ports - 1 /\ s \in 0 .. Ports - 1 /\ Span - s \in 0 .. Span - 1
  BY <1>1, SpanFacts
<1>6. b % Span = b /\ s % Ports = s /\ (Span - s) % Span = Span - s
  BY <1>5, SpanFacts, Within, Zenon
<1>7. (Span - s) % Ports = Ports - s /\ (Span - (Ports - s)) % Ports = s
  <2>1. Ports \in Nat \ {0} /\ Span \in Nat /\ Span % Ports = 0 /\ Ports < Span /\ s \in 1 .. Ports - 1
    BY <1>5, SpanFacts
  <2>2. LeftOf(Span, Ports, s)
    BY <2>1, PortsLeft, Zenon
  <2> QED
    BY <2>2 DEF LeftOf
<1>8. RegistersOf(r) = <<A, B>>
  <2>1. s < Span
    BY <1>5
  <2> QED
    BY <1>1, <1>2, <1>3, <2>1, <1>6 DEF RegistersOf
<1>9. (Span - s) % top = ones
  BY <1>3, <1>6, <1>7
<1>10. ReadBar(A) = [address |-> b + 1, mask |-> m, after |-> A]
  <2>1. 1 < s /\ b < top /\ Span # 0 /\ Span \in Nat /\ top \in Nat \ {0} /\ 1 \in Nat
    BY <1>3, <1>5, SpanFacts
  <2>2. b % s = 0 /\ Span % s = 0
    BY <1>1, <1>4
  <2>3. ReadBar(Register(b, s, top, 1))
          = [address |-> b + 1, mask |-> ((Span - s) % top) + 1, after |-> Register(b, s, top, 1)]
    BY <2>1, <2>2, ReadIs, ZenonT(60)
  <2> QED
    BY <2>3, <1>9
<1>11. (Has(b + 1, WIDE) <=> Has(b, WIDE)) /\ Has(b + 1, IO)
  BY <1>4, PortsSay
<1>12. ones \in Nat /\ ones % 4 = 0
  <2>1. Ports % 4 = 0 /\ Span % 4 = 0
    BY SpanFacts
  <2> QED
    BY <2>1, <1>1, <1>3, <1>5, SpanFacts
<1>13. Above(b + 1, 4) = b /\ Above(m, 4) = ones
  <2>1. 4 \in Nat \ {0} /\ 1 \in 0 .. 4 - 1
    OBVIOUS
  <2> QED
    BY <2>1, <1>4, <1>12, AboveIs, Zenon
<1>14. (Flipped(ones, Span) + 1) % Ports = s /\ Flipped(ones, Span) + 1 # Span
  <2>1. Flipped(ones, Span) + 1 = Span - ones
    BY <1>12, SpanFacts DEF Flipped
  <2>2. Span - (Span - s) = s /\ Span - ones # Span
    BY <1>3, <1>5, SpanFacts
  <2> QED
    BY <2>1, <2>2, <1>3, <1>6, <1>7
<1>15. ~r.narrow => Flipped(ones, Span) + 1 = s
  BY <1>3, <1>5, SpanFacts DEF Flipped
<1> HIDE DEF A, B, m
<1>16. ~Has(b, WIDE) =>
         /\ getBAR(<<A, B>>).after = <<A, B>> /\ getBAR(<<A, B>>).is = "port"
         /\ getBAR(<<A, B>>).at = b /\ getBAR(<<A, B>>).size = s
  <2>1. b % Ports = b
    BY <1>5, SpanFacts
  <2> QED
    BY <2>1, <1>10, <1>11, <1>13, <1>14, CppReads
<1>17. /\ GetBAR(<<A, B>>).after = <<A, B>>
       /\ b < Ports \div 2 =>
            /\ GetBAR(<<A, B>>).is = "port" /\ GetBAR(<<A, B>>).at = b
            /\ GetBAR(<<A, B>>).size = Flipped(ones, Span) + 1
  <2>1. b < Ports \div 2 => ~(b >= Ports \div 2)
    BY SpanFacts
  <2> QED
    BY <2>1, <1>10, <1>11, <1>13, <1>14, SwiftReads
<1> QED
  BY <1>0, <1>1, <1>8, <1>15, <1>16, <1>17 DEF BarRight

(* A wide region in two registers: the halves of where it is and of its     *)
(* length.                                                                  *)
Halved(S, s, b, v, w, L, H) ==
  /\ v \in Nat /\ w \in Nat /\ L \in Nat \ {0} /\ H \in Nat \ {0}
  /\ v = b % S /\ w = b \div S /\ b = (S * w) + v
  /\ L = (IF s < S THEN s ELSE S) /\ H = (IF s < S THEN 1 ELSE s \div S)
  /\ v % L = 0 /\ L % 16 = 0 /\ S % L = 0 /\ v < S /\ L <= S /\ 16 <= L
  /\ w % H = 0 /\ S % H = 0 /\ w < S /\ H <= S
  /\ s = (S * H) - (S - L) /\ (s < S => L = s)

(* Every wide region has such halves.                                       *)
LEMMA Halves ==
  ASSUME NEW S \in Nat \ {0}, NEW s \in Nat \ {0}, NEW b \in Nat, S % 16 = 0, S >= 16,
         s % 16 = 0, b % s = 0, IF s < S THEN S % s = 0 ELSE s % S = 0,
         (S * S) % s = 0, 2 * s <= S * S, b + s <= S * S
  PROVE  \E v, w, L, H : Halved(S, s, b, v, w, L, H)
<1>1. PICK v \in Nat, w \in Nat : v = b % S /\ w = b \div S /\ b = (S * w) + v /\ v < S
  <2>1. b \div S \in Nat
    BY NatDivision
  <2>2. b % S \in 0 .. S - 1 /\ b = (S * (b \div S)) + (b % S)
    BY Division
  <2> QED
    BY <2>1, <2>2
<1>2. w < S
  <2>1. CASE w >= S
    <3>1. PICK d \in Nat : w = S + d
      BY <2>1
    <3>2. S * w = (S * S) + (S * d) /\ S * d >= 0 /\ S * d \in Int /\ S * S \in Int
      BY <3>1
    <3> QED
      BY <1>1, <3>2
  <2> QED
    BY <2>1
<1>3. PICK p \in Nat : b = s * p
  BY Times
<1>4. CASE s < S
  <2>1. PICK m \in Nat : S = s * m
    BY <1>4, Times
  <2>2. v = (s * (p - (m * w))) + 0
    <3>1. S * w = s * (m * w)
      BY <2>1
    <3>2. PICK x \in Int : x = m * w
      OBVIOUS
    <3>3. s * (p - x) = (s * p) - (s * x)
      BY <3>2
    <3>4. (s * p) \in Int /\ (s * x) \in Int
      BY <3>2
    <3> QED
      BY <1>1, <1>3, <3>1, <3>2, <3>3, <3>4
  <2>3. PICK x \in Int : x = p - (m * w)
    OBVIOUS
  <2>4. ((s * x) + 0) % s = 0
    BY RestIs
  <2>5. v % s = 0
    BY <2>2, <2>3, <2>4
  <2>6. w % 1 = 0 /\ S % 1 = 0
    OBVIOUS
  <2>7. s >= 16 /\ 1 <= S /\ s = (S * 1) - (S - s) /\ S % s = 0
    BY <1>4
  <2>8. Halved(S, s, b, v, w, s, 1)
    BY <1>1, <1>2, <1>4, <2>5, <2>6, <2>7 DEF Halved
  <2> QED
    BY <2>8
<1>5. CASE ~(s < S)
  <2>1. PICK h \in Nat : s = S * h
    BY <1>5, Times
  <2>2. h # 0 /\ s \div S = h
    <3>1. s = (S * h) + 0 /\ 0 \in 0 .. S - 1 /\ h \in Int
      BY <2>1
    <3> QED
      BY <2>1, <3>1, Quotient
  <2>3. PICK hp \in Nat : hp = h * p
    OBVIOUS
  <2>4. b = (S * hp) + 0
    BY <1>3, <2>1, <2>3
  <2>5. v = 0 /\ w = hp
    <3>1. 0 \in 0 .. S - 1 /\ hp \in Int /\ S \in Nat \ {0}
      OBVIOUS
    <3>2. b \div S = hp /\ b % S = 0
      BY <2>4, <3>1, Quotient
    <3> QED
      BY <1>1, <3>2
  <2>6. w % h = 0
    <3>1. ((h * p) + 0) % h = 0
      BY <2>2, RestIs
    <3> QED
      BY <2>3, <2>5, <3>1
  <2>7. PICK k \in Nat : S * S = s * k
    <3>1. S * S \in Nat
      OBVIOUS
    <3> QED
      BY <3>1, Times
  <2>8. S = h * k
    <3>1. S * S = S * (h * k)
      BY <2>1, <2>7
    <3>2. PICK y \in Nat : y = h * k
      OBVIOUS
    <3>3. S * (S - y) = 0
      BY <3>1, <3>2
    <3>4. S - y = 0
      BY <3>3
    <3> QED
      BY <3>2, <3>4
  <2>9. S % h = 0 /\ h <= S
    <3>1. ((h * k) + 0) % h = 0
      BY <2>2, RestIs
    <3>2. k # 0
      BY <2>8
    <3>3. h <= h * k
      BY <3>2, <2>2
    <3> QED
      BY <2>8, <3>1, <3>3
  <2>10. 0 % S = 0 /\ S % S = 0
    OBVIOUS
  <2>11. v % S = 0 /\ S <= S /\ h \in Nat \ {0} /\ S \in Nat \ {0}
    BY <2>2, <2>5, <2>10
  <2>12. s = (S * h) - (S - S)
    <3>1. S * h \in Int
      OBVIOUS
    <3> QED
      BY <2>1, <3>1
  <2>13. S = (IF s < S THEN s ELSE S) /\ h = (IF s < S THEN 1 ELSE s \div S) /\ (s < S => S = s)
    BY <1>5, <2>2
  <2>14. Halved(S, s, b, v, w, S, h)
    BY <1>1, <1>2, <2>6, <2>9, <2>10, <2>11, <2>12, <2>13, Zenon DEF Halved
  <2> QED
    BY <2>14
<1> QED
  BY <1>4, <1>5

(* What sizing one half of a wide region reads.                             *)
LEMMA ReadsWhole ==
  ASSUME NEW size \in Nat \ {0}, NEW x \in Nat, NEW flags \in Nat,
         x % size = 0, Span % size = 0, flags < size, x < Span
  PROVE  ReadBar(Register(x, size, Span, flags))
           = [address |-> x + flags, mask |-> ((Span - size) % Span) + flags,
              after |-> Register(x, size, Span, flags)]
<1>1. Span # 0 /\ Span \in Nat \ {0} /\ Span \in Nat
  BY SpanFacts
<1> QED
  BY <1>1, ReadIs, ZenonT(60)

(* Flags are dropped from the mask of the lower half.                       *)
LEMMA SpanLess ==
  ASSUME NEW L \in Nat, L % 16 = 0, L <= Span, NEW f \in {0, 4, 8, 12}
  PROVE  Above((Span - L) + f, 16) = Span - L /\ Above((Span - L) + f, 4) = (Span - L) + f
<1>1. Span \in Nat /\ Span % 16 = 0
  BY SpanFacts
<1> QED
  BY <1>1, Sixteens

(* A wide region is found where it is and as long as it is by the C++       *)
(* class, and by the Swift class as well if it is below the span.           *)
LEMMA WideFound ==
  ASSUME NEW r, IsRegion(r), r.kind = "wide"
  PROVE  BarRight(r)
<1>0. /\ r.size \in Nat \ {0} /\ r.base \in Nat /\ r.base % r.size = 0 /\ r.size % 16 = 0
      /\ IF r.size < Span THEN Span % r.size = 0 ELSE r.size % Span = 0
      /\ (Span * Span) % r.size = 0 /\ 2 * r.size <= Span * Span /\ r.base + r.size <= Span * Span
  BY DEF IsRegion
<1>1. PICK s \in Nat \ {0}, b \in Nat :
        /\ s = r.size /\ b = r.base /\ b % s = 0 /\ s % 16 = 0
        /\ IF s < Span THEN Span % s = 0 ELSE s % Span = 0
        /\ (Span * Span) % s = 0 /\ 2 * s <= Span * Span /\ b + s <= Span * Span
  BY <1>0
<1>2. PICK lo \in Nat, hi \in Nat, ll \in Nat \ {0}, hh \in Nat \ {0} :
        Halved(Span, s, b, lo, hi, ll, hh)
  <2>1. Span \in Nat \ {0} /\ Span % 16 = 0 /\ Span >= 16
    BY SpanFacts
  <2>2. \E lo, hi, ll, hh : Halved(Span, s, b, lo, hi, ll, hh)
    BY <1>1, <2>1, Halves
  <2> QED
    BY <2>2, ZenonT(60) DEF Halved
<1>20. lo \in Nat /\ hi \in Nat /\ ll \in Nat \ {0} /\ hh \in Nat \ {0}
  BY <1>2 DEF Halved
<1>21. lo % ll = 0 /\ ll % 16 = 0 /\ Span % ll = 0 /\ lo < Span /\ ll <= Span /\ 16 <= ll
  BY <1>2 DEF Halved
<1>22. hi % hh = 0 /\ Span % hh = 0 /\ hi < Span /\ hh <= Span
  BY <1>2 DEF Halved
<1>23. /\ b = (Span * hi) + lo /\ s = (Span * hh) - (Span - ll) /\ (s < Span => ll = s)
       /\ lo = b % Span
  BY <1>2 DEF Halved
<1>3. PICK f \in {4, 12} : f = FlagsOf(r)
  BY DEF FlagsOf, PREFETCH, WIDE
<1> DEFINE A == Register(lo, ll, Span, f)  B == Register(hi, hh, Span, 0)
           m == (Span - ll) + f
<1>4. RegistersOf(r) = <<A, B>>
  BY <1>1, <1>2, <1>3 DEF RegistersOf, Halved
<1>5. (Span - ll) % Span = Span - ll /\ (Span - hh) % Span = Span - hh
  <2>1. Span - ll \in 0 .. Span - 1 /\ Span - hh \in 0 .. Span - 1 /\ Span \in Nat \ {0}
    BY <1>20, <1>21, <1>22, SpanFacts
  <2> QED
    BY <2>1, Within
<1>6. ReadBar(A) = [address |-> lo + f, mask |-> m, after |-> A]
  <2>4. lo \in Nat /\ ll \in Nat \ {0}
    BY <1>20
  <2>5. lo % ll = 0 /\ Span % ll = 0 /\ lo < Span
    BY <1>21
  <2>1. f \in Nat /\ f < ll /\ Span # 0 /\ Span \in Nat \ {0} /\ Span \in Nat
    BY <1>20, <1>21, <1>3, SpanFacts
  <2>2. ReadBar(Register(lo, ll, Span, f))
          = [address |-> lo + f, mask |-> ((Span - ll) % Span) + f, after |-> Register(lo, ll, Span, f)]
    BY <2>1, <2>4, <2>5, ReadsWhole, Zenon
  <2> QED
    BY <2>2, <1>5
<1>7. ReadBar(B) = [address |-> hi, mask |-> Span - hh, after |-> B]
  <2>4. hi \in Nat /\ hh \in Nat \ {0}
    BY <1>20
  <2>5. hi % hh = 0 /\ Span % hh = 0 /\ hi < Span
    BY <1>22
  <2>1. 0 \in Nat /\ 0 < hh /\ Span # 0 /\ Span \in Nat \ {0} /\ Span \in Nat
    BY <1>20, SpanFacts
  <2>2. ReadBar(Register(hi, hh, Span, 0))
          = [address |-> hi + 0, mask |-> ((Span - hh) % Span) + 0, after |-> Register(hi, hh, Span, 0)]
    BY <2>1, <2>4, <2>5, ReadsWhole, Zenon
  <2>3. hi + 0 = hi /\ (Span - hh) + 0 = Span - hh
    BY <2>1, <2>4
  <2> QED
    BY <2>2, <2>3, <1>5
<1>8. lo % 16 = 0
  <2>1. 16 \in Nat \ {0}
    OBVIOUS
  <2> QED
    BY <1>20, <1>21, <2>1, Divides
<1>9. Has(lo + f, WIDE) /\ ~Has(lo + f, IO)
  <2>1. lo \in Nat /\ f \in {0, 4, 8, 12} /\ f \in {4, 12}
    BY <1>20, <1>3
  <2> QED
    BY <1>8, <2>1, FlagsSay
<1>10. Above(lo + f, 16) = lo /\ Above(m, 16) = Span - ll /\ Above(m, 4) = m
  <2>1. f \in {0, 4, 8, 12} /\ lo <= Span /\ ll <= Span /\ Span \in Nat /\ ll \in Nat
    BY <1>20, <1>21, <1>3, SpanFacts
  <2>2. lo % 16 = 0 /\ ll % 16 = 0 /\ Span % 16 = 0
    BY <1>21, <1>8, SpanFacts
  <2>3. lo \in Nat /\ 0 \in Nat /\ 0 % 16 = 0 /\ lo <= lo
    BY <1>20
  <2>4. Above(lo + f, 16) = lo
    BY <2>1, <2>2, <2>3, Sixteens, Zenon
  <2>5. /\ Above((Span - ll) + f, 16) = Span - ll
        /\ Above((Span - ll) + f, 4) = (Span - ll) + f
    BY <2>1, <2>2, SpanLess, Zenon
  <2> QED
    BY <2>4, <2>5
<1>11. (Flipped((Span * (Span - hh)) + (Span - ll), Span * Span) + 1) % (Span * Span) = s
  <2>1. PICK x \in Int, y \in Int : x = Span * Span /\ y = Span * hh
    BY <1>20, SpanFacts
  <2>2. Span * (Span - hh) = x - y
    BY <1>20, <2>1, SpanFacts
  <2>3. Flipped((x - y) + (Span - ll), x) + 1 = s
    BY <1>20, <1>23, <2>1, SpanFacts DEF Flipped
  <2>4. s \in 0 .. x - 1 /\ x \in Nat \ {0}
    BY <1>1, <2>1
  <2>5. s % x = s
    BY <2>4, Within
  <2> QED
    BY <2>1, <2>2, <2>3, <2>5
<1>12. Flipped(m, Span) + 1 = ll - f /\ ll - f # Span
  BY <1>20, <1>21, <1>3, SpanFacts DEF Flipped
<1> HIDE DEF A, B, m
<1>13. /\ getBAR(<<A, B>>).after = <<A, B>> /\ getBAR(<<A, B>>).is = "wide"
       /\ getBAR(<<A, B>>).at = lo + (Span * hi)
       /\ getBAR(<<A, B>>).size
            = (Flipped((Span * (Span - hh)) + (Span - ll), Span * Span) + 1) % (Span * Span)
  <2>1. /\ getBAR(<<A, B>>).after = <<A, B>> /\ getBAR(<<A, B>>).is = "wide"
        /\ getBAR(<<A, B>>).at = Above(lo + f, 16) + (Span * hi)
        /\ getBAR(<<A, B>>).size
            = (Flipped((Span * (Span - hh)) + Above(m, 16), Span * Span) + 1) % (Span * Span)
    BY <1>6, <1>7, <1>9, CppReadsWide
  <2> QED
    BY <2>1, <1>10
<1>14. lo + (Span * hi) = b
  BY <1>20, <1>23, SpanFacts
<1>15. /\ GetBAR(<<A, B>>).after = <<A, B>> /\ GetBAR(<<A, B>>).is = "memory"
       /\ GetBAR(<<A, B>>).at = lo /\ GetBAR(<<A, B>>).size = ll - f
  BY <1>6, <1>9, <1>10, <1>12, SwiftReads
<1>16. b + s < Span => lo = b /\ round_page(ll - f) = round_page(s)
  <2>1. SUFFICES ASSUME b + s < Span PROVE lo = b /\ round_page(ll - f) = round_page(s)
    OBVIOUS
  <2>2. ll = s /\ b \in 0 .. Span - 1
    BY <1>1, <1>23, <2>1, SpanFacts
  <2>3. b % Span = b
    BY <2>2, SpanFacts, Within
  <2>4. s % 16 = 0 /\ f \in {0, 4, 8, 12}
    BY <1>1, <1>3
  <2> QED
    BY <2>2, <2>3, <2>4, <1>23, PagesAre
<1> QED
  BY <1>1, <1>4, <1>11, <1>13, <1>14, <1>15, <1>16 DEF BarRight

(* Sizing a region tells where it is and how long, and leaves its registers *)
(* as they were, in both classes as far as each one goes, for every region  *)
(* a device can have (PCIController.cpp 77-122).                            *)
THEOREM RegionsFound ==
  ASSUME NEW r, IsRegion(r)
  PROVE  BarRight(r)
<1>1. r.kind \in {"none", "port", "memory", "wide"}
  BY DEF IsRegion, Kinds
<1> QED
  BY <1>1, NothingFound, PortsFound, MemoryFound, WideFound

----------------------------------------------------------------------------
(* Drivers: every function that answers is seen once.                       *)
(* A sequence of members of a set, none of them twice.                      *)
Distinct(s, S) == /\ s \in Seq(S)
                  /\ \A j, k \in 1 .. Len(s) : s[j] = s[k] => j = k

(* The empty sequence holds nothing.                                        *)
LEMMA NoneDistinct ==
  ASSUME NEW S
  PROVE  Distinct(<<>>, S)
  BY DEF Distinct

(* One that was not there is appended.                                      *)
LEMMA MoreDistinct ==
  ASSUME NEW s, NEW S, NEW x, Distinct(s, S), x \notin S
  PROVE  Distinct(Append(s, x), S \cup {x})
<1> DEFINE t == Append(s, x)
<1>1. s \in Seq(S) /\ s \in Seq(S \cup {x}) /\ Len(s) \in Nat
  BY DEF Distinct
<1>2. t \in Seq(S \cup {x}) /\ Len(t) = Len(s) + 1 /\ t[Len(s) + 1] = x
  BY <1>1
<1>3. \A j \in 1 .. Len(s) : t[j] = s[j] /\ s[j] \in S
  BY <1>1
<1> HIDE DEF t
<1>4. ASSUME NEW j \in 1 .. Len(t), NEW k \in 1 .. Len(t), t[j] = t[k] PROVE j = k
  <2>1. j \in 1 .. Len(s) \/ j = Len(s) + 1
    BY <1>1, <1>2
  <2>2. k \in 1 .. Len(s) \/ k = Len(s) + 1
    BY <1>1, <1>2
  <2> QED
    BY <1>2, <1>3, <1>4, <2>1, <2>2 DEF Distinct
<1>5. Distinct(t, S \cup {x})
  BY <1>2, <1>4 DEF Distinct
<1> QED
  BY <1>5 DEF t

(* What is some of S is some of any larger set.                             *)
LEMMA WiderDistinct ==
  ASSUME NEW s, NEW S, NEW T, Distinct(s, S), S \subseteq T
  PROVE  Distinct(s, T)
<1>1. s \in Seq(T)
  BY DEF Distinct
<1> QED
  BY <1>1 DEF Distinct

(* Sequences of different things are joined.                                *)
LEMMA JoinedDistinct ==
  ASSUME NEW s, NEW S, NEW t, NEW T, Distinct(s, S), Distinct(t, T), S \cap T = {}
  PROVE  Distinct(s \o t, S \cup T)
<1> DEFINE u == s \o t
<1>1. s \in Seq(S) /\ t \in Seq(T) /\ s \in Seq(S \cup T) /\ t \in Seq(S \cup T)
  BY DEF Distinct
<1>2. Len(s) \in Nat /\ Len(t) \in Nat
  BY <1>1
<1>3. u \in Seq(S \cup T) /\ Len(u) = Len(s) + Len(t)
  BY <1>1
<1>4. \A j \in 1 .. Len(s) : u[j] = s[j] /\ s[j] \in S
  BY <1>1
<1>5. \A j \in Len(s) + 1 .. Len(u) :
        j - Len(s) \in 1 .. Len(t) /\ u[j] = t[j - Len(s)] /\ t[j - Len(s)] \in T
  BY <1>1, <1>2, <1>3
<1> HIDE DEF u
<1>6. ASSUME NEW j \in 1 .. Len(u), NEW k \in 1 .. Len(u), u[j] = u[k] PROVE j = k
  <2>1. j \in 1 .. Len(s) \/ j \in Len(s) + 1 .. Len(u)
    BY <1>2, <1>3
  <2>2. k \in 1 .. Len(s) \/ k \in Len(s) + 1 .. Len(u)
    BY <1>2, <1>3
  <2>3. CASE j \in 1 .. Len(s)
    <3>1. k \in 1 .. Len(s)
      BY <1>4, <1>5, <1>6, <2>2, <2>3
    <3> QED
      BY <1>4, <1>6, <2>3, <3>1 DEF Distinct
  <2>4. CASE j \in Len(s) + 1 .. Len(u)
    <3>1. k \in Len(s) + 1 .. Len(u)
      BY <1>4, <1>5, <1>6, <2>2, <2>4
    <3>2. t[j - Len(s)] = t[k - Len(s)]
      BY <1>5, <1>6, <2>4, <3>1
    <3>3. j - Len(s) = k - Len(s)
      BY <1>5, <2>4, <3>1, <3>2 DEF Distinct
    <3> QED
      BY <1>2, <3>3, <2>4, <3>1
  <2> QED
    BY <2>1, <2>3, <2>4
<1>7. Distinct(u, S \cup T)
  BY <1>3, <1>6 DEF Distinct
<1> QED
  BY <1>7 DEF u

(* What was found on bus b among its first n devices.                       *)
OnIt(buses, b, n) == {FoundAt(b, j, buses[b][j]) : j \in 1 .. n}

(* A function that was found says where and which it is, and is neither of  *)
(* the two that stand for none and for the keyboard.                        *)
LEMMA FoundSays ==
  ASSUME NEW b, NEW j, NEW x
  PROVE  /\ FoundAt(b, j, x).bus = b /\ FoundAt(b, j, x).number = j /\ FoundAt(b, j, x).device = x
         /\ FoundAt(b, j, x) # NULL_MODULE /\ FoundAt(b, j, x) # PS2
<1>1. DOMAIN FoundAt(b, j, x) = {"bus", "number", "device"}
  BY DEF FoundAt
<1>2. DOMAIN NULL_MODULE = {"is"} /\ DOMAIN PS2 = {"is"}
  BY DEF NULL_MODULE, PS2
<1>3. "bus" # "is" /\ "bus" \in DOMAIN FoundAt(b, j, x)
  BY <1>1
<1> QED
  BY <1>2, <1>3 DEF FoundAt

(* Scanning a bus finds each function on it at most once.                   *)
LEMMA OnBusDistinct ==
  ASSUME NEW buses, IsBuses(buses), NEW b \in 1 .. Len(buses)
  PROVE  Distinct(OnBus(buses, b), OnIt(buses, b, Len(buses[b])))
<1> DEFINE devices == buses[b]
           n == Len(devices)
           S == Seq(OnIt(buses, b, n))
           Next1(k, x) == IF Answers(devices[k]) THEN Append(x, FoundAt(b, k, devices[k])) ELSE x
           Is(f) == f = [k \in 0 .. n |-> IF k = 0 THEN <<>> ELSE Next1(k, f[k - 1])]
           seen == CHOOSE f : Is(f)
           step == [p \in (1 .. n) \X S |-> Next1(p[1], p[2])]
<1>1. OnBus(buses, b) = IF Answers(devices[1]) THEN seen[n] ELSE <<>>
  BY DEF OnBus
<1>2. n \in Nat /\ <<>> \in S
  BY DEF IsBuses
<1> HIDE DEF n
<1>3. \A k \in 1 .. n, x \in S : step[<<k, x>>] = Next1(k, x) /\ Next1(k, x) \in S
  BY <1>2 DEF OnIt
<1> HIDE DEF step, S
<1>4. \A k \in 1 .. n, x \in S : step[<<k, x>>] \in S
  BY <1>3
<1>5. PICK f \in [0 .. n -> S] : Chain(f, n, <<>>, step)
  BY <1>2, <1>4, Recursion
<1>6. Is(f)
  <2> DEFINE h == [k \in 0 .. n |-> IF k = 0 THEN <<>> ELSE Next1(k, f[k - 1])]
  <2>4. f[0] = h[0]
    BY <1>2, <1>5 DEF Chain
  <2>5. ASSUME NEW k \in 1 .. n PROVE f[k] = h[k]
    <3>1. k - 1 \in 0 .. n /\ f[k - 1] \in S /\ k \in 0 .. n /\ k # 0
      BY <1>2, <1>5
    <3>2. f[k] = Next1(k, f[k - 1])
      BY <1>3, <1>5, <3>1 DEF Chain
    <3> QED
      BY <3>1, <3>2
  <2>1. \A k \in 0 .. n : f[k] = h[k]
    <3>1. \A k \in 0 .. n : k = 0 \/ k \in 1 .. n
      BY <1>2
    <3> HIDE DEF h
    <3> QED
      BY <2>4, <2>5, <3>1
  <2>2. h = [k \in 0 .. n |-> h[k]] /\ f = [k \in 0 .. n |-> f[k]]
    BY <1>5
  <2> HIDE DEF h
  <2>3. f = h
    BY <2>1, <2>2, SameFunction, SMTT(60)
  <2> QED
    BY <2>3 DEF h
<1>7. Is(seen)
  BY <1>6
<1> HIDE DEF seen
<1>8. seen[0] = <<>> /\ \A k \in 1 .. n : seen[k] = Next1(k, seen[k - 1])
  <2>1. 0 \in 0 .. n /\ \A k \in 1 .. n : k \in 0 .. n /\ k # 0
    BY <1>2
  <2>2. \A k \in 0 .. n : seen[k] = IF k = 0 THEN <<>> ELSE Next1(k, seen[k - 1])
    BY <1>7
  <2> QED
    BY <2>1, <2>2
<1> DEFINE T == {k \in 0 .. n : Distinct(seen[k], OnIt(buses, b, k))}
<1>9. 0 \in T
  BY <1>2, <1>8, NoneDistinct
<1>10. ASSUME NEW k \in 1 .. n, k - 1 \in T PROVE k \in T
  <2>1. Distinct(seen[k - 1], OnIt(buses, b, k - 1))
    BY <1>10
  <2>2. OnIt(buses, b, k) = OnIt(buses, b, k - 1) \cup {FoundAt(b, k, devices[k])}
    BY <1>2 DEF OnIt
  <2>3. FoundAt(b, k, devices[k]) \notin OnIt(buses, b, k - 1)
    <3>1. ASSUME NEW j \in 1 .. k - 1 PROVE FoundAt(b, k, devices[k]) # FoundAt(b, j, devices[j])
      <4>1. j # k
        BY <1>2
      <4> QED
        BY <4>1, FoundSays
    <3> QED
      BY <3>1 DEF OnIt
  <2>4. Distinct(Append(seen[k - 1], FoundAt(b, k, devices[k])), OnIt(buses, b, k))
    BY <2>1, <2>2, <2>3, MoreDistinct
  <2>5. Distinct(seen[k - 1], OnIt(buses, b, k))
    BY <2>1, <2>2, WiderDistinct
  <2>6. Distinct(seen[k], OnIt(buses, b, k))
    BY <1>8, <2>4, <2>5
  <2> QED
    BY <2>6
<1> HIDE DEF T, n
<1>11. \A k \in 0 .. n : k \in T
  BY <1>2, <1>9, <1>10, Upwards
<1>12. n \in T
  BY <1>2, <1>11
<1>13. Distinct(seen[n], OnIt(buses, b, n))
  BY <1>12 DEF T
<1>14. Distinct(<<>>, OnIt(buses, b, n))
  BY NoneDistinct
<1> QED
  BY <1>1, <1>13, <1>14 DEF n

(* What there is on the first b buses, and on all of them.                  *)
UpTo(buses, b) == UNION {OnIt(buses, c, Len(buses[c])) : c \in 1 .. b}
EveryOne(buses) == UpTo(buses, Len(buses))

(* Scanning all buses finds each function at most once.                     *)
LEMMA FunctionsDistinct ==
  ASSUME NEW buses, IsBuses(buses)
  PROVE  Distinct(Functions(buses), EveryOne(buses))
<1> DEFINE n == Len(buses)
           S == Seq(EveryOne(buses))
           Next1(k, x) == x \o OnBus(buses, k)
           Is(f) == f = [k \in 0 .. n |-> IF k = 0 THEN <<>> ELSE Next1(k, f[k - 1])]
           seen == CHOOSE f : Is(f)
           step == [p \in (1 .. n) \X S |-> Next1(p[1], p[2])]
<1>1. Functions(buses) = seen[n]
  BY DEF Functions
<1>2. n \in Nat /\ <<>> \in S
  BY DEF IsBuses
<1>14. \A k \in 1 .. n : Distinct(OnBus(buses, k), OnIt(buses, k, Len(buses[k])))
  BY OnBusDistinct
<1>15. \A k \in 1 .. n : OnBus(buses, k) \in S
  <2>1. ASSUME NEW k \in 1 .. n PROVE OnBus(buses, k) \in S
    <3>1. OnIt(buses, k, Len(buses[k])) \subseteq EveryOne(buses)
      BY DEF EveryOne, UpTo
    <3>2. OnBus(buses, k) \in Seq(OnIt(buses, k, Len(buses[k])))
      BY <1>14 DEF Distinct
    <3> QED
      BY <3>1, <3>2
  <2> QED
    BY <2>1
<1> HIDE DEF n
<1>3. \A k \in 1 .. n, x \in S : step[<<k, x>>] = Next1(k, x) /\ Next1(k, x) \in S
  <2>1. ASSUME NEW k \in 1 .. n, NEW x \in S PROVE step[<<k, x>>] = Next1(k, x) /\ Next1(k, x) \in S
    <3>1. OnBus(buses, k) \in S
      BY <1>15
    <3>2. x \o OnBus(buses, k) \in S
      BY <3>1
    <3> HIDE DEF S
    <3> QED
      BY <3>2
  <2> QED
    BY <2>1
<1> HIDE DEF step, S
<1>4. \A k \in 1 .. n, x \in S : step[<<k, x>>] \in S
  BY <1>3
<1>5. PICK f \in [0 .. n -> S] : Chain(f, n, <<>>, step)
  BY <1>2, <1>4, Recursion
<1>6. Is(f)
  <2> DEFINE h == [k \in 0 .. n |-> IF k = 0 THEN <<>> ELSE Next1(k, f[k - 1])]
  <2>4. f[0] = h[0]
    BY <1>2, <1>5 DEF Chain
  <2>5. ASSUME NEW k \in 1 .. n PROVE f[k] = h[k]
    <3>1. k - 1 \in 0 .. n /\ f[k - 1] \in S /\ k \in 0 .. n /\ k # 0
      BY <1>2, <1>5
    <3>2. f[k] = Next1(k, f[k - 1])
      BY <1>3, <1>5, <3>1 DEF Chain
    <3> QED
      BY <3>1, <3>2
  <2>1. \A k \in 0 .. n : f[k] = h[k]
    <3>1. \A k \in 0 .. n : k = 0 \/ k \in 1 .. n
      BY <1>2
    <3> HIDE DEF h
    <3> QED
      BY <2>4, <2>5, <3>1
  <2>2. h = [k \in 0 .. n |-> h[k]] /\ f = [k \in 0 .. n |-> f[k]]
    BY <1>5
  <2> HIDE DEF h
  <2>3. f = h
    BY <2>1, <2>2, SameFunction
  <2> QED
    BY <2>3 DEF h
<1>7. Is(seen)
  BY <1>6
<1> HIDE DEF seen
<1>8. seen[0] = <<>> /\ \A k \in 1 .. n : seen[k] = Next1(k, seen[k - 1])
  <2>1. 0 \in 0 .. n /\ \A k \in 1 .. n : k \in 0 .. n /\ k # 0
    BY <1>2
  <2>2. \A k \in 0 .. n : seen[k] = IF k = 0 THEN <<>> ELSE Next1(k, seen[k - 1])
    BY <1>7
  <2> QED
    BY <2>1, <2>2
<1> DEFINE T == {k \in 0 .. n : Distinct(seen[k], UpTo(buses, k))}
<1>9. 0 \in T
  BY <1>2, <1>8, NoneDistinct
<1>10. ASSUME NEW k \in 1 .. n, k - 1 \in T PROVE k \in T
  <2> DEFINE here == OnIt(buses, k, Len(buses[k]))
  <2>1. Distinct(seen[k - 1], UpTo(buses, k - 1))
    BY <1>10
  <2>2. UpTo(buses, k) = UpTo(buses, k - 1) \cup here
    <3>1. 1 .. k = (1 .. k - 1) \cup {k}
      BY <1>2
    <3> QED
      BY <3>1 DEF UpTo
  <2>3. UpTo(buses, k - 1) \cap here = {}
    <3>1. \A x \in here : x.bus = k
      BY FoundSays DEF OnIt
    <3>2. \A x \in UpTo(buses, k - 1) : x.bus \in 1 .. k - 1
      BY FoundSays DEF OnIt, UpTo
    <3>3. k \notin 1 .. k - 1
      BY <1>2
    <3> HIDE DEF here
    <3> QED
      BY <3>1, <3>2, <3>3
  <2>4. Distinct(OnBus(buses, k), here)
    BY <1>14 DEF n
  <2> HIDE DEF here
  <2>5. Distinct(seen[k - 1] \o OnBus(buses, k), UpTo(buses, k))
    BY <2>1, <2>2, <2>3, <2>4, JoinedDistinct
  <2>6. Distinct(seen[k], UpTo(buses, k))
    BY <1>8, <2>5
  <2>7. k \in 0 .. n
    BY <1>2
  <2> QED
    BY <2>6, <2>7
<1> HIDE DEF T
<1>11. \A k \in 0 .. n : k \in T
  BY <1>2, <1>9, <1>10, Upwards
<1>12. n \in T
  BY <1>2, <1>11
<1>13. Distinct(seen[n], UpTo(buses, n))
  BY <1>12 DEF T
<1> QED
  BY <1>1, <1>13 DEF n, EveryOne

----------------------------------------------------------------------------
(* The first k functions with a driver among some.                          *)
WithDriver(s, k, drivers) ==
  {f \in {s[j] : j \in 1 .. k} : Driven(f, drivers)}

(* The next function is driven or not, and was not among those before it.   *)
LEMMA OneMore ==
  ASSUME NEW A, NEW s, Distinct(s, A), NEW k \in 1 .. Len(s), NEW drivers
  PROVE  /\ WithDriver(s, k, drivers)
              = WithDriver(s, k - 1, drivers) \cup (IF Driven(s[k], drivers) THEN {s[k]} ELSE {})
         /\ s[k] \notin WithDriver(s, k - 1, drivers)
         /\ s[k] \in A /\ WithDriver(s, k, drivers) \subseteq A
<1>1. s \in Seq(A) /\ Len(s) \in Nat
  BY DEF Distinct
<1>2. 1 .. k = (1 .. k - 1) \cup {k} /\ 1 .. k \subseteq 1 .. Len(s)
  BY <1>1
<1>3. \A j \in 1 .. k - 1 : s[j] # s[k]
  <2>1. \A j \in 1 .. k - 1 : j \in 1 .. Len(s) /\ j # k
    BY <1>1
  <2> QED
    BY <2>1 DEF Distinct
<1>4. \A j \in 1 .. Len(s) : s[j] \in A
  BY <1>1
<1> QED
  BY <1>2, <1>3, <1>4 DEF WithDriver

(* The Swift modules are every function with a Swift driver, each once.     *)
LEMMA SwiftTakes ==
  ASSUME NEW buses, IsBuses(buses)
  PROVE  Distinct(PCIModules(buses),
                  WithDriver(Functions(buses), Len(Functions(buses)), SwiftDrivers))
<1> DEFINE F == Functions(buses)
           n == Len(F)
           S == Seq(EveryOne(buses))
           Next1(k, x) == IF Driven(F[k], SwiftDrivers) THEN Append(x, F[k]) ELSE x
           Is(f) == f = [k \in 0 .. n |-> IF k = 0 THEN <<>> ELSE Next1(k, f[k - 1])]
           taken == CHOOSE f : Is(f)
           step == [p \in (1 .. n) \X S |-> Next1(p[1], p[2])]
<1>1. PCIModules(buses) = taken[n]
  BY DEF PCIModules
<1>14. Distinct(F, EveryOne(buses))
  BY FunctionsDistinct
<1> HIDE DEF F
<1>2. n \in Nat /\ <<>> \in S /\ \A k \in 1 .. n : F[k] \in EveryOne(buses)
  BY <1>14 DEF Distinct
<1> HIDE DEF n
<1>3. \A k \in 1 .. n, x \in S : step[<<k, x>>] = Next1(k, x) /\ Next1(k, x) \in S
  BY <1>2
<1> HIDE DEF step, S
<1>4. \A k \in 1 .. n, x \in S : step[<<k, x>>] \in S
  BY <1>3
<1>5. PICK f \in [0 .. n -> S] : Chain(f, n, <<>>, step)
  BY <1>2, <1>4, Recursion
<1>6. Is(f)
  <2> DEFINE h == [k \in 0 .. n |-> IF k = 0 THEN <<>> ELSE Next1(k, f[k - 1])]
  <2>4. f[0] = h[0]
    BY <1>2, <1>5 DEF Chain
  <2>5. ASSUME NEW k \in 1 .. n PROVE f[k] = h[k]
    <3>1. k - 1 \in 0 .. n /\ f[k - 1] \in S /\ k \in 0 .. n /\ k # 0
      BY <1>2, <1>5
    <3>2. f[k] = Next1(k, f[k - 1])
      BY <1>3, <1>5, <3>1 DEF Chain
    <3> QED
      BY <3>1, <3>2
  <2>1. \A k \in 0 .. n : f[k] = h[k]
    <3>1. \A k \in 0 .. n : k = 0 \/ k \in 1 .. n
      BY <1>2
    <3> HIDE DEF h
    <3> QED
      BY <2>4, <2>5, <3>1
  <2>2. h = [k \in 0 .. n |-> h[k]] /\ f = [k \in 0 .. n |-> f[k]]
    BY <1>5
  <2> HIDE DEF h
  <2>3. f = h
    BY <2>1, <2>2, SameFunction, SMTT(60)
  <2> QED
    BY <2>3 DEF h
<1>7. Is(taken)
  BY <1>6
<1> HIDE DEF taken
<1>8. taken[0] = <<>> /\ \A k \in 1 .. n : taken[k] = Next1(k, taken[k - 1])
  <2>1. 0 \in 0 .. n /\ \A k \in 1 .. n : k \in 0 .. n /\ k # 0
    BY <1>2
  <2>2. \A k \in 0 .. n : taken[k] = IF k = 0 THEN <<>> ELSE Next1(k, taken[k - 1])
    BY <1>7
  <2> QED
    BY <2>1, <2>2
<1> DEFINE D(k) == WithDriver(F, k, SwiftDrivers)
           T == {k \in 0 .. n : Distinct(taken[k], D(k))}
<1>9. 0 \in T
  BY <1>2, <1>8, NoneDistinct
<1>10. ASSUME NEW k \in 1 .. n, k - 1 \in T PROVE k \in T
  <2>1. Distinct(taken[k - 1], D(k - 1))
    BY <1>10
  <2>2. /\ D(k) = D(k - 1) \cup (IF Driven(F[k], SwiftDrivers) THEN {F[k]} ELSE {})
        /\ F[k] \notin D(k - 1)
    BY <1>14, OneMore DEF n
  <2> HIDE DEF D
  <2>3. Driven(F[k], SwiftDrivers) => Distinct(taken[k], D(k))
    <3> SUFFICES ASSUME Driven(F[k], SwiftDrivers) PROVE Distinct(taken[k], D(k))
      OBVIOUS
    <3>1. Distinct(Append(taken[k - 1], F[k]), D(k - 1) \cup {F[k]})
      BY <2>1, <2>2, MoreDistinct
    <3>2. taken[k] = Append(taken[k - 1], F[k])
      BY <1>8
    <3> QED
      BY <2>2, <3>1, <3>2
  <2>4. ~Driven(F[k], SwiftDrivers) => Distinct(taken[k], D(k))
    <3> SUFFICES ASSUME ~Driven(F[k], SwiftDrivers) PROVE Distinct(taken[k], D(k))
      OBVIOUS
    <3>1. taken[k] = taken[k - 1]
      BY <1>8
    <3> QED
      BY <2>1, <2>2, <3>1
  <2>5. Distinct(taken[k], D(k)) /\ k \in 0 .. n
    BY <1>2, <2>3, <2>4
  <2> QED
    BY <2>5
<1> HIDE DEF T, D
<1>11. \A k \in 0 .. n : k \in T
  BY <1>2, <1>9, <1>10, Upwards
<1>12. n \in T
  BY <1>2, <1>11
<1>13. Distinct(taken[n], D(n))
  BY <1>12 DEF T
<1> QED
  BY <1>1, <1>13 DEF D, n, F

----------------------------------------------------------------------------
(* The table of drivers: full up to the module loaded last, empty behind.   *)
Max0 == MAX_LOADED_MODULES - 1
(* The first modules are some of a set of devices, each once, and if there  *)
(* is room they are all of it.                                              *)
Holds(loaded, D) ==
  LET t == loaded.table IN
  /\ t[0] = PS2
  /\ \A i \in 1 .. loaded.last : t[i] \in D
  /\ \A i \in loaded.last + 1 .. Max0 : t[i] = NULL_MODULE
  /\ \A i, j \in 1 .. loaded.last : t[i] = t[j] => i = j
  /\ loaded.last < Max0 => \A f \in D : \E i \in 1 .. loaded.last : t[i] = f

(* A table of devices from E, and the place loaded last.                    *)
LoadedOf(E) == [table : [0 .. Max0 -> E \cup {NULL_MODULE, PS2}], last : 0 .. Max0]

(* The last place is a number.                                              *)
LEMMA Max0Is == Max0 \in Nat /\ Max0 = MAX_LOADED_MODULES - 1
  BY BarAssumption DEF Max0

(* The only place searched and found free is the one behind the last, if    *)
(* there is one (ModulesController.cpp 45-57).                              *)
LEMMA FreeIs ==
  ASSUME NEW E, NEW D, NEW x \in LoadedOf(E), Holds(x, D),
         NULL_MODULE \notin D
  PROVE  FreeFrom(x) = IF x.last < Max0 THEN {x.last + 1} ELSE {}
<1>0. PICK t : t = x.table
  OBVIOUS
<1>1. PICK l \in 0 .. Max0 : t = x.table /\ l = x.last
  BY <1>0 DEF LoadedOf
<1>2. FreeFrom(x) = {i \in l .. Max0 : \A j \in l .. i : t[j] = NULL_MODULE <=> j = i}
  BY <1>1 DEF FreeFrom, Max0
<1>3. t[l] # NULL_MODULE
  <2>1. l = 0 => t[l] = PS2
    BY <1>1 DEF Holds
  <2>2. l # 0 => t[l] \in D
    BY <1>1, Max0Is DEF Holds
  <2>3. PS2 # NULL_MODULE
    BY DEF PS2, NULL_MODULE
  <2> QED
    BY <2>1, <2>2, <2>3
<1>4. \A i \in l + 1 .. Max0 : t[i] = NULL_MODULE
  BY <1>1 DEF Holds
<1>5. l < Max0 => l + 1 \in FreeFrom(x)
  <2> SUFFICES ASSUME l < Max0 PROVE l + 1 \in FreeFrom(x)
    OBVIOUS
  <2>1. l + 1 \in l .. Max0 /\ l + 1 \in l + 1 .. Max0
    BY Max0Is
  <2>2. \A j \in l .. l + 1 : j = l \/ j = l + 1
    BY Max0Is
  <2>3. t[l + 1] = NULL_MODULE /\ l # l + 1
    BY <1>4, <2>1, Max0Is
  <2> QED
    BY <1>2, <1>3, <2>1, <2>2, <2>3
<1>6. ASSUME NEW i \in FreeFrom(x) PROVE i = l + 1 /\ l < Max0
  <2>1. i \in l .. Max0 /\ \A j \in l .. i : t[j] = NULL_MODULE <=> j = i
    BY <1>2
  <2>2. i # l
    <3>1. i \in l .. i
      BY <2>1, Max0Is
    <3> QED
      BY <1>3, <2>1, <3>1
  <2>3. l + 1 \in l .. i /\ l + 1 \in l + 1 .. Max0 /\ l < Max0
    BY <2>1, <2>2, Max0Is
  <2> QED
    BY <1>4, <2>1, <2>3
<1> QED
  BY <1>1, <1>5, <1>6

(* A device that is offered is put behind the last if it has a driver and   *)
(* there is room, and changes nothing otherwise.                            *)
LEMMA OfferedIs ==
  ASSUME NEW E, NEW D, NEW x \in LoadedOf(E), Holds(x, D), NULL_MODULE \notin D,
         NEW f \in E, f \notin D, NULL_MODULE # f
  PROVE  /\ Offered(x, f) \in LoadedOf(E)
         /\ Holds(Offered(x, f), D \cup (IF Driven(f, CppDrivers) THEN {f} ELSE {}))
<1> DEFINE y == Offered(x, f)
           N == D \cup (IF Driven(f, CppDrivers) THEN {f} ELSE {})
<1>1. PICK t \in [0 .. Max0 -> E \cup {NULL_MODULE, PS2}], l \in 0 .. Max0 :
        t = x.table /\ l = x.last
  BY DEF LoadedOf
<1>2. FreeFrom(x) = IF l < Max0 THEN {l + 1} ELSE {}
  BY <1>1, FreeIs
<1>3. CASE ~(l < Max0) \/ ~Driven(f, CppDrivers)
  <2>1. y = x
    BY <1>2, <1>3 DEF Offered
  <2>2. Holds(x, N)
    <3>1. \A i \in 1 .. l : t[i] \in N
      BY <1>1 DEF Holds
    <3>2. l < Max0 => N = D
      BY <1>3
    <3> HIDE DEF N
    <3> QED
      BY <1>1, <3>1, <3>2 DEF Holds
  <2> QED
    BY <2>1, <2>2
<1>4. CASE l < Max0 /\ Driven(f, CppDrivers)
  <2> DEFINE u == [t EXCEPT ![l + 1] = f]
  <2>1. FreeFrom(x) = {l + 1} /\ FreeFrom(x) # {}
    BY <1>2, <1>4
  <2>2. (CHOOSE i \in FreeFrom(x) : TRUE) = l + 1
    BY <2>1
  <2>3. y = [table |-> u, last |-> l + 1]
    BY <1>1, <1>4, <2>1, <2>2 DEF Offered
  <2>4. l + 1 \in 0 .. Max0 /\ l \in Nat
    BY <1>4, Max0Is
  <2>5. u \in [0 .. Max0 -> E \cup {NULL_MODULE, PS2}] /\ u[l + 1] = f
    BY <2>4
  <2>6. \A i \in 0 .. Max0 : i # l + 1 => u[i] = t[i]
    OBVIOUS
  <2> HIDE DEF u
  <2>7. y \in LoadedOf(E)
    BY <2>3, <2>4, <2>5 DEF LoadedOf
  <2>8. N = D \cup {f}
    BY <1>4
  <2>9. u[0] = PS2
    <3>1. 0 # l + 1 /\ 0 \in 0 .. Max0
      BY <2>4, Max0Is
    <3> QED
      BY <1>1, <2>6, <3>1 DEF Holds
  <2>10. \A i \in 1 .. l : u[i] = t[i] /\ t[i] \in D
    <3>1. \A i \in 1 .. l : i # l + 1 /\ i \in 0 .. Max0
      BY <2>4, Max0Is
    <3> QED
      BY <1>1, <2>6, <3>1 DEF Holds
  <2>11. \A i \in 1 .. l + 1 : i \in 1 .. l \/ i = l + 1
    BY <2>4
  <2>12. \A i \in 1 .. l + 1 : u[i] \in N
    BY <2>5, <2>8, <2>10, <2>11
  <2>13. \A i \in l + 1 + 1 .. Max0 : u[i] = NULL_MODULE
    <3>1. \A i \in l + 1 + 1 .. Max0 : i # l + 1 /\ i \in 0 .. Max0 /\ i \in l + 1 .. Max0
      BY <2>4, Max0Is
    <3>2. \A i \in l + 1 .. Max0 : t[i] = NULL_MODULE
      BY <1>1 DEF Holds
    <3> QED
      BY <2>6, <3>1, <3>2
  <2>14. ASSUME NEW i \in 1 .. l + 1, NEW j \in 1 .. l + 1, u[i] = u[j] PROVE i = j
    <3>1. \A a, b \in 1 .. l : t[a] = t[b] => a = b
      BY <1>1 DEF Holds
    <3> QED
      BY <2>5, <2>10, <2>11, <2>14, <3>1
  <2>15. ASSUME NEW g \in N PROVE \E i \in 1 .. l + 1 : u[i] = g
    <3>1. CASE g = f
      <4>1. l + 1 \in 1 .. l + 1
        BY <2>4
      <4> QED
        BY <2>5, <3>1, <4>1
    <3>2. CASE g \in D
      <4>1. PICK i \in 1 .. l : t[i] = g
        BY <1>1, <1>4, <3>2 DEF Holds
      <4>2. i \in 1 .. l + 1
        BY <2>4
      <4> QED
        BY <2>10, <4>1, <4>2
    <3> QED
      BY <2>8, <3>1, <3>2
  <2> HIDE DEF N, y
  <2>16. Holds(y, N)
    BY <2>3, <2>9, <2>12, <2>13, <2>14, <2>15 DEF Holds
  <2> QED
    BY <2>7, <2>16 DEF N, y
<1> QED
  BY <1>3, <1>4

(* Whatever is offered, the table stays a table.                            *)
LEMMA OfferedKept ==
  ASSUME NEW E, NEW x \in LoadedOf(E), NEW f \in E
  PROVE  Offered(x, f) \in LoadedOf(E)
<1>1. PICK t \in [0 .. Max0 -> E \cup {NULL_MODULE, PS2}], l \in 0 .. Max0 :
        t = x.table /\ l = x.last
  BY DEF LoadedOf
<1>2. CASE FreeFrom(x) = {} \/ ~Driven(f, CppDrivers)
  BY <1>2 DEF Offered
<1>3. CASE ~(FreeFrom(x) = {} \/ ~Driven(f, CppDrivers))
  <2>1. PICK i : i = CHOOSE place \in FreeFrom(x) : TRUE
    OBVIOUS
  <2>2. i \in FreeFrom(x)
    BY <1>3, <2>1
  <2>3. i \in 0 .. Max0
    BY <1>1, <2>2, Max0Is DEF FreeFrom
  <2>4. Offered(x, f) = [table |-> [t EXCEPT ![i] = f], last |-> i]
    BY <1>1, <1>3, <2>1 DEF Offered
  <2>5. [t EXCEPT ![i] = f] \in [0 .. Max0 -> E \cup {NULL_MODULE, PS2}]
    BY <2>3
  <2> QED
    BY <2>3, <2>4, <2>5 DEF LoadedOf
<1> QED
  BY <1>2, <1>3

(* After all devices were offered, the table holds those with a driver.     *)
LEMMA AllStart ==
  ASSUME NEW buses, IsBuses(buses)
  PROVE  /\ ModulesStart(buses) \in LoadedOf(EveryOne(buses))
         /\ Holds(ModulesStart(buses),
                  WithDriver(Functions(buses), Len(Functions(buses)), CppDrivers))
<1> DEFINE F == Functions(buses)
           n == Len(F)
           E == EveryOne(buses)
           S == LoadedOf(E)
           Next1(k, x) == Offered(x, F[k])
           Is(f) == f = [k \in 0 .. n |-> IF k = 0 THEN Loaded0 ELSE Next1(k, f[k - 1])]
           loaded == CHOOSE f : Is(f)
           step == [p \in (1 .. n) \X S |-> Next1(p[1], p[2])]
<1>1. ModulesStart(buses) = loaded[n]
  BY DEF ModulesStart
<1>14. Distinct(F, E)
  BY FunctionsDistinct
<1>15. NULL_MODULE \notin E /\ NULL_MODULE # PS2
  <2>1. NULL_MODULE # PS2
    BY DEF NULL_MODULE, PS2
  <2>2. NULL_MODULE \notin E
    BY FoundSays DEF EveryOne, UpTo, OnIt
  <2> QED
    BY <2>1, <2>2
<1> HIDE DEF F, E
<1>2. n \in Nat /\ \A k \in 1 .. n : F[k] \in E
  BY <1>14 DEF Distinct
<1>16. Loaded0 \in S /\ Holds(Loaded0, {})
  <2> DEFINE t == [i \in 0 .. Max0 |-> IF i = 0 THEN PS2 ELSE NULL_MODULE]
  <2>1. Loaded0 = [table |-> t, last |-> 0]
    BY DEF Loaded0, Max0
  <2>2. t \in [0 .. Max0 -> E \cup {NULL_MODULE, PS2}] /\ 0 \in 0 .. Max0 /\ t[0] = PS2
    BY Max0Is
  <2>3. \A i \in 1 .. Max0 : t[i] = NULL_MODULE
    BY Max0Is
  <2> HIDE DEF t
  <2> QED
    BY <2>1, <2>2, <2>3, Max0Is DEF Holds, LoadedOf
<1> HIDE DEF n
<1>3. \A k \in 1 .. n, x \in S : step[<<k, x>>] = Next1(k, x) /\ Next1(k, x) \in S
  BY <1>2, OfferedKept
<1> HIDE DEF step, S
<1>4. \A k \in 1 .. n, x \in S : step[<<k, x>>] \in S
  BY <1>3
<1>5. PICK f \in [0 .. n -> S] : Chain(f, n, Loaded0, step)
  BY <1>2, <1>4, <1>16, Recursion
<1>6. Is(f)
  <2> DEFINE h == [k \in 0 .. n |-> IF k = 0 THEN Loaded0 ELSE Next1(k, f[k - 1])]
  <2>4. f[0] = h[0]
    BY <1>2, <1>5 DEF Chain
  <2>5. ASSUME NEW k \in 1 .. n PROVE f[k] = h[k]
    <3>1. k - 1 \in 0 .. n /\ f[k - 1] \in S /\ k \in 0 .. n /\ k # 0
      BY <1>2, <1>5
    <3>2. f[k] = Next1(k, f[k - 1])
      BY <1>3, <1>5, <3>1 DEF Chain
    <3> QED
      BY <3>1, <3>2
  <2>1. \A k \in 0 .. n : f[k] = h[k]
    <3>1. \A k \in 0 .. n : k = 0 \/ k \in 1 .. n
      BY <1>2
    <3> HIDE DEF h
    <3> QED
      BY <2>4, <2>5, <3>1
  <2>2. h = [k \in 0 .. n |-> h[k]] /\ f = [k \in 0 .. n |-> f[k]]
    BY <1>5
  <2> HIDE DEF h
  <2>3. f = h
    BY <2>1, <2>2, SameFunction
  <2> QED
    BY <2>3 DEF h
<1>7. Is(loaded)
  BY <1>6
<1> HIDE DEF loaded
<1>8. loaded[0] = Loaded0 /\ \A k \in 1 .. n : loaded[k] = Next1(k, loaded[k - 1])
  <2>1. 0 \in 0 .. n /\ \A k \in 1 .. n : k \in 0 .. n /\ k # 0
    BY <1>2
  <2>2. \A k \in 0 .. n : loaded[k] = IF k = 0 THEN Loaded0 ELSE Next1(k, loaded[k - 1])
    BY <1>7
  <2> QED
    BY <2>1, <2>2
<1> DEFINE D(k) == WithDriver(F, k, CppDrivers)
           T == {k \in 0 .. n : loaded[k] \in S /\ Holds(loaded[k], D(k))}
<1>9. 0 \in T
  <2>1. D(0) = {}
    BY DEF WithDriver
  <2> QED
    <3> HIDE DEF D
    <3>2. loaded[0] = Loaded0
      BY <1>8
    <3>3. 0 \in 0 .. n
      BY <1>2
    <3>4. Holds(loaded[0], D(0))
      BY <3>2, <1>16, <2>1
    <3>1. loaded[0] \in S /\ Holds(loaded[0], D(0)) /\ 0 \in 0 .. n
      BY <3>2, <3>3, <3>4, <1>16
    <3> QED
      BY <3>1
<1>10. ASSUME NEW k \in 1 .. n, k - 1 \in T PROVE k \in T
  <2>1. loaded[k - 1] \in S /\ Holds(loaded[k - 1], D(k - 1))
    BY <1>10
  <2>2. /\ D(k) = D(k - 1) \cup (IF Driven(F[k], CppDrivers) THEN {F[k]} ELSE {})
        /\ F[k] \notin D(k - 1) /\ D(k) \subseteq E /\ F[k] \in E
    BY <1>14, OneMore DEF n
  <2>3. NULL_MODULE \notin D(k - 1) /\ NULL_MODULE # F[k]
    BY <1>15, <2>2
  <2> HIDE DEF D
  <2>4. /\ Offered(loaded[k - 1], F[k]) \in S
        /\ Holds(Offered(loaded[k - 1], F[k]),
                 D(k - 1) \cup (IF Driven(F[k], CppDrivers) THEN {F[k]} ELSE {}))
    BY <2>1, <2>2, <2>3, OfferedIs DEF S
  <2>5. loaded[k] \in S /\ Holds(loaded[k], D(k)) /\ k \in 0 .. n
    BY <1>2, <1>8, <2>2, <2>4
  <2> QED
    BY <2>5
<1> HIDE DEF T, D
<1>11. \A k \in 0 .. n : k \in T
  BY <1>2, <1>9, <1>10, Upwards
<1>12. n \in T
  BY <1>2, <1>11
<1>13. loaded[n] \in S /\ Holds(loaded[n], D(n))
  BY <1>12 DEF T
<1> QED
  BY <1>1, <1>13 DEF D, n, F, E, S

(* Every device with a driver gets it, once, until the table is full, in    *)
(* both registries, for any buses and any devices on them                   *)
(* (ModulesController.cpp 38-111).                                          *)
THEOREM DriversStart ==
  ASSUME NEW buses, IsBuses(buses)
  PROVE  DriversRight(buses)
<1> DEFINE F == Functions(buses)
           D == WithDriver(F, Len(F), CppDrivers)
           usable == {f \in ToSet(F) : Driven(f, CppDrivers)}
<1>1. PICK x \in LoadedOf(EveryOne(buses)) : x = ModulesStart(buses) /\ Holds(x, D)
  BY AllStart
<1>2. PICK t \in [0 .. Max0 -> EveryOne(buses) \cup {NULL_MODULE, PS2}], l \in 0 .. Max0 :
        t = x.table /\ l = x.last
  BY DEF LoadedOf
<1>3. Distinct(F, EveryOne(buses))
  BY FunctionsDistinct
<1>4. usable = D
  BY <1>3 DEF Distinct, ToSet, WithDriver
<1>5. IsFiniteSet(D)
  <2> DEFINE g == [j \in 1 .. Len(F) |-> F[j]]
             all == {F[j] : j \in 1 .. Len(F)}
  <2>1. Len(F) \in Nat
    BY <1>3 DEF Distinct
  <2>2. IsFiniteSet(1 .. Len(F))
    BY <2>1, FS_Interval
  <2>3. g \in Surjection(1 .. Len(F), all)
    BY DEF Surjection
  <2> HIDE DEF g
  <2>4. IsFiniteSet(all)
    BY <2>2, <2>3, FS_Surjection
  <2>5. D \subseteq all
    BY DEF WithDriver
  <2> HIDE DEF all, D
  <2> QED
    BY <2>4, <2>5, FS_Subset
<1> DEFINE stopped == {t[i] : i \in 1 .. l}
<1> HIDE DEF D, F, usable
<1>6. /\ t[0] = PS2 /\ \A i \in 1 .. l : t[i] \in D
      /\ \A i \in l + 1 .. Max0 : t[i] = NULL_MODULE
      /\ \A i, j \in 1 .. l : t[i] = t[j] => i = j
      /\ l < Max0 => \A f \in D : \E i \in 1 .. l : t[i] = f
  BY <1>1, <1>2 DEF Holds
<1>7. IsFiniteSet(stopped) /\ Cardinality(stopped) = l
  <2> DEFINE g == [i \in 1 .. l |-> t[i]]
  <2>1. l \in Nat
    BY Max0Is
  <2>2. g \in Bijection(1 .. l, stopped)
    <3>1. \A i \in 1 .. l : g[i] = t[i]
      OBVIOUS
    <3>2. g \in [1 .. l -> stopped]
      OBVIOUS
    <3> HIDE DEF g
    <3>3. \A i, j \in 1 .. l : g[i] = g[j] => i = j
      BY <1>6, <3>1
    <3>4. \A s \in stopped : \E i \in 1 .. l : g[i] = s
      BY <3>1
    <3> QED
      BY <3>2, <3>3, <3>4 DEF Bijection, Injection, Surjection, IsInjective
  <2> HIDE DEF g
  <2>3. ExistsBijection(1 .. l, stopped)
    BY <2>2 DEF ExistsBijection
  <2> HIDE DEF stopped
  <2> QED
    BY <2>1, <2>3, FS_CountingElements, FS_NatBijection
<1>8. stopped \subseteq D
  BY <1>6
<1>9. Cardinality(D) < MAX_LOADED_MODULES => stopped = D
  <2>1. CASE l < Max0
    BY <1>6, <1>8, <2>1
  <2>2. CASE ~(l < Max0)
    <3>1. l = Max0
      BY <2>2, Max0Is
    <3>2. Cardinality(D) \in Nat /\ Cardinality(stopped) <= Cardinality(D)
          /\ (Cardinality(stopped) = Cardinality(D) => stopped = D)
      BY <1>5, <1>8, FS_Subset, FS_CardinalityType
    <3> HIDE DEF stopped
    <3>3. l \in Nat /\ MAX_LOADED_MODULES = l + 1
      BY <3>1, Max0Is, BarAssumption
    <3>4. Cardinality(D) < MAX_LOADED_MODULES => Cardinality(stopped) = Cardinality(D)
      BY <1>7, <3>2, <3>3
    <3> QED
      BY <3>2, <3>4
  <2> QED
    BY <2>1, <2>2
<1>10. \A i \in 0 .. Max0 : t[i] # NULL_MODULE <=> i <= l
  <2>1. NULL_MODULE \notin D /\ NULL_MODULE # PS2
    <3>1. D \subseteq EveryOne(buses)
      BY <1>3 DEF Distinct, D, WithDriver
    <3>2. NULL_MODULE \notin EveryOne(buses)
      BY FoundSays DEF EveryOne, UpTo, OnIt
    <3>3. NULL_MODULE # PS2
      BY DEF NULL_MODULE, PS2
    <3> QED
      BY <3>1, <3>2, <3>3
  <2>2. \A i \in 0 .. Max0 : i = 0 \/ i \in 1 .. l \/ i \in l + 1 .. Max0
    BY Max0Is
  <2>3. \A i \in 0 .. Max0 : (i = 0 => i <= l) /\ (i \in 1 .. l => i <= l)
                            /\ (i \in l + 1 .. Max0 => ~(i <= l))
    BY Max0Is
  <2> QED
    BY <1>6, <2>1, <2>2, <2>3
<1>11. /\ Distinct(PCIModules(buses), WithDriver(F, Len(F), SwiftDrivers))
  BY SwiftTakes DEF F
<1>12. IsInjective(PCIModules(buses)) /\ ToSet(PCIModules(buses)) \cap stopped = {}
  <2>1. PICK s : s = PCIModules(buses)
    OBVIOUS
  <2>2. /\ DOMAIN s = 1 .. Len(s) /\ IsInjective(s)
        /\ \A i \in DOMAIN s : s[i] \in WithDriver(F, Len(F), SwiftDrivers)
    BY <1>11, <2>1 DEF Distinct, IsInjective
  <2>3. \A f \in D : f.device.is \in CppDrivers
    BY DEF D, WithDriver, Driven
  <2>4. \A f \in WithDriver(F, Len(F), SwiftDrivers) : f.device.is \in SwiftDrivers
    BY DEF WithDriver, Driven
  <2>5. CppDrivers \cap SwiftDrivers = {}
    BY DEF CppDrivers, SwiftDrivers
  <2> HIDE DEF stopped
  <2> QED
    BY <1>8, <2>1, <2>2, <2>3, <2>4, <2>5 DEF ToSet
<1>13. DOMAIN t = 0 .. Max0
  OBVIOUS
<1>14. stopped = {ModulesStart(buses).table[i] : i \in 1 .. ModulesStart(buses).last}
  BY <1>1, <1>2
<1> HIDE DEF stopped
<1>15. \A i \in DOMAIN ModulesStart(buses).table :
         ModulesStart(buses).table[i] # NULL_MODULE <=> i <= ModulesStart(buses).last
  BY <1>1, <1>2, <1>10, <1>13
<1>16. /\ ModulesStart(buses).table[0] = PS2
       /\ Cardinality(stopped) = ModulesStart(buses).last
  BY <1>1, <1>2, <1>6, <1>7
<1> QED
  BY <1>4, <1>9, <1>12, <1>14, <1>15, <1>16 DEF DriversRight, usable, F

----------------------------------------------------------------------------
(* Volumes: the entries before the first that is empty or unknown.          *)
LEMMA VolumesAre ==
  ASSUME NEW e, e.first \in Nat, IsHeader(e.header)
  PROVE  \/ /\ Supported(e)
            /\ \E v : VolumesOf(e) = <<v>> /\ IsVolumeOf(v, e)
         \/ ~Supported(e) /\ VolumesOf(e) = <<>>
<1>1. CASE e.type = "HFSPlus"
  <2>1. IsVolumeOf(Volume(e, "HFSPlus"), e)
    BY DEF IsVolumeOf, Volume
  <2> QED
    BY <1>1, <2>1 DEF VolumesOf, Supported
<1>2. CASE e.type # "HFSPlus"
  <2>1. Supported(e) <=> \E kind \in Tried(e.type) : Accepted(e, kind)
    BY <1>2 DEF Supported, Tried, Accepted, FatKinds
  <2>2. CASE Supported(e)
    <3> DEFINE v == Volume(e, e.header.fatType)
    <3>1. e.header.fatType \in FatKinds
      BY <1>2, <2>2 DEF Supported, FatKinds
    <3>2. e.header.fatType # "HFSPlus"
      BY <3>1 DEF FatKinds
    <3>3. FirstUsableCluster(e) > e.first
      <4>1. PICK f \in Nat, r \in Nat \ {0}, n \in Nat, s \in Nat :
              f = e.first /\ r = e.header.reserved /\ n = e.header.tables /\ s = e.header.tableSize
        BY DEF IsHeader
      <4>2. n * s \in Nat
        OBVIOUS
      <4>3. FirstUsableCluster(e) = f + r + (n * s)
        BY <4>1 DEF FirstUsableCluster
      <4> QED
        BY <4>1, <4>2, <4>3
    <3>4. IsVolumeOf(v, e)
      BY <3>2, <3>3 DEF IsVolumeOf, Volume, VolumeName
    <3>5. VolumesOf(e) = <<v>>
      BY <1>2, <2>1, <2>2 DEF VolumesOf
    <3> QED
      BY <2>2, <3>4, <3>5
  <2>3. CASE ~Supported(e)
    BY <1>2, <2>1, <2>3 DEF VolumesOf
  <2> QED
    BY <2>2, <2>3
<1> QED
  BY <1>1, <1>2

Going(es, i) == {k \in i .. 4 : \A j \in i .. k : Entered(es[j])}
Good(es, i) == {k \in Going(es, i) : Supported(es[k])}
Bad(es, i) == {k \in Going(es, i) \ Good(es, i) : es[k].type = "EFS"}
UpToIt(es, i, k) == {j \in Good(es, i) : j <= k}
Clean(es, i, volumes) ==
  /\ Len(volumes) = Cardinality(Good(es, i))
  /\ \A k \in Good(es, i) : IsVolumeOf(volumes[Cardinality(UpToIt(es, i, k))], es[k])
Trap(es, c, i) == Bad(es, i) # {} \/ (c /\ i <= 4 /\ \A j \in i .. 3 : Entered(es[j]))
Claim(es, c, i, r, V) ==
  /\ r.volumes \in Seq(V)
  /\ r.trapped <=> Trap(es, c, i)
  /\ ~r.trapped => Clean(es, i, r.volumes)

(* An entry more at the front: what is reached, mounted and numbered.       *)
LEMMA GoodIs ==
  ASSUME NEW es, NEW i \in 1 .. 4, Entered(es[i])
  PROVE  /\ Going(es, i) = {i} \cup Going(es, i + 1)
         /\ Good(es, i) = (IF Supported(es[i]) THEN {i} ELSE {}) \cup Good(es, i + 1)
         /\ i \notin Going(es, i + 1)
         /\ \A k \in Good(es, i + 1) :
              UpToIt(es, i, k) = (IF Supported(es[i]) THEN {i} ELSE {}) \cup UpToIt(es, i + 1, k)
         /\ UpToIt(es, i, i) = (IF Supported(es[i]) THEN {i} ELSE {})
<1>1. \A k \in i .. 4 : i .. k = {i} \cup (i + 1 .. k) /\ (k = i \/ k \in i + 1 .. 4)
  OBVIOUS
<1>2. Going(es, i) = {i} \cup Going(es, i + 1)
  <2>1. i \in Going(es, i)
    BY DEF Going
  <2>2. \A k \in i + 1 .. 4 : k \in Going(es, i) <=> k \in Going(es, i + 1)
    BY <1>1 DEF Going
  <2> QED
    BY <1>1, <2>1, <2>2 DEF Going
<1>3. \A k \in Going(es, i + 1) : k \in i + 1 .. 4
  BY DEF Going
<1>4. i \notin Going(es, i + 1)
  BY <1>3
<1>5. Good(es, i) = (IF Supported(es[i]) THEN {i} ELSE {}) \cup Good(es, i + 1)
  BY <1>2 DEF Good
<1>6. \A k \in Good(es, i + 1) : k \in i + 1 .. 4
  BY <1>3 DEF Good
<1>7. \A k \in Good(es, i + 1) : UpToIt(es, i, k) = (IF Supported(es[i]) THEN {i} ELSE {}) \cup UpToIt(es, i + 1, k)
  BY <1>5, <1>6 DEF UpToIt
<1>8. UpToIt(es, i, i) = (IF Supported(es[i]) THEN {i} ELSE {})
  BY <1>5, <1>6 DEF UpToIt
<1> QED
  BY <1>2, <1>4, <1>5, <1>7, <1>8

(* There are at most four of each, and a number for each volume.            *)
LEMMA GoodFinite ==
  ASSUME NEW es, NEW i \in 1 .. 5
  PROVE  /\ IsFiniteSet(Good(es, i)) /\ Cardinality(Good(es, i)) \in Nat
         /\ \A k \in Int : /\ IsFiniteSet(UpToIt(es, i, k)) /\ Cardinality(UpToIt(es, i, k)) \in Nat
         /\ \A k \in Good(es, i) : Cardinality(UpToIt(es, i, k)) \in 1 .. Cardinality(Good(es, i))
<1>1. IsFiniteSet(1 .. 4)
  <2>1. PICK a \in Int, b \in Int : a = 1 /\ b = 4
    OBVIOUS
  <2>2. IsFiniteSet(a .. b)
    BY FS_Interval
  <2> QED
    BY <2>1, <2>2
<1>2. Good(es, i) \subseteq 1 .. 4 /\ \A k \in Int : UpToIt(es, i, k) \subseteq Good(es, i)
  BY DEF Good, Going, UpToIt
<1>3. IsFiniteSet(Good(es, i)) /\ Cardinality(Good(es, i)) \in Nat
  BY <1>1, <1>2, FS_Subset, FS_CardinalityType
<1>4. \A k \in Int : /\ IsFiniteSet(UpToIt(es, i, k)) /\ Cardinality(UpToIt(es, i, k)) \in Nat
                     /\ Cardinality(UpToIt(es, i, k)) <= Cardinality(Good(es, i))
  BY <1>2, <1>3, FS_Subset, FS_CardinalityType
<1>5. ASSUME NEW k \in Good(es, i) PROVE Cardinality(UpToIt(es, i, k)) # 0
  <2>1. k \in Int
    BY <1>2
  <2>2. k \in UpToIt(es, i, k)
    BY <2>1 DEF UpToIt
  <2> QED
    BY <1>4, <2>1, <2>2, FS_EmptySet
<1>6. \A k \in Good(es, i) : k \in Int
  BY <1>2
<1> QED
  BY <1>3, <1>4, <1>5, <1>6

(* A volume more at the front moves the others by one.                      *)
LEMMA CleanKept ==
  ASSUME NEW es, NEW i \in 1 .. 4, Entered(es[i]), NEW V, NEW rest \in Seq(V),
         Clean(es, i + 1, rest), NEW v \in V, Supported(es[i]), IsVolumeOf(v, es[i])
  PROVE  Clean(es, i, <<v>> \o rest)
<1> DEFINE all == <<v>> \o rest
<1>1. Len(all) = Len(rest) + 1 /\ all[1] = v /\ \A k \in 1 .. Len(rest) : all[k + 1] = rest[k]
  OBVIOUS
<1> HIDE DEF all
<1>2. Good(es, i) = Good(es, i + 1) \cup {i} /\ i \notin Good(es, i + 1)
  BY GoodIs DEF Good
<1>0. i + 1 \in 1 .. 5
  OBVIOUS
<1>3. Len(rest) = Cardinality(Good(es, i + 1)) /\ IsFiniteSet(Good(es, i + 1))
  BY <1>0, GoodFinite DEF Clean
<1>4. Cardinality(Good(es, i)) = Cardinality(Good(es, i + 1)) + 1
  BY <1>2, <1>3, FS_AddElement
<1>5. ASSUME NEW k \in Good(es, i + 1)
      PROVE  IsVolumeOf(all[Cardinality(UpToIt(es, i, k))], es[k])
  <2> DEFINE U == UpToIt(es, i + 1, k)
  <2>1. k \in Int
    BY DEF Good, Going
  <2>2. IsFiniteSet(U) /\ Cardinality(U) \in 1 .. Len(rest)
    BY <1>0, <1>3, <2>1, GoodFinite
  <2>3. UpToIt(es, i, k) = U \cup {i} /\ i \notin U
    BY <1>2, GoodIs DEF UpToIt
  <2>4. Cardinality(UpToIt(es, i, k)) = Cardinality(U) + 1
    BY <2>2, <2>3, FS_AddElement
  <2>5. IsVolumeOf(rest[Cardinality(U)], es[k])
    BY DEF Clean
  <2> QED
    BY <1>1, <2>2, <2>4, <2>5
<1>6. IsVolumeOf(all[Cardinality(UpToIt(es, i, i))], es[i])
  <2>1. UpToIt(es, i, i) = {i}
    BY GoodIs
  <2>2. Cardinality(UpToIt(es, i, i)) = 1
    BY <2>1, FS_Singleton
  <2> QED
    BY <1>1, <2>2
<1>7. Clean(es, i, all)
  BY <1>1, <1>2, <1>3, <1>4, <1>5, <1>6 DEF Clean
<1> QED
  BY <1>7 DEF all

(* Reading entry i keeps what is claimed of the entries behind it.          *)
LEMMA ClaimKept ==
  ASSUME NEW es, NEW c \in BOOLEAN, NEW V, NEW i \in 1 .. 4, NEW rest, Claim(es, c, i + 1, rest, V),
         es[i].first \in Nat, IsHeader(es[i].header), VolumesOf(es[i]) \in Seq(V)
  PROVE  Claim(es, c, i, EntryRead(es, c, i, rest), V)
<1> DEFINE e == es[i]
           r == EntryRead(es, c, i, rest)
<1>1. PastSector(i, c) <=> c /\ i = 4
  BY DEF PastSector, SliceEnd
<1>2. <<>> \in Seq(V)
  OBVIOUS
<1>3. CASE PastSector(i, c)
  <2>1. r = VolumesRead(<<>>, TRUE)
    BY <1>3 DEF EntryRead
  <2>2. Trap(es, c, i)
    BY <1>1, <1>3 DEF Trap
  <2> QED
    BY <1>2, <2>1, <2>2 DEF Claim, VolumesRead
<1>4. CASE ~PastSector(i, c) /\ ~Entered(e)
  <2>1. r = VolumesRead(<<>>, FALSE)
    BY <1>4 DEF EntryRead, IsLast, NothingRead
  <2>2. Going(es, i) = {}
    BY <1>4 DEF Going
  <2>3. Good(es, i) = {} /\ Bad(es, i) = {}
    BY <2>2 DEF Good, Bad
  <2>4. ~Trap(es, c, i)
    <3>1. i = 4 \/ i \in i .. 3
      OBVIOUS
    <3> QED
      BY <1>1, <1>4, <2>3, <3>1 DEF Trap
  <2>5. Cardinality(Good(es, i)) = 0 /\ Len(<<>>) = 0
    BY <2>3, FS_EmptySet
  <2> QED
    BY <1>2, <2>1, <2>3, <2>4, <2>5 DEF Claim, Clean, VolumesRead
<1>5. CASE ~PastSector(i, c) /\ Entered(e)
  <2>1. /\ Going(es, i) = {i} \cup Going(es, i + 1) /\ i \notin Going(es, i + 1)
        /\ Good(es, i) = (IF Supported(e) THEN {i} ELSE {}) \cup Good(es, i + 1)
        /\ \A k \in Good(es, i + 1) :
              UpToIt(es, i, k) = (IF Supported(e) THEN {i} ELSE {}) \cup UpToIt(es, i + 1, k)
    BY <1>5, GoodIs
  <2>2. Bad(es, i) = (IF ~Supported(e) /\ e.type = "EFS" THEN {i} ELSE {}) \cup Bad(es, i + 1)
    <3>1. Good(es, i + 1) \subseteq Going(es, i + 1)
      BY DEF Good
    <3> QED
      BY <2>1, <3>1 DEF Bad
  <2>3. Trap(es, c, i) <=> (~Supported(e) /\ e.type = "EFS") \/ Trap(es, c, i + 1)
    <3>1. i # 4 => i .. 3 = {i} \cup (i + 1 .. 3)
      OBVIOUS
    <3>2. c => i # 4
      BY <1>1, <1>5
    <3>3. c => ((\A j \in i .. 3 : Entered(es[j])) <=> (\A j \in i + 1 .. 3 : Entered(es[j])))
      BY <1>5, <3>1, <3>2
    <3>4. c => i <= 4 /\ i + 1 <= 4
      BY <3>2
    <3> QED
      BY <2>2, <3>3, <3>4 DEF Trap
  <2>4. CASE Supported(e)
    <3>1. PICK v : VolumesOf(e) = <<v>> /\ IsVolumeOf(v, e)
      BY <2>4, VolumesAre
    <3>2. v \in V
      <4>1. <<v>> \in Seq(V)
        BY <3>1
      <4> QED
        BY <4>1
    <3>3. VolumesOf(e) # <<>>
      BY <3>1
    <3>4. r = VolumesRead(<<v>> \o rest.volumes, rest.trapped)
      BY <1>5, <3>1, <3>3 DEF EntryRead, IsLast
    <3>5. rest.volumes \in Seq(V) /\ (rest.trapped <=> Trap(es, c, i + 1))
      BY DEF Claim
    <3>6. <<v>> \o rest.volumes \in Seq(V)
      BY <3>2, <3>5
    <3>7. ~rest.trapped => Clean(es, i, <<v>> \o rest.volumes)
      BY <1>5, <2>4, <3>1, <3>2, <3>5, CleanKept DEF Claim
    <3> QED
      BY <2>3, <2>4, <3>4, <3>5, <3>6, <3>7 DEF Claim, VolumesRead
  <2>5. CASE ~Supported(e)
    <3>1. VolumesOf(e) = <<>>
      BY <2>5, VolumesAre
    <3>2. CASE e.type = "EFS"
      <4>1. r = VolumesRead(<<>>, TRUE)
        BY <1>5, <3>1, <3>2 DEF EntryRead, IsLast
      <4> QED
        BY <1>2, <2>3, <2>5, <3>2, <4>1 DEF Claim, VolumesRead
    <3>3. CASE e.type # "EFS"
      <4>1. r = VolumesRead(<<>> \o rest.volumes, rest.trapped)
        BY <1>5, <3>1, <3>3 DEF EntryRead, IsLast
      <4>2. rest.volumes \in Seq(V) /\ (rest.trapped <=> Trap(es, c, i + 1))
        BY DEF Claim
      <4>3. <<>> \o rest.volumes = rest.volumes
        BY <4>2
      <4>4. Good(es, i) = Good(es, i + 1)
        BY <2>1, <2>5
      <4>5. \A k \in Good(es, i) : UpToIt(es, i, k) = UpToIt(es, i + 1, k)
        BY <2>1, <2>5
      <4>6. ~rest.trapped => Clean(es, i, rest.volumes)
        BY <4>4, <4>5 DEF Claim, Clean
      <4> QED
        BY <2>3, <3>3, <4>1, <4>2, <4>3, <4>6 DEF Claim, VolumesRead
    <3> QED
      BY <3>2, <3>3
  <2> QED
    BY <2>4, <2>5
<1> QED
  BY <1>3, <1>4, <1>5

(* What is claimed holds of reading all four entries.                       *)
LEMMA DiskReads ==
  ASSUME NEW disk, IsDisk(disk)
  PROVE  \E V : Claim(disk.entries, disk.checked, 1, ReadFrom(disk.entries, disk.checked), V)
<1> DEFINE es == disk.entries
           c == disk.checked
           W == {VolumesOf(es[i])[1] : i \in 1 .. 4}
           V == W \cup {""}
           Empty == NothingRead
           R == [volumes : Seq(V), trapped : BOOLEAN]
           Body(i, rest) == EntryRead(es, c, i, rest)
           Is(f) == f = [i \in 1 .. EntriesInSector + 1 |->
                           IF i > EntriesInSector THEN Empty ELSE Body(i, f[i + 1])]
           read == CHOOSE f : Is(f)
           step == [p \in (1 .. 4) \X R |-> Body(5 - p[1], p[2])]
<1>1. ReadFrom(es, c) = read[1]
  BY DEF ReadFrom
<1>2. \A i \in 1 .. 4 : es[i].first \in Nat /\ IsHeader(es[i].header)
  BY DEF IsDisk, EntriesInSector
<1>3. c \in BOOLEAN
  BY DEF IsDisk
<1> HIDE DEF es, c, read
<1>4. \A i \in 1 .. 4 : VolumesOf(es[i]) \in Seq(V)
  <2>1. ASSUME NEW i \in 1 .. 4 PROVE VolumesOf(es[i]) \in Seq(V)
    <3>1. VolumesOf(es[i]) = <<>> \/ \E v : VolumesOf(es[i]) = <<v>>
      BY <1>2, VolumesAre
    <3>2. VolumesOf(es[i])[1] \in V
      OBVIOUS
    <3> HIDE DEF V
    <3>3. CASE \E v : VolumesOf(es[i]) = <<v>>
      <4>1. PICK v : VolumesOf(es[i]) = <<v>>
        BY <3>3
      <4>2. v \in V
        BY <3>2, <4>1
      <4>3. <<v>> \in Seq(V)
        BY <4>2
      <4> QED
        BY <4>1, <4>3
    <3>4. CASE VolumesOf(es[i]) = <<>>
      <4>1. <<>> \in Seq(V)
        OBVIOUS
      <4> QED
        BY <3>4, <4>1
    <3> QED
      BY <3>1, <3>3, <3>4
  <2> QED
    BY <2>1
<1> HIDE DEF V
<1>5. Empty \in R /\ \A i \in 1 .. 4, x \in R : Body(i, x) \in R
  <2>1. <<>> \in Seq(V)
    OBVIOUS
  <2>2. \A i \in 1 .. 4, x \in R : VolumesOf(es[i]) \o x.volumes \in Seq(V) /\ x.trapped \in BOOLEAN
    <3>1. ASSUME NEW i \in 1 .. 4, NEW x \in R
          PROVE  VolumesOf(es[i]) \o x.volumes \in Seq(V) /\ x.trapped \in BOOLEAN
      <4>1. VolumesOf(es[i]) \in Seq(V) /\ x.volumes \in Seq(V)
        BY <1>4
      <4> QED
        BY <4>1
    <3> QED
      BY <3>1
  <2> QED
    BY <2>1, <2>2 DEF VolumesRead, EntryRead, NothingRead
<1>6. \A k \in 1 .. 4, x \in R : step[<<k, x>>] = Body(5 - k, x) /\ step[<<k, x>>] \in R
  <2>1. \A k \in 1 .. 4, x \in R : step[<<k, x>>] = Body(5 - k, x)
    OBVIOUS
  <2>2. \A k \in 1 .. 4 : 5 - k \in 1 .. 4
    OBVIOUS
  <2> QED
    BY <1>5, <2>1, <2>2
<1> HIDE DEF step, R, Empty
<1>7. PICK g \in [0 .. 4 -> R] : Chain(g, 4, Empty, step)
  BY <1>5, <1>6, Recursion
<1> DEFINE f == [i \in 1 .. 5 |-> g[5 - i]]
<1>8. f[5] = Empty /\ \A i \in 1 .. 4 : f[i] = Body(i, f[i + 1])
  <2>1. f[5] = Empty
    <3>1. f[5] = g[0]
      OBVIOUS
    <3> QED
      BY <1>7, <3>1 DEF Chain
  <2>2. ASSUME NEW i \in 1 .. 4 PROVE f[i] = Body(i, f[i + 1])
    <3>1. PICK k \in 1 .. 4 : k = 5 - i
      OBVIOUS
    <3>2. g[k] = step[<<k, g[k - 1]>>] /\ g[k - 1] \in R
      BY <1>7 DEF Chain
    <3>3. g[k] = Body(5 - k, g[k - 1])
      BY <1>6, <3>2
    <3>4. f[i] = g[k] /\ f[i + 1] = g[k - 1] /\ 5 - k = i
      BY <3>1
    <3> HIDE DEF f
    <3> QED
      BY <3>3, <3>4
  <2> QED
    BY <2>1, <2>2
<1>9. Is(f)
  <2> DEFINE h == [i \in 1 .. EntriesInSector + 1 |->
                           IF i > EntriesInSector THEN Empty ELSE Body(i, f[i + 1])]
  <2>1. h = [i \in 1 .. 5 |-> h[i]] /\ f = [i \in 1 .. 5 |-> f[i]]
    BY DEF EntriesInSector
  <2>2. h[5] = Empty /\ \A i \in 1 .. 4 : h[i] = Body(i, f[i + 1])
    BY DEF EntriesInSector
  <2>3. \A i \in 1 .. 5 : i = 5 \/ i \in 1 .. 4
    OBVIOUS
  <2> HIDE DEF f, h
  <2>4. \A i \in 1 .. 5 : f[i] = h[i]
    BY <1>8, <2>2, <2>3
  <2>5. f = h
    BY <2>1, <2>4, SameFunction
  <2> QED
    BY <2>5 DEF h
<1> HIDE DEF f
<1>10. Is(read)
  BY <1>9 DEF read
<1>11. read[5] = Empty /\ \A i \in 1 .. 4 : read[i] = Body(i, read[i + 1])
  <2>1. 5 \in 1 .. 5 /\ 5 > 4 /\ \A i \in 1 .. 4 : i \in 1 .. 5 /\ ~(i > 4)
    OBVIOUS
  <2>2. \A i \in 1 .. 5 : read[i] = IF i > 4 THEN Empty ELSE Body(i, read[i + 1])
    BY <1>10 DEF EntriesInSector
  <2> QED
    BY <2>1, <2>2
<1>12. Claim(es, c, 5, Empty, V)
  <2>1. Going(es, 5) = {} /\ Good(es, 5) = {} /\ Bad(es, 5) = {}
    BY DEF Going, Good, Bad
  <2>2. Cardinality(Good(es, 5)) = 0
    BY <2>1, FS_EmptySet
  <2>3. ~Trap(es, c, 5)
    BY <2>1 DEF Trap
  <2>4. Empty.volumes = <<>> /\ Empty.trapped = FALSE
    BY DEF Empty, NothingRead, VolumesRead
  <2>5. <<>> \in Seq(V) /\ Len(<<>>) = 0
    OBVIOUS
  <2> QED
    BY <2>1, <2>2, <2>3, <2>4, <2>5 DEF Claim, Clean
<1>13. ASSUME NEW i \in 1 .. 4, NEW rest, Claim(es, c, i + 1, rest, V)
       PROVE  Claim(es, c, i, EntryRead(es, c, i, rest), V)
  BY <1>2, <1>3, <1>4, <1>13, ClaimKept
<1>14. \A i \in 1 .. 4 : Claim(es, c, i + 1, read[i + 1], V) => Claim(es, c, i, read[i], V)
  BY <1>11, <1>13
<1> HIDE DEF Empty
<1>15. Claim(es, c, 5, read[5], V)
  BY <1>11, <1>12
<1>16. /\ Claim(es, c, 5, read[5], V) => Claim(es, c, 4, read[4], V)
       /\ Claim(es, c, 4, read[4], V) => Claim(es, c, 3, read[3], V)
       /\ Claim(es, c, 3, read[3], V) => Claim(es, c, 2, read[2], V)
       /\ Claim(es, c, 2, read[2], V) => Claim(es, c, 1, read[1], V)
  <2>1. /\ 4 \in 1 .. 4 /\ 3 \in 1 .. 4 /\ 2 \in 1 .. 4 /\ 1 \in 1 .. 4
        /\ 4 + 1 = 5 /\ 3 + 1 = 4 /\ 2 + 1 = 3 /\ 1 + 1 = 2
    OBVIOUS
  <2> QED
    BY <1>14, <2>1
<1>17. Claim(es, c, 1, ReadFrom(es, c), V)
  BY <1>1, <1>15, <1>16
<1> QED
  BY <1>17 DEF es, c

(* Reading the partition table of a disk makes one volume of each supported *)
(* entry that is reached, in their order and at the sectors the entry says; *)
(* exactly an EFI partition that is not FAT32 and, in a build that checks,  *)
(* a sector full of entries end the kernel, for any disk (GPT.swift 27-68). *)
THEOREM VolumesFound ==
  ASSUME NEW disk, IsDisk(disk)
  PROVE  VolumesRight(disk)
<1> DEFINE es == disk.entries
           c == disk.checked
           shown == {i \in DOMAIN es : \A j \in 1 .. i : Entered(es[j])}
<1>1. PICK V : Claim(es, c, 1, ReadFrom(es, c), V)
  BY DiskReads
<1>2. DOMAIN es = 1 .. 4 /\ c \in BOOLEAN
  BY DEF IsDisk, EntriesInSector
<1>3. shown = Going(es, 1)
  BY <1>2 DEF Going
<1>4. Cardinality(shown) >= EntriesInSector - 1 <=> \A j \in 1 .. 3 : Entered(es[j])
  <2>0. PICK a \in Int, b \in Int, d \in Int, z \in Int : a = 1 /\ b = 3 /\ d = 2 /\ z = 4
    OBVIOUS
  <2>8. /\ IsFiniteSet(a .. b) /\ Cardinality(a .. b) = (IF a > b THEN 0 ELSE (b - a) + 1)
        /\ IsFiniteSet(a .. d) /\ Cardinality(a .. d) = (IF a > d THEN 0 ELSE (d - a) + 1)
        /\ IsFiniteSet(a .. z)
    BY FS_Interval
  <2>1. /\ IsFiniteSet(a .. b) /\ Cardinality(a .. b) = 3
        /\ IsFiniteSet(a .. d) /\ Cardinality(a .. d) = 2
        /\ IsFiniteSet(a .. z)
    BY <2>0, <2>8
  <2>2. shown \subseteq a .. z
    BY <1>2, <2>0
  <2>3. IsFiniteSet(shown) /\ Cardinality(shown) \in Nat
    BY <2>1, <2>2, FS_Subset, FS_CardinalityType
  <2>4. (\A j \in 1 .. 3 : Entered(es[j])) => a .. b \subseteq shown
    BY <1>2, <2>0
  <2>5. ~(\A j \in 1 .. 3 : Entered(es[j])) => shown \subseteq a .. d
    BY <1>2, <2>0
  <2> HIDE DEF shown
  <2>6. a .. b \subseteq shown => Cardinality(a .. b) <= Cardinality(shown)
    BY <2>3, FS_Subset
  <2>9. IsFiniteSet(a .. d)
    BY <2>1
  <2>7. shown \subseteq a .. d => Cardinality(shown) <= Cardinality(a .. d)
    BY <2>9, FS_Subset
  <2> QED
    BY <2>1, <2>3, <2>4, <2>5, <2>6, <2>7 DEF EntriesInSector
<1> DEFINE supported == {i \in shown : Supported(es[i])}
           bad == {i \in shown \ supported : es[i].type = "EFS"}
<1>5. supported = Good(es, 1) /\ bad = Bad(es, 1)
  BY <1>3 DEF Good, Bad
<1>6. \A i : UpToIt(es, 1, i) = {j \in supported : j <= i}
  BY <1>5 DEF UpToIt
<1> DEFINE found == ReadFrom(es, c)
<1>7. found.trapped <=> bad # {} \/ (c /\ Cardinality(shown) >= EntriesInSector - 1)
  BY <1>1, <1>4, <1>5 DEF Claim, Trap
<1>8. ~found.trapped =>
        /\ Len(found.volumes) = Cardinality(supported)
        /\ \A i \in supported :
             IsVolumeOf(found.volumes[Cardinality({j \in supported : j <= i})], es[i])
  BY <1>1, <1>5, <1>6 DEF Claim, Clean
<1>9. disk.table = "gpt" => Drive(disk) = found
  BY DEF Drive
<1> QED
  BY <1>7, <1>8, <1>9 DEF VolumesRight

----------------------------------------------------------------------------
(* Interrupt lines: the first override of a line is kept as the first.      *)
(* The overrides among the first n entries, in their order.                 *)
Keeps(es, n, kept) ==
  /\ kept \in Seq({es[i] : i \in 1 .. Len(es)})
  /\ \A j \in 1 .. Len(kept) :
       kept[j].type = interruptSourceOverride /\ \E i \in 1 .. n : kept[j] = es[i]
  /\ \A i \in 1 .. n, irq \in Nat : i \in FirstSaid(es, irq) =>
       \E j \in 1 .. Len(kept) :
         kept[j] = es[i] /\ \A m \in 1 .. j - 1 : kept[m].sourceIRQ # irq

(* An entry more keeps the first override of each line first.               *)
LEMMA KeepsOne ==
  ASSUME NEW es, IsTable(es), NEW n \in 1 .. Len(es), NEW kept, Keeps(es, n - 1, kept)
  PROVE  Keeps(es, n, IF es[n].type = interruptSourceOverride THEN Append(kept, es[n]) ELSE kept)
<1>1. kept \in Seq({es[i] : i \in 1 .. Len(es)}) /\ Len(kept) \in Nat /\ Len(es) \in Nat
  BY DEF Keeps, IsTable
<1>2. \A i \in 1 .. n : i \in 1 .. n - 1 \/ i = n
  BY <1>1
<1>3. \A i \in 1 .. n - 1 : i \in 1 .. n
  BY <1>1
<1>4. CASE es[n].type # interruptSourceOverride
  <2>1. \A irq \in Nat : n \notin FirstSaid(es, irq)
    BY <1>4 DEF FirstSaid
  <2>2. Keeps(es, n, kept)
    BY <1>2, <1>3, <2>1 DEF Keeps
  <2> QED
    BY <1>4, <2>2
<1>5. CASE es[n].type = interruptSourceOverride
  <2> DEFINE more == Append(kept, es[n])
             S == {es[i] : i \in 1 .. Len(es)}
  <2>1. es[n] \in S
    OBVIOUS
  <2> HIDE DEF S
  <2>2. /\ more \in Seq(S) /\ Len(more) = Len(kept) + 1 /\ more[Len(kept) + 1] = es[n]
        /\ \A j \in 1 .. Len(kept) : more[j] = kept[j]
    <3>1. kept \in Seq(S)
      BY <1>1 DEF S
    <3> QED
      BY <2>1, <3>1
  <2> HIDE DEF more
  <2>3. \A j \in 1 .. Len(more) : j \in 1 .. Len(kept) \/ j = Len(kept) + 1
    BY <1>1, <2>2
  <2>4. ASSUME NEW j \in 1 .. Len(more)
        PROVE  more[j].type = interruptSourceOverride /\ \E i \in 1 .. n : more[j] = es[i]
    <3>1. CASE j \in 1 .. Len(kept)
      <4>1. more[j] = kept[j]
        BY <2>2, <3>1
      <4>2. kept[j].type = interruptSourceOverride
        BY <3>1 DEF Keeps
      <4>3. PICK i \in 1 .. n - 1 : kept[j] = es[i]
        BY <3>1 DEF Keeps
      <4>4. i \in 1 .. n
        BY <1>3
      <4> QED
        BY <4>1, <4>2, <4>3, <4>4
    <3>2. CASE j = Len(kept) + 1
      <4>1. n \in 1 .. n
        BY <1>1
      <4> QED
        BY <1>5, <2>2, <3>2, <4>1
    <3> QED
      BY <2>3, <3>1, <3>2
  <2>5. ASSUME NEW i \in 1 .. n, NEW irq \in Nat, i \in FirstSaid(es, irq)
        PROVE  \E j \in 1 .. Len(more) :
                 more[j] = es[i] /\ \A m \in 1 .. j - 1 : more[m].sourceIRQ # irq
    <3>1. CASE i \in 1 .. n - 1
      <4>1. PICK j \in 1 .. Len(kept) :
              kept[j] = es[i] /\ \A m \in 1 .. j - 1 : kept[m].sourceIRQ # irq
        BY <2>5, <3>1 DEF Keeps
      <4>2. j \in 1 .. Len(more) /\ \A m \in 1 .. j - 1 : m \in 1 .. Len(kept)
        BY <1>1, <2>2
      <4> QED
        BY <2>2, <4>1, <4>2
    <3>2. CASE i = n
      <4>1. Len(kept) + 1 \in 1 .. Len(more) /\ (Len(kept) + 1) - 1 = Len(kept)
        BY <1>1, <2>2
      <4>2. ASSUME NEW m \in 1 .. Len(kept) PROVE more[m].sourceIRQ # irq
        <5>1. PICK k \in 1 .. n - 1 : kept[m] = es[k]
          BY DEF Keeps
        <5>2. es[k].type = interruptSourceOverride
          BY <5>1 DEF Keeps
        <5>3. es[k].sourceIRQ # irq
          BY <2>5, <3>2, <5>2 DEF FirstSaid
        <5> QED
          BY <2>2, <5>1, <5>3
      <4> QED
        BY <2>2, <3>2, <4>1, <4>2
    <3> QED
      BY <1>2, <3>1, <3>2
  <2>6. Keeps(es, n, more)
    BY <2>2, <2>4, <2>5 DEF Keeps, S
  <2> QED
    BY <1>5, <2>6 DEF more
<1> QED
  BY <1>4, <1>5

(* All entries do.                                                          *)
LEMMA OverridesKept ==
  ASSUME NEW es, IsTable(es)
  PROVE  Keeps(es, Len(es), Of(es, interruptSourceOverride))
<1> DEFINE n == Len(es)
           S == Seq({es[i] : i \in 1 .. Len(es)})
           Next1(k, x) == IF es[k].type = interruptSourceOverride THEN Append(x, es[k]) ELSE x
           Is(f) == f = [k \in 0 .. n |-> IF k = 0 THEN <<>> ELSE Next1(k, f[k - 1])]
           kept == CHOOSE f : Is(f)
           step == [p \in (1 .. n) \X S |-> Next1(p[1], p[2])]
<1>1. Of(es, interruptSourceOverride) = kept[n]
  BY DEF Of
<1>2. n \in Nat /\ <<>> \in S
  BY DEF IsTable
<1>3. \A k \in 1 .. n, x \in S : step[<<k, x>>] = Next1(k, x) /\ Next1(k, x) \in S
  <2>1. \A k \in 1 .. n : es[k] \in {es[i] : i \in 1 .. Len(es)}
    OBVIOUS
  <2> QED
    BY <2>1
<1> HIDE DEF n, step, S
<1>4. \A k \in 1 .. n, x \in S : step[<<k, x>>] \in S
  BY <1>3
<1>5. PICK f \in [0 .. n -> S] : Chain(f, n, <<>>, step)
  BY <1>2, <1>4, Recursion
<1>6. Is(f)
  <2> DEFINE h == [k \in 0 .. n |-> IF k = 0 THEN <<>> ELSE Next1(k, f[k - 1])]
  <2>4. f[0] = h[0]
    BY <1>2, <1>5 DEF Chain
  <2>5. ASSUME NEW k \in 1 .. n PROVE f[k] = h[k]
    <3>1. k - 1 \in 0 .. n /\ f[k - 1] \in S /\ k \in 0 .. n /\ k # 0
      BY <1>2, <1>5
    <3>2. f[k] = Next1(k, f[k - 1])
      BY <1>3, <1>5, <3>1 DEF Chain
    <3> QED
      BY <3>1, <3>2
  <2>1. \A k \in 0 .. n : f[k] = h[k]
    <3>1. \A k \in 0 .. n : k = 0 \/ k \in 1 .. n
      BY <1>2
    <3> HIDE DEF h
    <3> QED
      BY <2>4, <2>5, <3>1
  <2>2. h = [k \in 0 .. n |-> h[k]] /\ f = [k \in 0 .. n |-> f[k]]
    BY <1>5
  <2> HIDE DEF h
  <2>3. f = h
    BY <2>1, <2>2, SameFunction
  <2> QED
    BY <2>3 DEF h
<1>7. Is(kept)
  BY <1>6
<1> HIDE DEF kept
<1>8. kept[0] = <<>> /\ \A k \in 1 .. n : kept[k] = Next1(k, kept[k - 1])
  <2>1. 0 \in 0 .. n /\ \A k \in 1 .. n : k \in 0 .. n /\ k # 0
    BY <1>2
  <2>2. \A k \in 0 .. n : kept[k] = IF k = 0 THEN <<>> ELSE Next1(k, kept[k - 1])
    BY <1>7
  <2> QED
    BY <2>1, <2>2
<1> DEFINE T == {k \in 0 .. n : Keeps(es, k, kept[k])}
<1>9. 0 \in T
  <2>1. Keeps(es, 0, <<>>)
    BY DEF Keeps
  <2>2. 0 \in 0 .. n
    BY <1>2
  <2> QED
    BY <1>8, <2>1, <2>2
<1>10. ASSUME NEW k \in 1 .. n, k - 1 \in T PROVE k \in T
  <2>1. Keeps(es, k - 1, kept[k - 1])
    BY <1>10
  <2>2. k \in 1 .. Len(es)
    BY DEF n
  <2>3. Keeps(es, k, IF es[k].type = interruptSourceOverride THEN Append(kept[k - 1], es[k])
                     ELSE kept[k - 1])
    BY <2>1, <2>2, KeepsOne
  <2>4. Keeps(es, k, kept[k]) /\ k \in 0 .. n
    BY <1>2, <1>8, <2>3
  <2> QED
    BY <2>4
<1> HIDE DEF T
<1>11. \A k \in 0 .. n : k \in T
  BY <1>2, <1>9, <1>10, Upwards
<1>12. n \in T
  BY <1>2, <1>11
<1>13. Keeps(es, n, kept[n])
  BY <1>12 DEF T
<1> QED
  BY <1>1, <1>13 DEF n

(* The numbers of the types of entries.                                     *)
TypesAre == /\ processorLocalApic = 0 /\ ioApicType = 1
            /\ interruptSourceOverride = 2 /\ localApicNmi = 4

(* These are the numbers.                                                   *)
LEMMA TypesKnown == TypesAre
BY SMTT(60) DEF TypesAre, processorLocalApic, ioApicType, interruptSourceOverride, localApicNmi

(* A word is a number.                                                      *)
LEMMA WordsAre == \A w \in AWord : w \in Nat
BY SMTT(60) DEF AWord

(* An entry has one of four forms.                                          *)
LEMMA EntryForms ==
  ASSUME NEW e, IsEntry(e)
  PROVE  IsPlain(e) \/ IsIoApic(e) \/ IsOverride(e) \/ IsOther(e)
BY DEF IsEntry

(* An entry of that type is an override.                                    *)
LEMMA OverrideIs ==
  ASSUME NEW e, IsEntry(e), e.type = interruptSourceOverride
  PROVE  IsOverride(e)
<1>1. ~IsPlain(e)
  BY TypesKnown DEF IsPlain, TypesAre
<1>2. ~IsIoApic(e)
  BY TypesKnown DEF IsIoApic, TypesAre
<1>3. ~IsOther(e)
  BY DEF IsOther, Types
<1> QED
  BY <1>1, <1>2, <1>3, EntryForms

(* The register chosen for a line is that of the pin the firmware says: the *)
(* first override of it, or the pin of its own number.                      *)
LEMMA RegisterIs ==
  ASSUME NEW es, IsTable(es), NEW irq \in Nat
  PROVE  /\ PinSaid(es, irq) \in Nat
         /\ RegisterFor(Of(es, interruptSourceOverride), irq)
              = redirectionRegisterFor(PinSaid(es, irq))
<1> DEFINE ov == Of(es, interruptSourceOverride)
           Said == {i \in 1 .. Len(es) : es[i].type = interruptSourceOverride
                                         /\ es[i].sourceIRQ = irq}
<1>1. Keeps(es, Len(es), ov)
  BY OverridesKept
<1>2. DOMAIN es = 1 .. Len(es) /\ Len(es) \in Nat
  BY DEF IsTable
<1> HIDE DEF ov
<1>3. DOMAIN ov = 1 .. Len(ov) /\ Len(ov) \in Nat
  BY <1>1 DEF Keeps
<1>4. \A i \in FirstSaid(es, irq) : i \in Said
  BY <1>2 DEF FirstSaid
<1>5. CASE FirstSaid(es, irq) = {}
  <2>1. Said = {}
    <3>1. Said \subseteq Nat
      OBVIOUS
    <3>2. CASE Said # {}
      <4>1. PICK i \in Said : \A j \in Said : i <= j
        BY <3>1, <3>2, LeastOf
      <4>2. \A j \in 1 .. i - 1 : j \in 1 .. Len(es) /\ ~(i <= j)
        BY <1>2
      <4>3. \A j \in 1 .. i - 1 : es[j].type = interruptSourceOverride => es[j].sourceIRQ # irq
        BY <4>1, <4>2
      <4>4. i \in FirstSaid(es, irq)
        BY <1>2, <4>3 DEF FirstSaid
      <4> QED
        BY <1>5, <4>4
    <3> QED
      BY <3>2
  <2>2. overrideEntryFor(ov, irq) = {}
    <3>1. ASSUME NEW j \in 1 .. Len(ov), ov[j].sourceIRQ = irq PROVE FALSE
      <4>1. PICK i \in 1 .. Len(es) : ov[j] = es[i]
        BY <1>1 DEF Keeps
      <4>2. ov[j].type = interruptSourceOverride
        BY <1>1 DEF Keeps
      <4>3. i \in Said
        BY <3>1, <4>1, <4>2
      <4> QED
        BY <2>1, <4>3
    <3> QED
      BY <1>3, <3>1 DEF overrideEntryFor
  <2> QED
    BY <1>5, <2>2 DEF RegisterFor, PinSaid, ov
<1>6. CASE FirstSaid(es, irq) # {}
  <2>1. PICK i : i = CHOOSE place \in FirstSaid(es, irq) : TRUE
    OBVIOUS
  <2>2. i \in FirstSaid(es, irq) /\ i \in 1 .. Len(es)
    BY <1>4, <1>6, <2>1
  <2>3. es[i].type = interruptSourceOverride /\ es[i].sourceIRQ = irq
    BY <1>4, <2>2
  <2>4. PinSaid(es, irq) = es[i].globalInterrupt
    BY <1>6, <2>1 DEF PinSaid
  <2>5. es[i].globalInterrupt \in Nat
    <3>1. IsEntry(es[i])
      BY <2>2 DEF IsTable
    <3>2. IsOverride(es[i])
      BY <2>3, <3>1, OverrideIs, Zenon
    <3>3. es[i].globalInterrupt \in AWord
      BY <3>2 DEF IsOverride
    <3> QED
      BY <3>3, WordsAre, Zenon
  <2>6. PICK j \in 1 .. Len(ov) : ov[j] = es[i] /\ \A m \in 1 .. j - 1 : ov[m].sourceIRQ # irq
    BY <1>1, <2>2 DEF Keeps
  <2>7. j \in overrideEntryFor(ov, irq)
    BY <1>3, <2>3, <2>6 DEF overrideEntryFor
  <2>8. ASSUME NEW k \in overrideEntryFor(ov, irq) PROVE k = j
    <3>1. /\ k \in 1 .. Len(ov) /\ ov[k].sourceIRQ = irq
          /\ \A m \in 1 .. k - 1 : ov[m].sourceIRQ # irq
      BY <1>3 DEF overrideEntryFor
    <3>2. k \notin 1 .. j - 1 /\ j \notin 1 .. k - 1
      BY <2>3, <2>6, <3>1
    <3> QED
      BY <1>3, <3>1, <3>2
  <2>9. (CHOOSE k \in overrideEntryFor(ov, irq) : TRUE) = j
    BY <2>7, <2>8
  <2>10. RegisterFor(ov, irq) = redirectionRegisterFor(ov[j].globalInterrupt)
    BY <2>7, <2>9 DEF RegisterFor
  <2> QED
    BY <2>4, <2>5, <2>6, <2>10 DEF ov
<1> QED
  BY <1>5, <1>6

----------------------------------------------------------------------------
(* One operation on a line, and what it leaves of its pin.                  *)
Entries == [vector : Int, masked : BOOLEAN]
Apics == [redirection : [Pins -> Entries], trapped : BOOLEAN]
OverridesOf(es) == Of(es, interruptSourceOverride)

(* Its parts.                                                               *)
LEMMA ApicIs ==
  ASSUME NEW a \in Apics
  PROVE  a.redirection \in [Pins -> Entries] /\ a.trapped \in BOOLEAN
BY DEF Apics

(* Parts of one that is put together.                                       *)
LEMMA ApicFields ==
  ASSUME NEW r, NEW t
  PROVE  Apic(r, t).redirection = r /\ Apic(r, t).trapped = t
BY DEF Apic

(* Parts of a setting that is put together.                                 *)
LEMMA RedirectionFields ==
  ASSUME NEW v, NEW m
  PROVE  Redirection(v, m).vector = v /\ Redirection(v, m).masked = m
BY DEF Redirection

(* The pin a register belongs to, and from which pin on it has no eight     *)
(* bits.                                                                    *)
LEMMA ReadBack ==
  ASSUME NEW p \in Nat
  PROVE  /\ PinAt(redirectionRegisterFor(p)) = p
         /\ redirectionRegisterFor(p) > 255 <=> p >= 120
BY DEF PinAt, redirectionRegisterFor, FirstRegister

(* What an enable or a disable writes to the pin.                           *)
PinWritten(a, op, p) ==
  IF op.enable THEN Redirection(op.irq + BaseVector, FALSE)
  ELSE Redirection(a.redirection[p].vector, TRUE)

(* An operation changes the pin the firmware says, traps where its register *)
(* does not fit, and does nothing to a pin that is not there.               *)
LEMMA DoneIs ==
  ASSUME NEW es, IsTable(es), NEW op, IsOp(op), NEW a \in Apics
  PROVE  Done(a, OverridesOf(es), op) =
           IF a.trapped THEN a
           ELSE IF Ends(es, op.irq) THEN Apic(a.redirection, TRUE)
           ELSE IF PinSaid(es, op.irq) \in Pins
           THEN Apic([a.redirection EXCEPT ![PinSaid(es, op.irq)] =
                                      PinWritten(a, op, PinSaid(es, op.irq))], a.trapped)
           ELSE a
<1> DEFINE p == PinSaid(es, op.irq)
           ov == OverridesOf(es)
<1>1. op.irq \in Nat
  <2>1. \A w \in AByte : w \in Nat
    BY SMT DEF AByte
  <2>2. op.irq \in AByte
    BY DEF IsOp
  <2> QED
    BY <2>1, <2>2, Zenon
<1>2. p \in Nat /\ RegisterFor(ov, op.irq) = redirectionRegisterFor(p)
  BY <1>1, RegisterIs, Zenon DEF OverridesOf
<1> HIDE DEF p, ov
<1>3. PinAt(RegisterFor(ov, op.irq)) = p
  BY <1>2, ReadBack
<1>4. Overflows(ov, op.irq) <=> Ends(es, op.irq)
  <2>1. redirectionRegisterFor(op.irq) > 255 <=> op.irq >= 120
    BY <1>1, ReadBack
  <2>2. RegisterFor(ov, op.irq) > 255 <=> p >= 120
    BY <1>2, ReadBack
  <2> QED
    BY <2>1, <2>2, Zenon DEF Overflows, Ends, p
<1>5. op.enable => enableIRQ(a, ov, op.irq) =
        IF p \in Pins THEN Apic([a.redirection EXCEPT ![p] = PinWritten(a, op, p)], a.trapped)
        ELSE a
  BY <1>3, Zenon DEF enableIRQ, writeWideRegister, PinWritten
<1>6. ~op.enable => disableIRQ(a, ov, op.irq) =
        IF p \in Pins THEN Apic([a.redirection EXCEPT ![p] = PinWritten(a, op, p)], a.trapped)
        ELSE a
  BY <1>3, Zenon DEF disableIRQ, writeWideRegister, readWideRegister, PinWritten
<1>7. Done(a, ov, op) =
           IF a.trapped THEN a
           ELSE IF Ends(es, op.irq) THEN Apic(a.redirection, TRUE)
           ELSE IF p \in Pins
           THEN Apic([a.redirection EXCEPT ![p] = PinWritten(a, op, p)], a.trapped)
           ELSE a
  BY <1>4, <1>5, <1>6, Zenon DEF Done
<1> QED
  BY <1>7 DEF p, ov

(* After n operations: ended if one of them had no register; else each pin  *)
(* is as the last operation on it left it, or masked if there was none.     *)
LastOn(es, ops, n, p, i) ==
  PinSaid(es, ops[i].irq) = p /\ \A j \in i + 1 .. n : PinSaid(es, ops[j].irq) # p
AsLeft(entry, op) ==
  (entry.masked <=> ~op.enable) /\ (op.enable => entry.vector = op.irq + BaseVector)
NoneOn(es, ops, n, p) == \A i \in 1 .. n : PinSaid(es, ops[i].irq) # p
PinRight(es, ops, n, entry, p) ==
  \/ NoneOn(es, ops, n, p) /\ entry.masked
  \/ \E i \in 1 .. n : LastOn(es, ops, n, p, i) /\ AsLeft(entry, ops[i])
EndedBy(es, ops, n) == \E i \in 1 .. n : Ends(es, ops[i].irq)
After(es, ops, n, a) ==
  /\ a.trapped <=> EndedBy(es, ops, n)
  /\ ~a.trapped => \A p \in Pins : PinRight(es, ops, n, a.redirection[p], p)

(* What it writes is what it means.                                         *)
LEMMA WrittenLeft ==
  ASSUME NEW a, NEW op, IsOp(op), NEW p
  PROVE  AsLeft(PinWritten(a, op, p), op)
<1>1. CASE op.enable
  <2>1. PinWritten(a, op, p) = Redirection(op.irq + BaseVector, FALSE)
    BY <1>1 DEF PinWritten
  <2> QED
    <3>1. PinWritten(a, op, p).masked = FALSE /\ PinWritten(a, op, p).vector = op.irq + BaseVector
      BY <2>1 DEF Redirection
    <3> QED
      BY <1>1, <3>1, Zenon DEF AsLeft
<1>2. CASE ~op.enable
  <2>1. PinWritten(a, op, p) = Redirection(a.redirection[p].vector, TRUE)
    BY <1>2 DEF PinWritten
  <2> QED
    BY <1>2, <2>1, RedirectionFields DEF AsLeft
<1> QED
  BY <1>1, <1>2

(* And is a setting.                                                        *)
LEMMA WrittenIs ==
  ASSUME NEW a \in Apics, NEW op, IsOp(op), NEW p \in Pins
  PROVE  PinWritten(a, op, p) \in Entries
<1>1. op.irq + BaseVector \in Int
  <2>1. \A w \in AByte : w \in Int
    BY SMT DEF AByte
  <2> QED
    BY <2>1 DEF IsOp, BaseVector
<1>2. a.redirection[p].vector \in Int
  <2>1. a.redirection[p] \in Entries
    BY ApicIs
  <2> QED
    BY <2>1 DEF Entries
<1>3. \A v \in Int, m \in BOOLEAN : Redirection(v, m) \in Entries
  BY DEF Entries, Redirection
<1> QED
  BY <1>1, <1>2, <1>3, Zenon DEF PinWritten

(* A pin the operation does not mean is right as it was.                    *)
LEMMA PinUntouched ==
  ASSUME NEW es, NEW ops, NEW n \in Nat, n # 0, NEW entry, NEW p,
         PinRight(es, ops, n - 1, entry, p), PinSaid(es, ops[n].irq) # p
  PROVE  PinRight(es, ops, n, entry, p)
<1>1. \A i \in 1 .. n : i \in 1 .. n - 1 \/ i = n
  OBVIOUS
<1>2. CASE NoneOn(es, ops, n - 1, p) /\ entry.masked
  BY <1>1, <1>2 DEF NoneOn, PinRight
<1>3. CASE \E i \in 1 .. n - 1 : LastOn(es, ops, n - 1, p, i) /\ AsLeft(entry, ops[i])
  <2>1. PICK i \in 1 .. n - 1 : LastOn(es, ops, n - 1, p, i) /\ AsLeft(entry, ops[i])
    BY <1>3
  <2>2. i \in 1 .. n /\ \A j \in i + 1 .. n : j \in i + 1 .. n - 1 \/ j = n
    OBVIOUS
  <2>3. LastOn(es, ops, n, p, i)
    BY <2>1, <2>2 DEF LastOn
  <2> QED
    BY <2>1, <2>2, <2>3 DEF PinRight
<1> QED
  BY <1>2, <1>3 DEF PinRight

(* After one operation more, each pin is as the last on it left it.         *)
LEMMA OneOp ==
  ASSUME NEW es, IsTable(es), NEW ops, IsOps(ops), NEW n \in 1 .. Len(ops),
         NEW a \in Apics, After(es, ops, n - 1, a)
  PROVE  /\ Done(a, OverridesOf(es), ops[n]) \in Apics
         /\ After(es, ops, n, Done(a, OverridesOf(es), ops[n]))
<1> DEFINE op == ops[n]
           p == PinSaid(es, op.irq)
           b == Done(a, OverridesOf(es), op)
           written == [a.redirection EXCEPT ![p] = PinWritten(a, op, p)]
<1>1. IsOp(op) /\ Len(ops) \in Nat
  BY DEF IsOps
<1>2. n \in Nat /\ n # 0 /\ (\A i \in 1 .. n : i \in 1 .. n - 1 \/ i = n) /\ n \in 1 .. n
      /\ \A i \in 1 .. n - 1 : i \in 1 .. n
  BY <1>1
<1>3. b = IF a.trapped THEN a
          ELSE IF Ends(es, op.irq) THEN Apic(a.redirection, TRUE)
          ELSE IF p \in Pins THEN Apic(written, a.trapped)
          ELSE a
  BY <1>1, DoneIs, Zenon
<1>4. a.redirection \in [Pins -> Entries] /\ a.trapped \in BOOLEAN
  BY ApicIs
<1>5. (a.trapped <=> EndedBy(es, ops, n - 1))
      /\ (~a.trapped => \A q \in Pins : PinRight(es, ops, n - 1, a.redirection[q], q))
  BY DEF After
<1>6. EndedBy(es, ops, n) <=> EndedBy(es, ops, n - 1) \/ Ends(es, op.irq)
  BY <1>2, Zenon DEF EndedBy
<1>7. op = ops[n] /\ p = PinSaid(es, ops[n].irq)
  OBVIOUS
<1> HIDE DEF b, p, op
<1>8. CASE a.trapped
  BY <1>3, <1>5, <1>6, <1>8, Zenon DEF After, b, op
<1>9. CASE ~a.trapped /\ Ends(es, op.irq)
  <2>1. b = Apic(a.redirection, TRUE)
    BY <1>3, <1>9
  <2>2. b.trapped
    BY <2>1, ApicFields
  <2>3. b \in Apics
    BY <1>4, <2>1 DEF Apics, Apic
  <2>4. After(es, ops, n, b)
    BY <1>6, <1>9, <2>2 DEF After
  <2> QED
    BY <2>3, <2>4 DEF b, op
<1>10. CASE ~a.trapped /\ ~Ends(es, op.irq) /\ p \in Pins
  <2>1. b = Apic(written, a.trapped)
    BY <1>3, <1>10
  <2>2. b.redirection = written /\ b.trapped = a.trapped
    BY <2>1, ApicFields
  <2>3. PinWritten(a, op, p) \in Entries
    BY <1>1, <1>10, WrittenIs
  <2>4. written \in [Pins -> Entries]
    BY <1>4, <2>3
  <2>5. written[p] = PinWritten(a, op, p) /\ \A q \in Pins : q # p => written[q] = a.redirection[q]
    BY <1>4, <1>10
  <2> HIDE DEF written
  <2>6. b \in Apics
    BY <1>4, <2>1, <2>4 DEF Apics, Apic
  <2>7. ASSUME NEW q \in Pins PROVE PinRight(es, ops, n, b.redirection[q], q)
    <3>1. CASE q = p
      <4>1. AsLeft(written[q], ops[n])
        BY <1>1, <1>7, <2>5, <3>1, WrittenLeft
      <4>2. LastOn(es, ops, n, q, n)
        <5>1. \A j \in n + 1 .. n : FALSE
          BY <1>2
        <5> QED
          BY <1>7, <3>1, <5>1 DEF LastOn
      <4> QED
        BY <1>2, <2>2, <4>1, <4>2 DEF PinRight
    <3>2. CASE q # p
      <4>1. PinRight(es, ops, n - 1, a.redirection[q], q)
        BY <1>5, <1>10
      <4>2. PinRight(es, ops, n, a.redirection[q], q)
        BY <1>2, <1>7, <3>2, <4>1, PinUntouched
      <4> QED
        BY <2>2, <2>5, <3>2, <4>2
    <3> QED
      BY <3>1, <3>2
  <2>8. After(es, ops, n, b)
    BY <1>5, <1>6, <1>10, <2>2, <2>7 DEF After
  <2> QED
    BY <2>6, <2>8 DEF b, op
<1>11. CASE ~a.trapped /\ ~Ends(es, op.irq) /\ p \notin Pins
  <2>1. b = a
    BY <1>3, <1>11
  <2>2. ASSUME NEW q \in Pins PROVE PinRight(es, ops, n, a.redirection[q], q)
    <3>1. PinRight(es, ops, n - 1, a.redirection[q], q) /\ q # p
      BY <1>5, <1>11
    <3> QED
      BY <1>2, <1>7, <3>1, PinUntouched
  <2>3. After(es, ops, n, a)
    BY <1>5, <1>6, <1>11, <2>2 DEF After
  <2> QED
    BY <2>1, <2>3 DEF b, op
<1> QED
  BY <1>8, <1>9, <1>10, <1>11

----------------------------------------------------------------------------
(* All operations, in their order.                                          *)
LEMMA AllAreDone ==
  ASSUME NEW es, IsTable(es), NEW ops, IsOps(ops)
  PROVE  AllDone(OverridesOf(es), ops) \in Apics
         /\ After(es, ops, Len(ops), AllDone(OverridesOf(es), ops))
<1> DEFINE n == Len(ops)
           Next1(k, x) == Done(x, OverridesOf(es), ops[k])
           Is(f) == f = [k \in 0 .. n |-> IF k = 0 THEN Reset ELSE Next1(k, f[k - 1])]
           apic == CHOOSE f : Is(f)
           OnTheWay(k) == {a \in Apics : After(es, ops, k, a)}
           step == [p \in (1 .. n) \X Apics |->
                      IF p[2] \in OnTheWay(p[1] - 1) THEN Next1(p[1], p[2]) ELSE Reset]
<1>1. AllDone(OverridesOf(es), ops) = apic[n]
  BY DEF AllDone
<1>2. n \in Nat /\ Reset \in Apics
  <2>1. Redirection(0, TRUE) \in Entries
    BY DEF Redirection, Entries
  <2>2. [pin \in Pins |-> MaskedEntry] \in [Pins -> Entries]
    BY <2>1 DEF MaskedEntry
  <2>3. Reset \in Apics
    BY <2>2 DEF Reset, Apic, Apics
  <2> QED
    BY <2>3 DEF IsOps
<1>3. Reset \in OnTheWay(0)
  <2>1. Reset.trapped = FALSE /\ Reset.redirection = [pin \in Pins |-> MaskedEntry]
    BY DEF Reset, Apic
  <2>2. ~EndedBy(es, ops, 0) /\ \A p \in Pins : NoneOn(es, ops, 0, p)
    BY DEF EndedBy, NoneOn
  <2>3. MaskedEntry.masked = TRUE
    BY DEF MaskedEntry, Redirection
  <2>4. \A p \in Pins : Reset.redirection[p] = MaskedEntry
    BY <2>1
  <2>5. \A p \in Pins : PinRight(es, ops, 0, Reset.redirection[p], p)
    BY <2>2, <2>3, <2>4, Zenon DEF PinRight
  <2>6. After(es, ops, 0, Reset)
    BY <2>1, <2>2, <2>5, Zenon DEF After
  <2> QED
    BY <1>2, <2>6
<1>4. \A k \in 1 .. n : \A x \in OnTheWay(k - 1) : Next1(k, x) \in OnTheWay(k)
  BY OneOp
<1>5. \A k \in 1 .. n, x \in Apics :
        step[<<k, x>>] = IF x \in OnTheWay(k - 1) THEN Next1(k, x) ELSE Reset
  OBVIOUS
<1> HIDE DEF n, OnTheWay
<1>6. \A k \in 1 .. n, x \in Apics : step[<<k, x>>] \in Apics
  <2>1. \A k \in 1 .. n, x \in Apics : x \in OnTheWay(k - 1) => Next1(k, x) \in Apics
    BY <1>4 DEF OnTheWay
  <2> HIDE DEF step
  <2> QED
    BY <1>2, <1>5, <2>1
<1> HIDE DEF step
<1>7. PICK f \in [0 .. n -> Apics] : Chain(f, n, Reset, step)
  BY <1>2, <1>6, Recursion
<1> DEFINE T == {k \in 0 .. n : f[k] \in OnTheWay(k)}
<1>8. \A k \in 0 .. n : k \in T
  <2>1. 0 \in T
    BY <1>2, <1>3, <1>7 DEF Chain
  <2>2. ASSUME NEW k \in 1 .. n, k - 1 \in T PROVE k \in T
    <3>1. f[k - 1] \in OnTheWay(k - 1) /\ f[k - 1] \in Apics /\ k \in 0 .. n
      BY <1>2, <1>7, <2>2
    <3>2. f[k] = step[<<k, f[k - 1]>>]
      BY <1>7 DEF Chain
    <3>3. f[k] = Next1(k, f[k - 1])
      BY <1>5, <3>1, <3>2
    <3>4. f[k] \in OnTheWay(k)
      BY <1>4, <3>1, <3>3
    <3> QED
      BY <3>1, <3>4
  <2> HIDE DEF T
  <2> QED
    BY <1>2, <2>1, <2>2, Upwards
<1>9. \A k \in 0 .. n : f[k] \in OnTheWay(k)
  BY <1>8
<1>10. Is(f)
  <2> DEFINE h == [k \in 0 .. n |-> IF k = 0 THEN Reset ELSE Next1(k, f[k - 1])]
  <2>4. f[0] = h[0]
    BY <1>2, <1>7 DEF Chain
  <2>5. ASSUME NEW k \in 1 .. n PROVE f[k] = h[k]
    <3>1. k - 1 \in 0 .. n /\ f[k - 1] \in Apics /\ k \in 0 .. n /\ k # 0
      BY <1>2, <1>7
    <3>2. f[k - 1] \in OnTheWay(k - 1)
      BY <1>9, <3>1
    <3>3. f[k] = step[<<k, f[k - 1]>>]
      BY <1>7 DEF Chain
    <3>4. f[k] = Next1(k, f[k - 1])
      BY <1>5, <3>1, <3>2, <3>3
    <3> QED
      BY <3>1, <3>4
  <2>1. \A k \in 0 .. n : f[k] = h[k]
    <3>1. \A k \in 0 .. n : k = 0 \/ k \in 1 .. n
      BY <1>2
    <3> HIDE DEF h
    <3> QED
      BY <2>4, <2>5, <3>1
  <2>2. h = [k \in 0 .. n |-> h[k]] /\ f = [k \in 0 .. n |-> f[k]]
    BY <1>7
  <2> HIDE DEF h
  <2>3. f = h
    BY <2>1, <2>2, SameFunction
  <2> QED
    BY <2>3 DEF h
<1>11. Is(apic)
  BY <1>10
<1> HIDE DEF apic
<1>12. apic[0] = Reset /\ \A k \in 1 .. n : apic[k] = Next1(k, apic[k - 1])
  <2>1. 0 \in 0 .. n /\ \A k \in 1 .. n : k \in 0 .. n /\ k # 0
    BY <1>2
  <2>2. \A k \in 0 .. n : apic[k] = IF k = 0 THEN Reset ELSE Next1(k, apic[k - 1])
    BY <1>11
  <2> QED
    BY <2>1, <2>2
<1> DEFINE U == {k \in 0 .. n : apic[k] \in OnTheWay(k)}
<1>13. 0 \in U
  BY <1>2, <1>3, <1>12
<1>14. ASSUME NEW k \in 1 .. n, k - 1 \in U PROVE k \in U
  <2>1. apic[k - 1] \in OnTheWay(k - 1) /\ k \in 0 .. n
    BY <1>2, <1>14
  <2>2. Next1(k, apic[k - 1]) \in OnTheWay(k)
    BY <1>4, <2>1
  <2> QED
    BY <1>12, <2>1, <2>2
<1> HIDE DEF U
<1>15. n \in U
  <2>1. \A k \in 0 .. n : k \in U
    BY <1>2, <1>13, <1>14, Upwards
  <2> QED
    BY <1>2, <2>1
<1>16. apic[n] \in OnTheWay(n)
  BY <1>15 DEF U
<1> QED
  BY <1>1, <1>16 DEF n, OnTheWay

(* Pins that are as the last operation on them left them route their        *)
(* lines: a line alone on its pin gets through exactly if it was enabled    *)
(* last.                                                                    *)
LEMMA LinesRouted ==
  ASSUME NEW es, NEW ops, IsOps(ops), NEW a, a.trapped \in BOOLEAN,
         After(es, ops, Len(ops), a)
  PROVE  Routed(es, ops, a)
<1> DEFINE n == Len(ops)
<1>1. DOMAIN ops = 1 .. n /\ n \in Nat
  BY DEF IsOps
<1>2. a.trapped <=> \E irq \in LinesOf(ops) : Ends(es, irq)
  <2>1. (\E irq \in LinesOf(ops) : Ends(es, irq)) <=> EndedBy(es, ops, n)
    BY <1>1 DEF LinesOf, EndedBy
  <2> QED
    BY <2>1 DEF After
<1>3. ASSUME ~a.trapped, NEW p \in Pins, NEW irq \in LinesOf(ops), PinSaid(es, irq) = p,
             Alone(es, ops, irq)
      PROVE  /\ a.redirection[p].masked <=> ~LetThrough(ops, irq)
             /\ LetThrough(ops, irq) => getIRQ(a.redirection[p].vector) = irq
  <2>1. PICK k \in 1 .. n : ops[k].irq = irq
    BY <1>1 DEF LinesOf
  <2>2. ~NoneOn(es, ops, n, p)
    BY <1>3, <2>1 DEF NoneOn
  <2>3. PinRight(es, ops, n, a.redirection[p], p)
    BY <1>3 DEF After
  <2>4. PICK i \in 1 .. n : LastOn(es, ops, n, p, i) /\ AsLeft(a.redirection[p], ops[i])
    BY <2>2, <2>3 DEF PinRight
  <2>5. ops[i].irq \in LinesOf(ops) /\ PinSaid(es, ops[i].irq) = p
    BY <1>1, <2>4 DEF LinesOf, LastOn
  <2>6. ops[i].irq = irq
    BY <1>3, <2>5 DEF Alone
  <2>7. ops[i].enable \in BOOLEAN
    BY DEF IsOps, IsOp
  <2>8. ops[i].enable => LetThrough(ops, irq)
    <3>1. \A j \in i + 1 .. n : ops[j].irq # irq
      BY <1>3, <2>4 DEF LastOn
    <3> QED
      BY <1>1, <2>6, <3>1 DEF LetThrough
  <2>9. LetThrough(ops, irq) => ops[i].enable
    <3>1. SUFFICES ASSUME LetThrough(ops, irq) PROVE ops[i].enable
      OBVIOUS
    <3>2. PICK j \in 1 .. n : ops[j].irq = irq /\ ops[j].enable
                              /\ \A m \in j + 1 .. n : ops[m].irq # irq
      BY <1>1, <3>1 DEF LetThrough
    <3>3. j \notin i + 1 .. n
      BY <1>3, <2>4, <3>2 DEF LastOn
    <3>4. i \notin j + 1 .. n
      BY <2>6, <3>2
    <3>5. i = j
      BY <1>1, <3>3, <3>4
    <3> QED
      BY <3>2, <3>5
  <2>10. ops[i].irq \in Int
    <3>1. \A w \in AByte : w \in Int
      BY SMT DEF AByte
    <3> QED
      BY <3>1 DEF IsOps, IsOp
  <2>11. ops[i].enable => getIRQ(a.redirection[p].vector) = irq
    <3>1. ops[i].enable => a.redirection[p].vector = ops[i].irq + 80
      BY <2>4 DEF AsLeft, BaseVector
    <3> QED
      BY <2>6, <2>10, <3>1 DEF getIRQ, BaseVector
  <2> QED
    BY <2>4, <2>8, <2>9, <2>11, Zenon DEF AsLeft
<1>4. ASSUME ~a.trapped, NEW p \in Pins, \A irq \in LinesOf(ops) : PinSaid(es, irq) # p
      PROVE  a.redirection[p].masked
  <2>1. \A i \in 1 .. n : ops[i].irq \in LinesOf(ops)
    BY <1>1 DEF LinesOf
  <2>2. \A i \in 1 .. n : ~LastOn(es, ops, n, p, i)
    BY <1>4, <2>1 DEF LastOn
  <2>3. PinRight(es, ops, n, a.redirection[p], p)
    BY <1>4 DEF After
  <2> QED
    BY <2>2, <2>3, Zenon DEF PinRight
<1> QED
  BY <1>2, <1>3, <1>4, Zenon DEF Routed

----------------------------------------------------------------------------
(* The bytes of an entry, and what is read from them.                       *)
(* The two parts of a joined sequence.                                      *)
LEMMA Joined ==
  ASSUME NEW S, NEW s \in Seq(S), NEW t \in Seq(S)
  PROVE  /\ s \o t \in Seq(S) /\ Len(s \o t) = Len(s) + Len(t)
         /\ \A j \in 1 .. Len(s) : (s \o t)[j] = s[j]
         /\ \A j \in 1 .. Len(t) : (s \o t)[Len(s) + j] = t[j]
OBVIOUS

(* A part of a sequence holds what was at its places.                       *)
LEMMA Part ==
  ASSUME NEW S, NEW s \in Seq(S), NEW a \in 1 .. Len(s), NEW l \in 1 .. Len(s) - a + 1
  PROVE  \A j \in 1 .. l : SubSeq(s, a, a + l - 1)[j] = s[a + j - 1]
OBVIOUS

(* Two bytes of a word make it again.                                       *)
LEMMA TwoBytes ==
  ASSUME NEW n \in Nat
  PROVE  Low(n) \in Nat /\ High(n) \in Nat /\ Low(n) + 256 * High(n) = n
<1> QED
  BY DEF Low, High

(* Known types are these numbers.                                           *)
LEMMA TypesDiffer ==
  ASSUME NEW e, e.type \in Types
  PROVE  e.type \in {0, 1, 2, 4}
BY TypesKnown DEF Types, TypesAre

(* The bytes of a known entry say its type and their number, and the fields *)
(* are read from where they were put.                                       *)
KnownBytes(e, b) ==
  /\ b \in Seq(Nat) /\ Len(b) = tableLength(e.type) /\ Len(b) \in 6 .. 12
  /\ b[1] = e.type /\ b[2] = Len(b)
  /\ e.type = ioApicType =>
       withBytes(b, 5) = e.address /\ withBytes(b, 9) = e.globalSystemInterruptBase
  /\ e.type = interruptSourceOverride =>
       b[4] = e.sourceIRQ /\ withBytes(b, 5) = e.globalInterrupt /\ b[9] = e.flags

(* Entries without an address or a line.                                    *)
LEMMA PlainBytes ==
  ASSUME NEW e, IsPlain(e)
  PROVE  KnownBytes(e, Bytes(e))
<1>1. CASE e.type = 0
  <2>1. Bytes(e) = <<0, 8, 0, 1, 1, 0, 0, 0>>
    BY <1>1 DEF Bytes, processorLocalApic
  <2>2. tableLength(e.type) = 8
    BY <1>1 DEF tableLength, processorLocalApic, ioApicType, interruptSourceOverride, localApicNmi
  <2> QED
    BY <1>1, <2>1, <2>2 DEF KnownBytes, ioApicType, interruptSourceOverride
<1>2. CASE e.type = 4
  <2>1. Bytes(e) = <<4, 6, 255, 0, 0, 1>>
    BY <1>2 DEF Bytes, processorLocalApic, ioApicType, interruptSourceOverride, localApicNmi
  <2>2. tableLength(e.type) = 6
    BY <1>2 DEF tableLength, processorLocalApic, ioApicType, interruptSourceOverride, localApicNmi
  <2> QED
    BY <1>2, <2>1, <2>2 DEF KnownBytes, ioApicType, interruptSourceOverride
<1> QED
  BY <1>1, <1>2, TypesKnown DEF IsPlain, TypesAre

(* Entries that say where an interrupt controller is.                       *)
LEMMA IoApicBytes ==
  ASSUME NEW e, IsIoApic(e)
  PROVE  KnownBytes(e, Bytes(e))
<1> DEFINE base == e.globalSystemInterruptBase
<1>1. e.type = 1 /\ e.address \in Nat /\ base \in Nat
  BY WordsAre DEF IsIoApic, ioApicType
<1>2. Bytes(e) = <<1, 12, 2, 0, Low(e.address), High(e.address), 0, 0, Low(base), High(base), 0, 0>>
  BY <1>1 DEF Bytes, processorLocalApic, ioApicType
<1>3. tableLength(e.type) = 12
  BY <1>1 DEF tableLength, processorLocalApic, ioApicType, interruptSourceOverride, localApicNmi
<1>4. Low(e.address) \in Nat /\ High(e.address) \in Nat
      /\ Low(e.address) + 256 * High(e.address) = e.address
  BY <1>1, TwoBytes
<1>5. Low(base) \in Nat /\ High(base) \in Nat /\ Low(base) + 256 * High(base) = base
  BY <1>1, TwoBytes
<1> QED
  BY <1>1, <1>2, <1>3, <1>4, <1>5 DEF KnownBytes, ioApicType, interruptSourceOverride, withBytes

(* Overrides of lines.                                                      *)
LEMMA OverrideBytes ==
  ASSUME NEW e, IsOverride(e)
  PROVE  KnownBytes(e, Bytes(e))
<1>1. e.type = 2 /\ e.globalInterrupt \in Nat
  BY WordsAre DEF IsOverride, interruptSourceOverride
<1>2. Bytes(e) = <<2, 10, 0, e.sourceIRQ, Low(e.globalInterrupt), High(e.globalInterrupt),
                   0, 0, e.flags, 0>>
  BY <1>1 DEF Bytes, processorLocalApic, ioApicType, interruptSourceOverride
<1>3. tableLength(e.type) = 10
  BY <1>1 DEF tableLength, processorLocalApic, ioApicType, interruptSourceOverride, localApicNmi
<1>4. Low(e.globalInterrupt) \in Nat /\ High(e.globalInterrupt) \in Nat
      /\ Low(e.globalInterrupt) + 256 * High(e.globalInterrupt) = e.globalInterrupt
  BY <1>1, TwoBytes
<1>5. e.sourceIRQ \in Nat /\ e.flags \in Nat
  <2>1. \A w \in AByte : w \in Nat
    BY SMT DEF AByte
  <2> QED
    BY <2>1 DEF IsOverride
<1> QED
  BY <1>1, <1>2, <1>3, <1>4, <1>5 DEF KnownBytes, ioApicType, interruptSourceOverride, withBytes

(* All entries of a known type.                                             *)
LEMMA KnownEntryBytes ==
  ASSUME NEW e, IsEntry(e), e.type \in Types
  PROVE  KnownBytes(e, Bytes(e))
<1>1. ~IsOther(e)
  BY DEF IsOther
<1> QED
  BY <1>1, EntryForms, PlainBytes, IoApicBytes, OverrideBytes, Zenon

(* Entries of other types say at least their type and length.               *)
LEMMA OtherBytes ==
  ASSUME NEW e, IsOther(e)
  PROVE  Bytes(e) \in Seq(Nat) /\ Bytes(e)[1] = e.type /\ Len(Bytes(e)) >= 2
<1>1. e.type \in Nat /\ e.tail \in Seq(Nat) /\ Len(e.tail) \in Nat
  <2>1. \A w \in AByte : w \in Nat
    BY SMT DEF AByte
  <2>2. e.type \in AByte /\ e.tail \in Seq(AByte)
    BY DEF IsOther
  <2>3. e.tail \in Seq(Nat)
    BY <2>1, <2>2
  <2> QED
    BY <2>1, <2>2, <2>3
<1>2. Bytes(e) = <<e.type, Len(e.tail) + 2>> \o e.tail
  BY DEF Bytes, IsOther, Types
<1> DEFINE head == <<e.type, Len(e.tail) + 2>>
<1>3. head \in Seq(Nat) /\ Len(head) = 2 /\ head[1] = e.type
  BY <1>1
<1> HIDE DEF head
<1>4. PICK h \in Seq(Nat) : h = head
  BY <1>3
<1>5. PICK t \in Seq(Nat) : t = e.tail
  BY <1>1
<1>6. /\ h \o t \in Seq(Nat) /\ Len(h \o t) = Len(h) + Len(t)
      /\ \A j \in 1 .. Len(h) : (h \o t)[j] = h[j]
  BY Joined
<1>7. Bytes(e) = h \o t
  BY <1>2, <1>4, <1>5 DEF head
<1>8. Len(h) = 2 /\ h[1] = e.type /\ Len(t) \in Nat
  BY <1>3, <1>4
<1>9. (h \o t)[1] = e.type /\ Len(h \o t) >= 2
  BY <1>6, <1>8
<1> QED
  BY <1>6, <1>7, <1>9

(* An entry of a known type is decoded as it was put (IOAPIC.swift 32-90).  *)
LEMMA ReadAsPut ==
  ASSUME NEW e, IsEntry(e), e.type \in Types, NEW b, KnownBytes(e, b), NEW table,
         \A j \in 1 .. Len(b) : table[j] = b[j]
  PROVE  decodeTable(table) = e
<1>1. /\ table[1] = b[1] /\ table[4] = b[4] /\ table[5] = b[5] /\ table[6] = b[6]
      /\ Len(b) >= 9 => table[9] = b[9]
      /\ Len(b) >= 10 => table[10] = b[10]
  BY SMTT(60) DEF KnownBytes
<1>2. table[1] = e.type /\ withBytes(table, 5) = withBytes(b, 5)
  BY <1>1 DEF KnownBytes, withBytes
<1>3. CASE IsPlain(e)
  <2>1. e.type # ioApicType /\ e.type # interruptSourceOverride
    BY <1>3, TypesKnown DEF IsPlain, TypesAre
  <2> QED
    BY <1>2, <1>3, <2>1 DEF decodeTable, IsPlain
<1>4. CASE IsIoApic(e)
  <2>1. withBytes(b, 5) = e.address /\ withBytes(b, 9) = e.globalSystemInterruptBase
    BY <1>4 DEF IsIoApic, KnownBytes
  <2>2. Len(b) = 12
    <3>1. e.type = 1
      BY <1>4 DEF IsIoApic, ioApicType
    <3>2. tableLength(e.type) = 12
      BY <3>1 DEF tableLength, processorLocalApic, ioApicType, interruptSourceOverride,
                  localApicNmi
    <3> QED
      BY <3>2 DEF KnownBytes
  <2>3. withBytes(table, 9) = e.globalSystemInterruptBase
    BY <1>1, <2>1, <2>2 DEF withBytes
  <2> QED
    BY <1>2, <1>4, <2>1, <2>3 DEF decodeTable, IsIoApic
<1>5. CASE IsOverride(e)
  <2>1. e.type = interruptSourceOverride /\ e.type # ioApicType /\ Len(b) = 10
    BY <1>5, TypesKnown DEF IsOverride, KnownBytes, TypesAre, tableLength
  <2>2. b[4] = e.sourceIRQ /\ withBytes(b, 5) = e.globalInterrupt /\ b[9] = e.flags
    BY <2>1 DEF KnownBytes
  <2>3. table[9] = b[9] /\ table[4] = b[4]
    BY <1>1, <2>1
  <2> QED
    BY <1>2, <1>5, <2>1, <2>2, <2>3, Zenon DEF decodeTable, IsOverride
<1>6. ~IsOther(e)
  BY DEF IsOther
<1> QED
  BY <1>3, <1>4, <1>5, <1>6, EntryForms, Zenon

----------------------------------------------------------------------------
(* The bytes of the last k entries.                                         *)
IsChain(es, chain) ==
  /\ chain \in [0 .. Len(es) -> Seq(Nat)] /\ chain[0] = <<>>
  /\ \A k \in 1 .. Len(es) : chain[k] = Bytes(es[Len(es) - k + 1]) \o chain[k - 1]

(* Every entry has a type, a length, and at least these two bytes.          *)
LEMMA EntryBytes ==
  ASSUME NEW e, IsEntry(e)
  PROVE  Bytes(e) \in Seq(Nat) /\ Len(Bytes(e)) \in Nat /\ Len(Bytes(e)) >= 2 /\ Bytes(e)[1] = e.type
<1>1. CASE e.type \in Types
  <2>1. KnownBytes(e, Bytes(e))
    BY <1>1, KnownEntryBytes
  <2> QED
    BY <2>1 DEF KnownBytes
<1>2. CASE e.type \notin Types
  <2>1. ~IsPlain(e) /\ ~IsIoApic(e) /\ ~IsOverride(e)
    BY <1>2 DEF IsPlain, IsIoApic, IsOverride, Types
  <2>2. IsOther(e)
    BY <2>1, EntryForms
  <2> QED
    BY <2>2, OtherBytes
<1> QED
  BY <1>1, <1>2

(* The bytes of a table are the last of such a chain.                       *)
LEMMA TableIs ==
  ASSUME NEW es, IsTable(es)
  PROVE  \E chain : IsChain(es, chain) /\ TableBytes(es) = chain[Len(es)]
<1> DEFINE n == Len(es)
           S == Seq(Nat)
           Next1(k, x) == Bytes(es[n - k + 1]) \o x
           Is(f) == f = [k \in 0 .. n |-> IF k = 0 THEN <<>> ELSE Next1(k, f[k - 1])]
           bytes == CHOOSE f : Is(f)
           step == [p \in (1 .. n) \X S |-> Next1(p[1], p[2])]
<1>1. TableBytes(es) = bytes[n]
  BY DEF TableBytes
<1>2. n \in Nat /\ <<>> \in S
  BY DEF IsTable
<1>3. \A k \in 1 .. n, x \in S : step[<<k, x>>] = Next1(k, x) /\ Next1(k, x) \in S
  <2>1. ASSUME NEW k \in 1 .. n, NEW x \in S PROVE Next1(k, x) \in S
    <3>1. IsEntry(es[n - k + 1])
      BY <1>2 DEF IsTable
    <3>2. Bytes(es[n - k + 1]) \in S
      BY <3>1, EntryBytes
    <3> QED
      BY <3>2, Joined
  <2> QED
    BY <2>1
<1> HIDE DEF n, step, S
<1>4. \A k \in 1 .. n, x \in S : step[<<k, x>>] \in S
  BY <1>3
<1>5. PICK f \in [0 .. n -> S] : Chain(f, n, <<>>, step)
  BY <1>2, <1>4, Recursion
<1>6. \A k \in 1 .. n : f[k] = Next1(k, f[k - 1])
  <2> SUFFICES ASSUME NEW k \in 1 .. n PROVE f[k] = Next1(k, f[k - 1])
    OBVIOUS
  <2>1. k - 1 \in 0 .. n /\ f[k - 1] \in S
    BY <1>2, <1>5
  <2> QED
    BY <1>3, <1>5, <2>1 DEF Chain
<1>7. Is(f)
  <2> DEFINE h == [k \in 0 .. n |-> IF k = 0 THEN <<>> ELSE Next1(k, f[k - 1])]
  <2>1. \A k \in 0 .. n : f[k] = h[k]
    <3>1. \A k \in 0 .. n : k = 0 \/ k \in 1 .. n
      BY <1>2
    <3>2. f[0] = h[0]
      BY <1>2, <1>5 DEF Chain
    <3>3. ASSUME NEW k \in 1 .. n PROVE f[k] = h[k]
      <4>1. k \in 0 .. n /\ k # 0
        BY <1>2
      <4> QED
        BY <1>6, <4>1
    <3> HIDE DEF h
    <3> QED
      BY <3>1, <3>2, <3>3
  <2>2. h = [k \in 0 .. n |-> h[k]] /\ f = [k \in 0 .. n |-> f[k]]
    BY <1>5
  <2> HIDE DEF h
  <2>3. f = h
    BY <2>1, <2>2, SameFunction
  <2> QED
    BY <2>3 DEF h
<1>8. Is(bytes)
  BY <1>7
<1> HIDE DEF bytes
<1>9. /\ bytes = [k \in 0 .. n |-> bytes[k]] /\ bytes[0] = <<>>
      /\ \A k \in 1 .. n : bytes[k] = Next1(k, bytes[k - 1])
  <2>1. 0 \in 0 .. n /\ \A k \in 1 .. n : k \in 0 .. n /\ k # 0
    BY <1>2
  <2>2. \A k \in 0 .. n : bytes[k] = IF k = 0 THEN <<>> ELSE Next1(k, bytes[k - 1])
    BY <1>8
  <2>3. bytes = [k \in 0 .. n |-> bytes[k]]
    <3> DEFINE h == [k \in 0 .. n |-> IF k = 0 THEN <<>> ELSE Next1(k, bytes[k - 1])]
    <3>1. bytes = h
      BY <1>8
    <3>2. h = [k \in 0 .. n |-> h[k]]
      OBVIOUS
    <3> HIDE DEF h
    <3> QED
      BY <3>1, <3>2
  <2> QED
    BY <2>1, <2>2, <2>3
<1> DEFINE T == {k \in 0 .. n : bytes[k] \in S}
<1>10. 0 \in T
  BY <1>2, <1>9
<1>11. ASSUME NEW k \in 1 .. n, k - 1 \in T PROVE k \in T
  <2>1. bytes[k - 1] \in S /\ k \in 0 .. n
    BY <1>2, <1>11
  <2>2. Next1(k, bytes[k - 1]) \in S
    BY <1>3, <2>1
  <2> QED
    BY <1>9, <2>1, <2>2
<1> HIDE DEF T
<1>12. \A k \in 0 .. n : k \in T
  BY <1>2, <1>10, <1>11, Upwards
<1>13. bytes \in [0 .. n -> S]
  <2>1. \A k \in 0 .. n : bytes[k] \in S
    BY <1>12 DEF T
  <2> QED
    BY <1>9, <2>1
<1>14. IsChain(es, bytes)
  BY <1>9, <1>13 DEF IsChain, n, S
<1> QED
  BY <1>1, <1>14 DEF n

(* The bytes b are the last of all.                                         *)
EndsWith(all, b) ==
  Len(b) <= Len(all) /\ \A j \in 1 .. Len(b) : all[Len(all) - Len(b) + j] = b[j]

(* Bytes that end in a and then b end in b.                                 *)
LEMMA EndsInPart ==
  ASSUME NEW all \in Seq(Nat), NEW a \in Seq(Nat), NEW b \in Seq(Nat),
         EndsWith(all, a \o b)
  PROVE  EndsWith(all, b) /\ EndsWith(all, a \o b)
<1>1. Len(a \o b) = Len(a) + Len(b) /\ \A j \in 1 .. Len(b) : (a \o b)[Len(a) + j] = b[j]
  BY Joined
<1>2. Len(a) \in Nat /\ Len(b) \in Nat /\ Len(all) \in Nat
  OBVIOUS
<1>3. Len(a) + Len(b) <= Len(all)
  BY <1>1 DEF EndsWith
<1>4. ASSUME NEW j \in 1 .. Len(b) PROVE all[Len(all) - Len(b) + j] = b[j]
  <2>1. Len(a) + j \in 1 .. Len(a) + Len(b)
    BY <1>2
  <2>2. all[Len(all) - (Len(a) + Len(b)) + (Len(a) + j)] = (a \o b)[Len(a) + j]
    BY <1>1, <2>1 DEF EndsWith
  <2>3. Len(all) - (Len(a) + Len(b)) + (Len(a) + j) = Len(all) - Len(b) + j
    BY <1>2
  <2> QED
    BY <1>1, <2>2, <2>3
<1> QED
  BY <1>2, <1>3, <1>4, SMTT(60) DEF EndsWith

(* A table ends with the bytes of its last k entries.                       *)
LEMMA ChainEnds ==
  ASSUME NEW es, IsTable(es), NEW chain, IsChain(es, chain)
  PROVE  \A k \in 0 .. Len(es) : EndsWith(chain[Len(es)], chain[k])
<1> DEFINE n == Len(es)
           T == {m \in 0 .. n : EndsWith(chain[n], chain[n - m])}
<1>1. n \in Nat /\ \A k \in 0 .. n : chain[k] \in Seq(Nat)
  BY DEF IsTable, IsChain
<1>2. 0 \in T
  <2>1. 0 \in 0 .. n /\ n - 0 = n /\ n \in 0 .. n
    BY <1>1
  <2>2. chain[n] \in Seq(Nat)
    BY <1>1, <2>1
  <2>3. EndsWith(chain[n], chain[n])
    BY <2>2 DEF EndsWith
  <2> QED
    BY <2>1, <2>3
<1>3. ASSUME NEW m \in 1 .. n, m - 1 \in T PROVE m \in T
  <2>1. PICK q \in 1 .. n : q = n - m + 1
    <3>1. n \in Nat /\ m \in 1 .. n
      BY <1>1
    <3> HIDE DEF n, T
    <3> QED
      BY <3>1
  <2>2. n - (m - 1) = q /\ n - m = q - 1 /\ q - 1 \in 0 .. n /\ m \in 0 .. n
    BY <1>1, <2>1
  <2>3. EndsWith(chain[n], chain[q])
    BY <1>3, <2>2
  <2>4. chain[q] = Bytes(es[n - q + 1]) \o chain[q - 1]
    BY DEF IsChain
  <2>5. IsEntry(es[n - q + 1])
    BY <1>1 DEF IsTable
  <2>6. Bytes(es[n - q + 1]) \in Seq(Nat)
    BY <2>5, EntryBytes
  <2>7. chain[n] \in Seq(Nat) /\ chain[q - 1] \in Seq(Nat)
    BY <1>1, <2>2
  <2>8. EndsWith(chain[n], chain[q - 1])
    BY <2>3, <2>4, <2>6, <2>7, EndsInPart
  <2> QED
    BY <2>2, <2>8
<1> HIDE DEF T
<1>4. \A m \in 0 .. n : m \in T
  BY <1>1, <1>2, <1>3, Upwards
<1>5. ASSUME NEW k \in 0 .. n PROVE EndsWith(chain[n], chain[k])
  <2>1. n - k \in 0 .. n /\ n - (n - k) = k
    BY <1>1
  <2>2. n - k \in T
    BY <1>4, <2>1
  <2> QED
    BY <2>1, <2>2 DEF T
<1> QED
  BY <1>5

----------------------------------------------------------------------------
(* Decoding ends: every entry that fits begins behind the one before.       *)
(* Decoding from each place of the bytes.                                   *)
Read1(bytes, at) == decodeTable(SubSeq(bytes, at, at + bytes[at + 1] - 1))
AllRead(bytes) == {Read1(bytes, at) : at \in 1 .. Len(bytes)}
Results(bytes) == [fatal : BOOLEAN, entries : Seq(AllRead(bytes))]
DecodedFrom(bytes, f, at) ==
  IF at > Len(bytes) THEN Decoded(FALSE, <<>>)
  ELSE IF ~Fits(bytes, at) THEN Decoded(TRUE, <<>>)
  ELSE Before(bytes, at, f[at + bytes[at + 1]])
IsDecoding(bytes, f) ==
  /\ f \in [1 .. Len(bytes) + 1 -> Results(bytes)]
  /\ \A at \in 1 .. Len(bytes) + 1 : f[at] = DecodedFrom(bytes, f, at)

(* An entry that fits ends behind where it starts, and not behind the       *)
(* table.                                                                   *)
LEMMA FitsNext ==
  ASSUME NEW bytes \in Seq(Nat), NEW at \in 1 .. Len(bytes), Fits(bytes, at)
  PROVE  at + bytes[at + 1] \in at + 1 .. Len(bytes) + 1
<1>1. Len(bytes) \in Nat
  OBVIOUS
<1>2. PICK l \in 1 .. Len(bytes) - at + 1 : l = bytes[at + 1]
  BY DEF Fits
<1> QED
  BY <1>1, <1>2

(* Putting an entry before what was decoded is a result again.              *)
LEMMA OneResult ==
  ASSUME NEW bytes \in Seq(Nat), NEW at \in 1 .. Len(bytes), NEW rest \in Results(bytes)
  PROVE  Before(bytes, at, rest) \in Results(bytes)
<1>1. Read1(bytes, at) \in AllRead(bytes)
  BY DEF AllRead
<1>2. rest.fatal \in BOOLEAN /\ rest.entries \in Seq(AllRead(bytes))
  BY DEF Results
<1>3. PICK x \in AllRead(bytes) : x = Read1(bytes, at)
  BY <1>1
<1>4. PICK s \in Seq(AllRead(bytes)) : s = rest.entries
  BY <1>2
<1>5. <<x>> \in Seq(AllRead(bytes))
  OBVIOUS
<1>6. <<x>> \o s \in Seq(AllRead(bytes))
  BY <1>5, Joined
<1>7. Before(bytes, at, rest) = Decoded(rest.fatal, <<x>> \o s)
  BY <1>3, <1>4 DEF Before, Read1
<1> QED
  BY <1>2, <1>6, <1>7 DEF Decoded, Results

(* So is nothing.                                                           *)
LEMMA Starts ==
  ASSUME NEW bytes
  PROVE  \A b \in BOOLEAN : Decoded(b, <<>>) \in Results(bytes)
<1>1. <<>> \in Seq(AllRead(bytes))
  OBVIOUS
<1> QED
  BY <1>1 DEF Decoded, Results

(* There is a decoding of any bytes: from the end backwards, each place     *)
(* needs only places behind it.                                             *)
LEMMA DecodingExists ==
  ASSUME NEW bytes \in Seq(Nat)
  PROVE  \E f : IsDecoding(bytes, f)
<1> DEFINE n == Len(bytes)
           S == Results(bytes)
           LastOnes(k) == n + 1 - k .. n + 1
           Part1(f, k) == f \in [LastOnes(k) -> S] /\ \A at \in LastOnes(k) : f[at] = DecodedFrom(bytes, f, at)
           T == {k \in 0 .. n : \E f : Part1(f, k)}
<1>1. n \in Nat
  OBVIOUS
<1>2. 0 \in T
  <2>1. LastOnes(0) = {n + 1}
    BY <1>1
  <2>2. Decoded(FALSE, <<>>) \in S
    BY Starts
  <2> DEFINE f == [at \in LastOnes(0) |-> Decoded(FALSE, <<>>)]
  <2>3. f \in [LastOnes(0) -> S]
    BY <2>2
  <2>4. \A at \in LastOnes(0) : at > n
    BY <1>1, <2>1
  <2>5. \A at \in LastOnes(0) : f[at] = Decoded(FALSE, <<>>)
    OBVIOUS
  <2>6. \A at \in LastOnes(0) : DecodedFrom(bytes, f, at) = Decoded(FALSE, <<>>)
    BY <2>4 DEF DecodedFrom
  <2> HIDE DEF f
  <2>7. Part1(f, 0)
    BY <2>3, <2>5, <2>6
  <2> HIDE DEF Part1
  <2> QED
    BY <1>1, <2>7
<1>3. ASSUME NEW k \in 1 .. n, k - 1 \in T PROVE k \in T
  <2>1. PICK f : Part1(f, k - 1)
    BY <1>3
  <2>2. PICK new \in 1 .. n : new = n + 1 - k
    <3> HIDE DEF n, T, Part1
    <3> QED
      BY <1>1
  <2>3. LastOnes(k) = LastOnes(k - 1) \union {new} /\ new \notin LastOnes(k - 1) /\ new \in LastOnes(k)
        /\ LastOnes(k - 1) = new + 1 .. n + 1
    BY <1>1, <2>2
  <2> DEFINE value == DecodedFrom(bytes, f, new)
             g == [at \in LastOnes(k) |-> IF at = new THEN value ELSE f[at]]
  <2>4. Fits(bytes, new) => new + bytes[new + 1] \in LastOnes(k - 1)
    BY <2>3, FitsNext
  <2>5. value \in S
    <3>1. CASE Fits(bytes, new)
      <4>1. f[new + bytes[new + 1]] \in S
        BY <2>1, <2>4, <3>1
      <4>2. Before(bytes, new, f[new + bytes[new + 1]]) \in S
        BY <4>1, OneResult
      <4>3. ~(new > n)
        BY <1>1, <2>2
      <4> QED
        BY <3>1, <4>2, <4>3 DEF DecodedFrom
    <3>2. CASE ~Fits(bytes, new)
      <4>1. ~(new > n)
        BY <1>1, <2>2
      <4>2. value = Decoded(TRUE, <<>>)
        BY <3>2, <4>1 DEF DecodedFrom
      <4> QED
        BY <4>2, Starts
    <3> QED
      BY <3>1, <3>2
  <2> HIDE DEF value
  <2>6. g \in [LastOnes(k) -> S] /\ g[new] = value /\ \A at \in LastOnes(k - 1) : g[at] = f[at]
    <3>1. \A at \in LastOnes(k - 1) : f[at] \in S
      BY <2>1
    <3> HIDE DEF LastOnes, S
    <3> QED
      BY <2>3, <2>5, <3>1
  <2> HIDE DEF g
  <2>7. DecodedFrom(bytes, g, new) = value
    <3>1. Fits(bytes, new) => g[new + bytes[new + 1]] = f[new + bytes[new + 1]]
      BY <2>4, <2>6
    <3> QED
      BY <3>1, Zenon DEF DecodedFrom, value
  <2>8. ASSUME NEW at \in LastOnes(k - 1)
        PROVE  g[at] = DecodedFrom(bytes, g, at)
    <3>1. f[at] = DecodedFrom(bytes, f, at)
      BY <2>1
    <3>2. at \in new + 1 .. n + 1
      BY <2>3
    <3>3. ~(at > n) /\ Fits(bytes, at) => at + bytes[at + 1] \in LastOnes(k - 1)
      <4>1. SUFFICES ASSUME ~(at > n), Fits(bytes, at)
                     PROVE  at + bytes[at + 1] \in new + 1 .. n + 1
        BY <2>3
      <4>2. at \in 1 .. n
        BY <1>1, <3>2, <4>1
      <4>3. at + bytes[at + 1] \in at + 1 .. n + 1
        BY <4>1, <4>2, FitsNext
      <4> HIDE DEF n
      <4> QED
        BY <1>1, <3>2, <4>3
    <3>4. ~(at > n) /\ Fits(bytes, at) => g[at + bytes[at + 1]] = f[at + bytes[at + 1]]
      BY <2>6, <3>3
    <3>5. DecodedFrom(bytes, g, at) = DecodedFrom(bytes, f, at)
      BY <3>4, Zenon DEF DecodedFrom
    <3> QED
      BY <2>6, <3>1, <3>5
  <2>9. Part1(g, k)
    <3>1. \A at \in LastOnes(k) : at = new \/ at \in LastOnes(k - 1)
      BY <2>3
    <3> HIDE DEF LastOnes, S
    <3> QED
      BY <2>6, <2>7, <2>8, <3>1
  <2> HIDE DEF Part1
  <2>10. k \in 0 .. n
    BY <1>1
  <2> QED
    BY <2>9, <2>10
<1> HIDE DEF T
<1>4. n \in T
  <2>1. \A k \in 0 .. n : k \in T
    BY <1>1, <1>2, <1>3, Upwards
  <2> QED
    BY <1>1, <2>1
<1>5. PICK f : Part1(f, n)
  BY <1>4 DEF T
<1>6. LastOnes(n) = 1 .. n + 1
  BY <1>1
<1>7. IsDecoding(bytes, f)
  BY <1>5, <1>6 DEF IsDecoding
<1> QED
  BY <1>7

(* And the one the definition chooses is such a decoding.                   *)
LEMMA DecodingIs ==
  ASSUME NEW bytes \in Seq(Nat)
  PROVE  \E f : IsDecoding(bytes, f) /\ decodeEntries(bytes) = f[1]
<1> DEFINE Is(f) == f = [at \in 1 .. Len(bytes) + 1 |-> DecodedFrom(bytes, f, at)]
           decode == CHOOSE f : Is(f)
<1>1. decodeEntries(bytes) = decode[1]
  BY DEF decodeEntries, DecodedFrom
<1>2. PICK f : IsDecoding(bytes, f)
  BY DecodingExists
<1>3. Is(f)
  <2> DEFINE h == [at \in 1 .. Len(bytes) + 1 |-> DecodedFrom(bytes, f, at)]
  <2>1. \A at \in 1 .. Len(bytes) + 1 : f[at] = h[at]
    BY <1>2 DEF IsDecoding
  <2>2. h = [at \in 1 .. Len(bytes) + 1 |-> h[at]]
        /\ f = [at \in 1 .. Len(bytes) + 1 |-> f[at]]
    BY <1>2 DEF IsDecoding
  <2> HIDE DEF h
  <2>3. f = h
    BY <2>1, <2>2, SameFunction
  <2> QED
    BY <2>3 DEF h
<1>4. Is(decode)
  BY <1>3
<1> HIDE DEF decode
<1>5. \A at \in 1 .. Len(bytes) + 1 : decode[at] = DecodedFrom(bytes, decode, at)
  BY <1>4
<1> DEFINE n == Len(bytes)
           T == {k \in 0 .. n : \A at \in n + 1 - k .. n + 1 : decode[at] \in Results(bytes)}
<1>6. n \in Nat
  OBVIOUS
<1>7. 0 \in T
  <2>1. \A at \in n + 1 - 0 .. n + 1 : at \in 1 .. n + 1 /\ at > n
    BY <1>6
  <2>2. \A at \in n + 1 - 0 .. n + 1 : decode[at] = Decoded(FALSE, <<>>)
    BY <1>5, <2>1 DEF DecodedFrom
  <2>3. Decoded(FALSE, <<>>) \in Results(bytes)
    BY Starts
  <2>4. \A at \in n + 1 - 0 .. n + 1 : decode[at] \in Results(bytes)
    BY <2>2, <2>3, Zenon
  <2>5. 0 \in 0 .. n
    BY <1>6
  <2> HIDE DEF n
  <2> QED
    BY <2>4, <2>5, Zenon
<1>8. ASSUME NEW k \in 1 .. n, k - 1 \in T PROVE k \in T
  <2>1. PICK new \in 1 .. n : new = n + 1 - k
    <3> HIDE DEF n, T
    <3> QED
      BY <1>6
  <2>2. \A at \in new + 1 .. n + 1 : decode[at] \in Results(bytes)
    BY <1>6, <1>8, <2>1
  <2>3. decode[new] = DecodedFrom(bytes, decode, new) /\ ~(new > n)
    BY <1>5, <1>6, <2>1
  <2>4. decode[new] \in Results(bytes)
    <3>1. CASE Fits(bytes, new)
      <4>1. decode[new + bytes[new + 1]] \in Results(bytes)
        BY <2>2, <3>1, FitsNext
      <4>2. Before(bytes, new, decode[new + bytes[new + 1]]) \in Results(bytes)
        BY <4>1, OneResult
      <4> QED
        BY <2>3, <3>1, <4>2 DEF DecodedFrom
    <3>2. CASE ~Fits(bytes, new)
      <4>1. decode[new] = Decoded(TRUE, <<>>)
        BY <2>3, <3>2 DEF DecodedFrom
      <4> QED
        BY <4>1, Starts
    <3> QED
      BY <3>1, <3>2
  <2>5. \A at \in n + 1 - k .. n + 1 : at = new \/ at \in new + 1 .. n + 1
    BY <1>6, <2>1
  <2>6. k \in 0 .. n
    BY <1>6
  <2> QED
    BY <2>2, <2>4, <2>5, <2>6
<1>9. n \in T
  <2> HIDE DEF T
  <2>1. \A k \in 0 .. n : k \in T
    BY <1>6, <1>7, <1>8, Upwards
  <2> QED
    BY <1>6, <2>1
<1>10. IsDecoding(bytes, decode)
  <2>1. \A at \in 1 .. Len(bytes) + 1 : decode[at] \in Results(bytes)
    BY <1>6, <1>9
  <2>2. decode = [at \in 1 .. Len(bytes) + 1 |-> decode[at]]
    <3> DEFINE h == [at \in 1 .. Len(bytes) + 1 |-> DecodedFrom(bytes, decode, at)]
    <3>1. decode = h
      BY <1>4
    <3>2. h = [at \in 1 .. Len(bytes) + 1 |-> h[at]]
      OBVIOUS
    <3> HIDE DEF h
    <3> QED
      BY <3>1, <3>2
  <2>3. decode \in [1 .. Len(bytes) + 1 -> Results(bytes)]
    BY <2>1, <2>2
  <2> QED
    BY <1>5, <2>3 DEF IsDecoding
<1> QED
  BY <1>1, <1>10

----------------------------------------------------------------------------
(* Decoded from where the last k entries start.                             *)
Unknown(es, k) == \E i \in Len(es) - k + 1 .. Len(es) : es[i].type \notin Types
SameTail(es, k, entries) ==
  Len(entries) = k /\ \A j \in 1 .. k : entries[j] = es[Len(es) - k + j]
DecodedTail(es, k, d) ==
  (d.fatal <=> Unknown(es, k)) /\ (~d.fatal => SameTail(es, k, d.entries))

(* At a place of all there are the bytes a, with b behind them to the end.  *)
AtPlace(all, a, b, at) ==
  /\ at \in 1 .. Len(all) /\ at + Len(a) = Len(all) - Len(b) + 1
  /\ Len(a) <= Len(all) - at + 1
  /\ \A j \in 1 .. Len(a) : all[at + j - 1] = a[j]

(* The first of the last entries is at that place.                          *)
LEMMA EntryAt ==
  ASSUME NEW all \in Seq(Nat), NEW a \in Seq(Nat), NEW b \in Seq(Nat), Len(a) >= 2,
         EndsWith(all, a \o b), NEW at, at = Len(all) - Len(a \o b) + 1
  PROVE  AtPlace(all, a, b, at)
<1>1. /\ Len(a \o b) = Len(a) + Len(b) /\ \A j \in 1 .. Len(a) : (a \o b)[j] = a[j]
      /\ Len(a) \in Nat /\ Len(b) \in Nat /\ Len(all) \in Nat
  BY Joined
<1>2. Len(a) + Len(b) <= Len(all)
  BY <1>1 DEF EndsWith
<1>3. at \in 1 .. Len(all) /\ at + Len(a) = Len(all) - Len(b) + 1 /\ Len(a) <= Len(all) - at + 1
  BY <1>1, <1>2, SMTT(60)
<1>4. ASSUME NEW j \in 1 .. Len(a) PROVE all[at + j - 1] = a[j]
  <2>1. j \in 1 .. Len(a \o b)
    BY <1>1
  <2>2. all[Len(all) - Len(a \o b) + j] = (a \o b)[j]
    BY <2>1 DEF EndsWith
  <2>3. Len(all) - Len(a \o b) + j = at + j - 1
    BY <1>1
  <2> QED
    BY <1>1, <2>2, <2>3
<1> QED
  BY <1>3, <1>4 DEF AtPlace

(* A known entry before k - 1 that were decoded makes k.                    *)
LEMMA Preceded ==
  ASSUME NEW es, IsTable(es), NEW k \in 1 .. Len(es), NEW rest,
         DecodedTail(es, k - 1, rest), NEW S, rest.entries \in Seq(S), rest.fatal \in BOOLEAN,
         es[Len(es) - k + 1].type \in Types, NEW x \in S, x = es[Len(es) - k + 1]
  PROVE  DecodedTail(es, k, Decoded(rest.fatal, <<x>> \o rest.entries))
<1> DEFINE n == Len(es)
           d == Decoded(rest.fatal, <<x>> \o rest.entries)
<1>1. n \in Nat /\ k \in 1 .. n
  BY DEF IsTable
<1>2. d.fatal = rest.fatal /\ d.entries = <<x>> \o rest.entries
  BY DEF Decoded
<1>3. PICK first \in 1 .. n : first = n - k + 1
  <2> HIDE DEF n
  <2> QED
    BY <1>1
<1>4. \A i \in n - k + 1 .. n : i = first \/ i \in n - (k - 1) + 1 .. n
  BY <1>1, <1>3
<1>5. \A i \in n - (k - 1) + 1 .. n : i \in n - k + 1 .. n
  BY <1>1
<1>6. Unknown(es, k) <=> Unknown(es, k - 1)
  BY <1>3, <1>4, <1>5 DEF Unknown
<1>7. ASSUME ~rest.fatal PROVE SameTail(es, k, <<x>> \o rest.entries)
  <2>1. PICK s \in Seq(S) : s = rest.entries
    OBVIOUS
  <2>2. Len(s) = k - 1 /\ \A j \in 1 .. k - 1 : s[j] = es[n - (k - 1) + j]
    BY <1>7, <2>1 DEF DecodedTail, SameTail
  <2>3. <<x>> \in Seq(S) /\ Len(<<x>>) = 1 /\ <<x>>[1] = x
    OBVIOUS
  <2>4. /\ Len(<<x>> \o s) = Len(<<x>>) + Len(s)
        /\ \A j \in 1 .. Len(<<x>>) : (<<x>> \o s)[j] = <<x>>[j]
        /\ \A j \in 1 .. Len(s) : (<<x>> \o s)[Len(<<x>>) + j] = s[j]
    BY <2>3, Joined
  <2>5. PICK t : t = <<x>> \o s
    OBVIOUS
  <2>6. Len(t) = k /\ t[1] = x /\ \A j \in 1 .. k - 1 : t[1 + j] = s[j]
    BY <1>1, <2>2, <2>3, <2>4, <2>5
  <2>7. ASSUME NEW j \in 1 .. k PROVE t[j] = es[n - k + j]
    <3>1. CASE j = 1
      BY <2>6, <3>1
    <3>2. CASE j # 1
      <4>1. PICK i \in 1 .. k - 1 : j = 1 + i
        BY <1>1, <3>2
      <4>2. n - (k - 1) + i = n - k + j
        BY <1>1, <4>1
      <4> QED
        BY <2>2, <2>6, <4>1, <4>2
    <3> QED
      BY <3>1, <3>2
  <2> QED
    BY <2>1, <2>5, <2>6, <2>7 DEF SameTail
<1>8. DecodedTail(es, k, d)
  <2> HIDE DEF d
  <2>1. d.fatal <=> Unknown(es, k)
    BY <1>2, <1>6, Zenon DEF DecodedTail
  <2>2. ~d.fatal => SameTail(es, k, d.entries)
    BY <1>2, <1>7, Zenon
  <2> QED
    BY <2>1, <2>2, Zenon DEF DecodedTail
<1> QED
  BY <1>8

(* Decoding from where the last k entries start, if it is right from where  *)
(* the last k - 1 do.                                                       *)
LEMMA OneEntry ==
  ASSUME NEW es, IsTable(es), NEW k \in 1 .. Len(es), NEW all \in Seq(Nat),
         NEW b \in Seq(Nat), EndsWith(all, Bytes(es[Len(es) - k + 1]) \o b),
         NEW f, IsDecoding(all, f),
         DecodedTail(es, k - 1, f[Len(all) - Len(b) + 1])
  PROVE  DecodedTail(es, k, f[Len(all) - Len(Bytes(es[Len(es) - k + 1]) \o b) + 1])
<1> DEFINE n == Len(es)
<1>1. n \in Nat /\ k \in 1 .. n /\ \A i \in 1 .. n : IsEntry(es[i])
  BY DEF IsTable
<1>2. PICK first \in 1 .. n : first = n - k + 1
  <2> HIDE DEF n
  <2> QED
    BY <1>1
<1>3. PICK e : e = es[first]
  OBVIOUS
<1>4. IsEntry(e)
  BY <1>1, <1>3
<1>5. PICK a \in Seq(Nat) : a = Bytes(e)
  BY <1>4, EntryBytes
<1>6. a \in Seq(Nat) /\ Len(a) \in Nat /\ Len(a) >= 2 /\ a[1] = e.type
  BY <1>4, <1>5, EntryBytes
<1>7. /\ Len(all) - Len(Bytes(es[n - k + 1]) \o b) + 1 = Len(all) - Len(a \o b) + 1
      /\ EndsWith(all, a \o b)
  BY <1>2, <1>3, <1>5
<1>14. PICK at : at = Len(all) - Len(a \o b) + 1
  OBVIOUS
<1>8. /\ at \in 1 .. Len(all) /\ at + Len(a) = Len(all) - Len(b) + 1
      /\ Len(a) <= Len(all) - at + 1
      /\ \A j \in 1 .. Len(a) : all[at + j - 1] = a[j]
  <2>1. a \in Seq(Nat) /\ Len(a) >= 2
    BY <1>6
  <2>2. EndsWith(all, a \o b)
    BY <1>7
  <2> QED
    <3>1. AtPlace(all, a, b, at)
      BY <1>14, <2>1, <2>2, EntryAt, Zenon
    <3> QED
      BY <3>1 DEF AtPlace
<1>9. Len(all) \in Nat
  OBVIOUS
<1>10. all[at] = a[1] /\ all[at + 1] = a[2]
  <2>1. 1 \in 1 .. Len(a) /\ 2 \in 1 .. Len(a) /\ at + 1 - 1 = at /\ at + 2 - 1 = at + 1
    BY <1>6, <1>8
  <2>2. all[at + 1 - 1] = a[1] /\ all[at + 2 - 1] = a[2]
    BY <1>8, <2>1
  <2> QED
    BY <2>1, <2>2
<1>11. f[at] = DecodedFrom(all, f, at) /\ ~(at > Len(all))
  BY <1>8, <1>9, SMTT(60) DEF IsDecoding
<1>12. CASE e.type \notin Types
  <2>1. ~Fits(all, at)
    BY <1>6, <1>10, <1>12 DEF Fits
  <2>2. f[at] = Decoded(TRUE, <<>>)
    BY <1>11, <2>1 DEF DecodedFrom
  <2>3. f[at].fatal = TRUE
    BY <2>2 DEF Decoded
  <2>4. Unknown(es, k)
    <3>1. first \in n - k + 1 .. n
      BY <1>1, <1>2
    <3> QED
      BY <1>3, <1>12, <3>1 DEF Unknown
  <2>5. DecodedTail(es, k, f[at])
    BY <2>3, <2>4, Zenon DEF DecodedTail
  <2> QED
    BY <1>7, <1>14, <2>5
<1>13. CASE e.type \in Types
  <2>1. KnownBytes(e, a)
    BY <1>4, <1>5, <1>13, KnownEntryBytes
  <2>2. Len(a) = tableLength(e.type) /\ Len(a) >= 6 /\ a[2] = Len(a)
    <3>1. Len(a) = tableLength(e.type) /\ Len(a) \in 6 .. 12 /\ a[2] = Len(a)
      BY <2>1, Zenon DEF KnownBytes
    <3>2. \A m \in 6 .. 12 : m >= 6
      OBVIOUS
    <3> QED
      BY <3>1, <3>2, Zenon
  <2>3. Fits(all, at)
    <3>1. Len(all) - at >= 2 /\ Len(a) \in 1 .. Len(all) - at + 1
      BY <1>6, <1>8, <1>9, <2>2, SMTT(60)
    <3> QED
      BY <1>6, <1>10, <1>13, <2>2, <3>1 DEF Fits
  <2>4. f[at] = Before(all, at, f[at + Len(a)])
    BY <1>10, <1>11, <2>2, <2>3 DEF DecodedFrom
  <2>5. PICK rest : rest = f[at + Len(a)]
    OBVIOUS
  <2>6. DecodedTail(es, k - 1, rest)
    BY <1>8, <2>5
  <2>7. at + Len(a) \in 1 .. Len(all) + 1
    BY <1>6, <1>8, <1>9
  <2>8. rest \in Results(all)
    BY <2>5, <2>7 DEF IsDecoding
  <2>9. rest.entries \in Seq(AllRead(all)) /\ rest.fatal \in BOOLEAN
    BY <2>8 DEF Results
  <2>10. Read1(all, at) = e
    <3>1. Len(a) \in 1 .. Len(all) - at + 1
      BY <1>6, <1>8, <1>9, <2>2, SMTT(60)
    <3>2. \A j \in 1 .. Len(a) : SubSeq(all, at, at + Len(a) - 1)[j] = all[at + j - 1]
      BY <1>8, <3>1, Part
    <3>3. \A j \in 1 .. Len(a) : SubSeq(all, at, at + Len(a) - 1)[j] = a[j]
      BY <1>8, <3>2
    <3>4. decodeTable(SubSeq(all, at, at + Len(a) - 1)) = e
      BY <1>4, <1>13, <2>1, <3>3, ReadAsPut
    <3> QED
      BY <1>10, <2>2, <3>4 DEF Read1
  <2>11. PICK x \in AllRead(all) : x = e
    BY <1>8, <2>10 DEF AllRead
  <2>12. f[at] = Decoded(rest.fatal, <<x>> \o rest.entries)
    BY <2>4, <2>5, <2>10, <2>11 DEF Before, Read1
  <2>13. es[Len(es) - k + 1].type \in Types /\ x = es[Len(es) - k + 1]
    BY <1>2, <1>3, <1>13, <2>11
  <2>14. DecodedTail(es, k, Decoded(rest.fatal, <<x>> \o rest.entries))
    BY <2>6, <2>9, <2>13, Preceded
  <2> QED
    BY <1>7, <1>14, <2>12, <2>14
<1> QED
  BY <1>12, <1>13

(* So the whole table is decoded as it was written, up to an unknown type,  *)
(* which traps.                                                             *)
LEMMA TableDecoded ==
  ASSUME NEW es, IsTable(es)
  PROVE  DecodedTail(es, Len(es), decodeEntries(TableBytes(es)))
         /\ \E S : decodeEntries(TableBytes(es)).entries \in Seq(S)
<1> DEFINE n == Len(es)
<1>1. n \in Nat
  BY DEF IsTable
<1>2. PICK chain : IsChain(es, chain) /\ TableBytes(es) = chain[n]
  BY TableIs
<1>3. \A k \in 0 .. n : chain[k] \in Seq(Nat) /\ EndsWith(chain[n], chain[k])
  BY <1>2, ChainEnds DEF IsChain
<1>4. PICK all \in Seq(Nat) : all = chain[n]
  BY <1>1, <1>3
<1>5. PICK f : IsDecoding(all, f) /\ decodeEntries(all) = f[1]
  BY DecodingIs
<1>6. Len(all) \in Nat
  OBVIOUS
<1> DEFINE at(k) == Len(all) - Len(chain[k]) + 1
           T == {k \in 0 .. n : DecodedTail(es, k, f[at(k)])}
<1>7. 0 \in T
  <2>1. chain[0] = <<>> /\ Len(chain[0]) = 0
    BY <1>2 DEF IsChain
  <2>2. at(0) = Len(all) + 1
    BY <1>6, <2>1
  <2>3. f[Len(all) + 1] = Decoded(FALSE, <<>>)
    <3>1. Len(all) + 1 \in 1 .. Len(all) + 1 /\ Len(all) + 1 > Len(all)
      BY <1>6
    <3> QED
      BY <1>5, <3>1 DEF IsDecoding, DecodedFrom
  <2>4. f[at(0)].fatal = FALSE /\ f[at(0)].entries = <<>>
    <3>1. f[at(0)] = Decoded(FALSE, <<>>)
      BY <2>2, <2>3
    <3> HIDE DEF at
    <3> QED
      BY <3>1 DEF Decoded
  <2>5. ~Unknown(es, 0)
    BY <1>1 DEF Unknown
  <2>6. SameTail(es, 0, <<>>)
    BY DEF SameTail
  <2> HIDE DEF at
  <2>7. DecodedTail(es, 0, f[at(0)])
    BY <2>4, <2>5, <2>6, Zenon DEF DecodedTail
  <2>8. 0 \in 0 .. n
    BY <1>1
  <2> QED
    BY <2>7, <2>8
<1>8. ASSUME NEW k \in 1 .. n, k - 1 \in T PROVE k \in T
  <2>1. k - 1 \in 0 .. n /\ k \in 0 .. n
    BY <1>1
  <2>2. chain[k] = Bytes(es[n - k + 1]) \o chain[k - 1]
    BY <1>2 DEF IsChain
  <2>3. DecodedTail(es, k - 1, f[Len(all) - Len(chain[k - 1]) + 1])
    BY <1>8
  <2>4. chain[k - 1] \in Seq(Nat) /\ EndsWith(all, Bytes(es[n - k + 1]) \o chain[k - 1])
    BY <1>3, <1>4, <2>1, <2>2
  <2>5. DecodedTail(es, k, f[Len(all) - Len(Bytes(es[n - k + 1]) \o chain[k - 1]) + 1])
    BY <1>5, <2>3, <2>4, OneEntry
  <2> QED
    BY <2>1, <2>2, <2>5
<1> HIDE DEF T
<1>9. n \in T
  <2>1. \A k \in 0 .. n : k \in T
    BY <1>1, <1>7, <1>8, Upwards
  <2> QED
    BY <1>1, <2>1
<1>10. at(n) = 1
  BY <1>4, <1>6
<1>11. DecodedTail(es, n, f[1])
  BY <1>9, <1>10 DEF T
<1>12. f[1].entries \in Seq(AllRead(all))
  <2>1. 1 \in 1 .. Len(all) + 1
    BY <1>6
  <2>2. f[1] \in Results(all)
    BY <1>5, <2>1 DEF IsDecoding
  <2> QED
    BY <2>2 DEF Results
<1> QED
  BY <1>2, <1>4, <1>5, <1>11, <1>12

(* Every line that is enabled and alone on its pin gets through to the      *)
(* handler of its number, a line that was disabled last does not, and the   *)
(* kernel stops exactly where the table or a register is beyond what the    *)
(* code reads, for any table of the firmware and any operations on lines    *)
(* (IOAPIC.swift 32-90).                                                    *)
THEOREM IrqsRouted ==
  ASSUME NEW es, IsTable(es), NEW ops, IsOps(ops)
  PROVE  InterruptsRouted(es, ops)
<1> DEFINE n == Len(es)
<1>1. PICK madt : madt = decodeEntries(TableBytes(es))
  OBVIOUS
<1>2. DecodedTail(es, n, madt) /\ \E S : madt.entries \in Seq(S)
  BY <1>1, TableDecoded
<1>3. n \in Nat /\ DOMAIN es = 1 .. n /\ es = [i \in DOMAIN es |-> es[i]]
  BY DEF IsTable
<1>4. Unknown(es, n) <=> \E i \in DOMAIN es : es[i].type \notin Types
  <2>1. n - n + 1 .. n = 1 .. n
    BY <1>3
  <2> QED
    BY <1>3, <2>1 DEF Unknown
<1>5. CASE Unknown(es, n)
  <2>1. madt.fatal
    BY <1>2, <1>5, Zenon DEF DecodedTail
  <2> QED
    BY <1>1, <1>4, <1>5, <2>1 DEF InterruptsRouted
<1>6. CASE ~Unknown(es, n)
  <2>1. ~madt.fatal /\ SameTail(es, n, madt.entries)
    BY <1>2, <1>6, Zenon DEF DecodedTail
  <2>2. madt.entries = es
    <3>1. PICK t, S : t = madt.entries /\ t \in Seq(S)
      BY <1>2
    <3>2. Len(t) = n /\ \A j \in 1 .. n : t[j] = es[j]
      <4>1. Len(t) = n /\ \A j \in 1 .. n : t[j] = es[n - n + j]
        BY <2>1, <3>1 DEF SameTail
      <4>2. \A j \in 1 .. n : n - n + j = j
        BY <1>3
      <4> QED
        BY <4>1, <4>2
    <3>3. t = [j \in 1 .. n |-> t[j]] /\ es = [j \in 1 .. n |-> es[j]]
      BY <1>3, <3>1, <3>2
    <3>4. t = es
      BY <3>2, <3>3, SameFunction
    <3> QED
      BY <3>1, <3>4
  <2>3. Routed(es, ops, AllDone(OverridesOf(es), ops))
    <3>1. PICK a \in Apics : a = AllDone(OverridesOf(es), ops)
      BY AllAreDone
    <3>2. After(es, ops, Len(ops), a)
      BY <3>1, AllAreDone
    <3>3. a.trapped \in BOOLEAN
      BY ApicIs
    <3> QED
      BY <3>1, <3>2, <3>3, LinesRouted
  <2> QED
    BY <1>1, <1>4, <1>6, <2>1, <2>2, <2>3, Zenon DEF InterruptsRouted, OverridesOf
<1> QED
  BY <1>5, <1>6

----------------------------------------------------------------------------
(* What the firmware and the devices say of themselves is what the kernel   *)
(* makes of it, for every machine: regions, drivers, interrupt lines,       *)
(* volumes (PCIController.cpp 77-122, ModulesController.cpp 38-111,         *)
(* IOAPIC.swift 32-90, GPT.swift 27-68).                                    *)
THEOREM DevicesAreFound == CallsSpec => []DevicesFound
<1>1. CallInit => DevicesFound
  BY DEF CallInit, None, DevicesFound
<1>2. DevicesFound /\ [CallsNext]_call => DevicesFound'
  <2> SUFFICES ASSUME DevicesFound, [CallsNext]_call PROVE DevicesFound'
    OBVIOUS
  <2>1. CASE CallGetBAR
    <3>1. PICK r \in Regions : call' = [of |-> "getBAR", region |-> r]
      BY <2>1 DEF CallGetBAR
    <3>2. BarRight(r)
      BY MachineAssumption, RegionsFound
    <3>3. call'.of = "getBAR" /\ call'.region = r
      BY <3>1
    <3> QED
      BY <3>2, <3>3 DEF DevicesFound
  <2>2. CASE CallStart
    <3>1. PICK b \in Buses : call' = [of |-> "start", buses |-> b]
      BY <2>2 DEF CallStart
    <3>2. DriversRight(b)
      BY MachineAssumption, DriversStart
    <3>3. call'.of = "start" /\ call'.buses = b
      BY <3>1
    <3> QED
      BY <3>2, <3>3 DEF DevicesFound
  <2>3. CASE CallIrqs
    <3>1. PICK es \in Madts, ops \in Irqs :
            call' = [of |-> "enableIRQ", entries |-> es, ops |-> ops]
      BY <2>3 DEF CallIrqs
    <3>2. InterruptsRouted(es, ops)
      BY MachineAssumption, IrqsRouted
    <3>3. call'.of = "enableIRQ" /\ call'.entries = es /\ call'.ops = ops
      BY <3>1
    <3> QED
      BY <3>2, <3>3 DEF DevicesFound
  <2>4. CASE CallDisk
    <3>1. PICK d \in Disks : call' = [of |-> "disk", disk |-> d]
      BY <2>4 DEF CallDisk
    <3>2. VolumesRight(d)
      BY MachineAssumption, VolumesFound
    <3>3. call'.of = "disk" /\ call'.disk = d
      BY <3>1
    <3> QED
      BY <3>2, <3>3 DEF DevicesFound
  <2>5. CASE CallPrintf \/ CallString \/ CallNumber \/ CallValue \/ CallArgument \/ CallLine
    <3>1. call'.of \notin {"getBAR", "start", "enableIRQ", "disk"}
      BY <2>5 DEF CallPrintf, CallString, CallNumber, CallValue, CallArgument, CallLine
    <3> QED
      BY <3>1 DEF DevicesFound
  <2>6. CASE UNCHANGED call
    BY <2>6 DEF DevicesFound
  <2> QED
    BY <2>1, <2>2, <2>3, <2>4, <2>5, <2>6 DEF CallsNext
<1> QED
  BY <1>1, <1>2, PTL DEF CallsSpec

----------------------------------------------------------------------------
(* What the kernel is told, as texts: loops over words and characters, with *)
(* the same means.                                                          *)
(* The least and the greatest of some integers.                             *)
LEMMA MinIs ==
  ASSUME NEW S, S \subseteq Int, NEW i \in S, \A j \in S : i <= j
  PROVE  Min(S) = i
<1>1. \E x \in S : \A y \in S : x <= y
  OBVIOUS
<1>2. PICK m : m = Min(S)
  OBVIOUS
<1>3. m \in S /\ \A y \in S : m <= y
  BY <1>1, <1>2, Zenon DEF Min
<1>4. m = i
  BY <1>3
<1> QED
  BY <1>2, <1>4

(* The greatest.                                                            *)
LEMMA MaxIs ==
  ASSUME NEW S, S \subseteq Int, NEW i \in S, \A j \in S : j <= i
  PROVE  Max(S) = i
<1>1. \E x \in S : \A y \in S : x >= y
  OBVIOUS
<1>2. PICK m : m = Max(S)
  OBVIOUS
<1>3. m \in S /\ \A y \in S : m >= y
  BY <1>1, <1>2, Zenon DEF Max
<1>4. m = i
  BY <1>3
<1> QED
  BY <1>2, <1>4

GotAt(line, i) == <<Given(line[i]), line[i].value>>

(* What the search has found in the first n words.                          *)
FoundIn(line, name, n, a) ==
  LET named == {i \in 1 .. n : Naming(line[i], name)}
  IN /\ named = {} => a = Search(FALSE, <<>>)
     /\ named # {} => /\ a.ended <=> (name.dash \/ name.underscore)
                      /\ \E i \in named :
                           /\ a.got = GotAt(line, i)
                           /\ IF name.dash \/ name.underscore THEN \A j \in named : i <= j
                              ELSE \A j \in named : j <= i

(* One word more.                                                           *)
LEMMA WordVisited ==
  ASSUME NEW line, IsBootLine(line), NEW name, NEW n \in 1 .. Len(line), NEW a,
         FoundIn(line, name, n - 1, a)
  PROVE  FoundIn(line, name, n,
                 IF a.ended \/ ~Naming(line[n], name) THEN a
                 ELSE Search(Stops(line[n]), <<Given(line[n]), line[n].value>>))
<1> DEFINE before == {i \in 1 .. n - 1 : Naming(line[i], name)}
           named == {i \in 1 .. n : Naming(line[i], name)}
           b == IF a.ended \/ ~Naming(line[n], name) THEN a
                ELSE Search(Stops(line[n]), <<Given(line[n]), line[n].value>>)
           first == name.dash \/ name.underscore
<1>1. n \in Nat /\ n \in 1 .. n /\ \A i \in 1 .. n : i = n \/ i \in 1 .. n - 1
  BY DEF IsBootLine
<1>2. \A i \in 1 .. n - 1 : i \in 1 .. n /\ i < n
  BY <1>1
<1>3. before = {} => a = Search(FALSE, <<>>)
  BY DEF FoundIn
<1>4. before # {} => /\ a.ended <=> first
                     /\ \E i \in before : /\ a.got = GotAt(line, i)
                                          /\ IF first THEN \A j \in before : i <= j
                                             ELSE \A j \in before : j <= i
  BY DEF FoundIn
<1>5. CASE ~Naming(line[n], name)
  <2>1. named = before
    BY <1>1, <1>2, <1>5
  <2>2. b = a
    BY <1>5
  <2> HIDE DEF named, before, b
  <2>3. FoundIn(line, name, n, a)
    BY <2>1, <1>3, <1>4 DEF FoundIn, named
  <2> QED
    BY <2>2, <2>3 DEF b
<1>6. CASE Naming(line[n], name)
  <2>1. named = before \cup {n}
    BY <1>1, <1>2, <1>6
  <2>2. Stops(line[n]) <=> first
    BY <1>6 DEF Stops, Naming
  <2>3. \A i \in before : i < n /\ i \in Nat
    BY <1>1, <1>2
  <2>4. n \in named
    BY <2>1
  <2>5. CASE a.ended
    <3>1. before # {}
      <4>1. Search(FALSE, <<>>).ended = FALSE
        BY DEF Search
      <4> QED
        BY <1>3, <2>5, <4>1
    <3>2. first
      BY <1>4, <2>5, <3>1
    <3>3. PICK i \in before : a.got = GotAt(line, i) /\ \A j \in before : i <= j
      BY <1>4, <3>1, <3>2
    <3>4. b = a
      BY <2>5
    <3> HIDE DEF named, before, b
    <3>5. i \in named /\ \A j \in named : i <= j
      BY <2>1, <2>3, <3>3, <1>1
    <3>6. FoundIn(line, name, n, a)
      BY <2>5, <3>2, <3>3, <3>5 DEF FoundIn, named
    <3> QED
      BY <3>4, <3>6 DEF b
  <2>6. CASE ~a.ended
    <3>1. before = {} \/ ~first
      BY <1>4, <2>6
    <3>2. b = Search(Stops(line[n]), GotAt(line, n))
      BY <1>6, <2>6 DEF GotAt
    <3>3. b.ended = Stops(line[n]) /\ b.got = GotAt(line, n)
      BY <3>2 DEF Search
    <3>4. IF first THEN \A j \in named : n <= j ELSE \A j \in named : j <= n
      <4>1. \A j \in named : j <= n
        BY <1>1
      <4> HIDE DEF named, before, b
      <4>2. first => \A j \in named : n <= j
        BY <2>1, <3>1, <1>1
      <4> QED
        BY <4>1, <4>2
    <3> HIDE DEF b
    <3>5. FoundIn(line, name, n, b)
      BY <2>2, <2>4, <3>3, <3>4 DEF FoundIn
    <3> QED
      BY <3>5 DEF b
  <2> QED
    BY <2>5, <2>6
<1> QED
  BY <1>5, <1>6

(* The word that decides is found: the first switch or string by that name, *)
(* the last word for a number, in any line (bootargs.c 77-151).             *)
THEOREM ArgumentFound ==
  ASSUME NEW line, IsBootLine(line), NEW name
  PROVE  ArgumentRight(line, name)
<1> DEFINE n == Len(line)
           S == [ended : BOOLEAN, got : {<<>>} \cup {GotAt(line, i) : i \in 1 .. Len(line)}]
           Next1(k, x) == IF x.ended \/ ~Naming(line[k], name) THEN x
                          ELSE Search(Stops(line[k]), <<Given(line[k]), line[k].value>>)
           Is(f) == f = [k \in 0 .. n |-> IF k = 0 THEN Search(FALSE, <<>>) ELSE Next1(k, f[k - 1])]
           visited == CHOOSE f : Is(f)
           step == [p \in (1 .. n) \X S |-> Next1(p[1], p[2])]
<1>1. Parse_boot_argn(line, name) = visited[n].got
  BY DEF Parse_boot_argn
<1>2. n \in Nat /\ Search(FALSE, <<>>) \in S
  BY DEF IsBootLine, Search
<1>3. \A k \in 1 .. n, x \in S : step[<<k, x>>] = Next1(k, x) /\ Next1(k, x) \in S
  <2>1. ASSUME NEW k \in 1 .. n, NEW x \in S PROVE Next1(k, x) \in S
    <3>1. Stops(line[k]) \in BOOLEAN
      BY DEF Stops, IsBootLine
    <3>2. <<Given(line[k]), line[k].value>> \in {GotAt(line, i) : i \in 1 .. Len(line)}
      BY DEF GotAt
    <3> QED
      BY <3>1, <3>2 DEF Search
  <2> QED
    BY <2>1
<1> HIDE DEF n, step, S, Next1
<1>4. \A k \in 1 .. n, x \in S : step[<<k, x>>] \in S
  BY <1>3
<1>5. PICK f \in [0 .. n -> S] : Chain(f, n, Search(FALSE, <<>>), step)
  BY <1>2, <1>4, Recursion
<1>6. Is(f)
  <2> DEFINE unfolded == [k \in 0 .. n |-> IF k = 0 THEN Search(FALSE, <<>>) ELSE Next1(k, f[k - 1])]
  <2>1. f[0] = unfolded[0]
    BY <1>2, <1>5 DEF Chain
  <2>2. ASSUME NEW k \in 1 .. n PROVE f[k] = unfolded[k]
    <3>1. k - 1 \in 0 .. n /\ f[k - 1] \in S /\ k \in 0 .. n /\ k # 0
      BY <1>2, <1>5
    <3>2. f[k] = Next1(k, f[k - 1])
      BY <1>3, <1>5, <3>1 DEF Chain
    <3> QED
      BY <3>1, <3>2
  <2> HIDE DEF unfolded
  <2>3. \A k \in 0 .. n : f[k] = unfolded[k]
    <3>1. \A k \in 0 .. n : k = 0 \/ k \in 1 .. n
      BY <1>2
    <3> QED
      BY <2>1, <2>2, <3>1
  <2>4. unfolded = [k \in 0 .. n |-> unfolded[k]] /\ f = [k \in 0 .. n |-> f[k]]
    BY <1>5 DEF unfolded
  <2>5. f = unfolded
    BY <2>3, <2>4, SameFunction
  <2> QED
    BY <2>5 DEF unfolded
<1>7. Is(visited)
  BY <1>6
<1> HIDE DEF visited
<1>8. visited[0] = Search(FALSE, <<>>) /\ \A k \in 1 .. n : visited[k] = Next1(k, visited[k - 1])
  <2>1. 0 \in 0 .. n /\ \A k \in 1 .. n : k \in 0 .. n /\ k # 0
    BY <1>2
  <2>2. \A k \in 0 .. n : visited[k] = IF k = 0 THEN Search(FALSE, <<>>) ELSE Next1(k, visited[k - 1])
    BY <1>7
  <2> QED
    BY <2>1, <2>2

<1> DEFINE T == {k \in 0 .. n : FoundIn(line, name, k, visited[k])}
<1>9. 0 \in T
  <2>1. FoundIn(line, name, 0, Search(FALSE, <<>>))
    BY DEF FoundIn
  <2>2. FoundIn(line, name, 0, visited[0])
    BY <1>8, <2>1, Zenon
  <2>3. 0 \in 0 .. n
    BY <1>2
  <2> QED
    BY <2>2, <2>3
<1>10. ASSUME NEW k \in 1 .. n, k - 1 \in T PROVE k \in T
  <2>1. FoundIn(line, name, k - 1, visited[k - 1])
    BY <1>10
  <2>2. k \in 1 .. Len(line)
    BY DEF n
  <2>3. FoundIn(line, name, k, Next1(k, visited[k - 1]))
    BY <2>1, <2>2, WordVisited DEF Next1
  <2>4. k \in 0 .. n
    BY <1>2
  <2> QED
    BY <1>8, <2>3, <2>4
<1> HIDE DEF T
<1>11. n \in T
  <2>1. \A k \in 0 .. n : k \in T
    BY <1>2, <1>9, <1>10, Upwards
  <2> QED
    BY <1>2, <2>1
<1>12. FoundIn(line, name, n, visited[n])
  BY <1>11 DEF T
<1> DEFINE named == {i \in DOMAIN line : Naming(line[i], name)}
<1>13. named = {i \in 1 .. n : Naming(line[i], name)}
  BY DEF IsBootLine, n
<1> HIDE DEF named
<1>14. CASE named = {}
  <2>1. visited[n].got = <<>>
    BY <1>12, <1>13, <1>14 DEF FoundIn, Search
  <2> QED
    BY <1>1, <1>14, <2>1 DEF ArgumentRight, named
<1>15. CASE named # {}
  <2>1. PICK i \in named :
          /\ visited[n].got = GotAt(line, i)
          /\ IF name.dash \/ name.underscore THEN \A j \in named : i <= j
             ELSE \A j \in named : j <= i
    BY <1>12, <1>13, <1>15 DEF FoundIn
  <2>2. named \subseteq Int
    BY <1>2, <1>13
  <2>3. i = IF name.dash \/ name.underscore THEN Min(named) ELSE Max(named)
    <3>1. CASE name.dash \/ name.underscore
      <4>1. i \in named /\ \A j \in named : i <= j
        BY <2>1, <3>1
      <4>2. i = Min(named)
        BY <4>1, <2>2, MinIs
      <4> QED
        BY <3>1, <4>2
    <3>2. CASE ~(name.dash \/ name.underscore)
      <4>1. i \in named /\ \A j \in named : j <= i
        BY <2>1, <3>2
      <4>2. i = Max(named)
        BY <4>1, <2>2, MaxIs
      <4> QED
        BY <3>2, <4>2
    <3> QED
      BY <3>1, <3>2
  <2> QED
    BY <1>1, <1>15, <2>1, <2>3 DEF ArgumentRight, named, GotAt
<1> QED
  BY <1>14, <1>15

(* What the loops know of characters.                                       *)
LEMMA ValueIs == \A c : Value(c) \in Nat
<1> SUFFICES ASSUME NEW c PROVE Value(c) \in Nat
  OBVIOUS
<1>1. Range(DigitChars) = {DigitChars[i] : i \in 1 .. 16}
  BY DEF DigitChars, Range
<1>2. Range(CapitalChars) = {CapitalChars[i] : i \in 1 .. 6}
  BY DEF CapitalChars, Range
<1>3. CASE c \in Range(DigitChars)
  <2>1. PICK i \in 1 .. 16 : i = CHOOSE k \in 1 .. 16 : DigitChars[k] = c
    BY <1>1, <1>3
  <2>2. Value(c) = i - 1
    BY <1>3, <2>1 DEF Value
  <2> QED
    BY <2>2
<1>4. CASE c \notin Range(DigitChars) /\ c \in Range(CapitalChars)
  <2>1. PICK i \in 1 .. 6 : i = CHOOSE k \in 1 .. 6 : CapitalChars[k] = c
    BY <1>2, <1>4
  <2>2. Value(c) = i + 9
    BY <1>4, <2>1 DEF Value
  <2> QED
    BY <2>2
<1>5. CASE c \notin Range(DigitChars) /\ c \notin Range(CapitalChars)
  BY <1>5 DEF Value
<1> QED
  BY <1>3, <1>4, <1>5

(* The digits with a meaning of their own.                                  *)
LEMMA CharsAre ==
  /\ Value("0") = 0 /\ Value("?") = 99 /\ Value("x") = 99 /\ Value("b") = 11
  /\ \A c \in {"k", "K", "m", "M", "g", "G"} : Value(c) = 99
<1> DEFINE Others == {"?", "x", "k", "K", "m", "M", "g", "G"}
<1>1. DOMAIN DigitChars = 1 .. 16 /\ DOMAIN CapitalChars = 1 .. 6
  BY DEF DigitChars, CapitalChars
<1>2. /\ \A i \in 1 .. 16 : DigitChars[i] \notin Others
      /\ \A i \in 1 .. 6 : CapitalChars[i] \notin Others
  BY DEF DigitChars, CapitalChars
<1>3. /\ Range(DigitChars) = {DigitChars[i] : i \in 1 .. 16}
      /\ Range(CapitalChars) = {CapitalChars[i] : i \in 1 .. 6}
  BY <1>1 DEF Range
<1>4. \A c \in Others : Value(c) = 99
  BY <1>2, <1>3 DEF Value
<1>5. DigitChars[1] = "0" /\ \A i \in 1 .. 16 : DigitChars[i] = "0" => i = 1
  BY DEF DigitChars
<1>6. DigitChars[12] = "b" /\ \A i \in 1 .. 16 : DigitChars[i] = "b" => i = 12
  BY DEF DigitChars
<1>7. Value("0") = 0
  BY <1>5, <1>3 DEF Value
<1>8. Value("b") = 11
  BY <1>6, <1>3 DEF Value
<1> QED
  BY <1>4, <1>7, <1>8

(* The suffixes.                                                            *)
LEMMA SuffixIs ==
  /\ Endings = {"none"} \cup DOMAIN Suffix /\ "none" \notin DOMAIN Suffix
  /\ \A c \in DOMAIN Suffix : Suffix[c] \in Nat /\ Value(c) = 99 /\ Factor(c) = Suffix[c]
<1>1. DOMAIN Suffix = {"k", "K", "m", "M", "g", "G"}
  BY DEF Suffix
<1>2. Endings = {"none"} \cup DOMAIN Suffix /\ "none" \notin DOMAIN Suffix
  BY <1>1 DEF Endings
<1>3. \A c \in {"k", "K"} : Suffix[c] = 1024 /\ Factor(c) = 1024
  BY DEF Suffix, Factor
<1>4. \A c \in {"m", "M"} : Suffix[c] = 1048576 /\ Factor(c) = 1048576
  BY DEF Suffix, Factor
<1>5. \A c \in {"g", "G"} : Suffix[c] = 1073741824 /\ Factor(c) = 1073741824
  BY DEF Suffix, Factor
<1>6. \A c \in DOMAIN Suffix : Suffix[c] \in Nat /\ Factor(c) = Suffix[c]
  BY <1>1, <1>3, <1>4, <1>5
<1> QED
  BY <1>1, <1>2, <1>6, CharsAre

(* A product of naturals is one.                                            *)
LEMMA ProductIs ==
  ASSUME NEW a \in Nat, NEW b \in Nat
  PROVE  a * b \in Nat
  OBVIOUS

----------------------------------------------------------------------------
(* A place counted from the end.                                            *)
LEMMA Mirrored ==
  ASSUME NEW n \in Nat, NEW k \in 1 .. n
  PROVE  n - k + 1 \in 1 .. n
  OBVIOUS

(* Digits counted by their places are the digits taken one after the other. *)
LEMMA WorthOfIs ==
  ASSUME NEW n \in Nat, NEW ns \in [1 .. n -> Nat], NEW r \in Nat, NEW h \in [0 .. n -> Nat],
         h[0] = 0, \A k \in 1 .. n : h[k] = h[k - 1] * r + ns[k]
  PROVE  WorthOf(ns, n, r) = h[n]
<1> DEFINE S == [sum : Nat, place : Nat]
           Next1(k, x) == Counted(x.sum + ns[n - k + 1] * x.place, r * x.place)
           Is(f) == f = [k \in 0 .. n |-> IF k = 0 THEN Counted(0, 1) ELSE Next1(k, f[k - 1])]
           counted == CHOOSE f : Is(f)
           step == [p \in (1 .. n) \X S |-> Next1(p[1], p[2])]
<1>1. WorthOf(ns, n, r) = counted[n].sum
  BY DEF WorthOf
<1>2. n \in Nat /\ Counted(0, 1) \in S
  BY DEF Counted
<1>3. \A k \in 1 .. n, x \in S : step[<<k, x>>] = Next1(k, x) /\ Next1(k, x) \in S
  <2>1. ASSUME NEW k \in 1 .. n, NEW x \in S PROVE Next1(k, x) \in S
    <3>0. n - k + 1 \in 1 .. n
      BY Mirrored
    <3>1. PICK v \in Nat : v = ns[n - k + 1]
      BY <3>0
    <3>2. PICK s \in Nat, p \in Nat : s = x.sum /\ p = x.place
      OBVIOUS
    <3>3. v * p \in Nat /\ r * p \in Nat
      BY ProductIs
    <3>4. PICK q \in Nat, u \in Nat : q = v * p /\ u = r * p
      BY <3>3
    <3>5. Next1(k, x) = Counted(s + q, u)
      BY <3>1, <3>2, <3>4
    <3>6. Counted(s + q, u) \in S
      BY DEF Counted
    <3> HIDE DEF Next1, S
    <3> QED
      BY <3>5, <3>6
  <2> QED
    BY <2>1
<1> HIDE DEF step, S, Next1
<1>4. \A k \in 1 .. n, x \in S : step[<<k, x>>] \in S
  BY <1>3
<1>5. PICK f \in [0 .. n -> S] : Chain(f, n, Counted(0, 1), step)
  BY <1>2, <1>4, Recursion
<1>6. Is(f)
  <2> DEFINE unfolded == [k \in 0 .. n |-> IF k = 0 THEN Counted(0, 1) ELSE Next1(k, f[k - 1])]
  <2>1. f[0] = unfolded[0]
    BY <1>2, <1>5 DEF Chain
  <2>2. ASSUME NEW k \in 1 .. n PROVE f[k] = unfolded[k]
    <3>1. k - 1 \in 0 .. n /\ f[k - 1] \in S /\ k \in 0 .. n /\ k # 0
      BY <1>2, <1>5
    <3>2. f[k] = Next1(k, f[k - 1])
      BY <1>3, <1>5, <3>1 DEF Chain
    <3> QED
      BY <3>1, <3>2
  <2> HIDE DEF unfolded
  <2>3. \A k \in 0 .. n : f[k] = unfolded[k]
    <3>1. \A k \in 0 .. n : k = 0 \/ k \in 1 .. n
      BY <1>2
    <3> QED
      BY <2>1, <2>2, <3>1
  <2>4. unfolded = [k \in 0 .. n |-> unfolded[k]] /\ f = [k \in 0 .. n |-> f[k]]
    BY <1>5 DEF unfolded
  <2>5. f = unfolded
    BY <2>3, <2>4, SameFunction
  <2> QED
    BY <2>5 DEF unfolded
<1>7. Is(counted)
  BY <1>6
<1> HIDE DEF counted
<1>8. counted[0] = Counted(0, 1) /\ \A k \in 1 .. n : counted[k] = Next1(k, counted[k - 1])
  <2>1. 0 \in 0 .. n /\ \A k \in 1 .. n : k \in 0 .. n /\ k # 0
    BY <1>2
  <2>2. \A k \in 0 .. n : counted[k] = IF k = 0 THEN Counted(0, 1) ELSE Next1(k, counted[k - 1])
    BY <1>7
  <2> QED
    BY <2>1, <2>2

<1> DEFINE T == {k \in 0 .. n : counted[k] \in S
                               /\ h[n] = h[n - k] * counted[k].place + counted[k].sum}
<1>9. 0 \in T
  <2>1. counted[0].place = 1 /\ counted[0].sum = 0
    BY <1>8 DEF Counted
  <2>2. h[n] \in Nat /\ n - 0 = n
    BY <1>2
  <2>3. h[n] = h[n] * 1 + 0
    BY <2>2
  <2>4. counted[0] \in S /\ 0 \in 0 .. n
    BY <1>2, <1>8
  <2> QED
    BY <2>1, <2>2, <2>3, <2>4
<1>10. ASSUME NEW k \in 1 .. n, k - 1 \in T PROVE k \in T
  <2>1. PICK x \in S : x = counted[k - 1]
    BY <1>10
  <2>2. PICK s \in Nat, p \in Nat : s = x.sum /\ p = x.place
    BY <2>1 DEF S
  <2>3. n - k \in 0 .. n /\ n - k + 1 \in 1 .. n /\ n - (k - 1) = n - k + 1
        /\ (n - k + 1) - 1 = n - k
    BY <1>2
  <2>4. PICK v \in Nat : v = ns[n - k + 1]
    BY <2>3
  <2>5. PICK a \in Nat : a = h[n - k]
    BY <2>3
  <2>6. h[n - k + 1] = a * r + v
    BY <2>3, <2>4, <2>5
  <2>7. h[n] = (a * r + v) * p + s
    BY <1>10, <2>1, <2>2, <2>3, <2>6
  <2>8. counted[k] = Counted(s + v * p, r * p)
    BY <1>8, <2>1, <2>2, <2>4 DEF Next1
  <2>9. (a * r + v) * p + s = a * (r * p) + (s + v * p)
    <3>1. (a * r + v) * p = (a * r) * p + v * p
      OBVIOUS
    <3>2. (a * r) * p = a * (r * p)
      OBVIOUS
    <3>3. PICK c \in Nat, d \in Nat : c = a * (r * p) /\ d = v * p
      OBVIOUS
    <3> QED
      BY <3>1, <3>2, <3>3
  <2>10. counted[k].place = r * p /\ counted[k].sum = s + v * p
    BY <2>8 DEF Counted
  <2>11. counted[k] \in S
    BY <1>3, <1>8, <2>1
  <2>12. k \in 0 .. n
    BY <1>2
  <2> QED
    BY <2>5, <2>7, <2>9, <2>10, <2>11, <2>12
<1> HIDE DEF T
<1>11. n \in T
  <2>1. \A k \in 0 .. n : k \in T
    BY <1>2, <1>9, <1>10, Upwards
  <2> QED
    BY <1>2, <2>1
<1>12. PICK x \in S : x = counted[n]
  BY <1>11 DEF T
<1>13. PICK s \in Nat, p \in Nat : s = x.sum /\ p = x.place
  BY <1>12 DEF S
<1>14. h[n] = h[n - n] * p + s
  BY <1>11, <1>12, <1>13 DEF T
<1>15. h[n] = s
  BY <1>14, <1>2
<1> QED
  BY <1>1, <1>12, <1>13, <1>15

(* The same of a text.                                                      *)
LEMMA WorthIs ==
  ASSUME NEW ds, Len(ds) \in Nat, NEW r \in Nat, NEW h \in [0 .. Len(ds) -> Nat], h[0] = 0,
         \A k \in 1 .. Len(ds) : h[k] = h[k - 1] * r + Value(ds[k])
  PROVE  Worth(ds, r) = h[Len(ds)]
<1> DEFINE ns == [k \in 1 .. Len(ds) |-> Value(ds[k])]
<1>1. ns \in [1 .. Len(ds) -> Nat]
  BY ValueIs
<1>2. \A k \in 1 .. Len(ds) : ns[k] = Value(ds[k])
  OBVIOUS
<1>3. Worth(ds, r) = WorthOf(ns, Len(ds), r)
  BY DEF Worth
<1> HIDE DEF ns
<1>4. \A k \in 1 .. Len(ds) : h[k] = h[k - 1] * r + ns[k]
  BY <1>2
<1>5. WorthOf(ns, Len(ds), r) = h[Len(ds)]
  BY <1>1, <1>4, WorthOfIs, Zenon
<1> QED
  BY <1>3, <1>5

(* Digits only, up to a place; digits and a suffix behind them.             *)
AllDigits(s, r, n) == \A i \in 1 .. n : Value(s[i]) < r
Suffixed(s, r) == s # <<>> /\ AllDigits(s, r, Len(s) - 1) /\ s[Len(s)] \in DOMAIN Suffix

(* What was read up to place k, when h is the number so far.                *)
ReadSoFar(s, r, h, k, a) ==
  LET ended == k >= 1 /\ AllDigits(s, r, k - 1) /\ s[k] \in DOMAIN Suffix
  IN \/ a = Reading(h[k], "digits") /\ AllDigits(s, r, k)
     \/ a = Reading(h[k - 1] * Suffix[s[k]], "ended") /\ ended
     \/ a.state = "string" /\ ~AllDigits(s, r, k) /\ ~ended

(* One character more.                                                      *)
LEMMA CharacterRead ==
  ASSUME NEW s, NEW r \in 0 .. 16, NEW k \in Nat \ {0}, NEW h,
         h[k] = h[k - 1] * r + Value(s[k]), NEW a, ReadSoFar(s, r, h, k - 1, a)
  PROVE  ReadSoFar(s, r, h, k, Digit(a, s[k], r))
<1> DEFINE b == Digit(a, s[k], r)
           ended == AllDigits(s, r, k - 1) /\ s[k] \in DOMAIN Suffix
           endedBefore == k - 1 >= 1 /\ AllDigits(s, r, k - 2) /\ s[k - 1] \in DOMAIN Suffix
<1>1. AllDigits(s, r, k) <=> AllDigits(s, r, k - 1) /\ Value(s[k]) < r
  BY DEF AllDigits
<1>2. s[k] \in DOMAIN Suffix => ~(Value(s[k]) < r)
  BY SuffixIs
<1>3. endedBefore => ~AllDigits(s, r, k - 1)
  <2>1. SUFFICES ASSUME endedBefore PROVE ~AllDigits(s, r, k - 1)
    OBVIOUS
  <2>2. Value(s[k - 1]) = 99 /\ k - 1 \in 1 .. k - 1
    BY <2>1, SuffixIs
  <2> QED
    BY <2>2 DEF AllDigits
<1>4. CASE a = Reading(h[k - 1], "digits") /\ AllDigits(s, r, k - 1)
  <2>1. a.state = "digits" /\ a.n = h[k - 1]
    BY <1>4 DEF Reading
  <2>2. CASE Value(s[k]) < r
    <3>1. b = Reading(h[k], "digits")
      BY <2>1, <2>2 DEF Digit
    <3> QED
      BY <1>1, <1>4, <2>2, <3>1 DEF ReadSoFar
  <2>3. CASE ~(Value(s[k]) < r) /\ s[k] \in DOMAIN Suffix
    <3>1. b = Reading(h[k - 1] * Suffix[s[k]], "ended")
      BY <2>1, <2>3 DEF Digit
    <3>2. k >= 1
      OBVIOUS
    <3> QED
      BY <1>4, <2>3, <3>1, <3>2, Zenon DEF ReadSoFar
  <2>4. CASE ~(Value(s[k]) < r) /\ ~(s[k] \in DOMAIN Suffix)
    <3>1. b.state = "string"
      BY <2>1, <2>4 DEF Digit, Reading
    <3> QED
      BY <1>1, <2>4, <3>1, Zenon DEF ReadSoFar
  <2> QED
    BY <2>2, <2>3, <2>4
<1>5. CASE ~(a = Reading(h[k - 1], "digits") /\ AllDigits(s, r, k - 1))
  <2>1. a.state # "digits" /\ ~AllDigits(s, r, k - 1)
    <3>1. k - 1 - 1 = k - 2
      OBVIOUS
    <3>2. \/ a = Reading(h[k - 2] * Suffix[s[k - 1]], "ended") /\ endedBefore
          \/ a.state = "string" /\ ~AllDigits(s, r, k - 1)
      BY <1>5, <3>1, Zenon DEF ReadSoFar
    <3> QED
      BY <1>3, <3>2 DEF Reading
  <2>2. b.state = "string"
    BY <2>1 DEF Digit, Reading
  <2> QED
    BY <1>1, <2>1, <2>2, Zenon DEF ReadSoFar
<1> QED
  BY <1>4, <1>5

(* Reading digits gives their worth, with the suffix at the end, or a       *)
(* string (bootargs.c 191-225).                                             *)
LEMMA DigitsRead ==
  ASSUME NEW s, NEW S1, s \in Seq(S1), NEW r \in 0 .. 16
  PROVE  /\ Worth(s, r) \in Nat
         /\ AllDigits(s, r, Len(s)) => ReadDigits(s, r) = Reading(Worth(s, r), "digits")
         /\ Suffixed(s, r) =>
              ReadDigits(s, r)
                = Reading(Worth(SubSeq(s, 1, Len(s) - 1), r) * Suffix[s[Len(s)]], "ended")
         /\ ~AllDigits(s, r, Len(s)) /\ ~Suffixed(s, r) => ReadDigits(s, r).state = "string"
<1> DEFINE n == Len(s)
           S == [n : Nat, state : {"digits", "ended", "string"}]
           Next1(k, x) == Digit(x, s[k], r)
           Is(f) == f = [k \in 0 .. n |-> IF k = 0 THEN Reading(0, "digits") ELSE Next1(k, f[k - 1])]
           read == CHOOSE f : Is(f)
           step == [p \in (1 .. n) \X S |-> Next1(p[1], p[2])]
<1>1. ReadDigits(s, r) = read[n]
  BY DEF ReadDigits
<1>2. n \in Nat /\ Reading(0, "digits") \in S
  BY DEF Reading
<1>3. \A k \in 1 .. n, x \in S : step[<<k, x>>] = Next1(k, x) /\ Next1(k, x) \in S
  <2>1. ASSUME NEW k \in 1 .. n, NEW x \in S PROVE Next1(k, x) \in S
    <3>1. PICK m \in Nat, v \in Nat : m = x.n /\ v = Value(s[k])
      BY ValueIs
    <3>2. m * r \in Nat
      BY ProductIs
    <3>3. PICK q \in Nat : q = m * r + v
      BY <3>2
    <3>4. CASE x.state = "digits" /\ Value(s[k]) < r
      <4>1. Next1(k, x) = Reading(q, "digits")
        BY <3>1, <3>3, <3>4 DEF Digit
      <4> QED
        BY <4>1 DEF Reading
    <3>5. CASE ~(x.state = "digits" /\ Value(s[k]) < r) /\ x.state = "digits" /\ s[k] \in DOMAIN Suffix
      <4>1. PICK u \in Nat : u = Suffix[s[k]]
        BY <3>5, SuffixIs
      <4>2. PICK w \in Nat : w = m * u
        BY ProductIs
      <4>3. Next1(k, x) = Reading(w, "ended")
        BY <3>1, <3>5, <4>1, <4>2 DEF Digit
      <4> QED
        BY <4>3 DEF Reading
    <3>6. CASE ~(x.state = "digits" /\ Value(s[k]) < r) /\ ~(x.state = "digits" /\ s[k] \in DOMAIN Suffix)
      <4>1. Next1(k, x) = Reading(m, "string")
        BY <3>1, <3>6 DEF Digit
      <4> QED
        BY <4>1 DEF Reading
    <3> QED
      BY <3>4, <3>5, <3>6
  <2> QED
    BY <2>1
<1> HIDE DEF n, step, S, Next1
<1>4. \A k \in 1 .. n, x \in S : step[<<k, x>>] \in S
  BY <1>3
<1>5. PICK f \in [0 .. n -> S] : Chain(f, n, Reading(0, "digits"), step)
  BY <1>2, <1>4, Recursion
<1>6. Is(f)
  <2> DEFINE unfolded == [k \in 0 .. n |-> IF k = 0 THEN Reading(0, "digits") ELSE Next1(k, f[k - 1])]
  <2>1. f[0] = unfolded[0]
    BY <1>2, <1>5 DEF Chain
  <2>2. ASSUME NEW k \in 1 .. n PROVE f[k] = unfolded[k]
    <3>1. k - 1 \in 0 .. n /\ f[k - 1] \in S /\ k \in 0 .. n /\ k # 0
      BY <1>2, <1>5
    <3>2. f[k] = Next1(k, f[k - 1])
      BY <1>3, <1>5, <3>1 DEF Chain
    <3> QED
      BY <3>1, <3>2
  <2> HIDE DEF unfolded
  <2>3. \A k \in 0 .. n : f[k] = unfolded[k]
    <3>1. \A k \in 0 .. n : k = 0 \/ k \in 1 .. n
      BY <1>2
    <3> QED
      BY <2>1, <2>2, <3>1
  <2>4. unfolded = [k \in 0 .. n |-> unfolded[k]] /\ f = [k \in 0 .. n |-> f[k]]
    BY <1>5 DEF unfolded
  <2>5. f = unfolded
    BY <2>3, <2>4, SameFunction
  <2> QED
    BY <2>5 DEF unfolded
<1>7. Is(read)
  BY <1>6
<1> HIDE DEF read
<1>8. read[0] = Reading(0, "digits") /\ \A k \in 1 .. n : read[k] = Next1(k, read[k - 1])
  <2>1. 0 \in 0 .. n /\ \A k \in 1 .. n : k \in 0 .. n /\ k # 0
    BY <1>2
  <2>2. \A k \in 0 .. n : read[k] = IF k = 0 THEN Reading(0, "digits") ELSE Next1(k, read[k - 1])
    BY <1>7
  <2> QED
    BY <2>1, <2>2

<1> DEFINE more == [p \in (1 .. n) \X Nat |-> p[2] * r + Value(s[p[1]])]
<1>9. \A k \in 1 .. n, x \in Nat : more[<<k, x>>] = x * r + Value(s[k]) /\ more[<<k, x>>] \in Nat
  <2>1. ASSUME NEW k \in 1 .. n, NEW x \in Nat
        PROVE more[<<k, x>>] = x * r + Value(s[k]) /\ more[<<k, x>>] \in Nat
    <3>1. more[<<k, x>>] = x * r + Value(s[k])
      OBVIOUS
    <3>2. PICK v \in Nat, q \in Nat : v = Value(s[k]) /\ q = x * r
      BY ValueIs, ProductIs
    <3> HIDE DEF more
    <3> QED
      BY <3>1, <3>2
  <2> QED
    BY <2>1
<1> HIDE DEF more
<1>10. PICK h \in [0 .. n -> Nat] : Chain(h, n, 0, more)
  <2>1. \A k \in 1 .. n, x \in Nat : more[<<k, x>>] \in Nat
    BY <1>9
  <2> QED
    BY <1>2, <2>1, Recursion
<1>11. h[0] = 0 /\ \A k \in 1 .. n : h[k] = h[k - 1] * r + Value(s[k])
  <2>1. \A k \in 1 .. n : h[k] = more[<<k, h[k - 1]>>] /\ h[k - 1] \in Nat
    BY <1>2, <1>10 DEF Chain
  <2> QED
    BY <1>9, <1>10, <2>1 DEF Chain
<1> DEFINE T == {k \in 0 .. n : ReadSoFar(s, r, h, k, read[k])}
<1>12. 0 \in T
  <2>1. read[0] = Reading(h[0], "digits")
    BY <1>8, <1>11
  <2>2. AllDigits(s, r, 0)
    BY DEF AllDigits
  <2>3. ReadSoFar(s, r, h, 0, read[0])
    BY <2>1, <2>2, Zenon DEF ReadSoFar
  <2>4. 0 \in 0 .. n
    BY <1>2
  <2> QED
    BY <2>3, <2>4
<1>13. ASSUME NEW k \in 1 .. n, k - 1 \in T PROVE k \in T
  <2>1. ReadSoFar(s, r, h, k - 1, read[k - 1])
    BY <1>13
  <2>2. k \in Nat \ {0}
    BY <1>2
  <2>5. h[k] = h[k - 1] * r + Value(s[k])
    BY <1>11
  <2>3. ReadSoFar(s, r, h, k, Next1(k, read[k - 1]))
    BY <2>1, <2>2, <2>5, CharacterRead DEF Next1
  <2>4. k \in 0 .. n
    BY <1>2
  <2> QED
    BY <1>8, <2>3, <2>4
<1> HIDE DEF T
<1>14. n \in T
  <2>1. \A k \in 0 .. n : k \in T
    BY <1>2, <1>12, <1>13, Upwards
  <2> QED
    BY <1>2, <2>1
<1>15. ReadSoFar(s, r, h, n, read[n])
  BY <1>14 DEF T
<1>16. Suffixed(s, r) <=> n >= 1 /\ AllDigits(s, r, n - 1) /\ s[n] \in DOMAIN Suffix
  BY DEF Suffixed, n
<1>17. Suffixed(s, r) => ~AllDigits(s, r, n)
  <2>1. SUFFICES ASSUME Suffixed(s, r) PROVE ~AllDigits(s, r, n)
    OBVIOUS
  <2>2. Value(s[n]) = 99 /\ n \in 1 .. n
    BY <1>2, <1>16, <2>1, SuffixIs
  <2> QED
    BY <2>2 DEF AllDigits
<1>18. \/ read[n] = Reading(h[n], "digits") /\ AllDigits(s, r, n) /\ ~Suffixed(s, r)
       \/ read[n] = Reading(h[n - 1] * Suffix[s[n]], "ended") /\ Suffixed(s, r) /\ ~AllDigits(s, r, n)
       \/ read[n].state = "string" /\ ~AllDigits(s, r, n) /\ ~Suffixed(s, r)
  BY <1>15, <1>16, <1>17, Zenon DEF ReadSoFar
<1>19. h[n] = Worth(s, r)
  <2>1. Len(s) \in Nat /\ h \in [0 .. Len(s) -> Nat] /\ r \in Nat
    BY <1>2, <1>10 DEF n
  <2>2. \A k \in 1 .. Len(s) : h[k] = h[k - 1] * r + Value(s[k])
    BY <1>11 DEF n
  <2>3. h[0] = 0
    BY <1>11
  <2> QED
    BY <2>1, <2>2, <2>3, WorthIs DEF n
<1>20. ASSUME Suffixed(s, r) PROVE h[n - 1] = Worth(SubSeq(s, 1, n - 1), r)
  <2> DEFINE d == SubSeq(s, 1, n - 1)
             g == [k \in 0 .. n - 1 |-> h[k]]
  <2>1. n \in Nat \ {0}
    BY <1>2, <1>16, <1>20
  <2>2. \A i \in 1 .. n - 1 : s[i] \in S1
    BY <2>1 DEF n
  <2>3. Len(d) = n - 1 /\ \A i \in 1 .. n - 1 : d[i] = s[i]
    <3>1. 1 \in Int /\ n - 1 \in Int
      BY <2>1
    <3>2. /\ Len(d) = IF 1 <= n - 1 THEN (n - 1) - 1 + 1 ELSE 0
          /\ \A i \in 1 .. (n - 1) - 1 + 1 : d[i] = s[1 + i - 1]
      BY <2>2, <3>1, SubSeqProperties
    <3> HIDE DEF d
    <3> QED
      BY <2>1, <3>2
  <2> HIDE DEF d
  <2>4. g \in [0 .. n - 1 -> Nat] /\ g[0] = 0
    <3>1. \A k \in 0 .. n - 1 : h[k] \in Nat
      BY <1>10, <2>1
    <3>2. g[0] = h[0]
      BY <2>1
    <3>3. g \in [0 .. n - 1 -> Nat]
      BY <3>1
    <3> QED
      BY <1>11, <3>2, <3>3
  <2>5. \A k \in 1 .. n - 1 : g[k] = g[k - 1] * r + Value(d[k])
    BY <1>11, <2>1, <2>3
  <2>6. g[n - 1] = h[n - 1]
    BY <2>1
  <2> HIDE DEF g
  <2>7. Worth(d, r) = g[n - 1]
    <3>1. Len(d) \in Nat /\ r \in Nat /\ g \in [0 .. Len(d) -> Nat]
      BY <2>1, <2>3, <2>4
    <3>2. \A k \in 1 .. Len(d) : g[k] = g[k - 1] * r + Value(d[k])
      BY <2>3, <2>5
    <3> QED
      BY <2>3, <2>4, <3>1, <3>2, WorthIs
  <2> QED
    BY <2>6, <2>7 DEF d
<1>21. Worth(s, r) \in Nat
  BY <1>2, <1>10, <1>19
<1> QED
  BY <1>1, <1>18, <1>19, <1>20, <1>21, Zenon DEF n

(* The form a text has, by how it begins.                                   *)
Chosen(t, form) ==
  \/ form = "dec" /\ Len(t) >= 1 /\ Value(t[1]) < 10 /\ (t[1] # "0" \/ Len(t) = 1)
  \/ form = "oct" /\ Len(t) >= 2 /\ t[1] = "0" /\ Value(t[2]) < 8
  \/ form = "hex" /\ Len(t) >= 2 /\ t[1] = "0" /\ t[2] = "x"
  \/ form = "bin" /\ Len(t) >= 2 /\ t[1] = "0" /\ t[2] = "b"
RestOf(t, form) == SubSeq(t, Len(PrefixOf(form)) + 1, Len(t))

(* Prefixes and their lengths.                                              *)
LEMMA PrefixIs ==
  /\ Len(PrefixOf("dec")) = 0 /\ Len(PrefixOf("oct")) = 1
  /\ Len(PrefixOf("hex")) = 2 /\ Len(PrefixOf("bin")) = 2
  /\ PrefixOf("oct")[1] = "0" /\ PrefixOf("hex")[1] = "0" /\ PrefixOf("bin")[1] = "0"
  /\ PrefixOf("hex")[2] = "x" /\ PrefixOf("bin")[2] = "b"
  /\ RadixOf("dec") = 10 /\ RadixOf("oct") = 8 /\ RadixOf("hex") = 16 /\ RadixOf("bin") = 2
  BY DEF PrefixOf, RadixOf

(* At most one form is chosen, and the radix is that of the one (bootargs.c *)
(* 165-190).                                                                *)
LEMMA RadixIs ==
  ASSUME NEW t \in Seq(STRING)
  PROVE  /\ \A form \in Forms : Chosen(t, form) =>
              Radix(t).radix = RadixOf(form) /\ Radix(t).rest = RestOf(t, form)
         /\ (\A form \in Forms : ~Chosen(t, form)) => Radix(t).radix = 0 /\ Radix(t).rest = <<"?">>
<1>1. Len(t) \in Nat /\ (t = <<>> <=> Len(t) = 0)
  OBVIOUS
<1>2. Value("0") = 0 /\ ~(Value("x") < 8) /\ ~(Value("b") < 8)
  BY CharsAre
<1>3. CASE t = <<>> \/ Value(t[1]) >= 10
  <2>1. \A form \in Forms : ~Chosen(t, form)
    BY <1>1, <1>2, <1>3, ValueIs DEF Chosen, Forms
  <2>2. Radix(t) = [radix |-> 0, rest |-> <<"?">>]
    BY <1>3, Zenon DEF Radix
  <2> QED
    BY <2>1, <2>2
<1>4. CASE ~(t = <<>> \/ Value(t[1]) >= 10) /\ (t[1] # "0" \/ Len(t) = 1)
  <2>1. Len(t) >= 1 /\ Value(t[1]) < 10
    BY <1>1, <1>4, ValueIs
  <2>2. Radix(t) = [radix |-> 10, rest |-> t]
    BY <1>4, Zenon DEF Radix
  <2>3. Chosen(t, "dec")
    BY <1>4, <2>1, Zenon DEF Chosen
  <2>4. ASSUME NEW form \in Forms, Chosen(t, form) PROVE form = "dec"
    BY <1>4, <1>1, <2>4 DEF Chosen
  <2>5. RestOf(t, "dec") = t
    BY PrefixIs, SubSeqFull DEF RestOf
  <2> QED
    BY <2>2, <2>3, <2>4, <2>5, PrefixIs DEF Forms
<1>5. CASE ~(t = <<>> \/ Value(t[1]) >= 10) /\ ~(t[1] # "0" \/ Len(t) = 1)
  <2>1. Len(t) >= 2 /\ t[1] = "0"
    <3>1. t # <<>> /\ t[1] = "0" /\ Len(t) # 1
      BY <1>5, Zenon
    <3>2. PICK m \in Nat : m = Len(t)
      BY <1>1
    <3>3. m # 0 /\ m # 1
      BY <1>1, <3>1, <3>2
    <3>4. m >= 2
      BY <3>3
    <3> QED
      BY <3>1, <3>2, <3>4
  <2>2. CASE t[2] = "x"
    <3>1. Radix(t) = [radix |-> 16, rest |-> SubSeq(t, 3, Len(t))]
      BY <1>5, <2>2, Zenon DEF Radix
    <3>2. Chosen(t, "hex")
      BY <2>1, <2>2 DEF Chosen
    <3>3. ASSUME NEW form \in Forms, Chosen(t, form) PROVE form = "hex"
      BY <1>1, <1>2, <2>1, <2>2, <3>3 DEF Chosen
    <3>4. RestOf(t, "hex") = SubSeq(t, 3, Len(t))
      <4>1. Len(PrefixOf("hex")) + 1 = 3
        <5>1. 2 + 1 = 3
          OBVIOUS
        <5>2. Len(PrefixOf("hex")) = 2
          BY PrefixIs
        <5> QED
          BY <5>1, <5>2, Zenon
      <4> QED
        BY <4>1 DEF RestOf
    <3> QED
      BY <3>1, <3>2, <3>3, <3>4, PrefixIs DEF Forms
  <2>3. CASE t[2] = "b"
    <3>1. Radix(t) = [radix |-> 2, rest |-> SubSeq(t, 3, Len(t))]
      <4>1. ~(t[2] = "x")
        BY <2>3
      <4> QED
        BY <1>5, <2>3, <4>1, Zenon DEF Radix
    <3>2. Chosen(t, "bin")
      BY <2>1, <2>3 DEF Chosen
    <3>3. ASSUME NEW form \in Forms, Chosen(t, form) PROVE form = "bin"
      BY <1>1, <1>2, <2>1, <2>3, <3>3 DEF Chosen
    <3>4. RestOf(t, "bin") = SubSeq(t, 3, Len(t))
      <4>1. Len(PrefixOf("bin")) + 1 = 3
        <5>1. 2 + 1 = 3
          OBVIOUS
        <5>2. Len(PrefixOf("bin")) = 2
          BY PrefixIs
        <5> QED
          BY <5>1, <5>2, Zenon
      <4> QED
        BY <4>1 DEF RestOf
    <3> QED
      BY <3>1, <3>2, <3>3, <3>4, PrefixIs DEF Forms
  <2>4. CASE t[2] # "x" /\ t[2] # "b" /\ Value(t[2]) < 8
    <3>1. Radix(t) = [radix |-> 8, rest |-> Tail(t)]
      BY <1>5, <2>4, Zenon DEF Radix
    <3>2. Chosen(t, "oct")
      BY <2>1, <2>4 DEF Chosen
    <3>3. ASSUME NEW form \in Forms, Chosen(t, form) PROVE form = "oct"
      BY <1>1, <1>2, <2>1, <2>4, <3>3 DEF Chosen
    <3>4. RestOf(t, "oct") = Tail(t)
      <4>1. Len(PrefixOf("oct")) + 1 = 2
        <5>1. 1 + 1 = 2
          OBVIOUS
        <5>2. Len(PrefixOf("oct")) = 1
          BY PrefixIs
        <5> QED
          BY <5>1, <5>2, Zenon
      <4>2. t # <<>>
        BY <1>1, <2>1
      <4>3. Tail(t) = SubSeq(t, 2, Len(t))
        BY <4>2, TailIsSubSeq
      <4> QED
        BY <4>1, <4>3 DEF RestOf
    <3> QED
      BY <3>1, <3>2, <3>3, <3>4, PrefixIs DEF Forms
  <2>5. CASE t[2] # "x" /\ t[2] # "b" /\ ~(Value(t[2]) < 8)
    <3>1. Radix(t) = [radix |-> 0, rest |-> <<"?">>]
      BY <1>5, <2>5, Zenon DEF Radix
    <3>2. \A form \in Forms : ~Chosen(t, form)
      BY <1>1, <1>2, <2>1, <2>5 DEF Chosen
    <3> QED
      BY <3>1, <3>2
  <2> QED
    BY <2>2, <2>3, <2>4, <2>5
<1> QED
  BY <1>3, <1>4, <1>5

(* Never two of them.                                                       *)
LEMMA OneForm ==
  ASSUME NEW t, NEW f \in Forms, NEW g \in Forms, Chosen(t, f), Chosen(t, g)
  PROVE  f = g
<1>1. ~(Value("x") < 8) /\ ~(Value("b") < 8)
  BY CharsAre
<1> QED
  BY <1>1 DEF Chosen

(* The prefix of a chosen form is there.                                    *)
LEMMA PrefixFits ==
  ASSUME NEW t \in Seq(STRING), NEW form \in Forms, Chosen(t, form)
  PROVE  Len(PrefixOf(form)) <= Len(t)
<1> DEFINE p == Len(PrefixOf(form))
<1>1. (form = "dec" => p = 0) /\ (form = "oct" => p = 1) /\ p \in {0, 1, 2}
  BY PrefixIs DEF Forms
<1>2. form = "dec" \/ (form = "oct" /\ Len(t) >= 2) \/ Len(t) >= 2
  BY DEF Chosen
<1> HIDE DEF p
<1>3. p <= Len(t)
  BY <1>1, <1>2
<1> QED
  BY <1>3 DEF p

(* What is left behind the prefix of a form, and its last character.        *)
LEMMA RestHas ==
  ASSUME NEW t \in Seq(STRING), NEW form \in Forms, Len(PrefixOf(form)) <= Len(t)
  PROVE  LET s == RestOf(t, form)
         IN /\ s \in Seq(STRING) /\ Len(s) = Len(t) - Len(PrefixOf(form))
            /\ \A i \in 1 .. Len(s) : s[i] = t[Len(PrefixOf(form)) + i]
            /\ DigitsOf(t, form, "none") = s
            /\ \A e \in DOMAIN Suffix : DigitsOf(t, form, e) = SubSeq(s, 1, Len(s) - 1)
<1> DEFINE s == RestOf(t, form)
<1>1. PICK p \in Nat : p = Len(PrefixOf(form))
  BY PrefixIs DEF Forms
<1>2. PICK n \in Nat : n = Len(t)
  OBVIOUS
<1>3. \A i \in p + 1 .. n : t[i] \in STRING
  BY <1>2
<1>4. p + 1 \in Int /\ n \in Int /\ p <= n
  BY <1>1, <1>2
<1>5. /\ s \in Seq(STRING) /\ Len(s) = (IF p + 1 <= n THEN n - (p + 1) + 1 ELSE 0)
      /\ \A i \in 1 .. n - (p + 1) + 1 : s[i] = t[(p + 1) + i - 1]
  BY <1>1, <1>2, <1>3, <1>4, SubSeqProperties DEF RestOf
<1> HIDE DEF s
<1>6. Len(s) = n - p /\ \A i \in 1 .. Len(s) : s[i] = t[p + i]
  BY <1>4, <1>5
<1>7. DigitsOf(t, form, "none") = s
  <2>1. n - EndingLength("none") = n
    BY DEF EndingLength
  <2> QED
    BY <1>1, <1>2, <2>1 DEF DigitsOf, RestOf, s
<1>8. ASSUME NEW e \in DOMAIN Suffix PROVE DigitsOf(t, form, e) = SubSeq(s, 1, Len(s) - 1)
  <2>1. EndingLength(e) = 1
    BY SuffixIs DEF EndingLength
  <2>2. DigitsOf(t, form, e) = SubSeq(t, p + 1, n - 1)
    BY <1>1, <1>2, <2>1 DEF DigitsOf
  <2>3. CASE p + 1 <= n - 1
    <3>1. /\ p + 1 \in 1 .. Len(t) /\ Len(t) \in 1 .. Len(t)
          /\ 1 \in 1 .. Len(t) - (p + 1) + 1 /\ n - p - 1 \in 1 .. Len(t) - (p + 1) + 1
      BY <1>2, <1>4, <2>3
    <3>2. SubSeq(SubSeq(t, p + 1, Len(t)), 1, n - p - 1)
            = SubSeq(t, p + 1 + 1 - 1, p + 1 + (n - p - 1) - 1)
      BY <3>1, SubSeqOfSubSeq
    <3>3. p + 1 + 1 - 1 = p + 1 /\ p + 1 + (n - p - 1) - 1 = n - 1 /\ Len(s) - 1 = n - p - 1
      BY <1>6
    <3> QED
      BY <1>1, <1>2, <2>2, <3>2, <3>3 DEF s, RestOf
  <2>4. CASE ~(p + 1 <= n - 1)
    <3>1. SubSeq(t, p + 1, n - 1) = <<>>
      BY <1>4, <2>4, SubSeqEmpty
    <3>2. 1 \in Int /\ Len(s) - 1 \in Int /\ Len(s) - 1 < 1
      BY <1>4, <1>6, <2>4
    <3>3. SubSeq(s, 1, Len(s) - 1) = <<>>
      BY <3>2, SubSeqEmpty
    <3> QED
      BY <2>2, <3>1, <3>3
  <2> QED
    BY <2>3, <2>4
<1> QED
  BY <1>1, <1>2, <1>5, <1>6, <1>7, <1>8 DEF s

(* A text reads as a number of a form exactly if it has the form and the    *)
(* rest are digits, with or without a suffix.                               *)
LEMMA ReadsAsIs ==
  ASSUME NEW t \in Seq(STRING), NEW form \in Forms, NEW e \in Endings
  PROVE  ReadsAs(t, form, e) <=>
           /\ Chosen(t, form)
           /\ IF e = "none" THEN AllDigits(RestOf(t, form), RadixOf(form), Len(RestOf(t, form)))
              ELSE Suffixed(RestOf(t, form), RadixOf(form))
                   /\ RestOf(t, form)[Len(RestOf(t, form))] = e
<1> DEFINE s == RestOf(t, form)
           r == RadixOf(form)
           d == DigitsOf(t, form, e)
           p == Len(PrefixOf(form))
           l == EndingLength(e)
<1>1. p \in 0 .. 2 /\ Len(t) \in Nat /\ l \in 0 .. 1 /\ (e = "none" <=> l = 0) /\ r \in {2, 8, 10, 16}
  BY PrefixIs, SuffixIs DEF Forms, EndingLength, Endings
<1>2. Chosen(t, form) => p <= Len(t)
  BY PrefixFits
<1>3. CASE ~(p + l <= Len(t))
  <2>1. ~ReadsAs(t, form, e)
    BY <1>3 DEF ReadsAs
  <2>2. SUFFICES ASSUME Chosen(t, form), e # "none", Suffixed(s, r) PROVE FALSE
    BY <1>1, <1>2, <1>3, <2>1
  <2>3. Len(s) = 0 /\ s \in Seq(STRING)
    BY <1>1, <1>2, <1>3, <2>2, RestHas
  <2> HIDE DEF s
  <2> QED
    BY <2>2, <2>3 DEF Suffixed
<1>4. CASE p + l <= Len(t)
  <2>1. /\ s \in Seq(STRING) /\ Len(s) = Len(t) - p /\ \A i \in 1 .. Len(s) : s[i] = t[p + i]
        /\ d = IF e = "none" THEN s ELSE SubSeq(s, 1, Len(s) - 1)
    <3>1. p <= Len(t)
      BY <1>1, <1>4
    <3>2. e # "none" => e \in DOMAIN Suffix
      BY SuffixIs
    <3> QED
      BY <3>1, <3>2, RestHas
  <2>2. Len(d) = Len(s) - l /\ d \in Seq(STRING) /\ \A i \in 1 .. Len(d) : d[i] = s[i]
    <3>1. CASE e = "none"
      BY <1>1, <2>1, <3>1
    <3>2. CASE e # "none"
      <4>1. 1 \in Int /\ Len(s) - 1 \in Nat /\ \A i \in 1 .. Len(s) - 1 : s[i] \in STRING
        BY <1>1, <1>4, <2>1, <3>2
      <4> HIDE DEF s, d
      <4>2. /\ d \in Seq(STRING) /\ Len(d) = IF 1 <= Len(s) - 1 THEN (Len(s) - 1) - 1 + 1 ELSE 0
            /\ \A i \in 1 .. (Len(s) - 1) - 1 + 1 : d[i] = s[1 + i - 1]
        BY <2>1, <3>2, <4>1, SubSeqProperties
      <4> QED
        BY <1>1, <3>2, <4>1, <4>2
    <3> QED
      BY <3>1, <3>2
  <2> HIDE DEF s, d
  <2>3. (\A i \in 1 .. Len(d) : Value(d[i]) < r) <=> AllDigits(s, r, Len(s) - l)
    BY <2>2 DEF AllDigits
  <2>4. e # "none" => Len(s) >= 1 /\ (t[Len(t)] = e <=> s[Len(s)] = e) /\ e \in DOMAIN Suffix
    <3>1. e # "none" => Len(s) \in 1 .. Len(s) /\ p + Len(s) = Len(t) /\ e \in DOMAIN Suffix
      BY <1>1, <1>4, <2>1, SuffixIs
    <3> QED
      BY <2>1, <3>1
  <2>5. ReadsAs(t, form, e) <=>
          /\ \A i \in 1 .. p : t[i] = PrefixOf(form)[i]
          /\ e # "none" => s[Len(s)] = e
          /\ AllDigits(s, r, Len(s) - l)
          /\ form \in {"dec", "oct"} => d # <<>>
          /\ form = "dec" => d[1] # "0" \/ (Len(d) = 1 /\ e = "none")
    BY <1>4, <2>3, <2>4, Zenon DEF ReadsAs, p, l, r, d
  <2>6. (IF e = "none" THEN AllDigits(s, r, Len(s)) ELSE Suffixed(s, r) /\ s[Len(s)] = e)
          <=> AllDigits(s, r, Len(s) - l) /\ (e # "none" => s[Len(s)] = e)
    <3>1. CASE e = "none"
      <4>1. Len(s) - l = Len(s)
        BY <1>1, <2>1, <3>1
      <4> QED
        BY <3>1, <4>1
    <3>2. CASE e # "none"
      <4>1. Len(s) - l = Len(s) - 1 /\ s # <<>>
        BY <1>1, <2>1, <2>4, <3>2
      <4> QED
        BY <2>4, <3>2, <4>1 DEF Suffixed
    <3> QED
      BY <3>1, <3>2
  <2>7. d # <<>> <=> Len(s) - l >= 1
    BY <2>1, <2>2, <1>1
  <2>8. Len(s) - l >= 1 => d[1] = t[p + 1]
    BY <1>1, <2>1, <2>2
  <2>9. AllDigits(s, r, Len(s) - l) /\ Len(s) - l >= 1 => Value(t[p + 1]) < r
    <3>1. Len(s) - l >= 1 => 1 \in 1 .. Len(s) - l /\ s[1] = t[p + 1]
      BY <1>1, <2>1
    <3> QED
      BY <3>1 DEF AllDigits
  <2>10. e # "none" => (Len(s) = 1 => Value(t[p + 1]) = 99) \/ s[Len(s)] # e
    <3>1. Len(s) = 1 => s[1] = t[p + 1]
      <4> HIDE DEF p
      <4>1. Len(s) = 1 => 1 \in 1 .. Len(s)
        OBVIOUS
      <4> QED
        BY <2>1, <4>1
    <3> QED
      BY <2>4, <3>1, SuffixIs
  <2>11. SUFFICES ASSUME AllDigits(s, r, Len(s) - l), e # "none" => s[Len(s)] = e
         PROVE  /\ \A i \in 1 .. p : t[i] = PrefixOf(form)[i]
                /\ form \in {"dec", "oct"} => d # <<>>
                /\ form = "dec" => d[1] # "0" \/ (Len(d) = 1 /\ e = "none")
                <=> Chosen(t, form)
    BY <2>5, <2>6, Zenon DEF s, r
  <2>12. Len(s) = Len(t) - p /\ Len(d) = Len(t) - p - l /\ p + l <= Len(t)
    BY <1>1, <1>4, <2>1, <2>2
  <2>13. e # "none" /\ Len(s) = 1 => Value(t[p + 1]) = 99
    BY <2>10, <2>11
  <2>14. CASE form = "dec"
    <3>1. p = 0 /\ r = 10
      BY <2>14, PrefixIs
    <3> HIDE DEF p, r, l
    <3>2. Chosen(t, form) <=> Len(t) >= 1 /\ Value(t[1]) < 10 /\ (t[1] # "0" \/ Len(t) = 1)
      BY <2>14 DEF Chosen
    <3>3. \A i \in 1 .. p : t[i] = PrefixOf(form)[i]
      BY <3>1
    <3>4. d # <<>> <=> Len(t) - l >= 1
      BY <2>7, <2>12, <3>1
    <3>5. Len(t) - l >= 1 => d[1] = t[1] /\ Value(t[1]) < 10
      BY <2>8, <2>9, <2>11, <2>12, <3>1
    <3>6. l = 1 /\ Len(t) = 1 => Value(t[1]) = 99
      BY <1>1, <2>13, <2>12, <3>1
    <3>7. Len(d) = 1 /\ e = "none" <=> Len(t) = 1 /\ l = 0
      BY <1>1, <2>12, <3>1
    <3>8. PICK v \in Nat : v = Value(t[1])
      BY ValueIs
    <3>9. (d # <<>> /\ (d[1] # "0" \/ (Len(d) = 1 /\ e = "none")))
            <=> Len(t) >= 1 /\ v < 10 /\ (t[1] # "0" \/ Len(t) = 1)
      <4>1. CASE Len(t) - l >= 1
        <5>1. Len(t) >= 1 /\ v < 10 /\ d[1] = t[1] /\ d # <<>>
          BY <1>1, <3>4, <3>5, <3>8, <4>1
        <5>2. Len(t) = 1 => l = 0
          BY <1>1, <4>1
        <5> QED
          BY <3>7, <5>1, <5>2
      <4>2. CASE ~(Len(t) - l >= 1)
        <5>1. d = <<>>
          BY <3>4, <4>2
        <5>2. Len(t) = 0 \/ (Len(t) = 1 /\ l = 1)
          <6>1. PICK m \in Nat : m = Len(t)
            BY <1>1
          <6>2. m = 0 \/ (m = 1 /\ l = 1)
            BY <1>1, <4>2, <6>1
          <6> QED
            BY <6>1, <6>2
        <5>3. ~(Len(t) >= 1 /\ v < 10)
          BY <3>6, <3>8, <5>2
        <5> QED
          BY <5>1, <5>3
      <4> QED
        BY <4>1, <4>2
    <3> QED
      BY <2>14, <3>2, <3>3, <3>8, <3>9, Zenon
  <2>15. CASE form = "oct"
    <3>1. p = 1 /\ r = 8 /\ PrefixOf(form)[1] = "0"
      BY <2>15, PrefixIs
    <3> HIDE DEF p, r, l
    <3>2. Chosen(t, form) <=> Len(t) >= 2 /\ t[1] = "0" /\ Value(t[2]) < 8
      BY <2>15 DEF Chosen
    <3>3. (\A i \in 1 .. p : t[i] = PrefixOf(form)[i]) <=> t[1] = "0"
      BY <3>1
    <3>4. d # <<>> <=> Len(t) - l >= 2
      BY <1>1, <2>7, <2>12, <3>1
    <3>5. Len(t) - l >= 2 => Value(t[2]) < 8
      BY <1>1, <2>9, <2>11, <2>12, <3>1
    <3>6. l = 1 /\ Len(t) = 2 => Value(t[2]) = 99
      BY <1>1, <2>13, <2>12, <3>1
    <3>8. PICK v \in Nat : v = Value(t[2])
      BY ValueIs
    <3>9. d # <<>> <=> Len(t) >= 2 /\ v < 8
      <4>1. CASE Len(t) - l >= 2
        BY <1>1, <3>4, <3>5, <3>8, <4>1
      <4>2. CASE ~(Len(t) - l >= 2)
        <5>1. Len(t) < 2 \/ (Len(t) = 2 /\ l = 1)
          <6>1. PICK m \in Nat : m = Len(t)
            BY <1>1
          <6>2. m < 2 \/ (m = 2 /\ l = 1)
            BY <1>1, <4>2, <6>1
          <6> QED
            BY <6>1, <6>2
        <5> QED
          BY <3>4, <3>6, <3>8, <4>2, <5>1
      <4> QED
        BY <4>1, <4>2
    <3>10. form # "dec" /\ form \in {"dec", "oct"}
      BY <2>15
    <3> QED
      BY <3>2, <3>3, <3>8, <3>9, <3>10, Zenon
  <2>16. CASE form \in {"hex", "bin"}
    <3>1. p = 2
      BY <2>16, PrefixIs
    <3> HIDE DEF p, r, l
    <3>2. (\A i \in 1 .. p : t[i] = PrefixOf(form)[i])
            <=> t[1] = PrefixOf(form)[1] /\ t[2] = PrefixOf(form)[2]
      BY <3>1
    <3>3. Len(t) >= 2
      BY <1>1, <2>12, <3>1
    <3>4. Chosen(t, form) <=> t[1] = PrefixOf(form)[1] /\ t[2] = PrefixOf(form)[2]
      BY <2>16, <3>3, PrefixIs DEF Chosen
    <3> QED
      BY <2>16, <3>2, <3>4
  <2> QED
    BY <2>14, <2>15, <2>16 DEF Forms
<1> QED
  BY <1>3, <1>4

(* Digits are no suffix.                                                    *)
LEMMA NotBoth ==
  ASSUME NEW s \in Seq(STRING), NEW r \in 0 .. 16, AllDigits(s, r, Len(s)), Suffixed(s, r)
  PROVE  FALSE
<1>1. Len(s) \in 1 .. Len(s) /\ s[Len(s)] \in DOMAIN Suffix
  BY DEF Suffixed
<1>2. Value(s[Len(s)]) < r
  BY <1>1 DEF AllDigits
<1>3. Value(s[Len(s)]) = 99
  BY <1>1, SuffixIs
<1> QED
  BY <1>2, <1>3

(* A text of a form reads as one number at most.                            *)
ReadingOf(s, r, e) ==
  IF e = "none" THEN AllDigits(s, r, Len(s)) ELSE Suffixed(s, r) /\ s[Len(s)] = e

(* A value is a number exactly if it reads as one, and then that number     *)
(* (bootargs.c 153-227).                                                    *)
THEOREM ValueFound ==
  ASSUME NEW s \in Seq(STRING)
  PROVE  ValueRight(s)
<1> DEFINE t == Unsigned(s)
           a == ReadDigits(Radix(t).rest, Radix(t).radix)
           Signs(n) == IF Negative(s) THEN 0 - n ELSE n
<1>1. t \in Seq(STRING)
  <2>1. s # <<>> => Tail(s) \in Seq(STRING)
    OBVIOUS
  <2> QED
    BY <2>1 DEF Unsigned, Negative
<1>2. getval(s) = IF a.state = "string" THEN STR ELSE NUM(Signs(a.n))
  BY Zenon DEF getval
<1>3. /\ Meanings(t) = {} => getval(s) = STR
      /\ Meanings(t) # {} => \E n \in Meanings(t) : Meanings(t) = {n} /\ getval(s) = NUM(Signs(n))
      => ValueRight(s)
  BY Zenon DEF ValueRight
<1> HIDE DEF t, Signs
<1>4. \A x : x \in Meanings(t) <=>
               \E f \in Forms, e \in Endings : ReadsAs(t, f, e) /\ x = Meant(t, f, e)
  <2>1. \A y \in Forms \X Endings : y[1] \in Forms /\ y[2] \in Endings
    OBVIOUS
  <2>2. \A f \in Forms, e \in Endings :
          <<f, e>> \in Forms \X Endings /\ <<f, e>>[1] = f /\ <<f, e>>[2] = e
    OBVIOUS
  <2> DEFINE Y == {y \in Forms \X Endings : ReadsAs(t, y[1], y[2])}
  <2>3. Meanings(t) = {Meant(t, y[1], y[2]) : y \in Y}
    BY DEF Meanings
  <2>4. ASSUME NEW x, x \in Meanings(t)
        PROVE  \E f \in Forms, e \in Endings : ReadsAs(t, f, e) /\ x = Meant(t, f, e)
    <3>1. PICK y \in Y : x = Meant(t, y[1], y[2])
      BY <2>3, <2>4
    <3> QED
      BY <2>1, <3>1
  <2>5. ASSUME NEW f \in Forms, NEW e \in Endings, ReadsAs(t, f, e)
        PROVE  Meant(t, f, e) \in Meanings(t)
    <3>1. <<f, e>> \in Y
      BY <2>2, <2>5
    <3> QED
      BY <2>2, <2>3, <3>1
  <2> QED
    BY <2>4, <2>5
<1>5. CASE \A f \in Forms : ~Chosen(t, f)
  <2>1. Meanings(t) = {}
    BY <1>1, <1>4, <1>5, ReadsAsIs
  <2>2. Radix(t).radix = 0 /\ Radix(t).rest = <<"?">>
    BY <1>1, <1>5, RadixIs
  <2>3. ~AllDigits(<<"?">>, 0, Len(<<"?">>)) /\ ~Suffixed(<<"?">>, 0)
    <3>1. Value("?") = 99 /\ Len(<<"?">>) = 1 /\ <<"?">>[1] = "?"
      BY CharsAre
    <3>2. "?" \notin DOMAIN Suffix
      BY DEF Suffix
    <3> QED
      BY <3>1, <3>2 DEF AllDigits, Suffixed
  <2>4. a.state = "string"
    <3>1. <<"?">> \in Seq({"?"}) /\ 0 \in 0 .. 16
      OBVIOUS
    <3> QED
      BY <2>2, <2>3, <3>1, DigitsRead
  <2> QED
    BY <1>2, <1>3, <2>1, <2>4
<1>6. ASSUME NEW f \in Forms, Chosen(t, f) PROVE ValueRight(s)
  <2> DEFINE u == RestOf(t, f)
             r == RadixOf(f)
  <2>1. r \in 0 .. 16 /\ Len(PrefixOf(f)) <= Len(t)
    <3>1. r \in {10, 8, 16, 2}
      BY PrefixIs DEF Forms
    <3> QED
      BY <1>1, <1>6, <3>1, PrefixFits
  <2>2. /\ u \in Seq(STRING) /\ DigitsOf(t, f, "none") = u
        /\ \A e \in DOMAIN Suffix : DigitsOf(t, f, e) = SubSeq(u, 1, Len(u) - 1)
    BY <1>1, <2>1, RestHas
  <2>3. a = ReadDigits(u, r)
    BY <1>1, <1>6, RadixIs
  <2>4. \A g \in Forms, e \in Endings : ReadsAs(t, g, e) <=> g = f /\ ReadingOf(u, r, e)
    <3>1. ASSUME NEW g \in Forms, NEW e \in Endings, ReadsAs(t, g, e) PROVE g = f
      <4>1. Chosen(t, g)
        BY <1>1, <3>1, ReadsAsIs
      <4> QED
        BY <1>6, <4>1, OneForm
    <3>2. \A e \in Endings : ReadsAs(t, f, e) <=> ReadingOf(u, r, e)
      BY <1>1, <1>6, ReadsAsIs DEF ReadingOf
    <3> QED
      BY <3>1, <3>2
  <2> HIDE DEF u, r, a
  <2>5. \A x : x \in Meanings(t) <=> \E e \in Endings : ReadingOf(u, r, e) /\ x = Meant(t, f, e)
    BY <1>4, <2>4, Zenon
  <2>6. ASSUME NEW e \in Endings, ReadingOf(u, r, e),
               \A x \in Endings : ReadingOf(u, r, x) => x = e,
               a.state # "string", a.n = Meant(t, f, e)
        PROVE  ValueRight(s)
    <3>1. Meanings(t) = {Meant(t, f, e)}
      BY <2>5, <2>6, Zenon
    <3>2. getval(s) = NUM(Signs(Meant(t, f, e)))
      BY <1>2, <2>6, Zenon
    <3>3. Meanings(t) # {} /\ Meant(t, f, e) \in Meanings(t)
      BY <3>1, Zenon
    <3> QED
      BY <1>3, <3>1, <3>2, <3>3, Zenon
  <2>7. CASE AllDigits(u, r, Len(u))
    <3>1. ~Suffixed(u, r)
      BY <2>1, <2>2, <2>7, NotBoth
    <3>2. a = Reading(Worth(u, r), "digits") /\ Worth(u, r) \in Nat
      BY <2>1, <2>2, <2>3, <2>7, DigitsRead
    <3>3. Meant(t, f, "none") = Worth(u, r)
      <4>1. Meant(t, f, "none") = Worth(u, r) * 1
        <5>1. Factor("none") = 1
          BY DEF Factor
        <5> QED
          BY <2>2, <5>1, Zenon DEF Meant, r
      <4>2. PICK w \in Nat : w = Worth(u, r)
        BY <3>2
      <4>3. w * 1 = w
        OBVIOUS
      <4> QED
        BY <4>1, <4>2, <4>3, Zenon
    <3>4. a.state # "string" /\ a.n = Worth(u, r)
      BY <3>2 DEF Reading
    <3>5. "none" \in Endings /\ ReadingOf(u, r, "none")
      BY <2>7 DEF Endings, ReadingOf
    <3>6. \A x \in Endings : ReadingOf(u, r, x) => x = "none"
      BY <3>1 DEF ReadingOf
    <3> QED
      BY <2>6, <3>3, <3>4, <3>5, <3>6, Zenon
  <2>8. CASE Suffixed(u, r)
    <3>1. ~AllDigits(u, r, Len(u))
      BY <2>1, <2>2, <2>8, NotBoth
    <3>2. PICK e \in DOMAIN Suffix : e = u[Len(u)]
      BY <2>8 DEF Suffixed
    <3>3. a = Reading(Worth(SubSeq(u, 1, Len(u) - 1), r) * Suffix[e], "ended")
      BY <2>1, <2>2, <2>3, <2>8, <3>2, DigitsRead
    <3>4. e # "none" /\ e \in Endings /\ Factor(e) = Suffix[e]
      BY SuffixIs
    <3>5. Meant(t, f, e) = Worth(SubSeq(u, 1, Len(u) - 1), r) * Suffix[e]
      BY <2>2, <3>4, Zenon DEF Meant, r
    <3>6. a.state # "string" /\ a.n = Meant(t, f, e)
      BY <3>3, <3>5, Zenon DEF Reading
    <3>7. ReadingOf(u, r, e) /\ \A x \in Endings : ReadingOf(u, r, x) => x = e
      BY <2>8, <3>1, <3>2, <3>4 DEF ReadingOf
    <3> QED
      BY <2>6, <3>4, <3>6, <3>7, Zenon
  <2>9. CASE ~AllDigits(u, r, Len(u)) /\ ~Suffixed(u, r)
    <3>1. a.state = "string"
      BY <2>1, <2>2, <2>3, <2>9, DigitsRead
    <3>2. Meanings(t) = {}
      BY <2>5, <2>9 DEF ReadingOf
    <3> QED
      BY <1>2, <1>3, <3>1, <3>2
  <2> QED
    BY <2>7, <2>8, <2>9
<1> QED
  BY <1>5, <1>6

(* The first of some places of a line, or the place behind it.              *)
LEMMA FirstPlace ==
  ASSUME NEW n \in Nat, NEW T, T \subseteq 1 .. n
  PROVE  /\ Min(T \cup {n + 1}) \in T \cup {n + 1}
         /\ \A x \in T \cup {n + 1} : Min(T \cup {n + 1}) <= x
<1> DEFINE U == T \cup {n + 1}
<1>1. U \subseteq Nat /\ U # {}
  OBVIOUS
<1> HIDE DEF U
<1>2. PICK m \in U : \A x \in U : m <= x
  BY <1>1, LeastOf
<1>3. U \subseteq Int
  BY <1>1
<1>4. Min(U) = m
  BY <1>2, <1>3, MinIs
<1> QED
  BY <1>2, <1>4 DEF U

(* Where the next word begins.                                              *)
LEMMA BeginIs ==
  ASSUME NEW line \in Seq(STRING), NEW i \in 0 .. Len(line) + 1
  PROVE  LET b == BeginAfter(line, i)
         IN /\ b \in 1 .. Len(line) + 1
            /\ b <= Len(line) => b > i /\ ~Blank(line[b])
            /\ \A j \in 1 .. Len(line) : j > i /\ ~Blank(line[j]) => b <= j
<1> DEFINE T == {j \in i + 1 .. Len(line) : ~Blank(line[j])}
           b == BeginAfter(line, i)
<1>1. Len(line) \in Nat
  OBVIOUS
<1>2. b = Min(T \cup {Len(line) + 1})
  BY DEF BeginAfter
<1>3. T \subseteq 1 .. Len(line)
  BY <1>1
<1>4. \A j : j \in T <=> j \in i + 1 .. Len(line) /\ ~Blank(line[j])
  OBVIOUS
<1> HIDE DEF T, b
<1>5. b \in T \cup {Len(line) + 1} /\ \A x \in T \cup {Len(line) + 1} : b <= x
  BY <1>1, <1>2, <1>3, FirstPlace
<1>6. b \in 1 .. Len(line) + 1
  BY <1>1, <1>3, <1>5
<1>7. b <= Len(line) => b > i /\ ~Blank(line[b])
  <2>1. SUFFICES ASSUME b <= Len(line) PROVE b > i /\ ~Blank(line[b])
    OBVIOUS
  <2>2. b \in T
    BY <1>1, <1>5, <1>6, <2>1
  <2> QED
    BY <1>1, <1>4, <2>2
<1>8. ASSUME NEW j \in 1 .. Len(line), j > i, ~Blank(line[j]) PROVE b <= j
  <2>1. j \in T
    BY <1>1, <1>4, <1>8
  <2> QED
    BY <1>5, <2>1
<1> QED
  BY <1>6, <1>7, <1>8 DEF b

(* The characters that end a word that begins somewhere.                    *)
StopsIn(line, i, j) == Quote(line[j]) \/ (Blank(line[j]) /\ ~Quote(line[i]))

(* It is the first place that stops the word.                               *)
LEMMA EndIs ==
  ASSUME NEW line \in Seq(STRING), NEW i \in 0 .. Len(line) + 1
  PROVE  LET e == EndAfter(line, i)
         IN /\ e \in 1 .. Len(line) + 1
            /\ e <= Len(line) => e > i /\ StopsIn(line, i, e)
            /\ \A j \in 1 .. Len(line) : j > i /\ StopsIn(line, i, j) => e <= j
<1> DEFINE T == {j \in i + 1 .. Len(line) : StopsIn(line, i, j)}
           e == EndAfter(line, i)
<1>1. Len(line) \in Nat
  OBVIOUS
<1>2. e = Min(T \cup {Len(line) + 1})
  BY DEF EndAfter, StopsIn
<1>3. T \subseteq 1 .. Len(line)
  BY <1>1
<1>4. \A j : j \in T <=> j \in i + 1 .. Len(line) /\ StopsIn(line, i, j)
  OBVIOUS
<1> HIDE DEF T, e
<1>5. e \in T \cup {Len(line) + 1} /\ \A x \in T \cup {Len(line) + 1} : e <= x
  BY <1>1, <1>2, <1>3, FirstPlace
<1>6. e \in 1 .. Len(line) + 1
  BY <1>1, <1>3, <1>5
<1>7. e <= Len(line) => e > i /\ StopsIn(line, i, e)
  <2>1. SUFFICES ASSUME e <= Len(line) PROVE e > i /\ StopsIn(line, i, e)
    OBVIOUS
  <2>2. e \in T
    BY <1>1, <1>5, <1>6, <2>1
  <2> QED
    BY <1>1, <1>4, <2>2
<1>8. ASSUME NEW j \in 1 .. Len(line), j > i, StopsIn(line, i, j) PROVE e <= j
  <2>1. j \in T
    BY <1>1, <1>4, <1>8
  <2> QED
    BY <1>5, <2>1
<1> QED
  BY <1>6, <1>7, <1>8 DEF e

(* The ends of words, each from the one before it.                          *)
LEMMA WordEndsAre ==
  ASSUME NEW line \in Seq(STRING)
  PROVE  /\ WordEnds(line)[0] = 0
         /\ \A k \in 0 .. Len(line) : WordEnds(line)[k] \in 0 .. Len(line) + 1
         /\ \A k \in 1 .. Len(line) : WordEnds(line)[k] = EndAfter(line, WordBegin(line, k))
<1> DEFINE n == Len(line)
           S == 0 .. Len(line) + 1
           Next1(k, x) == EndAfter(line, BeginAfter(line, x))
           Is(f) == f = [k \in 0 .. n |-> IF k = 0 THEN 0 ELSE Next1(k, f[k - 1])]
           end == CHOOSE f : Is(f)
           step == [p \in (1 .. n) \X S |-> Next1(p[1], p[2])]
<1>1. WordEnds(line) = end
  BY DEF WordEnds
<1>2. n \in Nat /\ 0 \in S
  OBVIOUS
<1>3. \A k \in 1 .. n, x \in S : step[<<k, x>>] = Next1(k, x) /\ Next1(k, x) \in S
  <2>1. ASSUME NEW x \in S PROVE EndAfter(line, BeginAfter(line, x)) \in S
    <3>1. BeginAfter(line, x) \in 0 .. Len(line) + 1
      BY BeginIs
    <3>2. EndAfter(line, BeginAfter(line, x)) \in 1 .. Len(line) + 1
      BY <3>1, EndIs
    <3> QED
      BY <3>2
  <2> QED
    BY <2>1
<1> HIDE DEF n, step, S, Next1
<1>4. \A k \in 1 .. n, x \in S : step[<<k, x>>] \in S
  BY <1>3
<1>5. PICK f \in [0 .. n -> S] : Chain(f, n, 0, step)
  BY <1>2, <1>4, Recursion
<1>6. Is(f)
  <2> DEFINE unfolded == [k \in 0 .. n |-> IF k = 0 THEN 0 ELSE Next1(k, f[k - 1])]
  <2>1. f[0] = unfolded[0]
    BY <1>2, <1>5 DEF Chain
  <2>2. ASSUME NEW k \in 1 .. n PROVE f[k] = unfolded[k]
    <3>1. k - 1 \in 0 .. n /\ f[k - 1] \in S /\ k \in 0 .. n /\ k # 0
      BY <1>2, <1>5
    <3>2. f[k] = Next1(k, f[k - 1])
      BY <1>3, <1>5, <3>1 DEF Chain
    <3> QED
      BY <3>1, <3>2
  <2> HIDE DEF unfolded
  <2>3. \A k \in 0 .. n : f[k] = unfolded[k]
    <3>1. \A k \in 0 .. n : k = 0 \/ k \in 1 .. n
      BY <1>2
    <3> QED
      BY <2>1, <2>2, <3>1
  <2>4. unfolded = [k \in 0 .. n |-> unfolded[k]] /\ f = [k \in 0 .. n |-> f[k]]
    BY <1>5 DEF unfolded
  <2>5. f = unfolded
    BY <2>3, <2>4, SameFunction
  <2> QED
    BY <2>5 DEF unfolded
<1>7. Is(end)
  BY <1>6
<1> HIDE DEF end
<1>8. end[0] = 0 /\ \A k \in 1 .. n : end[k] = Next1(k, end[k - 1])
  <2>1. 0 \in 0 .. n /\ \A k \in 1 .. n : k \in 0 .. n /\ k # 0
    BY <1>2
  <2>2. \A k \in 0 .. n : end[k] = IF k = 0 THEN 0 ELSE Next1(k, end[k - 1])
    BY <1>7
  <2> QED
    BY <2>1, <2>2

<1> DEFINE T == {k \in 0 .. n : end[k] \in S}
<1>9. 0 \in T
  <2>1. 0 \in 0 .. n
    BY <1>2
  <2> QED
    BY <1>2, <1>8, <2>1
<1>10. ASSUME NEW k \in 1 .. n, k - 1 \in T PROVE k \in T
  <2>1. end[k - 1] \in S
    BY <1>10
  <2>2. end[k] \in S
    BY <1>3, <1>8, <2>1
  <2>3. k \in 0 .. n
    BY <1>2
  <2> QED
    BY <2>2, <2>3
<1>11. \A k \in 0 .. n : end[k] \in S
  <2> HIDE DEF T
  <2>1. \A k \in 0 .. n : k \in T
    BY <1>2, <1>9, <1>10, Upwards
  <2> QED
    BY <2>1 DEF T
<1>12. \A k \in 1 .. n : end[k] = EndAfter(line, WordBegin(line, k))
  BY <1>1, <1>8 DEF Next1, WordBegin
<1> QED
  BY <1>1, <1>8, <1>11, <1>12 DEF n, S

(* Words are in order.                                                      *)
LEMMA WordsInOrder ==
  ASSUME NEW line \in Seq(STRING)
  PROVE  /\ \A k \in 1 .. Len(line) :
              LET b == WordBegin(line, k)
                  e == WordEnds(line)[k]
              IN b \in 1 .. Len(line) + 1 /\ WordEnds(line)[k - 1] <= b /\ b <= e
                 /\ (b <= Len(line) => WordEnds(line)[k - 1] < b /\ b < e)
         /\ \A k \in 0 .. Len(line), j \in 0 .. Len(line) :
              j <= k => WordEnds(line)[j] <= WordEnds(line)[k]
<1> DEFINE n == Len(line)
           end == WordEnds(line)
<1>1. n \in Nat
  OBVIOUS
<1>2. \A k \in 0 .. n : end[k] \in 0 .. n + 1
  BY WordEndsAre
<1>3. ASSUME NEW k \in 1 .. n
      PROVE  LET b == WordBegin(line, k)
                 e == end[k]
             IN b \in 1 .. n + 1 /\ end[k - 1] <= b /\ b <= e
                /\ (b <= n => end[k - 1] < b /\ b < e)
  <2>1. k - 1 \in 0 .. n /\ k \in 0 .. n
    BY <1>1
  <2>2. PICK p \in 0 .. n + 1 : p = end[k - 1]
    BY <1>2, <2>1
  <2>3. PICK b : b = WordBegin(line, k)
    OBVIOUS
  <2>4. b = BeginAfter(line, p)
    BY <2>2, <2>3 DEF WordBegin
  <2>5. b \in 1 .. n + 1 /\ (b <= n => p < b)
    BY <2>4, BeginIs
  <2>6. PICK e : e = end[k]
    OBVIOUS
  <2>7. e = EndAfter(line, b)
    BY <2>3, <2>6, WordEndsAre
  <2>8. e \in 1 .. n + 1 /\ (e <= n => b < e)
    <3>1. b \in 0 .. n + 1
      BY <1>1, <2>5
    <3> QED
      BY <2>7, <3>1, EndIs
  <2> HIDE DEF n, end
  <2>9. p <= b /\ b <= e /\ (b <= n => p < b /\ b < e)
    BY <1>1, <2>2, <2>5, <2>8
  <2> QED
    BY <2>2, <2>3, <2>5, <2>6, <2>9
<1> HIDE DEF n, end
<1>4. \A k \in 1 .. n : end[k - 1] <= end[k]
  <2>1. ASSUME NEW k \in 1 .. n PROVE end[k - 1] <= end[k]
    <3>1. k - 1 \in 0 .. n /\ k \in 0 .. n
      BY <1>1
    <3>2. PICK p \in 0 .. n + 1, b \in 1 .. n + 1, e \in 0 .. n + 1 :
            p = end[k - 1] /\ b = WordBegin(line, k) /\ e = end[k]
      BY <1>2, <1>3, <3>1
    <3>3. p <= b /\ b <= e
      BY <1>3, <3>2
    <3> QED
      BY <3>2, <3>3
  <2> QED
    BY <2>1
<1> DEFINE T == {k \in 0 .. n : \A j \in 0 .. k : end[j] <= end[k]}
<1>5. 0 \in T
  <2>1. 0 \in 0 .. n /\ \A j \in 0 .. 0 : j = 0
    BY <1>1
  <2>2. end[0] <= end[0]
    BY <1>2, <2>1
  <2> QED
    BY <2>1, <2>2
<1>6. ASSUME NEW k \in 1 .. n, k - 1 \in T PROVE k \in T
  <2>1. k \in 0 .. n /\ k - 1 \in 0 .. n
    BY <1>1
  <2>2. ASSUME NEW j \in 0 .. k PROVE end[j] <= end[k]
    <3>1. j \in 0 .. n
      BY <1>1
    <3>2. PICK x \in 0 .. n + 1, y \in 0 .. n + 1, z \in 0 .. n + 1 :
            x = end[j] /\ y = end[k - 1] /\ z = end[k]
      BY <1>2, <2>1, <3>1
    <3>3. y <= z
      BY <1>4, <3>2
    <3>4. CASE j = k
      BY <3>2, <3>4
    <3>5. CASE j # k
      <4>1. j \in 0 .. k - 1
        BY <3>5
      <4>2. x <= y
        BY <1>6, <3>2, <4>1
      <4>3. x <= z
        BY <3>3, <4>2
      <4> QED
        BY <3>2, <4>3
    <3> QED
      BY <3>4, <3>5
  <2> QED
    BY <2>1, <2>2
<1>7. \A k \in 0 .. n : k \in T
  <2> HIDE DEF T
  <2> QED
    BY <1>1, <1>5, <1>6, Upwards
<1>8. \A k \in 0 .. n, j \in 0 .. n : j <= k => end[j] <= end[k]
  <2>1. \A k \in 0 .. n, j \in 0 .. n : j <= k => j \in 0 .. k
    BY <1>1
  <2> QED
    BY <1>7, <2>1
<1> QED
  BY <1>3, <1>8 DEF n, end

(* What was scanned up to a place, when k words have begun there.           *)
PlacesKept(line, k, places) ==
  /\ places \in Seq(Nat) /\ Len(places) = (IF k < MaxArgs THEN k ELSE MaxArgs)
  /\ \A j \in 1 .. Len(places) : places[j] = FirstOf(line, WordBegin(line, j))
CutsUpTo(line, i, k, cuts) ==
  \A x : x \in cuts <=> x \in 1 .. i /\ \E j \in 1 .. k : x = WordEnds(line)[j]
WordOpen(line, i, k) == k >= 1 /\ WordEnds(line)[k] > i
ScannedTo(line, i, k, a) ==
  /\ k \in 0 .. i
  /\ k >= 1 => WordBegin(line, k) <= i
  /\ BeginAfter(line, WordEnds(line)[k]) > i
  /\ a.arg <=> WordOpen(line, i, k)
  /\ a.escaping <=> WordOpen(line, i, k) /\ Quote(line[WordBegin(line, k)])
  /\ PlacesKept(line, k, a.argv)
  /\ CutsUpTo(line, i, k, a.cuts)

(* A quote is no blank.                                                     *)
LEMMA QuoteIsNoBlank == \A c : ~(Quote(c) /\ Blank(c))
  BY DEF Quote, Blank

(* A place more, where no word ends, and where one does.                    *)
LEMMA CutsOn ==
  ASSUME NEW line, NEW i \in Nat \ {0}, NEW k, NEW cuts, CutsUpTo(line, i - 1, k, cuts)
  PROVE  /\ (\A j \in 1 .. k : WordEnds(line)[j] # i) => CutsUpTo(line, i, k, cuts)
         /\ (\E j \in 1 .. k : WordEnds(line)[j] = i) => CutsUpTo(line, i, k, cuts \cup {i})
<1>1. \A x : x \in 1 .. i <=> x \in 1 .. i - 1 \/ x = i
  OBVIOUS
<1> QED
  BY <1>1, Zenon DEF CutsUpTo

(* One character inside a word.                                             *)
LEMMA ScannedInside ==
  ASSUME NEW line \in Seq(STRING), NEW i \in 1 .. Len(line), NEW k, NEW a,
         ScannedTo(line, i - 1, k, a), a.arg
  PROVE  ScannedTo(line, i, k, ScanOne(a, line[i], i))
<1> DEFINE n == Len(line)
<1>1. n \in Nat /\ i \in Nat \ {0} /\ k \in 1 .. n /\ k \in 0 .. i /\ i <= n
  BY DEF ScannedTo, WordOpen
<1> HIDE DEF n
<1>2. \A m \in 0 .. n : WordEnds(line)[m] \in 0 .. n + 1
  BY WordEndsAre DEF n
<1>3. PICK b \in 1 .. n + 1, e \in 0 .. n + 1, p \in 0 .. n + 1 :
        b = WordBegin(line, k) /\ e = WordEnds(line)[k] /\ p = WordEnds(line)[k - 1]
  <2>1. k \in 0 .. n /\ k - 1 \in 0 .. n
    BY <1>1
  <2>2. WordBegin(line, k) \in 1 .. n + 1
    BY <1>1, WordsInOrder DEF n
  <2> QED
    BY <1>2, <2>1, <2>2
<1>4. b <= i - 1 /\ e > i - 1 /\ p <= b
  <2>1. b <= i - 1 /\ e > i - 1
    BY <1>1, <1>3 DEF ScannedTo, WordOpen
  <2>2. p <= b
    BY <1>1, <1>3, WordsInOrder DEF n
  <2> QED
    BY <2>1, <2>2
<1>5. e = i <=> StopsIn(line, b, i)
  <2>1. e = EndAfter(line, b)
    BY <1>1, <1>3, WordEndsAre DEF n
  <2>2. b \in 0 .. Len(line) + 1
    BY <1>1, <1>3 DEF n
  <2>3. e <= n => StopsIn(line, b, e)
    BY <2>1, <2>2, EndIs DEF n
  <2>4. StopsIn(line, b, i) => e <= i
    <3>1. i > b
      BY <1>1, <1>3, <1>4
    <3> QED
      BY <2>1, <2>2, <3>1, EndIs
  <2>5. e = i => StopsIn(line, b, i)
    BY <1>1, <2>3
  <2>6. StopsIn(line, b, i) => e = i
    BY <1>1, <1>3, <1>4, <2>4
  <2> QED
    BY <2>5, <2>6
<1>6. BeginAfter(line, e) > i
  <2>1. PICK c : c = BeginAfter(line, e)
    OBVIOUS
  <2>2. c \in 1 .. n + 1 /\ (c <= n => c > e)
    BY <1>1, <1>3, <2>1, BeginIs DEF n
  <2>3. c > i
    BY <1>1, <1>3, <1>4, <2>2
  <2> QED
    BY <2>1, <2>3
<1>7. a.escaping <=> Quote(line[b])
  BY <1>3 DEF ScannedTo
<1>8. PlacesKept(line, k, a.argv) /\ CutsUpTo(line, i - 1, k, a.cuts)
  BY DEF ScannedTo
<1>9. b <= i
  BY <1>1, <1>3, <1>4
<1>10. CASE StopsIn(line, b, i)
  <2>1. ScanOne(a, line[i], i) = Scanned(FALSE, FALSE, a.argv, a.cuts \cup {i})
    BY <1>7, <1>10, Zenon DEF ScanOne, StopsIn
  <2>2. /\ ~ScanOne(a, line[i], i).arg /\ ~ScanOne(a, line[i], i).escaping
        /\ ScanOne(a, line[i], i).argv = a.argv /\ ScanOne(a, line[i], i).cuts = a.cuts \cup {i}
    BY <2>1 DEF Scanned
  <2>3. CutsUpTo(line, i, k, a.cuts \cup {i})
    <3>1. \E j \in 1 .. k : WordEnds(line)[j] = i
      <4>1. k \in 1 .. k
        BY <1>1
      <4> QED
        BY <1>3, <1>5, <1>10, <4>1
    <3> QED
      BY <1>1, <1>8, <3>1, CutsOn
  <2>4. ~WordOpen(line, i, k)
    BY <1>1, <1>3, <1>5, <1>10 DEF WordOpen
  <2> QED
    BY <1>1, <1>3, <1>6, <1>8, <1>9, <2>2, <2>3, <2>4, Zenon DEF ScannedTo
<1>11. CASE ~StopsIn(line, b, i)
  <2>1. ScanOne(a, line[i], i) = Scanned(TRUE, a.escaping \/ Quote(line[i]), a.argv, a.cuts)
    BY <1>7, <1>11, Zenon DEF ScanOne, StopsIn
  <2>2. /\ ScanOne(a, line[i], i).arg /\ (ScanOne(a, line[i], i).escaping <=> Quote(line[b]))
        /\ ScanOne(a, line[i], i).argv = a.argv /\ ScanOne(a, line[i], i).cuts = a.cuts
    <3>1. ~Quote(line[i])
      BY <1>11 DEF StopsIn
    <3>2. PICK q : q = (a.escaping \/ Quote(line[i]))
      OBVIOUS
    <3>3. q <=> Quote(line[b])
      BY <1>7, <3>1, <3>2
    <3> QED
      BY <2>1, <3>2, <3>3 DEF Scanned
  <2>3. CutsUpTo(line, i, k, a.cuts)
    <3>1. ASSUME NEW j \in 1 .. k PROVE WordEnds(line)[j] # i
      <4>1. CASE j = k
        BY <1>3, <1>5, <1>11, <4>1
      <4>2. CASE j # k
        <5>1. j \in 0 .. n /\ k - 1 \in 0 .. n /\ j <= k - 1
          BY <1>1, <4>2
        <5>2. PICK x \in 0 .. n + 1 : x = WordEnds(line)[j]
          BY <1>2, <5>1
        <5>3. x <= p
          BY <1>3, <5>1, <5>2, WordsInOrder DEF n
        <5> QED
          BY <1>1, <1>3, <1>4, <5>2, <5>3
      <4> QED
        BY <4>1, <4>2
    <3> QED
      BY <1>1, <1>8, <3>1, CutsOn
  <2>4. WordOpen(line, i, k)
    <3>1. e > i
      BY <1>1, <1>3, <1>4, <1>5, <1>11
    <3> QED
      BY <1>1, <1>3, <3>1 DEF WordOpen
  <2> QED
    BY <1>1, <1>3, <1>6, <1>8, <1>9, <2>2, <2>3, <2>4, Zenon DEF ScannedTo
<1> QED
  BY <1>10, <1>11

(* One character between words.                                             *)
LEMMA ScannedBetween ==
  ASSUME NEW line \in Seq(STRING), NEW i \in 1 .. Len(line), NEW k, NEW a,
         ScannedTo(line, i - 1, k, a), ~a.arg
  PROVE  \E m \in {k, k + 1} : ScannedTo(line, i, m, ScanOne(a, line[i], i))
<1> DEFINE n == Len(line)
<1>1. n \in Nat /\ i \in Nat \ {0} /\ k \in 0 .. n /\ k \in 0 .. i - 1 /\ i <= n
  BY DEF ScannedTo
<1> HIDE DEF n
<1>2. \A m \in 0 .. n : WordEnds(line)[m] \in 0 .. n + 1
  BY WordEndsAre DEF n
<1>3. PICK e \in 0 .. n + 1 : e = WordEnds(line)[k]
  BY <1>1, <1>2
<1>4. e <= i - 1
  <2>1. k = 0 => e = 0
    BY <1>3, WordEndsAre
  <2>2. k >= 1 => ~(e > i - 1)
    BY <1>3 DEF ScannedTo, WordOpen
  <2> QED
    BY <1>1, <1>3, <2>1, <2>2
<1>5. PICK c \in 1 .. n + 1 : c = BeginAfter(line, e)
  BY <1>3, BeginIs DEF n
<1>6. c > i - 1
  BY <1>3, <1>5 DEF ScannedTo
<1>7. c = i <=> ~Blank(line[i])
  <2>1. c <= n => ~Blank(line[c])
    BY <1>3, <1>5, BeginIs DEF n
  <2>2. ~Blank(line[i]) => c <= i
    <3>1. i > e
      BY <1>1, <1>3, <1>4
    <3> QED
      BY <1>3, <1>5, <3>1, BeginIs DEF n
  <2>3. c = i => ~Blank(line[i])
    BY <1>1, <2>1
  <2>4. ~Blank(line[i]) => c = i
    BY <1>1, <1>5, <1>6, <2>2
  <2> QED
    BY <2>3, <2>4
<1>8. PlacesKept(line, k, a.argv) /\ CutsUpTo(line, i - 1, k, a.cuts) /\ ~a.escaping
  BY DEF ScannedTo
<1>9. \A j \in 1 .. k : WordEnds(line)[j] # i
  <2>1. ASSUME NEW j \in 1 .. k PROVE WordEnds(line)[j] # i
    <3>1. j \in 0 .. n /\ j <= k
      BY <1>1
    <3>2. PICK x \in 0 .. n + 1 : x = WordEnds(line)[j]
      BY <1>2, <3>1
    <3>3. x <= e
      BY <1>1, <1>3, <3>1, <3>2, WordsInOrder DEF n
    <3> QED
      BY <1>1, <1>3, <1>4, <3>2, <3>3
  <2> QED
    BY <2>1
<1>10. CASE Blank(line[i])
  <2>1. ScanOne(a, line[i], i) = a
    BY <1>8, <1>10, QuoteIsNoBlank, Zenon DEF ScanOne
  <2>2. CutsUpTo(line, i, k, a.cuts)
    BY <1>1, <1>8, <1>9, CutsOn
  <2>3. ~WordOpen(line, i, k)
    BY <1>1, <1>3, <1>4 DEF WordOpen
  <2>4. BeginAfter(line, e) > i
    BY <1>1, <1>5, <1>6, <1>7, <1>10
  <2>5. k >= 1 => WordBegin(line, k) <= i
    <3>1. SUFFICES ASSUME k >= 1 PROVE WordBegin(line, k) <= i
      OBVIOUS
    <3>2. k \in 1 .. Len(line)
      BY <1>1, <3>1 DEF n
    <3>3. PICK b \in 1 .. n + 1 : b = WordBegin(line, k)
      BY <3>2, WordsInOrder DEF n
    <3>4. b <= i - 1
      BY <3>1, <3>3 DEF ScannedTo
    <3> QED
      BY <1>1, <3>3, <3>4
  <2>6. k \in 0 .. i
    BY <1>1
  <2>7. ScannedTo(line, i, k, a)
    BY <1>3, <1>8, <2>2, <2>3, <2>4, <2>5, <2>6, Zenon DEF ScannedTo
  <2> QED
    BY <2>1, <2>7
<1>11. CASE ~Blank(line[i])
  <2> DEFINE m == k + 1
             new == ScanOne(a, line[i], i)
             kept == IF Len(a.argv) < MaxArgs
                     THEN Append(a.argv, IF Quote(line[i]) THEN i + 1 ELSE i) ELSE a.argv
  <2>1. m \in 1 .. n /\ m \in 0 .. i /\ m - 1 = k /\ m >= 1
    BY <1>1
  <2>2. WordBegin(line, m) = i
    BY <1>3, <1>5, <1>7, <1>11, <2>1 DEF WordBegin
  <2>3. new.arg /\ (new.escaping <=> Quote(line[i])) /\ new.argv = kept /\ new.cuts = a.cuts
    <3>1. PICK q : q = (a.escaping \/ Quote(line[i]))
      OBVIOUS
    <3>2. q <=> Quote(line[i])
      BY <1>8, <3>1
    <3>3. new = Scanned(TRUE, q, IF Len(a.argv) < MaxArgs
                                 THEN Append(a.argv, IF q THEN i + 1 ELSE i) ELSE a.argv, a.cuts)
      BY <1>11, <3>1, Zenon DEF ScanOne
    <3>4. kept = IF Len(a.argv) < MaxArgs THEN Append(a.argv, IF q THEN i + 1 ELSE i) ELSE a.argv
      BY <3>2, Zenon
    <3> HIDE DEF new, kept
    <3> QED
      BY <3>2, <3>3, <3>4 DEF Scanned
  <2> HIDE DEF new
  <2>4. WordEnds(line)[m] \in 0 .. n + 1 /\ WordEnds(line)[m] > i
    <3>1. m \in 0 .. n
      BY <2>1
    <3>2. PICK x \in 0 .. n + 1 : x = WordEnds(line)[m]
      BY <1>2, <3>1
    <3>3. i <= n => i < x
      BY <2>1, <2>2, <3>2, WordsInOrder DEF n
    <3> QED
      BY <1>1, <3>2, <3>3
  <2>5. BeginAfter(line, WordEnds(line)[m]) > i
    <3>1. PICK x \in 0 .. n + 1 : x = WordEnds(line)[m]
      BY <2>4
    <3>2. PICK y : y = BeginAfter(line, x)
      OBVIOUS
    <3>3. y \in 1 .. n + 1 /\ (y <= n => y > x)
      BY <3>1, <3>2, BeginIs DEF n
    <3>4. y > i
      BY <1>1, <2>4, <3>1, <3>3
    <3> QED
      BY <3>1, <3>2, <3>4
  <2>6. WordOpen(line, i, m)
    BY <2>1, <2>4 DEF WordOpen
  <2>7. CutsUpTo(line, i, m, a.cuts)
    <3>1. CutsUpTo(line, i, k, a.cuts)
      BY <1>1, <1>8, <1>9, CutsOn
    <3>2. \A j : j \in 1 .. m <=> j \in 1 .. k \/ j = m
      BY <1>1
    <3>3. \A x : x \in 1 .. i => x # WordEnds(line)[m]
      BY <1>1, <2>4
    <3> QED
      BY <3>1, <3>2, <3>3, Zenon DEF CutsUpTo
  <2>8. PlacesKept(line, m, kept)
    <3>1. PICK x \in Nat : x = IF Quote(line[i]) THEN i + 1 ELSE i
      BY <1>1
    <3>2. x = FirstOf(line, WordBegin(line, m))
      BY <2>2, <3>1, Zenon DEF FirstOf
    <3>3. PICK s \in Seq(Nat) : s = a.argv
      BY <1>8 DEF PlacesKept
    <3>4. Len(s) = (IF k < MaxArgs THEN k ELSE MaxArgs) /\ k \in Nat /\ MaxArgs \in Nat \ {0}
      BY <1>1, <1>8, <3>3, ShellAssumption DEF PlacesKept
    <3>5. \A j \in 1 .. Len(s) : s[j] = FirstOf(line, WordBegin(line, j))
      BY <1>8, <3>3 DEF PlacesKept
    <3>6. CASE Len(s) < MaxArgs
      <4>1. kept = Append(s, x) /\ Len(s) = k /\ m = k + 1
        BY <3>1, <3>3, <3>4, <3>6
      <4> HIDE DEF kept, m
      <4>2. /\ Append(s, x) \in Seq(Nat) /\ Len(Append(s, x)) = Len(s) + 1
            /\ Append(s, x)[Len(s) + 1] = x /\ \A j \in 1 .. Len(s) : Append(s, x)[j] = s[j]
        BY AppendProperties
      <4>3. Len(kept) = IF m < MaxArgs THEN m ELSE MaxArgs
        BY <3>4, <3>6, <4>1, <4>2
      <4>4. \A j \in 1 .. Len(kept) : kept[j] = FirstOf(line, WordBegin(line, j))
        <5>1. \A j \in 1 .. Len(kept) : j \in 1 .. Len(s) \/ j = m
          BY <3>4, <4>1, <4>2
        <5> QED
          BY <3>2, <3>5, <4>1, <4>2, <5>1
      <4> QED
        BY <4>1, <4>2, <4>3, <4>4 DEF PlacesKept
    <3>7. CASE ~(Len(s) < MaxArgs)
      <4>1. kept = s /\ Len(s) = IF m < MaxArgs THEN m ELSE MaxArgs
        BY <3>3, <3>4, <3>7
      <4> HIDE DEF kept, m
      <4> QED
        BY <3>5, <4>1 DEF PlacesKept
    <3> QED
      BY <3>6, <3>7
  <2> HIDE DEF kept
  <2>9. i <= i
    BY <1>1
  <2>10. ScannedTo(line, i, m, new)
    <3> HIDE DEF m
    <3> QED
      BY <2>1, <2>2, <2>3, <2>5, <2>6, <2>7, <2>8, <2>9, Zenon DEF ScannedTo
  <2> QED
    BY <2>10 DEF new
<1> QED
  BY <1>10, <1>11

(* What scan holds at every place: the sets its fields are in.              *)
ScanStates == [arg : BOOLEAN, escaping : BOOLEAN, argv : Seq(Nat), cuts : SUBSET Nat]

(* One character takes a state of scan to one.                              *)
LEMMA ScanStays ==
  ASSUME NEW a \in ScanStates, NEW c, NEW i \in Nat
  PROVE  ScanOne(a, c, i) \in ScanStates
<1>1. PICK s \in Seq(Nat), q \in SUBSET Nat, g \in BOOLEAN, z \in BOOLEAN :
        s = a.argv /\ q = a.cuts /\ g = a.arg /\ z = a.escaping
  BY DEF ScanStates
<1>2. \A x \in BOOLEAN, y \in BOOLEAN, t \in Seq(Nat), u \in SUBSET Nat :
        Scanned(x, y, t, u) \in ScanStates
  BY DEF Scanned, ScanStates
<1>3. PICK y \in BOOLEAN : y = (a.escaping \/ Quote(c))
  OBVIOUS
<1>4. q \cup {i} \in SUBSET Nat /\ i + 1 \in Nat
  OBVIOUS
<1>5. PICK p \in Nat : p = IF y THEN i + 1 ELSE i
  OBVIOUS
<1>6. Append(s, p) \in Seq(Nat)
  BY AppendProperties
<1>7. PICK t \in Seq(Nat) : t = IF Len(s) < MaxArgs THEN Append(s, p) ELSE s
  BY <1>6
<1>8. \/ ScanOne(a, c, i) = Scanned(FALSE, FALSE, s, q \cup {i})
      \/ ScanOne(a, c, i) = Scanned(TRUE, y, s, q)
      \/ ScanOne(a, c, i) = a
      \/ ScanOne(a, c, i) = Scanned(TRUE, y, t, q)
  BY <1>1, <1>3, <1>5, <1>7, Zenon DEF ScanOne
<1> QED
  BY <1>2, <1>4, <1>8, Zenon

(* A line is scanned to its end.                                            *)
LEMMA ScannedWhole ==
  ASSUME NEW line \in Seq(STRING)
  PROVE  \E k : ScannedTo(line, Len(line), k, Scan(line))
<1> DEFINE n == Len(line)
           S == ScanStates
           Next1(k, x) == ScanOne(x, line[k], k)
           Is(f) == f = [k \in 0 .. n |-> IF k = 0 THEN Scanned(FALSE, FALSE, <<>>, {}) ELSE Next1(k, f[k - 1])]
           scan == CHOOSE f : Is(f)
           step == [p \in (1 .. n) \X S |-> Next1(p[1], p[2])]
<1>1. Scan(line) = scan[n]
  BY DEF Scan
<1>2. n \in Nat /\ Scanned(FALSE, FALSE, <<>>, {}) \in S
  <2>1. FALSE \in BOOLEAN /\ <<>> \in Seq(Nat) /\ {} \in SUBSET Nat
    OBVIOUS
  <2> QED
    BY <2>1 DEF Scanned, ScanStates
<1>3. \A k \in 1 .. n, x \in S : step[<<k, x>>] = Next1(k, x) /\ Next1(k, x) \in S
  BY ScanStays
<1> HIDE DEF n, step, S, Next1
<1>4. \A k \in 1 .. n, x \in S : step[<<k, x>>] \in S
  BY <1>3
<1>5. PICK f \in [0 .. n -> S] : Chain(f, n, Scanned(FALSE, FALSE, <<>>, {}), step)
  BY <1>2, <1>4, Recursion
<1>6. Is(f)
  <2> DEFINE unfolded == [k \in 0 .. n |-> IF k = 0 THEN Scanned(FALSE, FALSE, <<>>, {}) ELSE Next1(k, f[k - 1])]
  <2>1. f[0] = unfolded[0]
    BY <1>2, <1>5 DEF Chain
  <2>2. ASSUME NEW k \in 1 .. n PROVE f[k] = unfolded[k]
    <3>1. k - 1 \in 0 .. n /\ f[k - 1] \in S /\ k \in 0 .. n /\ k # 0
      BY <1>2, <1>5
    <3>2. f[k] = Next1(k, f[k - 1])
      BY <1>3, <1>5, <3>1 DEF Chain
    <3> QED
      BY <3>1, <3>2
  <2> HIDE DEF unfolded
  <2>3. \A k \in 0 .. n : f[k] = unfolded[k]
    <3>1. \A k \in 0 .. n : k = 0 \/ k \in 1 .. n
      BY <1>2
    <3> QED
      BY <2>1, <2>2, <3>1
  <2>4. unfolded = [k \in 0 .. n |-> unfolded[k]] /\ f = [k \in 0 .. n |-> f[k]]
    BY <1>5 DEF unfolded
  <2>5. f = unfolded
    BY <2>3, <2>4, SameFunction
  <2> QED
    BY <2>5 DEF unfolded
<1>7. Is(scan)
  BY <1>6
<1> HIDE DEF scan
<1>8. scan[0] = Scanned(FALSE, FALSE, <<>>, {}) /\ \A k \in 1 .. n : scan[k] = Next1(k, scan[k - 1])
  <2>1. 0 \in 0 .. n /\ \A k \in 1 .. n : k \in 0 .. n /\ k # 0
    BY <1>2
  <2>2. \A k \in 0 .. n : scan[k] = IF k = 0 THEN Scanned(FALSE, FALSE, <<>>, {}) ELSE Next1(k, scan[k - 1])
    BY <1>7
  <2> QED
    BY <2>1, <2>2

<1> DEFINE T == {i \in 0 .. n : \E k : ScannedTo(line, i, k, scan[i])}
<1>9. 0 \in T
  <2>1. /\ ~scan[0].arg /\ ~scan[0].escaping /\ scan[0].argv = <<>> /\ scan[0].cuts = {}
    BY <1>8 DEF Scanned
  <2>2. ~WordOpen(line, 0, 0)
    BY DEF WordOpen
  <2>3. BeginAfter(line, WordEnds(line)[0]) > 0
    <3>1. WordEnds(line)[0] \in 0 .. Len(line) + 1
      BY <1>2, WordEndsAre DEF n
    <3>2. PICK b : b = BeginAfter(line, WordEnds(line)[0])
      OBVIOUS
    <3>3. b \in 1 .. Len(line) + 1
      BY <3>1, <3>2, BeginIs
    <3>4. b > 0
      BY <3>3
    <3> QED
      BY <3>2, <3>4
  <2>4. PlacesKept(line, 0, <<>>)
    BY ShellAssumption DEF PlacesKept
  <2>5. CutsUpTo(line, 0, 0, {})
    BY DEF CutsUpTo
  <2>6. 0 \in 0 .. 0 /\ ~(0 >= 1) /\ 0 \in 0 .. n
    BY <1>2
  <2>7. ScannedTo(line, 0, 0, scan[0])
    BY <2>1, <2>2, <2>3, <2>4, <2>5, <2>6, Zenon DEF ScannedTo
  <2> QED
    BY <2>6, <2>7
<1>10. ASSUME NEW i \in 1 .. n, i - 1 \in T PROVE i \in T
  <2>1. PICK k : ScannedTo(line, i - 1, k, scan[i - 1])
    BY <1>10
  <2>2. i \in 1 .. Len(line) /\ i \in 0 .. n
    BY <1>2 DEF n
  <2>3. \E m : ScannedTo(line, i, m, ScanOne(scan[i - 1], line[i], i))
    <3>1. CASE scan[i - 1].arg
      BY <2>1, <2>2, <3>1, ScannedInside
    <3>2. CASE ~scan[i - 1].arg
      BY <2>1, <2>2, <3>2, ScannedBetween
    <3> QED
      BY <3>1, <3>2
  <2>4. scan[i] = ScanOne(scan[i - 1], line[i], i)
    BY <1>8 DEF Next1
  <2> QED
    BY <2>2, <2>3, <2>4
<1> HIDE DEF T
<1>11. n \in T
  <2>1. \A k \in 0 .. n : k \in T
    BY <1>2, <1>9, <1>10, Upwards
  <2> QED
    BY <1>2, <2>1
<1> QED
  BY <1>1, <1>11 DEF T, n

(* The number of words, and the words.                                      *)
LEMMA WordsOfLine ==
  ASSUME NEW line \in Seq(STRING), NEW a, NEW k, ScannedTo(line, Len(line), k, a)
  PROVE  /\ k \in 0 .. Len(line)
         /\ Words(line) \in Seq(Seq(STRING)) /\ Len(Words(line)) = k
         /\ \A j \in 1 .. k :
              /\ WordBegin(line, j) \in 1 .. Len(line)
              /\ Words(line)[j] = SubSeq(line, FirstOf(line, WordBegin(line, j)),
                                         WordEnds(line)[j] - 1)
<1> DEFINE n == Len(line)
           began == {j \in 1 .. n : WordBegin(line, j) <= n}
           Word(j) == SubSeq(line, FirstOf(line, WordBegin(line, j)), WordEnds(line)[j] - 1)
<1>1. n \in Nat /\ k \in 0 .. n
  BY DEF ScannedTo
<1>2. BeginAfter(line, WordEnds(line)[k]) > n
  BY DEF ScannedTo
<1>3. k >= 1 => WordBegin(line, k) <= n
  BY DEF ScannedTo
<1>4. Words(line) = [j \in 1 .. Max({0} \cup began) |-> Word(j)]
  BY DEF Words
<1>5. \A j : j \in began <=> j \in 1 .. n /\ WordBegin(line, j) <= n
  OBVIOUS
<1> HIDE DEF n, began
<1>6. \A m \in 0 .. n : WordEnds(line)[m] \in 0 .. n + 1
  BY WordEndsAre DEF n
<1>7. PICK e \in 0 .. n + 1 : e = WordEnds(line)[k]
  BY <1>1, <1>6
<1>8. ASSUME NEW j \in began, j > k PROVE FALSE
  <2>1. j \in 1 .. n /\ j - 1 \in 0 .. n /\ k <= j - 1
    BY <1>1, <1>5, <1>8
  <2>2. PICK p \in 0 .. n + 1, b \in 1 .. n + 1 :
          p = WordEnds(line)[j - 1] /\ b = WordBegin(line, j)
    <3>1. WordBegin(line, j) \in 1 .. n + 1
      BY <2>1, WordsInOrder DEF n
    <3> QED
      BY <1>6, <2>1, <3>1
  <2>3. b <= n
    BY <1>5, <1>8, <2>2
  <2>4. e <= p
    BY <1>1, <1>7, <2>1, <2>2, WordsInOrder DEF n
  <2>5. p < b
    BY <2>1, <2>2, <2>3, WordsInOrder DEF n
  <2>6. b = BeginAfter(line, p)
    BY <2>2 DEF WordBegin
  <2>7. ~Blank(line[b])
    BY <2>2, <2>3, <2>6, BeginIs DEF n
  <2>8. b \in 1 .. n /\ b > e
    BY <1>1, <1>7, <2>2, <2>3, <2>4, <2>5
  <2>9. PICK c : c = BeginAfter(line, e)
    OBVIOUS
  <2>10. c \in 1 .. n + 1 /\ c <= b
    BY <1>7, <2>7, <2>8, <2>9, BeginIs DEF n
  <2>11. c > n
    BY <1>2, <1>7, <2>9
  <2> QED
    BY <1>1, <2>3, <2>10, <2>11, <2>2
<1>9. Max({0} \cup began) = k
  <2>1. {0} \cup began \subseteq Int
    BY <1>5
  <2>2. k \in {0} \cup began
    BY <1>1, <1>3, <1>5
  <2>3. \A j \in {0} \cup began : j <= k
    <3>1. \A j \in {0} \cup began : j \in Nat /\ ~(j > k)
      BY <1>1, <1>5, <1>8
    <3> QED
      BY <1>1, <3>1
  <2> QED
    BY <2>1, <2>2, <2>3, MaxIs
<1>10. ASSUME NEW j \in 1 .. k PROVE WordBegin(line, j) \in 1 .. n /\ Word(j) \in Seq(STRING)
  <2>1. j \in 1 .. n /\ j \in 0 .. n /\ k - 1 \in 0 .. n
    BY <1>1
  <2>2. PICK b \in 1 .. n + 1, x \in 0 .. n + 1 : b = WordBegin(line, j) /\ x = WordEnds(line)[j]
    <3>1. WordBegin(line, j) \in 1 .. n + 1
      BY <2>1, WordsInOrder DEF n
    <3> QED
      BY <1>6, <2>1, <3>1
  <2>3. b <= n
    <3>1. CASE j = k
      BY <1>1, <1>3, <2>2, <3>1
    <3>2. CASE j # k
      <4>1. j <= k - 1 /\ k \in 1 .. n /\ k >= 1
        BY <1>1, <3>2
      <4>2. PICK y \in 0 .. n + 1, z \in 1 .. n + 1 :
              y = WordEnds(line)[k - 1] /\ z = WordBegin(line, k)
        <5>1. WordBegin(line, k) \in 1 .. n + 1
          BY <4>1, WordsInOrder DEF n
        <5> QED
          BY <1>6, <2>1, <5>1
      <4>3. b <= x
        BY <2>1, <2>2, WordsInOrder DEF n
      <4>4. x <= y
        BY <2>1, <2>2, <4>1, <4>2, WordsInOrder DEF n
      <4>5. y <= z
        BY <4>1, <4>2, WordsInOrder DEF n
      <4>6. z <= n
        BY <1>3, <4>1, <4>2
      <4> QED
        BY <1>1, <2>2, <4>2, <4>3, <4>4, <4>5, <4>6
    <3> QED
      BY <3>1, <3>2
  <2>4. PICK p \in 1 .. n + 1 : p = FirstOf(line, b)
    BY <1>1, <2>2, <2>3 DEF FirstOf
  <2>5. \A i \in p .. x - 1 : line[i] \in STRING
    <3>1. \A i \in p .. x - 1 : i \in 1 .. n
      BY <1>1, <2>2, <2>4
    <3> QED
      BY <3>1 DEF n
  <2>6. SubSeq(line, p, x - 1) \in Seq(STRING)
    <3>1. p \in Int /\ x - 1 \in Int
      BY <2>2, <2>4
    <3> QED
      BY <2>5, <3>1, SubSeqProperties
  <2>7. b \in 1 .. n
    BY <2>2, <2>3, <1>1
  <2> QED
    BY <2>2, <2>4, <2>6, <2>7
<1> HIDE DEF Word
<1>11. Words(line) = [j \in 1 .. k |-> Word(j)]
  BY <1>4, <1>9
<1>12. Words(line) \in Seq(Seq(STRING)) /\ Len(Words(line)) = k
  <2>1. Words(line) \in [1 .. k -> Seq(STRING)] /\ k \in Nat
    BY <1>1, <1>10, <1>11
  <2> QED
    BY <2>1
<1>13. \A j \in 1 .. k : Words(line)[j] = Word(j)
  BY <1>11
<1> QED
  BY <1>1, <1>10, <1>12, <1>13 DEF Word, n

(* A pointer to a word reads up to its end.                                 *)
LEMMA ReadsTheWord ==
  ASSUME NEW line \in Seq(STRING), NEW a, NEW k, ScannedTo(line, Len(line), k, a), NEW j \in 1 .. k
  PROVE  StringAt(line, a.cuts, FirstOf(line, WordBegin(line, j))) = Words(line)[j]
<1> DEFINE n == Len(line)
<1>1. n \in Nat /\ k \in 0 .. n /\ j \in 1 .. n /\ j \in 0 .. n
  BY DEF ScannedTo
<1> HIDE DEF n
<1>2. \A m \in 0 .. n : WordEnds(line)[m] \in 0 .. n + 1
  BY WordEndsAre DEF n
<1>3. PICK b \in 1 .. n, e \in 0 .. n + 1 : b = WordBegin(line, j) /\ e = WordEnds(line)[j]
  <2>1. WordBegin(line, j) \in 1 .. n
    BY WordsOfLine DEF n
  <2> QED
    BY <1>1, <1>2, <2>1
<1>4. b < e
  <2>1. b <= n
    BY <1>1, <1>3
  <2> QED
    BY <1>1, <1>3, <2>1, WordsInOrder DEF n
<1>5. PICK p \in b .. b + 1 : p = FirstOf(line, b)
  BY <1>3 DEF FirstOf
<1> DEFINE U == {i \in p .. n + 1 : i \in a.cuts \/ i = n + 1}
<1>6. e \in p .. n + 1
  BY <1>1, <1>3, <1>4, <1>5
<1>7. \A x : x \in a.cuts <=> x \in 1 .. n /\ \E m \in 1 .. k : x = WordEnds(line)[m]
  BY DEF ScannedTo, CutsUpTo, n
<1>8. e \in U
  <2>1. CASE e = n + 1
    BY <1>6, <2>1
  <2>2. CASE e # n + 1
    <3>1. e \in 1 .. n
      BY <1>1, <1>3, <1>4, <2>2
    <3>2. e \in a.cuts
      BY <1>3, <1>7, <3>1
    <3> QED
      BY <1>6, <3>2
  <2> QED
    BY <2>1, <2>2
<1>9. ASSUME NEW x \in U PROVE e <= x
  <2>1. CASE x = n + 1
    BY <1>1, <1>3, <2>1
  <2>2. CASE x # n + 1
    <3>1. x \in a.cuts /\ x \in p .. n + 1
      BY <1>9, <2>2
    <3>2. PICK m \in 1 .. k : x = WordEnds(line)[m]
      BY <1>7, <3>1
    <3>3. m \in 0 .. n
      BY <1>1
    <3>4. CASE j <= m
      BY <1>1, <1>3, <3>2, <3>3, <3>4, WordsInOrder DEF n
    <3>5. CASE ~(j <= m)
      <4>1. m <= j - 1 /\ j - 1 \in 0 .. n
        BY <1>1, <3>3, <3>5
      <4>2. PICK y \in 0 .. n + 1 : y = WordEnds(line)[j - 1]
        BY <1>2, <4>1
      <4>3. x <= y
        BY <3>2, <3>3, <4>1, <4>2, WordsInOrder DEF n
      <4>4. y < b
        <5>1. b <= Len(line)
          BY <1>3 DEF n
        <5> QED
          BY <1>1, <1>3, <4>2, <5>1, WordsInOrder DEF n
      <4> QED
        BY <1>1, <1>3, <1>5, <3>1, <4>2, <4>3, <4>4
    <3> QED
      BY <3>4, <3>5
  <2> QED
    BY <2>1, <2>2
<1>10. U \subseteq Int
  BY <1>1
<1>11. StringAt(line, a.cuts, p) = SubSeq(line, p, Min(U) - 1)
  BY DEF StringAt, n
<1> HIDE DEF U
<1>12. Min(U) = e
  BY <1>8, <1>9, <1>10, MinIs
<1>13. Words(line)[j] = SubSeq(line, p, e - 1)
  BY <1>3, <1>5, WordsOfLine
<1> QED
  BY <1>3, <1>5, <1>11, <1>12, <1>13

(* argv holds the first words of the line, and the command is looked up by  *)
(* the first (command.c 100-153).                                           *)
THEOREM LineRead ==
  ASSUME NEW line \in Seq(STRING)
  PROVE  LineRight(line)
<1> DEFINE a == Scan(line)
           W == Words(line)
<1>1. PICK k : ScannedTo(line, Len(line), k, a)
  BY ScannedWhole
<1>2. k \in Nat /\ k \in 0 .. Len(line) /\ W \in Seq(Seq(STRING)) /\ Len(W) = k
  BY <1>1, WordsOfLine
<1>3. PICK m \in Nat : m = IF k < MaxArgs THEN k ELSE MaxArgs
  BY <1>2, ShellAssumption
<1>4. a.argv \in Seq(Nat) /\ Len(a.argv) = m
  BY <1>1, <1>3 DEF ScannedTo, PlacesKept
<1>5. \A j \in 1 .. m : a.argv[j] = FirstOf(line, WordBegin(line, j))
  BY <1>1, <1>4 DEF ScannedTo, PlacesKept
<1>6. m <= k /\ (k >= 1 => m >= 1)
  BY <1>2, <1>3, ShellAssumption
<1>7. argv(line) = [j \in 1 .. m |-> StringAt(line, a.cuts, a.argv[j])]
  <2>1. DOMAIN a.argv = 1 .. m
    BY <1>4
  <2> QED
    BY <2>1 DEF argv
<1> HIDE DEF a
<1>8. \A j \in 1 .. m : StringAt(line, a.cuts, a.argv[j]) = W[j] /\ W[j] \in Seq(STRING)
  <2>1. ASSUME NEW j \in 1 .. m PROVE StringAt(line, a.cuts, a.argv[j]) = W[j] /\ W[j] \in Seq(STRING)
    <3>1. j \in 1 .. k
      BY <1>2, <1>3, <1>6
    <3>2. StringAt(line, a.cuts, FirstOf(line, WordBegin(line, j))) = W[j]
      BY <1>1, <3>1, ReadsTheWord
    <3> HIDE DEF W
    <3>3. W[j] \in Seq(STRING)
      BY <1>2, <3>1
    <3> QED
      BY <1>5, <3>2, <3>3
  <2> QED
    BY <2>1
<1> HIDE DEF W
<1>9. argv(line) = [j \in 1 .. m |-> W[j]]
  <2> DEFINE f == [j \in 1 .. m |-> StringAt(line, a.cuts, a.argv[j])]
             g == [j \in 1 .. m |-> W[j]]
  <2>1. \A j \in 1 .. m : f[j] = g[j]
    BY <1>8
  <2>2. f = [j \in 1 .. m |-> f[j]] /\ g = [j \in 1 .. m |-> g[j]]
    OBVIOUS
  <2>3. argv(line) = f
    BY <1>7
  <2> HIDE DEF f, g
  <2>4. f = g
    BY <2>1, <2>2, SameFunction
  <2> QED
    BY <2>3, <2>4 DEF g
<1>10. Min({MaxArgs, Len(W)}) = m
  <2> DEFINE P == {MaxArgs, k}
  <2>1. P \subseteq Int /\ m \in P /\ \A x \in P : m <= x
    BY <1>2, <1>3, ShellAssumption
  <2> HIDE DEF P
  <2>2. Min(P) = m
    BY <2>1, MinIs
  <2> QED
    BY <1>2, <2>2 DEF P
<1>11. argv(line) = SubSeq(W, 1, m)
  <2> DEFINE f == [j \in 1 .. m |-> W[j]]
             g == SubSeq(W, 1, m)
  <2>1. f \in [1 .. m -> Seq(STRING)]
    BY <1>8
  <2>2. f \in Seq(Seq(STRING)) /\ Len(f) = m /\ \A j \in 1 .. m : f[j] = W[j]
    BY <2>1
  <2>3. \A j \in 1 .. m : W[j] \in Seq(STRING)
    BY <1>8
  <2>4. /\ g \in Seq(Seq(STRING)) /\ Len(g) = IF 1 <= m THEN m - 1 + 1 ELSE 0
        /\ \A j \in 1 .. m - 1 + 1 : g[j] = W[1 + j - 1]
    BY <2>3, SubSeqProperties
  <2> HIDE DEF f, g
  <2>5. Len(g) = m /\ \A j \in 1 .. m : g[j] = W[j]
    BY <2>4
  <2>6. f = g
    BY <2>2, <2>4, <2>5, SeqEqual
  <2> QED
    BY <1>9, <2>6 DEF f, g
<1>12. (argv(line) = <<>> <=> W = <<>>) /\ (W # <<>> => argv(line)[1] = W[1])
  <2>1. W = <<>> <=> k = 0
    BY <1>2
  <2>2. k = 0 => m = 0
    BY <1>2, <1>6
  <2>3. m = 0 => argv(line) = <<>>
    BY <1>9
  <2>4. m >= 1 => argv(line) # <<>> /\ argv(line)[1] = W[1]
    <3>1. SUFFICES ASSUME m >= 1 PROVE argv(line) # <<>> /\ argv(line)[1] = W[1]
      OBVIOUS
    <3>2. 1 \in 1 .. m
      BY <3>1
    <3>3. DOMAIN argv(line) = 1 .. m /\ argv(line)[1] = W[1]
      BY <1>9, <3>2
    <3>4. DOMAIN <<>> = {}
      OBVIOUS
    <3> QED
      BY <3>2, <3>3, <3>4
  <2> QED
    BY <1>2, <1>6, <2>1, <2>2, <2>3, <2>4
<1>13. Rejected(line) => W = <<>>
  <2>1. CASE line = <<>>
    BY <1>2, <2>1
  <2>2. CASE line = <<" ">>
    <3>1. Len(line) = 1 /\ Blank(line[1])
      BY <2>2 DEF Blank
    <3>2. CASE k = 1
      <4>1. WordBegin(line, 1) \in 1 .. Len(line)
        BY <1>1, <3>2, WordsOfLine
      <4>2. WordBegin(line, 1) = 1
        BY <3>1, <4>1
      <4>3. WordBegin(line, 1) = BeginAfter(line, WordEnds(line)[0])
        BY DEF WordBegin
      <4>4. WordEnds(line)[0] = 0 /\ 0 \in 0 .. Len(line) + 1
        BY <3>1, WordEndsAre
      <4>5. ~Blank(line[1])
        BY <3>1, <4>2, <4>3, <4>4, BeginIs
      <4> QED
        BY <3>1, <4>5
    <3>3. k = 0 \/ k = 1
      BY <1>2, <3>1
    <3>4. k = 0 => W = <<>>
      BY <1>2
    <3> QED
      BY <3>2, <3>3, <3>4
  <2> QED
    BY <2>1, <2>2 DEF Rejected
<1>14. Found(line) = "uninitialized" => W = <<>>
  BY <1>12 DEF Found
<1>15. Found(line) = "run" <=> W # <<>> /\ W[1] \in Commands
  <2>1. CASE W = <<>>
    BY <1>12, <2>1 DEF Found
  <2>2. CASE W # <<>>
    BY <1>12, <1>13, <2>2 DEF Found
  <2> QED
    BY <2>1, <2>2
<1> QED
  BY <1>10, <1>11, <1>14, <1>15 DEF LineRight, W

(* What the kernel is told is read as it was meant: values, arguments and   *)
(* lines, whatever the texts (bootargs.c 77-227, command.c 100-153).        *)
THEOREM WordsAreRight == CallsSpec => []WordsRight
<1>1. CallInit => WordsRight
  BY DEF CallInit, None, WordsRight
<1>2. WordsRight /\ [CallsNext]_call => WordsRight'
  <2> SUFFICES ASSUME WordsRight, [CallsNext]_call PROVE WordsRight'
    OBVIOUS
  <2>1. CASE CallValue
    <3>1. PICK s \in ValueTexts : call' = [of |-> "getval", s |-> s]
      BY <2>1 DEF CallValue
    <3>2. ValueRight(s)
      BY TextsAssumption, ValueFound
    <3>3. call'.of = "getval" /\ call'.s = s
      BY <3>1
    <3> QED
      BY <3>2, <3>3 DEF WordsRight
  <2>2. CASE CallArgument
    <3>1. PICK line \in BootLines, n \in ArgNames :
            call' = [of |-> "Parse_boot_argn", line |-> line, name |-> n]
      BY <2>2 DEF CallArgument
    <3>2. ArgumentRight(line, n)
      BY TextsAssumption, ArgumentFound
    <3>3. call'.of = "Parse_boot_argn" /\ call'.line = line /\ call'.name = n
      BY <3>1
    <3> QED
      BY <3>2, <3>3 DEF WordsRight
  <2>3. CASE CallLine
    <3>1. PICK line \in ShellLines : call' = [of |-> "findcommand", line |-> line]
      BY <2>3 DEF CallLine
    <3>2. LineRight(line)
      BY TextsAssumption, LineRead
    <3>3. call'.of = "findcommand" /\ call'.line = line
      BY <3>1
    <3> QED
      BY <3>2, <3>3 DEF WordsRight
  <2>4. CASE CallGetBAR \/ CallStart \/ CallIrqs \/ CallDisk \/ CallPrintf \/ CallString \/ CallNumber
    <3>1. call'.of \notin {"getval", "Parse_boot_argn", "findcommand"}
      BY <2>4 DEF CallGetBAR, CallStart, CallIrqs, CallDisk, CallPrintf, CallString, CallNumber
    <3> QED
      BY <3>1 DEF WordsRight
  <2>5. CASE UNCHANGED call
    BY <2>5 DEF WordsRight
  <2> QED
    BY <2>1, <2>2, <2>3, <2>4, <2>5 DEF CallsNext
<1> QED
  BY <1>1, <1>2, PTL DEF CallsSpec

----------------------------------------------------------------------------
(* A character has its place in a row it is in.                             *)
LEMMA PlaceIs ==
  ASSUME NEW n \in Nat, NEW row, DOMAIN row = 1 .. n, NEW c, c \in Range(row)
  PROVE  Place(c, row) \in 1 .. n
<1>1. \E i \in DOMAIN row : row[i] = c
  BY DEF Range
<1> QED
  BY <1>1 DEF Place

(* The rows of numerals and letters.                                        *)
LEMMA RowsAre ==
  /\ DOMAIN numerals = 1 .. 10 /\ DOMAIN lower = 1 .. 26 /\ DOMAIN upper = 1 .. 26
  /\ \A c : c \in Range(numerals) <=>
             c \in {"0", "1", "2", "3", "4", "5", "6", "7", "8", "9"}
  /\ \A c : c \in Range(lower) <=>
             c \in {"a", "b", "c", "d", "e", "f", "g", "h", "i", "j", "k", "l", "m", "n", "o", "p",
                    "q", "r", "s", "t", "u", "v", "w", "x", "y", "z"}
  /\ \A c : c \in Range(upper) <=>
             c \in {"A", "B", "C", "D", "E", "F", "G", "H", "I", "J", "K", "L", "M", "N", "O", "P",
                    "Q", "R", "S", "T", "U", "V", "W", "X", "Y", "Z"}
<1>1. DOMAIN numerals = 1 .. 10 /\ DOMAIN lower = 1 .. 26 /\ DOMAIN upper = 1 .. 26
  BY DEF numerals, lower, upper
<1>2. /\ Range(numerals) = {numerals[i] : i \in 1 .. 10}
      /\ Range(lower) = {lower[i] : i \in 1 .. 26}
      /\ Range(upper) = {upper[i] : i \in 1 .. 26}
  BY <1>1 DEF Range
<1>3. \A c : c \in Range(numerals) <=>
              c \in {"0", "1", "2", "3", "4", "5", "6", "7", "8", "9"}
  BY <1>2 DEF numerals
<1>4. \A c : c \in Range(lower) <=>
              c \in {"a", "b", "c", "d", "e", "f", "g", "h", "i", "j", "k", "l", "m", "n", "o", "p",
                     "q", "r", "s", "t", "u", "v", "w", "x", "y", "z"}
  BY <1>2 DEF lower
<1>5. \A c : c \in Range(upper) <=>
              c \in {"A", "B", "C", "D", "E", "F", "G", "H", "I", "J", "K", "L", "M", "N", "O", "P",
                     "Q", "R", "S", "T", "U", "V", "W", "X", "Y", "Z"}
  BY <1>2 DEF upper
<1> QED
  BY <1>1, <1>3, <1>4, <1>5

(* What digits are worth, and the characters that are none.                 *)
LEMMA DigitIs ==
  /\ \A c : DigitOf(c) \in Nat
  /\ \A c \in Blanks \cup {"-", "+"} : DigitOf(c) = 99
  /\ DigitOf("x") = 33 /\ DigitOf("X") = 33
  /\ \A i \in 1 .. 16 : DigitOf(digits[i]) = i - 1 /\ DigitOf(capitals[i]) = i - 1
<1>1. ASSUME NEW c PROVE DigitOf(c) \in Nat
  <2>1. CASE c \in Range(numerals)
    <3>1. PICK i \in 1 .. 10 : i = Place(c, numerals)
      BY <2>1, RowsAre, PlaceIs
    <3>2. DigitOf(c) = i - 1
      BY <2>1, <3>1 DEF DigitOf
    <3> QED
      BY <3>2
  <2>2. CASE c \notin Range(numerals) /\ c \in Range(lower)
    <3>1. PICK i \in 1 .. 26 : i = Place(c, lower)
      BY <2>2, RowsAre, PlaceIs
    <3>2. DigitOf(c) = i + 9
      BY <2>2, <3>1 DEF DigitOf
    <3> QED
      BY <3>2
  <2>3. CASE c \notin Range(numerals) /\ c \notin Range(lower) /\ c \in Range(upper)
    <3>1. PICK i \in 1 .. 26 : i = Place(c, upper)
      BY <2>3, RowsAre, PlaceIs
    <3>2. DigitOf(c) = i + 9
      BY <2>3, <3>1 DEF DigitOf
    <3> QED
      BY <3>2
  <2>4. CASE c \notin Range(numerals) /\ c \notin Range(lower) /\ c \notin Range(upper)
    BY <2>4 DEF DigitOf
  <2> QED
    BY <2>1, <2>2, <2>3, <2>4
<1>2. ASSUME NEW c \in Blanks \cup {"-", "+"} PROVE DigitOf(c) = 99
  <2>1. c \notin Range(numerals) /\ c \notin Range(lower) /\ c \notin Range(upper)
    <3>1. c = " " \/ c = "\t" \/ c = "\n" \/ c = "-" \/ c = "+"
      BY DEF Blanks
    <3> QED
      BY <3>1, RowsAre
  <2> QED
    BY <2>1 DEF DigitOf
<1>3. /\ \A i, j \in 1 .. 10 : numerals[i] = numerals[j] => i = j
      /\ \A i, j \in 1 .. 26 : lower[i] = lower[j] => i = j
      /\ \A i, j \in 1 .. 26 : upper[i] = upper[j] => i = j
  <2>1. \A i, j \in 1 .. 10 : numerals[i] = numerals[j] => i = j
    BY DEF numerals
  <2>2. \A i, j \in 1 .. 26 : lower[i] = lower[j] => i = j
    BY DEF lower
  <2>3. \A i, j \in 1 .. 26 : upper[i] = upper[j] => i = j
    BY DEF upper
  <2> QED
    BY <2>1, <2>2, <2>3
<1>4. ASSUME NEW i \in 1 .. 10 PROVE DigitOf(numerals[i]) = i - 1
  <2>1. numerals[i] \in Range(numerals) /\ Place(numerals[i], numerals) = i
    <3>1. numerals[i] \in Range(numerals) /\ DOMAIN numerals = 1 .. 10
      BY RowsAre DEF Range
    <3>2. (CHOOSE j \in 1 .. 10 : numerals[j] = numerals[i]) = i
      BY <1>3
    <3> QED
      BY <3>1, <3>2 DEF Place
  <2> QED
    BY <2>1 DEF DigitOf
<1>5. ASSUME NEW i \in 1 .. 26 PROVE DigitOf(lower[i]) = i + 9
  <2>1. lower[i] \in Range(lower) /\ Place(lower[i], lower) = i
    <3>1. lower[i] \in Range(lower) /\ DOMAIN lower = 1 .. 26
      BY RowsAre DEF Range
    <3>2. (CHOOSE j \in 1 .. 26 : lower[j] = lower[i]) = i
      BY <1>3
    <3> QED
      BY <3>1, <3>2 DEF Place
  <2>2. lower[i] \notin Range(numerals)
    BY <2>1, RowsAre
  <2> QED
    BY <2>1, <2>2 DEF DigitOf
<1>6. ASSUME NEW i \in 1 .. 26 PROVE DigitOf(upper[i]) = i + 9
  <2>1. upper[i] \in Range(upper) /\ Place(upper[i], upper) = i
    <3>1. upper[i] \in Range(upper) /\ DOMAIN upper = 1 .. 26
      BY RowsAre DEF Range
    <3>2. (CHOOSE j \in 1 .. 26 : upper[j] = upper[i]) = i
      BY <1>3
    <3> QED
      BY <3>1, <3>2 DEF Place
  <2>2. upper[i] \notin Range(numerals) /\ upper[i] \notin Range(lower)
    BY <2>1, RowsAre
  <2> QED
    BY <2>1, <2>2 DEF DigitOf
<1>7. DigitOf("x") = 33 /\ DigitOf("X") = 33
  <2>1. lower[24] = "x" /\ upper[24] = "X"
    BY DEF lower, upper
  <2> QED
    BY <1>5, <1>6, <2>1
<1>8. ASSUME NEW i \in 1 .. 16 PROVE DigitOf(digits[i]) = i - 1 /\ DigitOf(capitals[i]) = i - 1
  <2>1. CASE i <= 10
    <3>1. i \in 1 .. 10
      BY <2>1
    <3>2. digits[i] = numerals[i] /\ capitals[i] = numerals[i]
      BY <3>1 DEF digits, capitals, numerals
    <3> QED
      BY <1>4, <3>1, <3>2
  <2>2. CASE i > 10
    <3>1. PICK k \in 1 .. 6 : k = i - 10 /\ i = k + 10
      <4>1. i - 10 \in 1 .. 6 /\ i = (i - 10) + 10
        BY <2>2
      <4> QED
        BY <4>1
    <3>2. digits[k + 10] = lower[k] /\ capitals[k + 10] = upper[k]
      BY <3>1 DEF digits, capitals, lower, upper
    <3>3. DigitOf(lower[k]) = k + 9 /\ DigitOf(upper[k]) = k + 9 /\ k + 9 = i - 1
      BY <1>5, <1>6, <3>1
    <3> QED
      BY <3>1, <3>2, <3>3
  <2> QED
    BY <2>1, <2>2
<1> QED
  BY <1>1, <1>2, <1>7, <1>8

(* One more digit passes the limit exactly if the quotient and the rest of  *)
(* the limit say so.                                                        *)
LEMMA PassesLimit ==
  ASSUME NEW b \in Nat \ {0}, NEW limit \in Nat, NEW a \in Nat, NEW d \in 0 .. b - 1
  PROVE  a > limit \div b \/ (a = limit \div b /\ d > limit % b) <=> a * b + d > limit
<1>1. PICK q \in Nat, r \in 0 .. b - 1 : q = limit \div b /\ r = limit % b /\ limit = (b * q) + r
  <2>1. limit \div b \in Nat
    BY NatDivision
  <2>2. limit % b \in 0 .. b - 1 /\ limit = (b * (limit \div b)) + (limit % b)
    BY Division
  <2> QED
    BY <2>1, <2>2
<1>2. CASE a > q
  <2>1. PICK t \in Nat : a = q + 1 + t
    <3>1. a - q - 1 \in Nat /\ a = q + 1 + (a - q - 1)
      BY <1>2
    <3> QED
      BY <3>1
  <2>2. PICK x \in Nat, y \in Nat : x = b * q /\ y = t * b
    BY ProductIs
  <2>3. a * b = x + b + y
    BY <2>1, <2>2
  <2> QED
    BY <1>1, <1>2, <2>2, <2>3
<1>3. CASE a = q
  <2>1. PICK x \in Nat : x = b * q
    BY ProductIs
  <2>2. a * b = x
    BY <1>3, <2>1
  <2> QED
    BY <1>1, <1>3, <2>1, <2>2
<1>4. CASE a < q
  <2>1. PICK t \in Nat : q = a + 1 + t
    <3>1. q - a - 1 \in Nat /\ q = a + 1 + (q - a - 1)
      BY <1>4
    <3> QED
      BY <3>1
  <2>2. PICK x \in Nat, y \in Nat : x = a * b /\ y = t * b
    BY ProductIs
  <2>3. b * q = x + b + y
    BY <2>1, <2>2
  <2> QED
    BY <1>1, <1>4, <2>2, <2>3
<1> QED
  BY <1>2, <1>3, <1>4

(* The digits at the beginning of a text.                                   *)
LEMMA LeadingIs ==
  ASSUME NEW s, Len(s) \in Nat, NEW b \in Nat
  PROVE  /\ Leading(s, b) \in 0 .. Len(s)
         /\ \A i \in 1 .. Leading(s, b) : DigitOf(s[i]) < b
         /\ Leading(s, b) < Len(s) => DigitOf(s[Leading(s, b) + 1]) >= b
<1> DEFINE n == Len(s)
           P == {i \in 1 .. n + 1 : i = n + 1 \/ DigitOf(s[i]) >= b}
<1>1. P \subseteq Nat /\ n + 1 \in P
  OBVIOUS
<1>2. PICK m \in P : \A j \in P : m <= j
  BY <1>1, LeastOf
<1>3. Leading(s, b) = Min(P) - 1
  BY DEF Leading
<1>4. m \in 1 .. n + 1 /\ (m = n + 1 \/ DigitOf(s[m]) >= b)
  BY <1>2
<1>5. \A i \in 1 .. m - 1 : i \notin P
  BY <1>1, <1>2, <1>4
<1>6. \A i \in 1 .. m - 1 : ~(DigitOf(s[i]) >= b)
  BY <1>4, <1>5
<1> HIDE DEF P
<1>7. Min(P) = m
  <2>1. P \subseteq Int
    BY <1>1
  <2> QED
    BY <1>2, <2>1, MinIs
<1>8. \A i \in 1 .. m - 1 : DigitOf(s[i]) < b
  <2>1. \A i \in 1 .. m - 1 : DigitOf(s[i]) \in Nat
    BY DigitIs
  <2> QED
    BY <1>6, <2>1
<1>9. Leading(s, b) = m - 1 /\ (m - 1) + 1 = m
  BY <1>3, <1>4, <1>7
<1> QED
  BY <1>4, <1>8, <1>9

(* What was read up to place k, when m digits begin the text and h are the  *)
(* numbers they make one after the other.                                   *)
Readings == [acc : Nat, over : BOOLEAN, stopped : BOOLEAN]
NumberAt(h, m, k) == h[IF k > m THEN m ELSE k]
AccumulatedTo(h, m, limit, k, a) ==
  /\ a \in Readings
  /\ a.stopped <=> k > m
  /\ a.over <=> NumberAt(h, m, k) > limit
  /\ ~a.over => a.acc = NumberAt(h, m, k)

(* One character more.                                                      *)
LEMMA OneAccumulated ==
  ASSUME NEW n \in Nat, NEW m \in 0 .. n, NEW h \in [0 .. m -> Nat], NEW k \in 1 .. n, NEW c, NEW a,
         NEW b \in Nat \ {0}, NEW limit \in Nat, AccumulatedTo(h, m, limit, k - 1, a),
         k <= m => DigitOf(c) < b /\ h[k] = h[k - 1] * b + DigitOf(c),
         k = m + 1 => DigitOf(c) >= b
  PROVE  AccumulatedTo(h, m, limit, k, Accumulate(a, c, b, limit))
<1>1. PICK acc \in Nat, over \in BOOLEAN, stopped \in BOOLEAN :
        acc = a.acc /\ over = a.over /\ stopped = a.stopped
  BY DEF AccumulatedTo, Readings
<1>2. PICK d \in Nat : d = DigitOf(c)
  BY DigitIs
<1>3. /\ stopped <=> k - 1 > m
      /\ over <=> NumberAt(h, m, k - 1) > limit
      /\ ~over => acc = NumberAt(h, m, k - 1)
  BY <1>1 DEF AccumulatedTo
<1>4. CASE k <= m
  <2>1. k \in 0 .. m /\ k - 1 \in 0 .. m /\ ~(k > m) /\ ~(k - 1 > m)
    BY <1>4
  <2>2. PICK x \in Nat, y \in Nat : x = h[k - 1] /\ y = h[k]
    BY <2>1
  <2>3. NumberAt(h, m, k - 1) = x /\ NumberAt(h, m, k) = y
    BY <2>1, <2>2 DEF NumberAt
  <2>4. y = x * b + d /\ d \in 0 .. b - 1 /\ ~stopped
    BY <1>2, <1>3, <1>4, <2>1, <2>2
  <2>10. ~(a.stopped \/ DigitOf(c) >= b)
    BY <1>1, <1>2, <2>4
  <2>5. CASE over
    <3>1. Accumulate(a, c, b, limit) = Reached(acc, TRUE, FALSE)
      BY <1>1, <2>5, <2>10, Zenon DEF Accumulate
    <3>2. x > limit
      BY <1>3, <2>3, <2>5
    <3>3. y > limit
      <4>1. PICK e \in Nat : b = e + 1
        <5>1. b - 1 \in Nat /\ b = (b - 1) + 1
          OBVIOUS
        <5> QED
          BY <5>1
      <4>2. PICK z \in Nat : z = x * e
        BY ProductIs
      <4>3. x * b = z + x
        BY <4>1, <4>2
      <4> QED
        <5>1. y = z + x + d
          BY <2>4, <4>3
        <5> QED
          BY <3>2, <5>1
    <3> QED
      BY <2>1, <2>3, <3>1, <3>3 DEF AccumulatedTo, Readings, Reached
  <2>6. CASE ~over
    <3>1. acc = x
      BY <1>3, <2>3, <2>6
    <3>2. x > limit \div b \/ (x = limit \div b /\ d > limit % b) <=> y > limit
      BY <2>4, PassesLimit
    <3>3. CASE y > limit
      <4>1. Accumulate(a, c, b, limit) = Reached(acc, TRUE, FALSE)
        <5>1. a.over \/ a.acc > limit \div b \/ (a.acc = limit \div b /\ DigitOf(c) > limit % b)
          BY <1>1, <1>2, <3>1, <3>2, <3>3, Zenon
        <5> QED
          BY <1>1, <2>10, <5>1, Zenon DEF Accumulate
      <4> QED
        BY <2>1, <2>3, <3>3, <4>1 DEF AccumulatedTo, Readings, Reached
    <3>4. CASE ~(y > limit)
      <4>1. Accumulate(a, c, b, limit) = Reached(y, FALSE, FALSE)
        <5>1. ~(a.over \/ a.acc > limit \div b \/ (a.acc = limit \div b /\ DigitOf(c) > limit % b))
          BY <1>1, <1>2, <2>6, <3>1, <3>2, <3>4, Zenon
        <5>2. a.acc * b + DigitOf(c) = y
          BY <1>1, <1>2, <2>4, <3>1
        <5> QED
          BY <2>10, <5>1, <5>2, Zenon DEF Accumulate
      <4> QED
        BY <2>1, <2>3, <3>4, <4>1 DEF AccumulatedTo, Readings, Reached
    <3> QED
      BY <3>3, <3>4
  <2> QED
    BY <2>5, <2>6
<1>5. CASE k > m
  <2>1. stopped \/ DigitOf(c) >= b
    BY <1>3, <1>5
  <2>2. Accumulate(a, c, b, limit) = Reached(acc, over, TRUE)
    BY <1>1, <2>1 DEF Accumulate
  <2>3. NumberAt(h, m, k) = NumberAt(h, m, k - 1)
    <3>1. k = m + 1 => k - 1 = m
      OBVIOUS
    <3>2. k # m + 1 => k - 1 > m
      BY <1>5
    <3>3. NumberAt(h, m, k) = h[m]
      BY <1>5 DEF NumberAt
    <3>4. NumberAt(h, m, k - 1) = h[m]
      BY <3>1, <3>2 DEF NumberAt
    <3> QED
      BY <3>3, <3>4
  <2> QED
    BY <1>3, <1>5, <2>2, <2>3 DEF AccumulatedTo, Readings, Reached
<1> QED
  BY <1>4, <1>5

(* strtol and strtoul stop at the first character that is no digit, and     *)
(* know whether the digits before it are a number beyond the limit.         *)
LEMMA AccumulatedIs ==
  ASSUME NEW start, Len(start.rest) \in Nat, NEW limit \in Nat, start.base \in Nat \ {0}
  PROVE  /\ Exact(start.rest, start.base) \in Nat
         /\ Accumulated(start, limit).over \in BOOLEAN
         /\ Accumulated(start, limit).over <=> Exact(start.rest, start.base) > limit
         /\ ~Accumulated(start, limit).over =>
              Accumulated(start, limit).acc = Exact(start.rest, start.base)
<1> DEFINE s == start.rest
           b == start.base
           n == Len(s)
           m == Leading(s, b)
           Zero == Reached(0, FALSE, FALSE)
           Next1(k, x) == Accumulate(x, s[k], b, limit)
           Is(f) == f = [k \in 0 .. n |-> IF k = 0 THEN Zero ELSE Next1(k, f[k - 1])]
           reached == CHOOSE f : Is(f)
           step == [p \in (1 .. n) \X Readings |-> Next1(p[1], p[2])]
           ns == [i \in 1 .. m |-> DigitOf(s[i])]
           more == [p \in (1 .. m) \X Nat |-> p[2] * b + ns[p[1]]]
<1>1. Accumulated(start, limit) = reached[n] /\ Exact(start.rest, start.base) = WorthOf(ns, m, b)
  BY DEF Accumulated, Exact
<1>2. n \in Nat /\ Zero \in Readings /\ b \in Nat \ {0}
  BY DEF Readings, Reached
<1>3. /\ m \in 0 .. n
      /\ \A i \in 1 .. m : DigitOf(s[i]) < b
      /\ m < n => DigitOf(s[m + 1]) >= b
  BY <1>2, LeadingIs
<1>4. ns \in [1 .. m -> Nat] /\ \A i \in 1 .. m : ns[i] = DigitOf(s[i])
  BY DigitIs
<1> HIDE DEF ns, m
<1>5. \A k \in 1 .. m, x \in Nat : more[<<k, x>>] = x * b + ns[k] /\ more[<<k, x>>] \in Nat
  <2>1. ASSUME NEW k \in 1 .. m, NEW x \in Nat
        PROVE more[<<k, x>>] = x * b + ns[k] /\ more[<<k, x>>] \in Nat
    <3>1. more[<<k, x>>] = x * b + ns[k]
      OBVIOUS
    <3>2. PICK v \in Nat, q \in Nat : v = ns[k] /\ q = x * b
      BY <1>2, <1>4, ProductIs
    <3> HIDE DEF more
    <3> QED
      BY <3>1, <3>2
  <2> QED
    BY <2>1
<1> HIDE DEF more
<1>6. m \in Nat
  BY <1>2, <1>3
<1>7. PICK h \in [0 .. m -> Nat] : Chain(h, m, 0, more)
  <2>1. \A k \in 1 .. m, x \in Nat : more[<<k, x>>] \in Nat
    BY <1>5
  <2> QED
    BY <1>6, <2>1, Recursion
<1>8. h[0] = 0 /\ \A k \in 1 .. m : h[k] = h[k - 1] * b + ns[k]
  <2>1. \A k \in 1 .. m : h[k] = more[<<k, h[k - 1]>>] /\ h[k - 1] \in Nat
    <3>1. \A k \in 1 .. m : k - 1 \in 0 .. m
      BY <1>6
    <3>2. \A k \in 1 .. m : h[k] = more[<<k, h[k - 1]>>]
      BY <1>7 DEF Chain
    <3> QED
      BY <1>7, <3>1, <3>2
  <2> QED
    BY <1>5, <1>7, <2>1 DEF Chain
<1>9. Exact(start.rest, start.base) = h[m] /\ h[m] \in Nat
  <2>1. b \in Nat
    BY <1>2
  <2>2. WorthOf(ns, m, b) = h[m]
    BY <1>4, <1>6, <1>7, <1>8, <2>1, WorthOfIs
  <2>3. h[m] \in Nat
    BY <1>6, <1>7
  <2> QED
    BY <1>1, <2>2, <2>3
<1>10. ASSUME NEW k \in 1 .. n, NEW x \in Readings PROVE Next1(k, x) \in Readings
  <2>1. PICK acc \in Nat, over \in BOOLEAN, stopped \in BOOLEAN :
          acc = x.acc /\ over = x.over /\ stopped = x.stopped
    BY DEF Readings
  <2>2. PICK d \in Nat, q \in Nat : d = DigitOf(s[k]) /\ q = acc * b
    BY <1>2, DigitIs, ProductIs, ZenonT(60)
  <2>3. Reached(acc, over, TRUE) \in Readings /\ Reached(acc, TRUE, FALSE) \in Readings
        /\ Reached(q + d, FALSE, FALSE) \in Readings
    BY DEF Reached, Readings
  <2>4. Next1(k, x) \in {Reached(x.acc, x.over, TRUE), Reached(x.acc, TRUE, FALSE),
                         Reached(x.acc * b + DigitOf(s[k]), FALSE, FALSE)}
    BY Zenon DEF Accumulate
  <2> HIDE DEF Next1
  <2> QED
    BY <2>1, <2>2, <2>3, <2>4
<1>11. \A k \in 1 .. n, x \in Readings : step[<<k, x>>] = Next1(k, x) /\ Next1(k, x) \in Readings
  <2>1. \A k \in 1 .. n, x \in Readings : step[<<k, x>>] = Next1(k, x)
    OBVIOUS
  <2> QED
    BY <1>10, <2>1
<1> HIDE DEF n, step, Next1, Zero
<1>12. \A k \in 1 .. n, x \in Readings : step[<<k, x>>] \in Readings
  BY <1>11
<1>13. PICK f \in [0 .. n -> Readings] : Chain(f, n, Zero, step)
  BY <1>2, <1>12, Recursion
<1>14. Is(f)
  <2> DEFINE unfolded == [k \in 0 .. n |-> IF k = 0 THEN Zero ELSE Next1(k, f[k - 1])]
  <2>1. f[0] = unfolded[0]
    BY <1>2, <1>13 DEF Chain
  <2>2. ASSUME NEW k \in 1 .. n PROVE f[k] = unfolded[k]
    <3>1. k - 1 \in 0 .. n /\ f[k - 1] \in Readings /\ k \in 0 .. n /\ k # 0
      BY <1>2, <1>13
    <3>2. f[k] = Next1(k, f[k - 1])
      BY <1>11, <1>13, <3>1 DEF Chain
    <3> QED
      BY <3>1, <3>2
  <2> HIDE DEF unfolded
  <2>3. \A k \in 0 .. n : f[k] = unfolded[k]
    <3>1. \A k \in 0 .. n : k = 0 \/ k \in 1 .. n
      BY <1>2
    <3> QED
      BY <2>1, <2>2, <3>1
  <2>4. unfolded = [k \in 0 .. n |-> unfolded[k]] /\ f = [k \in 0 .. n |-> f[k]]
    BY <1>13 DEF unfolded
  <2>5. f = unfolded
    BY <2>3, <2>4, SameFunction
  <2> QED
    BY <2>5 DEF unfolded
<1>15. Is(reached)
  BY <1>14
<1> HIDE DEF reached
<1>16. reached[0] = Zero /\ \A k \in 1 .. n : reached[k] = Next1(k, reached[k - 1])
  <2>1. 0 \in 0 .. n /\ \A k \in 1 .. n : k \in 0 .. n /\ k # 0
    BY <1>2
  <2>2. \A k \in 0 .. n : reached[k] = IF k = 0 THEN Zero ELSE Next1(k, reached[k - 1])
    BY <1>15
  <2> QED
    BY <2>1, <2>2
<1> DEFINE T == {k \in 0 .. n : AccumulatedTo(h, m, limit, k, reached[k])}
<1>17. 0 \in T
  <2>1. ~(0 > m) /\ 0 \in 0 .. n
    BY <1>2, <1>6
  <2>2. NumberAt(h, m, 0) = 0
    BY <1>8, <2>1 DEF NumberAt
  <2>3. Zero \in Readings /\ Zero.acc = 0 /\ Zero.over = FALSE /\ Zero.stopped = FALSE
    BY <1>2 DEF Zero, Reached
  <2>4. AccumulatedTo(h, m, limit, 0, Zero)
    BY <2>1, <2>2, <2>3 DEF AccumulatedTo
  <2> QED
    BY <1>16, <2>1, <2>4
<1>18. ASSUME NEW k \in 1 .. n, k - 1 \in T PROVE k \in T
  <2>1. AccumulatedTo(h, m, limit, k - 1, reached[k - 1])
    BY <1>18
  <2>2. k <= m => DigitOf(s[k]) < b /\ h[k] = h[k - 1] * b + DigitOf(s[k])
    <3>1. k <= m => k \in 1 .. m
      BY <1>2, <1>6
    <3> QED
      BY <1>3, <1>4, <1>8, <3>1
  <2>3. k = m + 1 => DigitOf(s[k]) >= b
    <3>1. k = m + 1 => m < n
      BY <1>2, <1>6
    <3> QED
      BY <1>3, <3>1
  <2>4. AccumulatedTo(h, m, limit, k, Next1(k, reached[k - 1]))
    BY <1>2, <1>3, <1>7, <2>1, <2>2, <2>3, OneAccumulated DEF Next1
  <2>5. k \in 0 .. n
    BY <1>2
  <2> QED
    BY <1>16, <2>4, <2>5
<1> HIDE DEF T
<1>19. n \in T
  <2>1. \A k \in 0 .. n : k \in T
    BY <1>2, <1>17, <1>18, Upwards
  <2> QED
    BY <1>2, <2>1
<1>20. AccumulatedTo(h, m, limit, n, reached[n])
  BY <1>19 DEF T
<1>21. NumberAt(h, m, n) = h[m]
  <2>1. ~(n > m) => n = m
    BY <1>2, <1>3
  <2> QED
    BY <2>1 DEF NumberAt
<1>22. reached[n].over \in BOOLEAN
  BY <1>20 DEF AccumulatedTo, Readings
<1> QED
  BY <1>1, <1>9, <1>20, <1>21, <1>22 DEF AccumulatedTo

(* The less and the greater of two integers.                                *)
LEMMA MinMaxOfTwo ==
  ASSUME NEW a \in Int, NEW b \in Int
  PROVE  /\ Min({a, b}) = IF a <= b THEN a ELSE b
         /\ Max({a, b}) = IF a <= b THEN b ELSE a
<1> DEFINE S == {a, b}
<1>1. S \subseteq Int /\ a \in S /\ b \in S /\ \A x \in S : x = a \/ x = b
  OBVIOUS
<1> HIDE DEF S
<1>2. a <= b => Min(S) = a /\ Max(S) = b
  <2>1. ASSUME a <= b PROVE Min(S) = a
    <3>1. \A x \in S : a <= x
      BY <1>1, <2>1
    <3> QED
      BY <1>1, <3>1, MinIs
  <2>2. ASSUME a <= b PROVE Max(S) = b
    <3>1. \A x \in S : x <= b
      BY <1>1, <2>2
    <3> QED
      BY <1>1, <3>1, MaxIs
  <2> QED
    BY <2>1, <2>2
<1>3. ~(a <= b) => Min(S) = b /\ Max(S) = a
  <2>1. ASSUME ~(a <= b) PROVE Min(S) = b
    <3>1. \A x \in S : b <= x
      BY <1>1, <2>1
    <3> QED
      BY <1>1, <3>1, MinIs
  <2>2. ASSUME ~(a <= b) PROVE Max(S) = a
    <3>1. \A x \in S : x <= a
      BY <1>1, <2>2
    <3> QED
      BY <1>1, <3>1, MaxIs
  <2> QED
    BY <2>1, <2>2
<1> QED
  BY <1>2, <1>3 DEF S

(* A text from one of its places on.                                        *)
LEMMA FromIs ==
  ASSUME NEW S, NEW s \in Seq(S), NEW i \in 1 .. Len(s) + 1
  PROVE  /\ From(s, i) \in Seq(S) /\ Len(From(s, i)) = Len(s) - i + 1
         /\ \A j \in 1 .. Len(s) - i + 1 : From(s, i)[j] = s[i + j - 1]
<1>1. i \in Int /\ Len(s) \in Int /\ Len(s) \in Nat
  OBVIOUS
<1>2. \A j \in i .. Len(s) : s[j] \in S
  OBVIOUS
<1>3. /\ SubSeq(s, i, Len(s)) \in Seq(S)
      /\ Len(SubSeq(s, i, Len(s))) = IF i <= Len(s) THEN Len(s) - i + 1 ELSE 0
      /\ \A j \in 1 .. Len(s) - i + 1 : SubSeq(s, i, Len(s))[j] = s[i + j - 1]
  BY <1>1, <1>2, SubSeqProperties
<1> QED
  BY <1>1, <1>3 DEF From

(* Blanks are skipped to the first place without one.                       *)
LEMMA SkipIs ==
  ASSUME NEW S, NEW s \in Seq(S), NEW blanks
  PROVE  \E i \in 1 .. Len(s) + 1 :
           /\ Skip(s, blanks) = From(s, i)
           /\ i <= Len(s) => s[i] \notin blanks
           /\ \A j \in 1 .. i - 1 : s[j] \in blanks
<1> DEFINE P == {i \in 1 .. Len(s) + 1 : i = Len(s) + 1 \/ s[i] \notin blanks}
<1>1. P \subseteq Nat /\ P \subseteq Int /\ Len(s) + 1 \in P /\ Len(s) \in Nat
  OBVIOUS
<1>2. PICK m \in P : \A j \in P : m <= j
  BY <1>1, LeastOf
<1>3. m \in 1 .. Len(s) + 1 /\ (m <= Len(s) => s[m] \notin blanks)
  BY <1>1, <1>2
<1>4. \A j \in 1 .. m - 1 : s[j] \in blanks
  BY <1>1, <1>2, <1>3
<1>5. Skip(s, blanks) = From(s, Min(P))
  BY DEF Skip
<1> HIDE DEF P
<1>6. Min(P) = m
  BY <1>1, <1>2, MinIs
<1> QED
  BY <1>3, <1>4, <1>5, <1>6

(* A character of a text from one of its places on; a text from one of the  *)
(* places of that one.                                                      *)
LEMMA AtFrom ==
  ASSUME NEW S, NEW s \in Seq(S), NEW i \in 1 .. Len(s) + 1, NEW q \in Nat \ {0}
  PROVE  At(From(s, i), q) = At(s, i + q - 1)
<1> DEFINE f == From(s, i)
<1>1. /\ Len(f) = Len(s) - i + 1 /\ \A j \in 1 .. Len(s) - i + 1 : f[j] = s[i + j - 1]
  BY FromIs
<1> HIDE DEF f
<1>2. PICK n \in Nat : n = Len(s)
  OBVIOUS
<1>3. CASE q \in 1 .. n - i + 1
  <2>1. q \in 1 .. Len(f) /\ i + q - 1 \in 1 .. Len(s) /\ f[q] = s[i + q - 1]
    BY <1>1, <1>2, <1>3
  <2> QED
    BY <2>1 DEF At, f
<1>4. CASE q \notin 1 .. n - i + 1
  <2>1. q \notin 1 .. Len(f) /\ i + q - 1 \notin 1 .. Len(s)
    BY <1>1, <1>2, <1>4
  <2> QED
    BY <2>1 DEF At, f
<1> QED
  BY <1>3, <1>4

LEMMA FromFrom ==
  ASSUME NEW S, NEW s \in Seq(S), NEW i \in 1 .. Len(s) + 1, NEW q \in Nat \ {0},
         i + q - 1 <= Len(s) + 1
  PROVE  From(From(s, i), q) = From(s, i + q - 1)
<1> DEFINE f == From(s, i)
           g == From(f, q)
           e == From(s, i + q - 1)
<1>1. PICK n \in Nat : n = Len(s)
  OBVIOUS
<1>2. f \in Seq(S) /\ Len(f) = n - i + 1 /\ \A j \in 1 .. n - i + 1 : f[j] = s[i + j - 1]
  BY <1>1, FromIs
<1> HIDE DEF f
<1>3. i + q - 1 \in 1 .. Len(s) + 1 /\ q \in 1 .. Len(f) + 1
  BY <1>1, <1>2
<1>4. /\ g \in Seq(S) /\ Len(g) = Len(f) - q + 1
      /\ \A j \in 1 .. Len(f) - q + 1 : g[j] = f[q + j - 1]
  BY <1>2, <1>3, FromIs
<1>5. /\ e \in Seq(S) /\ Len(e) = Len(s) - (i + q - 1) + 1
      /\ \A j \in 1 .. Len(s) - (i + q - 1) + 1 : e[j] = s[(i + q - 1) + j - 1]
  BY <1>3, FromIs
<1> HIDE DEF g, e
<1>6. ASSUME NEW j \in 1 .. Len(g) PROVE g[j] = e[j]
  <2>1. Len(f) = n - i + 1 /\ Len(g) = Len(f) - q + 1 /\ i \in Nat /\ Len(s) = n
    BY <1>1, <1>2, <1>4
  <2>2. Len(f) - q + 1 = Len(s) - (i + q - 1) + 1 /\ Len(f) - q + 1 = n - i + 1 - q + 1
    BY <2>1
  <2>3. j \in 1 .. Len(f) - q + 1 /\ j \in 1 .. Len(s) - (i + q - 1) + 1
    BY <2>1, <2>2
  <2>4. q + j - 1 \in 1 .. n - i + 1 /\ (i + q - 1) + j - 1 = i + (q + j - 1) - 1
    <3>1. j \in 1 .. n - i + 1 - q + 1
      BY <2>2, <2>3
    <3> QED
      BY <2>1, <3>1
  <2> QED
    BY <1>2, <1>4, <1>5, <2>3, <2>4
<1>7. Len(g) = Len(e)
  BY <1>1, <1>2, <1>4, <1>5
<1>8. g = e
  BY <1>4, <1>5, <1>6, <1>7, SeqEqual
<1> QED
  BY <1>8 DEF f, g, e

(* Where strtol and strtoul begin to read: the text cut as the reference    *)
(* cuts it.                                                                 *)
Begins(text, base, i, j, k) ==
  /\ Cut(text, base, i, j, k) /\ k <= Len(text) + 1
  /\ Start(text, base).neg = (At(text, i) = "-")
  /\ Start(text, base).rest = From(text, k)
  /\ Start(text, base).base = RadixAt(text, base, j, k)
  /\ RadixAt(text, base, j, k) \in Nat \ {0}

LEMMA StartCuts ==
  ASSUME NEW S, NEW text \in Seq(S), NEW base \in {0} \cup 2 .. 36
  PROVE  \E i \in 1 .. Len(text) + 1 : \E j \in {i, i + 1} : \E k \in {j, j + 2} :
           Begins(text, base, i, j, k)
<1> DEFINE s == Skip(text, Blanks)
           t == IF At(s, 1) \in {"-", "+"} THEN Tail(s) ELSE s
           hex == base \in {0, 16} /\ At(t, 1) = "0" /\ At(t, 2) \in {"x", "X"}
           bin == ~hex /\ base \in {0, 2} /\ At(t, 1) = "0" /\ At(t, 2) \in {"b", "B"}
           start == Start(text, base)
           n == Len(text)
<1>1. start = [neg |-> At(s, 1) = "-",
               rest |-> IF hex \/ bin THEN From(t, 3) ELSE t,
               base |-> IF hex THEN 16 ELSE IF bin THEN 2
                        ELSE IF base = 0 THEN IF At(t, 1) = "0" THEN 8 ELSE 10 ELSE base]
  BY Zenon DEF Start
<1>2. PICK i \in 1 .. n + 1 :
        /\ s = From(text, i)
        /\ i <= n => text[i] \notin Blanks
        /\ \A p \in 1 .. i - 1 : text[p] \in Blanks
  BY SkipIs
<1> HIDE DEF s, start
<1>3. n \in Nat /\ \A q \in Nat \ {0} : At(s, q) = At(text, i + q - 1)
  BY <1>2, AtFrom
<1>4. At(s, 1) = At(text, i)
  <2>1. At(s, 1) = At(text, i + 1 - 1) /\ i + 1 - 1 = i
    BY <1>3
  <2> QED
    BY <2>1
<1>5. At(text, i) \notin Blanks
  <2>1. "NUL" \notin Blanks
    BY DEF Blanks
  <2> QED
    BY <1>2, <1>3, <2>1 DEF At
<1> DEFINE signed == At(text, i) \in {"-", "+"}
           j == IF signed THEN i + 1 ELSE i
<1>6. signed => i <= n
  <2>1. "NUL" \notin {"-", "+"}
    OBVIOUS
  <2>2. signed => i \in 1 .. n
    BY <2>1 DEF At
  <2> QED
    BY <2>2
<1>7. j \in 1 .. n + 1 /\ j \in {i, i + 1}
  BY <1>3, <1>6
<1>8. t = From(text, j)
  <2>1. CASE signed
    <3>1. t = Tail(s) /\ j = i + 1
      BY <1>4, <2>1
    <3>2. s \in Seq(S) /\ Len(s) = n - i + 1
      BY <1>2, FromIs
    <3>3. s # <<>>
      BY <1>3, <1>6, <2>1, <3>2
    <3>4. Tail(s) = From(s, 2)
      BY <3>2, <3>3, TailIsSubSeq DEF From
    <3>5. i + 2 - 1 <= n + 1 /\ i + 2 - 1 = i + 1
      BY <1>3, <1>6, <2>1
    <3>6. From(From(text, i), 2) = From(text, i + 2 - 1)
      BY <3>5, FromFrom
    <3> QED
      BY <1>2, <3>1, <3>4, <3>5, <3>6
  <2>2. CASE ~signed
    BY <1>2, <1>4, <2>2
  <2> QED
    BY <2>1, <2>2
<1> HIDE DEF t, j
<1>9. At(t, 1) = At(text, j) /\ At(t, 2) = At(text, j + 1)
  <2>1. At(From(text, j), 1) = At(text, j + 1 - 1) /\ At(From(text, j), 2) = At(text, j + 2 - 1)
    BY <1>7, AtFrom
  <2>2. j + 1 - 1 = j /\ j + 2 - 1 = j + 1
    BY <1>7
  <2> QED
    BY <1>8, <2>1, <2>2
<1> DEFINE told == <<At(text, j), At(text, j + 1)>> \in Tells(base)
           k == IF told THEN j + 2 ELSE j
<1>10. /\ told <=> hex \/ bin
       /\ hex => At(text, j + 1) \in {"x", "X"}
       /\ bin => At(text, j + 1) \notin {"x", "X"}
  <2> DEFINE X == IF base \in {0, 16} THEN {"x", "X"} ELSE {}
             B == IF base \in {0, 2} THEN {"b", "B"} ELSE {}
  <2>1. told <=> At(text, j) = "0" /\ At(text, j + 1) \in X \cup B
    BY DEF Tells
  <2>2. \A c \in {"b", "B"} : c \notin {"x", "X"}
    OBVIOUS
  <2> QED
    BY <1>9, <2>1, <2>2
<1>11. told => j + 1 <= n
  <2>1. "NUL" \notin {"x", "X", "b", "B"}
    OBVIOUS
  <2>2. told => At(text, j + 1) \in {"x", "X", "b", "B"}
    BY DEF Tells
  <2>3. told => j + 1 \in 1 .. n
    BY <2>1, <2>2 DEF At
  <2> QED
    BY <2>3
<1>12. told => From(t, 3) = From(text, k)
  <2>1. ASSUME told PROVE From(From(text, j), 3) = From(text, j + 3 - 1) /\ j + 3 - 1 = k
    <3>1. j + 3 - 1 <= n + 1 /\ j + 3 - 1 = k
      BY <1>3, <1>7, <1>11, <2>1
    <3> QED
      BY <1>7, <3>1, FromFrom
  <2> QED
    BY <1>8, <2>1
<1>13. k \in {j, j + 2} /\ k <= n + 1 /\ (k # j <=> told)
  BY <1>3, <1>7, <1>11
<1> HIDE DEF told, hex, bin
<1>14. start.rest = From(text, k) /\ start.neg = (At(text, i) = "-")
  BY <1>1, <1>4, <1>8, <1>10, <1>12
<1>15. start.base = IF hex THEN 16 ELSE IF bin THEN 2
                    ELSE IF base = 0 THEN IF At(text, j) = "0" THEN 8 ELSE 10 ELSE base
  BY <1>1, <1>9
<1> HIDE DEF k
<1>16. RadixAt(text, base, j, k) = IF hex THEN 16 ELSE IF bin THEN 2
         ELSE IF base = 0 THEN IF At(text, j) = "0" THEN 8 ELSE 10 ELSE base
  <2>1. CASE k # j
    <3>1. RadixAt(text, base, j, k) = IF At(text, j + 1) \in {"x", "X"} THEN 16 ELSE 2
      BY <2>1 DEF RadixAt
    <3> QED
      BY <1>10, <1>13, <2>1, <3>1
  <2>2. CASE k = j
    <3>1. RadixAt(text, base, j, k) = IF base # 0 THEN base ELSE IF At(text, j) = "0" THEN 8 ELSE 10
      BY <2>2 DEF RadixAt
    <3>2. ~hex /\ ~bin
      BY <1>10, <1>13, <2>2
    <3> QED
      BY <3>1, <3>2
  <2> QED
    BY <2>1, <2>2
<1>17. RadixAt(text, base, j, k) \in Nat \ {0}
  BY <1>16
<1>18. Cut(text, base, i, j, k)
  BY <1>2, <1>5 DEF Cut, j, k, told
<1>19. Begins(text, base, i, j, k)
  BY <1>13, <1>14, <1>15, <1>16, <1>17, <1>18 DEF Begins, start
<1> QED
  BY <1>7, <1>13, <1>19

(* How many values a long has.                                              *)
LEMMA LongIs ==
  \E half \in Nat \ {0} : /\ LongSpan = 2 * half /\ LONG_MAX = half - 1 /\ ULONG_MAX = 2 * half - 1
                          /\ LongSpan \div 2 = half
<1>1. LongSpan \in Nat \ {0} /\ LongSpan % 2 = 0
  BY PrintfAssumption
<1>2. LongSpan = 2 * (LongSpan \div 2) /\ LongSpan \div 2 \in Nat \ {0}
  BY <1>1
<1> QED
  BY <1>2 DEF LONG_MAX, ULONG_MAX

(* What strtol and strtoul make of the digits from where they begin.        *)
LEMMA Nearest ==
  ASSUME NEW S, NEW text \in Seq(S), NEW base \in {0} \cup 2 .. 36
  PROVE  LET start == Start(text, base)
             exact == Exact(start.rest, start.base)
             n == IF start.neg THEN 0 - exact ELSE exact
         IN /\ strtol(text, base) = Max({0 - LONG_MAX - 1, Min({LONG_MAX, n})})
            /\ strtoul(text, base) = IF exact > ULONG_MAX THEN ULONG_MAX ELSE Wrapped(n)
<1> DEFINE start == Start(text, base)
           E == Exact(start.rest, start.base)
<1>1. start.rest \in Seq(S) /\ start.base \in Nat \ {0} /\ start.neg \in BOOLEAN
  <2>1. PICK i \in 1 .. Len(text) + 1 : \E j \in {i, i + 1} : \E k \in {j, j + 2} :
          Begins(text, base, i, j, k)
    BY StartCuts, Zenon
  <2>2. PICK j \in {i, i + 1} : \E k \in {j, j + 2} : Begins(text, base, i, j, k)
    BY <2>1, Zenon
  <2>7. PICK k \in {j, j + 2} : Begins(text, base, i, j, k)
    BY <2>2, Zenon
  <2>6. /\ k <= Len(text) + 1
        /\ start.neg = (At(text, i) = "-") /\ start.rest = From(text, k)
        /\ start.base \in Nat \ {0}
    BY <2>7 DEF Begins
  <2> HIDE DEF start
  <2>3. k \in 1 .. Len(text) + 1
    BY <2>6
  <2>4. start.rest \in Seq(S)
    BY <2>6, <2>3, FromIs
  <2>5. start.neg \in BOOLEAN
    BY <2>6
  <2> QED
    BY <2>6, <2>4, <2>5
<1>2. PICK half \in Nat \ {0} :
        LongSpan = 2 * half /\ LONG_MAX = half - 1 /\ ULONG_MAX = 2 * half - 1
  BY LongIs
<1> HIDE DEF start
<1>3. Len(start.rest) \in Nat
  BY <1>1
<1>4. ASSUME NEW limit \in Nat
      PROVE /\ E \in Nat
            /\ Accumulated(start, limit).over <=> E > limit
            /\ ~Accumulated(start, limit).over => Accumulated(start, limit).acc = E
  BY <1>1, <1>3, AccumulatedIs
<1>5. PICK e \in Nat : e = E
  <2>1. 0 \in Nat
    OBVIOUS
  <2> QED
    BY <1>4, <2>1
<1>6. ASSUME NEW limit \in Nat
      PROVE /\ Accumulated(start, limit).over <=> e > limit
            /\ ~Accumulated(start, limit).over => Accumulated(start, limit).acc = e
  BY <1>4, <1>5
<1> DEFINE n == IF start.neg THEN 0 - e ELSE e
           limit == IF start.neg THEN LONG_MAX + 1 ELSE LONG_MAX
           a == Accumulated(start, limit)
           u == Accumulated(start, ULONG_MAX)
<1>7. strtol(text, base) = IF a.over THEN IF start.neg THEN 0 - limit ELSE limit
                           ELSE IF start.neg THEN 0 - a.acc ELSE a.acc
  BY DEF strtol, start
<1>8. strtoul(text, base) = IF u.over THEN ULONG_MAX
                            ELSE Wrapped(IF start.neg THEN 0 - u.acc ELSE u.acc)
  BY DEF strtoul, start
<1>9. limit \in Nat /\ limit = (IF start.neg THEN half ELSE half - 1) /\ ULONG_MAX \in Nat
  BY <1>2
<1>10. /\ a.over <=> e > limit
       /\ ~a.over => a.acc = e
  BY <1>6, <1>9
<1>11. /\ u.over <=> e > ULONG_MAX
       /\ ~u.over => u.acc = e
  BY <1>6, <1>9
<1>12. n \in Int
  BY <1>5
<1> HIDE DEF limit, a, u
<1>13. Min({LONG_MAX, n}) = IF half - 1 <= n THEN half - 1 ELSE n
  BY <1>2, <1>12, MinMaxOfTwo
<1>14. PICK m \in Int : m = Min({LONG_MAX, n}) /\ m = IF half - 1 <= n THEN half - 1 ELSE n
  BY <1>12, <1>13
<1>15. Max({0 - LONG_MAX - 1, m}) = IF 0 - half <= m THEN m ELSE 0 - half
  <2>1. 0 - LONG_MAX - 1 = 0 - half /\ 0 - half \in Int
    BY <1>2
  <2>2. Max({0 - half, m}) = IF 0 - half <= m THEN m ELSE 0 - half
    BY <2>1, MinMaxOfTwo
  <2> QED
    BY <2>1, <2>2
<1>16. strtol(text, base) = IF 0 - half <= m THEN m ELSE 0 - half
  <2>1. CASE start.neg
    <3>1. limit = half /\ n = 0 - e
      BY <1>9, <2>1
    <3>2. strtol(text, base) = IF e > half THEN 0 - half ELSE 0 - e
      BY <1>7, <1>10, <2>1, <3>1
    <3>3. m = 0 - e
      <4>1. e >= 0 /\ half - 1 >= 0 /\ half - 1 \in Int
        BY <1>5
      <4>2. PICK z \in Int : z = 0 - e /\ z = n
        BY <1>5, <3>1
      <4>3. m = IF half - 1 <= z THEN half - 1 ELSE z
        BY <1>14, <4>2
      <4> HIDE DEF n
      <4>4. half - 1 <= z => z = 0 /\ half - 1 = 0
        BY <4>1, <4>2
      <4> QED
        BY <4>2, <4>3, <4>4
    <3> QED
      BY <3>2, <3>3
  <2>2. CASE ~start.neg
    <3>1. limit = half - 1 /\ n = e
      BY <1>9, <2>2
    <3>2. strtol(text, base) = IF e > half - 1 THEN half - 1 ELSE e
      BY <1>7, <1>10, <2>2, <3>1
    <3>3. m = IF half - 1 <= e THEN half - 1 ELSE e
      BY <1>14, <3>1
    <3> QED
      BY <3>2, <3>3
  <2> QED
    BY <2>1, <2>2
<1>17. strtol(text, base) = Max({0 - LONG_MAX - 1, Min({LONG_MAX, n})})
  BY <1>14, <1>15, <1>16
<1>18. strtoul(text, base) = IF e > ULONG_MAX THEN ULONG_MAX ELSE Wrapped(n)
  <2>1. CASE e > ULONG_MAX
    BY <1>8, <1>11, <2>1
  <2>2. CASE ~(e > ULONG_MAX)
    <3>1. (IF start.neg THEN 0 - u.acc ELSE u.acc) = n
      BY <1>11, <2>2
    <3> QED
      BY <1>8, <1>11, <2>2, <3>1
  <2> QED
    BY <2>1, <2>2
<1> QED
  BY <1>5, <1>17, <1>18, Zenon DEF n, start

(* A text is read as the number it begins with, or as the nearest there is  *)
(* (itoa.cpp 67-212).                                                       *)
THEOREM NumberFound ==
  ASSUME NEW S, NEW text \in Seq(S), NEW base \in {0} \cup 2 .. 36
  PROVE  NumberRight(text, base)
<1> DEFINE start == Start(text, base)
           Reads(exact, n) ==
             /\ strtol(text, base) = Max({0 - LONG_MAX - 1, Min({LONG_MAX, n})})
             /\ strtoul(text, base) = IF exact > ULONG_MAX THEN ULONG_MAX ELSE Wrapped(n)
           E(s, b) == Exact(s, b)
<1>1. Reads(E(start.rest, start.base),
            IF start.neg THEN 0 - E(start.rest, start.base) ELSE E(start.rest, start.base))
  BY Nearest
<1> HIDE DEF start, Reads
<1>2. PICK i \in 1 .. Len(text) + 1 : \E j \in {i, i + 1} : \E k \in {j, j + 2} :
        Begins(text, base, i, j, k)
  BY StartCuts, Zenon
<1>6. PICK j \in {i, i + 1} : \E k \in {j, j + 2} : Begins(text, base, i, j, k)
  BY <1>2, Zenon
<1>7. PICK k \in {j, j + 2} : Begins(text, base, i, j, k)
  BY <1>6, Zenon
<1>3. /\ Cut(text, base, i, j, k)
      /\ start.neg = (At(text, i) = "-") /\ start.rest = From(text, k)
      /\ start.base = RadixAt(text, base, j, k)
  BY <1>7, Zenon DEF Begins, start
<1>4. E(start.rest, start.base) = E(From(text, k), RadixAt(text, base, j, k))
  BY <1>3, Zenon
<1> HIDE DEF E
<1>5. Reads(E(From(text, k), RadixAt(text, base, j, k)),
            IF At(text, i) = "-" THEN 0 - E(From(text, k), RadixAt(text, base, j, k))
            ELSE E(From(text, k), RadixAt(text, base, j, k)))
  BY <1>1, <1>3, <1>4
<1> QED
  BY <1>3, <1>5, Zenon DEF NumberRight, Reads, E

----------------------------------------------------------------------------
(* The digits of u, the last one first: what they are, and that they make   *)
(* u when they are read from the other end.                                 *)
DigitsMake(f, b, u) ==
  /\ Len(f) \in Nat \ {0}
  /\ \A i \in 1 .. Len(f) : DigitOf(f[i]) < b
  /\ \E h \in [0 .. Len(f) -> Nat] :
       /\ h[0] = 0 /\ h[Len(f)] = u
       /\ \A k \in 1 .. Len(f) : h[k] = h[k - 1] * b + DigitOf(f[Len(f) - k + 1])

(* One digit is a number.                                                   *)
LEMMA OneDigit ==
  ASSUME NEW c, NEW b \in Nat, DigitOf(c) < b
  PROVE  DigitsMake(<<c>>, b, DigitOf(c))
<1>1. PICK d \in Nat : d = DigitOf(c)
  BY DigitIs
<1> DEFINE h == [k \in 0 .. 1 |-> IF k = 0 THEN 0 ELSE d]
           f == <<c>>
<1>2. Len(f) = 1 /\ f[1] = c
  OBVIOUS
<1>3. h \in [0 .. 1 -> Nat] /\ h[0] = 0 /\ h[1] = d
  OBVIOUS
<1> HIDE DEF h, f
<1>4. \A k \in 1 .. 1 : h[k] = h[k - 1] * b + DigitOf(f[1 - k + 1])
  <2>1. \A k \in 1 .. 1 : k = 1
    OBVIOUS
  <2>2. h[1] = h[1 - 1] * b + DigitOf(f[1 - 1 + 1])
    BY <1>1, <1>2, <1>3
  <2> QED
    BY <2>1, <2>2
<1>5. \A i \in 1 .. 1 : DigitOf(f[i]) < b
  BY <1>2
<1>6. DigitsMake(f, b, d)
  BY <1>2, <1>3, <1>4, <1>5 DEF DigitsMake
<1> QED
  BY <1>1, <1>6 DEF f

(* One digit more, at the end of the number.                                *)
LEMMA OneDigitMore ==
  ASSUME NEW S, NEW f \in Seq(S), NEW c \in S, NEW b \in Nat, NEW u \in Nat,
         DigitsMake(f, b, u), DigitOf(c) < b
  PROVE  DigitsMake(<<c>> \o f, b, u * b + DigitOf(c))
<1>1. PICK d \in Nat : d = DigitOf(c)
  BY DigitIs
<1>2. PICK n \in Nat \ {0} : n = Len(f)
  BY DEF DigitsMake
<1> DEFINE g == <<c>> \o f
<1>3. Len(g) = n + 1 /\ g[1] = c /\ \A i \in 2 .. n + 1 : g[i] = f[i - 1]
  BY <1>2
<1>4. PICK h \in [0 .. n -> Nat] :
        /\ h[0] = 0 /\ h[n] = u
        /\ \A k \in 1 .. n : h[k] = h[k - 1] * b + DigitOf(f[n - k + 1])
  BY <1>2 DEF DigitsMake
<1>5. PICK w \in Nat : w = u * b + d
  BY ProductIs
<1> DEFINE m == [k \in 0 .. n + 1 |-> IF k = n + 1 THEN w ELSE h[k]]
<1>6. m \in [0 .. n + 1 -> Nat]
  <2>1. \A k \in 0 .. n + 1 : k = n + 1 \/ k \in 0 .. n
    OBVIOUS
  <2> QED
    BY <2>1
<1>7. m[n + 1] = w /\ \A k \in 0 .. n : m[k] = h[k]
  OBVIOUS
<1> HIDE DEF g, m
<1>8. m[0] = 0
  BY <1>4, <1>7
<1>9. ASSUME NEW k \in 1 .. n + 1
      PROVE m[k] = m[k - 1] * b + DigitOf(g[(n + 1) - k + 1])
  <2>1. CASE k = n + 1
    <3>1. k - 1 = n /\ (n + 1) - k + 1 = 1
      BY <2>1
    <3>2. m[k - 1] = u
      BY <1>4, <1>7, <3>1
    <3> QED
      BY <1>1, <1>3, <1>5, <1>7, <2>1, <3>1, <3>2
  <2>2. CASE k # n + 1
    <3>1. k \in 1 .. n /\ k \in 0 .. n /\ k - 1 \in 0 .. n
      BY <2>2
    <3>2. (n + 1) - k + 1 \in 2 .. n + 1 /\ ((n + 1) - k + 1) - 1 = n - k + 1
      BY <3>1
    <3>3. g[(n + 1) - k + 1] = f[n - k + 1]
      BY <1>3, <3>2
    <3>4. h[k] = h[k - 1] * b + DigitOf(f[n - k + 1])
      BY <1>4, <3>1
    <3>5. m[k] = h[k] /\ m[k - 1] = h[k - 1]
      BY <1>7, <3>1
    <3> QED
      BY <3>3, <3>4, <3>5
  <2> QED
    BY <2>1, <2>2
<1>10. ASSUME NEW i \in 1 .. n + 1 PROVE DigitOf(g[i]) < b
  <2>1. CASE i = 1
    BY <1>3, <2>1
  <2>2. CASE i # 1
    <3>1. i \in 2 .. n + 1 /\ i - 1 \in 1 .. n
      BY <2>2
    <3>2. DigitOf(f[i - 1]) < b
      BY <1>2, <3>1 DEF DigitsMake
    <3> QED
      BY <1>3, <3>1, <3>2
  <2> QED
    BY <2>1, <2>2
<1>11. n + 1 \in Nat \ {0}
  OBVIOUS
<1>12. DigitsMake(g, b, w)
  <2>1. Len(g) = n + 1
    BY <1>3
  <2> QED
    BY <1>6, <1>7, <1>8, <1>9, <1>10, <1>11, <2>1, ZenonT(60) DEF DigitsMake
<1> QED
  BY <1>1, <1>5, <1>12 DEF g

(* A number divided is less, unless it is one digit.                        *)
LEMMA QuotientIs ==
  ASSUME NEW b \in Nat, 2 <= b, NEW u \in Nat
  PROVE  \E q \in Nat, r \in 0 .. b - 1 :
           /\ q = u \div b /\ r = u % b /\ u = q * b + r
           /\ u < b => r = u
           /\ u >= b => q \in 0 .. u - 1
<1>1. b \in Nat \ {0}
  OBVIOUS
<1>2. PICK q \in Nat, r \in 0 .. b - 1 : q = u \div b /\ r = u % b /\ u = (b * q) + r
  <2>1. u \div b \in Nat
    BY <1>1, NatDivision
  <2>2. u % b \in 0 .. b - 1 /\ u = (b * (u \div b)) + (u % b)
    BY <1>1, Division
  <2> QED
    BY <2>1, <2>2
<1>3. PICK x \in Nat : x = b * q
  BY ProductIs
<1>4. q * b = x /\ u = x + r
  BY <1>2, <1>3
<1>5. q >= 1 => x >= q + 1 /\ x >= b
  <2>1. ASSUME q >= 1 PROVE x >= q + 1 /\ x >= b
    <3>1. PICK e \in Nat, p \in Nat : b = e + 2 /\ q = p + 1
      <4>1. b - 2 \in Nat /\ q - 1 \in Nat /\ b = (b - 2) + 2 /\ q = (q - 1) + 1
        BY <2>1
      <4> QED
        BY <4>1
    <3>2. PICK y \in Nat : y = e * p
      BY ProductIs
    <3>3. x = y + e + 2 * p + 2
      BY <1>3, <3>1, <3>2
    <3> QED
      BY <3>1, <3>3
  <2> QED
    BY <2>1
<1>6. u < b => r = u
  <2>1. u < b => q = 0
    BY <1>4, <1>5
  <2>2. q = 0 => x = 0
    BY <1>3
  <2> QED
    BY <1>4, <2>1, <2>2
<1>7. u >= b => q <= u - 1
  <2>1. CASE q = 0
    BY <2>1
  <2>2. CASE q # 0
    BY <1>4, <1>5, <2>2
  <2> QED
    BY <2>1, <2>2
<1>8. u = q * b + r
  BY <1>4
<1>9. u >= b => q \in 0 .. u - 1
  BY <1>7
<1> QED
  BY <1>2, <1>6, <1>8, <1>9

(* Each value is made of those before it.                                   *)
OfEarlier(n, S, step) ==
  \A k \in 0 .. n, g \in [0 .. n -> S] :
    /\ step[<<k, g>>] \in S
    /\ \A h \in [0 .. n -> S] :
         (\A j \in 0 .. k - 1 : g[j] = h[j]) => step[<<k, g>>] = step[<<k, h>>]

(* There is a function whose values are made of those before.               *)
LEMMA Memory ==
  ASSUME NEW n \in Nat, NEW S, NEW z \in S, NEW step, OfEarlier(n, S, step)
  PROVE  \E g \in [0 .. n -> S] : \A k \in 0 .. n : g[k] = step[<<k, g>>]
<1> DEFINE F == [0 .. n -> S]
           change == [p \in (1 .. n + 1) \X F |-> [p[2] EXCEPT ![p[1] - 1] = step[<<p[1] - 1, p[2]>>]]]
           none == [k \in 0 .. n |-> z]
<1>1. none \in F
  OBVIOUS
<1>2. \A k \in 1 .. n + 1, g \in F :
        change[<<k, g>>] = [g EXCEPT ![k - 1] = step[<<k - 1, g>>]]
  OBVIOUS
<1> HIDE DEF change
<1>3. ASSUME NEW k \in 1 .. n + 1, NEW g \in F PROVE change[<<k, g>>] \in F
  <2>1. k - 1 \in 0 .. n
    OBVIOUS
  <2>2. step[<<k - 1, g>>] \in S
    BY <2>1 DEF OfEarlier
  <2>3. PICK x \in S : x = step[<<k - 1, g>>]
    BY <2>2
  <2>4. change[<<k, g>>] = [g EXCEPT ![k - 1] = x]
    BY <1>2, <2>3
  <2>5. [g EXCEPT ![k - 1] = x] \in F
    OBVIOUS
  <2> QED
    BY <2>4, <2>5
<1> HIDE DEF none, F
<1>4. n + 1 \in Nat
  OBVIOUS
<1>5. PICK h \in [0 .. n + 1 -> F] : Chain(h, n + 1, none, change)
  BY <1>1, <1>3, <1>4, Recursion
<1>6. ASSUME NEW k \in 0 .. n
      PROVE /\ h[k] \in F /\ h[k + 1] \in F
            /\ h[k + 1][k] = step[<<k, h[k]>>]
            /\ \A j \in 0 .. n : j # k => h[k + 1][j] = h[k][j]
  <2>1. k \in 0 .. n + 1 /\ k + 1 \in 1 .. n + 1 /\ k + 1 \in 0 .. n + 1 /\ (k + 1) - 1 = k
    OBVIOUS
  <2>2. h[k + 1] = change[<<k + 1, h[k]>>]
    BY <1>5, <2>1 DEF Chain
  <2>3. h[k] \in F
    BY <1>5, <2>1
  <2>4. h[k + 1] = [h[k] EXCEPT ![k] = step[<<k, h[k]>>]]
    BY <1>2, <2>1, <2>2, <2>3
  <2> QED
    BY <1>5, <2>1, <2>3, <2>4 DEF F
<1> DEFINE T == {k \in 0 .. n + 1 : \A j \in 0 .. k - 1 : h[k][j] = h[j + 1][j]}
<1>7. 0 \in T
  OBVIOUS
<1>8. ASSUME NEW k \in 1 .. n + 1, k - 1 \in T PROVE k \in T
  <2>1. k - 1 \in 0 .. n /\ (k - 1) + 1 = k
    OBVIOUS
  <2>2. ASSUME NEW j \in 0 .. k - 1 PROVE h[k][j] = h[j + 1][j]
    <3>1. CASE j = k - 1
      BY <2>1, <3>1
    <3>2. CASE j # k - 1
      <4>1. j \in 0 .. (k - 1) - 1 /\ j \in 0 .. n
        BY <3>2
      <4>2. h[k - 1][j] = h[j + 1][j]
        BY <1>8, <4>1
      <4>3. h[(k - 1) + 1][j] = h[k - 1][j]
        BY <1>6, <2>1, <3>2, <4>1
      <4> QED
        BY <2>1, <4>2, <4>3
    <3> QED
      BY <3>1, <3>2
  <2> QED
    BY <2>2
<1>9. \A k \in 0 .. n + 1 : k \in T
  <2> HIDE DEF T
  <2> QED
    BY <1>4, <1>7, <1>8, Upwards
<1> DEFINE g == [j \in 0 .. n |-> h[j + 1][j]]
<1>10. \A j \in 0 .. n : g[j] = h[j + 1][j]
  OBVIOUS
<1>11. g \in F
  <2>1. ASSUME NEW j \in 0 .. n PROVE h[j + 1][j] \in S
    BY <1>6 DEF F
  <2> QED
    BY <2>1 DEF F
<1> HIDE DEF g
<1>12. ASSUME NEW k \in 0 .. n PROVE g[k] = step[<<k, g>>]
  <2>1. k \in 0 .. n + 1
    OBVIOUS
  <2>2. \A j \in 0 .. k - 1 : h[k][j] = h[j + 1][j]
    BY <1>9, <2>1
  <2>3. \A j \in 0 .. k - 1 : h[k][j] = g[j]
    <3>1. \A j \in 0 .. k - 1 : j \in 0 .. n
      OBVIOUS
    <3> QED
      BY <1>10, <2>2, <3>1
  <2>4. h[k] \in F
    BY <1>6
  <2>5. step[<<k, h[k]>>] = step[<<k, g>>]
    BY <1>11, <2>3, <2>4 DEF F, OfEarlier
  <2> QED
    BY <1>6, <1>10, <2>5
<1> QED
  BY <1>11, <1>12 DEF F

(* The digits of a number are found, and make it.                           *)
LEMMA BackwardsIs ==
  ASSUME NEW S, NEW table \in [1 .. 16 -> S], \A i \in 1 .. 16 : DigitOf(table[i]) = i - 1,
         NEW base \in 2 .. 16, NEW number \in Long
  PROVE  /\ Backwards(base, table)[number] \in Seq(S)
         /\ DigitsMake(Backwards(base, table)[number], base, number)
<1> DEFINE n == LongSpan - 1
           Strs == Seq(S)
           One(u, f) == <<table[(u % base) + 1]>> \o IF u < base THEN <<>> ELSE f[u \div base]
           Is(f) == f = [u \in Long |-> One(u, f)]
           made == CHOOSE f : Is(f)
           step == [p \in (0 .. n) \X [0 .. n -> Strs] |-> One(p[1], p[2])]
<1>1. Backwards(base, table) = made
  BY DEF Backwards
<1>2. n \in Nat /\ Long = 0 .. n
  <2>1. LongSpan \in Nat \ {0}
    BY PrintfAssumption
  <2> QED
    BY <2>1 DEF Long
<1>3. \A u \in 0 .. n, f \in [0 .. n -> Strs] : step[<<u, f>>] = One(u, f)
  OBVIOUS
<1> HIDE DEF n, step
<1>4. base \in Nat /\ 2 <= base /\ <<>> \in Strs
  OBVIOUS
<1>5. ASSUME NEW u \in 0 .. n
      PROVE \E q \in Nat, r \in 0 .. base - 1 :
              /\ q = u \div base /\ r = u % base /\ u = q * base + r
              /\ u < base => r = u
              /\ u >= base => q \in 0 .. u - 1
  <2>1. u \in Nat
    BY <1>2
  <2> QED
    BY <1>4, <2>1, QuotientIs
<1>6. ASSUME NEW u \in 0 .. n
      PROVE \E c \in S : c = table[(u % base) + 1] /\ DigitOf(c) = u % base /\ u % base < base
  <2>1. PICK r \in 0 .. base - 1 : r = u % base
    BY <1>5
  <2>2. r + 1 \in 1 .. 16 /\ (r + 1) - 1 = r /\ r < base
    OBVIOUS
  <2>3. table[r + 1] \in S /\ DigitOf(table[r + 1]) = r
    BY <2>2
  <2> QED
    BY <2>1, <2>2, <2>3
<1>7. ASSUME NEW u \in 0 .. n, NEW f, u >= base => f[u \div base] \in Strs
      PROVE One(u, f) \in Strs
  <2>1. PICK c \in S : c = table[(u % base) + 1]
    BY <1>6
  <2> DEFINE rest == IF u < base THEN <<>> ELSE f[u \div base]
  <2>2. rest \in Strs
    <3>1. u < base \/ u >= base
      BY <1>2, <1>4
    <3> QED
      BY <1>4, <1>7, <3>1, Zenon
  <2> HIDE DEF rest
  <2>3. <<c>> \o rest \in Strs
    BY <2>2
  <2>4. One(u, f) = <<c>> \o rest
    BY <2>1 DEF rest
  <2> QED
    BY <2>3, <2>4
<1>8. \A u \in 0 .. n : u >= base => u \div base \in 0 .. n /\ u \div base \in 0 .. u - 1
  <2>1. ASSUME NEW u \in 0 .. n, u >= base PROVE u \div base \in 0 .. n /\ u \div base \in 0 .. u - 1
    <3>1. PICK q \in Nat : q = u \div base /\ q \in 0 .. u - 1
      BY <1>5, <2>1
    <3>2. q \in 0 .. n
      BY <1>2, <3>1
    <3> QED
      BY <3>1, <3>2
  <2> QED
    BY <2>1
<1> HIDE DEF Strs
<1>9. \A u \in 0 .. n, f \in [0 .. n -> Strs] : step[<<u, f>>] \in Strs
  <2>1. ASSUME NEW u \in 0 .. n, NEW f \in [0 .. n -> Strs] PROVE step[<<u, f>>] \in Strs
    <3>1. u >= base => f[u \div base] \in Strs
      BY <1>8
    <3>2. One(u, f) \in Strs
      BY <1>7, <3>1
    <3> HIDE DEF One
    <3> QED
      BY <1>3, <3>2
  <2> QED
    BY <2>1
<1>10. \A u \in 0 .. n, f \in [0 .. n -> Strs], g \in [0 .. n -> Strs] :
         (\A j \in 0 .. u - 1 : f[j] = g[j]) => step[<<u, f>>] = step[<<u, g>>]
  <2>1. ASSUME NEW u \in 0 .. n, NEW f \in [0 .. n -> Strs], NEW g \in [0 .. n -> Strs],
               \A j \in 0 .. u - 1 : f[j] = g[j]
        PROVE step[<<u, f>>] = step[<<u, g>>]
    <3>1. ~(u < base) => f[u \div base] = g[u \div base]
      <4>1. ~(u < base) => u >= base
        BY <1>2, <1>4
      <4> QED
        BY <1>8, <2>1, <4>1
    <3>2. One(u, f) = One(u, g)
      BY <3>1, Zenon
    <3> HIDE DEF One
    <3> QED
      BY <1>3, <3>2
  <2> QED
    BY <2>1
<1>11. PICK g \in [0 .. n -> Strs] : \A u \in 0 .. n : g[u] = step[<<u, g>>]
  <2> HIDE DEF One
  <2>1. n \in Nat /\ <<>> \in Strs
    BY <1>2, <1>4
  <2>2. OfEarlier(n, Strs, step)
    BY <1>9, <1>10 DEF OfEarlier
  <2> QED
    BY <2>1, <2>2, Memory
<1>12. Is(g)
  <2> DEFINE unfolded == [u \in Long |-> One(u, g)]
  <2>1. \A u \in Long : unfolded[u] = One(u, g)
    OBVIOUS
  <2>2. unfolded = [u \in Long |-> unfolded[u]] /\ g = [u \in Long |-> g[u]]
    BY <1>2, <1>11
  <2>3. \A u \in Long : g[u] = unfolded[u]
    <3> HIDE DEF unfolded, One
    <3> QED
      BY <1>2, <1>3, <1>11, <2>1
  <2> HIDE DEF unfolded
  <2>4. g = unfolded
    BY <2>2, <2>3, SameFunction
  <2> QED
    BY <2>4 DEF unfolded
<1>13. Is(made)
  BY <1>12
<1> HIDE DEF made
<1>14. \A u \in 0 .. n : made[u] = One(u, made)
  <2>1. \A u \in Long : made[u] = One(u, made)
    <3> HIDE DEF One
    <3> QED
      BY <1>13
  <2> QED
    BY <1>2, <2>1
<1> DEFINE DigitsGood(u) == made[u] \in Strs /\ DigitsMake(made[u], base, u)
           T == {k \in 0 .. n : \A u \in 0 .. k : DigitsGood(u)}
<1>15. ASSUME NEW k \in 0 .. n, \A u \in 0 .. k - 1 : DigitsGood(u) PROVE DigitsGood(k)
  <2>1. PICK c \in S : c = table[(k % base) + 1] /\ DigitOf(c) = k % base /\ DigitOf(c) < base
    BY <1>6
  <2>2. PICK q \in Nat, r \in 0 .. base - 1 :
           /\ q = k \div base /\ r = k % base /\ k = q * base + r
           /\ k < base => r = k
           /\ k >= base => q \in 0 .. k - 1
    BY <1>5
  <2>3. CASE k < base
    <3>1. made[k] = <<c>> \o <<>>
      BY <1>14, <2>1, <2>3
    <3>2. made[k] = <<c>>
      BY <3>1
    <3>3. DigitOf(c) = k
      BY <2>1, <2>2, <2>3
    <3>4. DigitsMake(<<c>>, base, k)
      BY <1>4, <2>1, <3>3, OneDigit
    <3>5. <<c>> \in Strs
      BY DEF Strs
    <3> QED
      BY <3>2, <3>4, <3>5
  <2>4. CASE ~(k < base)
    <3>1. made[k] = <<c>> \o made[q]
      BY <1>14, <2>1, <2>2, <2>4
    <3>2. k >= base
      BY <1>2, <1>4, <2>4
    <3>3. DigitsGood(q)
      BY <1>15, <2>2, <3>2
    <3>4. DigitsMake(<<c>> \o made[q], base, q * base + DigitOf(c))
      BY <1>4, <2>1, <3>3, OneDigitMore DEF Strs
    <3>5. q * base + DigitOf(c) = k
      BY <2>1, <2>2
    <3>6. <<c>> \o made[q] \in Strs
      BY <3>3 DEF Strs
    <3> QED
      BY <3>1, <3>4, <3>5, <3>6
  <2> QED
    BY <2>3, <2>4
<1> HIDE DEF DigitsGood
<1>16. 0 \in T
  <2>1. \A u \in 0 .. 0 - 1 : DigitsGood(u)
    OBVIOUS
  <2>2. 0 \in 0 .. n /\ \A u \in 0 .. 0 : u = 0
    BY <1>2
  <2> QED
    BY <1>15, <2>1, <2>2
<1>17. ASSUME NEW k \in 1 .. n, k - 1 \in T PROVE k \in T
  <2>1. \A u \in 0 .. k - 1 : DigitsGood(u)
    BY <1>17
  <2>2. k \in 0 .. n /\ \A u \in 0 .. k : u = k \/ u \in 0 .. k - 1
    OBVIOUS
  <2>3. DigitsGood(k)
    BY <1>15, <2>1, <2>2
  <2> QED
    BY <2>1, <2>2, <2>3
<1>18. \A k \in 0 .. n : k \in T
  <2> HIDE DEF T
  <2> QED
    BY <1>2, <1>16, <1>17, Upwards
<1>19. DigitsGood(number)
  <2>1. number \in 0 .. n /\ number \in Nat
    BY <1>2
  <2>2. number \in 0 .. number
    BY <2>1
  <2> QED
    BY <1>18, <2>1, <2>2
<1> QED
  BY <1>1, <1>19 DEF DigitsGood, Strs

(* The characters that begin and end a number, and tell its base.           *)
Space == " "
Marks == {"-", "+"}
Exes == {"x", "X"}

(* They are apart, and no digits.                                           *)
LEMMA CharactersApart ==
  /\ DigitOf(Space) = 99 /\ DigitOf("0") = 0 /\ Space \in Blanks
  /\ \A c \in Blanks : DigitOf(c) = 99
  /\ \A c \in Marks : DigitOf(c) = 99 /\ c \notin Blanks
  /\ \A c \in Exes : DigitOf(c) = 33
  /\ "NUL" \notin Exes /\ "NUL" \notin Marks /\ "0" \notin Marks /\ "x" \in Exes
<1>1. /\ DigitOf(Space) = 99 /\ Space \in Blanks
      /\ \A c \in Blanks : DigitOf(c) = 99
      /\ \A c \in Marks : DigitOf(c) = 99
  <2>1. Space \in Blanks
    BY Zenon DEF Space, Blanks
  <2>2. \A c \in Blanks \cup Marks : DigitOf(c) = 99
    BY DigitIs, Zenon DEF Marks
  <2> QED
    BY <2>1, <2>2
<1>2. \A c \in Marks : c \notin Blanks
  BY DEF Blanks, Marks
<1>3. \A c \in Exes : DigitOf(c) = 33
  BY DigitIs, Zenon DEF Exes
<1>4. "NUL" \notin Exes /\ "NUL" \notin Marks /\ "0" \notin Marks /\ "x" \in Exes
  BY Zenon DEF Exes, Marks
<1>5. DigitOf("0") = 0
  <2>1. digits[1] = "0"
    BY DEF digits
  <2>2. DigitOf(digits[1]) = 1 - 1
    <3>1. 1 \in 1 .. 16
      OBVIOUS
    <3> QED
      BY <3>1, DigitIs
  <2> QED
    BY <2>1, <2>2
<1> QED
  BY <1>1, <1>2, <1>3, <1>4, <1>5

(* A number as it stands in a text: blanks, a sign, the prefix of a         *)
(* hexadecimal one, digits, and the end or a blank.                         *)
StandsIn(p, b, neg, u, a, sg, px, m) ==
  /\ Len(p) \in Nat /\ a \in Nat /\ sg \in {0, 1} /\ px \in {0, 2} /\ m \in Nat \ {0}
  /\ a + sg + px + m <= Len(p)
  /\ \A i \in 1 .. a : p[i] = Space
  /\ sg = 1 => p[a + 1] \in Marks
  /\ neg <=> sg = 1 /\ p[a + 1] = "-"
  /\ px = 2 => b = 16 /\ p[a + sg + 1] = "0" /\ p[a + sg + 2] = "x"
  /\ \A k \in 1 .. m : DigitOf(p[a + sg + px + k]) < b
  /\ a + sg + px + m < Len(p) => p[a + sg + px + m + 1] = Space
  /\ \E h \in [0 .. m -> Nat] :
       /\ h[0] = 0 /\ h[m] = u
       /\ \A k \in 1 .. m : h[k] = h[k - 1] * b + DigitOf(p[a + sg + px + k])

(* It is found there, and read as what its digits make.                     *)
LEMMA NumberStands ==
  ASSUME NEW S, NEW p \in Seq(S), NEW b \in {8, 10, 16}, NEW neg \in BOOLEAN, NEW u, NEW a, NEW sg,
         NEW px, NEW m, StandsIn(p, b, neg, u, a, sg, px, m)
  PROVE  Start(p, b).neg = neg /\ Exact(Start(p, b).rest, Start(p, b).base) = u
<1> DEFINE blanks == Blanks
           s == Skip(p, blanks)
           t == IF At(s, 1) \in Marks THEN Tail(s) ELSE s
           hex == b \in {0, 16} /\ At(t, 1) = "0" /\ At(t, 2) \in Exes
           bin == ~hex /\ b \in {0, 2} /\ At(t, 1) = "0" /\ At(t, 2) \in {"b", "B"}
           start == Start(p, b)
           n == Len(p)
           f == a + sg + px
<1>1. start = [neg |-> At(s, 1) = "-",
               rest |-> IF hex \/ bin THEN From(t, 3) ELSE t,
               base |-> IF hex THEN 16 ELSE IF bin THEN 2
                        ELSE IF b = 0 THEN IF At(t, 1) = "0" THEN 8 ELSE 10 ELSE b]
  BY Zenon DEF Start, Marks, Exes
<1>2. /\ n \in Nat /\ a \in Nat /\ sg \in {0, 1} /\ px \in {0, 2} /\ m \in Nat \ {0}
      /\ f + m <= n
      /\ \A i \in 1 .. a : p[i] = Space
      /\ sg = 1 => p[a + 1] \in Marks
      /\ neg <=> sg = 1 /\ p[a + 1] = "-"
      /\ px = 2 => b = 16 /\ p[a + sg + 1] = "0" /\ p[a + sg + 2] = "x"
      /\ \A k \in 1 .. m : DigitOf(p[f + k]) < b
      /\ f + m < n => p[f + m + 1] = Space
  BY DEF StandsIn
<1>3. PICK h \in [0 .. m -> Nat] :
        /\ h[0] = 0 /\ h[m] = u
        /\ \A k \in 1 .. m : h[k] = h[k - 1] * b + DigitOf(p[f + k])
  BY DEF StandsIn
<1> HIDE DEF start, n
<1>4. DigitOf(p[f + 1]) < b /\ b <= 16 /\ b \in Nat /\ b # 0 /\ b # 2 /\ f \in Nat /\ a + 1 \in 1 .. n
  BY <1>2
<1>5. p[a + 1] \notin Blanks /\ (sg = 0 => p[a + 1] \notin Marks)
  <2>1. CASE sg = 1
    BY <1>2, <2>1, CharactersApart
  <2>2. CASE sg = 0
    <3>1. CASE px = 2
      <4>1. p[a + 1] = "0"
        BY <1>2, <2>2, <3>1
      <4>2. "0" \notin Blanks
        BY CharactersApart
      <4> QED
        BY <4>1, <4>2, CharactersApart
    <3>2. CASE px = 0
      <4>1. f + 1 = a + 1
        BY <1>2, <2>2, <3>2
      <4>2. DigitOf(p[a + 1]) # 99
        <5>1. PICK d \in Nat : d = DigitOf(p[a + 1])
          <6>1. \A c : DigitOf(c) \in Nat
            BY DigitIs
          <6> QED
            BY <6>1
        <5>2. d < b
          BY <1>4, <4>1, <5>1
        <5> QED
          BY <1>4, <5>1, <5>2
      <4> QED
        BY <4>2, CharactersApart
    <3> QED
      BY <1>2, <3>1, <3>2
  <2> QED
    BY <1>2, <2>1, <2>2
<1>6. s = From(p, a + 1)
  <2>1. PICK i \in 1 .. n + 1 :
          /\ s = From(p, i)
          /\ i <= n => p[i] \notin blanks
          /\ \A j \in 1 .. i - 1 : p[j] \in blanks
    BY SkipIs DEF n
  <2>2. ~(i < a + 1)
    <3>1. i < a + 1 => i \in 1 .. a /\ i <= n
      BY <1>2, <1>4
    <3> QED
      BY <1>2, <2>1, <3>1, CharactersApart
  <2>3. ~(i > a + 1)
    <3>1. i > a + 1 => a + 1 \in 1 .. i - 1
      BY <1>2
    <3> QED
      BY <1>5, <2>1, <3>1
  <2>4. i = a + 1
    BY <1>2, <2>2, <2>3
  <2> QED
    BY <2>1, <2>4
<1> HIDE DEF s, blanks
<1>7. s \in Seq(S) /\ Len(s) = n - a /\ \A j \in 1 .. n - a : s[j] = p[a + j]
  <2>1. a + 1 \in 1 .. Len(p) + 1
    BY <1>4 DEF n
  <2>2. /\ s \in Seq(S) /\ Len(s) = n - (a + 1) + 1
        /\ \A j \in 1 .. n - (a + 1) + 1 : s[j] = p[(a + 1) + j - 1]
    BY <1>6, <2>1, FromIs DEF n
  <2>3. n - (a + 1) + 1 = n - a /\ \A j \in 1 .. n - a : (a + 1) + j - 1 = a + j
    BY <1>2
  <2> QED
    BY <2>2, <2>3
<1>8. At(s, 1) = p[a + 1]
  <2>1. 1 \in 1 .. Len(s) /\ 1 \in 1 .. n - a
    BY <1>2, <1>4, <1>7
  <2> QED
    BY <1>7, <2>1 DEF At
<1>9. At(s, 1) \in Marks <=> sg = 1
  BY <1>2, <1>5, <1>8
<1>10. /\ t \in Seq(S) /\ Len(t) = n - (a + sg)
       /\ \A j \in 1 .. n - (a + sg) : t[j] = p[a + sg + j]
  <2>1. CASE sg = 1
    <3>1. t = Tail(s) /\ s # <<>>
      BY <1>2, <1>4, <1>7, <1>9, <2>1
    <3>2. /\ Tail(s) \in Seq(S) /\ Len(Tail(s)) = Len(s) - 1
          /\ \A j \in 1 .. Len(s) - 1 : Tail(s)[j] = s[j + 1]
      BY <1>7, <3>1
    <3>3. \A j \in 1 .. n - (a + 1) : s[j + 1] = p[a + 1 + j]
      <4>1. ASSUME NEW j \in 1 .. n - (a + 1) PROVE s[j + 1] = p[a + 1 + j]
        <5>1. j + 1 \in 1 .. n - a /\ a + (j + 1) = a + 1 + j
          BY <1>2
        <5> QED
          BY <1>7, <5>1
      <4> QED
        BY <4>1
    <3>4. Len(s) - 1 = n - (a + 1)
      BY <1>2, <1>7
    <3> HIDE DEF t
    <3> QED
      BY <2>1, <3>1, <3>2, <3>3, <3>4
  <2>2. CASE sg = 0
    <3>1. t = s
      BY <1>9, <2>2
    <3>2. a + sg = a
      BY <1>2, <2>2
    <3> HIDE DEF t
    <3> QED
      BY <1>7, <3>1, <3>2
  <2> QED
    BY <1>2, <2>1, <2>2
<1> HIDE DEF t
<1>11. ASSUME NEW j \in Nat, 1 <= j, j <= n - (a + sg) PROVE At(t, j) = p[a + sg + j]
  <2>1. j \in 1 .. n - (a + sg) /\ j \in 1 .. Len(t)
    BY <1>2, <1>10, <1>11
  <2> QED
    BY <1>10, <2>1 DEF At
<1>12. hex <=> px = 2
  <2>1. CASE px = 2
    <3>1. 1 <= n - (a + sg) /\ 2 <= n - (a + sg)
      BY <1>2, <2>1
    <3>2. At(t, 1) = "0" /\ At(t, 2) = "x"
      BY <1>2, <1>11, <2>1, <3>1
    <3> QED
      BY <1>2, <2>1, <3>2, CharactersApart
  <2>2. CASE px = 0
    <3>1. f = a + sg
      BY <1>2, <2>2
    <3>2. At(t, 2) \notin Exes
      <4>1. CASE m >= 2
        <5>1. 2 <= n - (a + sg) /\ 2 \in 1 .. m
          BY <1>2, <3>1, <4>1
        <5>2. At(t, 2) = p[f + 2]
          BY <1>11, <3>1, <5>1
        <5>3. DigitOf(p[f + 2]) < b
          BY <1>2, <5>1
        <5>4. DigitOf(At(t, 2)) # 33
          <6>1. PICK d \in Nat : d = DigitOf(p[f + 2])
            <7>1. \A c : DigitOf(c) \in Nat
              BY DigitIs
            <7> QED
              BY <7>1
          <6>2. d < b
            BY <5>3, <6>1
          <6>3. d # 33
            BY <1>4, <6>2
          <6> QED
            BY <5>2, <6>1, <6>3, Zenon
        <5> QED
          BY <5>4, CharactersApart
      <4>2. CASE m = 1 /\ f + m < n
        <5>1. 2 <= n - (a + sg) /\ f + m + 1 = f + 2
          BY <1>2, <3>1, <4>2
        <5>2. At(t, 2) = p[f + 2]
          BY <1>11, <3>1, <5>1
        <5>3. At(t, 2) = Space
          BY <1>2, <4>2, <5>1, <5>2
        <5> QED
          BY <5>3, CharactersApart
      <4>3. CASE m = 1 /\ f + m = n
        <5>1. 2 \notin 1 .. Len(t)
          BY <1>2, <1>10, <3>1, <4>3
        <5>2. At(t, 2) = "NUL"
          BY <5>1 DEF At
        <5> QED
          BY <5>2, CharactersApart
      <4>4. m >= 2 \/ (m = 1 /\ f + m < n) \/ (m = 1 /\ f + m = n)
        BY <1>2, <1>4
      <4> QED
        BY <4>1, <4>2, <4>3, <4>4
    <3> QED
      BY <2>2, <3>2
  <2> QED
    BY <1>2, <2>1, <2>2
<1>13. ~bin
  BY <1>4
<1> HIDE DEF hex, bin
<1> DEFINE rest == IF px = 2 THEN From(t, 3) ELSE t
<1>14. start = [neg |-> neg, rest |-> rest, base |-> b]
  <2>1. (At(s, 1) = "-") = neg
    <3>1. "-" \in Marks
      BY Zenon DEF Marks
    <3>2. At(s, 1) = "-" <=> neg
      <4>1. At(s, 1) = "-" => sg = 1
        BY <1>9, <3>1, Zenon
      <4> QED
        BY <1>2, <1>8, <4>1, Zenon
    <3>3. (At(s, 1) = "-") \in BOOLEAN
      BY Zenon
    <3> QED
      BY <3>2, <3>3, Zenon
  <2>2. (IF hex \/ bin THEN From(t, 3) ELSE t) = rest
    BY <1>12, <1>13, Zenon
  <2>3. (IF hex THEN 16 ELSE IF bin THEN 2
         ELSE IF b = 0 THEN IF At(t, 1) = "0" THEN 8 ELSE 10 ELSE b) = b
    BY <1>2, <1>4, <1>12, <1>13
  <2> HIDE DEF rest
  <2> QED
    BY <1>1, <2>1, <2>2, <2>3, Zenon
<1>15. rest \in Seq(S) /\ Len(rest) = n - f /\ \A j \in 1 .. n - f : rest[j] = p[f + j]
  <2>1. CASE px = 2
    <3>1. 3 \in 1 .. Len(t) + 1 /\ Len(t) - 3 + 1 = n - f /\ f = a + sg + 2
      BY <1>2, <1>10, <2>1
    <3>2. /\ From(t, 3) \in Seq(S) /\ Len(From(t, 3)) = n - f
          /\ \A j \in 1 .. n - f : From(t, 3)[j] = t[3 + j - 1]
      <4>1. /\ From(t, 3) \in Seq(S) /\ Len(From(t, 3)) = Len(t) - 3 + 1
            /\ \A j \in 1 .. Len(t) - 3 + 1 : From(t, 3)[j] = t[3 + j - 1]
        BY <1>10, <3>1, FromIs
      <4> QED
        BY <3>1, <4>1
    <3>3. \A j \in 1 .. n - f : t[3 + j - 1] = p[f + j]
      <4>1. ASSUME NEW j \in 1 .. n - f PROVE t[3 + j - 1] = p[f + j]
        <5>1. 3 + j - 1 \in 1 .. n - (a + sg) /\ a + sg + (3 + j - 1) = f + j
          BY <1>2, <3>1
        <5> QED
          BY <1>10, <5>1
      <4> QED
        BY <4>1
    <3>4. rest = From(t, 3)
      BY <2>1
    <3> HIDE DEF rest
    <3> QED
      BY <3>2, <3>3, <3>4
  <2>2. CASE px = 0
    <3>1. rest = t /\ f = a + sg
      BY <1>2, <2>2
    <3> HIDE DEF rest, f
    <3> QED
      BY <1>10, <3>1
  <2> QED
    BY <1>2, <2>1, <2>2
<1> HIDE DEF rest, f
<1>16. n - f \in Nat /\ m <= n - f /\ Len(rest) \in Nat
  BY <1>2, <1>4, <1>15
<1>17. \A k \in 1 .. m : rest[k] = p[f + k] /\ DigitOf(rest[k]) < b
  <2>1. \A k \in 1 .. m : k \in 1 .. n - f
    BY <1>2, <1>16
  <2> QED
    BY <1>2, <1>15, <2>1
<1>18. Leading(rest, b) = m
  <2>1. PICK l \in 0 .. n - f :
          /\ l = Leading(rest, b)
          /\ \A i \in 1 .. l : DigitOf(rest[i]) < b
          /\ l < n - f => DigitOf(rest[l + 1]) >= b
    BY <1>4, <1>15, <1>16, LeadingIs
  <2>2. ~(l < m)
    <3>1. l < m => l + 1 \in 1 .. m /\ l < n - f
      BY <1>2, <1>16
    <3>2. DigitOf(rest[l + 1]) \in Nat
      BY DigitIs
    <3> QED
      BY <1>4, <1>17, <2>1, <3>1, <3>2
  <2>3. ~(l > m)
    <3>1. ASSUME l > m PROVE FALSE
      <4>1. m + 1 \in 1 .. l /\ m + 1 \in 1 .. n - f /\ f + m < n /\ f + (m + 1) = f + m + 1
        BY <1>2, <1>4, <1>16, <3>1
      <4>2. rest[m + 1] = Space
        BY <1>2, <1>15, <4>1
      <4>3. DigitOf(rest[m + 1]) < b
        BY <2>1, <4>1
      <4> QED
        BY <1>4, <4>2, <4>3, CharactersApart
    <3> QED
      BY <3>1
  <2> QED
    BY <1>2, <2>1, <2>2, <2>3
<1> DEFINE ns == [i \in 1 .. m |-> DigitOf(rest[i])]
<1>19. ns \in [1 .. m -> Nat] /\ \A k \in 1 .. m : ns[k] = DigitOf(p[f + k])
  BY <1>17, DigitIs
<1>20. Exact(start.rest, start.base) = WorthOf(ns, m, b)
  <2>1. start.rest = rest /\ start.base = b
    BY <1>14
  <2> QED
    BY <1>18, <2>1, Zenon DEF Exact
<1> HIDE DEF ns
<1>21. WorthOf(ns, m, b) = u
  <2>1. \A k \in 1 .. m : h[k] = h[k - 1] * b + ns[k]
    BY <1>3, <1>19
  <2>2. m \in Nat
    BY <1>2
  <2> QED
    BY <1>3, <1>4, <1>19, <2>1, <2>2, WorthOfIs
<1> QED
  BY <1>14, <1>20, <1>21 DEF start

----------------------------------------------------------------------------
(* What a number is printed before: a blank or a sign, a zero or 0x.        *)
HeadLooks(head, b, neg, a, sg, z, px) ==
  /\ a \in {0, 1} /\ sg \in {0, 1} /\ z \in {0, 1} /\ px \in {0, 2}
  /\ a + sg <= 1 /\ (z = 0 \/ px = 0)
  /\ Len(head) = a + sg + z + px
  /\ a = 1 => head[1] = Space
  /\ sg = 1 => head[1] \in Marks
  /\ neg <=> sg = 1 /\ head[1] = "-"
  /\ z = 1 => head[a + sg + 1] = "0"
  /\ px = 2 => b = 16 /\ head[a + sg + 1] = "0" /\ head[a + sg + 2] = "x"

Glyphs == {Space, "0", "x"} \cup Marks \cup Range(digits) \cup Range(capitals)

(* A sign or none, then a prefix or none.                                   *)
LEMMA HeadOf ==
  ASSUME NEW sign \in Seq(Glyphs), NEW prefix \in Seq(Glyphs), NEW b, NEW neg \in BOOLEAN,
         \/ sign = <<>> /\ ~neg
         \/ sign = <<Space>> /\ ~neg
         \/ \E c \in Marks : sign = <<c>> /\ (neg <=> c = "-"),
         \/ prefix = <<>>
         \/ prefix = <<"0">>
         \/ prefix = <<"0", "x">> /\ b = 16
  PROVE  \E a, sg, z, px : HeadLooks(sign \o prefix, b, neg, a, sg, z, px)
<1> DEFINE head == sign \o prefix
<1>1. /\ Len(head) = Len(sign) + Len(prefix)
      /\ \A i \in 1 .. Len(sign) : head[i] = sign[i]
      /\ \A i \in 1 .. Len(prefix) : head[Len(sign) + i] = prefix[i]
  OBVIOUS
<1>2. PICK z, px :
        /\ z \in {0, 1} /\ px \in {0, 2} /\ (z = 0 \/ px = 0) /\ Len(prefix) = z + px
        /\ z = 1 => prefix[1] = "0"
        /\ px = 2 => b = 16 /\ prefix[1] = "0" /\ prefix[2] = "x"
  <2> DEFINE P(z, px) ==
        /\ z \in {0, 1} /\ px \in {0, 2} /\ (z = 0 \/ px = 0) /\ Len(prefix) = z + px
        /\ z = 1 => prefix[1] = "0"
        /\ px = 2 => b = 16 /\ prefix[1] = "0" /\ prefix[2] = "x"
  <2>1. CASE prefix = <<>>
    <3>1. P(0, 0)
      BY <2>1
    <3> QED
      BY <3>1
  <2>2. CASE prefix = <<"0">>
    <3>1. P(1, 0)
      BY <2>2
    <3> QED
      BY <3>1
  <2>3. CASE prefix = <<"0", "x">> /\ b = 16
    <3>1. P(0, 2)
      BY <2>3
    <3> QED
      BY <3>1
  <2> QED
    BY <2>1, <2>2, <2>3, Zenon
<1> DEFINE Signed1(a, sg) ==
        /\ a \in {0, 1} /\ sg \in {0, 1} /\ a + sg <= 1 /\ Len(sign) = a + sg
        /\ a = 1 => sign[1] = Space
        /\ sg = 1 => sign[1] \in Marks
        /\ neg <=> sg = 1 /\ sign[1] = "-"
<1>3. \E a, sg : Signed1(a, sg)
  <2>1. CASE sign = <<>> /\ ~neg
    <3>1. Len(sign) = 0
      BY <2>1
    <3>2. Signed1(0, 0)
      BY <2>1, <3>1
    <3> QED
      BY <3>2
  <2>2. CASE sign = <<Space>> /\ ~neg
    <3>1. Len(sign) = 1 /\ sign[1] = Space
      BY <2>2
    <3>2. Signed1(1, 0)
      BY <2>2, <3>1
    <3> QED
      BY <3>2
  <2>3. ASSUME NEW c \in Marks, sign = <<c>>, neg <=> c = "-" PROVE \E a, sg : Signed1(a, sg)
    <3>1. Len(sign) = 1 /\ sign[1] = c
      BY <2>3
    <3>2. (neg <=> sign[1] = "-") /\ sign[1] \in Marks
      BY <2>3, <3>1, Zenon
    <3>3. /\ 0 \in {0, 1} /\ 1 \in {0, 1} /\ 0 + 1 <= 1 /\ Len(sign) = 0 + 1 /\ 0 # 1
      BY <3>1
    <3>4. Signed1(0, 1)
      BY <3>2, <3>3, Zenon
    <3> QED
      BY <3>4
  <2> HIDE DEF Signed1
  <2> QED
    BY <2>1, <2>2, <2>3
<1>4. PICK a, sg : Signed1(a, sg)
  BY <1>3
<1>5. PICK sa \in {0, 1}, ss \in {0, 1} : sa = a /\ ss = sg /\ sa + ss <= 1 /\ Len(sign) = sa + ss
  BY <1>4, Zenon
<1> HIDE DEF head
<1>6. Len(head) = a + sg + z + px
  BY <1>1, <1>2, <1>5
<1>7. /\ z = 1 => head[a + sg + 1] = "0"
      /\ px = 2 => b = 16 /\ head[a + sg + 1] = "0" /\ head[a + sg + 2] = "x"
  <2>1. \A i \in 1 .. z + px : head[a + sg + i] = prefix[i]
    BY <1>1, <1>2, <1>5
  <2>2. (z = 1 => 1 \in 1 .. z + px) /\ (px = 2 => 1 \in 1 .. z + px /\ 2 \in 1 .. z + px)
    BY <1>2
  <2> QED
    BY <1>2, <2>1, <2>2
<1>8. /\ a = 1 => head[1] = Space
      /\ sg = 1 => head[1] \in Marks
      /\ neg <=> sg = 1 /\ head[1] = "-"
  <2>1. a = 1 \/ sg = 1 => head[1] = sign[1]
    <3>1. a = 1 \/ sg = 1 => 1 \in 1 .. Len(sign)
      BY <1>5
    <3> QED
      BY <1>1, <3>1
  <2> QED
    BY <1>4, <2>1, Zenon
<1>9. a \in {0, 1} /\ sg \in {0, 1} /\ a + sg <= 1
  BY <1>5
<1>10. HeadLooks(head, b, neg, a, sg, z, px)
  <2>1. z \in {0, 1} /\ px \in {0, 2} /\ (z = 0 \/ px = 0)
    BY <1>2
  <2> QED
    BY <1>6, <1>7, <1>8, <1>9, <2>1, Zenon DEF HeadLooks
<1> QED
  BY <1>10, Zenon DEF head

(* What is printed of a number: blanks, what comes before it, zeros, its    *)
(* digits, blanks.                                                          *)
Places(p, head, num, r, z, e) ==
  /\ r \in Nat /\ z \in Nat /\ e \in Nat
  /\ Len(p) = r + Len(head) + z + Len(num) + e
  /\ \A i \in 1 .. r : p[i] = Space
  /\ \A i \in 1 .. Len(head) : p[r + i] = head[i]
  /\ \A i \in 1 .. z : p[r + Len(head) + i] = "0"
  /\ \A i \in 1 .. Len(num) : p[r + Len(head) + z + i] = num[i]
  /\ \A i \in 1 .. e : p[r + Len(head) + z + Len(num) + i] = Space

(* Its zeros are digits.                                                    *)
LEMMA PaddedStands ==
  ASSUME NEW p, NEW head, NEW back, NEW num, NEW b \in Nat, b >= 8, NEW u, NEW neg \in BOOLEAN,
         NEW r, NEW z, NEW e, NEW a, NEW sg, NEW y, NEW px,
         HeadLooks(head, b, neg, a, sg, y, px), DigitsMake(back, b, u),
         Len(num) = Len(back), \A i \in 1 .. Len(num) : num[i] = back[Len(num) - i + 1],
         Places(p, head, num, r, z, e)
  PROVE  StandsIn(p, b, neg, u, r + a, sg, px, y + z + Len(num))
<1> DEFINE L == Len(head)
           N == Len(num)
           m == y + z + N
           f == r + a + sg + px
           Z == y + z
<1>1. /\ a \in {0, 1} /\ sg \in {0, 1} /\ y \in {0, 1} /\ px \in {0, 2} /\ a + sg <= 1
      /\ (y = 0 \/ px = 0) /\ L = a + sg + y + px
  BY DEF HeadLooks
<1>2. /\ a = 1 => head[1] = Space
      /\ sg = 1 => head[1] \in Marks
      /\ neg <=> sg = 1 /\ head[1] = "-"
      /\ y = 1 => head[a + sg + 1] = "0"
      /\ px = 2 => b = 16 /\ head[a + sg + 1] = "0" /\ head[a + sg + 2] = "x"
  BY Zenon DEF HeadLooks
<1>3. /\ r \in Nat /\ z \in Nat /\ e \in Nat
      /\ Len(p) = r + L + z + N + e
      /\ \A i \in 1 .. r : p[i] = Space
      /\ \A i \in 1 .. L : p[r + i] = head[i]
      /\ \A i \in 1 .. z : p[r + L + i] = "0"
      /\ \A i \in 1 .. N : p[r + L + z + i] = num[i]
      /\ \A i \in 1 .. e : p[r + L + z + N + i] = Space
  BY DEF Places
<1>4. N \in Nat \ {0} /\ \A i \in 1 .. N : DigitOf(back[i]) < b
  BY DEF DigitsMake
<1>5. PICK h \in [0 .. N -> Nat] :
        /\ h[0] = 0 /\ h[N] = u
        /\ \A k \in 1 .. N : h[k] = h[k - 1] * b + DigitOf(back[N - k + 1])
  BY DEF DigitsMake
<1>6. \A i \in 1 .. N : num[i] = back[N - i + 1]
  OBVIOUS
<1> HIDE DEF N, L
<1>7. ASSUME NEW i \in 1 .. N PROVE DigitOf(num[i]) < b /\ h[i] = h[i - 1] * b + DigitOf(num[i])
  <2>1. N - i + 1 \in 1 .. N
    BY <1>4
  <2> QED
    BY <1>4, <1>5, <1>6, <2>1
<1>8. Z \in Nat /\ m \in Nat \ {0} /\ m = Z + N /\ f \in Nat /\ f + y = r + L
  BY <1>1, <1>3, <1>4
<1>9. \A k \in 1 .. Z : p[f + k] = "0"
  <2>1. ASSUME NEW k \in 1 .. Z PROVE p[f + k] = "0"
    <3>1. CASE y = 1 /\ k = 1
      <4>1. px = 0 /\ a + sg + 1 \in 1 .. L /\ f + k = r + (a + sg + 1)
        BY <1>1, <1>3, <3>1
      <4>2. p[r + (a + sg + 1)] = head[a + sg + 1]
        BY <1>3, <4>1
      <4> QED
        BY <1>2, <3>1, <4>1, <4>2
    <3>2. CASE ~(y = 1 /\ k = 1)
      <4>1. k - y \in 1 .. z /\ f + k = r + L + (k - y)
        BY <1>1, <1>3, <1>8, <3>2
      <4> QED
        BY <1>3, <4>1
    <3> QED
      BY <3>1, <3>2
  <2> QED
    BY <2>1
<1>10. \A i \in 1 .. N : p[f + (Z + i)] = num[i]
  <2>1. ASSUME NEW i \in 1 .. N PROVE p[f + (Z + i)] = num[i]
    <3>1. f + (Z + i) = r + L + z + i
      BY <1>1, <1>3, <1>8
    <3> QED
      BY <1>3, <3>1
  <2> QED
    BY <2>1
<1> HIDE DEF Z, f, m
<1> DEFINE g == [k \in 0 .. m |-> IF k <= Z THEN 0 ELSE h[k - Z]]
<1>11. g \in [0 .. m -> Nat] /\ \A k \in 0 .. m : g[k] = IF k <= Z THEN 0 ELSE h[k - Z]
  <2>1. ASSUME NEW k \in 0 .. m, ~(k <= Z) PROVE h[k - Z] \in Nat
    <3>1. k - Z \in 0 .. N
      BY <1>4, <1>8, <2>1
    <3> QED
      BY <3>1
  <2> QED
    BY <2>1
<1> HIDE DEF g
<1>12. g[0] = 0 /\ g[m] = u
  <2>1. 0 \in 0 .. m /\ m \in 0 .. m /\ 0 <= Z /\ ~(m <= Z) /\ m - Z = N
    BY <1>4, <1>8
  <2> QED
    BY <1>5, <1>11, <2>1
<1>13. ASSUME NEW k \in 1 .. m
       PROVE DigitOf(p[f + k]) < b /\ g[k] = g[k - 1] * b + DigitOf(p[f + k])
  <2>1. k \in 0 .. m /\ k - 1 \in 0 .. m
    BY <1>8
  <2>2. CASE k <= Z
    <3>1. k \in 1 .. Z /\ k - 1 <= Z
      BY <1>8, <2>2
    <3>2. DigitOf(p[f + k]) = 0
      BY <1>9, <3>1, CharactersApart
    <3>3. g[k] = 0 /\ g[k - 1] = 0
      BY <1>11, <2>1, <2>2, <3>1
    <3> QED
      BY <3>2, <3>3
  <2>3. CASE ~(k <= Z)
    <3>1. PICK i \in 1 .. N : i = k - Z /\ k = Z + i
      <4>1. k - Z \in 1 .. N /\ k = Z + (k - Z)
        BY <1>4, <1>8, <2>3
      <4> QED
        BY <4>1
    <3>2. p[f + k] = num[i]
      BY <1>10, <3>1
    <3>3. g[k] = h[i]
      BY <1>11, <2>1, <2>3, <3>1
    <3>4. g[k - 1] = h[i - 1]
      <4>1. CASE i = 1
        <5>1. k - 1 <= Z /\ i - 1 = 0
          BY <1>8, <3>1, <4>1
        <5> QED
          BY <1>5, <1>11, <2>1, <5>1
      <4>2. CASE i # 1
        <5>1. ~(k - 1 <= Z) /\ (k - 1) - Z = i - 1
          BY <1>8, <3>1, <4>2
        <5> QED
          BY <1>11, <2>1, <5>1
      <4> QED
        BY <4>1, <4>2
    <3> QED
      BY <1>7, <3>2, <3>3, <3>4
  <2> QED
    BY <2>2, <2>3
<1>14. f + m <= Len(p) /\ Len(p) \in Nat /\ (f + m < Len(p) => p[f + m + 1] = Space)
  <2>1. f + m = r + L + z + N
    BY <1>1, <1>3, <1>4, <1>8 DEF Z
  <2>2. f + m < Len(p) => 1 \in 1 .. e /\ f + m + 1 = r + L + z + N + 1
    BY <1>1, <1>3, <1>4, <2>1
  <2>3. f + m <= Len(p) /\ Len(p) \in Nat
    BY <1>1, <1>3, <1>4, <2>1
  <2>4. f + m < Len(p) => p[f + m + 1] = Space
    BY <1>3, <2>2
  <2> QED
    BY <2>3, <2>4
<1>15. \A i \in 1 .. r + a : p[i] = Space
  <2>1. ASSUME NEW i \in 1 .. r + a PROVE p[i] = Space
    <3>1. CASE i <= r
      <4>1. i \in 1 .. r
        BY <1>1, <1>3, <3>1
      <4> QED
        BY <1>3, <4>1
    <3>2. CASE ~(i <= r)
      <4>1. a = 1 /\ i = r + 1 /\ 1 \in 1 .. L
        BY <1>1, <1>3, <3>2
      <4> QED
        BY <1>2, <1>3, <4>1
    <3> QED
      BY <3>1, <3>2
  <2> QED
    BY <2>1
<1>16. /\ sg = 1 => p[r + a + 1] \in Marks
       /\ neg <=> sg = 1 /\ p[r + a + 1] = "-"
  <2>1. sg = 1 => p[r + a + 1] = head[1]
    <3>1. sg = 1 => 1 \in 1 .. L /\ r + a + 1 = r + 1
      BY <1>1, <1>3
    <3> QED
      BY <1>3, <3>1
  <2> QED
    BY <1>2, <2>1, Zenon
<1>17. px = 2 => b = 16 /\ p[r + a + sg + 1] = "0" /\ p[r + a + sg + 2] = "x"
  <2>1. ASSUME px = 2 PROVE p[r + a + sg + 1] = head[a + sg + 1] /\ p[r + a + sg + 2] = head[a + sg + 2]
    <3>1. /\ a + sg + 1 \in 1 .. L /\ r + a + sg + 1 = r + (a + sg + 1)
          /\ a + sg + 2 \in 1 .. L /\ r + a + sg + 2 = r + (a + sg + 2)
      BY <1>1, <1>3, <2>1
    <3> QED
      BY <1>3, <3>1
  <2> QED
    BY <1>2, <2>1
<1>18. r + a \in Nat
  BY <1>1, <1>3
<1>19. \E x \in [0 .. m -> Nat] :
         /\ x[0] = 0 /\ x[m] = u
         /\ \A k \in 1 .. m : x[k] = x[k - 1] * b + DigitOf(p[r + a + sg + px + k])
  BY <1>11, <1>12, <1>13 DEF f
<1>20. sg \in {0, 1} /\ px \in {0, 2}
  BY <1>1
<1> HIDE DEF g
<1>21. StandsIn(p, b, neg, u, r + a, sg, px, m)
  BY <1>8, <1>13, <1>14, <1>15, <1>16, <1>17, <1>18, <1>19, <1>20, Zenon DEF StandsIn, f
<1> QED
  BY <1>21 DEF m, N

(* The characters a number is printed with.                                 *)
LEMMA GlyphsAre ==
  /\ digits \in [1 .. 16 -> Glyphs] /\ capitals \in [1 .. 16 -> Glyphs]
  /\ Space \in Glyphs /\ "0" \in Glyphs /\ "x" \in Glyphs /\ Marks \subseteq Glyphs
<1>1. DOMAIN digits = 1 .. 16 /\ DOMAIN capitals = 1 .. 16
  BY DEF digits, capitals
<1>2. digits = [i \in 1 .. 16 |-> digits[i]] /\ capitals = [i \in 1 .. 16 |-> capitals[i]]
  BY DEF digits, capitals
<1>3. \A i \in 1 .. 16 : digits[i] \in Range(digits) /\ capitals[i] \in Range(capitals)
  BY <1>1 DEF Range
<1>4. /\ Range(digits) \subseteq Glyphs /\ Range(capitals) \subseteq Glyphs
      /\ Space \in Glyphs /\ "0" \in Glyphs /\ "x" \in Glyphs /\ Marks \subseteq Glyphs
  BY Zenon DEF Glyphs
<1>5. \A i \in 1 .. 16 : digits[i] \in Glyphs /\ capitals[i] \in Glyphs
  BY <1>3, <1>4
<1> QED
  BY <1>2, <1>4, <1>5

(* A directive, and the same with no width.                                 *)
LEMMA DirectiveIs ==
  ASSUME NEW d \in Directives
  PROVE  LET bare == [d EXCEPT !.width = 0]
         IN /\ d.zero \in BOOLEAN /\ Width(d) \in Nat /\ LeftAdjusted(d) \in BOOLEAN
            /\ Base(d) \in {8, 10, 16}
            /\ bare.flags = d.flags /\ bare.zero = d.zero /\ bare.conv = d.conv
            /\ bare.long = d.long /\ bare.width = 0
<1> DEFINE F == SUBSET {"#", "-", "+", " "}
           C == {"d", "u", "o", "x", "X", "p", "z", "Z"}
           bare == [d EXCEPT !.width = 0]
<1>1. d \in [flags : F, zero : BOOLEAN, width : Widths, long : BOOLEAN, conv : C]
  BY Zenon DEF Directives
<1> HIDE DEF F, C
<1>2. /\ bare.flags = d.flags /\ bare.zero = d.zero /\ bare.conv = d.conv
      /\ bare.long = d.long /\ bare.width = 0
  BY <1>1
<1>3. d.zero \in BOOLEAN /\ d.width \in Int
  BY <1>1, PrintfAssumption
<1>4. Width(d) \in Nat
  BY <1>3 DEF Width
<1>5. LeftAdjusted(d) \in BOOLEAN
  BY Zenon DEF LeftAdjusted
<1>6. Base(d) \in {8, 10, 16}
  <2>1. \/ d.conv \in {"d", "u"}
        \/ d.conv = "o" /\ d.conv \notin {"d", "u"}
        \/ d.conv # "o" /\ d.conv \notin {"d", "u"}
    BY Zenon
  <2> QED
    BY <2>1 DEF Base
<1> QED
  BY <1>2, <1>3, <1>4, <1>5, <1>6

(* The sign of a number: a minus exactly if it is negative.                 *)
LEMMA SignIs ==
  ASSUME NEW d, NEW n, NEW neg \in BOOLEAN, neg <=> n < 0
  PROVE  /\ SignChar(d, n) \in Seq(Glyphs)
         /\ \/ SignChar(d, n) = <<>> /\ ~neg
            \/ SignChar(d, n) = <<Space>> /\ ~neg
            \/ \E c \in Marks : SignChar(d, n) = <<c>> /\ (neg <=> c = "-")
<1> DEFINE minus == "-"
           plus == "+"
<1>1. minus \in Marks /\ plus \in Marks /\ minus # plus
  BY Zenon DEF Marks
<1>2. SignChar(d, n) = IF n < 0 THEN <<minus>> ELSE IF IsSigned(d) THEN PlusSign(d) ELSE <<>>
  BY Zenon DEF SignChar
<1>3. PlusSign(d) = <<plus>> \/ PlusSign(d) = <<Space>> \/ PlusSign(d) = <<>>
  BY Zenon DEF PlusSign, Space
<1> HIDE DEF minus, plus
<1>4. \/ SignChar(d, n) = <<>> /\ ~neg
      \/ SignChar(d, n) = <<Space>> /\ ~neg
      \/ SignChar(d, n) = <<minus>> /\ neg
      \/ SignChar(d, n) = <<plus>> /\ ~neg
  BY <1>2, <1>3, Zenon
<1>5. \A c \in Glyphs : <<c>> \in Seq(Glyphs)
  OBVIOUS
<1>6. <<>> \in Seq(Glyphs)
  OBVIOUS
<1>7. minus \in Glyphs /\ plus \in Glyphs /\ Space \in Glyphs
  BY <1>1, GlyphsAre, Zenon
<1>8. <<minus>> \in Seq(Glyphs) /\ <<plus>> \in Seq(Glyphs) /\ <<Space>> \in Seq(Glyphs)
  BY <1>5, <1>7, Zenon
<1>9. SignChar(d, n) \in Seq(Glyphs)
  BY <1>4, <1>6, <1>8, Zenon
<1>10. (neg /\ SignChar(d, n) = <<minus>>) \/ (~neg /\ SignChar(d, n) = <<plus>>)
         => \E c \in Marks : SignChar(d, n) = <<c>> /\ (neg <=> c = "-")
  BY <1>1, Zenon DEF minus
<1> QED
  BY <1>4, <1>9, <1>10, Zenon

(* The prefix of a number.                                                  *)
LEMMA NumberPrefix ==
  ASSUME NEW d, NEW u
  PROVE  /\ Prefix(d, u) \in Seq(Glyphs)
         /\ \/ Prefix(d, u) = <<>>
            \/ Prefix(d, u) = <<"0">>
            \/ Prefix(d, u) = <<"0", "x">> /\ Base(d) = 16
<1>1. \/ Prefix(d, u) = <<>>
      \/ Prefix(d, u) = <<"0">>
      \/ Prefix(d, u) = <<"0", "x">> /\ Base(d) = 16
  BY Zenon DEF Prefix
<1>2. PICK o \in Glyphs, x \in Glyphs : o = "0" /\ x = "x"
  BY GlyphsAre, Zenon
<1>3. <<>> \in Seq(Glyphs) /\ <<o>> \in Seq(Glyphs) /\ <<o, x>> \in Seq(Glyphs)
  OBVIOUS
<1>4. Prefix(d, u) \in Seq(Glyphs)
  BY <1>1, <1>2, <1>3, Zenon
<1> QED
  BY <1>1, <1>4, Zenon

(* The number that is printed, and its size, are numbers of the machine.    *)
LEMMA ArgumentIs ==
  ASSUME NEW d, NEW v \in Long, NEW half \in Nat \ {0}, LongSpan = 2 * half
  PROVE  /\ Argument(d, v) \in Int
         /\ IsSigned(d) => 0 - half <= Argument(d, v) /\ Argument(d, v) <= half - 1
         /\ ~IsSigned(d) => Argument(d, v) \in Long
         /\ Magnitude(Argument(d, v)) \in Long
<1>1. /\ IntSpan \in Nat \ {0} /\ IntSpan % 2 = 0 /\ LongSpan \in Nat /\ LongSpan % 2 = 0
      /\ IntSpan <= LongSpan
  BY PrintfAssumption
<1> DEFINE w == IF IsLong(d) THEN v ELSE AsInt(v)
<1>2. PICK values \in Nat \ {0} :
        /\ values = ValuesOf(d) /\ values % 2 = 0 /\ values <= LongSpan
        /\ w \in 0 .. values - 1
  <2>1. CASE IsLong(d)
    <3>1. ValuesOf(d) = LongSpan /\ w = v
      BY <2>1 DEF ValuesOf
    <3>2. v \in 0 .. LongSpan - 1 /\ LongSpan \in Nat \ {0}
      BY <1>1 DEF Long
    <3> HIDE DEF w
    <3> QED
      BY <1>1, <3>1, <3>2
  <2>2. CASE ~IsLong(d)
    <3>1. ValuesOf(d) = IntSpan /\ w = v % IntSpan
      BY <2>2 DEF ValuesOf, AsInt
    <3>2. v \in Int
      BY <1>1 DEF Long
    <3>3. v % IntSpan \in 0 .. IntSpan - 1
      BY <1>1, <3>2
    <3> HIDE DEF w
    <3> QED
      BY <1>1, <3>1, <3>3
  <2> QED
    BY <2>1, <2>2
<1>3. Argument(d, v) = IF IsSigned(d) THEN Signed(w, values) ELSE w
  BY <1>2 DEF Argument
<1> HIDE DEF w
<1>4. PICK x \in Nat : x = w /\ x <= values - 1
  BY <1>2
<1>5. PICK hv \in Nat : values = 2 * hv /\ values \div 2 = hv
  BY <1>2
<1>6. hv >= 1 /\ hv <= half
  BY <1>2, <1>5
<1>7. CASE IsSigned(d)
  <2>1. Argument(d, v) = IF x >= hv THEN x - values ELSE x
    BY <1>3, <1>4, <1>5, <1>7 DEF Signed
  <2>2. PICK n \in Int : n = Argument(d, v) /\ 0 - hv <= n /\ n <= hv - 1
    <3>1. CASE x >= hv
      <4>1. Argument(d, v) = x - values
        BY <2>1, <3>1
      <4>2. x - values \in Int /\ 0 - hv <= x - values /\ x - values <= hv - 1
        BY <1>4, <1>5, <1>6, <3>1
      <4> QED
        BY <4>1, <4>2
    <3>2. CASE ~(x >= hv)
      <4>1. Argument(d, v) = x
        BY <2>1, <3>2
      <4>2. 0 - hv <= x /\ x <= hv - 1
        BY <3>2
      <4> QED
        BY <4>1, <4>2
    <3> QED
      BY <3>1, <3>2
  <2>3. Magnitude(n) \in 0 .. LongSpan - 1
    BY <1>6, <2>2 DEF Magnitude
  <2> QED
    BY <1>6, <1>7, <2>2, <2>3 DEF Long
<1>8. CASE ~IsSigned(d)
  <2>1. Argument(d, v) = x /\ x \in 0 .. LongSpan - 1
    BY <1>2, <1>3, <1>4, <1>8
  <2>2. Magnitude(x) = x
    BY DEF Magnitude
  <2> QED
    BY <1>8, <2>1, <2>2 DEF Long
<1> QED
  BY <1>7, <1>8

(* What fills the room.                                                     *)
LEMMA FilledIs ==
  ASSUME NEW S, NEW c \in S, NEW room \in Int
  PROVE  \E r \in Nat : /\ r = IF room > 0 THEN room ELSE 0
                        /\ Filled(c, room) \in Seq(S) /\ Len(Filled(c, room)) = r
                        /\ \A i \in 1 .. r : Filled(c, room)[i] = c
<1>1. CASE room > 0
  <2>1. Filled(c, room) = [i \in 1 .. room |-> c]
    BY <1>1 DEF Filled
  <2>2. room \in Nat /\ [i \in 1 .. room |-> c] \in Seq(S) /\ Len([i \in 1 .. room |-> c]) = room
    BY <1>1
  <2>3. \A i \in 1 .. room : [j \in 1 .. room |-> c][i] = c
    OBVIOUS
  <2> QED
    BY <1>1, <2>1, <2>2, <2>3
<1>2. CASE ~(room > 0)
  <2>1. Filled(c, room) = <<>>
    BY <1>2 DEF Filled
  <2>2. 0 \in Nat /\ <<>> \in Seq(S) /\ Len(<<>>) = 0 /\ \A i \in 1 .. 0 : <<>>[i] = c
    OBVIOUS
  <2> QED
    BY <1>2, <2>1, <2>2
<1> QED
  BY <1>1, <1>2

(* A text of three parts.                                                   *)
JoinedOf(S, p, x, y, z) ==
  /\ p \in Seq(S) /\ Len(p) = Len(x) + Len(y) + Len(z)
  /\ \A i \in 1 .. Len(x) : p[i] = x[i]
  /\ \A i \in 1 .. Len(y) : p[Len(x) + i] = y[i]
  /\ \A i \in 1 .. Len(z) : p[Len(x) + Len(y) + i] = z[i]

(* It is one when they are joined.                                          *)
LEMMA ThreeParts ==
  ASSUME NEW S, NEW x \in Seq(S), NEW y \in Seq(S), NEW z \in Seq(S)
  PROVE  JoinedOf(S, x \o y \o z, x, y, z)
<1> DEFINE xy == x \o y
           p == xy \o z
<1>1. PICK a \in Nat, b \in Nat, c \in Nat : a = Len(x) /\ b = Len(y) /\ c = Len(z)
  OBVIOUS
<1>2. /\ xy \in Seq(S) /\ Len(xy) = a + b
      /\ \A i \in 1 .. a + b : xy[i] = IF i <= a THEN x[i] ELSE y[i - a]
  BY <1>1, ConcatProperties
<1> HIDE DEF xy
<1>3. /\ p \in Seq(S) /\ Len(p) = (a + b) + c
      /\ \A i \in 1 .. (a + b) + c : p[i] = IF i <= a + b THEN xy[i] ELSE z[i - (a + b)]
  <2>1. Len(xy) \in Nat /\ Len(xy) = a + b /\ Len(z) = c
    BY <1>1, <1>2
  <2>2. /\ xy \o z \in Seq(S) /\ Len(xy \o z) = Len(xy) + Len(z)
        /\ \A i \in 1 .. Len(xy) + Len(z) :
             (xy \o z)[i] = IF i <= Len(xy) THEN xy[i] ELSE z[i - Len(xy)]
    BY <1>2, ConcatProperties
  <2> QED
    BY <2>1, <2>2
<1> HIDE DEF p
<1>4. ASSUME NEW i \in 1 .. a PROVE p[i] = x[i]
  <2>1. i \in 1 .. (a + b) + c /\ i \in 1 .. a + b /\ i <= a + b /\ i <= a
    BY <1>1
  <2> QED
    BY <1>2, <1>3, <2>1
<1>5. ASSUME NEW i \in 1 .. b PROVE p[a + i] = y[i]
  <2>1. a + i \in 1 .. (a + b) + c /\ a + i \in 1 .. a + b /\ a + i <= a + b /\ ~(a + i <= a)
        /\ (a + i) - a = i
    BY <1>1
  <2> QED
    BY <1>2, <1>3, <2>1
<1>6. ASSUME NEW i \in 1 .. c PROVE p[a + b + i] = z[i]
  <2>1. a + b + i \in 1 .. (a + b) + c /\ ~(a + b + i <= a + b) /\ (a + b + i) - (a + b) = i
    BY <1>1
  <2> QED
    BY <1>3, <2>1
<1>7. Len(p) = a + b + c
  BY <1>1, <1>3
<1> QED
  BY <1>1, <1>3, <1>4, <1>5, <1>6, <1>7 DEF JoinedOf, p, xy

(* The digits as they are printed.                                          *)
DigitsOfNumber(d, u) ==
  Backwards(Base(d), IF d.conv \in {"X", "Z"} THEN capitals ELSE digits)[u]
HeadOfNumber(d, n) == SignChar(d, n) \o Prefix(d, Magnitude(n))

(* The parts of a printed number, in one of three orders.                   *)
LEMMA PartsOfNumber ==
  ASSUME NEW d \in Directives, NEW n \in Int, Magnitude(n) \in Long
  PROVE  LET u == Magnitude(n)
             head == HeadOfNumber(d, n)
             back == DigitsOfNumber(d, u)
             num == Reverse(back)
             p == PrintNum(d, n)
         IN /\ head \in Seq(Glyphs) /\ back \in Seq(Glyphs) /\ num \in Seq(Glyphs) /\ p \in Seq(Glyphs)
            /\ Len(num) = Len(back) /\ \A i \in 1 .. Len(num) : num[i] = back[Len(num) - i + 1]
            /\ DigitsMake(back, Base(d), u)
            /\ \E a, sg, y, px : HeadLooks(head, Base(d), n < 0, a, sg, y, px)
            /\ \E r, z, e : /\ Places(p, head, num, r, z, e)
                            /\ r + z + e = IF Width(d) > Len(num) + Len(head)
                                           THEN Width(d) - Len(num) - Len(head) ELSE 0
<1> DEFINE u == Magnitude(n)
           b == Base(d)
           sign == SignChar(d, n)
           prefix == Prefix(d, u)
           head == HeadOfNumber(d, n)
           table == IF d.conv \in {"X", "Z"} THEN capitals ELSE digits
           back == DigitsOfNumber(d, u)
           num == Reverse(back)
           p == PrintNum(d, n)
           room == Width(d) - Len(num) - Len(head)
<1>1. b \in {8, 10, 16} /\ b \in 2 .. 16 /\ Width(d) \in Nat /\ d.zero \in BOOLEAN
  BY DirectiveIs
<1>2. table \in [1 .. 16 -> Glyphs] /\ \A i \in 1 .. 16 : DigitOf(table[i]) = i - 1
  <2>1. table = capitals \/ table = digits
    BY Zenon
  <2>2. \A i \in 1 .. 16 : DigitOf(digits[i]) = i - 1 /\ DigitOf(capitals[i]) = i - 1
    BY DigitIs, Zenon
  <2> HIDE DEF table
  <2> QED
    BY <2>1, <2>2, GlyphsAre, Zenon
<1>3. back = Backwards(b, table)[u]
  BY Zenon DEF DigitsOfNumber
<1> HIDE DEF b, table, back
<1>4. back \in Seq(Glyphs) /\ DigitsMake(back, b, u)
  BY <1>1, <1>2, <1>3, BackwardsIs
<1>5. /\ num \in Seq(Glyphs) /\ Len(num) = Len(back)
      /\ \A i \in 1 .. Len(num) : num[i] = back[Len(num) - i + 1]
  <2>1. num = [i \in 1 .. Len(back) |-> back[(Len(back) - i) + 1]]
    BY DEF Reverse
  <2>2. Len(back) \in Nat
    BY <1>4
  <2>3. \A i \in 1 .. Len(back) : (Len(back) - i) + 1 \in 1 .. Len(back)
    BY <2>2
  <2>4. num \in [1 .. Len(back) -> Glyphs]
    BY <1>4, <2>1, <2>3
  <2>5. num \in Seq(Glyphs) /\ Len(num) = Len(back)
    BY <2>2, <2>4
  <2>6. \A i \in 1 .. Len(back) : num[i] = back[Len(back) - i + 1]
    BY <2>1
  <2> QED
    BY <2>5, <2>6
<1> HIDE DEF u, num
<1>6. /\ sign \in Seq(Glyphs)
      /\ \/ sign = <<>> /\ ~(n < 0)
         \/ sign = <<Space>> /\ ~(n < 0)
         \/ \E c \in Marks : sign = <<c>> /\ (n < 0 <=> c = "-")
  <2>1. PICK neg \in BOOLEAN : neg <=> n < 0
    OBVIOUS
  <2>2. /\ sign \in Seq(Glyphs)
        /\ \/ sign = <<>> /\ ~neg
           \/ sign = <<Space>> /\ ~neg
           \/ \E c \in Marks : sign = <<c>> /\ (neg <=> c = "-")
    BY <2>1, SignIs, Zenon
  <2> QED
    BY <2>1, <2>2, Zenon
<1>7. /\ prefix \in Seq(Glyphs)
      /\ \/ prefix = <<>>
         \/ prefix = <<"0">>
         \/ prefix = <<"0", "x">> /\ b = 16
  BY NumberPrefix, Zenon DEF b
<1>8. head = sign \o prefix
  BY DEF HeadOfNumber, u
<1> HIDE DEF sign, prefix, head
<1>9. head \in Seq(Glyphs)
  BY <1>6, <1>7, <1>8
<1>10. \E a, sg, y, px : HeadLooks(head, b, n < 0, a, sg, y, px)
  <2>1. (n < 0) \in BOOLEAN
    OBVIOUS
  <2> QED
    BY <1>6, <1>7, <1>8, <2>1, HeadOf, Zenon
<1>11. Len(num) \in Nat /\ Len(head) \in Nat
  BY <1>5, <1>9
<1>12. room \in Int
  BY <1>1, <1>11
<1> DEFINE zeros == Filled("0", room)
           blanks == Filled(Space, room)
<1>13. p = IF d.zero THEN head \o zeros \o num
           ELSE IF LeftAdjusted(d) THEN head \o num \o blanks ELSE blanks \o head \o num
  BY Zenon DEF PrintNum, Space, head, HeadOfNumber, num, back, DigitsOfNumber, u
<1> HIDE DEF p, room, zeros, blanks
<1>14. PICK r \in Nat : /\ r = IF room > 0 THEN room ELSE 0
                        /\ zeros \in Seq(Glyphs) /\ Len(zeros) = r
                        /\ \A i \in 1 .. r : zeros[i] = "0"
  <2>1. PICK c \in Glyphs : c = "0"
    BY GlyphsAre
  <2> QED
    BY <1>12, <2>1, FilledIs DEF zeros
<1>15. /\ blanks \in Seq(Glyphs) /\ Len(blanks) = r
       /\ \A i \in 1 .. r : blanks[i] = Space
  <2>1. PICK c \in Glyphs : c = Space
    BY GlyphsAre
  <2>2. PICK x \in Nat : /\ x = IF room > 0 THEN room ELSE 0
                         /\ blanks \in Seq(Glyphs) /\ Len(blanks) = x
                         /\ \A i \in 1 .. x : blanks[i] = Space
    BY <1>12, <2>1, FilledIs DEF blanks
  <2>3. x = r
    BY <1>14, <2>2
  <2> QED
    BY <2>2, <2>3
<1>16. r = IF Width(d) > Len(num) + Len(head) THEN Width(d) - Len(num) - Len(head) ELSE 0
  BY <1>1, <1>11, <1>14 DEF room
<1>17. PICK H \in Nat, N \in Nat : H = Len(head) /\ N = Len(num)
  BY <1>11
<1>18. CASE d.zero
  <2>1. p = head \o zeros \o num
    BY <1>13, <1>18
  <2>2. JoinedOf(Glyphs, p, head, zeros, num)
    BY <1>5, <1>9, <1>14, <1>15, <2>1, ThreeParts
  <2>3. /\ p \in Seq(Glyphs) /\ Len(p) = H + r + N
        /\ \A i \in 1 .. H : p[i] = head[i]
        /\ \A i \in 1 .. r : p[H + i] = zeros[i]
        /\ \A i \in 1 .. N : p[H + r + i] = num[i]
    BY <1>14, <1>15, <1>17, <2>2 DEF JoinedOf
  <2>4. Places(p, head, num, 0, r, 0)
    <3>1. ASSUME NEW i \in 1 .. 0 PROVE p[i] = Space
      OBVIOUS
    <3>2. ASSUME NEW i \in 1 .. H PROVE p[0 + i] = head[i]
      <4>1. 0 + i = i
        BY <1>14, <1>17
      <4> QED
        BY <2>3, <4>1
    <3>3. ASSUME NEW i \in 1 .. r PROVE p[0 + H + i] = "0"
      <4>1. 0 + H + i = H + i
        BY <1>14, <1>17
      <4> QED
        BY <1>14, <2>3, <4>1
    <3>4. ASSUME NEW i \in 1 .. N PROVE p[0 + H + r + i] = num[i]
      <4>1. 0 + H + r + i = H + r + i
        BY <1>14, <1>17
      <4> QED
        BY <2>3, <4>1
    <3>5. ASSUME NEW i \in 1 .. 0 PROVE p[0 + H + r + N + i] = Space
      OBVIOUS
    <3>6. Len(p) = 0 + H + r + N + 0 /\ 0 \in Nat /\ r \in Nat /\ 0 \in Nat
      BY <1>14, <1>17, <2>3
    <3> QED
      BY <1>17, <3>1, <3>2, <3>3, <3>4, <3>5, <3>6, Zenon DEF Places
  <2>5. 0 + r + 0 = r
    OBVIOUS
  <2> QED
    BY <1>4, <1>5, <1>9, <1>10, <1>16, <2>3, <2>4, <2>5, Zenon
       DEF p, u, head, back, num, b
<1>19. CASE ~d.zero /\ LeftAdjusted(d)
  <2>1. p = head \o num \o blanks
    BY <1>13, <1>19
  <2>2. JoinedOf(Glyphs, p, head, num, blanks)
    BY <1>5, <1>9, <1>14, <1>15, <2>1, ThreeParts
  <2>3. /\ p \in Seq(Glyphs) /\ Len(p) = H + N + r
        /\ \A i \in 1 .. H : p[i] = head[i]
        /\ \A i \in 1 .. N : p[H + i] = num[i]
        /\ \A i \in 1 .. r : p[H + N + i] = blanks[i]
    BY <1>14, <1>15, <1>17, <2>2 DEF JoinedOf
  <2>4. Places(p, head, num, 0, 0, r)
    <3>1. ASSUME NEW i \in 1 .. 0 PROVE p[i] = Space
      OBVIOUS
    <3>2. ASSUME NEW i \in 1 .. H PROVE p[0 + i] = head[i]
      <4>1. 0 + i = i
        BY <1>14, <1>17
      <4> QED
        BY <2>3, <4>1
    <3>3. ASSUME NEW i \in 1 .. 0 PROVE p[0 + H + i] = "0"
      OBVIOUS
    <3>4. ASSUME NEW i \in 1 .. N PROVE p[0 + H + 0 + i] = num[i]
      <4>1. 0 + H + 0 + i = H + i
        BY <1>14, <1>17
      <4> QED
        BY <2>3, <4>1
    <3>5. ASSUME NEW i \in 1 .. r PROVE p[0 + H + 0 + N + i] = Space
      <4>1. 0 + H + 0 + N + i = H + N + i
        BY <1>14, <1>17
      <4> QED
        BY <1>15, <2>3, <4>1
    <3>6. Len(p) = 0 + H + 0 + N + r /\ 0 \in Nat /\ 0 \in Nat /\ r \in Nat
      BY <1>14, <1>17, <2>3
    <3> QED
      BY <1>17, <3>1, <3>2, <3>3, <3>4, <3>5, <3>6, Zenon DEF Places
  <2>5. 0 + 0 + r = r
    OBVIOUS
  <2> QED
    BY <1>4, <1>5, <1>9, <1>10, <1>16, <2>3, <2>4, <2>5, Zenon
       DEF p, u, head, back, num, b
<1>20. CASE ~d.zero /\ ~LeftAdjusted(d)
  <2>1. p = blanks \o head \o num
    BY <1>13, <1>20
  <2>2. JoinedOf(Glyphs, p, blanks, head, num)
    BY <1>5, <1>9, <1>14, <1>15, <2>1, ThreeParts
  <2>3. /\ p \in Seq(Glyphs) /\ Len(p) = r + H + N
        /\ \A i \in 1 .. r : p[i] = blanks[i]
        /\ \A i \in 1 .. H : p[r + i] = head[i]
        /\ \A i \in 1 .. N : p[r + H + i] = num[i]
    BY <1>14, <1>15, <1>17, <2>2 DEF JoinedOf
  <2>4. Places(p, head, num, r, 0, 0)
    <3>1. ASSUME NEW i \in 1 .. r PROVE p[i] = Space
      BY <1>15, <2>3
    <3>2. ASSUME NEW i \in 1 .. H PROVE p[r + i] = head[i]
      <4>1. r + i = r + i
        BY <1>14, <1>17
      <4> QED
        BY <2>3, <4>1
    <3>3. ASSUME NEW i \in 1 .. 0 PROVE p[r + H + i] = "0"
      OBVIOUS
    <3>4. ASSUME NEW i \in 1 .. N PROVE p[r + H + 0 + i] = num[i]
      <4>1. r + H + 0 + i = r + H + i
        BY <1>14, <1>17
      <4> QED
        BY <2>3, <4>1
    <3>5. ASSUME NEW i \in 1 .. 0 PROVE p[r + H + 0 + N + i] = Space
      OBVIOUS
    <3>6. Len(p) = r + H + 0 + N + 0 /\ r \in Nat /\ 0 \in Nat /\ 0 \in Nat
      BY <1>14, <1>17, <2>3
    <3> QED
      BY <1>17, <3>1, <3>2, <3>3, <3>4, <3>5, <3>6, Zenon DEF Places
  <2>5. r + 0 + 0 = r
    OBVIOUS
  <2> QED
    BY <1>4, <1>5, <1>9, <1>10, <1>16, <2>3, <2>4, <2>5, Zenon
       DEF p, u, head, back, num, b
<1> QED
  BY <1>18, <1>19, <1>20

(* A printed number is read back, and the field is as wide as asked for     *)
(* (printf.c 424-541; itoa.cpp 67-212).                                     *)
THEOREM PrintedNumberRead ==
  ASSUME NEW d \in Directives, NEW v \in Long
  PROVE  PrintedRight(d, v)
<1>1. PICK half \in Nat \ {0} :
        LongSpan = 2 * half /\ LONG_MAX = half - 1 /\ ULONG_MAX = 2 * half - 1
  BY LongIs
<1>2. PICK n \in Int : /\ n = Argument(d, v)
                       /\ IsSigned(d) => 0 - half <= n /\ n <= half - 1
                       /\ ~IsSigned(d) => n \in Long
                       /\ Magnitude(n) \in Long
  BY <1>1, ArgumentIs
<1> DEFINE u == Magnitude(n)
           b == Base(d)
           head == HeadOfNumber(d, n)
           back == DigitsOfNumber(d, u)
           num == Reverse(back)
           p == PrintNum(d, n)
<1>3. b \in {8, 10, 16} /\ b \in Nat /\ b >= 8 /\ Width(d) \in Nat
  BY DirectiveIs
<1>4. /\ head \in Seq(Glyphs) /\ back \in Seq(Glyphs) /\ num \in Seq(Glyphs) /\ p \in Seq(Glyphs)
      /\ Len(num) = Len(back) /\ \A i \in 1 .. Len(num) : num[i] = back[Len(num) - i + 1]
      /\ DigitsMake(back, b, u)
      /\ \E a, sg, y, px : HeadLooks(head, b, n < 0, a, sg, y, px)
      /\ \E r, z, e : /\ Places(p, head, num, r, z, e)
                      /\ r + z + e = IF Width(d) > Len(num) + Len(head)
                                     THEN Width(d) - Len(num) - Len(head) ELSE 0
  BY <1>2, PartsOfNumber
<1> HIDE DEF p, num, back, head, b, u
<1> DEFINE neg == n < 0
<1>5. neg \in BOOLEAN
  OBVIOUS
<1>6. PICK a, sg, y, px : HeadLooks(head, b, neg, a, sg, y, px)
  BY <1>4, Zenon
<1> HIDE DEF neg
<1>7. PICK r, z, e : /\ Places(p, head, num, r, z, e)
                     /\ r + z + e = IF Width(d) > Len(num) + Len(head)
                                    THEN Width(d) - Len(num) - Len(head) ELSE 0
  BY <1>4, Zenon
<1>8. StandsIn(p, b, neg, u, r + a, sg, px, y + z + Len(num))
  BY <1>3, <1>4, <1>5, <1>6, <1>7, PaddedStands
<1>9. Start(p, b).neg = neg /\ Exact(Start(p, b).rest, Start(p, b).base) = u
  BY <1>3, <1>4, <1>5, <1>8, NumberStands
<1>10. /\ strtol(p, b) = Max({0 - LONG_MAX - 1, Min({LONG_MAX, IF neg THEN 0 - u ELSE u})})
       /\ strtoul(p, b) = IF u > ULONG_MAX THEN ULONG_MAX ELSE Wrapped(IF neg THEN 0 - u ELSE u)
  <2>1. b \in {0} \cup 2 .. 36
    BY <1>3
  <2>2. LET start == Start(p, b)
            exact == Exact(start.rest, start.base)
            n0 == IF start.neg THEN 0 - exact ELSE exact
        IN /\ strtol(p, b) = Max({0 - LONG_MAX - 1, Min({LONG_MAX, n0})})
           /\ strtoul(p, b) = IF exact > ULONG_MAX THEN ULONG_MAX ELSE Wrapped(n0)
    BY <1>4, <2>1, Nearest
  <2> QED
    BY <1>9, <2>2, Zenon
<1>11. (IF neg THEN 0 - u ELSE u) = n
  BY DEF neg, u, Magnitude
<1>12. n = IF IsSigned(d) THEN strtol(p, b) ELSE strtoul(p, b)
  <2>1. CASE IsSigned(d)
    <3>1. LONG_MAX \in Int /\ n <= LONG_MAX /\ 0 - LONG_MAX - 1 \in Int /\ 0 - LONG_MAX - 1 <= n
      BY <1>1, <1>2, <2>1
    <3>2. n = LONG_MAX \/ ~(LONG_MAX <= n)
      BY <3>1
    <3>3. Min({LONG_MAX, n}) = n
      BY <3>1, <3>2, MinMaxOfTwo
    <3>4. Max({0 - LONG_MAX - 1, n}) = n
      BY <3>1, MinMaxOfTwo
    <3>5. strtol(p, b) = n
      BY <1>10, <1>11, <3>3, <3>4, Zenon
    <3> QED
      BY <2>1, <3>5
  <2>2. CASE ~IsSigned(d)
    <3>1. n \in 0 .. LongSpan - 1 /\ LongSpan \in Nat \ {0}
      BY <1>1, <1>2, <2>2 DEF Long
    <3>2. u = n /\ ~(u > ULONG_MAX)
      BY <1>1, <3>1 DEF u, Magnitude
    <3>3. Wrapped(n) = n
      BY <3>1 DEF Wrapped
    <3>4. strtoul(p, b) = n
      BY <1>10, <1>11, <3>2, <3>3, Zenon
    <3> QED
      BY <2>2, <3>4
  <2> QED
    BY <2>1, <2>2
<1> DEFINE d0 == [d EXCEPT !.width = 0]
           q == PrintNum(d0, n)
<1>13. /\ d0.flags = d.flags /\ d0.zero = d.zero /\ d0.conv = d.conv
       /\ d0.long = d.long /\ d0.width = 0
  BY DirectiveIs
<1> HIDE DEF d0
<1>14. /\ HeadOfNumber(d0, n) = head /\ DigitsOfNumber(d0, u) = back /\ Argument(d0, v) = n
       /\ Width(d0) = 0
  <2>1. Base(d0) = b
    BY <1>13, Zenon DEF Base, b
  <2>2. IsSigned(d0) = IsSigned(d) /\ IsLong(d0) = IsLong(d) /\ PlusSign(d0) = PlusSign(d)
    BY <1>13, Zenon DEF IsSigned, IsLong, PlusSign
  <2>3. SignChar(d0, n) = SignChar(d, n)
    BY <2>2, Zenon DEF SignChar
  <2>4. Prefix(d0, u) = Prefix(d, u)
    BY <1>13, <2>1, Zenon DEF Prefix, b
  <2>5. HeadOfNumber(d0, n) = head
    BY <2>3, <2>4, Zenon DEF HeadOfNumber, head, u
  <2>6. DigitsOfNumber(d0, u) = back
    BY <1>13, <2>1, Zenon DEF DigitsOfNumber, back, b
  <2>7. Argument(d0, v) = n
    <3>1. ValuesOf(d0) = ValuesOf(d)
      BY <2>2, Zenon DEF ValuesOf
    <3>2. Argument(d0, v) = Argument(d, v)
      BY <2>2, <3>1, Zenon DEF Argument
    <3> QED
      BY <1>2, <3>2
  <2>8. Width(d0) = 0
    BY <1>13 DEF Width
  <2> QED
    BY <2>5, <2>6, <2>7, <2>8
<1>15. Len(q) = Len(head) + Len(num)
  <2> DEFINE room == 0 - Len(num) - Len(head)
             nothing == Filled("0", room)
             none == Filled(Space, room)
  <2>1. q = IF d0.zero THEN head \o nothing \o num
            ELSE IF LeftAdjusted(d0) THEN head \o num \o none ELSE none \o head \o num
    BY <1>14, Zenon DEF PrintNum, Space, head, HeadOfNumber, num, back, DigitsOfNumber, u
  <2>2. ~(room > 0)
    BY <1>4
  <2> HIDE DEF room
  <2>3. nothing = <<>> /\ none = <<>>
    BY <2>2, Zenon DEF Filled
  <2> HIDE DEF q, nothing, none
  <2>4. PICK empty \in Seq(Glyphs) : empty = <<>> /\ Len(empty) = 0
    <3>1. <<>> \in Seq(Glyphs) /\ Len(<<>>) = 0
      OBVIOUS
    <3> QED
      BY <3>1
  <2>5. q = head \o empty \o num \/ q = head \o num \o empty \/ q = empty \o head \o num
    BY <2>1, <2>3, <2>4, Zenon
  <2>6. Len(head) \in Nat /\ Len(num) \in Nat
    BY <1>4
  <2>7. Len(head \o empty \o num) = Len(head) + Len(num)
    <3>1. JoinedOf(Glyphs, head \o empty \o num, head, empty, num)
      BY <1>4, ThreeParts
    <3> QED
      BY <2>4, <2>6, <3>1 DEF JoinedOf
  <2>8. Len(head \o num \o empty) = Len(head) + Len(num)
    <3>1. JoinedOf(Glyphs, head \o num \o empty, head, num, empty)
      BY <1>4, ThreeParts
    <3> QED
      BY <2>4, <2>6, <3>1 DEF JoinedOf
  <2>9. Len(empty \o head \o num) = Len(head) + Len(num)
    <3>1. JoinedOf(Glyphs, empty \o head \o num, empty, head, num)
      BY <1>4, ThreeParts
    <3> QED
      BY <2>4, <2>6, <3>1 DEF JoinedOf
  <2> QED
    BY <2>5, <2>7, <2>8, <2>9, Zenon
<1> HIDE DEF q
<1>16. Len(p) = Max({Width(d), Len(q)})
  <2>1. PICK H \in Nat, N \in Nat, w \in Nat : H = Len(head) /\ N = Len(num) /\ w = Width(d)
    BY <1>3, <1>4
  <2>2. r \in Nat /\ z \in Nat /\ e \in Nat /\ Len(p) = r + H + z + N + e
    BY <1>7, <2>1 DEF Places
  <2>3. r + z + e = IF w > N + H THEN w - N - H ELSE 0
    BY <1>7, <2>1
  <2>4. Len(p) = IF w <= H + N THEN H + N ELSE w
    BY <2>1, <2>2, <2>3
  <2>5. Max({w, H + N}) = IF w <= H + N THEN H + N ELSE w
    <3>1. w \in Int /\ H + N \in Int
      OBVIOUS
    <3> QED
      BY <3>1, MinMaxOfTwo
  <2> QED
    BY <1>15, <2>1, <2>4, <2>5
<1>17. Printed(d, v) = p /\ Printed(d0, v) = q
  BY <1>2, <1>14, Zenon DEF Printed, p, q
<1> QED
  BY <1>2, <1>12, <1>16, <1>17, Zenon DEF PrintedRight, b, d0

----------------------------------------------------------------------------
(* A string in its field (printf.c 307-369).                                *)
THEOREM StringPrinted ==
  ASSUME NEW s \in Seq(STRING), NEW width \in Int, NEW left \in BOOLEAN, NEW prec \in Nat
  PROVE  StringRight(s, width, left, prec)
<1> DEFINE S == STRING \cup {Space}
           n == Min({Len(s), prec})
           k == IF width > 0 THEN Min({n, width}) ELSE n
           kept == SubSeq(s, 1, k)
           pad == Filled(Space, width - n)
           p == PrintedString(s, width, left, prec)
           P == {prec, Len(s)} \cup IF width > 0 THEN {width} ELSE {}
           room == Min(P)
           before == IF left THEN 0 ELSE Len(p) - room
<1>1. PICK L \in Nat : L = Len(s)
  OBVIOUS
<1>2. n \in Nat /\ n = IF L <= prec THEN L ELSE prec
  BY <1>1, MinMaxOfTwo
<1> HIDE DEF n
<1>3. k \in Nat /\ k = IF width > 0 /\ width < n THEN width ELSE n
  <2>1. Min({n, width}) = IF n <= width THEN n ELSE width
    BY <1>2, MinMaxOfTwo
  <2> QED
    BY <1>2, <2>1
<1>4. p = IF left THEN kept \o pad ELSE pad \o kept
  BY Zenon DEF PrintedString, n, Space
<1> HIDE DEF k, p
<1>5. room = k
  <2>1. P \subseteq Int
    BY <1>1
  <2>2. k \in P
    BY <1>1, <1>2, <1>3
  <2>3. \A j \in P : k <= j
    BY <1>1, <1>2, <1>3
  <2> HIDE DEF P
  <2> QED
    BY <2>1, <2>2, <2>3, MinIs
<1> HIDE DEF room, P
<1>6. k <= L
  BY <1>1, <1>2, <1>3
<1>7. kept \in Seq(S) /\ Len(kept) = k /\ \A i \in 1 .. k : kept[i] = s[i]
  <2>1. \A i \in 1 .. k : s[i] \in S
    <3>1. \A i \in 1 .. k : i \in 1 .. Len(s)
      BY <1>1, <1>3, <1>6
    <3> QED
      BY <3>1
  <2> HIDE DEF S
  <2>2. /\ SubSeq(s, 1, k) \in Seq(S)
        /\ Len(SubSeq(s, 1, k)) = IF 1 <= k THEN k - 1 + 1 ELSE 0
        /\ \A i \in 1 .. k - 1 + 1 : SubSeq(s, 1, k)[i] = s[1 + i - 1]
    BY <1>3, <2>1, SubSeqProperties
  <2>3. k - 1 + 1 = k /\ \A i \in 1 .. k : 1 + i - 1 = i
    BY <1>3
  <2> QED
    BY <1>3, <2>2, <2>3
<1>8. PICK r \in Nat : /\ r = IF width - n > 0 THEN width - n ELSE 0
                       /\ pad \in Seq(S) /\ Len(pad) = r /\ \A i \in 1 .. r : pad[i] = Space
  <2>1. Space \in S /\ width - n \in Int
    BY <1>2
  <2> HIDE DEF S
  <2> QED
    BY <2>1, FilledIs
<1> HIDE DEF S, kept, pad
<1>9. k + r = IF width > 0 THEN width ELSE k
  BY <1>2, <1>3, <1>8
<1>10. CASE left
  <2>1. /\ Len(p) = k + r
        /\ \A i \in 1 .. k + r : p[i] = IF i <= k THEN kept[i] ELSE pad[i - k]
    <3>1. p = kept \o pad
      BY <1>4, <1>10
    <3>2. /\ Len(kept \o pad) = Len(kept) + Len(pad)
          /\ \A i \in 1 .. Len(kept) + Len(pad) :
               (kept \o pad)[i] = IF i <= Len(kept) THEN kept[i] ELSE pad[i - Len(kept)]
      BY <1>7, <1>8, ConcatProperties
    <3> QED
      BY <1>7, <1>8, <3>1, <3>2
  <2>2. before = 0
    BY <1>10
  <2>3. ASSUME NEW i \in 1 .. k + r
        PROVE p[i] = IF i \in 0 + 1 .. 0 + k THEN s[i - 0] ELSE Space
    <3>1. CASE i <= k
      <4>1. i \in 1 .. k /\ i \in 0 + 1 .. 0 + k /\ i - 0 = i
        BY <1>3, <3>1
      <4> QED
        BY <1>7, <2>1, <3>1, <4>1
    <3>2. CASE ~(i <= k)
      <4>1. i - k \in 1 .. r /\ i \notin 0 + 1 .. 0 + k
        BY <1>3, <1>8, <3>2
      <4> QED
        BY <1>8, <2>1, <3>2, <4>1
    <3> QED
      BY <3>1, <3>2
  <2> HIDE DEF before
  <2> QED
    BY <1>5, <1>9, <2>1, <2>2, <2>3, Zenon DEF StringRight, room, P, p, before, Space
<1>11. CASE ~left
  <2>1. /\ Len(p) = r + k
        /\ \A i \in 1 .. r + k : p[i] = IF i <= r THEN pad[i] ELSE kept[i - r]
    <3>1. p = pad \o kept
      BY <1>4, <1>11
    <3>2. /\ Len(pad \o kept) = Len(pad) + Len(kept)
          /\ \A i \in 1 .. Len(pad) + Len(kept) :
               (pad \o kept)[i] = IF i <= Len(pad) THEN pad[i] ELSE kept[i - Len(pad)]
      BY <1>7, <1>8, ConcatProperties
    <3> QED
      BY <1>7, <1>8, <3>1, <3>2
  <2>2. before = r /\ r + k = k + r
    <3>1. k \in Nat
      BY <1>3
    <3>2. before = (r + k) - k
      BY <1>5, <1>11, <2>1
    <3> HIDE DEF before
    <3> QED
      BY <3>1, <3>2
  <2>3. ASSUME NEW i \in 1 .. k + r
        PROVE p[i] = IF i \in r + 1 .. r + k THEN s[i - r] ELSE Space
    <3>1. CASE i <= r
      <4>1. i \in 1 .. r /\ i \in 1 .. r + k /\ i \notin r + 1 .. r + k
        BY <1>3, <1>8, <3>1
      <4> QED
        BY <1>8, <2>1, <3>1, <4>1
    <3>2. CASE ~(i <= r)
      <4>1. i - r \in 1 .. k /\ i \in r + 1 .. r + k /\ i \in 1 .. r + k
        <5>1. k \in Nat
          BY <1>3
        <5> QED
          BY <3>2, <5>1
      <4> QED
        BY <1>7, <2>1, <3>2, <4>1
    <3> QED
      BY <3>1, <3>2
  <2> HIDE DEF before
  <2> QED
    BY <1>5, <1>9, <2>1, <2>2, <2>3, Zenon DEF StringRight, room, P, p, before, Space
<1> QED
  BY <1>10, <1>11

(* What the kernel prints is what it reads back, and what it reads is the   *)
(* number or the nearest one, whatever the texts (printf.c 75-90, 311-366,  *)
(* 424-541; itoa.cpp 59-212).                                               *)
THEOREM NumbersAreRight == CallsSpec => []NumbersRight
<1>1. CallInit => NumbersRight
  <2> SUFFICES ASSUME CallInit PROVE NumbersRight
    OBVIOUS
  <2>1. call.of = "none"
    BY DEF CallInit, None
  <2>2. "none" # "printf" /\ "none" # "%s" /\ "none" # "strtol"
    BY Zenon
  <2> QED
    BY <2>1, <2>2, Zenon DEF NumbersRight
<1>2. NumbersRight /\ [CallsNext]_call => NumbersRight'
  <2> SUFFICES ASSUME NumbersRight, [CallsNext]_call PROVE NumbersRight'
    OBVIOUS
  <2> DEFINE printf == "printf"
             string == "%s"
             number == "strtol"
  <2>1. printf # string /\ printf # number /\ string # number
    BY Zenon
  <2>2. NumbersRight' <=> /\ call'.of = printf => PrintedRight(call'.d, call'.v)
                          /\ call'.of = string =>
                               StringRight(call'.s, call'.width, call'.left, call'.prec)
                          /\ call'.of = number => NumberRight(call'.s, call'.base)
    BY Zenon DEF NumbersRight
  <2>3. CASE CallPrintf
    <3>1. PICK d \in Directives, v \in Long : call' = [of |-> printf, d |-> d, v |-> v]
      BY <2>3, Zenon DEF CallPrintf
    <3>2. PrintedRight(d, v)
      BY PrintedNumberRead
    <3> HIDE DEF printf, string, number
    <3>3. call'.of = printf /\ call'.d = d /\ call'.v = v
      BY <3>1
    <3> QED
      BY <2>1, <2>2, <3>2, <3>3, Zenon
  <2>4. CASE CallString
    <3>1. PICK s \in Strings, w \in StringWidths, l \in BOOLEAN, p \in Precisions :
            call' = [of |-> string, s |-> s, width |-> w, left |-> l, prec |-> p]
      BY <2>4, Zenon DEF CallString
    <3>2. StringRight(s, w, l, p)
      <4>1. s \in Seq(STRING) /\ w \in Int /\ p \in Nat
        BY TextsAssumption
      <4> QED
        BY <4>1, StringPrinted
    <3> HIDE DEF printf, string, number
    <3>3. /\ call'.of = string /\ call'.s = s /\ call'.width = w /\ call'.left = l
          /\ call'.prec = p
      BY <3>1
    <3> QED
      BY <2>1, <2>2, <3>2, <3>3, Zenon
  <2>5. CASE CallNumber
    <3>1. PICK s \in NumberTexts, b \in Bases : call' = [of |-> number, s |-> s, base |-> b]
      BY <2>5, Zenon DEF CallNumber
    <3>2. NumberRight(s, b)
      <4>1. s \in Seq(STRING) /\ b \in {0} \cup 2 .. 36
        BY TextsAssumption
      <4> QED
        BY <4>1, NumberFound
    <3> HIDE DEF printf, string, number
    <3>3. call'.of = number /\ call'.s = s /\ call'.base = b
      BY <3>1
    <3> QED
      BY <2>1, <2>2, <3>2, <3>3, Zenon
  <2>6. CASE CallGetBAR \/ CallStart \/ CallIrqs \/ CallDisk \/ CallValue \/ CallArgument \/ CallLine
    <3>1. call'.of \in {"getBAR", "start", "enableIRQ", "disk", "getval", "Parse_boot_argn",
                        "findcommand"}
      BY <2>6 DEF CallGetBAR, CallStart, CallIrqs, CallDisk, CallValue, CallArgument, CallLine
    <3>2. \A of \in {"getBAR", "start", "enableIRQ", "disk", "getval", "Parse_boot_argn",
                     "findcommand"} : of # printf /\ of # string /\ of # number
      BY Zenon
    <3> HIDE DEF printf, string, number
    <3> QED
      BY <2>2, <3>1, <3>2, Zenon
  <2>7. CASE UNCHANGED call
    BY <2>7, Zenon DEF NumbersRight
  <2> QED
    BY <2>3, <2>4, <2>5, <2>6, <2>7, Zenon DEF CallsNext
<1> QED
  BY <1>1, <1>2, PTL DEF CallsSpec
=============================================================================
