------------------------- MODULE PmapRegionsProofs -------------------------
(***************************************************************************)
(* Proofs about PmapRegions, for every memory map, every size of the table *)
(* and every position of first_avail.                                      *)
(***************************************************************************)
EXTENDS PmapRegions, TLAPS

(* An entry holds at least one page, and ends with available pages, if it  *)
(* has any; each of its pages belongs to one of the descriptors U of b, and *)
(* its available pages are where AllocatedBelowFirstAvail wants them.      *)
Sound(r, U, b) ==
  /\ r.base <= r.end
  /\ r.allocDown = r.end
  /\ \A p \in RegionPages(r) : \E k \in U : p \in DescPages(b.map[k])
  /\ \A p \in AvailablePages(r) :
       p < b.fap =>
         \/ "KERN_RESERVED" \in r.attribute /\ r.end < b.kernelBase
         \/ \E k \in U : Top(b.map[k]) = b.fap /\ p \in DescPages(b.map[k])

RegionsSound == \A j \in Regions : Sound(table[j], Usables, boot)

Apart(e, r) == e.end < r.base \/ r.end < e.base

(* prev_pmptr is the entry made last, if there is one to merge with.       *)
PrevIsLast == phase = "scan" => prev = NoPrev \/ prev = count - 1

(* The panic is the only way to one reserved range too many, and the       *)
(* capping loop does not leave the table.                                  *)
Bounded ==
  /\ phase = "scan" => reserved <= MaxReserved
  /\ curRegion <= count

(* The strengthening: disjointness of the entries follows from that of the *)
(* descriptors only because every page of an entry is a page of a          *)
(* descriptor scanned before.                                              *)
IInv ==
  /\ TypeOK
  /\ PrevIsLast
  /\ Bounded
  /\ RegionsSound
  /\ RegionsDisjoint

----------------------------------------------------------------------------
(* An interval split at one of its members.                                *)
LEMMA IntervalHalves ==
  ASSUME NEW a \in Int, NEW f \in Int, NEW b \in Int, a <= f, f <= b
  PROVE  a .. f - 1 \subseteq a .. b /\ f .. b \subseteq a .. b
<1>1. \A n \in a .. f - 1 : n \in a .. b
  OBVIOUS
<1>2. \A n \in f .. b : n \in a .. b
  OBVIOUS
<1> QED
  BY <1>1, <1>2

(* Two intervals without a common element are one below the other.         *)
LEMMA IntervalsApart ==
  ASSUME NEW a \in Int, NEW b \in Int, NEW c \in Int, NEW e \in Int,
         a <= b, c <= e, \A p \in a .. b : p \notin c .. e
  PROVE  b < c \/ e < a
<1>1. CASE a <= c
  <2>1. c \notin a .. b  OBVIOUS
  <2> QED  BY <1>1, <2>1
<1>2. CASE c < a
  <2>1. a \in a .. b  OBVIOUS
  <2>2. a \notin c .. e  BY <2>1
  <2> QED  BY <1>2, <2>2
<1> QED  BY <1>1, <1>2

(* No page belongs to two descriptors.                                     *)
LEMMA OneDescriptor ==
  ASSUME ValidBoot(boot), NEW k \in 1 .. Len(boot.map),
         NEW l \in 1 .. Len(boot.map), k # l,
         NEW p, p \in DescPages(boot.map[k])
  PROVE  p \notin DescPages(boot.map[l])
<1>1. boot.map[k] \in Descriptor /\ boot.map[l] \in Descriptor
  BY DEF ValidBoot
<1>2. \/ LastPage(boot.map[k]) < boot.map[l].start
      \/ LastPage(boot.map[l]) < boot.map[k].start
  BY DEF ValidBoot
<1> QED
  BY <1>1, <1>2 DEF DescPages, LastPage, Descriptor

(* The pages the scan takes from a descriptor.                             *)
LEMMA UsableRange ==
  ASSUME ConstantsAssumption, NEW d \in Descriptor, LastPage(d) <= MaxPpn,
         ~Empty(d), ~NotForUse(d)
  PROVE  /\ Base(d) \in 1 .. MaxPpn - 1
         /\ Top(d) \in 1 .. MaxPpn - 1
         /\ Base(d) <= Top(d)
         /\ LowMemReserved <= Top(d)
         /\ Base(d) .. Top(d) \subseteq DescPages(d)
<1>1. /\ d.start \in Nat /\ d.pages \in Nat \ {0}
      /\ MaxPpn \in Nat \ {0} /\ LowMemReserved \in Nat \ {0}
  BY DEF Descriptor, ConstantsAssumption
<1>2. LastPage(d) = d.start + d.pages - 1 /\ LastPage(d) \in Nat
  BY <1>1 DEF LastPage
<1>3. Base(d) \in Nat \ {0} /\ d.start <= Base(d)
  BY <1>1 DEF Base
<1>4. Top(d) \in Nat /\ Top(d) <= MaxPpn - 1 /\ Top(d) <= LastPage(d)
  BY <1>1, <1>2 DEF Top
<1>5. ~(Top(d) < Base(d)) /\ ~(Top(d) < LowMemReserved)
  BY DEF Empty, NotForUse
<1>6. Base(d) .. Top(d) \subseteq DescPages(d)
  BY <1>1, <1>2, <1>3, <1>4 DEF DescPages
<1> QED
  BY <1>1, <1>3, <1>4, <1>5, <1>6

(* An entry of the table is an entry, by its index.                        *)
LEMMA EntryType ==
  ASSUME TypeOK, NEW j \in Regions
  PROVE  j \in 0 .. TableSize /\ table[j] \in Region
<1>1. j \in 0 .. TableSize
  BY ConstantsAssumption DEF TypeOK, Regions
<1> QED
  BY <1>1 DEF TypeOK

(* A larger set of descriptors keeps an entry sound.                       *)
LEMMA SoundMonotone ==
  ASSUME NEW r, NEW U, NEW V, NEW b, U \subseteq V, Sound(r, U, b)
  PROVE  Sound(r, V, b)
BY DEF Sound

(* The entries made from the descriptor under the scan share no page with  *)
(* the entries made before.                                                *)
LEMMA NewEntryApart ==
  ASSUME IInv, i \in 1 .. Len(boot.map), NEW r \in Region, r.base <= r.end,
         RegionPages(r) \subseteq DescPages(boot.map[i]), NEW j \in Regions
  PROVE  Apart(table[j], r)
<1>1. ASSUME NEW p \in RegionPages(table[j])
      PROVE  p \notin RegionPages(r)
  <2>1. PICK k \in Usables : p \in DescPages(boot.map[k])
    BY DEF IInv, RegionsSound, Sound
  <2>2. k \in 1 .. Len(boot.map) /\ k # i
    BY DEF IInv, TypeOK, Usables, Scanned
  <2> QED
    BY <2>1, <2>2, OneDescriptor DEF IInv, TypeOK
<1>2. table[j] \in Region /\ table[j].base <= table[j].end
  BY EntryType DEF IInv, RegionsSound, Sound
<1>3. /\ table[j].base \in Int /\ table[j].end \in Int
      /\ r.base \in Int /\ r.end \in Int
  BY <1>2 DEF Region, Ppn
<1> QED
  BY <1>1, <1>2, <1>3, IntervalsApart DEF RegionPages, Apart

(* The descriptor under the scan joins the usable ones.                    *)
LEMMA UsablesGrow ==
  ASSUME TypeOK, i \in 1 .. Len(boot.map), i' = i + 1, boot' = boot
  PROVE  /\ Usables \subseteq Usables'
         /\ ~Empty(boot.map[i]) /\ ~NotForUse(boot.map[i]) => i \in Usables'
BY DEF TypeOK, Usables, Scanned, Empty, NotForUse, Top, Base, LastPage

(* The bounds of an entry are page numbers.                                *)
LEMMA RegionNat ==
  ASSUME NEW r \in Region
  PROVE  /\ r.base \in Nat /\ r.end \in Nat
         /\ r.allocUp \in Nat /\ r.allocDown \in Nat
BY DEF Region, Ppn

(* Two sound entries that may be merged merge to a sound entry.            *)
Merged(e, r) == [e EXCEPT !.end = r.end, !.allocDown = r.allocDown]

LEMMA MergedSound ==
  ASSUME NEW b, NEW V, NEW e \in Region, NEW r \in Region,
         Sound(e, V, b), Sound(r, V, b),
         r.attribute = e.attribute, "KERN_RESERVED" \notin r.attribute,
         r.base = r.allocUp, r.base = e.end + 1
  PROVE  /\ Merged(e, r) \in Region
         /\ Merged(e, r).base = e.base /\ Merged(e, r).end = r.end
         /\ Sound(Merged(e, r), V, b)
<1>1. /\ e.base \in Nat /\ e.end \in Nat /\ e.allocUp \in Nat
      /\ r.base \in Nat /\ r.end \in Nat
      /\ e.base <= e.end /\ r.base <= r.end
      /\ e.allocDown = e.end /\ r.allocDown = r.end
  BY DEF Region, Ppn, Sound
<1> DEFINE m == Merged(e, r)
<1>2. /\ m \in Region
      /\ m.base = e.base /\ m.allocUp = e.allocUp
      /\ m.end = r.end /\ m.allocDown = r.end /\ m.attribute = r.attribute
  BY <1>1 DEF Region, Merged
<1> HIDE DEF m
<1>3. m.base <= m.end /\ m.allocDown = m.end
  BY <1>1, <1>2
<1>4. ASSUME NEW q \in RegionPages(m)
      PROVE  q \in RegionPages(e) \/ q \in RegionPages(r)
  BY <1>1, <1>2 DEF RegionPages
<1>5. ASSUME NEW q \in AvailablePages(m)
      PROVE  q \in AvailablePages(e) \/ q \in AvailablePages(r)
  BY <1>1, <1>2 DEF AvailablePages
<1>6. \A q \in RegionPages(m) : \E k \in V : q \in DescPages(b.map[k])
  BY <1>4 DEF Sound
<1>7. ASSUME NEW q \in AvailablePages(m), q < b.fap
      PROVE  \E k \in V : Top(b.map[k]) = b.fap /\ q \in DescPages(b.map[k])
  BY <1>5, <1>7 DEF Sound
<1>8. Sound(m, V, b)
  BY <1>3, <1>6, <1>7 DEF Sound
<1> QED
  BY <1>2, <1>8 DEF m

----------------------------------------------------------------------------
(* The table t holds the first c entries of an old table T, and one or two *)
(* new entries, c .. p, made from descriptor n.  The lemmas say this of    *)
(* any such values; Adding puts in those of a step of the scan.            *)
Extends(t, T, c, p) ==
  /\ c \in Nat /\ p \in {c, c + 1}
  /\ \A j \in 0 .. p : t[j] \in Region
  /\ \A j \in 0 .. c - 1 : t[j] = T[j]

LEMMA ExtensionSound ==
  ASSUME NEW t, NEW T, NEW c, NEW p, NEW b, NEW n, NEW U, NEW V,
         Extends(t, T, c, p), U \subseteq V, n \in V,
         \A j \in 0 .. c - 1 : Sound(T[j], U, b),
         Sound(t[c], {n}, b), Sound(t[p], {n}, b)
  PROVE  \A j \in 0 .. p : Sound(t[j], V, b)
<1> TAKE j \in 0 .. p
<1>1. {n} \subseteq V
  OBVIOUS
<1>2. CASE j \in 0 .. c - 1
  BY <1>2, SoundMonotone DEF Extends
<1>3. CASE j = c
  BY <1>1, <1>3, SoundMonotone
<1>4. CASE j = p
  BY <1>1, <1>4, SoundMonotone
<1> QED
  BY <1>2, <1>3, <1>4 DEF Extends

(* The entries of t are pairwise disjoint when those of T are.             *)
LEMMA ExtensionApart ==
  ASSUME NEW t, NEW T, NEW c, NEW p, NEW b, NEW n,
         Extends(t, T, c, p),
         \A j, k \in 0 .. c - 1 : j # k => Apart(T[j], T[k]),
         \A j \in 0 .. c - 1 : Apart(T[j], t[c]) /\ Apart(T[j], t[p]),
         p = c + 1 => t[c].end < t[p].base
  PROVE  \A j, k \in 0 .. p : j # k => Apart(t[j], t[k])
<1> TAKE j, k \in 0 .. p
<1> HAVE j # k
<1>1. CASE j \in 0 .. c - 1 /\ k \in 0 .. c - 1
  BY <1>1 DEF Extends
<1>2. CASE j \in 0 .. c - 1 /\ k \in {c, p}
  BY <1>2 DEF Extends
<1>3. CASE k \in 0 .. c - 1 /\ j \in {c, p}
  BY <1>3 DEF Extends, Apart
<1>4. CASE j \in {c, p} /\ k \in {c, p}
  BY <1>4 DEF Extends, Apart
<1> QED
  BY <1>1, <1>2, <1>3, <1>4 DEF Extends

(* Merging the last two of the entries 0 .. p of a table keeps the entries *)
(* sound and disjoint.                                                     *)
LEMMA MergeLast ==
  ASSUME NEW t, NEW u, NEW p \in Nat \ {0}, NEW b, NEW V,
         \A j \in 0 .. p : t[j] \in Region /\ Sound(t[j], V, b),
         \A j, k \in 0 .. p : j # k => Apart(t[j], t[k]),
         u[p - 1] = Merged(t[p - 1], t[p]),
         \A j \in 0 .. p - 2 : u[j] = t[j],
         t[p].attribute = t[p - 1].attribute,
         "KERN_RESERVED" \notin t[p].attribute,
         t[p].base = t[p].allocUp, t[p].base = t[p - 1].end + 1
  PROVE  /\ \A j \in 0 .. p - 1 : u[j] \in Region /\ Sound(u[j], V, b)
         /\ \A j, k \in 0 .. p - 1 : j # k => Apart(u[j], u[k])
<1>1. /\ u[p - 1] \in Region /\ Sound(u[p - 1], V, b)
      /\ u[p - 1].base = t[p - 1].base /\ u[p - 1].end = t[p].end
  <2>1. p \in 0 .. p /\ p - 1 \in 0 .. p
    OBVIOUS
  <2>2. /\ t[p] \in Region /\ Sound(t[p], V, b)
        /\ t[p - 1] \in Region /\ Sound(t[p - 1], V, b)
    BY <2>1
  <2> DEFINE e == t[p - 1]  r == t[p]
  <2>3. /\ e \in Region /\ r \in Region
        /\ Sound(e, V, b) /\ Sound(r, V, b)
        /\ r.attribute = e.attribute /\ "KERN_RESERVED" \notin r.attribute
        /\ r.base = r.allocUp /\ r.base = e.end + 1
    BY <2>2
  <2>4. u[p - 1] = Merged(e, r)
    OBVIOUS
  <2> HIDE DEF e, r
  <2>5. /\ Merged(e, r) \in Region
        /\ Merged(e, r).base = e.base /\ Merged(e, r).end = r.end
        /\ Sound(Merged(e, r), V, b)
    BY <2>3, MergedSound
  <2> QED
    BY <2>4, <2>5 DEF e, r
<1>2. \A j \in 0 .. p - 1 : j = p - 1 \/ j \in 0 .. p - 2
  OBVIOUS
<1>3. \A j \in 0 .. p - 1 : u[j] \in Region /\ Sound(u[j], V, b)
  BY <1>1, <1>2
<1>4. ASSUME NEW j \in 0 .. p - 2
      PROVE  Apart(u[j], u[p - 1]) /\ Apart(u[p - 1], u[j])
  <2>1. /\ j \in 0 .. p /\ p - 1 \in 0 .. p /\ p \in 0 .. p
        /\ j # p - 1 /\ j # p /\ u[j] = t[j]
    OBVIOUS
  <2>2. Apart(t[j], t[p - 1]) /\ Apart(t[j], t[p])
    BY <2>1
  <2>3. t[j] \in Region /\ t[p - 1] \in Region /\ t[p] \in Region
    BY <2>1
  <2>4. /\ t[j].base \in Nat /\ t[j].end \in Nat /\ t[p].base \in Nat
        /\ t[p].end \in Nat /\ t[p - 1].base \in Nat /\ t[p - 1].end \in Nat
    BY <2>3 DEF Region, Ppn
  <2>5. t[j].base <= t[j].end
    BY <2>1 DEF Sound
  <2> QED
    BY <1>1, <2>1, <2>2, <2>4, <2>5 DEF Apart
<1>5. \A j, k \in 0 .. p - 1 : j # k => Apart(u[j], u[k])
  <2> TAKE j, k \in 0 .. p - 1
  <2> HAVE j # k
  <2>1. CASE j = p - 1
    BY <1>2, <1>4, <2>1
  <2>2. CASE k = p - 1
    BY <1>2, <1>4, <2>2
  <2>3. CASE j \in 0 .. p - 2 /\ k \in 0 .. p - 2
    BY <2>3
  <2> QED
    BY <1>2, <2>1, <2>2, <2>3
<1> QED
  BY <1>3, <1>5

LEMMA OneMore == \A m, n \in Nat : m + 1 = n + 1 => m = n
  OBVIOUS

----------------------------------------------------------------------------
(* What the three ways of adding a descriptor share: the entries count .. p *)
(* of t are made from the descriptor under the scan, and stored, accounted *)
(* for and perhaps merged by Account.                                      *)
LEMMA Adding ==
  ASSUME IInv, phase = "scan", i \in 1 .. Len(boot.map),
         ~Empty(boot.map[i]), ~NotForUse(boot.map[i]), count < TableSize,
         NEW t \in [0 .. TableSize -> Region], NEW p, Extends(t, table, count, p),
         Sound(t[count], {i}, boot), Sound(t[p], {i}, boot),
         p = count + 1 => t[count].end < t[p].base /\ t[count].end + 1 = t[p].base,
         Account(t, p, t[p]),
         reserved' \in 0 .. MaxReserved,
         reservedIndices' \in Seq(0 .. TableSize),
         i' = i + 1, UNCHANGED <<boot, phase, capVars>>
  PROVE  IInv'
<1>1. /\ count \in Nat /\ TableSize \in Nat /\ p \in 0 .. TableSize
      /\ count \in 0 .. p /\ p <= count + 1
  BY ConstantsAssumption DEF IInv, TypeOK, Extends
<1>2. /\ Usables \subseteq Usables' /\ i \in Usables' /\ boot' = boot
  BY UsablesGrow DEF IInv
<1>3. \A j \in 0 .. p : t[j] \in Region /\ Sound(t[j], Usables', boot)
  <2>1. \A j \in 0 .. count - 1 : Sound(table[j], Usables, boot)
    BY DEF IInv, RegionsSound, Regions
  <2>2. \A j \in 0 .. p : Sound(t[j], Usables', boot)
    BY <1>2, <2>1, ExtensionSound
  <2> QED
    BY <1>1, <2>2
<1>4. \A j, k \in 0 .. p : j # k => Apart(t[j], t[k])
  <2>1. \A j, k \in 0 .. count - 1 : j # k => Apart(table[j], table[k])
    BY DEF IInv, RegionsDisjoint, Regions, Apart
  <2>2. ASSUME NEW q \in {count, p}, NEW j \in 0 .. count - 1
        PROVE  Apart(table[j], t[q])
    <3>1. t[q] \in Region /\ t[q].base <= t[q].end
      BY <1>1, <1>3 DEF Sound
    <3>2. RegionPages(t[q]) \subseteq DescPages(boot.map[i])
      <4>1. CASE q = count
        BY <4>1 DEF Sound
      <4>2. CASE q = p
        BY <4>2 DEF Sound
      <4> QED
        BY <4>1, <4>2
    <3>3. j \in Regions
      BY DEF Regions
    <3> QED
      BY <3>1, <3>2, <3>3, NewEntryApart
  <2>3. \A j \in 0 .. count - 1 : Apart(table[j], t[count]) /\ Apart(table[j], t[p])
    BY <2>2
  <2> QED
    BY <2>1, <2>3, ExtensionApart
<1>5. /\ i' \in 1 .. Len(boot'.map) + 1 /\ ValidBoot(boot')
      /\ phase' \in {"scan", "cap", "done", "panic"}
      /\ reserved' \in 0 .. MaxReserved + 1 /\ curRegion' \in Nat
      /\ pagesToUse' \in Nat /\ highestPn' \in Nat
  BY ConstantsAssumption, SMTT(60) DEF IInv, TypeOK, capVars
<1>6. availEnd' \in Nat /\ availRemaining' \in Nat
  <2>1. t[p] \in Region /\ t[p].base <= t[p].end
    BY <1>1, <1>3 DEF Sound
  <2>2. t[p].base \in Nat /\ t[p].end \in Nat
    BY <2>1, RegionNat
  <2>3. availEnd \in Nat /\ availRemaining \in Nat
    BY DEF IInv, TypeOK
  <2>4. /\ availEnd' = IF t[p].end > availEnd THEN t[p].end ELSE availEnd
        /\ availRemaining' = availRemaining + (t[p].end - t[p].base)
    BY DEF Account, Size
  <2> QED
    BY <2>1, <2>2, <2>3, <2>4
<1>7. CASE ~Coalesces(t, t[p])
  <2>1. table' = t /\ count' = p + 1 /\ prev' = p
    BY <1>7 DEF Account
  <2>2. TypeOK'
    BY <1>1, <1>5, <1>6, <2>1 DEF TypeOK
  <2>3. PrevIsLast' /\ Bounded'
    BY <1>1, <2>1 DEF IInv, PrevIsLast, Bounded, TypeOK, capVars
  <2>4. Regions' = 0 .. p
    BY <1>1, <2>1 DEF Regions
  <2>5. RegionsSound'
    BY <1>2, <1>3, <2>1, <2>4 DEF RegionsSound
  <2>6. RegionsDisjoint'
    BY <1>4, <2>1, <2>4 DEF RegionsDisjoint, Apart
  <2> QED
    BY <2>2, <2>3, <2>5, <2>6 DEF IInv
<1>8. CASE Coalesces(t, t[p])
  <2>1. prev = count - 1 /\ prev \in 0 .. count - 1 /\ count # 0
    BY <1>1, <1>8 DEF IInv, TypeOK, PrevIsLast, Coalesces, NoPrev
  <2>2. /\ t[p].attribute = t[prev].attribute
        /\ "KERN_RESERVED" \notin t[p].attribute
        /\ t[p].base = t[p].allocUp /\ t[p].base = t[prev].end + 1
    BY <1>8 DEF Coalesces
  <2>3. p = count
    <3> SUFFICES ASSUME p = count + 1
                 PROVE  FALSE
      BY DEF Extends
    <3>1. prev \in 0 .. p /\ count \in 0 .. p /\ prev # count
      BY <1>1, <2>1
    <3>2. t[prev].end < t[count].base \/ t[count].end < t[prev].base
      BY <1>4, <3>1 DEF Apart
    <3>3. t[prev] \in Region /\ t[count] \in Region
      BY <1>3, <3>1
    <3>4. t[prev].base <= t[prev].end /\ t[count].base <= t[count].end
      BY <1>3, <3>1 DEF Sound
    <3>5. /\ t[prev].base \in Nat /\ t[prev].end \in Nat
          /\ t[count].base \in Nat /\ t[count].end \in Nat
      BY <3>3, RegionNat
    <3>6. t[count].end = t[prev].end
      <4>1. t[count].end + 1 = t[prev].end + 1
        BY <2>2
      <4> QED
        BY <3>5, <4>1, OneMore
    <3> QED
      BY <3>2, <3>4, <3>5, <3>6
  <2>4. /\ table' = [t EXCEPT ![prev] = Merged(t[prev], t[p])]
        /\ count' = count /\ prev' = prev
    BY <1>8, <2>3 DEF Account, Merged
  <2>5. /\ prev = p - 1 /\ p \in Nat \ {0} /\ prev \in 0 .. TableSize
        /\ table'[p - 1] = Merged(t[p - 1], t[p])
        /\ \A j \in 0 .. p - 2 : table'[j] = t[j]
    BY <1>1, <2>1, <2>3, <2>4
  <2>6. /\ \A j \in 0 .. p - 1 : table'[j] \in Region
                                 /\ Sound(table'[j], Usables', boot)
        /\ \A j, k \in 0 .. p - 1 : j # k => Apart(table'[j], table'[k])
    BY <1>3, <1>4, <2>2, <2>5, MergeLast
  <2>7. table' \in [0 .. TableSize -> Region]
    <3>1. Merged(t[prev], t[p]) \in Region
      BY <2>5, <2>6
    <3> QED
      BY <2>4, <3>1
  <2>8. TypeOK'
    BY <1>1, <1>5, <1>6, <2>4, <2>5, <2>7 DEF TypeOK, IInv
  <2>9. PrevIsLast' /\ Bounded'
    BY <1>1, <2>1, <2>4 DEF IInv, PrevIsLast, Bounded, TypeOK, capVars
  <2>10. Regions' = 0 .. p - 1
    BY <2>3, <2>4 DEF Regions
  <2>11. RegionsSound'
    BY <1>2, <2>6, <2>10 DEF RegionsSound
  <2>12. RegionsDisjoint'
    BY <2>6, <2>10 DEF RegionsDisjoint, Apart
  <2> QED
    BY <2>8, <2>9, <2>11, <2>12 DEF IInv
<1> QED
  BY <1>7, <1>8

(* What the guards of the three actions leave to work with.                *)
LEMMA AcceptedFacts ==
  ASSUME IInv, i \in 1 .. Len(boot.map), Accepted(boot.map[i])
  PROVE  /\ phase = "scan" /\ count < TableSize
         /\ ~Empty(boot.map[i]) /\ ~NotForUse(boot.map[i])
         /\ reserved' \in 0 .. MaxReserved
         /\ i' = i + 1 /\ UNCHANGED <<boot, phase, capVars>>
         /\ boot.map[i] \in Descriptor
         /\ boot.fap \in Nat /\ LowMemReserved \in Nat \ {0}
         /\ LowMemReserved < boot.fap
         /\ MaxPpn \in Nat /\ count \in 0 .. TableSize /\ TableSize \in Nat
<1>1. /\ phase = "scan" /\ count < TableSize
      /\ ~Empty(boot.map[i]) /\ ~NotForUse(boot.map[i])
      /\ i' = i + 1 /\ UNCHANGED <<boot, phase, capVars>>
  BY DEF Accepted, Usable, Scanning, Room
<1>2. reserved' \in 0 .. MaxReserved
  BY <1>1, ConstantsAssumption
  DEF IInv, TypeOK, Bounded, Accepted, ReservedFull
<1>3. /\ boot.map[i] \in Descriptor /\ boot.fap \in Nat
      /\ LowMemReserved < boot.fap
  BY DEF IInv, TypeOK, ValidBoot
<1> QED
  BY <1>1, <1>2, <1>3, ConstantsAssumption DEF IInv, TypeOK

(* The pages the scan takes from the descriptor it looks at.               *)
LEMMA AcceptedRange ==
  ASSUME IInv, i \in 1 .. Len(boot.map), NEW d, d = boot.map[i],
         ~Empty(d), ~NotForUse(d)
  PROVE  /\ d \in Descriptor /\ d.attribute \in SUBSET EfiFlags
         /\ Base(d) \in 1 .. MaxPpn - 1
         /\ Top(d) \in 1 .. MaxPpn - 1
         /\ Base(d) <= Top(d)
         /\ LowMemReserved <= Top(d)
         /\ Base(d) .. Top(d) \subseteq DescPages(d)
<1>1. d \in Descriptor /\ LastPage(d) <= MaxPpn
  BY DEF IInv, TypeOK, ValidBoot
<1>2. d.attribute \in SUBSET EfiFlags
  BY <1>1 DEF Descriptor
<1> QED
  BY <1>1, <1>2, UsableRange, ConstantsAssumption

(* Clamping moves the first page up, but not beyond the last.              *)
LEMMA ClampRange ==
  ASSUME ConstantsAssumption,
         NEW lo \in 1 .. MaxPpn - 1, NEW hi \in 1 .. MaxPpn - 1,
         lo <= hi, LowMemReserved <= hi
  PROVE  /\ Clamp(lo) \in 1 .. MaxPpn - 1
         /\ lo <= Clamp(lo) /\ Clamp(lo) <= hi
         /\ Clamp(lo) .. hi \subseteq lo .. hi
BY DEF ConstantsAssumption, Clamp

(* The two kinds of new entries are sound.                                 *)
LEMMA TakenSound ==
  ASSUME NEW b, NEW n, MaxPpn \in Nat,
         NEW lo \in 1 .. MaxPpn - 1, NEW hi \in 1 .. MaxPpn - 1, lo <= hi,
         lo .. hi \subseteq DescPages(b.map[n]), NEW a \in SUBSET EfiFlags
  PROVE  /\ TakenRegion(lo, hi, a) \in Region
         /\ Sound(TakenRegion(lo, hi, a), {n}, b)
<1>1. TakenRegion(lo, hi, a) \in Region
  BY DEF TakenRegion, Region, Ppn
<1>2. AvailablePages(TakenRegion(lo, hi, a)) = {}
  BY DEF TakenRegion, AvailablePages
<1>3. RegionPages(TakenRegion(lo, hi, a)) = lo .. hi
  BY DEF TakenRegion, RegionPages
<1>4. /\ TakenRegion(lo, hi, a).base <= TakenRegion(lo, hi, a).end
      /\ TakenRegion(lo, hi, a).allocDown = TakenRegion(lo, hi, a).end
  BY DEF TakenRegion
<1> QED
  BY <1>1, <1>2, <1>3, <1>4 DEF Sound

LEMMA WholeSound ==
  ASSUME NEW b, NEW n, MaxPpn \in Nat,
         NEW lo \in 1 .. MaxPpn - 1, NEW hi \in 1 .. MaxPpn - 1, lo <= hi,
         lo .. hi \subseteq DescPages(b.map[n]), NEW a \in SUBSET EfiFlags,
         \A p \in lo .. hi : p < b.fap => \/ "KERN_RESERVED" \in a /\ hi < b.kernelBase
                                         \/ Top(b.map[n]) = b.fap
  PROVE  /\ WholeRegion(lo, hi, a) \in Region
         /\ Sound(WholeRegion(lo, hi, a), {n}, b)
<1> DEFINE r == WholeRegion(lo, hi, a)
<1>1. /\ r \in Region /\ r.attribute = a /\ r.base = lo /\ r.end = hi
      /\ r.allocDown = r.end /\ r.base <= r.end
  BY DEF WholeRegion, Region, Ppn
<1>2. AvailablePages(r) = lo .. hi /\ RegionPages(r) = lo .. hi
  BY DEF WholeRegion, AvailablePages, RegionPages
<1> HIDE DEF r
<1>3. Sound(r, {n}, b)
  BY <1>1, <1>2 DEF Sound
<1> QED
  BY <1>1, <1>3 DEF r

----------------------------------------------------------------------------
(* The actions that write the table.                                       *)
LEMMA AddBelowStep ==
  ASSUME IInv, i \in 1 .. Len(boot.map), AddBelow(boot.map[i])
  PROVE  IInv'
<1> DEFINE d    == boot.map[i]
           keep == KeptReserved(d)
           lo   == Clamp(Base(d))
           r    == IF keep THEN WholeRegion(lo, Top(d), d.attribute)
                           ELSE TakenRegion(lo, Top(d), d.attribute)
           t    == [table EXCEPT ![count] = r]
<1>1. Accepted(d) /\ Top(d) < boot.fap /\ Account(t, count, r)
      /\ reservedIndices' = IF keep THEN Append(reservedIndices, count)
                                    ELSE reservedIndices
  BY DEF AddBelow
<1>2. /\ phase = "scan" /\ count < TableSize
      /\ ~Empty(d) /\ ~NotForUse(d)
      /\ reserved' \in 0 .. MaxReserved
      /\ i' = i + 1 /\ UNCHANGED <<boot, phase, capVars>>
      /\ boot.fap \in Nat /\ LowMemReserved \in Nat \ {0} /\ MaxPpn \in Nat
      /\ count \in 0 .. TableSize /\ TableSize \in Nat
  BY <1>1, AcceptedFacts
<1>3. /\ d.attribute \in SUBSET EfiFlags
      /\ Base(d) \in 1 .. MaxPpn - 1 /\ Top(d) \in 1 .. MaxPpn - 1
      /\ Base(d) <= Top(d) /\ LowMemReserved <= Top(d)
      /\ Base(d) .. Top(d) \subseteq DescPages(d)
  BY <1>2, AcceptedRange
<1>4. /\ lo \in 1 .. MaxPpn - 1 /\ lo <= Top(d)
      /\ lo .. Top(d) \subseteq DescPages(d)
  BY <1>3, ClampRange, ConstantsAssumption
<1>5. r \in Region /\ Sound(r, {i}, boot)
  <2>1. CASE keep
    <3>1. "KERN_RESERVED" \in d.attribute /\ Top(d) < boot.kernelBase
      BY <2>1 DEF KeptReserved, IsReserved
    <3>2. /\ WholeRegion(lo, Top(d), d.attribute) \in Region
          /\ Sound(WholeRegion(lo, Top(d), d.attribute), {i}, boot)
      <4> HIDE DEF lo
      <4> QED  BY <1>2, <1>3, <1>4, <3>1, WholeSound
    <3> QED
      BY <2>1, <3>2
  <2>2. CASE ~keep
    <3>1. /\ TakenRegion(lo, Top(d), d.attribute) \in Region
          /\ Sound(TakenRegion(lo, Top(d), d.attribute), {i}, boot)
      <4> HIDE DEF lo
      <4> QED  BY <1>2, <1>3, <1>4, TakenSound
    <3> QED
      BY <2>2, <3>1
  <2> QED
    BY <2>1, <2>2
<1> HIDE DEF r
<1>6. /\ t \in [0 .. TableSize -> Region] /\ t[count] = r
      /\ \A j \in 0 .. count - 1 : t[j] = table[j]
  BY <1>2, <1>5 DEF IInv, TypeOK
<1> HIDE DEF t
<1>7. Extends(t, table, count, count)
  BY <1>2, <1>6 DEF Extends
<1>8. Sound(t[count], {i}, boot) /\ Account(t, count, t[count])
  <2>1. t[count] = r
    BY <1>6
  <2>2. Sound(t[count], {i}, boot)
    BY <1>5, <2>1 DEF Sound
  <2>3. Account(t, count, t[count])
    BY <1>1, <2>1 DEF Account, Coalesces, Size
  <2> QED
    BY <2>2, <2>3
<1>9. reservedIndices' \in Seq(0 .. TableSize)
  <2>1. reservedIndices \in Seq(0 .. TableSize) /\ count \in 0 .. TableSize
    BY <1>2 DEF IInv, TypeOK
  <2>2. Append(reservedIndices, count) \in Seq(0 .. TableSize)
    BY <2>1
  <2> QED
    BY <1>1, <2>1, <2>2
<1>10. count # count + 1
  BY <1>2
<1> QED
  BY <1>2, <1>6, <1>7, <1>8, <1>9, <1>10, Adding

LEMMA AddWholeStep ==
  ASSUME IInv, i \in 1 .. Len(boot.map), AddWhole(boot.map[i])
  PROVE  IInv'
<1> DEFINE d == boot.map[i]
           r == WholeRegion(Base(d), Top(d), d.attribute)
           t == [table EXCEPT ![count] = r]
<1>1. Accepted(d) /\ Top(d) >= boot.fap /\ ~Spans(d) /\ Account(t, count, r)
      /\ reservedIndices' = Recorded(d, count)
  BY DEF AddWhole
<1>2. /\ phase = "scan" /\ count < TableSize
      /\ ~Empty(d) /\ ~NotForUse(d)
      /\ reserved' \in 0 .. MaxReserved
      /\ i' = i + 1 /\ UNCHANGED <<boot, phase, capVars>>
      /\ boot.fap \in Nat /\ LowMemReserved \in Nat \ {0} /\ MaxPpn \in Nat
      /\ count \in 0 .. TableSize /\ TableSize \in Nat
  BY <1>1, AcceptedFacts
<1>3. /\ d.attribute \in SUBSET EfiFlags
      /\ Base(d) \in 1 .. MaxPpn - 1 /\ Top(d) \in 1 .. MaxPpn - 1
      /\ Base(d) <= Top(d) /\ LowMemReserved <= Top(d)
      /\ Base(d) .. Top(d) \subseteq DescPages(d)
  BY <1>2, AcceptedRange
<1>4. \A p \in Base(d) .. Top(d) : p < boot.fap => Top(d) = boot.fap
  BY <1>1, <1>2, <1>3 DEF Spans
<1>5. r \in Region /\ Sound(r, {i}, boot)
  BY <1>2, <1>3, <1>4, WholeSound
<1> HIDE DEF r
<1>6. /\ t \in [0 .. TableSize -> Region] /\ t[count] = r
      /\ \A j \in 0 .. count - 1 : t[j] = table[j]
  BY <1>2, <1>5 DEF IInv, TypeOK
<1> HIDE DEF t
<1>7. Extends(t, table, count, count)
  BY <1>2, <1>6 DEF Extends
<1>8. Sound(t[count], {i}, boot) /\ Account(t, count, t[count])
  <2>1. t[count] = r
    BY <1>6
  <2>2. Sound(t[count], {i}, boot)
    BY <1>5, <2>1 DEF Sound
  <2>3. Account(t, count, t[count])
    BY <1>1, <2>1 DEF Account, Coalesces, Size
  <2> QED
    BY <2>2, <2>3
<1>9. reservedIndices' \in Seq(0 .. TableSize)
  <2>1. reservedIndices \in Seq(0 .. TableSize) /\ count \in 0 .. TableSize
    BY <1>2 DEF IInv, TypeOK
  <2>2. Append(reservedIndices, count) \in Seq(0 .. TableSize)
    BY <2>1
  <2> QED
    BY <1>1, <2>1, <2>2 DEF Recorded
<1>10. count # count + 1
  BY <1>2
<1> QED
  BY <1>2, <1>6, <1>7, <1>8, <1>9, <1>10, Adding

LEMMA AddSpanningStep ==
  ASSUME IInv, i \in 1 .. Len(boot.map), AddSpanning(boot.map[i])
  PROVE  IInv'
<1> DEFINE d == boot.map[i]
           q == LowerPart(d)
           r == UpperPart(d)
           t == [table EXCEPT ![count] = q, ![count + 1] = r]
           p == count + 1
<1>1. Accepted(d) /\ Spans(d) /\ Account(t, p, r)
      /\ reservedIndices' = Recorded(d, p)
  BY DEF AddSpanning
<1>2. /\ phase = "scan" /\ count < TableSize
      /\ ~Empty(d) /\ ~NotForUse(d)
      /\ reserved' \in 0 .. MaxReserved
      /\ i' = i + 1 /\ UNCHANGED <<boot, phase, capVars>>
      /\ boot.fap \in Nat /\ LowMemReserved \in Nat \ {0} /\ MaxPpn \in Nat
      /\ count \in 0 .. TableSize /\ TableSize \in Nat
  BY <1>1, AcceptedFacts
<1>3. /\ d.attribute \in SUBSET EfiFlags
      /\ Base(d) \in 1 .. MaxPpn - 1 /\ Top(d) \in 1 .. MaxPpn - 1
      /\ Base(d) <= Top(d) /\ LowMemReserved <= Top(d)
      /\ Base(d) .. Top(d) \subseteq DescPages(d)
  BY <1>2, AcceptedRange
<1>4. /\ Base(d) < boot.fap /\ boot.fap < Top(d)
      /\ boot.fap \in 1 .. MaxPpn - 1 /\ boot.fap - 1 \in 1 .. MaxPpn - 1
      /\ Base(d) .. boot.fap - 1 \subseteq DescPages(d)
      /\ boot.fap .. Top(d) \subseteq DescPages(d)
      /\ Base(d) <= boot.fap - 1 /\ boot.fap <= Top(d)
  <2>1. Base(d) < boot.fap /\ boot.fap < Top(d)
    BY <1>1 DEF Spans
  <2>2. /\ boot.fap \in Base(d) .. Top(d) /\ boot.fap - 1 \in Base(d) .. Top(d)
        /\ boot.fap \in 1 .. MaxPpn - 1 /\ boot.fap - 1 \in 1 .. MaxPpn - 1
        /\ Base(d) <= boot.fap - 1 /\ boot.fap <= Top(d)
    BY <1>2, <1>3, <2>1
  <2>3. /\ Base(d) .. boot.fap - 1 \subseteq Base(d) .. Top(d)
        /\ boot.fap .. Top(d) \subseteq Base(d) .. Top(d)
    <3>1. /\ Base(d) \in Int /\ boot.fap \in Int /\ Top(d) \in Int
          /\ Base(d) <= boot.fap /\ boot.fap <= Top(d)
      BY <1>2, <1>3, <2>1
    <3> QED
      BY <3>1, IntervalHalves
  <2> QED
    BY <1>3, <2>1, <2>2, <2>3
<1>5. q \in Region /\ Sound(q, {i}, boot)
  BY <1>2, <1>3, <1>4, TakenSound DEF LowerPart
<1>6. r \in Region /\ Sound(r, {i}, boot)
  <2>1. \A n \in boot.fap .. Top(d) : ~(n < boot.fap)
    BY <1>2, <1>3
  <2> QED
    BY <1>2, <1>3, <1>4, <2>1, WholeSound DEF UpperPart
<1>7. q.end < r.base /\ q.end + 1 = r.base
  BY <1>2 DEF LowerPart, UpperPart, TakenRegion, WholeRegion
<1> HIDE DEF q, r
<1>8. /\ t \in [0 .. TableSize -> Region] /\ t[count] = q /\ t[p] = r
      /\ \A j \in 0 .. count - 1 : t[j] = table[j]
  <2>0. table \in [0 .. TableSize -> Region]
    BY DEF IInv, TypeOK
  <2>1. p \in 0 .. TableSize /\ count # p
    BY <1>2
  <2> QED
    BY <1>2, <1>5, <1>6, <2>0, <2>1
<1> HIDE DEF t
<1>9. Extends(t, table, count, p)
  <2>1. count \in Nat /\ p = count + 1
    BY <1>2
  <2>2. ASSUME NEW j \in 0 .. p PROVE t[j] \in Region
    <3>1. j \in 0 .. TableSize
      BY <1>2, <2>1
    <3> QED
      BY <1>8, <3>1
  <2> QED
    BY <1>8, <2>1, <2>2 DEF Extends
<1>10. Sound(t[count], {i}, boot) /\ Sound(t[p], {i}, boot)
       /\ Account(t, p, t[p])
  <2>1. t[count] = q /\ t[p] = r
    BY <1>8
  <2>2. Sound(t[count], {i}, boot)
    BY <1>5, <2>1 DEF Sound
  <2>3. Sound(t[p], {i}, boot)
    BY <1>6, <2>1 DEF Sound
  <2>4. Account(t, p, t[p])
    BY <1>1, <2>1 DEF Account, Coalesces, Size
  <2> QED
    BY <2>2, <2>3, <2>4
<1>11. t[count].end < t[p].base /\ t[count].end + 1 = t[p].base
  BY <1>7, <1>8
<1>12. reservedIndices' \in Seq(0 .. TableSize)
  <2>1. reservedIndices \in Seq(0 .. TableSize) /\ p \in 0 .. TableSize
    BY <1>2 DEF IInv, TypeOK
  <2>2. Append(reservedIndices, p) \in Seq(0 .. TableSize)
    BY <2>1
  <2> QED
    BY <1>1, <2>1, <2>2 DEF Recorded
<1> QED
  BY <1>2, <1>8, <1>9, <1>10, <1>11, <1>12, Adding

----------------------------------------------------------------------------
(* The actions that leave the entries alone.                               *)
LEMMA SkipStep ==
  ASSUME IInv, i \in 1 .. Len(boot.map), i' = i + 1,
         phase = "scan", phase' \in {"scan", "panic"},
         prev' \in {prev, NoPrev}, reserved' \in 0 .. MaxReserved + 1,
         phase' = "scan" => reserved' = reserved,
         UNCHANGED <<boot, table, count, reservedIndices, availEnd,
                     availRemaining, capVars>>
  PROVE  IInv'
<1>1. TypeOK'
  BY ConstantsAssumption DEF IInv, TypeOK, capVars, NoPrev
<1>2. PrevIsLast' /\ Bounded'
  BY DEF IInv, PrevIsLast, Bounded, capVars
<1>3. Usables \subseteq Usables' /\ Regions' = Regions /\ boot' = boot
      /\ table' = table
  BY UsablesGrow DEF IInv, Regions
<1>4. RegionsSound'
  <2>1. \A j \in Regions : Sound(table[j], Usables, boot)
    BY DEF IInv, RegionsSound
  <2>2. \A j \in Regions : Sound(table[j], Usables', boot)
    BY <1>3, <2>1, SoundMonotone
  <2> QED
    BY <1>3, <2>2 DEF RegionsSound
<1>5. RegionsDisjoint'
  BY <1>3 DEF IInv, RegionsDisjoint
<1> QED
  BY <1>1, <1>2, <1>4, <1>5 DEF IInv

(* Once the scan is over, nothing joins the usable descriptors.            *)
LEMMA UsablesSame ==
  ASSUME boot' = boot, i' = i
  PROVE  Usables' = Usables
BY DEF Usables, Scanned, Empty, NotForUse, Top, Base, LastPage

LEMMA LeaveScanStep ==
  ASSUME IInv, LeaveScan
  PROVE  IInv'
<1>1. /\ boot' = boot /\ i' = i /\ table' = table /\ count' = count
      /\ curRegion' = curRegion
  BY DEF LeaveScan
<1>2. TypeOK'
  <2>1. /\ phase' \in {"scan", "cap", "done", "panic"}
        /\ availRemaining' \in Nat /\ pagesToUse' \in Nat
    <3>1. CASE ~Capped
      BY <3>1 DEF IInv, TypeOK, LeaveScan
    <3>2. CASE Capped
      <4>1. /\ boot.physPages \in Nat /\ MaxMem \in Nat /\ MaxMem < boot.physPages
            /\ availRemaining \in Nat
        BY <3>2, ConstantsAssumption DEF IInv, TypeOK, ValidBoot, MaxMem, Capped
      <4> DEFINE gone == boot.physPages - MaxMem
                 left == IF availRemaining > gone THEN availRemaining - gone
                                                  ELSE 0
      <4>2. left \in Nat
        BY <4>1
      <4>3. phase' = "cap" /\ availRemaining' = left /\ pagesToUse' = left
        BY <3>2 DEF LeaveScan
      <4> QED
        BY <4>2, <4>3
    <3> QED
      BY <3>1, <3>2
  <2> QED
    BY <2>1 DEF IInv, TypeOK, LeaveScan
<1>3. PrevIsLast' /\ Bounded'
  BY DEF IInv, PrevIsLast, Bounded, LeaveScan
<1>4. RegionsSound' /\ RegionsDisjoint'
  BY <1>1, UsablesSame DEF IInv, RegionsSound, RegionsDisjoint, Regions
<1> QED
  BY <1>2, <1>3, <1>4 DEF IInv

LEMMA LeaveCapStep ==
  ASSUME IInv, LeaveCap
  PROVE  IInv'
<1>1. /\ boot' = boot /\ i' = i /\ table' = table /\ count' = curRegion
      /\ curRegion' = curRegion /\ phase' = "done" /\ curRegion <= count
      /\ curRegion \in Nat /\ count \in 0 .. TableSize + 1
      /\ availEnd' \in Nat
  BY DEF IInv, Bounded, TypeOK, LeaveCap, CappedEnd, capVars
<1>2. TypeOK'
  BY <1>1, ConstantsAssumption DEF IInv, TypeOK, LeaveCap, capVars
<1>3. PrevIsLast' /\ Bounded'
  BY <1>1 DEF PrevIsLast, Bounded
<1>4. Regions' \subseteq Regions /\ Usables' = Usables
  BY <1>1, UsablesSame DEF Regions
<1>5. RegionsSound'
  BY <1>1, <1>4 DEF IInv, RegionsSound
<1>6. RegionsDisjoint'
  BY <1>1, <1>4 DEF IInv, RegionsDisjoint
<1> QED
  BY <1>2, <1>3, <1>5, <1>6 DEF IInv

(* Cutting an entry off at its end keeps it sound.                         *)
LEMMA CutSound ==
  ASSUME NEW b, b.kernelBase \in Nat, NEW U,
         NEW r \in Region, Sound(r, U, b),
         NEW stop \in Nat, r.base <= stop, stop <= r.end
  PROVE  LET c == [r EXCEPT !.end = stop, !.allocDown = stop]
         IN /\ c \in Region /\ c.base = r.base /\ c.end = stop
            /\ Sound(c, U, b)
<1> DEFINE c == [r EXCEPT !.end = stop, !.allocDown = stop]
<1>1. /\ r.base \in Nat /\ r.end \in Nat /\ r.allocUp \in Nat
      /\ r.allocDown = r.end /\ r.base \in Ppn /\ r.end \in 0 .. MaxPpn - 1
      /\ MaxPpn \in Nat
  BY ConstantsAssumption DEF Region, Ppn, Sound
<1>2. stop \in Ppn /\ stop \in 0 .. MaxPpn - 1
  BY <1>1 DEF Ppn
<1>3. /\ c \in Region /\ c.base = r.base /\ c.end = stop /\ c.allocDown = stop
      /\ c.allocUp = r.allocUp /\ c.attribute = r.attribute
  BY <1>2 DEF Region
<1> HIDE DEF c
<1>4. /\ RegionPages(c) \subseteq RegionPages(r)
      /\ AvailablePages(c) \subseteq AvailablePages(r)
  BY <1>1, <1>3 DEF RegionPages, AvailablePages
<1>5. \A p \in RegionPages(c) : \E k \in U : p \in DescPages(b.map[k])
  BY <1>4 DEF Sound
<1>6. ASSUME NEW p \in AvailablePages(c), p < b.fap
      PROVE  \/ "KERN_RESERVED" \in c.attribute /\ c.end < b.kernelBase
             \/ \E k \in U : Top(b.map[k]) = b.fap /\ p \in DescPages(b.map[k])
  <2>1. CASE "KERN_RESERVED" \in r.attribute /\ r.end < b.kernelBase
    BY <1>1, <1>3, <2>1
  <2>2. CASE \E k \in U : Top(b.map[k]) = b.fap /\ p \in DescPages(b.map[k])
    BY <2>2
  <2> QED
    BY <1>4, <1>6, <2>1, <2>2 DEF Sound
<1>7. Sound(c, U, b)
  BY <1>1, <1>3, <1>5, <1>6 DEF Sound
<1> QED
  BY <1>3, <1>7 DEF c

LEMMA CapRegionStep ==
  ASSUME IInv, CapRegion
  PROVE  IInv'
<1> DEFINE r    == table[curRegion]
           used == PagesUsed(r)
           stop == r.base + used
           cut  == [r EXCEPT !.end = stop, !.allocDown = stop]
<1>1. /\ curRegion \in Regions /\ curRegion \in 0 .. TableSize
      /\ curRegion \in Nat /\ count \in Nat /\ pagesToUse \in Nat
      /\ curRegion < count
  <2>1. /\ curRegion \in Nat /\ count \in 0 .. TableSize + 1
        /\ pagesToUse \in Nat /\ curRegion < count /\ TableSize \in Nat
    BY ConstantsAssumption DEF CapRegion, IInv, TypeOK
  <2> QED
    BY <2>1 DEF Regions
<1>2. r \in Region /\ Sound(r, Usables, boot)
  BY <1>1 DEF IInv, TypeOK, RegionsSound
<1>3. r.base \in Nat /\ r.end \in Nat /\ r.base <= r.end
  BY <1>2, RegionNat DEF Sound
<1>4. used \in Nat /\ used <= r.end - r.base /\ used <= pagesToUse
  <2> HIDE DEF r
  <2> QED  BY <1>1, <1>3 DEF PagesUsed
<1>5. stop \in Nat /\ r.base <= stop /\ stop <= r.end
  BY <1>3, <1>4
<1>6. cut \in Region /\ cut.base = r.base /\ cut.end = stop
      /\ Sound(cut, Usables, boot)
  <2>1. boot.kernelBase \in Nat
    BY DEF IInv, TypeOK, ValidBoot
  <2> HIDE DEF r, stop
  <2> QED
    BY <1>2, <1>5, <2>1, CutSound
<1>7. /\ boot' = boot /\ i' = i /\ count' = count /\ curRegion' = curRegion + 1
      /\ phase' = "cap" /\ pagesToUse' = pagesToUse - used
      /\ highestPn' \in {highestPn, stop - 1}
      /\ highestPn' = highestPn \/ used > 0
      /\ table' \in {table, [table EXCEPT ![curRegion] = cut]}
  BY DEF CapRegion, Stop
<1>8. Usables' = Usables /\ Regions' = Regions
  BY <1>7, UsablesSame DEF Regions
<1> HIDE DEF used, stop, cut
<1>9. ASSUME NEW j \in Regions
      PROVE  /\ table'[j].base = table[j].base
             /\ table'[j].end <= table[j].end
             /\ table'[j].end \in Nat /\ table[j].end \in Nat
             /\ table[j].base \in Nat
             /\ Sound(table'[j], Usables, boot)
  <2>1. /\ j \in 0 .. TableSize /\ table[j] \in Region
        /\ table[j].base \in Nat /\ table[j].end \in Nat
        /\ Sound(table[j], Usables, boot)
    BY EntryType, RegionNat DEF IInv, RegionsSound
  <2>2. CASE table' = table
    BY <2>1, <2>2 DEF Sound
  <2>3. CASE table' = [table EXCEPT ![curRegion] = cut] /\ j # curRegion
    <3>1. table'[j] = table[j]
      BY <2>1, <2>3 DEF IInv, TypeOK
    <3> QED
      BY <2>1, <3>1 DEF Sound
  <2>4. CASE table' = [table EXCEPT ![curRegion] = cut] /\ j = curRegion
    <3>1. table'[j] = cut
      BY <1>1, <2>4 DEF IInv, TypeOK
    <3>2. Sound(table'[j], Usables, boot)
      BY <1>6, <3>1 DEF Sound
    <3> QED
      BY <1>5, <1>6, <2>1, <2>4, <3>1, <3>2
  <2> QED
    BY <1>7, <2>2, <2>3, <2>4
<1>10. TypeOK'
  <2>1. table' \in [0 .. TableSize -> Region]
    BY <1>6, <1>7 DEF IInv, TypeOK
  <2>2. /\ pagesToUse' \in Nat /\ highestPn' \in Nat /\ curRegion' \in Nat
    <3>1. used > 0 => stop - 1 \in Nat
      BY <1>3, <1>4 DEF stop
    <3> QED
      BY <1>1, <1>4, <1>7, <3>1 DEF IInv, TypeOK
  <2> QED
    BY <1>7, <2>1, <2>2 DEF IInv, TypeOK, CapRegion
<1>11. PrevIsLast' /\ Bounded'
  BY <1>1, <1>7 DEF PrevIsLast, Bounded
<1>12. RegionsSound'
  BY <1>7, <1>8, <1>9 DEF RegionsSound
<1>13. RegionsDisjoint'
  <2> SUFFICES ASSUME NEW j \in Regions, NEW k \in Regions, j # k
               PROVE  \/ table'[j].end < table'[k].base
                      \/ table'[k].end < table'[j].base
    BY <1>8 DEF RegionsDisjoint
  <2>1. table[j].end < table[k].base \/ table[k].end < table[j].base
    BY DEF IInv, RegionsDisjoint
  <2> QED
    BY <1>9, <2>1
<1> QED
  BY <1>10, <1>11, <1>12, <1>13 DEF IInv

----------------------------------------------------------------------------
LEMMA InitIInv == Init => IInv
<1> SUFFICES ASSUME Init
             PROVE  IInv
  OBVIOUS
<1>1. NoRegion \in Region
  BY ConstantsAssumption DEF NoRegion, Region, Ppn
<1>2. TypeOK
  <2>1. ValidBoot(boot)
    BY BootArgsAssumption DEF Init
  <2>2. 1 \in 1 .. Len(boot.map) + 1
    BY <2>1 DEF ValidBoot
  <2> QED
    BY <1>1, <2>1, <2>2, ConstantsAssumption DEF Init, TypeOK, NoPrev
<1>3. Regions = {}
  BY DEF Init, Regions
<1>4. PrevIsLast /\ Bounded
  BY ConstantsAssumption DEF Init, PrevIsLast, Bounded
<1> QED
  BY <1>2, <1>3, <1>4 DEF IInv, RegionsSound, RegionsDisjoint

LEMMA NextIInv == IInv /\ [Next]_vars => IInv'
<1> SUFFICES ASSUME IInv, [Next]_vars
             PROVE  IInv'
  OBVIOUS
<1>1. ASSUME NEW k \in 1 .. Len(boot.map), k = i, ScanStep(boot.map[k])
      PROVE  IInv'
  <2> DEFINE d == boot.map[i]
  <2>1. i \in 1 .. Len(boot.map)
    BY <1>1
  <2>2. CASE SkipEmpty(d)
    <3>1. i' = i + 1 /\ phase = "scan" /\ phase' = phase /\ reserved' = reserved
          /\ prev' = prev
          /\ UNCHANGED <<boot, table, count, reservedIndices, availEnd,
                         availRemaining, capVars>>
      BY <2>2 DEF SkipEmpty, Scanning, scanVars
    <3>2. reserved' \in 0 .. MaxReserved + 1
      BY <3>1 DEF IInv, TypeOK
    <3> QED
      BY <2>1, <3>1, <3>2, SkipStep
  <2>3. CASE SkipUnusable(d)
    <3>1. i' = i + 1 /\ phase = "scan" /\ phase' = phase /\ reserved' = reserved
          /\ prev' = NoPrev
          /\ UNCHANGED <<boot, table, count, reservedIndices, availEnd,
                         availRemaining, capVars>>
      BY <2>3 DEF SkipUnusable, Scanning
    <3>2. reserved' \in 0 .. MaxReserved + 1
      BY <3>1 DEF IInv, TypeOK
    <3> QED
      BY <2>1, <3>1, <3>2, SkipStep
  <2>4. CASE TooManyReserved(d)
    <3>1. i' = i + 1 /\ phase = "scan" /\ phase' = "panic"
          /\ reserved' = reserved + 1 /\ prev' = prev
          /\ UNCHANGED <<boot, table, count, reservedIndices, availEnd,
                         availRemaining, capVars>>
      BY <2>4 DEF TooManyReserved, Usable, Scanning, scanVars
    <3>2. reserved' \in 0 .. MaxReserved + 1
      BY <3>1, ConstantsAssumption DEF IInv, TypeOK, Bounded
    <3> QED
      BY <2>1, <3>1, <3>2, SkipStep
  <2>5. CASE AddBelow(d)
    BY <2>1, <2>5, AddBelowStep
  <2>6. CASE AddSpanning(d)
    BY <2>1, <2>6, AddSpanningStep
  <2>7. CASE AddWhole(d)
    BY <2>1, <2>7, AddWholeStep
  <2> QED
    BY <1>1, <2>2, <2>3, <2>4, <2>5, <2>6, <2>7 DEF ScanStep
<1>2. CASE LeaveScan
  BY <1>2, LeaveScanStep
<1>3. CASE CapRegion
  BY <1>3, CapRegionStep
<1>4. CASE LeaveCap
  BY <1>4, LeaveCapStep
<1>5. CASE UNCHANGED vars
  <2>1. /\ boot' = boot /\ phase' = phase /\ i' = i /\ table' = table
        /\ count' = count /\ prev' = prev /\ reserved' = reserved
        /\ reservedIndices' = reservedIndices /\ availEnd' = availEnd
        /\ availRemaining' = availRemaining /\ curRegion' = curRegion
        /\ pagesToUse' = pagesToUse /\ highestPn' = highestPn
    BY <1>5 DEF vars, scanVars, capVars
  <2>2. TypeOK' /\ PrevIsLast' /\ Bounded'
    BY <2>1 DEF IInv, TypeOK, PrevIsLast, Bounded
  <2>3. RegionsSound' /\ RegionsDisjoint'
    BY <2>1, UsablesSame DEF IInv, RegionsSound, RegionsDisjoint, Regions
  <2> QED
    BY <2>2, <2>3 DEF IInv
<1> QED
  BY <1>1, <1>2, <1>3, <1>4, <1>5 DEF Next

LEMMA IInvIsEnough == IInv => /\ TypeOK /\ RegionsDisjoint /\ RegionsUsable
                              /\ AllocatedBelowFirstAvail
<1> SUFFICES ASSUME IInv
             PROVE  /\ TypeOK /\ RegionsDisjoint /\ RegionsUsable
                    /\ AllocatedBelowFirstAvail
  OBVIOUS
<1>1. RegionsUsable
  BY DEF IInv, RegionsSound, Sound, RegionsUsable
<1>2. AllocatedBelowFirstAvail
  BY DEF IInv, RegionsSound, Sound, AllocatedBelowFirstAvail
<1> QED
  BY <1>1, <1>2 DEF IInv

(* Every reachable state of i386_vm_init's loops satisfies the invariant.  *)
LEMMA Invariant == Spec => []IInv
BY InitIInv, NextIInv, PTL DEF Spec

----------------------------------------------------------------------------
(* The second invariant is about what the entries keep: the usable pages,  *)
(* the indices recorded, and the pages counted.                            *)

(* An entry's available pages begin at most just behind it, and avail_end  *)
(* has seen every entry.                                                   *)
EntriesSeen ==
  phase = "scan" =>
    \A j \in Regions : table[j].allocUp <= table[j].end + 1 /\ table[j].end <= availEnd

IndicesCounted ==
  /\ ReservedIndicesValid
  /\ phase = "scan" => Len(reservedIndices) <= reserved

Sums(s, t, n) == s \in [0 .. n -> Nat] /\ PageSums(s, t, n)

(* The scan counts no page that the capping loop does not count.           *)
ScanCounted ==
  phase = "scan" =>
    /\ curRegion = 0 /\ highestPn = 0
    /\ \E s : Sums(s, table, count) /\ s[count] >= availRemaining

(* What the loop has passed and what is still to be used make up           *)
(* avail_remaining, and there is enough left in the entries.               *)
CapCounted ==
  phase = "cap" =>
    /\ Capped
    /\ \A j \in 0 .. curRegion - 1 :
         table[j].end <= highestPn + 1 \/ table[j].base = table[j].end
    /\ pagesToUse > 0 =>
         \E s : /\ Sums(s, table, count) /\ s[count] >= availRemaining
                /\ s[curRegion] + pagesToUse = availRemaining
                /\ \A k \in 0 .. curRegion : s[k] <= availRemaining
    /\ pagesToUse = 0 =>
         \E s : /\ Sums(s, table, curRegion) /\ s[curRegion] = availRemaining
                /\ \A k \in 0 .. curRegion : s[k] <= availRemaining

KInv ==
  /\ EntriesSeen
  /\ UsablePagesKept
  /\ IndicesCounted
  /\ OverrunOnlyBySpanning
  /\ ScanCounted
  /\ CapCounted
  /\ AvailEndRight

(* One more entry is one more sum.                                         *)
LEMMA SumsExtend ==
  ASSUME NEW n \in Nat, NEW t, NEW s, Sums(s, t, n),
         t[n].base \in Nat, t[n].end \in Nat, t[n].base <= t[n].end
  PROVE  \E u : /\ Sums(u, t, n + 1) /\ u[n + 1] = s[n] + Size(t[n])
                /\ \A k \in 0 .. n : u[k] = s[k]
<1> DEFINE u == [k \in 0 .. n + 1 |-> IF k <= n THEN s[k] ELSE s[n] + Size(t[n])]
<1>1. s \in [0 .. n -> Nat] /\ s[n] \in Nat /\ Size(t[n]) \in Nat
  BY DEF Sums, Size
<1>2. \A k \in 0 .. n : u[k] = s[k]
  OBVIOUS
<1>3. u[n + 1] = s[n] + Size(t[n])
  OBVIOUS
<1>4. u \in [0 .. n + 1 -> Nat]
  BY <1>1
<1>5. PageSums(u, t, n + 1)
  <2>1. u[0] = 0
    BY <1>2 DEF Sums, PageSums
  <2>2. ASSUME NEW k \in 1 .. n + 1 PROVE u[k] = u[k - 1] + Size(t[k - 1])
    <3>1. CASE k \in 1 .. n
      <4>1. k \in 0 .. n /\ k - 1 \in 0 .. n
        BY <3>1
      <4> QED
        BY <1>2, <3>1, <4>1 DEF Sums, PageSums
    <3>2. CASE k = n + 1
      <4>1. k - 1 = n /\ n \in 0 .. n
        BY <3>2
      <4> QED
        BY <1>2, <1>3, <3>2, <4>1
    <3> QED
      BY <3>1, <3>2
  <2> QED
    BY <2>1, <2>2 DEF PageSums
<1> QED
  BY <1>2, <1>3, <1>4, <1>5 DEF Sums

SameSizes(t, T, m) == \A k \in 0 .. m - 1 : Size(T[k]) = Size(t[k])

LEMMA SumsPrefix ==
  ASSUME NEW n \in Nat, NEW m \in 0 .. n, NEW t, NEW T, NEW s, Sums(s, t, n),
         SameSizes(t, T, m)
  PROVE  \E u : Sums(u, T, m) /\ \A k \in 0 .. m : u[k] = s[k]
<1> DEFINE u == [k \in 0 .. m |-> s[k]]
<1>1. \A k \in 0 .. m : u[k] = s[k] /\ k \in 0 .. n
  OBVIOUS
<1>2. u \in [0 .. m -> Nat]
  BY <1>1 DEF Sums
<1>3. PageSums(u, T, m)
  <2>1. u[0] = 0
    BY <1>1 DEF Sums, PageSums
  <2>2. ASSUME NEW k \in 1 .. m PROVE u[k] = u[k - 1] + Size(T[k - 1])
    <3>1. k \in 1 .. n /\ k \in 0 .. m /\ k - 1 \in 0 .. m /\ k - 1 \in 0 .. m - 1
      OBVIOUS
    <3> QED
      BY <1>1, <3>1 DEF Sums, PageSums, SameSizes
  <2> QED
    BY <2>1, <2>2 DEF PageSums
<1> HIDE DEF u
<1> QED
  BY <1>1, <1>2, <1>3 DEF Sums

(* Merging loses no page, available or not.                                *)
LEMMA MergedCovers ==
  ASSUME NEW e \in Region, NEW r \in Region,
         e.base <= e.end, r.base <= r.end, e.allocDown = e.end, r.allocDown = r.end,
         e.allocUp <= e.end + 1, r.base = r.allocUp, r.base = e.end + 1
  PROVE  LET m == Merged(e, r)
         IN /\ m.base = e.base /\ m.end = r.end /\ m.allocUp <= m.end + 1
            /\ RegionPages(e) \subseteq RegionPages(m) /\ RegionPages(r) \subseteq RegionPages(m)
            /\ AvailablePages(e) \subseteq AvailablePages(m)
            /\ AvailablePages(r) \subseteq AvailablePages(m)
<1> DEFINE m == Merged(e, r)
<1>1. /\ e.base \in Nat /\ e.end \in Nat /\ e.allocUp \in Nat
      /\ r.base \in Nat /\ r.end \in Nat
  BY RegionNat
<1>2. /\ m.base = e.base /\ m.end = r.end /\ m.allocUp = e.allocUp
      /\ m.allocDown = r.end
  BY DEF Merged, Region
<1> HIDE DEF m
<1>3. /\ RegionPages(e) \subseteq RegionPages(m) /\ RegionPages(r) \subseteq RegionPages(m)
  BY <1>1, <1>2 DEF RegionPages
<1>4. /\ AvailablePages(e) \subseteq AvailablePages(m)
      /\ AvailablePages(r) \subseteq AvailablePages(m)
  BY <1>1, <1>2 DEF AvailablePages
<1>5. m.allocUp <= m.end + 1
  BY <1>1, <1>2
<1> QED
  BY <1>2, <1>3, <1>4, <1>5 DEF m

----------------------------------------------------------------------------
(* What the three ways of adding descriptor d make: the entries count .. p *)
(* of t, which cover its pages above the low memory.                       *)
NewEntries(t, p, d) ==
  /\ t \in [0 .. TableSize -> Region] /\ Extends(t, table, count, p)
  /\ \A q \in {count, p} : /\ t[q].base <= t[q].end /\ t[q].allocDown = t[q].end
                           /\ t[q].allocUp <= t[q].end + 1 /\ t[q].end <= t[p].end
  /\ \A x \in Clamp(Base(d)) .. Top(d) : \E q \in {count, p} :
       /\ x \in RegionPages(t[q])
       /\ x >= boot.fap => x \in AvailablePages(t[q])
  /\ p = count + 1 => t[count].end = boot.fap - 1 /\ t[p].base = boot.fap

(* The last of them is recorded, if it is reserved memory to be kept.      *)
Indexed(t, p) ==
  \/ reservedIndices' = reservedIndices /\ reserved' \in {reserved, reserved + 1}
  \/ /\ reservedIndices' = Append(reservedIndices, p) /\ reserved' = reserved + 1
     /\ "KERN_RESERVED" \in t[p].attribute /\ AvailablePages(t[p]) # {}

Added(t, p) ==
  /\ phase = "scan" /\ i \in 1 .. Len(boot.map) /\ count < TableSize
  /\ NewEntries(t, p, boot.map[i]) /\ Indexed(t, p) /\ Account(t, p, t[p])
  /\ reserved' \in 0 .. MaxReserved
  /\ i' = i + 1 /\ UNCHANGED <<boot, phase, capVars>>

LEMMA AddBelowMakes ==
  ASSUME IInv, i \in 1 .. Len(boot.map), AddBelow(boot.map[i])
  PROVE  \E t, p : Added(t, p)
<1> DEFINE d    == boot.map[i]
           keep == KeptReserved(d)
           lo   == Clamp(Base(d))
           r    == IF keep THEN WholeRegion(lo, Top(d), d.attribute)
                           ELSE TakenRegion(lo, Top(d), d.attribute)
           t    == [table EXCEPT ![count] = r]
<1>1. Accepted(d) /\ Top(d) < boot.fap /\ Account(t, count, r)
      /\ reservedIndices' = IF keep THEN Append(reservedIndices, count)
                                    ELSE reservedIndices
  BY DEF AddBelow
<1>2. /\ phase = "scan" /\ count < TableSize
      /\ ~Empty(d) /\ ~NotForUse(d)
      /\ reserved' \in 0 .. MaxReserved
      /\ i' = i + 1 /\ UNCHANGED <<boot, phase, capVars>>
      /\ boot.fap \in Nat /\ LowMemReserved \in Nat \ {0} /\ MaxPpn \in Nat
      /\ count \in 0 .. TableSize /\ TableSize \in Nat
  BY <1>1, AcceptedFacts
<1>3. /\ d.attribute \in SUBSET EfiFlags
      /\ Base(d) \in 1 .. MaxPpn - 1 /\ Top(d) \in 1 .. MaxPpn - 1
      /\ Base(d) <= Top(d) /\ LowMemReserved <= Top(d)
  BY <1>2, AcceptedRange
<1>4. lo \in 1 .. MaxPpn - 1 /\ lo <= Top(d)
  BY <1>3, ClampRange, ConstantsAssumption
<1>5. /\ r \in Region /\ r.base = lo /\ r.end = Top(d) /\ r.allocDown = Top(d)
      /\ r.allocUp <= Top(d) + 1 /\ r.attribute = d.attribute
      /\ keep => r.allocUp = lo
  <2> HIDE DEF lo, keep, d
  <2> QED
    BY <1>2, <1>3, <1>4 DEF WholeRegion, TakenRegion, Region, Ppn
<1> HIDE DEF r, lo
<1>6. /\ t \in [0 .. TableSize -> Region] /\ t[count] = r
      /\ \A j \in 0 .. count - 1 : t[j] = table[j]
  BY <1>2, <1>5 DEF IInv, TypeOK
<1> HIDE DEF t
<1>7. NewEntries(t, count, d)
  <2>1. Extends(t, table, count, count)
    BY <1>2, <1>6 DEF Extends
  <2>2. \A x \in lo .. Top(d) : x \in RegionPages(t[count]) /\ ~ (x >= boot.fap)
    BY <1>1, <1>2, <1>3, <1>4, <1>5, <1>6 DEF RegionPages
  <2>3. count # count + 1
    BY <1>2
  <2>4. /\ t[count].base <= t[count].end /\ t[count].allocDown = t[count].end
        /\ t[count].allocUp <= t[count].end + 1 /\ t[count].end <= t[count].end
    BY <1>3, <1>4, <1>5, <1>6
  <2> QED
    BY <1>6, <2>1, <2>2, <2>3, <2>4 DEF NewEntries, lo
<1>8. Indexed(t, count)
  <2>1. reserved' = IF IsReserved(d) THEN reserved + 1 ELSE reserved
    BY <1>1 DEF Accepted
  <2>2. CASE ~ keep
    BY <1>1, <2>1, <2>2 DEF Indexed
  <2>3. CASE keep
    <3>1. IsReserved(d) /\ "KERN_RESERVED" \in d.attribute
      BY <2>3 DEF KeptReserved, IsReserved
    <3>2. lo \in AvailablePages(r)
      BY <1>3, <1>4, <1>5, <2>3 DEF AvailablePages
    <3> QED
      BY <1>1, <1>5, <1>6, <2>1, <2>3, <3>1, <3>2 DEF Indexed
  <2> QED
    BY <2>2, <2>3
<1>9. Account(t, count, t[count])
  BY <1>1, <1>6 DEF Account, Coalesces, Size
<1> QED
  BY <1>2, <1>7, <1>8, <1>9 DEF Added

LEMMA AddWholeMakes ==
  ASSUME IInv, i \in 1 .. Len(boot.map), AddWhole(boot.map[i])
  PROVE  \E t, p : Added(t, p)
<1> DEFINE d == boot.map[i]
           r == WholeRegion(Base(d), Top(d), d.attribute)
           t == [table EXCEPT ![count] = r]
<1>1. Accepted(d) /\ Account(t, count, r) /\ reservedIndices' = Recorded(d, count)
  BY DEF AddWhole
<1>2. /\ phase = "scan" /\ count < TableSize
      /\ ~Empty(d) /\ ~NotForUse(d)
      /\ reserved' \in 0 .. MaxReserved
      /\ i' = i + 1 /\ UNCHANGED <<boot, phase, capVars>>
      /\ boot.fap \in Nat /\ LowMemReserved \in Nat \ {0} /\ MaxPpn \in Nat
      /\ count \in 0 .. TableSize /\ TableSize \in Nat
  BY <1>1, AcceptedFacts
<1>3. /\ d.attribute \in SUBSET EfiFlags
      /\ Base(d) \in 1 .. MaxPpn - 1 /\ Top(d) \in 1 .. MaxPpn - 1
      /\ Base(d) <= Top(d) /\ LowMemReserved <= Top(d)
  BY <1>2, AcceptedRange
<1>4. Base(d) <= Clamp(Base(d)) /\ Clamp(Base(d)) \in 1 .. MaxPpn - 1
  BY <1>3, ClampRange, ConstantsAssumption
<1>5. /\ r \in Region /\ r.base = Base(d) /\ r.end = Top(d) /\ r.allocDown = Top(d)
      /\ r.allocUp = Base(d) /\ r.attribute = d.attribute
  <2> HIDE DEF d
  <2> QED
    BY <1>2, <1>3 DEF WholeRegion, Region, Ppn
<1> HIDE DEF r
<1>6. /\ t \in [0 .. TableSize -> Region] /\ t[count] = r
      /\ \A j \in 0 .. count - 1 : t[j] = table[j]
  BY <1>2, <1>5 DEF IInv, TypeOK
<1> HIDE DEF t
<1>7. NewEntries(t, count, d)
  <2>1. Extends(t, table, count, count)
    BY <1>2, <1>6 DEF Extends
  <2>2. \A x \in Clamp(Base(d)) .. Top(d) :
          x \in RegionPages(t[count]) /\ x \in AvailablePages(t[count])
    BY <1>3, <1>4, <1>5, <1>6 DEF RegionPages, AvailablePages
  <2>3. count # count + 1
    BY <1>2
  <2>4. /\ t[count].base <= t[count].end /\ t[count].allocDown = t[count].end
        /\ t[count].allocUp <= t[count].end + 1 /\ t[count].end <= t[count].end
    BY <1>3, <1>5, <1>6
  <2> QED
    BY <1>6, <2>1, <2>2, <2>3, <2>4 DEF NewEntries
<1>8. Indexed(t, count)
  <2>1. reserved' = IF IsReserved(d) THEN reserved + 1 ELSE reserved
    BY <1>1 DEF Accepted
  <2>2. Base(d) \in AvailablePages(r)
    BY <1>3, <1>5 DEF AvailablePages
  <2> QED
    BY <1>1, <1>5, <1>6, <2>1, <2>2 DEF Indexed, Recorded, IsReserved
<1>9. Account(t, count, t[count])
  BY <1>1, <1>6 DEF Account, Coalesces, Size
<1> QED
  BY <1>2, <1>7, <1>8, <1>9 DEF Added

LEMMA AddSpanningMakes ==
  ASSUME IInv, i \in 1 .. Len(boot.map), AddSpanning(boot.map[i])
  PROVE  \E t, p : Added(t, p)
<1> DEFINE d == boot.map[i]
           q == LowerPart(d)
           r == UpperPart(d)
           t == [table EXCEPT ![count] = q, ![count + 1] = r]
           p == count + 1
<1>1. Accepted(d) /\ Spans(d) /\ Account(t, p, r)
      /\ reservedIndices' = Recorded(d, p)
  BY DEF AddSpanning
<1>2. /\ phase = "scan" /\ count < TableSize
      /\ ~Empty(d) /\ ~NotForUse(d)
      /\ reserved' \in 0 .. MaxReserved
      /\ i' = i + 1 /\ UNCHANGED <<boot, phase, capVars>>
      /\ boot.fap \in Nat /\ LowMemReserved \in Nat \ {0} /\ MaxPpn \in Nat
      /\ count \in 0 .. TableSize /\ TableSize \in Nat
  BY <1>1, AcceptedFacts
<1>3. /\ d.attribute \in SUBSET EfiFlags
      /\ Base(d) \in 1 .. MaxPpn - 1 /\ Top(d) \in 1 .. MaxPpn - 1
      /\ Base(d) <= Top(d) /\ LowMemReserved <= Top(d)
  BY <1>2, AcceptedRange
<1>4. Base(d) <= Clamp(Base(d)) /\ Clamp(Base(d)) \in 1 .. MaxPpn - 1
  BY <1>3, ClampRange, ConstantsAssumption
<1>5. Base(d) < boot.fap /\ boot.fap < Top(d)
  BY <1>1 DEF Spans
<1>6. /\ q \in Region /\ q.base = Base(d) /\ q.end = boot.fap - 1
      /\ q.allocDown = boot.fap - 1 /\ q.allocUp = boot.fap
      /\ r \in Region /\ r.base = boot.fap /\ r.end = Top(d) /\ r.allocDown = Top(d)
      /\ r.allocUp = boot.fap /\ r.attribute = d.attribute
  <2> HIDE DEF d
  <2>1. boot.fap \in 0 .. MaxPpn - 1 /\ boot.fap - 1 \in 0 .. MaxPpn - 1
        /\ boot.fap \in Ppn /\ boot.fap - 1 \in Ppn /\ Base(d) \in Ppn /\ Top(d) \in Ppn
    BY <1>2, <1>3, <1>5 DEF Ppn
  <2>2. q = TakenRegion(Base(d), boot.fap - 1, d.attribute)
    BY DEF LowerPart
  <2>3. r = WholeRegion(boot.fap, Top(d), d.attribute)
    BY DEF UpperPart
  <2> HIDE DEF q, r
  <2>4. /\ q \in Region /\ q.base = Base(d) /\ q.end = boot.fap - 1
        /\ q.allocDown = boot.fap - 1 /\ q.allocUp = boot.fap
    <3>1. boot.fap - 1 + 1 = boot.fap
      BY <1>2
    <3> QED
      BY <1>3, <2>1, <2>2, <3>1 DEF TakenRegion, Region
  <2>5. /\ r \in Region /\ r.base = boot.fap /\ r.end = Top(d) /\ r.allocDown = Top(d)
        /\ r.allocUp = boot.fap /\ r.attribute = d.attribute
    BY <1>3, <2>1, <2>3 DEF WholeRegion, Region
  <2> QED
    BY <2>4, <2>5
<1> HIDE DEF q, r
<1>7. /\ t \in [0 .. TableSize -> Region] /\ t[count] = q /\ t[p] = r
      /\ \A j \in 0 .. count - 1 : t[j] = table[j]
  <2>0. table \in [0 .. TableSize -> Region]
    BY DEF IInv, TypeOK
  <2>1. p \in 0 .. TableSize /\ count # p
    BY <1>2
  <2>2. q \in Region /\ r \in Region
    BY <1>6
  <2>3. \A j \in 0 .. count - 1 : j # count /\ j # p /\ j \in 0 .. TableSize
    BY <1>2
  <2>4. count \in 0 .. TableSize
    BY <1>2
  <2> DEFINE lower == [table EXCEPT ![count] = q]
  <2>5. lower \in [0 .. TableSize -> Region] /\ lower[count] = q
        /\ \A j \in 0 .. count - 1 : lower[j] = table[j]
    BY <2>0, <2>2, <2>3, <2>4
  <2>6. t = [lower EXCEPT ![p] = r]
    OBVIOUS
  <2> HIDE DEF lower, t, p
  <2> QED
    BY <2>1, <2>2, <2>3, <2>4, <2>5, <2>6
<1> HIDE DEF t
<1>8. NewEntries(t, p, d)
  <2>1. Extends(t, table, count, p)
    <3>1. \A j \in 0 .. p : j \in 0 .. TableSize
      BY <1>2
    <3> QED
      BY <1>2, <1>7, <3>1 DEF Extends
  <2>2. ASSUME NEW x \in Clamp(Base(d)) .. Top(d)
        PROVE  \E m \in {count, p} : /\ x \in RegionPages(t[m])
                                     /\ x >= boot.fap => x \in AvailablePages(t[m])
    <3>0. /\ x \in Int /\ Base(d) \in Int /\ Top(d) \in Int /\ boot.fap \in Int
          /\ Base(d) <= x /\ x <= Top(d)
      BY <1>2, <1>3, <1>4
    <3>1. CASE x >= boot.fap
      <4>1. /\ t[p].base = boot.fap /\ t[p].end = Top(d)
            /\ t[p].allocUp = boot.fap /\ t[p].allocDown = Top(d)
        BY <1>6, <1>7
      <4>2. x \in RegionPages(t[p]) /\ x \in AvailablePages(t[p])
        <5> HIDE DEF d, t, p
        <5> QED
          BY <3>0, <3>1, <4>1 DEF RegionPages, AvailablePages
      <4> QED
        BY <4>2
    <3>2. CASE ~ (x >= boot.fap)
      <4>0. t[count].base = Base(d) /\ t[count].end = boot.fap - 1
        BY <1>6, <1>7
      <4>1. x \in RegionPages(t[count])
        <5> HIDE DEF d, t, p
        <5> QED
          BY <3>0, <3>2, <4>0 DEF RegionPages
      <4> QED
        BY <3>2, <4>1
    <3> QED
      BY <3>1, <3>2
  <2>3. \A m \in {count, p} : /\ t[m].base <= t[m].end /\ t[m].allocDown = t[m].end
                              /\ t[m].allocUp <= t[m].end + 1 /\ t[m].end <= t[p].end
    <3>1. /\ q.base <= q.end /\ q.allocDown = q.end /\ q.allocUp <= q.end + 1
          /\ q.end <= r.end
      BY <1>2, <1>3, <1>5, <1>6
    <3>2. /\ r.base <= r.end /\ r.allocDown = r.end /\ r.allocUp <= r.end + 1
          /\ r.end <= r.end
      BY <1>2, <1>3, <1>5, <1>6
    <3> QED
      BY <1>7, <3>1, <3>2
  <2>4. t[count].end = boot.fap - 1 /\ t[p].base = boot.fap
    BY <1>6, <1>7
  <2> QED
    BY <1>7, <2>1, <2>2, <2>3, <2>4 DEF NewEntries
<1>9. Indexed(t, p)
  <2>1. reserved' = IF IsReserved(d) THEN reserved + 1 ELSE reserved
    BY <1>1 DEF Accepted
  <2>2. boot.fap \in AvailablePages(r)
    BY <1>2, <1>3, <1>5, <1>6 DEF AvailablePages
  <2> QED
    BY <1>1, <1>6, <1>7, <2>1, <2>2 DEF Indexed, Recorded, IsReserved
<1>10. Account(t, p, t[p])
  BY <1>1, <1>7 DEF Account, Coalesces, Size
<1> QED
  BY <1>2, <1>8, <1>9, <1>10 DEF Added

(* Account stores the entries or merges the last of them; either way none  *)
(* loses a page, and an entry of reserved memory stays as it is.           *)
Outcome(t, p) ==
  /\ \A j \in 0 .. p : \E m \in Regions' :
       /\ RegionPages(t[j]) \subseteq RegionPages(table'[m])
       /\ AvailablePages(t[j]) \subseteq AvailablePages(table'[m])
  /\ \A m \in Regions' : table'[m].allocUp <= table'[m].end + 1 /\ table'[m].end <= availEnd'
  /\ \A j \in 0 .. p : "KERN_RESERVED" \in t[j].attribute => j \in Regions' /\ table'[j] = t[j]
  /\ \E s : Sums(s, table', count') /\ s[count'] >= availRemaining'
  /\ count' > TableSize => table' = t /\ p = count + 1 /\ p = TableSize

LEMMA AddedFacts ==
  ASSUME IInv, KInv, NEW t, NEW p, Added(t, p)
  PROVE  /\ count \in Nat /\ TableSize \in Nat /\ count < TableSize
         /\ p \in {count, count + 1} /\ p \in 0 .. TableSize
         /\ \A j \in 0 .. p : /\ t[j] \in Region /\ t[j].base <= t[j].end
                              /\ t[j].base \in Nat /\ t[j].end \in Nat
                              /\ t[j].allocDown = t[j].end
                              /\ t[j].allocUp <= t[j].end + 1 /\ t[j].end <= availEnd'
         /\ \A j \in 0 .. count - 1 : t[j] = table[j]
         /\ availRemaining' = availRemaining + Size(t[p]) /\ availRemaining \in Nat
<1> USE DEF Added, NewEntries
<1>1. /\ count \in Nat /\ TableSize \in Nat /\ count < TableSize
      /\ p \in {count, count + 1} /\ p \in 0 .. TableSize /\ availRemaining \in Nat
      /\ availEnd \in Nat
  BY ConstantsAssumption DEF IInv, TypeOK, Extends
<1>2. \A j \in 0 .. count - 1 : t[j] = table[j] /\ j \in Regions
  BY DEF Extends, Regions
<1>3. \A j \in 0 .. p : t[j] \in Region
  BY DEF Extends
<1>4. /\ availEnd' = IF t[p].end > availEnd THEN t[p].end ELSE availEnd
      /\ availRemaining' = availRemaining + Size(t[p])
  BY DEF Account
<1>5. t[p].end \in Nat
  BY <1>1, <1>3, RegionNat
<1>6. availEnd <= availEnd' /\ t[p].end <= availEnd' /\ availEnd' \in Nat
  BY <1>1, <1>4, <1>5
<1>a. \A j \in {count, p} : /\ t[j].base <= t[j].end /\ t[j].allocDown = t[j].end
                            /\ t[j].allocUp <= t[j].end + 1 /\ t[j].end <= t[p].end
  OBVIOUS
<1>b. phase = "scan" => \A j \in Regions :
        table[j].allocUp <= table[j].end + 1 /\ table[j].end <= availEnd
  BY DEF KInv, EntriesSeen
<1>c. phase = "scan"
  OBVIOUS
<1> HIDE DEF Added, NewEntries
<1>7. ASSUME NEW j \in 0 .. p
      PROVE  /\ t[j].base <= t[j].end /\ t[j].allocDown = t[j].end
             /\ t[j].allocUp <= t[j].end + 1 /\ t[j].end <= availEnd'
  <2>1. t[j].end \in Nat
    BY <1>3, RegionNat
  <2>2. CASE j \in 0 .. count - 1
    <3>1. Sound(table[j], Usables, boot) /\ t[j] = table[j] /\ j \in Regions
      BY <1>2, <2>2 DEF IInv, RegionsSound
    <3>2. table[j].allocUp <= table[j].end + 1 /\ table[j].end <= availEnd
      BY <1>b, <1>c, <3>1
    <3> QED
      BY <1>1, <1>6, <2>1, <3>1, <3>2 DEF Sound
  <2>3. CASE j \in {count, p}
    <3>1. t[j].end <= t[p].end
      BY <1>a, <2>3
    <3>2. t[j].end <= availEnd'
      BY <1>5, <1>6, <2>1, <3>1
    <3> QED
      BY <1>a, <2>3, <3>2
  <2> QED
    BY <1>1, <2>2, <2>3
<1>8. \A j \in 0 .. p : t[j].base \in Nat /\ t[j].end \in Nat
  BY <1>3, RegionNat
<1> QED
  BY <1>1, <1>2, <1>3, <1>4, <1>7, <1>8

(* The sums over the entries 0 .. p of t.                                  *)
LEMMA AddedSums ==
  ASSUME IInv, KInv, NEW t, NEW p, Added(t, p)
  PROVE  \E u : Sums(u, t, p + 1) /\ u[p + 1] >= availRemaining'
                /\ u[p + 1] = u[p] + Size(t[p])
<1>0. /\ count \in Nat /\ TableSize \in Nat /\ count < TableSize
      /\ p \in {count, count + 1} /\ p \in 0 .. TableSize
      /\ \A j \in 0 .. p : /\ t[j] \in Region /\ t[j].base <= t[j].end
                           /\ t[j].base \in Nat /\ t[j].end \in Nat
                           /\ t[j].allocDown = t[j].end
                           /\ t[j].allocUp <= t[j].end + 1 /\ t[j].end <= availEnd'
      /\ \A j \in 0 .. count - 1 : t[j] = table[j]
      /\ availRemaining' = availRemaining + Size(t[p]) /\ availRemaining \in Nat
  BY AddedFacts
<1> USE <1>0
<1>1. PICK s : Sums(s, table, count) /\ s[count] >= availRemaining
  BY DEF Added, KInv, ScanCounted
<1>2. PICK v : Sums(v, t, count) /\ \A k \in 0 .. count : v[k] = s[k]
  <2>1. SameSizes(table, t, count)
    BY DEF SameSizes
  <2>2. count \in Nat /\ count \in 0 .. count
    OBVIOUS
  <2> QED
    BY ONLY <1>1, <2>1, <2>2, SumsPrefix
<1>3. PICK w : Sums(w, t, p) /\ w[p] >= availRemaining /\ w[p] \in Nat
  <2>1. CASE p = count
    BY <1>1, <1>2, <2>1 DEF Sums
  <2>2. CASE p = count + 1
    <3>1. count \in 0 .. p
      BY <2>2
    <3>2. t[count].base \in Nat /\ t[count].end \in Nat /\ t[count].base <= t[count].end
      BY <3>1
    <3>3. PICK u : /\ Sums(u, t, count + 1) /\ u[count + 1] = v[count] + Size(t[count])
                   /\ \A k \in 0 .. count : u[k] = v[k]
      BY <1>2, <3>2, SumsExtend
    <3>4. Size(t[count]) \in Nat
      BY <3>2 DEF Size
    <3>5. v[count] \in Nat /\ v[count] >= availRemaining
      BY <1>1, <1>2 DEF Sums
    <3> QED
      BY <2>2, <3>3, <3>4, <3>5
  <2> QED
    BY <2>1, <2>2
<1>4. p \in Nat /\ p \in 0 .. p
  OBVIOUS
<1>5. t[p].base \in Nat /\ t[p].end \in Nat /\ t[p].base <= t[p].end
  BY <1>4
<1>6. PICK u : /\ Sums(u, t, p + 1) /\ u[p + 1] = w[p] + Size(t[p])
               /\ \A k \in 0 .. p : u[k] = w[k]
  BY <1>3, <1>4, <1>5, SumsExtend
<1>7. Size(t[p]) \in Nat
  BY <1>5 DEF Size
<1>8. u[p + 1] >= availRemaining' /\ u[p + 1] = u[p] + Size(t[p])
  BY <1>3, <1>4, <1>6, <1>7
<1> QED
  BY <1>6, <1>8

LEMMA StoredOutcome ==
  ASSUME IInv, KInv, NEW t, NEW p, Added(t, p), ~Coalesces(t, t[p])
  PROVE  Outcome(t, p)
<1>0. /\ count \in Nat /\ TableSize \in Nat /\ count < TableSize
      /\ p \in {count, count + 1} /\ p \in 0 .. TableSize
      /\ \A j \in 0 .. p : /\ t[j] \in Region /\ t[j].base <= t[j].end
                           /\ t[j].base \in Nat /\ t[j].end \in Nat
                           /\ t[j].allocDown = t[j].end
                           /\ t[j].allocUp <= t[j].end + 1 /\ t[j].end <= availEnd'
      /\ \A j \in 0 .. count - 1 : t[j] = table[j]
      /\ availRemaining' = availRemaining + Size(t[p]) /\ availRemaining \in Nat
  BY AddedFacts
<1> USE <1>0
<1>1. table' = t /\ count' = p + 1
  BY DEF Added, Account
<1>2. Regions' = 0 .. p
  BY <1>1 DEF Regions
<1>3. \E s : Sums(s, table', count') /\ s[count'] >= availRemaining'
  BY <1>1, AddedSums
<1>4. count' > TableSize => p = count + 1 /\ p = TableSize
  BY <1>1
<1> QED
  BY <1>1, <1>2, <1>3, <1>4 DEF Outcome

(* A new entry can be merged only if it is the only one: the lower part of *)
(* a range that spans first_avail lies between it and the entry before.    *)
LEMMA MergedOutcome ==
  ASSUME IInv, IInv', KInv, NEW t, NEW p, Added(t, p), Coalesces(t, t[p])
  PROVE  Outcome(t, p)
<1>0. /\ count \in Nat /\ TableSize \in Nat /\ count < TableSize
      /\ p \in {count, count + 1} /\ p \in 0 .. TableSize
      /\ \A j \in 0 .. p : /\ t[j] \in Region /\ t[j].base <= t[j].end
                           /\ t[j].base \in Nat /\ t[j].end \in Nat
                           /\ t[j].allocDown = t[j].end
                           /\ t[j].allocUp <= t[j].end + 1 /\ t[j].end <= availEnd'
      /\ \A j \in 0 .. count - 1 : t[j] = table[j]
      /\ availRemaining' = availRemaining + Size(t[p]) /\ availRemaining \in Nat
  BY AddedFacts
<1> USE <1>0
<1>1. prev = count - 1 /\ prev \in 0 .. count - 1 /\ count # 0
  <2>1. prev # -1 /\ phase = "scan" /\ prev \in -1 .. TableSize
    BY DEF IInv, TypeOK, Coalesces, NoPrev, Added
  <2>2. prev = count - 1
    BY <2>1 DEF IInv, PrevIsLast, NoPrev
  <2> QED
    BY <2>1, <2>2
<1>2. /\ t[p].attribute = t[prev].attribute
      /\ "KERN_RESERVED" \notin t[p].attribute
      /\ t[p].base = t[p].allocUp /\ t[p].base = t[prev].end + 1
  BY DEF Coalesces
<1> DEFINE e == t[prev]
           r == t[p]
           m == Merged(e, r)
<1>3. /\ table' = [t EXCEPT ![prev] = m] /\ count' = p
      /\ t \in [0 .. TableSize -> Region] /\ prev \in 0 .. TableSize
      /\ prev \in 0 .. p /\ p \in 0 .. p
  <2>1. t \in [0 .. TableSize -> Region] /\ Account(t, p, t[p])
    BY DEF Added, NewEntries
  <2>2. table' = [t EXCEPT ![prev] = m] /\ count' = p
    BY <2>1 DEF Account, Merged
  <2>3. prev \in 0 .. TableSize /\ prev \in 0 .. p /\ p \in 0 .. p
    BY <1>1
  <2> QED
    BY <2>1, <2>2, <2>3
<1>4. /\ e \in Region /\ e.base <= e.end /\ e.allocDown = e.end /\ e.allocUp <= e.end + 1
      /\ e.base \in Nat /\ e.end \in Nat
      /\ r \in Region /\ r.base <= r.end /\ r.allocDown = r.end
      /\ r.base \in Nat /\ r.end \in Nat /\ r.end <= availEnd'
      /\ r.base = r.allocUp /\ r.base = e.end + 1
  BY <1>2, <1>3
<1> HIDE DEF e, r
<1>5. /\ m.base = e.base /\ m.end = r.end /\ m.allocUp <= m.end + 1
      /\ RegionPages(e) \subseteq RegionPages(m) /\ RegionPages(r) \subseteq RegionPages(m)
      /\ AvailablePages(e) \subseteq AvailablePages(m)
      /\ AvailablePages(r) \subseteq AvailablePages(m)
  BY <1>4, MergedCovers
<1> HIDE DEF m
<1>6. table'[prev] = m /\ \A j \in 0 .. p : j # prev => table'[j] = t[j]
  BY <1>3
<1>7. p = count
  <2> SUFFICES ASSUME p = count + 1 PROVE FALSE
    OBVIOUS
  <2>1. count \in Regions' /\ prev \in Regions' /\ prev # count
    BY <1>1, <1>3 DEF Regions
  <2>2. /\ t[count].end = boot.fap - 1 /\ r.base = boot.fap /\ boot.fap \in Nat
        /\ t[count].base <= t[count].end /\ t[count].end \in Nat /\ t[count].base \in Nat
    <3>1. t[count].end = boot.fap - 1 /\ t[p].base = boot.fap
      BY DEF Added, NewEntries
    <3>2. boot.fap \in Nat
      BY DEF IInv, TypeOK, ValidBoot
    <3>3. count \in 0 .. p
      OBVIOUS
    <3> QED
      BY <3>1, <3>2, <3>3 DEF r
  <2>3. table'[count] = t[count]
    BY <1>1, <1>6
  <2>4. m.end < t[count].base \/ t[count].end < m.base
    BY <1>6, <2>1, <2>3 DEF IInv, RegionsDisjoint
  <2> QED
    BY <1>4, <1>5, <2>2, <2>4
<1>8. Regions' = 0 .. count - 1 /\ prev \in Regions'
  BY <1>1, <1>3, <1>7 DEF Regions
<1>9. \A j \in 0 .. p : j \in Regions' \/ j = p
  BY <1>7, <1>8
<1>10. \A j \in 0 .. p : \E n \in Regions' :
         /\ RegionPages(t[j]) \subseteq RegionPages(table'[n])
         /\ AvailablePages(t[j]) \subseteq AvailablePages(table'[n])
  BY <1>5, <1>6, <1>8, <1>9 DEF e, r
<1>11. \A n \in Regions' : table'[n].allocUp <= table'[n].end + 1
                           /\ table'[n].end <= availEnd'
  <2> TAKE n \in Regions'
  <2>1. CASE n = prev
    BY <1>4, <1>5, <1>6, <2>1
  <2>2. CASE n # prev
    BY <1>6, <1>7, <1>8, <2>2
  <2> QED
    BY <2>1, <2>2
<1>12. \A j \in 0 .. p : "KERN_RESERVED" \in t[j].attribute =>
         j \in Regions' /\ table'[j] = t[j]
  BY <1>2, <1>6, <1>9
<1>13. \E s : Sums(s, table', count') /\ s[count'] >= availRemaining'
  <2>1. PICK u : Sums(u, t, p + 1) /\ u[p + 1] >= availRemaining'
                 /\ u[p + 1] = u[p] + Size(r)
    BY AddedSums DEF r
  <2>2. p \in 1 .. p + 1 /\ p - 1 = prev /\ u[p] = u[prev] + Size(e) /\ u[prev] \in Nat
    BY <1>1, <1>7, <2>1 DEF Sums, PageSums, e
  <2>3. PICK v : Sums(v, table', prev) /\ \A k \in 0 .. prev : v[k] = u[k]
    <3>1. prev \in 0 .. p + 1 /\ p + 1 \in Nat
      BY <1>1, <1>7
    <3>2. SameSizes(t, table', prev)
      <4>1. \A k \in 0 .. prev - 1 : table'[k] = t[k]
        BY <1>1, <1>6, <1>7
      <4> QED
        BY <4>1 DEF SameSizes
    <3>3. Sums(u, t, p + 1)
      BY <2>1
    <3> QED
      BY ONLY <3>1, <3>2, <3>3, SumsPrefix
  <2>4. prev \in Nat /\ prev + 1 = count /\ table'[prev].base = e.base
        /\ table'[prev].end = r.end
    BY <1>1, <1>5, <1>6
  <2>5. PICK w : Sums(w, table', prev + 1) /\ w[prev + 1] = v[prev] + Size(table'[prev])
    <3>1. table'[prev].base \in Nat /\ table'[prev].end \in Nat
          /\ table'[prev].base <= table'[prev].end
      BY <1>4, <2>4
    <3> QED
      BY <2>3, <2>4, <3>1, SumsExtend
  <2>6. v[prev] = u[prev]
    BY <2>3, <2>4
  <2>7. w[prev + 1] >= availRemaining'
    <3>1. availRemaining' \in Nat
      BY DEF IInv, TypeOK
    <3> QED
      BY <1>4, <2>1, <2>2, <2>4, <2>5, <2>6, <3>1 DEF Size
  <2> QED
    BY <1>3, <1>7, <2>4, <2>5, <2>7
<1>14. ~ (count' > TableSize)
  BY <1>3, <1>7
<1> QED
  BY <1>10, <1>11, <1>12, <1>13, <1>14 DEF Outcome

LEMMA UsablesBound ==
  ASSUME TypeOK, i \in 1 .. Len(boot.map), i' = i + 1, boot' = boot
  PROVE  Usables' \subseteq Usables \cup {i}
BY DEF TypeOK, Usables, Scanned, Empty, NotForUse, Top, Base, LastPage

LEMMA AddedKeeps ==
  ASSUME IInv, IInv', KInv, NEW t, NEW p, Added(t, p)
  PROVE  KInv'
<1>1. Outcome(t, p)
  BY StoredOutcome, MergedOutcome
<1>2. /\ count \in Nat /\ TableSize \in Nat /\ p \in {count, count + 1}
      /\ \A j \in 0 .. count - 1 : t[j] = table[j]
  BY AddedFacts
<1>3. phase = "scan" /\ phase' = "scan" /\ boot' = boot /\ i' = i + 1
      /\ i \in 1 .. Len(boot.map) /\ curRegion' = curRegion /\ highestPn' = highestPn
      /\ reserved' \in 0 .. MaxReserved /\ reserved \in Nat /\ MaxReserved \in Nat
      /\ NewEntries(t, p, boot.map[i]) /\ Indexed(t, p)
  BY ConstantsAssumption DEF Added, capVars, IInv, TypeOK
<1>4. EntriesSeen'
  BY <1>1 DEF Outcome, EntriesSeen
<1>5. UsablePagesKept'
  <2> SUFFICES ASSUME NEW k \in Usables',
                      NEW x \in Clamp(Base(boot.map[k])) .. Top(boot.map[k])
               PROVE  \E m \in Regions' : /\ x \in RegionPages(table'[m])
                                          /\ x >= boot.fap => x \in AvailablePages(table'[m])
    BY <1>3 DEF UsablePagesKept, Clamp, Base, Top, LastPage
  <2>1. \E j \in 0 .. p : /\ x \in RegionPages(t[j])
                          /\ x >= boot.fap => x \in AvailablePages(t[j])
    <3>1. CASE k \in Usables
      <4>1. PICK j \in Regions : /\ x \in RegionPages(table[j])
                                 /\ x >= boot.fap => x \in AvailablePages(table[j])
        BY <1>3, <3>1 DEF KInv, UsablePagesKept
      <4>2. j \in 0 .. p /\ t[j] = table[j]
        BY <1>2 DEF Regions
      <4> QED
        BY <4>1, <4>2
    <3>2. CASE k = i
      <4>1. PICK q \in {count, p} : /\ x \in RegionPages(t[q])
                                    /\ x >= boot.fap => x \in AvailablePages(t[q])
        BY <1>3, <3>2 DEF NewEntries
      <4>2. q \in 0 .. p
        BY <1>2
      <4> QED
        BY <4>1, <4>2
    <3>3. Usables' \subseteq Usables \cup {i}
      BY <1>3, UsablesBound DEF IInv
    <3> QED
      BY <3>1, <3>2, <3>3
  <2>2. PICK j \in 0 .. p : /\ x \in RegionPages(t[j])
                            /\ x >= boot.fap => x \in AvailablePages(t[j])
    BY <2>1
  <2>3. PICK m \in Regions' : /\ RegionPages(t[j]) \subseteq RegionPages(table'[m])
                              /\ AvailablePages(t[j]) \subseteq AvailablePages(table'[m])
    BY <1>1 DEF Outcome
  <2> QED
    BY <2>2, <2>3
<1>6. IndicesCounted'
  <2> DEFINE Right(T, q) == /\ q \in Regions' /\ "KERN_RESERVED" \in T[q].attribute
                            /\ AvailablePages(T[q]) # {}
  <2>1. /\ reservedIndices \in Seq(0 .. TableSize) /\ Len(reservedIndices) \in Nat
        /\ Len(reservedIndices) <= reserved
        /\ \A k \in 1 .. Len(reservedIndices) :
             /\ reservedIndices[k] \in Regions
             /\ "KERN_RESERVED" \in table[reservedIndices[k]].attribute
             /\ AvailablePages(table[reservedIndices[k]]) # {}
    <3>1. reservedIndices \in Seq(0 .. TableSize)
      BY DEF IInv, TypeOK
    <3>2. ReservedIndicesValid /\ Len(reservedIndices) <= reserved
      BY <1>3 DEF KInv, IndicesCounted
    <3> QED
      BY <1>3, <3>1, <3>2 DEF ReservedIndicesValid
  <2>2. \A j \in 0 .. p : "KERN_RESERVED" \in t[j].attribute /\ AvailablePages(t[j]) # {}
                          => Right(table', j)
    BY <1>1 DEF Outcome
  <2>3. \A k \in 1 .. Len(reservedIndices) : Right(table', reservedIndices[k])
    <3> TAKE k \in 1 .. Len(reservedIndices)
    <3>1. reservedIndices[k] \in 0 .. p /\ t[reservedIndices[k]] = table[reservedIndices[k]]
      BY <1>2, <2>1 DEF Regions
    <3> QED
      BY <2>1, <2>2, <3>1
  <2> HIDE DEF Right
  <2>4. Len(reservedIndices') <= reserved' /\ Len(reservedIndices') \in Nat
        /\ \A k \in 1 .. Len(reservedIndices') : Right(table', reservedIndices'[k])
    <3>1. CASE reservedIndices' = reservedIndices /\ reserved' \in {reserved, reserved + 1}
      BY <1>3, <2>1, <2>3, <3>1
    <3>2. CASE /\ reservedIndices' = Append(reservedIndices, p) /\ reserved' = reserved + 1
               /\ "KERN_RESERVED" \in t[p].attribute /\ AvailablePages(t[p]) # {}
      <4>1. Right(table', p)
        BY <1>2, <2>2, <3>2
      <4>2. Len(reservedIndices') = Len(reservedIndices) + 1
            /\ \A k \in 1 .. Len(reservedIndices') :
                 reservedIndices'[k] = IF k <= Len(reservedIndices) THEN reservedIndices[k] ELSE p
        BY <2>1, <3>2
      <4> QED
        BY <1>3, <2>1, <2>3, <3>2, <4>1, <4>2
    <3> QED
      BY <1>3, <3>1, <3>2 DEF Indexed
  <2>5. Len(reservedIndices') <= MaxReserved
    BY <1>3, <2>4
  <2> QED
    BY <2>4, <2>5 DEF IndicesCounted, ReservedIndicesValid, Right
<1>7. OverrunOnlyBySpanning'
  <2> SUFFICES ASSUME count' > TableSize
               PROVE  table'[TableSize].base = boot.fap
                      /\ table'[TableSize - 1].end = boot.fap - 1
    BY <1>3 DEF OverrunOnlyBySpanning
  <2>1. table' = t /\ p = count + 1 /\ p = TableSize
    BY <1>1 DEF Outcome
  <2>2. t[count].end = boot.fap - 1 /\ t[p].base = boot.fap
    BY <1>3, <2>1 DEF NewEntries
  <2>3. count = TableSize - 1
    BY <1>2, <2>1
  <2> QED
    BY <2>1, <2>2, <2>3
<1>8. ScanCounted'
  BY <1>1, <1>3 DEF Outcome, ScanCounted, KInv
<1>9. CapCounted'
  BY <1>3 DEF CapCounted
<1>10. AvailEndRight'
  BY <1>1, <1>3 DEF Outcome, AvailEndRight, AvailEndCovers, CapExact
<1> QED
  BY <1>4, <1>5, <1>6, <1>7, <1>8, <1>9, <1>10 DEF KInv

----------------------------------------------------------------------------
LEMMA KeptInitially == Init => KInv
<1> SUFFICES ASSUME Init PROVE KInv
  OBVIOUS
<1> USE DEF Init
<1>1. Regions = {} /\ Usables = {} /\ TableSize \in Nat \ {0} /\ MaxReserved \in Nat
  BY ConstantsAssumption DEF Regions, Usables, Scanned
<1>2. EntriesSeen /\ UsablePagesKept /\ CapCounted
  BY <1>1 DEF EntriesSeen, UsablePagesKept, CapCounted
<1>3. IndicesCounted
  BY <1>1 DEF IndicesCounted, ReservedIndicesValid
<1>4. OverrunOnlyBySpanning
  BY <1>1 DEF OverrunOnlyBySpanning
<1>5. ScanCounted
  <2> DEFINE s == [k \in 0 .. 0 |-> 0]
  <2>1. s \in [0 .. 0 -> Nat] /\ s[0] = 0
    OBVIOUS
  <2>2. Sums(s, table, count) /\ s[count] >= availRemaining
    BY <2>1 DEF Sums, PageSums
  <2> QED
    BY <2>2 DEF ScanCounted
<1>6. AvailEndRight
  BY <1>1 DEF AvailEndRight, AvailEndCovers, CapExact
<1> QED
  BY <1>2, <1>3, <1>4, <1>5, <1>6 DEF KInv

(* A descriptor that is passed over: its pages are none of the usable.     *)
LEMMA SkipKeeps ==
  ASSUME IInv, KInv, i \in 1 .. Len(boot.map), i' = i + 1,
         phase = "scan",
         \/ phase' = "scan" /\ (Empty(boot.map[i]) \/ NotForUse(boot.map[i]))
         \/ phase' = "panic",
         phase' = "scan" => reserved' = reserved,
         UNCHANGED <<boot, table, count, reservedIndices, availEnd,
                     availRemaining, capVars>>
  PROVE  KInv'
<1>1. Regions' = Regions /\ curRegion' = curRegion /\ highestPn' = highestPn
  BY DEF Regions, capVars
<1>2. EntriesSeen'
  BY <1>1 DEF KInv, EntriesSeen
<1>3. UsablePagesKept'
  <2> SUFFICES ASSUME phase' = "scan" PROVE UsablePagesKept'
    BY DEF UsablePagesKept
  <2>1. Usables' = Usables
    BY DEF IInv, TypeOK, Usables, Scanned, Empty, NotForUse, Top, Base, LastPage
  <2> QED
    BY <1>1, <2>1 DEF KInv, UsablePagesKept, Clamp, Base, Top, LastPage
<1>4. IndicesCounted'
  BY <1>1 DEF KInv, IndicesCounted, ReservedIndicesValid
<1>5. OverrunOnlyBySpanning'
  BY DEF KInv, OverrunOnlyBySpanning
<1>6. ScanCounted'
  BY <1>1 DEF KInv, ScanCounted, Sums, PageSums
<1>7. CapCounted'
  BY DEF CapCounted
<1>8. AvailEndRight'
  BY <1>1 DEF KInv, AvailEndRight, AvailEndCovers, CapExact, Capped, MaxMem
<1> QED
  BY <1>2, <1>3, <1>4, <1>5, <1>6, <1>7, <1>8 DEF KInv

LEMMA LeaveScanKeeps ==
  ASSUME IInv, IInv', KInv, LeaveScan
  PROVE  KInv'
<1>1. /\ phase = "scan" /\ phase' \in {"cap", "done"} /\ boot' = boot /\ table' = table
      /\ count' = count /\ reservedIndices' = reservedIndices /\ availEnd' = availEnd
      /\ curRegion' = 0 /\ Regions' = Regions
      /\ Capped' = Capped /\ (phase' = "cap" <=> Capped)
  BY DEF LeaveScan, KInv, ScanCounted, Regions, Capped, MaxMem
<1>2. EntriesSeen' /\ UsablePagesKept' /\ ScanCounted'
  BY <1>1 DEF EntriesSeen, UsablePagesKept, ScanCounted
<1>3. IndicesCounted'
  BY <1>1 DEF KInv, IndicesCounted, ReservedIndicesValid
<1>4. OverrunOnlyBySpanning'
  BY <1>1 DEF KInv, OverrunOnlyBySpanning
<1>5. CapCounted'
  <2> SUFFICES ASSUME phase' = "cap" PROVE CapCounted'
    BY DEF CapCounted
  <2>1. /\ boot.physPages \in Nat /\ MaxMem \in Nat /\ MaxMem < boot.physPages
        /\ availRemaining \in Nat /\ count \in Nat
    BY <1>1, ConstantsAssumption DEF IInv, TypeOK, ValidBoot, MaxMem, Capped
  <2>2. pagesToUse' = availRemaining' /\ availRemaining' \in Nat
        /\ availRemaining' <= availRemaining
    BY <1>1, <2>1 DEF LeaveScan
  <2>3. ASSUME pagesToUse' > 0
        PROVE  \E s : /\ Sums(s, table, count) /\ s[count] >= availRemaining'
                      /\ s[0] + pagesToUse' = availRemaining'
                      /\ \A k \in 0 .. 0 : s[k] <= availRemaining'
    <3>1. PICK s : Sums(s, table, count) /\ s[count] >= availRemaining
      BY <1>1 DEF KInv, ScanCounted
    <3>2. s[0] = 0 /\ s[count] \in Nat
      BY <2>1, <3>1 DEF Sums, PageSums
    <3> QED
      BY <2>1, <2>2, <3>1, <3>2
  <2>4. ASSUME pagesToUse' = 0
        PROVE  \E s : /\ Sums(s, table, 0) /\ s[0] = availRemaining'
                      /\ \A k \in 0 .. 0 : s[k] <= availRemaining'
    <3> DEFINE s == [k \in 0 .. 0 |-> 0]
    <3>1. s \in [0 .. 0 -> Nat] /\ s[0] = 0
      OBVIOUS
    <3>2. Sums(s, table, 0)
      BY <3>1 DEF Sums, PageSums
    <3>3. availRemaining' = 0
      BY <2>2, <2>4
    <3> QED
      BY <3>1, <3>2, <3>3
  <2>5. 0 .. curRegion' - 1 = {}
    BY <1>1
  <2> QED
    BY <1>1, <2>3, <2>4, <2>5 DEF CapCounted
<1>6. AvailEndRight'
  BY <1>1 DEF KInv, AvailEndRight, AvailEndCovers, CapExact
<1> QED
  BY <1>2, <1>3, <1>4, <1>5, <1>6 DEF KInv

LEMMA LeaveCapKeeps ==
  ASSUME IInv, IInv', KInv, LeaveCap
  PROVE  KInv'
<1>1. /\ phase = "cap" /\ phase' = "done" /\ boot' = boot /\ table' = table
      /\ count' = curRegion /\ reservedIndices' = reservedIndices
      /\ availEnd' = highestPn + 1 /\ availRemaining' = availRemaining
      /\ curRegion >= count \/ pagesToUse = 0
      /\ Capped' = Capped
  BY DEF LeaveCap, CappedEnd, Capped, MaxMem, capVars
<1>2. /\ count \in 0 .. TableSize + 1 /\ curRegion \in Nat /\ curRegion <= count
      /\ TableSize \in Nat /\ availRemaining \in Nat /\ pagesToUse \in Nat
  BY ConstantsAssumption DEF IInv, TypeOK, Bounded
<1>3. EntriesSeen' /\ UsablePagesKept' /\ ScanCounted' /\ CapCounted'
  BY <1>1 DEF EntriesSeen, UsablePagesKept, ScanCounted, CapCounted
<1>4. IndicesCounted'
  BY <1>1 DEF KInv, IndicesCounted, ReservedIndicesValid
<1>5. OverrunOnlyBySpanning'
  <2> SUFFICES ASSUME curRegion > TableSize
               PROVE  table[TableSize].base = boot.fap
                      /\ table[TableSize - 1].end = boot.fap - 1
    BY <1>1 DEF OverrunOnlyBySpanning
  <2>1. count > TableSize /\ curRegion # TableSize
    BY <1>2
  <2> QED
    BY <2>1 DEF KInv, OverrunOnlyBySpanning
<1>6. AvailEndCovers'
  <2>1. \A j \in 0 .. curRegion - 1 :
          table[j].end <= highestPn + 1 \/ table[j].base = table[j].end
    BY <1>1 DEF KInv, CapCounted
  <2>2. Capped
    BY <1>1 DEF KInv, CapCounted
  <2> QED
    BY <1>1, <2>1, <2>2 DEF AvailEndCovers, Regions
<1>7. CapExact'
  <2>1. pagesToUse = 0
    <3> SUFFICES ASSUME pagesToUse > 0 PROVE FALSE
      BY <1>2
    <3>1. curRegion = count
      BY <1>1, <1>2
    <3>2. PICK s : /\ Sums(s, table, count) /\ s[count] >= availRemaining
                   /\ s[curRegion] + pagesToUse = availRemaining
      BY <1>1 DEF KInv, CapCounted
    <3>3. s[count] \in Nat
      BY <1>2, <3>2 DEF Sums
    <3> QED
      BY <1>2, <3>1, <3>2, <3>3
  <2>2. PICK s : /\ Sums(s, table, curRegion) /\ s[curRegion] = availRemaining
                 /\ \A k \in 0 .. curRegion : s[k] <= availRemaining
    BY <1>1, <2>1 DEF KInv, CapCounted
  <2>3. s \in [0 .. curRegion -> Nat] /\ PageSums(s, table, curRegion)
    BY <2>2 DEF Sums
  <2>4. s \in [0 .. curRegion -> 0 .. availRemaining]
    BY <1>2, <2>2, <2>3
  <2> QED
    BY <1>1, <2>2, <2>3, <2>4 DEF CapExact, PageSums
<1> QED
  BY <1>3, <1>4, <1>5, <1>6, <1>7 DEF KInv, AvailEndRight

(* What one round of the capping loop does to the entry it looks at.       *)
LEMMA CapRegionFacts ==
  ASSUME IInv, CapRegion
  PROVE  LET r    == table[curRegion]
             used == PagesUsed(r)
         IN /\ curRegion \in 0 .. count - 1 /\ curRegion \in 0 .. TableSize
            /\ curRegion' = curRegion + 1 /\ phase = "cap" /\ phase' = "cap"
            /\ r.base \in Nat /\ r.end \in Nat /\ r.base <= r.end
            /\ used \in Nat /\ used <= r.end - r.base /\ used <= pagesToUse
            /\ used = r.end - r.base \/ used = pagesToUse
            /\ pagesToUse \in Nat /\ pagesToUse > 0 /\ pagesToUse' = pagesToUse - used
            /\ highestPn' \in Nat /\ highestPn \in Nat /\ highestPn <= highestPn'
            /\ used > 0 => r.base + used <= highestPn' + 1
            /\ table'[curRegion].base = r.base
            /\ table'[curRegion].end = r.base + used \/ (table' = table /\ used < pagesToUse)
            /\ \A j \in 0 .. count - 1 : j # curRegion => table'[j] = table[j]
            /\ UNCHANGED <<boot, count, reservedIndices, availEnd, availRemaining>>
<1> DEFINE r    == table[curRegion]
           used == PagesUsed(r)
           stop == r.base + used
           cut  == [r EXCEPT !.end = stop, !.allocDown = stop]
<1>1. /\ curRegion \in Nat /\ count \in 0 .. TableSize + 1 /\ TableSize \in Nat
      /\ pagesToUse \in Nat /\ curRegion < count /\ pagesToUse > 0 /\ highestPn \in Nat
      /\ table \in [0 .. TableSize -> Region]
  BY ConstantsAssumption DEF CapRegion, IInv, TypeOK
<1>2. curRegion \in Regions /\ curRegion \in 0 .. TableSize /\ curRegion \in 0 .. count - 1
  BY <1>1 DEF Regions
<1>3. r \in Region /\ Sound(r, Usables, boot)
  BY <1>1, <1>2 DEF IInv, RegionsSound
<1>4. r.base \in Nat /\ r.end \in Nat /\ r.base <= r.end
  BY <1>3, RegionNat DEF Sound
<1>5. used \in Nat /\ used <= r.end - r.base /\ used <= pagesToUse
      /\ (used = r.end - r.base \/ used = pagesToUse)
  <2> HIDE DEF r
  <2> QED  BY <1>1, <1>4 DEF PagesUsed
<1>6. /\ curRegion' = curRegion + 1 /\ phase = "cap" /\ phase' = "cap"
      /\ pagesToUse' = pagesToUse - used
      /\ highestPn' = IF used > 0 /\ stop - 1 > highestPn THEN stop - 1 ELSE highestPn
      /\ table' = IF pagesToUse' = 0 THEN [table EXCEPT ![curRegion] = cut] ELSE table
      /\ UNCHANGED <<boot, count, reservedIndices, availEnd, availRemaining>>
  BY DEF CapRegion, Stop
<1>7. cut.base = r.base /\ cut.end = stop
  BY <1>3 DEF Region
<1> HIDE DEF used, r, cut
<1>8. highestPn' \in Nat /\ highestPn <= highestPn' /\ (used > 0 => stop <= highestPn' + 1)
  BY <1>1, <1>4, <1>5, <1>6
<1>9. \A j \in 0 .. count - 1 : j # curRegion => table'[j] = table[j]
  BY <1>1, <1>6
<1>10. /\ table'[curRegion].base = r.base
       /\ table'[curRegion].end = stop \/ (table' = table /\ used < pagesToUse)
  <2>1. CASE pagesToUse' = 0
    BY <1>1, <1>2, <1>6, <1>7, <2>1
  <2>2. CASE pagesToUse' # 0
    BY <1>1, <1>5, <1>6, <2>2 DEF r
  <2> QED
    BY <2>1, <2>2
<1> QED
  BY <1>1, <1>2, <1>4, <1>5, <1>6, <1>8, <1>9, <1>10 DEF r, used

LEMMA CapRegionKeeps ==
  ASSUME IInv, IInv', KInv, CapRegion
  PROVE  KInv'
<1> DEFINE r    == table[curRegion]
           used == PagesUsed(r)
<1>1. /\ curRegion \in 0 .. count - 1 /\ curRegion \in 0 .. TableSize
      /\ curRegion' = curRegion + 1 /\ phase = "cap" /\ phase' = "cap"
      /\ r.base \in Nat /\ r.end \in Nat /\ r.base <= r.end
      /\ used \in Nat /\ used <= r.end - r.base /\ used <= pagesToUse
      /\ used = r.end - r.base \/ used = pagesToUse
      /\ pagesToUse \in Nat /\ pagesToUse > 0 /\ pagesToUse' = pagesToUse - used
      /\ highestPn' \in Nat /\ highestPn \in Nat /\ highestPn <= highestPn'
      /\ used > 0 => r.base + used <= highestPn' + 1
      /\ table'[curRegion].base = r.base
      /\ table'[curRegion].end = r.base + used \/ (table' = table /\ used < pagesToUse)
      /\ \A j \in 0 .. count - 1 : j # curRegion => table'[j] = table[j]
      /\ UNCHANGED <<boot, count, reservedIndices, availEnd, availRemaining>>
  BY CapRegionFacts
<1>2. count \in 0 .. TableSize + 1 /\ count \in Nat /\ availRemaining \in Nat /\ TableSize \in Nat
  BY ConstantsAssumption DEF IInv, TypeOK
<1> HIDE DEF used, r
<1>3. EntriesSeen' /\ UsablePagesKept' /\ ScanCounted'
  BY <1>1 DEF EntriesSeen, UsablePagesKept, ScanCounted
<1>4. IndicesCounted'
  BY <1>1 DEF KInv, IndicesCounted, ReservedIndicesValid
<1>5. OverrunOnlyBySpanning'
  <2> SUFFICES ASSUME count > TableSize
               PROVE  /\ table'[TableSize].base = boot.fap
                      /\ \/ table'[TableSize - 1].end = boot.fap - 1
                         \/ curRegion' = TableSize /\ pagesToUse' = 0
    BY <1>1 DEF OverrunOnlyBySpanning
  <2>1. table[TableSize].base = boot.fap /\ table[TableSize - 1].end = boot.fap - 1
    BY <1>1 DEF KInv, OverrunOnlyBySpanning
  <2>2. TableSize \in 0 .. count - 1 /\ TableSize - 1 \in 0 .. count - 1
    BY <1>2, ConstantsAssumption
  <2>3. table'[TableSize].base = boot.fap
    BY <1>1, <2>1, <2>2 DEF r
  <2>4. CASE curRegion # TableSize - 1
    BY <1>1, <2>1, <2>2, <2>3, <2>4
  <2>5. CASE curRegion = TableSize - 1
    <3>1. curRegion' = TableSize
      BY <1>1, <1>2, <2>5
    <3>2. CASE used = pagesToUse
      BY <1>1, <2>3, <3>1, <3>2
    <3>3. CASE used = r.end - r.base
      <4>1. table'[curRegion].end = r.end
        BY <1>1, <3>3 DEF r
      <4> QED
        BY <2>1, <2>3, <2>5, <4>1 DEF r
    <3> QED
      BY <1>1, <3>2, <3>3
  <2> QED
    BY <2>4, <2>5
<1>6. \A j \in 0 .. curRegion' - 1 :
        table'[j].end <= highestPn' + 1 \/ table'[j].base = table'[j].end
  <2> TAKE j \in 0 .. curRegion' - 1
  <2>1. CASE j \in 0 .. curRegion - 1
    <3>1. table[j].end <= highestPn + 1 \/ table[j].base = table[j].end
      BY <1>1, <2>1 DEF KInv, CapCounted
    <3>2. table'[j] = table[j]
      BY <1>1, <1>2, <2>1
    <3>3. j \in Regions
      BY <1>1, <1>2, <2>1 DEF Regions
    <3>4. table[j].end \in Nat
      BY <3>3, EntryType, RegionNat DEF IInv
    <3>5. highestPn \in Nat /\ highestPn' \in Nat /\ highestPn <= highestPn'
      BY <1>1
    <3> QED
      BY ONLY <3>1, <3>2, <3>4, <3>5
  <2>2. CASE j = curRegion
    <3>1. CASE table'[curRegion].end = r.base + used
      BY <1>1, <2>2, <3>1
    <3>2. CASE table' = table /\ used < pagesToUse
      BY <1>1, <2>2, <3>2 DEF r
    <3> QED
      BY <1>1, <3>1, <3>2
  <2> QED
    BY <1>1, <2>1, <2>2
<1>7. PICK s : /\ Sums(s, table, count) /\ s[count] >= availRemaining
               /\ s[curRegion] + pagesToUse = availRemaining
               /\ \A k \in 0 .. curRegion : s[k] <= availRemaining
  BY <1>1 DEF KInv, CapCounted
<1>8. PICK u : Sums(u, table', curRegion) /\ \A k \in 0 .. curRegion : u[k] = s[k]
  <2>1. SameSizes(table, table', curRegion)
    <3>1. \A j \in 0 .. curRegion - 1 : table'[j] = table[j]
      BY <1>1, <1>2
    <3> QED
      BY <3>1 DEF SameSizes
  <2>2. curRegion \in 0 .. count
    BY <1>1, <1>2
  <2>3. Sums(s, table, count)
    BY <1>7
  <2> QED
    BY ONLY <1>2, <2>1, <2>2, <2>3, SumsPrefix
<1>9. curRegion \in Nat /\ s[curRegion] \in Nat /\ s \in [0 .. count -> Nat]
      /\ u[curRegion] = s[curRegion]
  BY <1>1, <1>2, <1>7, <1>8 DEF Sums
<1>10. ASSUME pagesToUse' = 0
       PROVE  \E w : /\ Sums(w, table', curRegion') /\ w[curRegion'] = availRemaining
                     /\ \A k \in 0 .. curRegion' : w[k] <= availRemaining
  <2>1. used = pagesToUse
    BY <1>1, <1>10
  <2>2. /\ table'[curRegion].base \in Nat /\ table'[curRegion].end \in Nat
        /\ table'[curRegion].base <= table'[curRegion].end
        /\ Size(table'[curRegion]) = used
    BY <1>1, <2>1 DEF Size
  <2>3. PICK w : /\ Sums(w, table', curRegion + 1)
                 /\ w[curRegion + 1] = u[curRegion] + Size(table'[curRegion])
                 /\ \A k \in 0 .. curRegion : w[k] = u[k]
    BY <1>8, <1>9, <2>2, SumsExtend
  <2>4. w[curRegion + 1] = availRemaining
    BY <1>1, <1>7, <1>9, <2>1, <2>2, <2>3
  <2>5. \A k \in 0 .. curRegion + 1 : k \in 0 .. curRegion \/ k = curRegion + 1
    BY <1>9
  <2>6. \A k \in 0 .. curRegion + 1 : w[k] <= availRemaining
    BY <1>2, <1>7, <1>8, <2>3, <2>4, <2>5
  <2> QED
    BY <1>1, <2>3, <2>4, <2>6
<1>11. ASSUME pagesToUse' > 0
       PROVE  \E w : /\ Sums(w, table', count) /\ w[count] >= availRemaining
                     /\ w[curRegion'] + pagesToUse' = availRemaining
                     /\ \A k \in 0 .. curRegion' : w[k] <= availRemaining
  <2>1. used = r.end - r.base
    BY <1>1, <1>11
  <2>2. SameSizes(table, table', count)
    <3>1. \A j \in 0 .. count - 1 : Size(table'[j]) = Size(table[j])
      <4> TAKE j \in 0 .. count - 1
      <4>1. CASE j # curRegion
        BY <1>1, <4>1
      <4>2. CASE j = curRegion
        <5>1. table'[curRegion].end = r.end /\ table'[curRegion].base = r.base
          BY <1>1, <2>1 DEF r
        <5> QED
          BY <4>2, <5>1 DEF r, Size
      <4> QED
        BY <4>1, <4>2
    <3> QED
      BY <3>1 DEF SameSizes
  <2>3. PICK w : Sums(w, table', count) /\ \A k \in 0 .. count : w[k] = s[k]
    <3>1. count \in 0 .. count /\ Sums(s, table, count)
      BY <1>2, <1>7
    <3> QED
      BY ONLY <1>2, <2>2, <3>1, SumsPrefix
  <2>4. /\ curRegion + 1 \in 1 .. count /\ curRegion + 1 \in 0 .. count
        /\ count \in 0 .. count /\ curRegion + 1 - 1 = curRegion
    BY <1>1, <1>2
  <2>5. s[curRegion + 1] = s[curRegion] + used
    <3>1. \A k \in 1 .. count : s[k] = s[k - 1] + Size(table[k - 1])
      BY <1>7 DEF Sums, PageSums
    <3>2. PICK k \in 1 .. count : k = curRegion + 1 /\ k - 1 = curRegion
      BY <2>4, <1>9
    <3>3. s[k] = s[k - 1] + Size(table[k - 1])
      BY <3>1
    <3> QED
      BY <2>1, <3>2, <3>3 DEF Size, r
  <2>6. w[curRegion + 1] + pagesToUse' = availRemaining /\ w[count] >= availRemaining
    <3>1. w[curRegion + 1] = s[curRegion] + used /\ w[count] = s[count]
      BY <2>3, <2>4, <2>5
    <3>2. s[curRegion] + pagesToUse = availRemaining /\ s[count] >= availRemaining
      BY <1>7
    <3>3. pagesToUse' = pagesToUse - used /\ pagesToUse \in Nat /\ used \in Nat
      BY <1>1
    <3> QED
      BY ONLY <1>9, <3>1, <3>2, <3>3
  <2>7. \A k \in 0 .. curRegion + 1 : k \in 0 .. curRegion \/ k = curRegion + 1
    BY <1>9
  <2>8. \A k \in 0 .. curRegion + 1 : w[k] <= availRemaining
    <3>1. w[curRegion + 1] <= availRemaining
      <4>1. w[curRegion + 1] \in Nat
        BY <1>9, <2>3, <2>4
      <4> QED
        BY <1>1, <1>2, <2>6, <4>1
    <3>2. \A k \in 0 .. curRegion : k \in 0 .. count
      BY <1>1, <1>2
    <3> QED
      BY <1>7, <2>3, <2>7, <3>1, <3>2
  <2> QED
    BY <1>1, <2>3, <2>6, <2>8
<1>12. CapCounted'
  <2>1. Capped'
    BY <1>1 DEF KInv, CapCounted, Capped, MaxMem
  <2> QED
    BY <1>1, <1>6, <1>10, <1>11, <2>1 DEF CapCounted
<1>13. AvailEndRight'
  BY <1>1 DEF AvailEndRight, AvailEndCovers, CapExact
<1> QED
  BY <1>3, <1>4, <1>5, <1>12, <1>13 DEF KInv

LEMMA NextKInv == IInv /\ IInv' /\ KInv /\ [Next]_vars => KInv'
<1> SUFFICES ASSUME IInv, IInv', KInv, [Next]_vars
             PROVE  KInv'
  OBVIOUS
<1>1. ASSUME NEW k \in 1 .. Len(boot.map), k = i, ScanStep(boot.map[k])
      PROVE  KInv'
  <2> DEFINE d == boot.map[i]
  <2>1. i \in 1 .. Len(boot.map)
    BY <1>1
  <2>2. CASE SkipEmpty(d) \/ SkipUnusable(d)
    <3>1. i' = i + 1 /\ phase = "scan" /\ phase' = "scan" /\ reserved' = reserved
          /\ (Empty(d) \/ NotForUse(d))
          /\ UNCHANGED <<boot, table, count, reservedIndices, availEnd,
                         availRemaining, capVars>>
      BY <2>2 DEF SkipEmpty, SkipUnusable, Scanning, scanVars
    <3> QED
      BY <2>1, <3>1, SkipKeeps
  <2>3. CASE TooManyReserved(d)
    <3>1. i' = i + 1 /\ phase = "scan" /\ phase' = "panic"
          /\ UNCHANGED <<boot, table, count, reservedIndices, availEnd,
                         availRemaining, capVars>>
      BY <2>3 DEF TooManyReserved, Usable, Scanning, scanVars
    <3> QED
      BY <2>1, <3>1, SkipKeeps
  <2>4. CASE AddBelow(d)
    BY <2>1, <2>4, AddBelowMakes, AddedKeeps
  <2>5. CASE AddSpanning(d)
    BY <2>1, <2>5, AddSpanningMakes, AddedKeeps
  <2>6. CASE AddWhole(d)
    BY <2>1, <2>6, AddWholeMakes, AddedKeeps
  <2> QED
    BY <1>1, <2>2, <2>3, <2>4, <2>5, <2>6 DEF ScanStep
<1>2. CASE LeaveScan
  BY <1>2, LeaveScanKeeps
<1>3. CASE CapRegion
  BY <1>3, CapRegionKeeps
<1>4. CASE LeaveCap
  BY <1>4, LeaveCapKeeps
<1>5. CASE UNCHANGED vars
  <2>1. /\ boot' = boot /\ phase' = phase /\ i' = i /\ table' = table
        /\ count' = count /\ reserved' = reserved
        /\ reservedIndices' = reservedIndices /\ availEnd' = availEnd
        /\ availRemaining' = availRemaining /\ curRegion' = curRegion
        /\ pagesToUse' = pagesToUse /\ highestPn' = highestPn
        /\ Regions' = Regions /\ Usables' = Usables /\ Capped' = Capped
    BY <1>5, UsablesSame DEF vars, scanVars, capVars, Regions, Capped, MaxMem
  <2>2. EntriesSeen' /\ IndicesCounted' /\ OverrunOnlyBySpanning'
    BY <2>1 DEF KInv, EntriesSeen, IndicesCounted, ReservedIndicesValid,
                OverrunOnlyBySpanning
  <2>3. UsablePagesKept'
    BY <2>1 DEF KInv, UsablePagesKept, Clamp, Base, Top, LastPage
  <2>4. ScanCounted' /\ CapCounted'
    BY <2>1 DEF KInv, ScanCounted, CapCounted, Sums, PageSums
  <2>5. AvailEndRight'
    BY <2>1 DEF KInv, AvailEndRight, AvailEndCovers, CapExact, PageSums
  <2> QED
    BY <2>2, <2>3, <2>4, <2>5 DEF KInv
<1> QED
  BY <1>1, <1>2, <1>3, <1>4, <1>5 DEF Next

LEMMA KInvariant == Spec => []KInv
BY InitIInv, NextIInv, KeptInitially, NextKInv, PTL DEF Spec

----------------------------------------------------------------------------
(* The variables keep their types; in particular the scan never writes     *)
(* more than one entry past the table (i386_vm_init.c 338-565).            *)
THEOREM TypeCorrect == Spec => []TypeOK
BY Invariant, IInvIsEnough, PTL

(* For every memory map of disjoint descriptors, no page is in two entries *)
(* of pmap_memory_regions (i386_vm_init.c 474-564, 644-658).               *)
THEOREM Disjoint == Spec => []RegionsDisjoint
BY Invariant, IInvIsEnough, PTL

(* For every memory map, only usable memory gets into the table            *)
(* (i386_vm_init.c 380-560).                                               *)
THEOREM OnlyUsable == Spec => []RegionsUsable
BY Invariant, IInvIsEnough, PTL

(* For every memory map and position of the kernel, memory below           *)
(* first_avail is available only in the two cases the property names       *)
(* (i386_vm_init.c 474-541).                                               *)
THEOREM AllocatedBelow == Spec => []AllocatedBelowFirstAvail
BY Invariant, IInvIsEnough, PTL

(* No usable page is lost by clamping, splitting and merging, and each at  *)
(* or above first_avail is available, for every memory map                 *)
(* (i386_vm_init.c 474-565).                                               *)
THEOREM PagesKept == Spec => []UsablePagesKept
BY KInvariant, PTL DEF KInv

(* The recorded indices of reserved memory fit their table and name        *)
(* entries of reserved memory with pages to give out, whatever was merged  *)
(* or doubled since (i386_vm_init.c 462-541).                              *)
THEOREM IndicesValid == Spec => []ReservedIndicesValid
BY KInvariant, PTL DEF KInv, IndicesCounted

(* The table is overrun only by the upper part of a range that spans       *)
(* first_avail, and by that one entry (i386_vm_init.c 512-530).            *)
THEOREM OneOverrun == Spec => []OverrunOnlyBySpanning
BY KInvariant, PTL DEF KInv

(* avail_end covers the entries, and the capping loop keeps exactly        *)
(* avail_remaining pages by its own count (i386_vm_init.c 543-661).        *)
THEOREM CapRight == Spec => []AvailEndRight
BY KInvariant, PTL DEF KInv
=============================================================================
