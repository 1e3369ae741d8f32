------------------------------- MODULE Cpuid -------------------------------
(***************************************************************************)
(* What the kernel finds out about the processor (cpuid.c): family and      *)
(* model, cores and threads, caches, translation buffers, and what the      *)
(* hypervisor says.  A processor is a record of what it has; the leaves     *)
(* below give it as the instruction does, a register as a function from the *)
(* first and last bit of its fields.                                        *)
(***************************************************************************)
EXTENDS Integers, Sequences, FiniteSetsExt, Functions, TLC

bitfield32(reg, high, low) == reg[<<high, low>>]

Leaf1(p) ==
  [eax |-> (<<7, 4>> :> p.model % 16) @@ (<<11, 8>> :> p.family)
             @@ (<<19, 16>> :> p.model \div 16) @@ (<<27, 20>> :> p.extFamily),
   ebx |-> <<23, 16>> :> p.addressable, HTT |-> p.addressable > 1]
(* Sizes of the second level in kilobytes.                                  *)
ExtendedLeaf6(p) ==
  [ecx |-> (<<7, 0>> :> p.second.line) @@ (<<15, 12>> :> p.second.code)
             @@ (<<31, 16>> :> p.second.kilobytes)]
Leaf4(p, index) ==
  IF index > Len(p.caches)
  THEN [eax |-> <<4, 0>> :> 0]
  ELSE LET c == p.caches[index]
       IN [eax |-> (<<4, 0>> :> c.type) @@ (<<7, 5>> :> c.level)
                     @@ (<<25, 14>> :> c.sharing - 1) @@ (<<31, 26>> :> p.cores - 1),
           ebx |-> (<<11, 0>> :> c.line - 1) @@ (<<21, 12>> :> c.partitions - 1)
                     @@ (<<31, 22>> :> c.ways - 1),
           ecx |-> <<31, 0>> :> c.sets - 1]
(* The words of each reading of leaf 2; the first byte is the number of     *)
(* readings it takes.                                                       *)
Leaf2(p, reading) == p.descriptors[1 + (reading % Len(p.descriptors))]
ThreadRegister(p) == (<<31, 16>> :> p.enabledCores) @@ (<<19, 16>> :> p.enabledCores % 16)
                       @@ (<<15, 0>> :> p.enabledThreads)

----------------------------------------------------------------------------
(* cpuid_set_generic_info.  The family is extended first, so that a model   *)
(* of an extended family keeps its low digit only.                          *)
associativity(code) ==
  CASE code = 6 -> 8 [] code = 8 -> 16 [] code = 15 -> 65535 [] OTHER -> code

cpuid_family(p) ==
  LET family == bitfield32(Leaf1(p).eax, 11, 8)
  IN IF family = 15 THEN family + bitfield32(Leaf1(p).eax, 27, 20) ELSE family
cpuid_model(p) ==
  bitfield32(Leaf1(p).eax, 7, 4)
    + (IF cpuid_family(p) \in {6, 15} THEN 16 * bitfield32(Leaf1(p).eax, 19, 16) ELSE 0)

CPUID_MODEL_IVYBRIDGE == 58
OptionalLeaves == {5, 6, 10, 13, 21}
LeavesRead(p) ==
  {n \in OptionalLeaves : p.maxBasic >= n}
    \cup (IF cpuid_model(p) >= CPUID_MODEL_IVYBRIDGE THEN {7} ELSE {})

(* A leaf past the last gives what the last one has.                        *)
Features7(p) ==
  IF 7 \notin LeavesRead(p) THEN {} ELSE IF p.maxBasic >= 7 THEN p.features7 ELSE {}

SecondLevel(p) ==
  IF p.maxExtended >= 6
  THEN LET ecx == ExtendedLeaf6(p).ecx
       IN [size |-> bitfield32(ecx, 31, 16), line |-> bitfield32(ecx, 7, 0),
           ways |-> associativity(bitfield32(ecx, 15, 12))]
  ELSE [size |-> 0, line |-> 0, ways |-> 0]

logical_per_package(p) == IF Leaf1(p).HTT THEN bitfield32(Leaf1(p).ebx, 23, 16) ELSE 1

(* cpuid_set_cpufamily.                                                     *)
Models ==
  [merom |-> {15}, penryn |-> {23}, nehalem |-> {26, 30, 31, 46}, westmere |-> {37, 44, 47},
   sandybridge |-> {42, 45}, ivybridge |-> {58, 62}, haswell |-> {60, 63, 69, 70},
   broadwell |-> {61, 71}, skylake |-> {78, 94, 85}, kabylake |-> {142, 158}]
cpuid_set_cpufamily(p) ==
  LET named == {f \in DOMAIN Models : cpuid_model(p) \in Models[f]}
  IN IF p.vendor = "GenuineIntel" /\ cpuid_family(p) = 6 /\ named # {}
     THEN CHOOSE f \in named : TRUE
     ELSE "unknown"

----------------------------------------------------------------------------
(* cpuid_set_cache_info, leaf 2.  The descriptors are 16 words; the words   *)
(* after them are cores, logical processors, and who shares a cache.  A     *)
(* fifth reading writes there.                                              *)
InfoWords == 16
CoresWord == 16
LogicalWord == 17
WithinInfo(i) == i * 16 <= 4 * InfoWords
Readings(p) == IF Leaf2(p, 0)[1].valid THEN Leaf2(p, 0)[1].bytes[1] ELSE 0
ReadIn(p, i) == i = 0 \/ (i < Readings(p) /\ WithinInfo(i))
cache_info(p) ==
  [w \in 0 .. 19 |->
     LET read == Leaf2(p, w \div 4)[1 + (w % 4)]
     IN IF ReadIn(p, w \div 4) /\ read.valid THEN read.bytes
        ELSE <<IF w = LogicalWord THEN logical_per_package(p) ELSE 0, 0, 0, 0>>]
WordValue(bytes) == bytes[1] + 256 * (bytes[2] + 256 * (bytes[3] + 256 * bytes[4]))

(* intel_cpuid_leaf2_descriptor_table, the translation buffers: the code,   *)
(* what it translates, its pages and its entries.                           *)
TLBs ==
  {<<1, "INST", "SMALL", 32>>, <<2, "INST", "LARGE", 2>>, <<3, "DATA", "SMALL", 64>>,
   <<4, "DATA", "LARGE", 8>>, <<5, "DATA1", "LARGE", 32>>, <<11, "INST", "LARGE", 4>>,
   <<79, "INST", "SMALL", 32>>, <<80, "INST", "BOTH", 64>>, <<81, "INST", "BOTH", 128>>,
   <<82, "INST", "BOTH", 256>>, <<85, "INST", "BOTH", 7>>, <<86, "DATA0", "LARGE", 16>>,
   <<87, "DATA0", "SMALL", 16>>, <<89, "DATA0", "SMALL", 16>>, <<90, "DATA0", "LARGE", 32>>,
   <<91, "DATA", "BOTH", 64>>, <<92, "DATA", "BOTH", 128>>, <<93, "DATA", "BOTH", 256>>,
   <<118, "INST", "BOTH", 8>>, <<176, "INST", "SMALL", 128>>, <<177, "INST", "LARGE", 8>>,
   <<178, "INST", "SMALL", 64>>, <<179, "DATA", "SMALL", 128>>, <<180, "DATA1", "SMALL", 256>>,
   <<181, "DATA1", "SMALL", 64>>, <<182, "DATA1", "SMALL", 128>>, <<186, "DATA1", "BOTH", 64>>}
STLBs == {<<193, 1024>>, <<202, 512>>}
TlbKind(t) ==
  <<IF t[2] = "INST" THEN "INST" ELSE "DATA", IF t[3] = "SMALL" THEN "SMALL" ELSE "LARGE",
    IF t[2] = "DATA1" THEN 1 ELSE 0>>

(* The last descriptor of a kind stays; the first byte is passed over.      *)
TlbCodes == {t[1] : t \in TLBs}
cpuid_leaf2_find(code) == CHOOSE t \in TLBs : t[1] = code
cpuid_tlb(words) ==
  LET byte(i) == words[i \div 4][1 + (i % 4)]
      described == {<<i, cpuid_leaf2_find(byte(i))>> : i \in {j \in 1 .. 63 : byte(j) \in TlbCodes}}
      of(kind) == {d \in described : TlbKind(d[2]) = kind}
      last(kind) == CHOOSE d \in of(kind) : \A e \in of(kind) : e[1] <= d[1]
  IN [kind \in {TlbKind(d[2]) : d \in described} |-> last(kind)[2][4]]

----------------------------------------------------------------------------
(* Leaf 4, cache after cache until one of type 0.                           *)
CacheTypes == {"L1I", "L1D", "L2U", "L3U"}
cache_type(level, type) ==
  CASE level = 1 /\ type = 1 -> "L1D" [] level = 1 /\ type = 2 -> "L1I"
    [] level = 2 /\ type = 3 -> "L2U" [] level = 3 /\ type = 3 -> "L3U" [] OTHER -> "Lnone"

NoCache == [size |-> 0, sharing |-> 0, line |-> 0, ways |-> 0]
OneCache(reg) ==
  LET line == bitfield32(reg.ebx, 11, 0) + 1
      ways == bitfield32(reg.ebx, 31, 22) + 1
  IN [size |-> line * (bitfield32(reg.ecx, 31, 0) + 1) * ways * (bitfield32(reg.ebx, 21, 12) + 1),
      sharing |-> bitfield32(reg.eax, 25, 14) + 1, line |-> line, ways |-> ways]
Colors(reg) ==
  ((bitfield32(reg.ebx, 11, 0) + 1) * (bitfield32(reg.ecx, 31, 0) + 1)) \div 4096

deterministic(p) == p.maxBasic >= 4
Geometry(p, words) ==
  LET noted[i \in 0 .. Len(p.caches)] ==
        IF i = 0
        THEN [caches |-> [t \in CacheTypes |-> NoCache], colors |-> 0,
              cores |-> WordValue(words[CoresWord])]
        ELSE LET reg == Leaf4(p, i)
                 type == cache_type(bitfield32(reg.eax, 7, 5), bitfield32(reg.eax, 4, 0))
                 before == noted[i - 1]
                 now == [before EXCEPT !.cores = bitfield32(reg.eax, 31, 26) + 1]
             IN IF type = "Lnone" THEN now
                ELSE [now EXCEPT !.caches[type] = OneCache(reg),
                                 !.colors = IF @ < Colors(reg) THEN Colors(reg) ELSE @]
  IN noted[IF deterministic(p) THEN Len(p.caches) ELSE 0]

(* Without leaf 4 the second level as of the extended leaf, and one core.   *)
Fallback(p, geometry) ==
  IF geometry.cores # 0 THEN geometry
  ELSE [geometry EXCEPT !.cores = 1,
          !.caches["L2U"] = [size |-> SecondLevel(p).size * 1024, sharing |-> 1,
                             line |-> SecondLevel(p).line, ways |-> SecondLevel(p).ways]]
publishedFirst(caches) ==
  IF caches["L1D"].line # 0 THEN caches["L1D"].line ELSE caches["L2U"].line
published(caches) == IF caches["L2U"].line # 0 THEN caches["L2U"].line ELSE caches["L1D"].line

(* cpuid_set_info.  Reading a register the processor has not is a fault; so *)
(* every processor of another make ends here.                               *)
ModelRegisters(family) ==
  {"PLATFORM_ID"} \cup (IF family \in {"merom", "penryn"} THEN {} ELSE {"CORE_THREAD_COUNT"})
Counts(p, family, cores, logical) ==
  LET core(bits) == bitfield32(ThreadRegister(p), bits[1], bits[2])
      told == CASE family \in {"merom", "penryn"} -> <<cores, logical>>
                [] family = "westmere" -> <<core(<<19, 16>>), core(<<15, 0>>)>>
                [] OTHER -> <<core(<<31, 16>>), core(<<15, 0>>)>>
  IN IF told[1] = 0 THEN <<cores, logical>> ELSE told

cpuid_info(p) ==
  LET family == cpuid_set_cpufamily(p)
      words == cache_info(p)
      geometry == Fallback(p, Geometry(p, words))
      counts == Counts(p, family, geometry.cores, WordValue(words[LogicalWord]))
  IN [fault |-> ~(ModelRegisters(family) \subseteq p.registers),
      panic |-> published(geometry.caches) = 0, family |-> family, leaf7 |-> Features7(p),
      leaves |-> LeavesRead(p), tlb |-> cpuid_tlb(words), caches |-> geometry.caches,
      colors |-> geometry.colors, cache_linesize |-> published(geometry.caches),
      core_count |-> counts[1], thread_count |-> counts[2]]

(* cpuid_init_vmm_info: the leaf above decides whether frequencies are.     *)
cpuid_vmm_info(vmm) ==
  [family |-> IF vmm.vendor \in {"VMwareVMware", "Parallels"} THEN vmm.vendor ELSE "unknown",
   tsc |-> IF vmm.max >= 16 THEN vmm.tsc ELSE 0, bus |-> IF vmm.max >= 16 THEN vmm.bus ELSE 0]
=============================================================================
