------------------------------ MODULE TscClock ------------------------------
(***************************************************************************)
(* How fast the time stamp counter runs (tsc_init) and the time the kernel  *)
(* makes of it (rtc_set_timescale, _rtc_nanotime_read).  All arithmetic is  *)
(* of fixed point: Fraction stands for 2^32, and NSEC for the nanoseconds   *)
(* of a second, with their true ratio.                                      *)
(***************************************************************************)
EXTENDS Cpuid

NSEC == 500
Fraction == 2048
SLOW_TSC_THRESHOLD == 501
kilo == 2
BASE_NHM_CLOCK_SOURCE == 66
BASE_ART_CLOCK_SOURCE == 12

tmrCvt(time, conversion) ==
  IF conversion = 1 THEN time ELSE (time * conversion) \div Fraction
ToNs(freq) == (NSEC * Fraction) \div freq
FromNs(cvtt2n) == (Fraction * Fraction - 1) \div cvtt2n

(* The ratio of the counter to the bus, in halves: of the newer processors  *)
(* the flexible one if it is on and lower, of the older with half steps.    *)
Ratio(m) ==
  IF m.family \in {"merom", "penryn"} THEN 2 * m.ratio + (IF m.half THEN 1 ELSE 0)
  ELSE 2 * (IF m.flexOn /\ m.flex < m.ratio THEN m.flex ELSE m.ratio)
(* The frequency the firmware gives, 0 if it gives none.                    *)
Given(freq, default) == IF freq = 0 THEN default ELSE freq

Dead(why) == [died |-> why]
Alive(tscFreq, busFreq, cvtt2n, bus2tsc) ==
  [died |-> "no", tscFreq |-> tscFreq, busFreq |-> busFreq, cvtt2n |-> cvtt2n,
   bus2tsc |-> bus2tsc]

(* A hypervisor that tells both frequencies is believed.                    *)
Told(m) == m.present /\ cpuid_vmm_info(m.vmm).tsc # 0 /\ cpuid_vmm_info(m.vmm).bus # 0
FromVmm(m) ==
  LET bus == cpuid_vmm_info(m.vmm).bus * kilo
      tsc == cpuid_vmm_info(m.vmm).tsc * kilo
  IN Alive(tsc, bus, ToNs(tsc), tmrCvt(ToNs(bus), FromNs(ToNs(tsc))))

(* The counter of the newest runs at a ratio of a clock of its own.         *)
FromArt(m) ==
  IF m.numerator = 0 \/ m.denominator = 1 THEN Dead("panic")
  ELSE IF m.denominator = 0 THEN Dead("divide")
  ELSE LET freq == (Given(m.firmware, BASE_ART_CLOCK_SOURCE) * m.numerator) \div m.denominator
       IN IF freq = 0 THEN Dead("panic") ELSE Alive(freq, freq, ToNs(freq), 1)

FromBus(m, bus) ==
  IF bus = 0 THEN Dead("panic")
  ELSE IF Ratio(m) = 0 THEN Dead("divide")
  ELSE LET cvtt2n == (ToNs(bus) * 2) \div Ratio(m)
       IN Alive((NSEC * Fraction) \div cvtt2n, bus, cvtt2n,
                tmrCvt(ToNs(bus), FromNs(cvtt2n)))

tsc_init(m) ==
  CASE Told(m) -> FromVmm(m)
    [] ~Told(m) /\ m.family \in {"skylake", "kabylake"} -> FromArt(m)
    [] ~Told(m) /\ m.family \in {"merom", "penryn"} -> FromBus(m, m.firmware)
    [] OTHER -> FromBus(m, Given(m.firmware, BASE_NHM_CLOCK_SOURCE))

----------------------------------------------------------------------------
(* A slow counter is shifted until the scale fits its 32 bits.              *)
Shift(cycles) == CHOOSE s \in 0 .. 10 : /\ cycles * 2 ^ s > SLOW_TSC_THRESHOLD
                                        /\ s > 0 => cycles * 2 ^ (s - 1) <= SLOW_TSC_THRESHOLD
Scale(cycles) == ((NSEC * Fraction) \div (cycles * 2 ^ Shift(cycles))) % Fraction
rtc_set_timescale(cycles) == [scale |-> Scale(cycles), shift |-> Shift(cycles)]

(* The scale is stored once, before anything reads: the test of the         *)
(* generation around the reading never fails.                               *)
nanotime_read(info, delta) == (delta * 2 ^ info.shift * info.scale) \div Fraction

----------------------------------------------------------------------------
(* What a processor is taken for is what it is: its family, the cores and   *)
(* threads it has enabled, each cache and its line, and the translation     *)
(* buffers it describes, whose large pages alone are kept when a buffer     *)
(* holds both sizes.  The kernel ends where it has no line size and where   *)
(* the processor lacks a register it reads.  Five readings of leaf 2        *)
(* overrun the descriptors, into the cores and threads (cpuid.c 245-876).   *)
ProcessorRight(p) ==
  LET info == cpuid_info(p)
      readings == p.descriptors[1][1].bytes[1]
      words == {w \in (1 .. Len(p.descriptors)) \X (1 .. 4) :
                  /\ w[1] <= readings \/ w[1] = 1
                  /\ p.descriptors[w[1]][w[2]].valid}
      codes == {p.descriptors[w[1]][w[2]].bytes[b] :
                  <<w, b>> \in {x \in words \X (1 .. 4) : x # <<<<1, 1>>, 1>>}}
      overrun == readings >= 5
      leaves == p.maxBasic >= 4 /\ p.caches # <<>>
      have(level, type) == {c \in Range(p.caches) : c.level = level /\ c.type = type}
      size(level, type) == IF leaves /\ have(level, type) # {}
                           THEN (CHOOSE c \in have(level, type) : TRUE).bytes ELSE 0
      line(level, type) == IF leaves /\ have(level, type) # {}
                           THEN (CHOOSE c \in have(level, type) : TRUE).line ELSE 0
      older == p.name \in {"merom", "penryn"}
      newest == p.name \in {"ivybridge", "kabylake"}
      counted == older \/ p.enabledCores = 0
      l2line == IF leaves THEN line(2, 3) ELSE IF p.maxExtended >= 6 THEN p.second.line ELSE 0
  IN /\ info.fault <=> ~("PLATFORM_ID" \in p.registers
                           /\ (older \/ "CORE_THREAD_COUNT" \in p.registers))
     /\ info.family = p.name
     /\ info.leaf7 = IF newest /\ p.maxBasic >= 7 THEN p.features7 ELSE {}
     /\ ~overrun =>
          /\ info.panic <=> l2line = 0 /\ line(1, 1) = 0
          /\ info.caches["L2U"].size = IF leaves THEN size(2, 3)
                                       ELSE IF p.maxExtended >= 6
                                       THEN p.second.kilobytes * 1024 ELSE 0
          /\ info.cache_linesize = IF l2line # 0 THEN l2line ELSE line(1, 1)
          /\ <<info.core_count, info.thread_count>> =
               IF counted THEN <<IF leaves THEN p.cores ELSE 1, p.addressable>>
               ELSE <<p.enabledCores, p.enabledThreads>>
     /\ \A type \in {"L1I", "L1D", "L3U"} :
          info.caches[type].size = CASE type = "L1D" -> size(1, 1) [] type = "L1I" -> size(1, 2)
                                     [] type = "L3U" -> size(3, 3)
     /\ (overrun /\ ~leaves) => info.panic
     /\ (overrun /\ counted) => info.thread_count # p.addressable
     /\ ~overrun =>
          LET described == {t \in TLBs : t[1] \in codes}
          IN \A t \in described :
               (\A u \in described : u = t \/ TlbKind(u) # TlbKind(t))
                 => info.tlb[TlbKind(t)] = t[4]

(* The counter is taken to run at its ratio of the bus, within what the     *)
(* fixed point loses, and the time made of it never runs ahead of the true  *)
(* time nor back, and stays within its rounding.  Without the firmware the  *)
(* kernel ends where it cannot know (tsc.c 86-236, rtclock.c 198-224,       *)
(* asmlib.S 147-184).                                                       *)
ClockRight(m) ==
  LET tsc == tsc_init(m)
      art == m.family \in {"skylake", "kabylake"}
      older == m.family \in {"merom", "penryn"}
      told == m.present /\ m.vmm.max >= 16 /\ m.vmm.tsc # 0 /\ m.vmm.bus # 0
      info == rtc_set_timescale(tsc.tscFreq)
      (* Twice the frequency, by what the machine is.                       *)
      twice == IF told THEN 2 * kilo * m.vmm.tsc
               ELSE IF art
               THEN (2 * (IF m.firmware = 0 THEN 12 ELSE m.firmware) * m.numerator) \div m.denominator
               ELSE (IF m.firmware = 0 THEN 66 ELSE m.firmware)
                      * (IF older THEN 2 * m.ratio + (IF m.half THEN 1 ELSE 0)
                         ELSE 2 * (IF m.flexOn /\ m.flex < m.ratio THEN m.flex ELSE m.ratio))
      time(t) == nanotime_read(info, t)
      lost(t) == 1 + (t * 2 ^ info.shift) \div Fraction
  IN /\ tsc.died # "no" <=>
          /\ ~told
          /\ \/ art /\ \/ m.denominator \in {0, 1} \/ m.numerator = 0
                       \/ (IF m.firmware = 0 THEN 12 ELSE m.firmware) * m.numerator < m.denominator
             \/ older /\ (m.firmware = 0 \/ (m.ratio = 0 /\ ~m.half))
             \/ ~art /\ ~older /\ (m.ratio = 0 \/ (m.flexOn /\ m.flex = 0))
     /\ tsc.died = "no" =>
          /\ 2 * tsc.tscFreq - twice \in -1 .. 2 + (twice * twice) \div (NSEC * Fraction)
          /\ \A t \in {0, 1, 2, 5, 11, 100, 333, 999} :
               /\ time(t) * tsc.tscFreq <= t * NSEC
               /\ t * NSEC < (time(t) + lost(t) + 1) * tsc.tscFreq
               /\ time(t) <= time(t + 1)
          /\ ~art \/ told =>
               2 * tsc.bus2tsc * tsc.busFreq - Fraction * twice
                 \in 0 - 2 * (NSEC + 2 * tsc.busFreq)
                       .. 4 * tsc.busFreq + (2 * tsc.tscFreq * tsc.tscFreq) \div NSEC
=============================================================================
