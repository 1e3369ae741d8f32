--------------------------- MODULE MCPmapRegions ---------------------------
(***************************************************************************)
(* The instance of PmapRegions for TLC: every memory map of three disjoint *)
(* descriptors that start and end at the pages of Points, in ascending     *)
(* order or with the last descriptor first, on a machine within            *)
(* KERNEL_MAXMEM with every kind of descriptor, and on machines with more  *)
(* memory with two kinds.                                                  *)
(***************************************************************************)
EXTENDS PmapRegions

CONSTANTS
  FirstAvail,      \* first_avail, as a page number
  KernelBase,      \* vm_kernel_base_page
  LargeSizes,      \* amounts of memory above KERNEL_MAXMEM
  Points           \* pages where a descriptor may start or end

Kind(t, a) == [type |-> t, attribute |-> a]

AllKinds == {Kind("Conventional", {}), Kind("LoaderData", {}),
             Kind("ACPI", {}), Kind("BootServicesCode", {"RUNTIME"}),
             Kind("Conventional", {"KERN_RESERVED"})}
CapKinds == {Kind("Conventional", {}), Kind("ACPI", {})}

(* Three disjoint intervals, as their six ascending end points, with their *)
(* place in the memory map.                                                *)
Layouts ==
  {<<e, o>> \in [1 .. 6 -> Points] \X {<<1, 2, 3>>, <<3, 1, 2>>} :
     e[1] <= e[2] /\ e[2] < e[3] /\ e[3] <= e[4] /\ e[4] < e[5] /\ e[5] <= e[6]}

Piece(e, n, kind) ==
  [start |-> e[2 * n - 1], pages |-> e[2 * n] - e[2 * n - 1] + 1,
   type |-> kind.type, attribute |-> kind.attribute]

MapOf(l, k) == [n \in 1 .. 3 |-> Piece(l[1], l[2][n], k[n])]

ScanMaps == {MapOf(lk[1], lk[2]) : lk \in Layouts \X [1 .. 3 -> AllKinds]}
CapMaps  == {MapOf(lk[1], lk[2]) : lk \in Layouts \X [1 .. 3 -> CapKinds]}

MCBootArgs ==
  [map : ScanMaps, fap : {FirstAvail}, kernelBase : {KernelBase},
   physPages : {KernelMaxMem}]
  \cup
  [map : CapMaps, fap : {FirstAvail}, kernelBase : {KernelBase},
   physPages : LargeSizes]
=============================================================================
