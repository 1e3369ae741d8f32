----------------------------- MODULE Partitions -----------------------------
(***************************************************************************)
(* Which volumes a disk is found to have: the partition tables of GPT.swift *)
(* and MBR.swift, and the headers the file systems accept (FAT.swift,       *)
(* EFS.swift, HFS+.swift, exFAT.swift).                                     *)
(*                                                                          *)
(* A disk has a table, and for each entry its type, its first sector, its   *)
(* name, and what its first sector says: the label of the FAT type, the     *)
(* bytes of a sector, the label of the volume, and the sectors before the   *)
(* data.                                                                    *)
(***************************************************************************)
EXTENDS Integers, Sequences, FiniteSets

EntriesInSector == 4      \* 512 / 128
FatKinds == {"FAT32", "FAT16", "FAT12"}

(* A disk: sectors before the data, and among the types any other one.      *)
IsHeader(h) ==
  /\ h.reserved \in Nat \ {0} /\ h.tables \in Nat /\ h.tableSize \in Nat
IsDisk(disk) ==
  /\ disk.checked \in BOOLEAN
  /\ disk.entries = [i \in 1 .. EntriesInSector |-> disk.entries[i]]
  /\ \A i \in 1 .. EntriesInSector :
       disk.entries[i].first \in Nat /\ IsHeader(disk.entries[i].header)

(* Types the kernel has no name for are as good as empty.                   *)
KnownTypes == {"EFS", "HFSPlus", "APFS", "WinData"}
Entered(e) == e.type \in KnownTypes

VolumeName(e) == IF e.name = "" THEN e.header.label ELSE e.name
FirstUsableCluster(e) == e.first + e.header.reserved + e.header.tables * e.header.tableSize
Volume(e, kind) ==
  [kind |-> kind, name |-> IF kind = "HFSPlus" THEN e.name ELSE VolumeName(e),
   first |-> e.first,
   data |-> IF kind = "HFSPlus" THEN 0 ELSE FirstUsableCluster(e)]

(* init?() of the three classes of FAT.                                     *)
Accepted(e, kind) == e.header.fatType = kind /\ e.header.bytesPerSector = 512

(* exFAT reads its header and gives nil in any case; HFSPlus takes all; the *)
(* class of EFI partitions unwraps what FAT32 gives by force.  A header has *)
(* one label, so at most one class takes it.                                *)
Tried(type) ==
  CASE type = "WinData" -> FatKinds [] type = "EFS" -> {"FAT32"} [] OTHER -> {}
VolumesOf(e) ==
  IF e.type = "HFSPlus" THEN <<Volume(e, "HFSPlus")>>
  ELSE IF \E kind \in Tried(e.type) : Accepted(e, kind) THEN <<Volume(e, e.header.fatType)>>
  ELSE <<>>

(* The slice of an entry has 129 bytes; of the last entry of a sector it    *)
(* ends past the sector, which ends the kernel in a build that checks.      *)
SliceEnd(i) == (i - 1) * 128 + 129
PastSector(i, checked) == checked /\ SliceEnd(i) > 512

(* The first entry that is empty, or of an unknown type, is the last read.  *)
IsLast(e) == ~Entered(e)

(* The volumes, and whether the kernel has ended: of the i-th entry and     *)
(* those behind it, and of all.                                             *)
VolumesRead(volumes, trapped) == [volumes |-> volumes, trapped |-> trapped]
NothingRead == VolumesRead(<<>>, FALSE)
EntryRead(entries, checked, i, rest) ==
  LET e == entries[i]
  IN IF PastSector(i, checked) THEN VolumesRead(<<>>, TRUE)
     ELSE IF IsLast(e) THEN NothingRead
     ELSE IF e.type = "EFS" /\ VolumesOf(e) = <<>> THEN VolumesRead(<<>>, TRUE)
     ELSE VolumesRead(VolumesOf(e) \o rest.volumes, rest.trapped)
ReadFrom(entries, checked) ==
  LET read[i \in 1 .. EntriesInSector + 1] ==
        IF i > EntriesInSector THEN NothingRead
        ELSE EntryRead(entries, checked, i, read[i + 1])
  IN read[1]

(* A disk with neither table has no volumes and is no drive; that of MBR    *)
(* has a table and no volumes.                                              *)
Drive(disk) ==
  CASE disk.table = "gpt" -> ReadFrom(disk.entries, disk.checked)
    [] OTHER -> NothingRead
IsDrive(disk) == disk.table \in {"gpt", "mbr"}

(* A volume is found for every entry of the kinds that are supported before *)
(* the first empty or unknown one, once, in the order of the table, at the  *)
(* sectors the entry and its header give; only an EFI partition that is not *)
(* FAT32 and a sector full of entries end the kernel (GPT.swift 27-68,      *)
(* FAT.swift 229-349, EFS.swift 9-17).                                      *)
Supported(e) ==
  \/ e.type = "HFSPlus"
  \/ /\ e.type \in {"EFS", "WinData"} /\ e.header.bytesPerSector = 512
     /\ e.header.fatType \in IF e.type = "EFS" THEN {"FAT32"} ELSE FatKinds
IsVolumeOf(v, e) ==
  /\ v.first = e.first
  /\ v.kind # "HFSPlus" => v.data > v.first
  /\ e.name # "" => v.name = e.name
VolumesRight(disk) ==
  LET found == Drive(disk)
      entries == disk.entries
      shown == {i \in DOMAIN entries : \A j \in 1 .. i : Entered(entries[j])}
      supported == {i \in shown : Supported(entries[i])}
      bad == {i \in shown \ supported : entries[i].type = "EFS"}
      order(i) == Cardinality({j \in supported : j <= i})
  IN disk.table = "gpt" =>
       /\ found.trapped <=>
            bad # {} \/ (disk.checked /\ Cardinality(shown) >= EntriesInSector - 1)
       /\ ~found.trapped =>
            /\ Len(found.volumes) = Cardinality(supported)
            /\ \A i \in supported : IsVolumeOf(found.volumes[order(i)], entries[i])
=============================================================================
