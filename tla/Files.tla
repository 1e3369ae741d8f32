------------------------------- MODULE Files -------------------------------
(***************************************************************************)
(* Files on a FAT32 volume: the commands open, write and list of the shell *)
(* (Kernel/kernel/command.swift), File, TextFile and PNG, the walk along a *)
(* path in Partition.swift and the cluster chains, directories and files   *)
(* of FAT.swift, on top of the drive of AhciPort.  The machine may be      *)
(* switched off at any moment; the disk stays.                             *)
(*                                                                         *)
(* A cluster is one sector, a directory's or a file's FirstCluster fits 16 *)
(* bits (FAT.swift:174 shifts the upper half away), and no allocation      *)
(* table is cyclic.  Names are unique in their folder, on the disk in      *)
(* upper case as 8.3 names are.  What the walk passes over, parts of long  *)
(* names, labels, entries without any flag, is no entry, and so is what    *)
(* might be made out of a sector that is not a directory's.  Names are of  *)
(* ASCII, so that one written back is the one read.  The text to be        *)
(* written is in memory until it is written, as in a build that is not     *)
(* optimised; what follows it in its last sector is behind the file's end. *)
(***************************************************************************)
EXTENDS AhciPort, Sequences, FiniteSets

CONSTANTS
  Clusters,    \* the clusters of the volume, numbered from 2
  EndOfChain,  \* an entry 0x0ffffff8 or above
  RootCluster,
  Slots,       \* the places for entries in a cluster of a directory
  NoEntry,     \* a place without one
  Names,       \* names of files, with their extension, and of folders
  ShortNames,  \* the names of one character
  Texts,       \* the texts that may be written: sequences of sectors
  Pictures,    \* the sectors that begin as a PNG image does
  Images,      \* the file systems the machine may start with
  Paths,       \* the paths that may be typed, <<>> for "/" and "."
  MaxJobs,     \* bound: commands typed
  MaxFaults,   \* bound: errors of the drive, its steps after a command was
               \* given up, and times the machine is switched off by force
  MaxChain     \* bound: length of a chain read from a damaged disk

FatSector == 0
FatBuffer == 0
DirBuffer == -1
OutBuffer == -2
Page(n)   == n

(* A component as it was typed: in upper case, as on the disk, or not.     *)
Component == [name : Names, upper : BOOLEAN]

(* A file or a folder.  It is hidden with the attribute hidden or system,   *)
(* and dated if byte 12 or one of its dates, of bytes 14 to 19 and 22 to    *)
(* 25, is not zero.  A label, and an entry with no attribute at all, are    *)
(* passed over by every walk: NoEntry stands for them too.                  *)
Entry == [name : Names, folder : BOOLEAN, readOnly : BOOLEAN, hidden : BOOLEAN, text : BOOLEAN,
          dated : BOOLEAN, first : {0} \cup Clusters, size : Nat]

Tables      == [Clusters -> {0, EndOfChain} \cup Clusters]
Directories == [Slots -> Entry \cup {NoEntry}]

(* The first clusters of files and folders: an empty file has 0, and so    *)
(* has what stands for the root folder.                                    *)
Firsts == {0} \cup Clusters

ASSUME FilesAssumption ==
  /\ Sectors = {FatSector} \cup Clusters
  /\ {FatBuffer, DirBuffer, OutBuffer} \cup {Page(n) : n \in 1 .. MaxChain} = Buffers
  /\ RootCluster \in Clusters /\ 0 \notin Clusters /\ EndOfChain \notin Clusters
  /\ Images \subseteq [Sectors -> Contents] /\ Paths \subseteq Seq(Component)
  /\ \A image \in Images : image[FatSector] \in Tables
  /\ Texts \subseteq Seq(Contents) \ {<<>>}
  /\ NoEntry \notin Entry /\ Slots # {} /\ Zero \notin Tables \cup Directories
  /\ MaxChain \in Nat \ {0} /\ MaxJobs \in Nat /\ MaxFaults \in Nat

VARIABLES
  job,      \* the command typed: what, which path, which text
  at,       \* where the command is
  walk,     \* who walks along the path: TextFile, PNG, list, WriteFile
  i,        \* the component looked for
  folder,   \* the cluster of the folder looked in, 0 for the root
  entries,  \* the entries found in it, each with its place
  found,    \* the file's entry, as it will be written back
  target,   \* the first cluster of the file to be written
  cur, chain, goal,  \* a chain: its next cluster, those read, what they are for
  k,        \* the cluster of the chain worked on
  answer,   \* what the command prints
  failed,   \* a request of this command has failed
  blind,    \* the directory to be changed could not be read
  jobs, faults

search   == <<walk, i, folder, entries, found, target>>
reading  == <<cur, chain, goal, k>>
counts   == <<jobs, faults>>
fileVars == <<job, at, search, reading, answer, failed, blind, counts>>
vars     == <<portVars, fileVars>>

Place(n, s, e) == [n |-> n, slot |-> s, entry |-> e]
Answer(what, value) == [what |-> what, value |-> value]
Nothing == Answer("nothing", <<>>)
NoJob   == [op |-> "none", path |-> <<>>, text |-> <<>>]
Nowhere == Place(0, CHOOSE s \in Slots : TRUE, NoEntry)

Init ==
  /\ PowerOn /\ disk \in Images
  /\ job = NoJob /\ at = "boot"
  /\ walk = "list" /\ i = 1 /\ folder = 0 /\ entries = {} /\ found = Nowhere
  /\ target = 0 /\ cur = 0 /\ chain = <<>> /\ goal = "list" /\ k = 1
  /\ answer = Nothing /\ failed = FALSE /\ blind = FALSE
  /\ jobs = 0 /\ faults = 0

----------------------------------------------------------------------------
(* Requests.                                                               *)

(* The directory with the file's entry in its place.  What could not be    *)
(* read is zeros, that is, no entries.                                     *)
Merged(content) ==
  LET slots == IF content \in Directories THEN content
               ELSE [s \in Slots |-> NoEntry]
  IN IF k = found.n THEN [slots EXCEPT ![found.slot] = found.entry] ELSE slots

(* MUTANT: what follows the text is left as it was in its cluster.         *)
PieceOrOld(n) == IF n <= Len(job.text) THEN job.text[n] ELSE disk[chain[n]]

(* The n-th sector of the file written: zeros behind the end of the text.  *)
Piece(n) == IF n <= Len(job.text) THEN job.text[n] ELSE Zero

(* What the command asks the drive for: to read into a new buffer, or to   *)
(* write its data.                                                         *)
AskDrive ==
  /\ \/ at = "boot"  /\ Ask(Request("standby", FatSector, FatBuffer), Zero)
     \/ at = "chain" /\ Ask(Request("read", FatSector, FatBuffer), Zero)
     \/ at = "list"  /\ Ask(Request("read", chain[k], DirBuffer), Zero)
     \/ at = "load"  /\ Ask(Request("read", chain[k], Page(k)), Zero)
     \/ at = "merge" /\ Ask(Request("read", chain[k], DirBuffer), Zero)
     \/ at = "put"   /\ Ask(Request("write", chain[k], DirBuffer),
                            Merged(mem[DirBuffer]))
     \/ at = "store" /\ Ask(Request("write", chain[k], OutBuffer), Piece(k))
  /\ UNCHANGED fileVars

(* The request is done, or has failed: its buffer is used in any case.     *)
Back(step) ==
  /\ at = step /\ Resume
  /\ failed' = (failed \/ ~ok)
  /\ UNCHANGED <<job, counts>>

Booted ==
  /\ Back("boot")
  /\ at' = "prompt"
  /\ UNCHANGED <<search, reading, answer, blind>>

----------------------------------------------------------------------------
(* Cluster chains.                                                         *)

(* The root's cluster stands for 0.                                        *)
Start(first) == IF first = 0 THEN RootCluster ELSE first

(* GetClusterChain() begins.                                               *)
Follow(first, for) ==
  /\ cur' = Start(first)
  /\ chain' = <<>> /\ goal' = for /\ k' = 1
  /\ at' = "chain"

(* The entry of the table for cur; anything, if it is not the table.       *)
Links ==
  LET sector == mem[FatBuffer]
  IN IF sector \in Tables THEN {sector[cur]}
     ELSE IF sector = Zero THEN {0} ELSE {0, EndOfChain} \cup Clusters

ReadLink ==
  /\ Back("chain")
  /\ \E next \in Links :
       /\ chain' = Append(chain, cur)
       /\ cur' = next
       /\ at' = IF next \in {0, EndOfChain} \/ Len(chain') = MaxChain
                THEN goal ELSE "chain"
  /\ UNCHANGED <<search, goal, k, answer, blind>>

----------------------------------------------------------------------------
(* The walk along a path.                                                  *)

(* A first component of one character is passed over.                      *)
Begin(path) == IF path # <<>> /\ path[1].name \in ShortNames THEN 2 ELSE 1

(* ReadFile(fromPath:), ReadFolder(fromPath:) or WriteFile(fromPath:)      *)
(* starts in the root folder.                                              *)
Walk(who, path) ==
  /\ walk' = who /\ i' = Begin(path) /\ folder' = 0 /\ entries' = {}
  /\ Follow(0, "list")

(* A command is typed; its buffers will be new ones.  Swift stops the      *)
(* kernel at path[i] if the path has no i-th component.                    *)
Type(op, path, text) ==
  /\ at = "prompt" /\ jobs < MaxJobs
  /\ jobs' = jobs + 1
  /\ job' = [op |-> op, path |-> path, text |-> text]
  /\ failed' = FALSE /\ blind' = FALSE /\ answer' = Nothing
  /\ found' = Nowhere /\ target' = 0
  /\ mem' = [b \in Buffers |-> Zero]
  /\ IF op = "list" /\ path = <<>> THEN Walk("listed", path)
     ELSE IF Begin(path) <= Len(path)
     THEN Walk(IF op = "list" THEN "list" ELSE "text", path)
     ELSE /\ at' = "stopped"
          /\ UNCHANGED <<walk, i, folder, entries, reading>>
  /\ UNCHANGED <<driver, drive, faults>>

EntriesIn(content, n) ==
  IF content \in Directories
  THEN {Place(n, s, content[s]) : s \in {t \in Slots : content[t] # NoEntry}}
  ELSE {}

(* ReadDirectory(), one cluster.                                           *)
ReadEntries ==
  /\ Back("list")
  /\ entries' = entries \cup EntriesIn(mem[DirBuffer], k)
  /\ k' = k + 1
  /\ at' = IF k = Len(chain) THEN "search" ELSE "list"
  /\ UNCHANGED <<walk, i, folder, found, target, cur, chain, goal, answer, blind>>

Says(what, value) == answer' = Answer(what, value) /\ at' = "prompt"

Searching == at = "search" /\ UNCHANGED <<portVars, job, failed, blind, counts>>

(* The entries with the name looked for, typed in upper case or not.       *)
Here == {p \in entries : i <= Len(job.path) /\ p.entry.name = job.path[i].name}

(* The files the walk takes for the one it looks for.  WriteFile's test,   *)
(* a == b || CaseSensitive ? false : c, is no for a name that is equal.    *)
Matching ==
  {p \in Here : /\ ~p.entry.folder
                /\ walk \in {"text", "png", "update"}
                /\ walk = "update" => ~job.path[i].upper /\ ~p.entry.readOnly}

Folders == {p \in Here : p.entry.folder /\ (walk = "update" => ~p.entry.readOnly)}

Enter ==
  /\ Searching /\ Matching = {}
  /\ \E p \in Folders :
       /\ folder' = p.entry.first
       /\ Follow(p.entry.first, "list")
  /\ walk' = IF walk = "list" /\ i = Len(job.path) THEN "listed" ELSE walk
  /\ i' = i + 1 /\ entries' = {}
  /\ UNCHANGED <<found, target, answer>>

(* MUTANT: what is hidden is listed as well.                               *)
AllNamesListed(places) == {p.entry.name : p \in places}

(* What list prints of a folder: the walk goes through hidden folders and  *)
(* to hidden files all the same.                                           *)
NamesListed(places) == {p.entry.name : p \in {q \in places : ~q.entry.hidden}}

List ==
  /\ Searching /\ walk = "listed"
  /\ Says("list", NamesListed(entries))
  /\ UNCHANGED <<search, reading>>

(* A file is found; one without a cluster is taken for a directory.        *)
FindFile ==
  /\ Searching /\ walk \in {"text", "png"}
  /\ \E p \in Matching :
       /\ p.entry.first # 0
       /\ found' = p
       /\ Follow(p.entry.first, "load")
  /\ UNCHANGED <<walk, i, folder, entries, target, answer>>

(* The walk ends without a file: after TextFile, open tries PNG; WriteFile *)
(* returns without a word.                                                 *)
FindNothing ==
  /\ Searching /\ walk # "listed"
  /\ Folders = {} /\ \A p \in Matching : walk # "update" /\ p.entry.first = 0
  /\ IF walk = "text" /\ job.op = "open"
     THEN Walk("png", job.path) /\ UNCHANGED <<found, target, answer>>
     ELSE /\ IF walk = "update" THEN at' = "written" /\ UNCHANGED answer
                                ELSE Says("not found", <<>>)
          /\ UNCHANGED <<search, reading>>

----------------------------------------------------------------------------
(* Files.                                                                  *)

Loaded == [n \in 1 .. Len(chain) |-> mem[Page(n)]]

(* MUTANT: the dates are written back.                                     *)
ComputedWithDates(e, n) == [e EXCEPT !.size = n]

(* The bytes of an entry read, with a new size: what init() did not take   *)
(* out of them, or what computed does not put back, is zero.               *)
Computed(e, n) == [e EXCEPT !.size = n, !.dated = FALSE]

(* ReadFile(fromCluster:), one cluster.  With the last one, TextFile looks *)
(* at the extension: if it is another, it frees the data twice and the     *)
(* poison runs over all memory.  write goes on to the text's setter.       *)
ReadPage ==
  /\ Back("load")
  /\ \/ /\ k < Len(chain) /\ k' = k + 1
        /\ UNCHANGED <<at, search, cur, chain, goal, answer>>
     \/ /\ k = Len(chain) /\ walk = "text" /\ ~found.entry.text
        /\ at' = "stopped"
        /\ UNCHANGED <<search, reading, answer>>
     \/ /\ k = Len(chain) /\ walk = "text" /\ found.entry.text /\ job.op = "write"
        /\ found' = [found EXCEPT !.entry = Computed(found.entry, Len(job.text))]
        /\ Walk("update", job.path)
        /\ UNCHANGED <<target, answer>>
     \/ /\ k = Len(chain) /\ job.op = "open" /\ (walk = "png" \/ found.entry.text)
        /\ IF walk = "png" /\ Loaded[1] \notin Pictures
           THEN Says("not found", <<>>) ELSE Says("file", Loaded)
        /\ UNCHANGED <<search, reading>>
  /\ UNCHANGED blind

(* WriteFile(fromPath:) has found the file: WriteDirectory() comes first.  *)
FindTarget ==
  /\ Searching /\ walk = "update"
  /\ \E p \in Matching : target' = p.entry.first
  /\ Follow(folder, "merge")
  /\ UNCHANGED <<walk, i, folder, entries, found, answer>>

(* Each cluster of the directory is read ...                               *)
ReadCopy ==
  /\ Back("merge")
  /\ at' = "put"
  /\ blind' = (blind \/ ~ok)
  /\ UNCHANGED <<search, reading, answer>>

(* ... and written back, then WriteFile(fromCluster:) follows the file.    *)
(* That one has a cluster: TextFile has read it.                           *)
WriteCopy ==
  /\ Back("put")
  /\ IF k < Len(chain)
     THEN k' = k + 1 /\ at' = "merge" /\ UNCHANGED <<cur, chain, goal>>
     ELSE Follow(target, "store")
  /\ UNCHANGED <<search, answer, blind>>

WritePage ==
  /\ Back("store")
  /\ k' = k + 1
  /\ at' = IF k = Len(chain) THEN "written" ELSE "store"
  /\ UNCHANGED <<search, cur, chain, goal, answer, blind>>

(* The file object goes.  Its data is the array of the setter, which is    *)
(* gone: free() takes its length from the poison.                          *)
Deinit ==
  /\ at = "written"
  /\ at' = "stopped"
  /\ UNCHANGED <<portVars, job, search, reading, answer, failed, blind, counts>>

----------------------------------------------------------------------------
(* The machine is switched off and on, by force or after it stopped.  What *)
(* follows a command that was given up is not looked at.                   *)
Restart ==
  /\ ~givenUp
  /\ IF at = "stopped" THEN UNCHANGED faults
     ELSE faults < MaxFaults /\ faults' = faults + 1
  /\ PowerCycle
  /\ job' = NoJob /\ at' = "boot"
  /\ walk' = "list" /\ i' = 1 /\ folder' = 0 /\ entries' = {} /\ found' = Nowhere
  /\ target' = 0 /\ cur' = 0 /\ chain' = <<>> /\ goal' = "list" /\ k' = 1
  /\ answer' = Nothing /\ failed' = FALSE /\ blind' = FALSE
  /\ UNCHANGED jobs

DriveFails ==
  /\ Fail
  /\ faults < MaxFaults /\ faults' = faults + 1
  /\ UNCHANGED <<job, at, search, reading, answer, failed, blind, jobs>>

Commit == (Issue \/ Poll) /\ UNCHANGED fileVars

DriveWorks ==
  /\ Fetch \/ Move \/ Complete
  /\ faults' = IF givenUp THEN faults + 1 ELSE faults
  /\ faults' <= MaxFaults
  /\ UNCHANGED <<job, at, search, reading, answer, failed, blind, jobs>>

(* The kernel runs, and interrupts go on.                                  *)
Runs ==
  \/ AskDrive \/ Booted \/ ReadLink \/ ReadEntries
  \/ Enter \/ List \/ FindFile \/ FindNothing \/ ReadPage
  \/ FindTarget \/ ReadCopy \/ WriteCopy \/ WritePage \/ Deinit
  \/ Commit

Next ==
  \/ \E op \in {"open", "list"}, path \in Paths : Type(op, path, <<>>)
  \/ \E path \in Paths, text \in Texts : Type("write", path, text)
  \/ Runs \/ DriveWorks \/ DriveFails \/ Restart

(* The drive owes nothing.                                                 *)
Spec == Init /\ [][Next]_vars /\ WF_vars(Runs)

----------------------------------------------------------------------------
(* What is on a volume v: its sectors.                                     *)

(* The clusters of a file or folder, by its first one.                     *)
ChainOn(v, first) ==
  LET upTo[n \in 1 .. MaxChain] ==
        IF n = 1 THEN <<Start(first)>>
        ELSE LET before == upTo[n - 1]
                 next   == v[FatSector][before[Len(before)]]
             IN IF next \in {0, EndOfChain} THEN before ELSE Append(before, next)
  IN upTo[MaxChain]

(* The entries of a folder.                                                *)
EntriesOn(v, first) ==
  LET clusters == ChainOn(v, first)
  IN UNION {EntriesIn(v[clusters[n]], n) : n \in 1 .. Len(clusters)}

(* The folders that the first n names of a path lead to: one or none.      *)
FoldersIn(v, folders, name) ==
  {p.entry.first : p \in {q \in UNION {EntriesOn(v, f) : f \in folders} :
                            q.entry.folder /\ q.entry.name = name}}

FoldersOn(v, path, n) ==
  LET after[m \in 0 .. n] == IF m = 0 THEN {0} ELSE FoldersIn(v, after[m - 1], path[m].name)
  IN after[n]

(* The file a path leads to, if any, with its folder: the first one on the *)
(* way.                                                                    *)
FilesIn(v, first, name) ==
  {[folder |-> first, place |-> p] :
     p \in {q \in EntriesOn(v, first) : ~q.entry.folder /\ q.entry.name = name}}

FilesOn(v, path) ==
  UNION {UNION {FilesIn(v, f, path[n].name) : f \in FoldersOn(v, path, n - 1)} :
         n \in 1 .. Len(path)}

ContentOn(v, first) ==
  LET clusters == ChainOn(v, first)
  IN [n \in 1 .. Len(clusters) |-> v[clusters[n]]]

(* A file system as it should be: no chain is cyclic, names are unique in  *)
(* their folder, what a folder has is a directory, and no file shares a    *)
(* cluster with a folder.  Nothing is said of files that share clusters.   *)
ClustersOf(v, first) == LET c == ChainOn(v, first) IN {c[n] : n \in 1 .. Len(c)}

Straight(v, first) ==
  LET c == ChainOn(v, first) IN \A m, n \in 1 .. Len(c) : c[m] = c[n] => m = n

OffFolders(v, folders, first) ==
  \A f \in folders : ClustersOf(v, f) \cap ClustersOf(v, first) = {}

Proper(v, folders) ==
  /\ 0 \in folders
  /\ \A f \in folders :
       /\ Straight(v, f) /\ \A c \in ClustersOf(v, f) : v[c] \in Directories
       /\ \A p, q \in EntriesOn(v, f) : p.entry.name = q.entry.name => p = q
       /\ \A p \in EntriesOn(v, f) :
            IF p.entry.folder THEN p.entry.first \in folders
            ELSE p.entry.first # 0 => /\ Straight(v, p.entry.first)
                                      /\ OffFolders(v, folders, p.entry.first)

Sane(v) == \E folders \in SUBSET Firsts : Proper(v, folders)

ASSUME ImagesAssumption == \A image \in Images : Sane(image)

ChainOf(first)     == ChainOn(disk, first)
In(first)          == EntriesOn(disk, first)
FoldersAt(path, n) == FoldersOn(disk, path, n)
FilesAt(path)      == FilesOn(disk, path)
Content(first)     == ContentOn(disk, first)

----------------------------------------------------------------------------
(* Properties.                                                             *)

(* The types of the variables.                                             *)
TypeOK ==
  /\ PortTypeOK
  /\ job.op \in {"none", "open", "list", "write"} /\ job.path \in Paths \cup {<<>>}
  /\ job.text \in Texts \cup {<<>>}
  /\ at \in {"boot", "prompt", "chain", "list", "search", "load", "merge", "put",
             "store", "written", "stopped"}
  /\ walk \in {"text", "png", "list", "listed", "update"}
  /\ i \in Nat \ {0} /\ folder \in {0} \cup Clusters
  /\ \A p \in entries : p.n \in 1 .. MaxChain /\ p.slot \in Slots /\ p.entry \in Entry
  /\ found = Nowhere \/ found.entry \in Entry
  /\ target \in {0} \cup Clusters
  /\ cur \in {0, EndOfChain} \cup Clusters
  /\ Len(chain) <= MaxChain /\ \A n \in 1 .. Len(chain) : chain[n] \in Clusters
  /\ goal \in {"list", "load", "merge", "store"}
  /\ k \in 1 .. MaxChain + 1
  /\ failed \in BOOLEAN /\ blind \in BOOLEAN
  /\ jobs \in 0 .. MaxJobs /\ faults \in 0 .. MaxFaults

(* The path is looked up from its first name on.                           *)
Whole(path) == Begin(path) = 1

Sound == ~failed /\ ~givenUp

(* The names a folder shows: all but those of hidden entries.              *)
Shown(places) == {p.entry.name : p \in places \ {q \in places : q.entry.hidden}}

(* When no request has failed, the shell prints what is on the disk: of    *)
(* open, the whole chain of the file the path leads to, of list, the names *)
(* in the folder that are not hidden, over all clusters of each directory  *)
(* on the way; and that there is none exactly if there is none             *)
(* (Partition.swift 24-108, FAT.swift 351-416, command.swift 368-377).     *)
AnswerRight ==
  at = "prompt" /\ job # NoJob /\ Sound /\ Whole(job.path) =>
    LET files   == {f \in FilesAt(job.path) : f.place.entry.first # 0}
        folders == FoldersAt(job.path, Len(job.path))
    IN CASE job.op = "open"  ->
              answer \in IF files = {} THEN {Answer("not found", <<>>)}
                         ELSE {Answer("file", Content(f.place.entry.first)) : f \in files}
         [] job.op = "list"  ->
              answer \in IF folders = {} THEN {Answer("not found", <<>>)}
                         ELSE {Answer("list", Shown(In(f))) : f \in folders}
         [] job.op = "write" ->
              files = {} /\ answer = Answer("not found", <<>>)

(* Whatever is typed, wherever a request fails and whenever the machine is *)
(* switched off, the disk changes only where the file named by a write is: *)
(* in its clusters and in its entry, which gets the size of the text and   *)
(* loses its dates, as the code writes it.  This does not hold when the    *)
(* directory could not be read before it is written (FAT.swift 134-215,    *)
(* 376-435), nor after a command was given up.                             *)
OnlyTheNamedFile ==
  [][disk' # disk /\ ~blind' /\ ~givenUp' /\ Whole(job.path) =>
       /\ job.op = "write"
       /\ \E f \in FilesAt(job.path) :
            LET p == f.place
                d == ChainOf(f.folder)[p.n]
                c == ChainOf(p.entry.first)
            IN \E s \in {d} \cup {c[n] : n \in 1 .. Len(c)} :
                 /\ \A other \in Sectors \ {s} : disk'[other] = disk[other]
                 /\ s = d => disk'[s] = [disk[s] EXCEPT ![p.slot] =
                                          [p.entry EXCEPT !.size = Len(job.text), !.dated = FALSE]]]_vars

(* The text is on the disk, as far as the file's clusters go, with zeros   *)
(* behind it, and the size is in the entry.                                *)
Written(f) ==
  LET p == f.place
      c == ChainOf(p.entry.first)
  IN /\ p.entry.size = Len(job.text)
     /\ \A n \in 1 .. Len(c) :
          disk[c[n]] = IF n > Len(job.text) THEN Zero ELSE job.text[n]

(* The files a write may change.                                           *)
Writable(path) ==
  {f \in FilesAt(path) : /\ f.place.entry.first # 0 /\ ~f.place.entry.readOnly
                         /\ \A n \in 1 .. Len(path) :
                              \A q \in UNION {In(g) : g \in FoldersAt(path, n - 1)} :
                                q.entry.name = path[n].name => ~q.entry.readOnly}

(* No name of a file is typed in capitals.                                 *)
FileInLowerCase(path) == \A n \in 1 .. Len(path) : path[n].upper => FoldersAt(path, n) # {}

(* When no request has failed, a write to a file and through folders that  *)
(* are not read-only has written the text before the file object goes, if  *)
(* the file's name was not typed in capitals (TextFile.swift 17-23,        *)
(* Partition.swift 110-149).                                               *)
WriteLands ==
  at = "written" /\ Sound /\ Whole(job.path) /\ FileInLowerCase(job.path)
    => \A f \in Writable(job.path) : Written(f)

(* The shell's help says of write: "Writes file to disk".  A file whose    *)
(* name is typed as it is in its directory is not written                  *)
(* (Partition.swift 132).                                                  *)
WriteTakesEffect ==
  at = "written" /\ Sound /\ Whole(job.path)
    => \A f \in Writable(job.path) : Written(f)

(* A command ends, at the prompt or with the kernel, even if the drive     *)
(* never answers again (AHCI.swift 193-208).                               *)
CommandReturns == at \notin {"prompt", "stopped"} ~> at \in {"prompt", "stopped"}
=============================================================================
