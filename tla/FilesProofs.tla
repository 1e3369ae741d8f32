---------------------------- MODULE FilesProofs ----------------------------
(***************************************************************************)
(* Files on any volume that is a file system as it should be, with any     *)
(* number of commands, errors and restarts, until a request is given up:   *)
(* a request reported done is done; the volume stays such a file system    *)
(* and changes only where the named file is; and, if no request failed,    *)
(* what the shell prints is what is on the disk and what a write was given *)
(* is written.                                                             *)
(*                                                                         *)
(* Requests; chains, folders and files of a volume; the walk; what a write *)
(* changes, whatever fails; what it leaves when nothing does.              *)
(***************************************************************************)
EXTENDS Files, WellFoundedInduction, TLAPS

(* What the slot's command table says is what the driver works on.         *)
Matches ==
  /\ table.op = req.op /\ table.lba = req.lba
  /\ req.op # "standby" => table.buf = req.buf

(* The drive works only on the request polled for, and the slot's bit is   *)
(* cleared either with the work done or with the error bit set.            *)
Working ==
  /\ device \in {"busy", "moved"} => fetched = table
  /\ device # "ready" => ci
  /\ device = "moved" => Done(req)
  /\ ~ci /\ ~err => Done(req)

PortInv ==
  /\ mem = [b \in Buffers |-> mem[b]] /\ disk = [s \in Sectors |-> disk[s]]
  /\ req \in Requests /\ table \in Requests
  /\ pc \in {"idle", "issue", "poll", "returned"}
  /\ device \in {"ready", "busy", "moved", "halted"}
  /\ ~givenUp =>
       /\ pc # "poll" => ~ci /\ device = "ready"
       /\ pc \in {"issue", "poll"} => Matches
       /\ pc = "poll" => Working
       /\ pc = "returned" /\ ok => Done(req)

(* Only a step that has asked for something waits for the drive.           *)
IdleInv == at \in {"prompt", "search", "written", "stopped"} => pc = "idle"

IInv == PortInv /\ IdleInv

(* There is a request to go to sleep.                                      *)
LEMMA AsleepRequest == Asleep \in Requests /\ Asleep.op = "standby"
<1>1. PICK s \in Sectors, b \in Buffers : TRUE
  BY PortAssumption
<1>2. /\ [op |-> "standby", lba |-> s, buf |-> b] \in Requests
      /\ [op |-> "standby", lba |-> s, buf |-> b].op = "standby"
  BY <1>1 DEF Requests
<1> QED
  BY <1>2 DEF Asleep

(* Filling the command table.                                              *)
LEMMA AskInv ==
  ASSUME NEW r, NEW content, PortInv, Ask(r, content)
  PROVE  PortInv'
<1> USE DEF PortInv, Ask
<1>1. /\ pc = "idle" /\ pc' = "issue" /\ r \in Requests /\ req' = r
      /\ UNCHANGED <<ok, givenUp, disk, ci, err, device, fetched>>
  BY DEF drive
<1>2. mem' = [b \in Buffers |-> mem'[b]]
  OBVIOUS
<1>3. table' \in Requests /\ table'.op = r.op /\ table'.lba = r.lba
      /\ (r.op # "standby" => table'.buf = r.buf)
  BY DEF Requests
<1>4. Matches'
  BY <1>1, <1>3 DEF Matches
<1> QED
  BY <1>1, <1>2, <1>3, <1>4

LEMMA IssueInv ==
  ASSUME PortInv, Issue
  PROVE  PortInv'
<1>1. /\ pc = "issue" /\ pc' = "poll" /\ ci' = TRUE
      /\ UNCHANGED <<mem, table, req, ok, givenUp, disk, err, device, fetched>>
  BY DEF Issue
<1>2. ~givenUp => device = "ready" /\ Matches
  BY <1>1 DEF PortInv
<1>3. ~givenUp' => Working' /\ Matches'
  BY <1>1, <1>2 DEF Working, Matches
<1> QED
  BY <1>1, <1>3 DEF PortInv

LEMMA PollInv ==
  ASSUME PortInv, Poll
  PROVE  PortInv'
<1>1. /\ pc = "poll"
      /\ UNCHANGED <<mem, table, req, disk, ci, err, device, fetched>>
  BY DEF Poll, drive
<1>2. (Done(req) <=> Done(req)') /\ (Matches <=> Matches')
  BY <1>1 DEF Done, Matches
<1>3. CASE ~ci /\ pc' = "returned" /\ ok' = (~err) /\ UNCHANGED givenUp
  <2>1. ~givenUp => Working
    BY <1>1 DEF PortInv
  <2>2. ~givenUp' => ~ci' /\ device' = "ready" /\ (ok' => Done(req)')
    BY <1>1, <1>2, <1>3, <2>1 DEF Working, PortInv
  <2> QED
    BY <1>1, <1>3, <2>2 DEF PortInv
<1>4. CASE UNCHANGED <<ok, pc, givenUp>>
  <2>1. Working <=> Working'
    BY <1>1, <1>2 DEF Working
  <2> QED
    BY <1>1, <1>2, <1>4, <2>1 DEF PortInv
<1>5. CASE givenUp' = TRUE /\ pc' = "returned"
  BY <1>1, <1>5 DEF PortInv
<1> QED
  BY <1>3, <1>4, <1>5 DEF Poll, Cleared, NoError

LEMMA ResumeInv ==
  ASSUME PortInv, Resume
  PROVE  PortInv'
<1>1. /\ pc = "returned" /\ pc' = "idle"
      /\ UNCHANGED <<mem, table, req, ok, givenUp, disk, ci, err, device, fetched>>
  BY DEF Resume, Returned, drive
<1> QED
  BY <1>1 DEF PortInv

LEMMA FetchInv ==
  ASSUME PortInv, Fetch
  PROVE  PortInv'
<1>1. /\ ci /\ device = "ready" /\ device' = "busy" /\ fetched' = table
      /\ UNCHANGED <<mem, table, req, pc, ok, givenUp, disk, ci, err>>
  BY DEF Fetch, driver
<1>2. ~givenUp => pc = "poll"
  BY <1>1 DEF PortInv
<1>3. Working' /\ (Matches <=> Matches')
  BY <1>1 DEF Working, Matches
<1> QED
  BY <1>1, <1>2, <1>3 DEF PortInv

(* The drive moves a sector: with the right command, what was asked for.   *)
LEMMA MoveInv ==
  ASSUME PortInv, Move
  PROVE  PortInv'
<1>1. /\ device = "busy" /\ device' = "moved"
      /\ UNCHANGED <<table, req, pc, ok, givenUp, ci, err, fetched>>
  BY DEF Move, driver
<1>2. PICK b \in {fetched.buf, table.buf} :
        /\ mem' = IF fetched.op = "read"
                  THEN [mem EXCEPT ![b] = disk[fetched.lba]] ELSE mem
        /\ disk' = IF fetched.op = "write"
                   THEN [disk EXCEPT ![fetched.lba] = mem[b]] ELSE disk
  BY DEF Move
<1>3. /\ mem' = [c \in Buffers |-> mem'[c]]
      /\ disk' = [s \in Sectors |-> disk'[s]]
  BY <1>2 DEF PortInv
<1>4. ASSUME ~givenUp
      PROVE  pc = "poll" /\ Matches /\ fetched = table /\ ci
  BY <1>1, <1>4 DEF PortInv, Working
<1>5. ASSUME ~givenUp
      PROVE  Done(req)'
  <2>1. CASE req.op = "read"
    <3>1. b = req.buf /\ fetched.op = "read" /\ fetched.lba = req.lba
      BY <1>4, <1>5, <1>2, <2>1 DEF Matches
    <3>2. req.buf \in Buffers /\ disk' = disk
      BY <3>1, <1>2 DEF PortInv, Requests
    <3>3. mem'[req.buf] = disk[req.lba]
      BY <3>1, <3>2, <1>2 DEF PortInv
    <3> QED
      BY <3>2, <3>3, <1>1 DEF Done
  <2>2. CASE req.op = "write"
    <3>1. b = req.buf /\ fetched.op = "write" /\ fetched.lba = req.lba
      BY <1>4, <1>5, <1>2, <2>2 DEF Matches
    <3>2. req.lba \in Sectors /\ mem' = mem
      BY <3>1, <1>2 DEF PortInv, Requests
    <3>3. disk'[req.lba] = mem[req.buf]
      BY <3>1, <3>2, <1>2 DEF PortInv
    <3> QED
      BY <3>2, <3>3, <1>1 DEF Done
  <2>3. CASE req.op \notin {"read", "write"}
    BY <2>3, <1>1 DEF Done
  <2> QED
    BY <2>1, <2>2, <2>3
<1>6. ASSUME ~givenUp
      PROVE  pc' = "poll" /\ Matches' /\ Working'
  BY <1>1, <1>4, <1>5, <1>6 DEF Matches, Working
<1> QED
  BY <1>1, <1>3, <1>6 DEF PortInv

LEMMA CompleteInv ==
  ASSUME PortInv, Complete
  PROVE  PortInv'
<1>1. /\ device = "moved" /\ device' = "ready" /\ ci' = FALSE
      /\ UNCHANGED <<mem, table, req, pc, ok, givenUp, disk, fetched>>
  BY DEF Complete, driver
<1>2. (Done(req) <=> Done(req)') /\ (Matches <=> Matches')
  BY <1>1 DEF Done, Matches
<1>3. ASSUME ~givenUp
      PROVE  pc = "poll" /\ Matches /\ Done(req)
  BY <1>1, <1>3 DEF PortInv, Working
<1>4. ASSUME ~givenUp
      PROVE  Working'
  BY <1>1, <1>2, <1>3, <1>4 DEF Working
<1> QED
  BY <1>1, <1>2, <1>3, <1>4 DEF PortInv

LEMMA FailInv ==
  ASSUME PortInv, Fail
  PROVE  PortInv'
<1>1. /\ device \in {"busy", "moved"} /\ err' = TRUE
      /\ UNCHANGED <<mem, table, req, pc, ok, givenUp, disk, fetched>>
      /\ \/ ci' = FALSE /\ device' = "ready"
         \/ UNCHANGED ci /\ device' = "halted"
  BY DEF Fail, driver
<1>2. ASSUME ~givenUp
      PROVE  pc = "poll" /\ Matches /\ ci
  BY <1>1, <1>2 DEF PortInv, Working
<1>3. ASSUME ~givenUp
      PROVE  Working'
  <2>1. CASE ci' = FALSE /\ device' = "ready"
    BY <1>1, <2>1 DEF Working
  <2>2. CASE UNCHANGED ci /\ device' = "halted"
    BY <1>1, <1>2, <1>3, <2>2 DEF Working
  <2> QED
    BY <1>1, <2>1, <2>2
<1>4. Matches <=> Matches'
  BY <1>1 DEF Matches
<1> QED
  BY <1>1, <1>2, <1>3, <1>4 DEF PortInv

LEMMA PowerCycleInv ==
  ASSUME PortInv, PowerCycle
  PROVE  PortInv'
BY AsleepRequest DEF PortInv, PowerCycle

(* Between two requests the buffers are the caller's.                      *)
LEMMA BuffersInv ==
  ASSUME PortInv, pc = "idle", UNCHANGED <<driver, drive>>,
         mem' = [b \in Buffers |-> mem'[b]]
  PROVE  PortInv'
BY DEF PortInv, driver, drive

LEMMA StutterInv ==
  ASSUME PortInv, UNCHANGED portVars
  PROVE  PortInv'
BY DEF PortInv, portVars, driver, drive, Matches, Working, Done

LEMMA Initial == Init => IInv
<1> SUFFICES ASSUME Init
             PROVE  IInv
  OBVIOUS
<1>1. disk \in [Sectors -> Contents]
  BY FilesAssumption DEF Init
<1>2. PortInv
  BY <1>1, AsleepRequest DEF Init, PowerOn, PortInv
<1>3. IdleInv
  BY DEF Init, PowerOn, IdleInv
<1> QED
  BY <1>2, <1>3 DEF IInv

(* A step of the kernel that goes on from a request.                       *)
LEMMA BackInv ==
  ASSUME IInv, NEW step, Back(step)
  PROVE  IInv'
<1>1. Resume /\ pc' = "idle"
  BY DEF Back, Resume, Returned
<1> QED
  BY <1>1, ResumeInv DEF IInv, IdleInv

(* A step of the kernel between two requests.                              *)
LEMMA SearchInv ==
  ASSUME IInv, at = "search" \/ at = "written", UNCHANGED portVars
  PROVE  IInv'
<1>1. pc = "idle" /\ pc' = pc
  BY DEF IInv, IdleInv, portVars, driver
<1> QED
  BY <1>1, StutterInv DEF IInv, IdleInv

LEMMA AskDriveInv ==
  ASSUME IInv, AskDrive
  PROVE  IInv'
<1>1. PICK r, content : Ask(r, content)
  BY DEF AskDrive
<1>2. at \notin {"prompt", "search", "written", "stopped"} /\ at' = at
  BY DEF AskDrive, fileVars
<1> QED
  BY <1>1, <1>2, AskInv DEF IInv, IdleInv

LEMMA TypeInv ==
  ASSUME IInv, NEW op, NEW path, NEW text, Type(op, path, text)
  PROVE  IInv'
<1>1. /\ at = "prompt" /\ UNCHANGED <<driver, drive>>
      /\ mem' = [b \in Buffers |-> Zero]
  BY DEF Type
<1>2. pc = "idle" /\ pc' = pc
  BY <1>1 DEF IInv, IdleInv, driver
<1>3. mem' = [b \in Buffers |-> mem'[b]]
  BY <1>1
<1> QED
  BY <1>1, <1>2, <1>3, BuffersInv DEF IInv, IdleInv

LEMMA KernelInv ==
  ASSUME IInv, Runs
  PROVE  IInv'
<1>1. CASE AskDrive
  BY <1>1, AskDriveInv
<1>2. CASE Booted \/ ReadLink \/ ReadEntries \/ ReadPage \/ ReadCopy \/ WriteCopy \/ WritePage
  <2>1. \E step : Back(step)
    BY <1>2 DEF Booted, ReadLink, ReadEntries, ReadPage, ReadCopy, WriteCopy, WritePage
  <2> QED
    BY <2>1, BackInv
<1>3. CASE Enter \/ List \/ FindFile \/ FindNothing \/ FindTarget \/ Deinit
  <2>1. (at = "search" \/ at = "written") /\ UNCHANGED portVars
    BY <1>3 DEF Enter, List, FindFile, FindNothing, FindTarget, Deinit, Searching
  <2> QED
    BY <2>1, SearchInv
<1>4. CASE Commit
  <2>1. PortInv'
    BY <1>4, IssueInv, PollInv DEF Commit, IInv
  <2>2. pc # "idle" /\ at' = at
    BY <1>4 DEF Commit, Issue, Poll, fileVars
  <2> QED
    BY <2>1, <2>2 DEF IInv, IdleInv
<1> QED
  BY <1>1, <1>2, <1>3, <1>4 DEF Runs

LEMMA DriveInv ==
  ASSUME IInv, DriveWorks \/ DriveFails
  PROVE  IInv'
<1>1. PortInv'
  BY FetchInv, MoveInv, CompleteInv, FailInv DEF DriveWorks, DriveFails, IInv
<1>2. UNCHANGED <<pc, at>>
  BY DEF DriveWorks, DriveFails, Fetch, Move, Complete, Fail, driver
<1> QED
  BY <1>1, <1>2 DEF IInv, IdleInv

LEMMA RestartInv ==
  ASSUME IInv, Restart
  PROVE  IInv'
<1>1. PowerCycle /\ pc' = "idle"
  BY DEF Restart, PowerCycle
<1> QED
  BY <1>1, PowerCycleInv DEF IInv, IdleInv

LEMMA NextInv == IInv /\ [Next]_vars => IInv'
<1> SUFFICES ASSUME IInv, [Next]_vars
             PROVE  IInv'
  OBVIOUS
<1>1. CASE \E op, path, text : Type(op, path, text)
  BY <1>1, TypeInv
<1>2. CASE Runs
  BY <1>2, KernelInv
<1>3. CASE DriveWorks \/ DriveFails
  BY <1>3, DriveInv
<1>4. CASE Restart
  BY <1>4, RestartInv
<1>5. CASE UNCHANGED vars
  <2>1. UNCHANGED portVars /\ UNCHANGED <<pc, at>>
    BY <1>5 DEF vars, portVars, driver, fileVars
  <2> QED
    BY <2>1, StutterInv DEF IInv, IdleInv
<1> QED
  BY <1>1, <1>2, <1>3, <1>4, <1>5 DEF Next

LEMMA Invariance == Spec => []IInv
BY Initial, NextInv, PTL DEF Spec

(* Whatever the volume, the commands, the errors and the power cuts, a     *)
(* request that AHCI.swift reports done is done, until one was given up.   *)
THEOREM SuccessSafe == Spec => []SuccessIsReal
<1>1. IInv => SuccessIsReal
  BY DEF IInv, PortInv, SuccessIsReal
<1> QED
  BY <1>1, Invariance, PTL

(* A set of natural numbers that is not empty has a least one.             *)
LEMMA Least ==
  ASSUME NEW T, T \subseteq Nat, T # {}
  PROVE  \E m \in T : \A n \in T : m <= n
<1>1. IsWellFoundedOn(OpToRel(<, Nat), Nat)
  BY NatLessThanWellFounded
<1>2. PICK m \in T : \A n \in T : ~(<<n, m>> \in OpToRel(<, Nat))
  BY <1>1, WFMin
<1>3. ASSUME NEW n \in T, n < m PROVE FALSE
  <2>1. <<n, m>> \in OpToRel(<, Nat)
    BY <1>3 DEF OpToRel
  <2> QED
    BY <1>2, <2>1
<1> QED
  BY <1>3

(* What a step makes of what was before can be unfolded n times.           *)
UnfoldedBy(f, S, n, start, step) ==
  /\ f \in [0 .. n -> S] /\ f[0] = start
  /\ \A m \in 1 .. n : f[m] = step[m][f[m - 1]]

LEMMA Unfolds ==
  ASSUME NEW S, NEW n \in Nat, NEW start \in S, NEW step \in [1 .. n -> [S -> S]]
  PROVE  \E f : UnfoldedBy(f, S, n, start, step)
<1> DEFINE Unfolded(f, j) == /\ f \in [0 .. j -> S] /\ f[0] = start
                             /\ \A m \in 1 .. j : f[m] = step[m][f[m - 1]]
           Missing == {j \in 0 .. n : ~\E f : Unfolded(f, j)}
<1> HIDE DEF Unfolded
<1>0. Missing \subseteq Nat /\ Missing \subseteq 0 .. n
  OBVIOUS
<1>1. CASE Missing # {}
  <2> HIDE DEF Missing
  <2>0. PICK j \in Missing : \A m \in Missing : j <= m
    BY <1>0, <1>1, Least
  <2>1. /\ j \in 0 .. n /\ \A m \in Missing : j <= m
        /\ ~\E f : Unfolded(f, j)
    BY <1>0, <2>0 DEF Missing
  <2>2. CASE j = 0
    <3>1. Unfolded([m \in 0 .. 0 |-> start], 0)
      BY DEF Unfolded
    <3> QED
      BY <2>1, <2>2, <3>1
  <2>3. CASE j # 0
    <3>1. j - 1 \in 0 .. n /\ j \in 1 .. n
      BY <2>1, <2>3
    <3>a. j - 1 \notin Missing
      BY <2>1, <3>1
    <3>2. PICK f : Unfolded(f, j - 1)
      BY <3>1, <3>a DEF Missing
    <3>b. /\ f \in [0 .. j - 1 -> S] /\ f[0] = start
          /\ \A m \in 1 .. j - 1 : f[m] = step[m][f[m - 1]]
      BY <3>2 DEF Unfolded
    <3> DEFINE g == [m \in 0 .. j |-> IF m = j THEN step[j][f[j - 1]] ELSE f[m]]
    <3>3. step[j][f[j - 1]] \in S
      BY <3>1, <3>b
    <3>4. g \in [0 .. j -> S] /\ g[0] = start
      BY <3>1, <3>b, <3>3
    <3>5. ASSUME NEW m \in 1 .. j PROVE g[m] = step[m][g[m - 1]]
      <4>1. CASE m = j
        BY <3>1, <4>1
      <4>2. CASE m # j
        <5>1. m \in 1 .. j - 1 /\ m - 1 \in 0 .. j /\ m - 1 # j
          BY <3>1, <4>2
        <5> QED
          BY <3>1, <3>b, <4>2, <5>1
      <4> QED
        BY <4>1, <4>2
    <3>6. Unfolded(g, j)
      BY <3>4, <3>5 DEF Unfolded
    <3> QED
      BY <2>1, <3>6
  <2> QED
    BY <2>2, <2>3
<1>2. CASE Missing = {}
  <2> HIDE DEF Missing
  <2>1. n \in 0 .. n
    OBVIOUS
  <2>a. n \notin Missing
    BY <1>2
  <2>2. PICK f : Unfolded(f, n)
    BY <2>1, <2>a DEF Missing
  <2> QED
    BY <2>2 DEF Unfolded, UnfoldedBy
<1> QED
  BY <1>1, <1>2

(* What of a volume the proofs need: its allocation table is one.           *)
Volume(v) == v[FatSector] \in Tables
Link(v, c) == v[FatSector][c]
Ends(v, c) == Link(v, c) \in {0, EndOfChain}

(* s is a beginning of the chain from first, or all of it.                 *)
Leads(v, first, s) ==
  /\ s \in Seq(Clusters) /\ Len(s) \in 1 .. MaxChain /\ s[1] = Start(first)
  /\ \A m \in 1 .. Len(s) - 1 : ~Ends(v, s[m]) /\ s[m + 1] = Link(v, s[m])
IsChain(v, first, s) ==
  Leads(v, first, s) /\ (Len(s) = MaxChain \/ Ends(v, s[Len(s)]))

LEMMA LinkRange ==
  ASSUME NEW v, Volume(v), NEW c \in Clusters
  PROVE  Ends(v, c) \/ Link(v, c) \in Clusters
BY DEF Volume, Tables, Ends, Link

LEMMA StartRange == \A first \in Firsts : Start(first) \in Clusters
BY FilesAssumption DEF Firsts, Start

LEMMA LeadsFurther ==
  ASSUME NEW v, Volume(v), NEW first, NEW s, Leads(v, first, s), ~Ends(v, s[Len(s)]), Len(s) < MaxChain
  PROVE  Leads(v, first, Append(s, Link(v, s[Len(s)])))
<1> DEFINE c == Link(v, s[Len(s)])
           t == Append(s, c)
<1>1. s \in Seq(Clusters) /\ Len(s) \in 1 .. MaxChain /\ MaxChain \in Nat /\ s[1] = Start(first)
  BY FilesAssumption DEF Leads
<1>2. s[Len(s)] \in Clusters
  BY <1>1
<1>3. c \in Clusters
  BY <1>2, LinkRange
<1> HIDE DEF c
<1>4. /\ t \in Seq(Clusters) /\ Len(t) = Len(s) + 1 /\ t[Len(s) + 1] = c
      /\ \A m \in 1 .. Len(s) : t[m] = s[m]
  BY <1>1, <1>3
<1>5. ASSUME NEW m \in 1 .. Len(t) - 1 PROVE ~Ends(v, t[m]) /\ t[m + 1] = Link(v, t[m])
  <2>1. m \in 1 .. Len(s) /\ t[m] = s[m]
    BY <1>1, <1>4
  <2>2. CASE m = Len(s)
    BY <1>4, <2>1, <2>2 DEF c
  <2>3. CASE m # Len(s)
    <3>1. m \in 1 .. Len(s) - 1 /\ m + 1 \in 1 .. Len(s)
      BY <1>1, <2>1, <2>3
    <3>2. ~Ends(v, s[m]) /\ s[m + 1] = Link(v, s[m])
      BY <3>1 DEF Leads
    <3> QED
      BY <1>4, <2>1, <3>1, <3>2
  <2> QED
    BY <2>2, <2>3
<1>6. Len(t) \in 1 .. MaxChain /\ t[1] = Start(first)
  BY <1>1, <1>4
<1> HIDE DEF t
<1>7. Leads(v, first, t)
  BY <1>4, <1>5, <1>6 DEF Leads
<1> QED
  BY <1>7 DEF t, c

(* The n-th unfolding of ChainOn, for what was unfolded before.            *)
ChainStep(v, first, f, n) ==
  IF n = 1 THEN <<Start(first)>>
  ELSE LET before == f[n - 1]
           next   == Link(v, before[Len(before)])
       IN IF next \in {0, EndOfChain} THEN before ELSE Append(before, next)

LEMMA ChainUnfolded ==
  ASSUME NEW v, NEW first
  PROVE  ChainOn(v, first) =
           (CHOOSE f : f = [n \in 1 .. MaxChain |-> ChainStep(v, first, f, n)])[MaxChain]
BY DEF ChainOn, ChainStep, Link

LEMMA ChainUnfolds ==
  ASSUME NEW v, Volume(v), NEW first \in Firsts
  PROVE  \E f : f = [n \in 1 .. MaxChain |-> ChainStep(v, first, f, n)]
<1> DEFINE Further(s) == IF Ends(v, s[Len(s)]) \/ s[Len(s)] \notin Clusters THEN s ELSE Append(s, Link(v, s[Len(s)]))
           S == Seq(Clusters) \ {<<>>}
           step == [m \in 1 .. MaxChain - 1 |-> [s \in S |-> Further(s)]]
<1>1. ASSUME NEW s \in S PROVE Further(s) \in S /\ s[Len(s)] \in Clusters
  <2>1. s \in Seq(Clusters) /\ Len(s) \in Nat \ {0} /\ s[Len(s)] \in Clusters
    OBVIOUS
  <2>2. CASE Ends(v, s[Len(s)])
    BY <2>1, <2>2
  <2>3. CASE ~Ends(v, s[Len(s)])
    <3>1. Link(v, s[Len(s)]) \in Clusters
      BY <2>1, <2>3, LinkRange
    <3>2. Append(s, Link(v, s[Len(s)])) \in Seq(Clusters) /\ Append(s, Link(v, s[Len(s)])) # <<>>
      BY <2>1, <3>1
    <3> QED
      BY <2>1, <2>3, <3>2
  <2> QED
    BY <2>2, <2>3
<1>2. Start(first) \in Clusters /\ MaxChain - 1 \in Nat /\ MaxChain \in Nat
  BY StartRange, FilesAssumption
<1>3. <<Start(first)>> \in S
  BY <1>2
<1> HIDE DEF Further, S
<1>4. step \in [1 .. MaxChain - 1 -> [S -> S]]
  BY <1>1
<1>5. \A m \in 1 .. MaxChain - 1, s \in S : step[m][s] = Further(s)
  OBVIOUS
<1> HIDE DEF step
<1>6. PICK f \in [0 .. MaxChain - 1 -> S] :
        f[0] = <<Start(first)>> /\ \A m \in 1 .. MaxChain - 1 : f[m] = step[m][f[m - 1]]
  <2> DEFINE last == MaxChain - 1
             start == <<Start(first)>>
  <2>1. last \in Nat /\ start \in S /\ step \in [1 .. last -> [S -> S]]
    BY <1>2, <1>3, <1>4
  <2> HIDE DEF last, start
  <2>2. \E f : UnfoldedBy(f, S, last, start, step)
    BY <2>1, Unfolds
  <2> QED
    BY <2>2 DEF last, start, UnfoldedBy
<1> DEFINE g == [n \in 1 .. MaxChain |-> f[n - 1]]
<1>7. ASSUME NEW n \in 1 .. MaxChain PROVE g[n] = ChainStep(v, first, g, n)
  <2>1. CASE n = 1
    BY <1>2, <1>6, <2>1 DEF ChainStep
  <2>2. CASE n # 1
    <3>1. n - 1 \in 1 .. MaxChain - 1 /\ n - 2 \in 0 .. MaxChain - 1 /\ (n - 1) - 1 = n - 2
          /\ n - 1 \in 1 .. MaxChain
      BY <1>2, <2>2
    <3>2. f[n - 2] \in S
      BY <1>6, <3>1
    <3>3. f[n - 1] = Further(f[n - 2])
      BY <1>5, <1>6, <3>1, <3>2
    <3>4. g[n] = f[n - 1] /\ g[n - 1] = f[n - 2]
      BY <3>1
    <3>5. f[n - 2][Len(f[n - 2])] \in Clusters
      BY <1>1, <3>2
    <3> QED
      BY <2>2, <3>3, <3>4, <3>5 DEF Further, ChainStep, Ends
  <2> QED
    BY <2>1, <2>2
<1>8. g = [n \in 1 .. MaxChain |-> ChainStep(v, first, g, n)]
  BY <1>7
<1> QED
  BY <1>8

(* ChainOn is the chain.                                                   *)
LEMMA ChainIs ==
  ASSUME NEW v, Volume(v), NEW first \in Firsts
  PROVE  IsChain(v, first, ChainOn(v, first))
<1>1. PICK f : /\ f = [n \in 1 .. MaxChain |-> ChainStep(v, first, f, n)]
               /\ ChainOn(v, first) = f[MaxChain]
  BY ChainUnfolds, ChainUnfolded
<1> DEFINE Fits(n) == Leads(v, first, f[n]) /\ (Len(f[n]) = n \/ Ends(v, f[n][Len(f[n])]))
           Odd == {n \in 1 .. MaxChain : ~Fits(n)}
<1>2. MaxChain \in Nat /\ 1 \in 1 .. MaxChain /\ MaxChain \in 1 .. MaxChain
  BY FilesAssumption
<1>3. Fits(1)
  <2>1. f[1] = <<Start(first)>>
    BY <1>1, <1>2 DEF ChainStep
  <2>2. Start(first) \in Clusters
    BY StartRange
  <2>3. f[1] \in Seq(Clusters) /\ Len(f[1]) = 1 /\ f[1][1] = Start(first)
    BY <2>1, <2>2
  <2> QED
    BY <1>2, <2>3 DEF Leads
<1>4. ASSUME NEW n \in 1 .. MaxChain, n # 1, Fits(n - 1) PROVE Fits(n)
  <2>0. n - 1 \in Nat /\ n - 1 < MaxChain /\ n \in Nat
    BY <1>2, <1>4
  <2> DEFINE s == f[n - 1]
  <2>1. f[n] = IF Ends(v, s[Len(s)]) THEN s ELSE Append(s, Link(v, s[Len(s)]))
    BY <1>1, <1>4 DEF ChainStep, Ends
  <2>2. Leads(v, first, s) /\ (Len(s) = n - 1 \/ Ends(v, s[Len(s)]))
    BY <1>4
  <2> HIDE DEF s
  <2>3. CASE Ends(v, s[Len(s)])
    BY <2>1, <2>2, <2>3
  <2>4. CASE ~Ends(v, s[Len(s)])
    <3>1. Len(s) = n - 1 /\ Len(s) < MaxChain
      BY <2>0, <2>2, <2>4
    <3>2. Leads(v, first, f[n])
      BY <2>1, <2>2, <2>4, <3>1, LeadsFurther
    <3>3. s \in Seq(Clusters) /\ f[n] = Append(s, Link(v, s[Len(s)]))
      BY <2>1, <2>2, <2>4 DEF Leads
    <3>4. Len(f[n]) = n
      BY <2>0, <3>1, <3>3
    <3> QED
      BY <3>2, <3>4
  <2> QED
    BY <2>3, <2>4
<1>5. Odd \subseteq Nat /\ \A n \in Odd : n \in 1 .. MaxChain /\ ~Fits(n)
  OBVIOUS
<1>6. ASSUME NEW n \in 1 .. MaxChain, n \notin Odd PROVE Fits(n)
  BY <1>6
<1> HIDE DEF Fits, Odd
<1>7. Odd = {}
  <2> SUFFICES ASSUME Odd # {} PROVE FALSE
    OBVIOUS
  <2>1. PICK n \in Odd : \A m \in Odd : n <= m
    BY <1>5, Least
  <2>2. n \in 1 .. MaxChain /\ ~Fits(n) /\ n # 1
    BY <1>3, <1>5
  <2>3. n - 1 \in 1 .. MaxChain /\ ~(n <= n - 1)
    BY <1>2, <2>2
  <2>4. Fits(n - 1)
    BY <1>6, <2>1, <2>3
  <2> QED
    BY <1>4, <2>2, <2>4
<1>8. Fits(MaxChain)
  BY <1>2, <1>6, <1>7
<1> QED
  BY <1>1, <1>8 DEF Fits, IsChain

(* Two beginnings of a chain agree, and none is longer than the chain.     *)
LEMMA LeadsAgree ==
  ASSUME NEW v, NEW first, NEW s, NEW t, Leads(v, first, s), Leads(v, first, t)
  PROVE  \A m \in Nat \ {0} : m <= Len(s) /\ m <= Len(t) => s[m] = t[m]
<1>1. /\ s \in Seq(Clusters) /\ Len(s) \in Nat \ {0} /\ t \in Seq(Clusters) /\ Len(t) \in Nat \ {0}
      /\ s[1] = t[1]
  BY FilesAssumption DEF Leads
<1> DEFINE Odd == {m \in Nat \ {0} : m <= Len(s) /\ m <= Len(t) /\ s[m] # t[m]}
<1>2. Odd = {}
  <2> SUFFICES ASSUME Odd # {} PROVE FALSE
    OBVIOUS
  <2>1. Odd \subseteq Nat
    OBVIOUS
  <2>2. PICK n \in Odd : \A m \in Odd : n <= m
    <3> HIDE DEF Odd
    <3> QED
      BY <2>1, Least
  <2>3. n \in Nat \ {0, 1} /\ n <= Len(s) /\ n <= Len(t) /\ s[n] # t[n]
    BY <1>1
  <2>4. n - 1 \in Nat \ {0} /\ n - 1 <= Len(s) /\ n - 1 <= Len(t) /\ ~(n <= n - 1)
    BY <1>1, <2>3
  <2>5. s[n - 1] = t[n - 1]
    BY <2>2, <2>4
  <2>6. n - 1 \in 1 .. Len(s) - 1 /\ n - 1 \in 1 .. Len(t) - 1 /\ (n - 1) + 1 = n
    BY <1>1, <2>3
  <2>7. s[n] = Link(v, s[n - 1])
    BY <2>6 DEF Leads
  <2>8. t[n] = Link(v, t[n - 1])
    BY <2>6 DEF Leads
  <2> QED
    BY <2>3, <2>5, <2>7, <2>8
<1> QED
  BY <1>2

LEMMA NoneLonger ==
  ASSUME NEW v, NEW first, NEW s, NEW t, IsChain(v, first, s), Leads(v, first, t)
  PROVE  Len(t) <= Len(s)
<1>1. /\ Len(s) \in Nat \ {0} /\ Len(t) \in Nat \ {0} /\ Len(t) <= MaxChain /\ MaxChain \in Nat
      /\ Leads(v, first, s)
  BY FilesAssumption DEF IsChain, Leads
<1> SUFFICES ASSUME Len(s) < Len(t) PROVE FALSE
  BY <1>1
<1>2. Ends(v, s[Len(s)])
  BY <1>1 DEF IsChain
<1>3. Len(s) \in 1 .. Len(t) - 1
  BY <1>1
<1>4. ~Ends(v, t[Len(s)])
  BY <1>3 DEF Leads
<1>5. s[Len(s)] = t[Len(s)]
  BY <1>1, LeadsAgree
<1> QED
  BY <1>2, <1>4, <1>5

(* There is no other chain.                                                *)
LEMMA ChainOnly ==
  ASSUME NEW v, NEW first, NEW s, NEW t, IsChain(v, first, s), IsChain(v, first, t)
  PROVE  s = t
<1>1. /\ s \in Seq(Clusters) /\ Len(s) \in Nat \ {0} /\ t \in Seq(Clusters) /\ Len(t) \in Nat \ {0}
      /\ Leads(v, first, s) /\ Leads(v, first, t)
  BY FilesAssumption DEF IsChain, Leads
<1>2. Len(s) <= Len(t) /\ Len(t) <= Len(s)
  BY <1>1, NoneLonger
<1>3. \A m \in 1 .. Len(s) : s[m] = t[m]
  BY <1>1, <1>2, LeadsAgree
<1> QED
  BY <1>1, <1>2, <1>3

(* What was followed of a chain is its beginning.                          *)
LEMMA Beginning ==
  ASSUME NEW v, Volume(v), NEW first \in Firsts, NEW s, Leads(v, first, s)
  PROVE  /\ s \in Seq(Clusters) /\ Len(s) \in Nat /\ Len(ChainOn(v, first)) \in Nat
         /\ Len(s) <= Len(ChainOn(v, first)) /\ Len(ChainOn(v, first)) <= MaxChain
         /\ \A m \in 1 .. Len(s) : s[m] = ChainOn(v, first)[m] /\ s[m] \in ClustersOf(v, first)
<1> DEFINE t == ChainOn(v, first)
<1>1. IsChain(v, first, t)
  BY ChainIs
<1>2. /\ Leads(v, first, t) /\ t \in Seq(Clusters) /\ Len(t) \in Nat \ {0} /\ Len(t) <= MaxChain
      /\ s \in Seq(Clusters) /\ Len(s) \in Nat \ {0}
  BY <1>1, FilesAssumption DEF IsChain, Leads
<1>3. ClustersOf(v, first) = {t[n] : n \in 1 .. Len(t)}
  BY DEF ClustersOf
<1> HIDE DEF t
<1>4. Len(s) <= Len(t)
  BY <1>1, NoneLonger
<1>5. \A m \in 1 .. Len(s) : m \in 1 .. Len(t) /\ s[m] = t[m]
  BY <1>2, <1>4, LeadsAgree
<1>6. \A m \in 1 .. Len(s) : s[m] \in ClustersOf(v, first)
  BY <1>3, <1>5
<1> QED
  BY <1>2, <1>4, <1>5, <1>6 DEF t

LEMMA EntriesTyped ==
  ASSUME NEW v, Volume(v), NEW first \in Firsts
  PROVE  \A p \in EntriesOn(v, first) : p.n \in 1 .. MaxChain /\ p.slot \in Slots /\ p.entry \in Entry
<1> DEFINE s == ChainOn(v, first)
<1>1. Len(s) \in Nat /\ Len(s) <= MaxChain /\ MaxChain \in Nat
  BY ChainIs, FilesAssumption DEF IsChain, Leads
<1>2. EntriesOn(v, first) = UNION {EntriesIn(v[s[n]], n) : n \in 1 .. Len(s)}
  BY DEF EntriesOn
<1> HIDE DEF s
<1>3. ASSUME NEW n, NEW content, NEW p \in EntriesIn(content, n)
      PROVE  p.n = n /\ p.slot \in Slots /\ p.entry \in Entry
  <2>1. content \in Directories
    BY DEF EntriesIn
  <2>2. PICK q \in Slots : content[q] # NoEntry /\ p = Place(n, q, content[q])
    BY <2>1 DEF EntriesIn
  <2>3. content[q] \in Entry
    BY <2>1, <2>2 DEF Directories
  <2> QED
    BY <2>2, <2>3 DEF Place
<1>4. ASSUME NEW p \in EntriesOn(v, first)
      PROVE  p.n \in 1 .. MaxChain /\ p.slot \in Slots /\ p.entry \in Entry
  <2>1. PICK n \in 1 .. Len(s) : p \in EntriesIn(v[s[n]], n)
    BY <1>2
  <2>2. n \in 1 .. MaxChain
    BY <1>1
  <2> QED
    BY <1>3, <2>1, <2>2
<1> QED
  BY <1>4

LEMMA FoldersInTyped ==
  ASSUME NEW v, Volume(v), NEW folders \in SUBSET Firsts, NEW name
  PROVE  FoldersIn(v, folders, name) \in SUBSET Firsts
<1>1. ASSUME NEW f \in folders, NEW p \in EntriesOn(v, f) PROVE p.entry.first \in Firsts
  <2>1. p.entry \in Entry
    BY EntriesTyped
  <2> QED
    BY <2>1 DEF Entry, Firsts
<1> QED
  BY <1>1 DEF FoldersIn

(* The m-th unfolding of FoldersOn, for what was unfolded before.          *)
FoldersStep(v, path, f, m) == IF m = 0 THEN {0} ELSE FoldersIn(v, f[m - 1], path[m].name)
FoldersFit(v, path, f, n) == f = [m \in 0 .. n |-> FoldersStep(v, path, f, m)]

LEMMA FoldersUnfolded ==
  ASSUME NEW v, NEW path, NEW n
  PROVE  FoldersOn(v, path, n) = (CHOOSE f : FoldersFit(v, path, f, n))[n]
BY DEF FoldersOn, FoldersStep, FoldersFit

LEMMA FoldersUnfold ==
  ASSUME NEW v, Volume(v), NEW path, NEW n \in Nat
  PROVE  \E f : FoldersFit(v, path, f, n) /\ f \in [0 .. n -> SUBSET Firsts]
<1> DEFINE S == SUBSET Firsts
           start == {0}
           step == [m \in 1 .. n |-> [folders \in S |-> FoldersIn(v, folders, path[m].name)]]
<1>1. start \in S
  BY DEF Firsts
<1>2. \A m \in 1 .. n, folders \in S : FoldersIn(v, folders, path[m].name) \in S
  BY FoldersInTyped
<1> HIDE DEF S, start
<1>3. step \in [1 .. n -> [S -> S]] /\ \A m \in 1 .. n, folders \in S : step[m][folders] = FoldersIn(v, folders, path[m].name)
  BY <1>2
<1> HIDE DEF step
<1>4. PICK f : UnfoldedBy(f, S, n, start, step)
  BY <1>1, <1>3, Unfolds
<1>5. /\ f \in [0 .. n -> S] /\ f[0] = {0}
      /\ \A m \in 1 .. n : f[m] = step[m][f[m - 1]]
  BY <1>4 DEF UnfoldedBy, start
<1>6. ASSUME NEW m \in 0 .. n PROVE f[m] = FoldersStep(v, path, f, m)
  <2>1. CASE m = 0
    BY <1>5, <2>1 DEF FoldersStep
  <2>2. CASE m # 0
    <3>1. m \in 1 .. n /\ m - 1 \in 0 .. n
      BY <2>2
    <3>2. f[m - 1] \in S /\ f[m] = step[m][f[m - 1]]
      BY <1>5, <3>1
    <3> QED
      BY <1>3, <2>2, <3>1, <3>2 DEF FoldersStep
  <2> QED
    BY <2>1, <2>2
<1>7. FoldersFit(v, path, f, n)
  BY <1>5, <1>6 DEF FoldersFit
<1> QED
  BY <1>5, <1>7 DEF S

LEMMA FoldersOnly ==
  ASSUME NEW v, NEW path, NEW n \in Nat, NEW l \in Nat, n <= l, NEW f, NEW g,
         FoldersFit(v, path, f, n), FoldersFit(v, path, g, l)
  PROVE  f[n] = g[n]
<1> DEFINE Odd == {m \in 0 .. n : f[m] # g[m]}
<1>0. /\ \A m \in 0 .. n : f[m] = FoldersStep(v, path, f, m)
      /\ \A m \in 0 .. n : g[m] = FoldersStep(v, path, g, m)
  BY SMTT(60) DEF FoldersFit
<1>1. Odd \subseteq Nat /\ \A m \in Odd : m \in 0 .. n /\ f[m] # g[m]
  OBVIOUS
<1>2. \A m \in 0 .. n : m \notin Odd => f[m] = g[m]
  OBVIOUS
<1> HIDE DEF Odd
<1>3. Odd = {}
  <2> SUFFICES ASSUME Odd # {} PROVE FALSE
    OBVIOUS
  <2>1. PICK m \in Odd : \A j \in Odd : m <= j
    BY <1>1, Least
  <2>2. m \in 0 .. n /\ f[m] # g[m]
    BY <1>1
  <2>3. m # 0
    BY <1>0, <2>2 DEF FoldersStep
  <2>4. m - 1 \in 0 .. n /\ ~(m <= m - 1)
    BY <2>2, <2>3
  <2>5. f[m - 1] = g[m - 1]
    BY <1>2, <2>1, <2>4
  <2> QED
    BY <1>0, <2>2, <2>3, <2>5 DEF FoldersStep
<1> QED
  BY <1>2, <1>3

LEMMA FoldersAre ==
  ASSUME NEW v, Volume(v), NEW path, NEW n \in Nat, NEW l \in Nat, n <= l, NEW g,
         FoldersFit(v, path, g, l)
  PROVE  FoldersOn(v, path, n) = g[n]
<1>1. \E f : FoldersFit(v, path, f, n)
  BY FoldersUnfold
<1>2. FoldersFit(v, path, CHOOSE f : FoldersFit(v, path, f, n), n)
  BY <1>1
<1> QED
  BY <1>2, FoldersUnfolded, FoldersOnly

LEMMA FoldersNext ==
  ASSUME NEW v, Volume(v), NEW path, NEW n \in Nat
  PROVE  /\ FoldersOn(v, path, 0) = {0}
         /\ FoldersOn(v, path, n) \in SUBSET Firsts
         /\ FoldersOn(v, path, n + 1) = FoldersIn(v, FoldersOn(v, path, n), path[n + 1].name)
<1>0. n + 1 \in Nat /\ 0 \in Nat /\ n <= n + 1 /\ 0 <= n + 1 /\ n + 1 <= n + 1
  OBVIOUS
<1>1. PICK g : FoldersFit(v, path, g, n + 1) /\ g \in [0 .. n + 1 -> SUBSET Firsts]
  BY <1>0, FoldersUnfold
<1>2. FoldersOn(v, path, 0) = g[0] /\ FoldersOn(v, path, n) = g[n]
  BY <1>0, <1>1, FoldersAre
<1>3. FoldersOn(v, path, n + 1) = g[n + 1]
  BY <1>0, <1>1, FoldersAre
<1>4. \A m \in 0 .. n + 1 : g[m] = FoldersStep(v, path, g, m)
  BY <1>1 DEF FoldersFit
<1>5. g[0] = {0}
  BY <1>4 DEF FoldersStep
<1>6. g[n + 1] = FoldersIn(v, g[n], path[n + 1].name)
  <2>1. n + 1 \in 0 .. n + 1 /\ n + 1 # 0 /\ (n + 1) - 1 = n
    OBVIOUS
  <2> QED
    BY <1>4, <2>1 DEF FoldersStep
<1> QED
  BY <1>1, <1>2, <1>3, <1>5, <1>6

(* A path leads to known folders only.                                     *)
LEMMA FoldersWithin ==
  ASSUME NEW v, Volume(v), NEW known \in SUBSET Firsts, Proper(v, known), NEW path, NEW n \in Nat
  PROVE  FoldersOn(v, path, n) \subseteq known
<1> DEFINE Outside(m) == ~(FoldersOn(v, path, m) \subseteq known)
           Odd == {m \in Nat : Outside(m)}
<1>1. ~Outside(0)
  BY FoldersNext DEF Proper
<1>2. ASSUME NEW m \in Nat, ~Outside(m) PROVE ~Outside(m + 1)
  <2> DEFINE name == path[m + 1].name
  <2>1. FoldersOn(v, path, m + 1) = FoldersIn(v, FoldersOn(v, path, m), name)
    BY FoldersNext
  <2>2. FoldersOn(v, path, m) \subseteq known
    BY <1>2
  <2>3. ASSUME NEW a \in FoldersIn(v, FoldersOn(v, path, m), name) PROVE a \in known
    <3>1. PICK f \in FoldersOn(v, path, m) : \E p \in EntriesOn(v, f) :
            p.entry.folder /\ a = p.entry.first
      BY <2>3 DEF FoldersIn
    <3> QED
      BY <2>2, <3>1 DEF Proper
  <2> QED
    BY <2>1, <2>3
<1>3. Odd \subseteq Nat /\ (\A m \in Odd : Outside(m)) /\ \A m \in Nat : Outside(m) => m \in Odd
  OBVIOUS
<1> HIDE DEF Outside, Odd
<1>4. Odd = {}
  <2> SUFFICES ASSUME Odd # {} PROVE FALSE
    OBVIOUS
  <2>1. PICK m \in Odd : \A j \in Odd : m <= j
    BY <1>3, Least
  <2>2. m \in Nat /\ Outside(m) /\ m # 0
    BY <1>1, <1>3
  <2>3. m - 1 \in Nat /\ (m - 1) + 1 = m /\ ~(m <= m - 1)
    BY <2>2
  <2>4. Outside(m - 1)
    BY <1>2, <2>2, <2>3
  <2> QED
    BY <1>3, <2>1, <2>3, <2>4
<1> QED
  BY <1>3, <1>4 DEF Outside

(* In a volume as it should be a path leads to one folder, or to none.     *)
LEMMA OneFolder ==
  ASSUME NEW v, Volume(v), Sane(v), NEW path, NEW n \in Nat
  PROVE  \A a, b \in FoldersOn(v, path, n) : a = b
<1> DEFINE Several(m) == \E a, b \in FoldersOn(v, path, m) : a # b
           Odd == {m \in Nat : Several(m)}
<1>0. PICK known \in SUBSET Firsts : Proper(v, known)
  BY DEF Sane
<1>1. ~Several(0)
  BY FoldersNext
<1>2. ASSUME NEW m \in Nat, Several(m + 1) PROVE Several(m)
  <2> DEFINE folders == FoldersOn(v, path, m)
             name == path[m + 1].name
  <2>1. FoldersOn(v, path, m + 1) = FoldersIn(v, folders, name) /\ folders \subseteq known
    BY <1>0, FoldersNext, FoldersWithin
  <2>2. PICK a \in FoldersIn(v, folders, name), b \in FoldersIn(v, folders, name) : a # b
    BY <1>2, <2>1
  <2>3. PICK f \in folders : \E p \in EntriesOn(v, f) :
          p.entry.folder /\ p.entry.name = name /\ a = p.entry.first
    BY <2>2 DEF FoldersIn
  <2>4. PICK g \in folders : \E q \in EntriesOn(v, g) :
          q.entry.folder /\ q.entry.name = name /\ b = q.entry.first
    BY <2>2 DEF FoldersIn
  <2>5. f # g
    BY <1>0, <2>1, <2>2, <2>3, <2>4 DEF Proper
  <2> QED
    BY <2>3, <2>4, <2>5
<1>3. Odd \subseteq Nat /\ (\A m \in Odd : Several(m)) /\ \A m \in Nat : Several(m) => m \in Odd
  OBVIOUS
<1> HIDE DEF Several, Odd
<1>4. Odd = {}
  <2> SUFFICES ASSUME Odd # {} PROVE FALSE
    OBVIOUS
  <2>1. PICK m \in Odd : \A j \in Odd : m <= j
    BY <1>3, Least
  <2>2. m \in Nat /\ Several(m) /\ m # 0
    BY <1>1, <1>3
  <2>3. m - 1 \in Nat /\ (m - 1) + 1 = m /\ ~(m <= m - 1)
    BY <2>2
  <2>4. Several(m - 1)
    BY <1>2, <2>2, <2>3
  <2> QED
    BY <1>3, <2>1, <2>3, <2>4
<1> QED
  BY <1>3, <1>4 DEF Several

LEMMA NoneFurther ==
  ASSUME NEW v, Volume(v), NEW path, NEW n \in Nat, FoldersOn(v, path, n) = {},
         NEW l \in Nat, n <= l
  PROVE  FoldersOn(v, path, l) = {}
<1> DEFINE Odd == {m \in Nat : n <= m /\ FoldersOn(v, path, m) # {}}
<1>1. /\ Odd \subseteq Nat /\ \A m \in Odd : n <= m /\ FoldersOn(v, path, m) # {}
      /\ \A m \in Nat : n <= m /\ m \notin Odd => FoldersOn(v, path, m) = {}
  OBVIOUS
<1> HIDE DEF Odd
<1>2. Odd = {}
  <2> SUFFICES ASSUME Odd # {} PROVE FALSE
    OBVIOUS
  <2>1. PICK m \in Odd : \A j \in Odd : m <= j
    BY <1>1, Least
  <2>2. m \in Nat /\ n <= m /\ m # n /\ FoldersOn(v, path, m) # {}
    BY <1>1
  <2>3. m - 1 \in Nat /\ (m - 1) + 1 = m /\ ~(m <= m - 1) /\ n <= m - 1
    BY <2>2
  <2>a. m - 1 \notin Odd
    BY <2>1, <2>3
  <2>4. FoldersOn(v, path, m - 1) = {}
    BY <1>1, <2>3, <2>a
  <2>b. FoldersOn(v, path, (m - 1) + 1) = FoldersIn(v, FoldersOn(v, path, m - 1), path[(m - 1) + 1].name)
    BY <2>3, FoldersNext
  <2>5. FoldersOn(v, path, m) = FoldersIn(v, {}, path[m].name)
    BY <2>3, <2>4, <2>b
  <2>6. FoldersIn(v, {}, path[m].name) = {}
    BY DEF FoldersIn
  <2> QED
    BY <2>2, <2>5, <2>6
<1> QED
  BY <1>1, <1>2

(* A file in a folder that the path leads to is one of the path's.         *)
LEMMA FileThere ==
  ASSUME NEW v, NEW path \in Seq(Component), NEW n \in 1 .. Len(path),
         NEW first \in FoldersOn(v, path, n - 1), NEW p \in EntriesOn(v, first),
         ~p.entry.folder, p.entry.name = path[n].name
  PROVE  [folder |-> first, place |-> p] \in FilesOn(v, path)
<1>1. [folder |-> first, place |-> p] \in FilesIn(v, first, path[n].name)
  BY DEF FilesIn
<1> QED
  BY <1>1 DEF FilesOn

(* A path with no file on the way leads to none, with a cluster, if there  *)
(* is none where no folder leads further.                                  *)
LEMMA NoFileThere ==
  ASSUME NEW v, Volume(v), Sane(v), NEW path \in Seq(Component), NEW n \in Nat \ {0},
         NEW first \in FoldersOn(v, path, n - 1),
         \A m \in 1 .. n - 1 : m <= Len(path) =>
           \A f \in FoldersOn(v, path, m - 1) : FilesIn(v, f, path[m].name) = {},
         n <= Len(path) => \A p \in EntriesOn(v, first) :
           p.entry.name = path[n].name => ~p.entry.folder /\ p.entry.first = 0
  PROVE  \A f \in FilesOn(v, path) : f.place.entry.first = 0
<1> SUFFICES ASSUME NEW f \in FilesOn(v, path) PROVE f.place.entry.first = 0
  OBVIOUS
<1>0. Len(path) \in Nat /\ n - 1 \in Nat /\ (n - 1) + 1 = n
  OBVIOUS
<1>1. PICK m \in 1 .. Len(path) : f \in UNION {FilesIn(v, g, path[m].name) : g \in FoldersOn(v, path, m - 1)}
  BY DEF FilesOn
<1>2. PICK g \in FoldersOn(v, path, m - 1) : f \in FilesIn(v, g, path[m].name)
  BY <1>1
<1>3. CASE m < n
  <2>1. m \in 1 .. n - 1 /\ m <= Len(path)
    BY <1>0, <1>3
  <2> QED
    BY <1>2, <2>1
<1>4. CASE m = n
  <2>1. g = first
    BY <1>0, <1>2, <1>4, OneFolder
  <2>2. PICK p \in EntriesOn(v, first) : p.entry.name = path[n].name /\ f.place = p
    BY <1>2, <1>4, <2>1 DEF FilesIn
  <2> QED
    BY <1>0, <1>4, <2>2
<1>5. CASE m > n
  <2>1. n <= Len(path) /\ m - 1 \in Nat /\ n <= m - 1
    BY <1>0, <1>5
  <2>2. FoldersOn(v, path, n) = FoldersIn(v, FoldersOn(v, path, n - 1), path[n].name)
    BY <1>0, FoldersNext
  <2>3. \A h \in FoldersOn(v, path, n - 1) : h = first
    BY <1>0, OneFolder
  <2>4. FoldersOn(v, path, n) = {}
    BY <2>1, <2>2, <2>3 DEF FoldersIn
  <2>5. FoldersOn(v, path, m - 1) = {}
    BY <2>1, <2>4, NoneFurther
  <2> QED
    BY <1>2, <2>5
<1> QED
  BY <1>0, <1>3, <1>4, <1>5

(* A file's chain or its data are read.                                    *)
Loading == at = "load" \/ (at = "chain" /\ goal = "load")

(* What the variables of a command are, whatever the drive does.           *)
Shape ==
  /\ job.path \in Seq(Component) /\ job.text \in Seq(Contents)
  /\ at \in {"boot", "prompt", "chain", "list", "search", "load", "merge", "put",
             "store", "written", "stopped"}
  /\ goal \in {"list", "load", "merge", "store"}
  /\ i \in Nat \ {0} /\ folder \in Firsts /\ target \in Firsts
  /\ \A p \in entries : p.entry \in Entry
  /\ Loading => found.entry \in Entry
  /\ chain \in Seq(Clusters) /\ Len(chain) <= MaxChain
  /\ at = "chain" => cur \in Clusters /\ Len(chain) < MaxChain /\ k = 1
  /\ at \in {"list", "load", "merge", "put", "store"} => k \in 1 .. Len(chain)
  /\ at \in {"list", "load", "merge", "store"} => goal = at
  /\ at = "put" => goal = "merge"

(* Where the command may be while WriteFile walks, and before any command. *)
Apart ==
  /\ at = "boot" => job = NoJob /\ walk = "list"
  /\ at \in {"merge", "put", "store"} => walk = "update"
  /\ at = "chain" /\ goal \in {"merge", "store"} => walk = "update"
  /\ walk = "update" => at \notin {"prompt", "load"} /\ ~Loading

(* The request in progress is what the step of the command asks for.       *)
Asks ==
  \/ at = "boot"  /\ req.op = "standby"
  \/ at = "chain" /\ req = Request("read", FatSector, FatBuffer)
  \/ at = "list"  /\ req = Request("read", chain[k], DirBuffer)
  \/ at = "load"  /\ req = Request("read", chain[k], Page(k))
  \/ at = "merge" /\ req = Request("read", chain[k], DirBuffer)
  \/ at = "put"   /\ req = Request("write", chain[k], DirBuffer)
  \/ at = "store" /\ req = Request("write", chain[k], OutBuffer)

Asked == ~givenUp => Volume(disk) /\ (pc # "idle" => Asks)

(* The walk looks in a folder the path leads to, ...                       *)
Placed ==
  /\ i <= Len(job.path) + 1
  /\ folder \in FoldersOn(disk, job.path, i - 1)
  /\ \/ walk = "listed" /\ job.op = "list" /\ i = Len(job.path) + 1
     \/ walk = "list" /\ job.op = "list" /\ i <= Len(job.path)
     \/ walk = "text" /\ job.op \in {"open", "write"}
     \/ walk = "png" /\ job.op = "open"

(* ... has passed no file of the name looked for, and PNG is tried only    *)
(* where TextFile found none.                                              *)
NoFileBefore(v, path, n) ==
  \A m \in 1 .. n - 1 : \A f \in FoldersOn(v, path, m - 1) :
    FilesIn(v, f, path[m].name) = {}

NoFile(v, path) == \A f \in FilesOn(v, path) : f.place.entry.first = 0

Passed ==
  /\ walk \in {"text", "png"} => NoFileBefore(disk, job.path, i)
  /\ walk = "png" => NoFile(disk, job.path)

(* The chain that is read is that of the folder or of the file found.      *)
Subject == IF goal = "load" THEN found.entry.first ELSE folder

Chained ==
  /\ at = "chain" =>
       /\ goal \in {"list", "load"}
       /\ \/ chain = <<>> /\ cur = Start(Subject)
          \/ /\ Leads(disk, Subject, chain) /\ ~Ends(disk, chain[Len(chain)])
             /\ cur = Link(disk, chain[Len(chain)])
  /\ at \in {"list", "load"} => IsChain(disk, Subject, chain)

(* What was read of it is what is on the disk.                             *)
Listed ==
  /\ at = "chain" /\ goal = "list" => entries = {}
  /\ at = "list" => entries = UNION {EntriesIn(disk[chain[n]], n) : n \in 1 .. k - 1}
  /\ at = "search" => entries = EntriesOn(disk, folder)

Opened ==
  Loading =>
    /\ walk = "text" /\ found.entry.first # 0
    /\ \E f \in FilesOn(disk, job.path) : f.place = found
    /\ at = "load" => \A n \in 1 .. k - 1 : mem[Page(n)] = disk[chain[n]]

Seeking ==
  /\ at \in {"chain", "list", "search", "load"} /\ walk # "update"
  /\ Sound /\ Whole(job.path) /\ Sane(disk)

Walked == Seeking => Placed /\ Passed /\ Chained /\ Listed /\ Opened

Answered == at = "prompt" /\ Sane(disk) => AnswerRight

LEMMA FollowShape ==
  ASSUME NEW first \in Firsts, NEW for, Follow(first, for)
  PROVE  /\ cur' \in Clusters /\ cur' = Start(first) /\ chain' = <<>> /\ goal' = for
         /\ k' = 1 /\ at' = "chain" /\ chain' \in Seq(Clusters) /\ Len(chain') = 0
         /\ 0 < MaxChain /\ 0 <= MaxChain
BY StartRange, FilesAssumption DEF Follow

LEMMA WalkShape ==
  ASSUME NEW who, NEW path, Walk(who, path)
  PROVE  /\ cur' \in Clusters /\ cur' = Start(0) /\ chain' = <<>> /\ goal' = "list"
         /\ k' = 1 /\ at' = "chain" /\ chain' \in Seq(Clusters) /\ Len(chain') = 0
         /\ 0 < MaxChain /\ 0 <= MaxChain
         /\ walk' = who /\ i' = Begin(path) /\ folder' = 0 /\ entries' = {}
         /\ i' \in Nat \ {0} /\ folder' \in Firsts
BY FollowShape DEF Walk, Begin, Firsts

LEMMA LinkShape ==
  ASSUME Shape, ReadLink
  PROVE  Shape'
<1>1. /\ at = "chain" /\ cur \in Clusters /\ chain \in Seq(Clusters) /\ Len(chain) < MaxChain
      /\ k = 1 /\ MaxChain \in Nat /\ Len(chain) \in Nat
  BY FilesAssumption DEF ReadLink, Back, Shape
<1>2. PICK next \in Links :
       /\ chain' = Append(chain, cur) /\ cur' = next
       /\ at' = IF next \in {0, EndOfChain} \/ Len(chain') = MaxChain
                THEN goal ELSE "chain"
  BY DEF ReadLink
<1>3. next \in {0, EndOfChain} \cup Clusters
  BY <1>1 DEF Links, Tables
<1>4. chain' \in Seq(Clusters) /\ Len(chain') = Len(chain) + 1
  BY <1>1, <1>2
<1>5. Len(chain') <= MaxChain /\ k' \in 1 .. Len(chain')
  BY <1>1, <1>4 DEF ReadLink
<1>6. UNCHANGED <<job, walk, i, folder, entries, found, target, goal, k>>
  BY DEF ReadLink, Back, search
<1>7. CASE at' = "chain"
  <2>1. cur' \in Clusters /\ Len(chain') < MaxChain
    <3>1. goal # "chain"
      BY DEF Shape
    <3> QED
      BY <1>2, <1>3, <1>4, <1>5, <1>1, <1>7, <3>1
  <2> QED
    BY <1>1, <1>4, <1>5, <1>6, <1>7, <2>1 DEF Shape, Loading
<1>8. CASE at' = goal
  BY <1>1, <1>4, <1>5, <1>6, <1>8 DEF Shape, Loading
<1> QED
  BY <1>2, <1>7, <1>8

LEMMA ListShape ==
  ASSUME Shape, ReadEntries
  PROVE  Shape'
<1>1. /\ at = "list" /\ k \in 1 .. Len(chain) /\ chain \in Seq(Clusters) /\ goal = "list"
      /\ k' = k + 1 /\ at' = IF k = Len(chain) THEN "search" ELSE "list"
      /\ entries' = entries \cup EntriesIn(mem[DirBuffer], k)
      /\ UNCHANGED <<job, walk, i, folder, found, target, chain, goal>>
  BY DEF ReadEntries, Back, Shape
<1>2. ASSUME NEW p \in EntriesIn(mem[DirBuffer], k) PROVE p.entry \in Entry
  <2>1. mem[DirBuffer] \in Directories
    BY DEF EntriesIn
  <2>2. PICK q \in Slots : mem[DirBuffer][q] # NoEntry /\ p = Place(k, q, mem[DirBuffer][q])
    BY <2>1 DEF EntriesIn
  <2>3. mem[DirBuffer][q] \in Entry
    BY <2>1, <2>2 DEF Directories
  <2> QED
    BY <2>2, <2>3 DEF Place
<1>3. \A p \in entries' : p.entry \in Entry
  BY <1>1, <1>2 DEF Shape
<1>4. at' = "list" => k' \in 1 .. Len(chain')
  BY <1>1
<1> QED
  BY <1>1, <1>3, <1>4 DEF Shape, Loading

LEMMA FirstTyped ==
  ASSUME NEW entry \in Entry
  PROVE  entry.first \in Firsts
BY DEF Entry, Firsts

LEMMA SearchShape ==
  ASSUME Shape, Enter \/ List \/ FindFile \/ FindNothing \/ FindTarget \/ Deinit
  PROVE  Shape'
<1>0. ASSUME NEW p \in entries PROVE p.entry \in Entry /\ p.entry.first \in Firsts
  BY FirstTyped DEF Shape
<1>1. CASE Enter
  <2>1. PICK p \in Folders : folder' = p.entry.first /\ Follow(p.entry.first, "list")
    BY <1>1 DEF Enter
  <2>2. p.entry.first \in Firsts
    BY <1>0 DEF Folders, Here
  <2>3. i' \in Nat \ {0} /\ entries' = {} /\ UNCHANGED <<job, found, target>>
    BY <1>1 DEF Enter, Searching, Shape
  <2> QED
    BY <2>1, <2>2, <2>3, FollowShape DEF Shape, Loading
<1>2. CASE List
  BY <1>2 DEF List, Searching, Says, Shape, Loading, search, reading
<1>3. CASE FindFile
  <2>1. PICK p \in Matching : found' = p /\ Follow(p.entry.first, "load")
    BY <1>3 DEF FindFile
  <2>2. p.entry \in Entry /\ p.entry.first \in Firsts
    BY <1>0 DEF Matching, Here
  <2>3. UNCHANGED <<job, i, folder, entries, target>>
    BY <1>3 DEF FindFile, Searching
  <2> QED
    BY <2>1, <2>2, <2>3, FollowShape DEF Shape, Loading
<1>4. CASE FindNothing
  <2>1. job' = job /\ at = "search"
    BY <1>4 DEF FindNothing, Searching
  <2>2. CASE Walk("png", job.path) /\ UNCHANGED <<found, target, answer>>
    BY <2>1, <2>2, WalkShape DEF Shape, Loading
  <2>3. CASE at' = "written" /\ UNCHANGED <<search, reading>>
    BY <2>1, <2>3 DEF Shape, Loading, search, reading
  <2>4. CASE Says("not found", <<>>) /\ UNCHANGED <<search, reading>>
    BY <2>1, <2>4 DEF Shape, Loading, search, reading, Says
  <2> QED
    BY <1>4, <2>2, <2>3, <2>4 DEF FindNothing
<1>5. CASE FindTarget
  <2>1. PICK p \in Matching : target' = p.entry.first
    BY <1>5 DEF FindTarget
  <2>2. target' \in Firsts
    BY <1>0, <2>1 DEF Matching, Here
  <2>3. Follow(folder, "merge") /\ folder \in Firsts /\ UNCHANGED <<job, i, folder, entries, found>>
    BY <1>5 DEF FindTarget, Searching, Shape
  <2> QED
    BY <2>2, <2>3, FollowShape DEF Shape, Loading
<1>6. CASE Deinit
  BY <1>6 DEF Deinit, Shape, Loading, search, reading
<1> QED
  BY <1>1, <1>2, <1>3, <1>4, <1>5, <1>6

LEMMA PageShape ==
  ASSUME Shape, ReadPage
  PROVE  Shape'
<1>0. at = "load" /\ job' = job /\ k \in 1 .. Len(chain) /\ chain \in Seq(Clusters) /\ Loading
  BY DEF ReadPage, Back, Shape, Loading
<1>1. CASE k < Len(chain) /\ k' = k + 1 /\ UNCHANGED <<at, search, cur, chain, goal, answer>>
  <2>1. k' \in 1 .. Len(chain')
    BY <1>0, <1>1
  <2> QED
    BY <1>0, <1>1, <2>1 DEF Shape, Loading, search
<1>2. CASE at' = "stopped" /\ UNCHANGED <<search, reading, answer>>
  BY <1>0, <1>2 DEF Shape, Loading, search, reading
<1>3. CASE Walk("update", job.path) /\ UNCHANGED <<target, answer>>
  BY <1>0, <1>3, WalkShape DEF Shape, Loading
<1>4. CASE at' = "prompt" /\ UNCHANGED <<search, reading>>
  BY <1>0, <1>4 DEF Shape, Loading, search, reading
<1> QED
  BY <1>1, <1>2, <1>3, <1>4 DEF ReadPage, Says

LEMMA WriteShape ==
  ASSUME Shape, ReadCopy \/ WriteCopy \/ WritePage
  PROVE  Shape'
<1>1. CASE ReadCopy
  <2>1. at = "merge" /\ at' = "put" /\ UNCHANGED <<job, search, reading>>
    BY <1>1 DEF ReadCopy, Back
  <2> QED
    BY <2>1 DEF Shape, Loading, search, reading
<1>2. CASE WriteCopy
  <2>0. at = "put" /\ UNCHANGED <<job, search>> /\ k \in 1 .. Len(chain) /\ chain \in Seq(Clusters)
    BY <1>2 DEF WriteCopy, Back, Shape
  <2>1. CASE k < Len(chain) /\ k' = k + 1 /\ at' = "merge" /\ UNCHANGED <<cur, chain, goal>>
    <3>1. k' \in 1 .. Len(chain')
      BY <2>0, <2>1
    <3> QED
      BY <2>0, <2>1, <3>1 DEF Shape, Loading, search
  <2>2. CASE Follow(target, "store")
    <3>1. target \in Firsts
      BY DEF Shape
    <3> QED
      BY <2>0, <2>2, <3>1, FollowShape DEF Shape, Loading, search
  <2> QED
    BY <1>2, <2>1, <2>2 DEF WriteCopy
<1>3. CASE WritePage
  <2>1. /\ at = "store" /\ k \in 1 .. Len(chain) /\ chain \in Seq(Clusters)
        /\ k' = k + 1 /\ at' = IF k = Len(chain) THEN "written" ELSE "store"
        /\ UNCHANGED <<job, search, cur, chain, goal>>
    BY <1>3 DEF WritePage, Back, Shape
  <2>2. at' = "store" => k' \in 1 .. Len(chain')
    BY <2>1
  <2> QED
    BY <2>1, <2>2 DEF Shape, Loading, search
<1> QED
  BY <1>1, <1>2, <1>3

LEMMA TypeShape ==
  ASSUME Shape, NEW op, NEW path \in Paths, NEW text \in Texts \cup {<<>>}, Type(op, path, text)
  PROVE  Shape'
<1>1. at = "prompt" /\ job' = [op |-> op, path |-> path, text |-> text] /\ target' = 0
  BY DEF Type
<1>2. job'.path \in Seq(Component) /\ job'.text \in Seq(Contents) /\ target' \in Firsts
  <2>1. Texts \cup {<<>>} \subseteq Seq(Contents)
    <3>1. <<>> \in Seq(Contents)
      OBVIOUS
    <3> QED
      BY <3>1, FilesAssumption
  <2>2. job'.path = path /\ job'.text = text
    BY <1>1
  <2> QED
    BY <1>1, <2>1, <2>2, FilesAssumption DEF Firsts
<1>3. CASE \E who : Walk(who, path)
  BY <1>2, <1>3, WalkShape DEF Shape, Loading
<1>4. CASE at' = "stopped" /\ UNCHANGED <<walk, i, folder, entries, reading>>
  BY <1>1, <1>2, <1>4 DEF Shape, Loading, reading
<1> QED
  BY <1>3, <1>4 DEF Type

LEMMA StartShape == ASSUME job.path = <<>>, job.text = <<>>, at = "boot", i = 1, folder = 0, entries = {},
  target = 0, chain = <<>>, goal = "list" PROVE Shape
BY FilesAssumption DEF Shape, Loading, Firsts

LEMMA RestartShape ==
  ASSUME Restart
  PROVE  Shape'
<1>1. /\ job'.path = <<>> /\ job'.text = <<>> /\ at' = "boot" /\ i' = 1 /\ folder' = 0 /\ entries' = {}
      /\ target' = 0 /\ chain' = <<>> /\ goal' = "list"
  BY DEF Restart, NoJob
<1>2. chain' \in Seq(Clusters) /\ job'.path \in Seq(Component) /\ job'.text \in Seq(Contents) /\ 0 \in Firsts /\ Len(chain') = 0
  BY <1>1 DEF Firsts
<1> QED
  BY <1>1, <1>2, FilesAssumption DEF Shape, Loading

LEMMA UnchangedShape ==
  ASSUME Shape, UNCHANGED <<job, at, search, reading>>
  PROVE  Shape'
BY DEF Shape, Loading, search, reading

LEMMA InitShape == Init => Shape
BY StartShape DEF Init, NoJob

LEMMA ShapeInv ==
  ASSUME Shape, [Next]_vars
  PROVE  Shape'
<1>1. ASSUME NEW op, NEW path \in Paths, NEW text \in Texts \cup {<<>>}, Type(op, path, text)
      PROVE  Shape'
  BY <1>1, TypeShape
<1>2. CASE Runs
  <2>1. CASE AskDrive \/ Commit
    BY <2>1, UnchangedShape DEF AskDrive, Commit, fileVars
  <2>2. CASE Booted
    BY <2>2 DEF Booted, Back, Shape, Loading, search, reading
  <2> QED
    BY <1>2, <2>1, <2>2, LinkShape, ListShape, SearchShape, PageShape, WriteShape DEF Runs
<1>3. CASE DriveWorks \/ DriveFails
  BY <1>3, UnchangedShape DEF DriveWorks, DriveFails
<1>4. CASE Restart
  BY <1>4, RestartShape
<1>5. CASE UNCHANGED vars
  BY <1>5, UnchangedShape DEF vars, fileVars
<1> QED
  BY <1>1, <1>2, <1>3, <1>4, <1>5 DEF Next

LEMMA ApartInv ==
  ASSUME Shape, Apart, [Next]_vars
  PROVE  Apart'
<1>1. ASSUME NEW op, NEW path, NEW text, Type(op, path, text)
      PROVE  Apart'
  <2>1. CASE \E who : who # "update" /\ Walk(who, path)
    BY <2>1, WalkShape DEF Apart, Loading
  <2>2. CASE at' = "stopped"
    BY <2>2 DEF Apart, Loading
  <2> QED
    BY <1>1, <2>1, <2>2 DEF Type
<1>2. CASE Runs
  <2>1. CASE AskDrive \/ Commit
    BY <2>1 DEF AskDrive, Commit, fileVars, search, reading, Apart, Loading
  <2>2. CASE Booted
    BY <2>2 DEF Booted, Back, Apart, Loading, search, reading
  <2>3. CASE ReadLink
    <3>1. /\ at = "chain" /\ at' \in {goal, "chain"} /\ goal \in {"list", "load", "merge", "store"}
          /\ UNCHANGED <<walk, goal, job>>
      BY <2>3 DEF ReadLink, Back, search, Shape
    <3> QED
      BY <3>1 DEF Apart, Loading
  <2>4. CASE ReadEntries
    BY <2>4 DEF ReadEntries, Back, Apart, Loading
  <2>5. CASE Enter
    <3>1. /\ at = "search" /\ at' = "chain" /\ goal' = "list"
          /\ walk' = (IF walk = "list" /\ i = Len(job.path) THEN "listed" ELSE walk)
      BY <2>5 DEF Enter, Searching, Follow
    <3> QED
      BY <3>1 DEF Apart, Loading
  <2>6. CASE List
    BY <2>6 DEF List, Searching, Says, search, reading, Apart, Loading
  <2>7. CASE FindFile
    <3>1. at = "search" /\ at' = "chain" /\ goal' = "load" /\ walk' = walk /\ walk \in {"text", "png"}
      BY <2>7 DEF FindFile, Searching, Follow
    <3> QED
      BY <3>1 DEF Apart, Loading
  <2>8. CASE FindNothing
    <3>1. CASE Walk("png", job.path)
      BY <3>1, WalkShape DEF Apart, Loading
    <3>2. CASE at' = "written" /\ UNCHANGED <<search, reading>>
      BY <3>2 DEF Apart, Loading, search, reading
    <3>3. CASE at' = "prompt" /\ walk # "update" /\ UNCHANGED <<search, reading>>
      BY <3>3 DEF Apart, Loading, search, reading
    <3> QED
      BY <2>8, <3>1, <3>2, <3>3 DEF FindNothing, Says
  <2>9. CASE ReadPage
    <3>0. at = "load" /\ walk # "update"
      BY <2>9 DEF ReadPage, Back, Apart
    <3>1. CASE UNCHANGED <<at, search, cur, chain, goal, answer>>
      BY <3>0, <3>1 DEF Apart, Loading, search
    <3>2. CASE at' \in {"stopped", "prompt"} /\ UNCHANGED <<search, reading>>
      BY <3>0, <3>2 DEF Apart, Loading, search, reading
    <3>3. CASE Walk("update", job.path)
      BY <3>3, WalkShape DEF Apart, Loading
    <3> QED
      BY <2>9, <3>1, <3>2, <3>3 DEF ReadPage, Says
  <2>10. CASE FindTarget
    BY <2>10 DEF FindTarget, Searching, Follow, Apart, Loading
  <2>11. CASE ReadCopy \/ WritePage
    BY <2>11 DEF ReadCopy, WritePage, Back, search, reading, Apart, Loading
  <2>12. CASE WriteCopy
    BY <2>12 DEF WriteCopy, Back, Follow, search, Apart, Loading
  <2>13. CASE Deinit
    BY <2>13 DEF Deinit, search, reading, Apart, Loading
  <2> QED
    BY <1>2, <2>1, <2>2, <2>3, <2>4, <2>5, <2>6, <2>7, <2>8, <2>9, <2>10, <2>11, <2>12, <2>13 DEF Runs
<1>3. CASE DriveWorks \/ DriveFails
  BY <1>3 DEF DriveWorks, DriveFails, search, reading, Apart, Loading
<1>4. CASE Restart
  BY <1>4 DEF Restart, Apart, Loading
<1>5. CASE UNCHANGED vars
  BY <1>5 DEF vars, fileVars, search, reading, Apart, Loading
<1> QED
  BY <1>1, <1>2, <1>3, <1>4, <1>5 DEF Next

LEMMA Places ==
  /\ FatSector \in Sectors /\ FatSector \notin Clusters
  /\ \A n \in 1 .. MaxChain : Page(n) \in Buffers
  /\ FatBuffer \in Buffers /\ DirBuffer \in Buffers /\ OutBuffer \in Buffers
BY FilesAssumption DEF FatSector

(* The drive writes only what the command asks for, and never the table of *)
(* the clusters.                                                           *)
LEMMA Moves ==
  ASSUME IInv, Shape, Asked, Move, ~givenUp
  PROVE  /\ pc = "poll" /\ Asks /\ Volume(disk)
         /\ req.op = "read" => disk' = disk /\ mem' = [mem EXCEPT ![req.buf] = disk[req.lba]]
         /\ req.op = "write" => mem' = mem /\ disk' = [disk EXCEPT ![req.lba] = mem[req.buf]]
         /\ req.op = "standby" => UNCHANGED <<mem, disk>>
         /\ disk'[FatSector] = disk[FatSector] /\ Volume(disk)'
<1>1. device = "busy" /\ Working /\ Matches /\ pc = "poll"
  BY DEF Move, IInv, PortInv
<1>2. /\ fetched = table /\ table.op = req.op /\ table.lba = req.lba
      /\ req.op # "standby" => table.buf = req.buf
  BY <1>1 DEF Working, Matches
<1>3. PICK b \in {fetched.buf, table.buf} :
        /\ mem' = IF fetched.op = "read"
                  THEN [mem EXCEPT ![b] = disk[fetched.lba]] ELSE mem
        /\ disk' = IF fetched.op = "write"
                   THEN [disk EXCEPT ![fetched.lba] = mem[b]] ELSE disk
  BY DEF Move
<1>4. Asks /\ Volume(disk)
  BY <1>1 DEF Asked
<1>5. req.op = "read" => disk' = disk /\ mem' = [mem EXCEPT ![req.buf] = disk[req.lba]]
  BY <1>2, <1>3
<1>6. req.op = "write" => mem' = mem /\ disk' = [disk EXCEPT ![req.lba] = mem[req.buf]]
  BY <1>2, <1>3
<1>7. req.op = "standby" => UNCHANGED <<mem, disk>>
  BY <1>2, <1>3
<1>8. disk = [s \in Sectors |-> disk[s]] /\ req.op \in {"read", "write", "standby"}
  BY DEF IInv, PortInv, Requests
<1>9. disk'[FatSector] = disk[FatSector]
  <2>1. CASE req.op = "write"
    <3>1. at \in {"put", "store"} /\ req.lba = chain[k]
      BY <1>4, <2>1 DEF Asks, Request
    <3>2. req.lba \in Clusters
      BY <3>1 DEF Shape
    <3> QED
      BY <1>6, <1>8, <2>1, <3>2, Places
  <2>2. CASE req.op # "write"
    BY <1>5, <1>7, <1>8, <2>2
  <2> QED
    BY <2>1, <2>2
<1> QED
  BY <1>1, <1>4, <1>5, <1>6, <1>7, <1>9 DEF Volume

LEMMA AskedInv ==
  ASSUME IInv, Shape, Asked, [Next]_vars
  PROVE  Asked'
<1>1. CASE \E op, path, text : Type(op, path, text)
  <2>1. pc = "idle" /\ UNCHANGED <<pc, disk, givenUp>>
    BY <1>1 DEF Type, driver, drive, IInv, IdleInv
  <2> QED
    BY <2>1 DEF Asked, Volume
<1>2. CASE Runs
  <2>1. CASE AskDrive
    <3>1. UNCHANGED <<at, chain, k, disk, givenUp>> /\ \E r, content : req' = r /\ Ask(r, content)
      BY <2>1 DEF AskDrive, fileVars, reading, Ask, drive
    <3>2. Asks'
      <4>1. CASE at = "boot"
        BY <2>1, <3>1, <4>1 DEF AskDrive, Asks, Ask, Request
      <4>2. CASE at # "boot"
        BY <2>1, <3>1, <4>2 DEF AskDrive, Asks, Ask
      <4> QED
        BY <4>1, <4>2
    <3> QED
      BY <3>1, <3>2 DEF Asked, Volume
  <2>2. CASE \E step : Back(step)
    BY <2>2 DEF Back, Resume, Returned, drive, Asked, Volume
  <2>3. CASE (at = "search" \/ at = "written") /\ UNCHANGED portVars
    <3>1. pc = "idle" /\ UNCHANGED <<pc, disk, givenUp>>
      BY <2>3 DEF IInv, IdleInv, portVars, driver, drive
    <3> QED
      BY <3>1 DEF Asked, Volume
  <2>4. CASE Commit
    <3>1. pc # "idle" /\ UNCHANGED <<at, chain, k, disk, req>> /\ (givenUp => givenUp')
      BY <2>4 DEF Commit, Issue, Poll, fileVars, reading, drive
    <3>2. Asks <=> Asks'
      BY <3>1 DEF Asks, Request
    <3> QED
      BY <3>1, <3>2 DEF Asked, Volume
  <2>5. CASE Booted \/ ReadLink \/ ReadEntries \/ ReadPage \/ ReadCopy \/ WriteCopy \/ WritePage
    <3>1. \E step : Back(step)
      BY <2>5 DEF Booted, ReadLink, ReadEntries, ReadPage, ReadCopy, WriteCopy, WritePage
    <3> QED
      BY <2>2, <3>1
  <2>6. CASE Enter \/ List \/ FindFile \/ FindNothing \/ FindTarget \/ Deinit
    <3>1. (at = "search" \/ at = "written") /\ UNCHANGED portVars
      BY <2>6 DEF Enter, List, FindFile, FindNothing, FindTarget, Deinit, Searching
    <3> QED
      BY <2>3, <3>1
  <2> QED
    BY <1>2, <2>1, <2>4, <2>5, <2>6 DEF Runs
<1>3. CASE DriveWorks \/ DriveFails
  <2>1. UNCHANGED <<at, chain, k, req, pc, givenUp>>
    BY <1>3 DEF DriveWorks, DriveFails, reading, Fetch, Move, Complete, Fail, driver
  <2>2. Asks <=> Asks'
    BY <2>1 DEF Asks, Request
  <2>3. CASE Move
    BY <2>1, <2>2, <2>3, Moves DEF Asked
  <2>4. CASE UNCHANGED disk
    BY <2>1, <2>2, <2>4 DEF Asked, Volume
  <2> QED
    BY <1>3, <2>3, <2>4 DEF DriveWorks, DriveFails, Fetch, Complete, Fail
<1>4. CASE Restart
  <2>1. ~givenUp /\ pc' = "idle" /\ UNCHANGED disk
    BY <1>4 DEF Restart, PowerCycle
  <2> QED
    BY <2>1 DEF Asked, Volume
<1>5. CASE UNCHANGED vars
  <2>1. UNCHANGED <<at, chain, k, req, pc, givenUp, disk>>
    BY <1>5 DEF vars, portVars, driver, drive, fileVars, reading
  <2> QED
    BY <2>1 DEF Asked, Asks, Volume, Request
<1> QED
  BY <1>1, <1>2, <1>3, <1>4, <1>5 DEF Next

LEMMA InitAsked == Init => Apart /\ Asked
<1> SUFFICES ASSUME Init PROVE Apart /\ Asked
  OBVIOUS
<1>1. Volume(disk)
  BY FilesAssumption DEF Init, Volume
<1> QED
  BY <1>1 DEF Init, PowerOn, Apart, Loading, Asked

(* A request that came back without an error has read what it asked for.   *)
LEMMA ReadBack ==
  ASSUME IInv, Asked, NEW step, Back(step), Sound'
  PROVE  /\ Sound /\ ok /\ at = step /\ Asks /\ Volume(disk)
         /\ req.op = "read" => mem[req.buf] = disk[req.lba]
         /\ disk' = disk /\ mem' = mem /\ job' = job
<1>1. at = step /\ Resume /\ ~failed /\ ok /\ ~givenUp /\ job' = job
  BY DEF Back, Resume, Sound
<1>2. pc = "returned" /\ disk' = disk /\ mem' = mem
  BY <1>1 DEF Resume, Returned, drive
<1>3. Done(req)
  BY <1>1, <1>2 DEF IInv, PortInv
<1> QED
  BY <1>1, <1>2, <1>3 DEF Asked, Done, Sound

(* What only the drive and the driver do.                                  *)
LEMMA WalkedKept ==
  ASSUME Walked, UNCHANGED fileVars, disk' = disk, givenUp => givenUp',
         at = "load" => \A n \in 1 .. k - 1 : mem'[Page(n)] = mem[Page(n)]
  PROVE  Walked'
<1>1. UNCHANGED <<job, at, walk, i, folder, entries, found, cur, chain, goal, k, failed>>
  BY DEF fileVars, search, reading
<1> SUFFICES ASSUME Seeking' PROVE (Placed /\ Passed /\ Chained /\ Listed /\ Opened)'
  BY DEF Walked
<1>2. Seeking
  BY <1>1 DEF Seeking, Sound
<1>3. Placed /\ Passed /\ Chained /\ Listed /\ Opened
  BY <1>2 DEF Walked
<1>4. Placed'
  BY <1>1, <1>3 DEF Placed
<1>5. Passed'
  BY <1>1, <1>3 DEF Passed
<1>6. Chained'
  BY <1>1, <1>3 DEF Chained, Subject, Leads, IsChain, Ends, Link
<1>7. Listed'
  BY <1>1, <1>3 DEF Listed
<1>8. Opened'
  BY <1>1, <1>3 DEF Opened, Loading
<1> QED
  BY <1>4, <1>5, <1>6, <1>7, <1>8

LEMMA WalkedAsks ==
  ASSUME IInv, Shape, Walked, AskDrive
  PROVE  Walked'
<1>1. UNCHANGED <<fileVars, disk, givenUp>>
  BY DEF AskDrive, Ask, drive
<1>2. ASSUME at = "load" PROVE \A n \in 1 .. k - 1 : mem'[Page(n)] = mem[Page(n)]
  <2>1. mem' = [mem EXCEPT ![Page(k)] = Zero]
    BY <1>2 DEF AskDrive, Ask, Request
  <2>2. mem = [c \in Buffers |-> mem[c]]
    BY DEF IInv, PortInv
  <2>3. k \in 1 .. Len(chain) /\ Len(chain) <= MaxChain /\ Len(chain) \in Nat /\ MaxChain \in Nat
    BY <1>2, FilesAssumption DEF Shape
  <2>4. ASSUME NEW n \in 1 .. k - 1 PROVE Page(n) \in Buffers /\ Page(n) # Page(k)
    <3>1. n \in 1 .. MaxChain
      BY <2>3
    <3> QED
      BY <2>3, <3>1, Places DEF Page
  <2> QED
    BY <2>1, <2>2, <2>4
<1> QED
  BY <1>1, <1>2, WalkedKept

LEMMA WalkedDrive ==
  ASSUME IInv, Shape, Apart, Asked, Walked, DriveWorks \/ DriveFails
  PROVE  Walked'
<1>1. UNCHANGED <<job, at, search, reading, answer, failed, blind>> /\ UNCHANGED <<pc, givenUp>>
  BY DEF DriveWorks, DriveFails, Fetch, Move, Complete, Fail, driver
<1>2. UNCHANGED <<job, at, walk, i, folder, entries, found, cur, chain, goal, k, failed>>
  BY <1>1 DEF search, reading
<1> SUFFICES ASSUME Seeking' PROVE (Placed /\ Passed /\ Chained /\ Listed /\ Opened)'
  BY DEF Walked
<1>3. disk' = disk /\ (at = "load" => \A n \in 1 .. k - 1 : mem'[Page(n)] = mem[Page(n)])
  <2>1. CASE UNCHANGED <<disk, mem>>
    BY <2>1
  <2>2. CASE Move
    <3>1. ~givenUp /\ at \in {"chain", "list", "search", "load"}
      BY <1>1 DEF Seeking, Sound
    <3>0. /\ Asks /\ pc = "poll"
          /\ req.op = "read" => disk' = disk /\ mem' = [mem EXCEPT ![req.buf] = disk[req.lba]]
      BY <2>2, <3>1, Moves
    <3>2. /\ Asks /\ pc = "poll"
          /\ req.op = "read" => disk' = disk /\ \A b \in Buffers : b # req.buf => mem'[b] = mem[b]
      BY <3>0 DEF IInv, PortInv
    <3>3. req.op = "read" /\ (at = "load" => req.buf = Page(k))
      BY <3>1, <3>2 DEF Asks, Request
    <3>4. ASSUME at = "load", NEW n \in 1 .. k - 1 PROVE Page(n) \in Buffers /\ Page(n) # Page(k)
      <4>1. k \in 1 .. Len(chain) /\ Len(chain) <= MaxChain /\ Len(chain) \in Nat /\ MaxChain \in Nat
        BY <3>4, FilesAssumption DEF Shape
      <4>2. n \in 1 .. MaxChain
        BY <4>1
      <4> QED
        BY <4>1, <4>2, Places DEF Page
    <3> QED
      BY <3>2, <3>3, <3>4
  <2> QED
    BY <2>1, <2>2 DEF DriveWorks, DriveFails, Fetch, Complete, Fail
<1>4. Seeking
  BY <1>1, <1>2, <1>3 DEF Seeking, Sound
<1>5. Placed /\ Passed /\ Chained /\ Listed /\ Opened
  BY <1>4 DEF Walked
<1>6. Placed'
  BY <1>2, <1>3, <1>5 DEF Placed
<1>7. Passed'
  BY <1>2, <1>3, <1>5 DEF Passed
<1>8. Chained'
  BY <1>2, <1>3, <1>5 DEF Chained, Subject, Leads, IsChain, Ends, Link
<1>9. Listed'
  BY <1>2, <1>3, <1>5 DEF Listed
<1>10. Opened'
  BY <1>2, <1>3, <1>5 DEF Opened, Loading
<1> QED
  BY <1>6, <1>7, <1>8, <1>9, <1>10

LEMMA WalkedType ==
  ASSUME IInv, Asked, NEW op \in {"open", "list", "write"}, NEW path \in Paths, NEW text,
         Type(op, path, text)
  PROVE  Walked'
<1> SUFFICES ASSUME Seeking' PROVE (Placed /\ Passed /\ Chained /\ Listed /\ Opened)'
  BY DEF Walked
<1>1. job' = [op |-> op, path |-> path, text |-> text] /\ UNCHANGED <<disk, givenUp>>
  BY DEF Type, driver, drive
<1>2. at' # "stopped" /\ Begin(path) = 1 /\ ~givenUp
  BY <1>1 DEF Seeking, Sound, Whole
<1>3. PICK who : /\ Walk(who, path)
                 /\ \/ who = "listed" /\ op = "list" /\ path = <<>>
                    \/ who = "list" /\ op = "list" /\ 1 <= Len(path)
                    \/ who = "text" /\ op \in {"open", "write"}
  BY <1>2 DEF Type
<1>4. /\ cur' = Start(0) /\ chain' = <<>> /\ goal' = "list" /\ at' = "chain"
      /\ walk' = who /\ i' = 1 /\ folder' = 0 /\ entries' = {} /\ 1 - 1 = 0
  BY <1>2, <1>3, WalkShape
<1>5. FoldersOn(disk, path, 0) = {0} /\ path \in Seq(Component) /\ Len(path) \in Nat
  BY <1>2, FoldersNext, FilesAssumption DEF Asked
<1>6. Placed'
  BY <1>1, <1>3, <1>4, <1>5 DEF Placed
<1>7. Passed'
  <2>1. who # "png"
    BY <1>3
  <2> QED
    BY <1>4, <2>1 DEF Passed, NoFileBefore
<1>8. Chained' /\ Listed' /\ Opened'
  BY <1>4 DEF Chained, Listed, Opened, Loading, Subject
<1> QED
  BY <1>6, <1>7, <1>8

LEMMA WalkedLink ==
  ASSUME IInv, Shape, Asked, Walked, ReadLink
  PROVE  Walked'
<1> SUFFICES ASSUME Seeking' PROVE (Placed /\ Passed /\ Chained /\ Listed /\ Opened)'
  BY DEF Walked
<1>1. /\ at = "chain" /\ Asks /\ Volume(disk) /\ Sound /\ disk' = disk /\ job' = job
      /\ req.op = "read" => mem[req.buf] = disk[req.lba]
  BY ReadBack DEF ReadLink, Seeking
<1>2. UNCHANGED <<walk, i, folder, entries, found, goal, k>>
  BY DEF ReadLink, search
<1>3. Seeking
  BY <1>1, <1>2 DEF Seeking
<1>4. Placed /\ Passed /\ Chained /\ Listed /\ Opened
  BY <1>3 DEF Walked
<1>5. /\ cur \in Clusters /\ chain \in Seq(Clusters) /\ Len(chain) < MaxChain /\ k = 1
      /\ MaxChain \in Nat /\ Len(chain) \in Nat /\ goal \in {"list", "load"}
  BY <1>1, <1>4, FilesAssumption DEF Shape, Chained
<1>6. Links = {Link(disk, cur)}
  BY <1>1 DEF Asks, Request, Links, Link, Volume
<1>7. /\ chain' = Append(chain, cur) /\ cur' = Link(disk, cur)
      /\ at' = IF Ends(disk, cur) \/ Len(chain') = MaxChain THEN goal ELSE "chain"
  BY <1>6 DEF ReadLink, Ends
<1>8. /\ chain' \in Seq(Clusters) /\ Len(chain') = Len(chain) + 1 /\ chain'[Len(chain')] = cur
  BY <1>5, <1>7
<1>9. Leads(disk, Subject, chain')
  <2>1. CASE chain = <<>> /\ cur = Start(Subject)
    <3>1. chain' = <<Start(Subject)>> /\ Len(chain') = 1 /\ chain'[1] = Start(Subject)
      BY <1>5, <1>7, <2>1
    <3> QED
      BY <1>5, <1>8, <3>1 DEF Leads
  <2>2. CASE Leads(disk, Subject, chain) /\ ~Ends(disk, chain[Len(chain)]) /\ cur = Link(disk, chain[Len(chain)])
    BY <1>1, <1>5, <1>7, <2>2, LeadsFurther
  <2> QED
    BY <1>1, <1>4, <2>1, <2>2 DEF Chained
<1>10. Subject' = Subject
  BY <1>2 DEF Subject
<1>11. Placed' /\ Passed'
  BY <1>1, <1>2, <1>4 DEF Placed, Passed
<1>12. Chained'
  <2>1. Leads(disk', Subject', chain')
    BY <1>1, <1>9, <1>10
  <2>2. CASE at' = "chain"
    <3>1. ~Ends(disk, cur)
      BY <1>5, <1>7, <2>2
    <3>2. ~Ends(disk', chain'[Len(chain')]) /\ cur' = Link(disk', chain'[Len(chain')])
      BY <1>1, <1>7, <1>8, <3>1
    <3> QED
      BY <1>2, <1>5, <2>1, <2>2, <3>2 DEF Chained
  <2>3. CASE at' # "chain"
    <3>1. Len(chain') = MaxChain \/ Ends(disk, cur)
      BY <1>7, <2>3
    <3>2. Len(chain') = MaxChain \/ Ends(disk', chain'[Len(chain')])
      BY <1>1, <1>8, <3>1
    <3> QED
      BY <2>1, <2>3, <3>2 DEF Chained, IsChain
  <2> QED
    BY <2>2, <2>3
<1>13. Listed'
  BY <1>1, <1>2, <1>4, <1>5, <1>7 DEF Listed
<1>14. Opened'
  BY <1>1, <1>2, <1>4, <1>5, <1>7 DEF Opened, Loading
<1> QED
  BY <1>11, <1>12, <1>13, <1>14

LEMMA WalkedEntries ==
  ASSUME IInv, Shape, Asked, Walked, ReadEntries
  PROVE  Walked'
<1> SUFFICES ASSUME Seeking' PROVE (Placed /\ Passed /\ Chained /\ Listed /\ Opened)'
  BY DEF Walked
<1>1. /\ at = "list" /\ Asks /\ Volume(disk) /\ Sound /\ disk' = disk /\ job' = job
      /\ req.op = "read" => mem[req.buf] = disk[req.lba]
  BY ReadBack DEF ReadEntries, Seeking
<1>2. /\ UNCHANGED <<walk, i, folder, found, chain, goal>> /\ k' = k + 1
      /\ entries' = entries \cup EntriesIn(mem[DirBuffer], k)
      /\ at' = IF k = Len(chain) THEN "search" ELSE "list"
  BY DEF ReadEntries
<1>3. Seeking
  BY <1>1, <1>2 DEF Seeking
<1>4. Placed /\ Passed /\ Chained /\ Listed /\ Opened
  BY <1>3 DEF Walked
<1>5. k \in 1 .. Len(chain) /\ goal = "list" /\ Len(chain) \in Nat /\ folder \in Firsts
  BY <1>1 DEF Shape
<1>6. mem[DirBuffer] = disk[chain[k]]
  BY <1>1 DEF Asks, Request
<1>7. entries' = UNION {EntriesIn(disk[chain[n]], n) : n \in 1 .. k}
  <2>1. entries = UNION {EntriesIn(disk[chain[n]], n) : n \in 1 .. k - 1}
    BY <1>1, <1>4 DEF Listed
  <2>2. \A n : n \in 1 .. k <=> n \in 1 .. k - 1 \/ n = k
    BY <1>5
  <2> QED
    BY <1>2, <1>6, <2>1, <2>2
<1>8. IsChain(disk, folder, chain)
  BY <1>1, <1>4, <1>5 DEF Chained, Subject
<1>9. Placed' /\ Passed'
  BY <1>1, <1>2, <1>4 DEF Placed, Passed
<1>10. Chained' /\ Opened'
  BY <1>1, <1>2, <1>5, <1>8 DEF Chained, Opened, Loading, Subject
<1>11. Listed'
  <2>1. CASE k = Len(chain)
    <3>1. ChainOn(disk, folder) = chain
      BY <1>1, <1>5, <1>8, ChainIs, ChainOnly
    <3>2. entries' = EntriesOn(disk, folder)
      BY <1>7, <2>1, <3>1 DEF EntriesOn
    <3> QED
      BY <1>1, <1>2, <2>1, <3>2 DEF Listed
  <2>2. CASE k # Len(chain)
    <3>1. k' - 1 = k /\ at' = "list"
      BY <1>2, <1>5, <2>2
    <3> QED
      BY <1>1, <1>2, <1>7, <3>1 DEF Listed
  <2> QED
    BY <2>1, <2>2
<1> QED
  BY <1>9, <1>10, <1>11

(* What a walk that goes on, or ends, may count on.                        *)
LEMMA Searched ==
  ASSUME Shape, Asked, Walked, Searching, walk # "update", Sound,
         Whole(job.path), Sane(disk)
  PROVE  /\ at = "search" /\ disk' = disk /\ job' = job /\ Volume(disk)
         /\ Placed /\ Passed /\ entries = EntriesOn(disk, folder)
         /\ job.path \in Seq(Component) /\ Len(job.path) \in Nat
         /\ i \in Nat \ {0} /\ i - 1 \in Nat /\ (i - 1) + 1 = i /\ folder \in Firsts
         /\ FoldersOn(disk, job.path, i) = FoldersIn(disk, {folder}, job.path[i].name)
<1>1. /\ at = "search" /\ disk' = disk /\ job' = job /\ Volume(disk)
      /\ job.path \in Seq(Component) /\ Len(job.path) \in Nat
      /\ i \in Nat \ {0} /\ i - 1 \in Nat /\ (i - 1) + 1 = i /\ folder \in Firsts
  BY DEF Searching, portVars, drive, Asked, Sound, Shape
<1>2. Placed /\ Passed /\ entries = EntriesOn(disk, folder)
  BY <1>1 DEF Walked, Seeking, Listed
<1>3. folder \in FoldersOn(disk, job.path, i - 1)
  BY <1>2 DEF Placed
<1>4. \A a, b \in FoldersOn(disk, job.path, i - 1) : a = b
  BY <1>1, OneFolder
<1>5. FoldersOn(disk, job.path, i - 1) = {folder}
  BY <1>3, <1>4
<1>6. FoldersOn(disk, job.path, (i - 1) + 1) =
        FoldersIn(disk, FoldersOn(disk, job.path, i - 1), job.path[(i - 1) + 1].name)
  BY <1>1, FoldersNext
<1> QED
  BY <1>1, <1>2, <1>5, <1>6

(* In the folder looked in there is no file of the name looked for.        *)
LEMMA NoneMatches ==
  ASSUME walk \in {"text", "png"}, Matching = {}, entries = EntriesOn(disk, folder),
         i <= Len(job.path)
  PROVE  FilesIn(disk, folder, job.path[i].name) = {}
BY DEF Matching, Here, FilesIn

LEMMA WalkedEnter ==
  ASSUME Shape, Asked, Walked, Enter
  PROVE  Walked'
<1> SUFFICES ASSUME Seeking' PROVE (Placed /\ Passed /\ Chained /\ Listed /\ Opened)'
  BY DEF Walked
<1>1. /\ Matching = {} /\ Searching
      /\ walk' = IF walk = "list" /\ i = Len(job.path) THEN "listed" ELSE walk
      /\ i' = i + 1 /\ entries' = {} /\ UNCHANGED <<found, target, answer>>
  BY DEF Enter
<1>2. PICK p \in Folders : folder' = p.entry.first /\ Follow(p.entry.first, "list")
  BY DEF Enter
<1>3. /\ walk # "update" /\ Sound /\ Whole(job.path) /\ Sane(disk)
      /\ disk' = disk /\ job' = job
  BY <1>1 DEF Seeking, Searching, portVars, driver, drive, Sound
<1>4. /\ at = "search" /\ Volume(disk)
      /\ Placed /\ Passed /\ entries = EntriesOn(disk, folder)
      /\ job.path \in Seq(Component) /\ Len(job.path) \in Nat
      /\ i \in Nat \ {0} /\ i - 1 \in Nat /\ folder \in Firsts
      /\ FoldersOn(disk, job.path, i) = FoldersIn(disk, {folder}, job.path[i].name)
  BY <1>1, <1>3, Searched
<1>5. /\ p \in EntriesOn(disk, folder) /\ p.entry.folder /\ i <= Len(job.path)
      /\ p.entry.name = job.path[i].name
  BY <1>4 DEF Folders, Here
<1>6. folder' \in FoldersOn(disk', job'.path, i' - 1)
  <2>1. p.entry.first \in FoldersIn(disk, {folder}, job.path[i].name)
    BY <1>5 DEF FoldersIn
  <2>2. i' - 1 = i
    BY <1>1, <1>4
  <2> QED
    BY <1>2, <1>3, <1>4, <2>1, <2>2
<1>7. Placed'
  <2>1. i' <= Len(job'.path) + 1
    BY <1>1, <1>3, <1>4, <1>5
  <2>2. \/ walk' = "listed" /\ job'.op = "list" /\ i' = Len(job'.path) + 1
        \/ walk' = "list" /\ job'.op = "list" /\ i' <= Len(job'.path)
        \/ walk' = "text" /\ job'.op \in {"open", "write"}
        \/ walk' = "png" /\ job'.op = "open"
    <3>1. CASE walk = "listed"
      BY <1>4, <1>5, <3>1 DEF Placed
    <3>2. CASE walk = "list" /\ i = Len(job.path)
      BY <1>1, <1>3, <1>4, <3>2 DEF Placed
    <3>3. CASE walk = "list" /\ i # Len(job.path)
      BY <1>1, <1>3, <1>4, <1>5, <3>3 DEF Placed
    <3>4. CASE walk \in {"text", "png"}
      BY <1>1, <1>3, <1>4, <3>4 DEF Placed
    <3> QED
      BY <1>4, <3>1, <3>2, <3>3, <3>4 DEF Placed
  <2> QED
    BY <1>6, <2>1, <2>2 DEF Placed
<1>8. Passed'
  <2>1. ASSUME walk' \in {"text", "png"}, NEW m \in 1 .. i' - 1,
               NEW f \in FoldersOn(disk, job.path, m - 1)
        PROVE  FilesIn(disk, f, job.path[m].name) = {}
    <3>0. walk \in {"text", "png"}
      BY <1>1, <2>1
    <3>1. CASE m = i
      <4>1. f = folder
        <5>1. folder \in FoldersOn(disk, job.path, i - 1)
          BY <1>4 DEF Placed
        <5>2. \A a, b \in FoldersOn(disk, job.path, i - 1) : a = b
          BY <1>3, <1>4, OneFolder
        <5> QED
          BY <2>1, <3>1, <5>1, <5>2
      <4> QED
        BY <1>1, <1>4, <1>5, <3>0, <3>1, <4>1, NoneMatches
    <3>2. CASE m # i
      <4>1. m \in 1 .. i - 1
        BY <1>1, <1>4, <2>1, <3>2
      <4> QED
        BY <1>4, <2>1, <3>0, <4>1 DEF Passed, NoFileBefore
    <3> QED
      BY <3>1, <3>2
  <2>2. walk' \in {"text", "png"} => NoFileBefore(disk', job'.path, i')
    BY <1>3, <2>1 DEF NoFileBefore
  <2>3. walk' = "png" => NoFile(disk', job'.path)
    BY <1>1, <1>3, <1>4 DEF Passed
  <2> QED
    BY <2>2, <2>3 DEF Passed
<1>9. /\ cur' = Start(folder') /\ chain' = <<>> /\ goal' = "list" /\ at' = "chain"
  BY <1>2 DEF Follow
<1>10. Chained' /\ Listed' /\ Opened'
  BY <1>1, <1>9 DEF Chained, Listed, Opened, Loading, Subject
<1> QED
  BY <1>7, <1>8, <1>10

LEMMA WalkedFind ==
  ASSUME Shape, Asked, Walked, FindFile
  PROVE  Walked'
<1> SUFFICES ASSUME Seeking' PROVE (Placed /\ Passed /\ Chained /\ Listed /\ Opened)'
  BY DEF Walked
<1>1. Searching /\ walk \in {"text", "png"} /\ UNCHANGED <<walk, i, folder, entries, target, answer>>
  BY DEF FindFile
<1>2. PICK p \in Matching : p.entry.first # 0 /\ found' = p /\ Follow(p.entry.first, "load")
  BY DEF FindFile
<1>3. /\ walk # "update" /\ Sound /\ Whole(job.path) /\ Sane(disk)
      /\ disk' = disk /\ job' = job
  BY <1>1 DEF Seeking, Searching, portVars, driver, drive, Sound
<1>4. /\ Placed /\ Passed /\ entries = EntriesOn(disk, folder)
      /\ job.path \in Seq(Component) /\ Len(job.path) \in Nat /\ i \in Nat \ {0}
  BY <1>1, <1>3, Searched
<1>5. /\ p \in EntriesOn(disk, folder) /\ ~p.entry.folder /\ i <= Len(job.path)
      /\ p.entry.name = job.path[i].name
  BY <1>4 DEF Matching, Here
<1>6. PICK f \in FilesOn(disk, job.path) : f.place = p
  <2>1. folder \in FoldersOn(disk, job.path, i - 1) /\ i \in 1 .. Len(job.path)
    BY <1>4, <1>5 DEF Placed
  <2>2. [folder |-> folder, place |-> p] \in FilesOn(disk, job.path)
    BY <1>4, <1>5, <2>1, FileThere
  <2>3. [folder |-> folder, place |-> p].place = p
    OBVIOUS
  <2> QED
    BY <2>2, <2>3
<1>7. walk = "text"
  <2>1. ~NoFile(disk, job.path)
    BY <1>2, <1>6 DEF NoFile
  <2> QED
    BY <1>1, <1>4, <2>1 DEF Passed
<1>8. Placed' /\ Passed'
  BY <1>1, <1>3, <1>4 DEF Placed, Passed
<1>9. cur' = Start(p.entry.first) /\ chain' = <<>> /\ goal' = "load" /\ at' = "chain"
  BY <1>2 DEF Follow
<1>10. Chained' /\ Listed'
  BY <1>2, <1>9 DEF Chained, Listed, Subject
<1>11. Opened'
  BY <1>1, <1>2, <1>3, <1>6, <1>7, <1>9 DEF Opened, Loading
<1> QED
  BY <1>8, <1>10, <1>11

(* The walk of TextFile or PNG that finds nothing has missed nothing.      *)
LEMMA NothingThere ==
  ASSUME Shape, Asked, Walked, FindNothing, walk \in {"text", "png"}, Sound,
         Whole(job.path), Sane(disk)
  PROVE  NoFile(disk, job.path)
<1>1. /\ Searching /\ Folders = {} /\ \A p \in Matching : p.entry.first = 0
  BY DEF FindNothing
<1>2. /\ Placed /\ Passed /\ entries = EntriesOn(disk, folder) /\ Volume(disk)
      /\ job.path \in Seq(Component) /\ Len(job.path) \in Nat /\ i \in Nat \ {0}
  BY <1>1, Searched
<1>3. folder \in FoldersOn(disk, job.path, i - 1)
  BY <1>2 DEF Placed
<1>4. ASSUME i <= Len(job.path), NEW p \in EntriesOn(disk, folder), p.entry.name = job.path[i].name
      PROVE  ~p.entry.folder /\ p.entry.first = 0
  <2>1. p \in Here
    BY <1>2, <1>4 DEF Here
  <2>2. ~p.entry.folder
    BY <1>1, <2>1 DEF Folders
  <2> QED
    BY <1>1, <2>1, <2>2 DEF Matching
<1>5. \A m \in 1 .. i - 1 : m <= Len(job.path) =>
        \A f \in FoldersOn(disk, job.path, m - 1) : FilesIn(disk, f, job.path[m].name) = {}
  BY <1>2 DEF Passed, NoFileBefore
<1> DEFINE path == job.path
           v == disk
           n == i
           first == folder
<1>6. /\ Volume(v) /\ Sane(v) /\ path \in Seq(Component) /\ n \in Nat \ {0}
      /\ first \in FoldersOn(v, path, n - 1)
      /\ \A m \in 1 .. n - 1 : m <= Len(path) =>
           \A f \in FoldersOn(v, path, m - 1) : FilesIn(v, f, path[m].name) = {}
      /\ n <= Len(path) => \A p \in EntriesOn(v, first) :
           p.entry.name = path[n].name => ~p.entry.folder /\ p.entry.first = 0
  BY <1>2, <1>3, <1>4, <1>5
<1> HIDE DEF path, v, n, first
<1>7. \A f \in FilesOn(v, path) : f.place.entry.first = 0
  BY <1>6, NoFileThere
<1> QED
  BY <1>7 DEF NoFile, v, path

LEMMA WalkedNothing ==
  ASSUME Shape, Asked, Walked, FindNothing
  PROVE  Walked'
<1> SUFFICES ASSUME Seeking' PROVE (Placed /\ Passed /\ Chained /\ Listed /\ Opened)'
  BY DEF Walked
<1>1. Searching /\ at = "search"
  BY DEF FindNothing, Searching
<1>2. /\ walk = "text" /\ job.op = "open" /\ Walk("png", job.path) /\ UNCHANGED <<found, target, answer>>
  BY DEF FindNothing, Says, Seeking
<1>3. /\ walk # "update" /\ Sound /\ Whole(job.path) /\ Sane(disk)
      /\ disk' = disk /\ job' = job
  BY <1>1, <1>2 DEF Seeking, Searching, portVars, driver, drive, Sound
<1>4. /\ cur' = Start(0) /\ chain' = <<>> /\ goal' = "list" /\ at' = "chain"
      /\ walk' = "png" /\ i' = Begin(job.path) /\ folder' = 0 /\ entries' = {}
  BY <1>2, WalkShape
<1>5. i' = 1 /\ 1 - 1 = 0
  BY <1>3, <1>4 DEF Whole
<1>6. FoldersOn(disk, job.path, 0) = {0} /\ Len(job.path) \in Nat
  <2>1. Volume(disk) /\ 0 \in Nat /\ job.path \in Seq(Component)
    BY <1>3 DEF Asked, Sound, Shape
  <2> QED
    BY <2>1, FoldersNext
<1>7. Placed'
  BY <1>2, <1>3, <1>4, <1>5, <1>6 DEF Placed
<1>8. Passed'
  <2>1. NoFile(disk, job.path)
    BY <1>2, <1>3, NothingThere
  <2> QED
    BY <1>3, <1>5, <2>1 DEF Passed, NoFileBefore
<1>9. Chained' /\ Listed' /\ Opened'
  BY <1>4 DEF Chained, Listed, Opened, Loading, Subject
<1> QED
  BY <1>7, <1>8, <1>9

LEMMA WalkedPage ==
  ASSUME IInv, Shape, Apart, Asked, Walked, ReadPage
  PROVE  Walked'
<1> SUFFICES ASSUME Seeking' PROVE (Placed /\ Passed /\ Chained /\ Listed /\ Opened)'
  BY DEF Walked
<1>1. /\ at = "load" /\ Asks /\ Volume(disk) /\ Sound /\ disk' = disk /\ job' = job /\ mem' = mem
      /\ req.op = "read" => mem[req.buf] = disk[req.lba]
  BY ReadBack DEF ReadPage, Seeking
<1>2. k' = k + 1 /\ k < Len(chain) /\ UNCHANGED <<at, search, cur, chain, goal, answer>>
  <2>1. at' # "stopped" /\ at' # "prompt" /\ walk' # "update"
    BY DEF Seeking
  <2> QED
    BY <2>1, WalkShape DEF ReadPage, Says
<1>3. UNCHANGED <<at, walk, i, folder, entries, found, cur, chain, goal>>
  BY <1>2 DEF search
<1>4. Seeking
  BY <1>1, <1>3 DEF Seeking
<1>5. Placed /\ Passed /\ Chained /\ Listed /\ Opened
  BY <1>4 DEF Walked
<1>6. k \in 1 .. Len(chain) /\ goal = "load" /\ Len(chain) \in Nat
  BY <1>1 DEF Shape
<1>7. mem[Page(k)] = disk[chain[k]]
  BY <1>1 DEF Asks, Request
<1>8. ASSUME NEW n \in 1 .. k' - 1 PROVE mem'[Page(n)] = disk'[chain'[n]]
  <2>1. CASE n = k
    BY <1>1, <1>3, <1>7, <2>1
  <2>2. CASE n # k
    <3>1. n \in 1 .. k - 1
      BY <1>2, <1>6, <2>2
    <3> QED
      BY <1>1, <1>3, <1>5, <3>1 DEF Opened, Loading
  <2> QED
    BY <2>1, <2>2
<1>9. Placed' /\ Passed'
  BY <1>1, <1>3, <1>5 DEF Placed, Passed
<1>10. Chained' /\ Listed'
  BY <1>1, <1>3, <1>5 DEF Chained, Listed, Subject, IsChain, Leads, Ends, Link
<1>11. Opened'
  BY <1>1, <1>3, <1>5, <1>8 DEF Opened, Loading
<1> QED
  BY <1>9, <1>10, <1>11

LEMMA WalkedInv ==
  ASSUME IInv, Shape, Apart, Asked, Walked, [Next]_vars
  PROVE  Walked'
<1>1. ASSUME NEW op \in {"open", "list", "write"}, NEW path \in Paths, NEW text, Type(op, path, text)
      PROVE  Walked'
  BY <1>1, WalkedType
<1>2. CASE Runs
  <2>1. CASE Commit
    <3>1. UNCHANGED <<fileVars, disk, mem>> /\ (givenUp => givenUp')
      BY <2>1 DEF Commit, Issue, Poll, drive
    <3> QED
      BY <3>1, WalkedKept
  <2>2. CASE Booted \/ List \/ Deinit
    <3>1. ~Seeking'
      BY <2>2 DEF Booted, List, Deinit, Says, Seeking
    <3> QED
      BY <3>1 DEF Walked
  <2>3. CASE FindTarget
    <3>1. ~Seeking'
      BY <2>3 DEF FindTarget, Seeking
    <3> QED
      BY <3>1 DEF Walked
  <2>4. CASE ReadCopy \/ WriteCopy \/ WritePage
    <3>1. walk' = walk /\ at \in {"merge", "put", "store"}
      BY <2>4 DEF ReadCopy, WriteCopy, WritePage, Back, search
    <3>2. ~Seeking'
      BY <3>1 DEF Apart, Seeking
    <3> QED
      BY <3>2 DEF Walked
  <2> QED
    BY <1>2, <2>1, <2>2, <2>3, <2>4, WalkedAsks, WalkedLink, WalkedEntries, WalkedEnter,
       WalkedFind, WalkedNothing, WalkedPage DEF Runs
<1>3. CASE DriveWorks \/ DriveFails
  BY <1>3, WalkedDrive
<1>4. CASE Restart
  <2>1. ~Seeking'
    BY <1>4 DEF Restart, Seeking
  <2> QED
    BY <2>1 DEF Walked
<1>5. CASE UNCHANGED vars
  <2>1. UNCHANGED <<fileVars, disk, mem, givenUp>>
    BY <1>5 DEF vars, portVars, drive, driver
  <2> QED
    BY <2>1, WalkedKept
<1> QED
  BY <1>1, <1>2, <1>3, <1>4, <1>5 DEF Next

(* What the commands have to print.                                        *)
FilesFound(v, path) == {f \in FilesOn(v, path) : f.place.entry.first # 0}

AnswerOf(v, op, path, said) ==
  LET files   == FilesFound(v, path)
      folders == FoldersOn(v, path, Len(path))
  IN /\ op = "open" =>
          \/ files = {} /\ said = Answer("not found", <<>>)
          \/ \E f \in files : said = Answer("file", ContentOn(v, f.place.entry.first))
     /\ op = "list" =>
          \/ folders = {} /\ said = Answer("not found", <<>>)
          \/ \E f \in folders :
               said = Answer("list", Shown(EntriesOn(v, f)))
     /\ op = "write" => files = {} /\ said = Answer("not found", <<>>)

LEMMA AnswerIs ==
  ASSUME job'.op \in {"open", "list", "write"}, AnswerOf(disk', job'.op, job'.path, answer')
  PROVE  AnswerRight'
<1> DEFINE files   == {f \in FilesOn(disk', job'.path) : f.place.entry.first # 0}
           folders == FoldersOn(disk', job'.path, Len(job'.path))
<1>1. files = FilesFound(disk', job'.path)
  BY DEF FilesFound
<1>2. CASE job'.op = "open"
  <2>1. answer' \in IF files = {} THEN {Answer("not found", <<>>)}
                    ELSE {Answer("file", ContentOn(disk', f.place.entry.first)) : f \in files}
    BY <1>1, <1>2 DEF AnswerOf
  <2> QED
    BY <1>2, <2>1 DEF AnswerRight, FilesAt, FoldersAt, Content, In
<1>3. CASE job'.op = "list"
  <2>1. answer' \in IF folders = {} THEN {Answer("not found", <<>>)}
                    ELSE {Answer("list", Shown(EntriesOn(disk', f))) : f \in folders}
    BY <1>1, <1>3 DEF AnswerOf
  <2> QED
    BY <1>3, <2>1 DEF AnswerRight, FilesAt, FoldersAt, Content, In
<1>4. CASE job'.op = "write"
  <2>1. files = {} /\ answer' = Answer("not found", <<>>)
    BY <1>1, <1>4 DEF AnswerOf
  <2> QED
    BY <1>4, <2>1 DEF AnswerRight, FilesAt, FoldersAt, Content, In
<1> QED
  BY <1>2, <1>3, <1>4

LEMMA ListedIsShown ==
  ASSUME NEW places
  PROVE  NamesListed(places) = Shown(places)
<1>1. {q \in places : ~q.entry.hidden} = places \ {q \in places : q.entry.hidden}
  OBVIOUS
<1> QED
  BY <1>1 DEF NamesListed, Shown

LEMMA AnsweredList ==
  ASSUME Shape, Asked, Walked, Apart, List
  PROVE  Answered'
<1> SUFFICES ASSUME Sane(disk)', Sound', Whole(job'.path) PROVE AnswerRight'
  BY DEF Answered, AnswerRight
<1>1. Searching /\ walk = "listed" /\ answer' = Answer("list", NamesListed(entries))
  BY DEF List, Says
<1>2. Sound /\ Whole(job.path) /\ Sane(disk) /\ disk' = disk /\ job' = job
  BY <1>1 DEF Searching, portVars, driver, drive, Sound
<1>3. Placed /\ entries = EntriesOn(disk, folder) /\ Len(job.path) \in Nat
  BY <1>1, <1>2, Searched
<1>4. /\ job.op = "list" /\ folder \in FoldersOn(disk, job.path, Len(job.path))
  <2>1. i - 1 = Len(job.path)
    BY <1>1, <1>3 DEF Placed
  <2> QED
    BY <1>1, <1>3, <2>1 DEF Placed
<1>5. AnswerOf(disk, job.op, job.path, answer')
  BY <1>1, <1>3, <1>4, ListedIsShown DEF AnswerOf
<1> QED
  BY <1>2, <1>4, <1>5, AnswerIs

LEMMA AnsweredNothing ==
  ASSUME Shape, Asked, Walked, Apart, FindNothing
  PROVE  Answered'
<1> SUFFICES ASSUME Sane(disk)', Sound', Whole(job'.path), at' = "prompt" PROVE AnswerRight'
  BY DEF Answered, AnswerRight
<1>1. /\ Searching /\ walk \notin {"listed", "update"} /\ ~(walk = "text" /\ job.op = "open")
      /\ answer' = Answer("not found", <<>>) /\ Folders = {}
  BY WalkShape DEF FindNothing, Says
<1>2. Sound /\ Whole(job.path) /\ Sane(disk) /\ disk' = disk /\ job' = job
  BY <1>1 DEF Searching, portVars, driver, drive, Sound
<1>3. /\ Placed /\ entries = EntriesOn(disk, folder) /\ Len(job.path) \in Nat /\ Volume(disk)
      /\ i \in Nat
      /\ FoldersOn(disk, job.path, i) = FoldersIn(disk, {folder}, job.path[i].name)
  BY <1>1, <1>2, Searched
<1>4. CASE walk = "list"
  <2>1. job.op = "list" /\ i <= Len(job.path)
    BY <1>3, <1>4 DEF Placed
  <2>2. \A p \in entries : p.entry.name = job.path[i].name => ~p.entry.folder
    BY <1>1, <1>4, <2>1 DEF Folders, Here
  <2>3. FoldersOn(disk, job.path, i) = {}
    BY <1>3, <2>2 DEF FoldersIn
  <2>4. FoldersOn(disk, job.path, Len(job.path)) = {}
    BY <1>3, <2>1, <2>3, NoneFurther
  <2>5. AnswerOf(disk, job.op, job.path, answer')
    BY <1>1, <2>1, <2>4 DEF AnswerOf
  <2> QED
    BY <1>2, <2>1, <2>5, AnswerIs
<1>5. CASE walk \in {"text", "png"}
  <2>1. NoFile(disk, job.path)
    BY <1>2, <1>5, NothingThere
  <2>2. FilesFound(disk, job.path) = {} /\ job.op \in {"open", "write"}
    BY <1>3, <1>5, <2>1 DEF NoFile, FilesFound, Placed
  <2>3. AnswerOf(disk, job.op, job.path, answer')
    BY <1>1, <2>2 DEF AnswerOf
  <2> QED
    BY <1>2, <2>2, <2>3, AnswerIs
<1> QED
  BY <1>1, <1>3, <1>4, <1>5 DEF Placed

LEMMA AnsweredPage ==
  ASSUME IInv, Shape, Asked, Walked, Apart, ReadPage
  PROVE  Answered'
<1> SUFFICES ASSUME Sane(disk)', Sound', Whole(job'.path), at' = "prompt" PROVE AnswerRight'
  BY DEF Answered, AnswerRight
<1>1. /\ at = "load" /\ Asks /\ Volume(disk) /\ Sound /\ disk' = disk /\ job' = job /\ mem' = mem
      /\ req.op = "read" => mem[req.buf] = disk[req.lba]
  BY ReadBack DEF ReadPage
<1>2. walk # "update"
  BY <1>1 DEF Apart
<1>3. Seeking
  BY <1>1, <1>2 DEF Seeking
<1>4. Placed /\ Passed /\ Chained /\ Listed /\ Opened
  BY <1>3 DEF Walked
<1>5. /\ k \in 1 .. Len(chain) /\ goal = "load" /\ Len(chain) \in Nat
      /\ found.entry.first \in Firsts
  BY <1>1, FirstTyped DEF Shape, Loading
<1>6. mem[Page(k)] = disk[chain[k]]
  BY <1>1 DEF Asks, Request
<1>7. walk = "text" /\ found.entry.first # 0 /\ \E f \in FilesOn(disk, job.path) : f.place = found
  BY <1>1, <1>4 DEF Opened, Loading
<1>8. k = Len(chain) /\ job.op = "open" /\ answer' = Answer("file", Loaded)
  BY <1>1, <1>7, WalkShape DEF ReadPage, Says
<1>9. \A n \in 1 .. Len(chain) : mem[Page(n)] = disk[chain[n]]
  <2> TAKE n \in 1 .. Len(chain)
  <2>1. CASE n = k
    BY <1>6, <2>1
  <2>2. CASE n # k
    <3>1. n \in 1 .. k - 1
      BY <1>5, <1>8, <2>2
    <3> QED
      BY <1>1, <1>4, <3>1 DEF Opened, Loading
  <2> QED
    BY <2>1, <2>2
<1>10. ChainOn(disk, found.entry.first) = chain
  <2>1. IsChain(disk, found.entry.first, chain)
    BY <1>1, <1>4, <1>5 DEF Chained, Subject
  <2> QED
    BY <1>1, <1>5, <2>1, ChainIs, ChainOnly
<1>11. Loaded = ContentOn(disk, found.entry.first)
  BY <1>9, <1>10 DEF Loaded, ContentOn
<1>12. AnswerOf(disk, job.op, job.path, answer')
  BY <1>7, <1>8, <1>11 DEF AnswerOf, FilesFound
<1> QED
  BY <1>1, <1>8, <1>12, AnswerIs

LEMMA AnsweredInv ==
  ASSUME IInv, Shape, Apart, Asked, Walked, Answered, [Next]_vars
  PROVE  Answered'
<1>1. CASE \E op, path, text : Type(op, path, text)
  <2>1. at' # "prompt"
    BY <1>1 DEF Type, Walk, Follow
  <2> QED
    BY <2>1 DEF Answered
<1>2. CASE Runs
  <2>1. CASE Booted
    <3>1. job' = NoJob
      BY <2>1 DEF Booted, Back, Apart
    <3> QED
      BY <3>1 DEF Answered, AnswerRight, NoJob
  <2>2. CASE AskDrive \/ Commit
    <3>1. at # "prompt" /\ at' = at
      BY <2>2 DEF AskDrive, Commit, Issue, Poll, fileVars, IInv, IdleInv
    <3> QED
      BY <3>1 DEF Answered
  <2>3. CASE ReadLink
    <3>1. at' # "prompt"
      BY <2>3 DEF ReadLink, Back, Shape
    <3> QED
      BY <3>1 DEF Answered
  <2>4. CASE ReadEntries \/ Enter \/ FindFile \/ FindTarget \/ ReadCopy \/ WriteCopy \/ WritePage \/ Deinit
    <3>1. at' # "prompt"
      BY <2>4 DEF ReadEntries, Enter, FindFile, FindTarget, ReadCopy, WriteCopy, WritePage, Deinit, Follow
    <3> QED
      BY <3>1 DEF Answered
  <2> QED
    BY <1>2, <2>1, <2>2, <2>3, <2>4, AnsweredList, AnsweredNothing, AnsweredPage DEF Runs
<1>3. CASE DriveWorks \/ DriveFails
  <2>1. UNCHANGED <<at, job, answer, failed, givenUp, pc>>
    BY <1>3 DEF DriveWorks, DriveFails, Fetch, Move, Complete, Fail, driver
  <2>2. CASE at = "prompt" /\ ~givenUp
    <3>1. ~ci /\ device = "ready"
      BY <2>2 DEF IInv, PortInv, IdleInv
    <3> QED
      BY <1>3, <3>1 DEF DriveWorks, DriveFails, Fetch, Move, Complete, Fail
  <2>3. CASE at = "prompt" /\ givenUp
    BY <2>1, <2>3 DEF Answered, AnswerRight, Sound
  <2>4. CASE at # "prompt"
    BY <2>1, <2>4 DEF Answered
  <2> QED
    BY <2>2, <2>3, <2>4
<1>4. CASE Restart
  BY <1>4 DEF Restart, Answered
<1>5. CASE UNCHANGED vars
  <2>1. UNCHANGED <<at, job, answer, failed, givenUp, disk>>
    BY <1>5 DEF vars, portVars, driver, drive, fileVars
  <2> QED
    BY <2>1 DEF Answered, AnswerRight, Sound, FilesAt, FoldersAt, In, Content
<1> QED
  BY <1>1, <1>2, <1>3, <1>4, <1>5 DEF Next

WalkInv == IInv /\ Shape /\ Apart /\ Asked /\ Walked /\ Answered

LEMMA InitWalk == Init => WalkInv
<1> SUFFICES ASSUME Init PROVE WalkInv
  OBVIOUS
<1>1. ~Seeking /\ at # "prompt"
  BY DEF Init, Seeking
<1> QED
  BY <1>1, Initial, InitShape, InitAsked DEF WalkInv, Walked, Answered

LEMMA NextWalk == WalkInv /\ [Next]_vars => WalkInv'
<1> SUFFICES ASSUME WalkInv, [Next]_vars PROVE WalkInv'
  OBVIOUS
<1> USE DEF WalkInv
<1>1. IInv'
  BY NextInv
<1>2. Shape'
  BY ShapeInv
<1>3. Apart'
  BY ApartInv
<1>4. Asked'
  BY AskedInv
<1>5. Walked'
  BY WalkedInv
<1>6. Answered'
  BY AnsweredInv
<1> QED
  BY <1>1, <1>2, <1>3, <1>4, <1>5, <1>6

(***************************************************************************)
(* Volumes that differ in what a write may change.                         *)
(***************************************************************************)

(* An entry without its size and its dates; two directories of which the   *)
(* one has fewer entries than the other, or the same, apart from these.    *)
Trim(e) == [e EXCEPT !.size = 0, !.dated = FALSE]
Fewer(new, old) ==
  /\ new \in Directories /\ old \in Directories
  /\ \A s \in Slots : new[s] # NoEntry => old[s] # NoEntry /\ Trim(new[s]) = Trim(old[s])
SamePlace(p, q) == p.n = q.n /\ p.slot = q.slot /\ Trim(p.entry) = Trim(q.entry)

LEMMA Trimmed ==
  ASSUME NEW a \in Entry, NEW b \in Entry, Trim(a) = Trim(b)
  PROVE  /\ a.name = b.name /\ a.folder = b.folder /\ a.readOnly = b.readOnly
         /\ a.hidden = b.hidden /\ a.text = b.text /\ a.first = b.first
<1>1. ASSUME NEW e \in Entry
      PROVE  /\ Trim(e).name = e.name /\ Trim(e).folder = e.folder /\ Trim(e).readOnly = e.readOnly
             /\ Trim(e).hidden = e.hidden /\ Trim(e).text = e.text /\ Trim(e).first = e.first
  BY DEF Trim, Entry
<1> QED
  BY <1>1

LEMMA Resized ==
  ASSUME NEW a \in Entry, NEW b \in Entry, Trim(a) = Trim(b)
  PROVE  b = [a EXCEPT !.size = b.size, !.dated = b.dated]
<1> DEFINE c == [a EXCEPT !.size = b.size, !.dated = b.dated]
<1>1. ASSUME NEW e \in Entry
      PROVE  e = [name |-> e.name, folder |-> e.folder, readOnly |-> e.readOnly,
                  hidden |-> e.hidden, text |-> e.text, dated |-> e.dated, first |-> e.first,
                  size |-> e.size]
  BY DEF Entry
<1>2. b.size \in Nat /\ b.dated \in BOOLEAN
  BY DEF Entry
<1>3. /\ c \in Entry
      /\ c.name = a.name /\ c.folder = a.folder /\ c.readOnly = a.readOnly
      /\ c.hidden = a.hidden /\ c.text = a.text /\ c.first = a.first
      /\ c.size = b.size /\ c.dated = b.dated
  BY <1>2 DEF Entry
<1>4. /\ b.name = a.name /\ b.folder = a.folder /\ b.readOnly = a.readOnly
      /\ b.hidden = a.hidden /\ b.text = a.text /\ b.first = a.first
  BY Trimmed
<1> HIDE DEF c
<1>5. b = c
  BY <1>1, <1>3, <1>4
<1> QED
  BY <1>5 DEF c

(* The chains depend on the allocation table only.                         *)
LEMMA ChainSame ==
  ASSUME NEW v, Volume(v), NEW w, w[FatSector] = v[FatSector], NEW first \in Firsts
  PROVE  Volume(w) /\ ChainOn(w, first) = ChainOn(v, first) /\ ClustersOf(w, first) = ClustersOf(v, first)
<1>1. Volume(w)
  BY DEF Volume
<1>2. IsChain(v, first, ChainOn(v, first)) /\ IsChain(w, first, ChainOn(w, first))
  BY <1>1, ChainIs
<1>3. IsChain(v, first, ChainOn(w, first))
  BY <1>2 DEF IsChain, Leads, Ends, Link
<1>4. ChainOn(w, first) = ChainOn(v, first)
  BY <1>2, <1>3, ChainOnly
<1> QED
  BY <1>1, <1>4 DEF ClustersOf

(* The entries of a folder, one by one.                                    *)
IsEntryOn(v, first, p) ==
  LET c == ChainOn(v, first)
  IN /\ p.n \in 1 .. Len(c) /\ p.slot \in Slots
     /\ v[c[p.n]] \in Directories /\ v[c[p.n]][p.slot] # NoEntry
     /\ p = Place(p.n, p.slot, v[c[p.n]][p.slot])

LEMMA EntriesAre ==
  ASSUME NEW v, NEW first, NEW p
  PROVE  p \in EntriesOn(v, first) <=> IsEntryOn(v, first, p)
<1> DEFINE c == ChainOn(v, first)
<1>1. EntriesOn(v, first) = UNION {EntriesIn(v[c[n]], n) : n \in 1 .. Len(c)}
  BY DEF EntriesOn
<1>2. IsEntryOn(v, first, p) <=>
        /\ p.n \in 1 .. Len(c) /\ p.slot \in Slots
        /\ v[c[p.n]] \in Directories /\ v[c[p.n]][p.slot] # NoEntry
        /\ p = Place(p.n, p.slot, v[c[p.n]][p.slot])
  BY DEF IsEntryOn
<1> HIDE DEF c
<1>3. ASSUME p \in EntriesOn(v, first) PROVE IsEntryOn(v, first, p)
  <2>1. PICK n \in 1 .. Len(c) : p \in EntriesIn(v[c[n]], n)
    BY <1>1, <1>3
  <2>2. v[c[n]] \in Directories
    BY <2>1 DEF EntriesIn
  <2>3. PICK q \in Slots : v[c[n]][q] # NoEntry /\ p = Place(n, q, v[c[n]][q])
    BY <2>1, <2>2 DEF EntriesIn
  <2>4. p.n = n /\ p.slot = q
    BY <2>3 DEF Place
  <2> QED
    BY <1>2, <2>2, <2>3, <2>4
<1>4. ASSUME IsEntryOn(v, first, p) PROVE p \in EntriesOn(v, first)
  <2>1. p \in EntriesIn(v[c[p.n]], p.n)
    BY <1>2, <1>4 DEF EntriesIn
  <2> QED
    BY <1>1, <1>2, <1>4, <2>1
<1> QED
  BY <1>3, <1>4

LEMMA EntriesFewer ==
  ASSUME NEW v, Volume(v), NEW w, w[FatSector] = v[FatSector], NEW first \in Firsts,
         \A c \in ClustersOf(v, first) : Fewer(w[c], v[c]),
         NEW q \in EntriesOn(w, first)
  PROVE  \E p \in EntriesOn(v, first) : SamePlace(p, q)
<1> DEFINE s == ChainOn(v, first)
<1>1. ChainOn(w, first) = s /\ ClustersOf(v, first) = {s[n] : n \in 1 .. Len(s)}
  BY ChainSame DEF ClustersOf
<1>2. IsEntryOn(w, first, q)
  BY EntriesAre
<1> HIDE DEF s
<1>3. /\ q.n \in 1 .. Len(s) /\ q.slot \in Slots
      /\ w[s[q.n]] \in Directories /\ w[s[q.n]][q.slot] # NoEntry
      /\ q = Place(q.n, q.slot, w[s[q.n]][q.slot])
  BY <1>1, <1>2 DEF IsEntryOn
<1>4. Fewer(w[s[q.n]], v[s[q.n]])
  BY <1>1, <1>3
<1> DEFINE p == Place(q.n, q.slot, v[s[q.n]][q.slot])
<1>5. /\ v[s[q.n]] \in Directories /\ v[s[q.n]][q.slot] # NoEntry
      /\ Trim(v[s[q.n]][q.slot]) = Trim(w[s[q.n]][q.slot])
  BY <1>3, <1>4 DEF Fewer
<1>6. p.n = q.n /\ p.slot = q.slot /\ p.entry = v[s[q.n]][q.slot]
  BY DEF Place
<1>7. q.entry = w[s[q.n]][q.slot]
  BY <1>3 DEF Place
<1>8. IsEntryOn(v, first, p)
  BY <1>3, <1>5, <1>6 DEF IsEntryOn, s
<1>9. p \in EntriesOn(v, first) /\ SamePlace(p, q)
  BY <1>5, <1>6, <1>7, <1>8, EntriesAre DEF SamePlace
<1> QED
  BY <1>9

(* A file system with fewer entries is still one.                          *)
LEMMA ProperKept ==
  ASSUME NEW v, Volume(v), NEW w, w[FatSector] = v[FatSector], NEW known \in SUBSET Firsts,
         Proper(v, known),
         \A f \in known : \A c \in ClustersOf(v, f) : Fewer(w[c], v[c])
  PROVE  Proper(w, known)
<1>1. \A f \in Firsts : ChainOn(w, f) = ChainOn(v, f) /\ ClustersOf(w, f) = ClustersOf(v, f)
  BY ChainSame
<1>2. \A f \in Firsts : (Straight(w, f) <=> Straight(v, f)) /\ (OffFolders(w, known, f) <=> OffFolders(v, known, f))
  BY <1>1 DEF Straight, OffFolders
<1>3. ASSUME NEW f \in known
      PROVE  /\ Straight(w, f) /\ \A c \in ClustersOf(w, f) : w[c] \in Directories
             /\ \A p, q \in EntriesOn(w, f) : p.entry.name = q.entry.name => p = q
             /\ \A p \in EntriesOn(w, f) :
                  IF p.entry.folder THEN p.entry.first \in known
                  ELSE p.entry.first # 0 => Straight(w, p.entry.first) /\ OffFolders(w, known, p.entry.first)
  <2>1. Straight(w, f) /\ \A c \in ClustersOf(w, f) : w[c] \in Directories
    BY <1>1, <1>2, <1>3 DEF Proper, Fewer
  <2>2. ASSUME NEW p \in EntriesOn(w, f)
        PROVE  \E q \in EntriesOn(v, f) :
                 /\ SamePlace(q, p) /\ q.entry.name = p.entry.name
                 /\ q.entry.folder = p.entry.folder /\ q.entry.first = p.entry.first
                 /\ p.entry.first \in Firsts
    <3>1. PICK q \in EntriesOn(v, f) : SamePlace(q, p)
      BY EntriesFewer
    <3>2. q.entry \in Entry /\ p.entry \in Entry
      <4>1. Volume(w)
        BY DEF Volume
      <4> QED
        BY <4>1, EntriesTyped
    <3>3. p.entry.first \in Firsts
      BY <3>2 DEF Entry, Firsts
    <3> QED
      BY <3>1, <3>2, <3>3, Trimmed DEF SamePlace
  <2>3. ASSUME NEW p \in EntriesOn(w, f), NEW q \in EntriesOn(w, f), p.entry.name = q.entry.name
        PROVE  p = q
    <3>1. PICK a \in EntriesOn(v, f) : SamePlace(a, p) /\ a.entry.name = p.entry.name
      BY <2>2
    <3>2. PICK b \in EntriesOn(v, f) : SamePlace(b, q) /\ b.entry.name = q.entry.name
      BY <2>2
    <3>3. a = b
      BY <1>3, <2>3, <3>1, <3>2 DEF Proper
    <3>4. p.n = q.n /\ p.slot = q.slot
      BY <3>1, <3>2, <3>3 DEF SamePlace
    <3>5. IsEntryOn(w, f, p) /\ IsEntryOn(w, f, q)
      BY EntriesAre
    <3> QED
      BY <3>4, <3>5 DEF IsEntryOn
  <2>4. ASSUME NEW p \in EntriesOn(w, f)
        PROVE  IF p.entry.folder THEN p.entry.first \in known
               ELSE p.entry.first # 0 => Straight(w, p.entry.first) /\ OffFolders(w, known, p.entry.first)
    <3>1. PICK a \in EntriesOn(v, f) :
            /\ a.entry.folder = p.entry.folder /\ a.entry.first = p.entry.first /\ p.entry.first \in Firsts
      BY <2>2
    <3>2. IF a.entry.folder THEN a.entry.first \in known
          ELSE a.entry.first # 0 => Straight(v, a.entry.first) /\ OffFolders(v, known, a.entry.first)
      BY <1>3 DEF Proper
    <3> QED
      BY <1>2, <3>1, <3>2
  <2> QED
    BY <2>1, <2>3, <2>4
<1> QED
  BY <1>3 DEF Proper

(* A volume in which no entry was lost or found, only sizes changed.       *)
Alike(v, w, known) ==
  /\ w[FatSector] = v[FatSector]
  /\ \A f \in known : \A c \in ClustersOf(v, f) : Fewer(w[c], v[c]) /\ Fewer(v[c], w[c])
Same(p, q) ==
  /\ SamePlace(p, q) /\ p.entry.name = q.entry.name /\ p.entry.folder = q.entry.folder
  /\ p.entry.first = q.entry.first

LEMMA SameIs ==
  ASSUME NEW v, Volume(v), NEW w, Volume(w), NEW first \in Firsts,
         NEW p \in EntriesOn(v, first), NEW q \in EntriesOn(w, first), SamePlace(p, q)
  PROVE  Same(p, q) /\ Same(q, p)
<1>1. p.entry \in Entry /\ q.entry \in Entry
  BY EntriesTyped
<1> QED
  BY <1>1, Trimmed DEF Same, SamePlace

LEMMA EntriesAlike ==
  ASSUME NEW v, Volume(v), NEW w, NEW known \in SUBSET Firsts, Alike(v, w, known), NEW first \in known
  PROVE  /\ \A p \in EntriesOn(v, first) : \E q \in EntriesOn(w, first) : Same(p, q)
         /\ \A q \in EntriesOn(w, first) : \E p \in EntriesOn(v, first) : Same(p, q)
<1>1. Volume(w) /\ ClustersOf(w, first) = ClustersOf(v, first) /\ w[FatSector] = v[FatSector]
  BY ChainSame DEF Alike
<1>2. /\ \A c \in ClustersOf(v, first) : Fewer(w[c], v[c])
      /\ \A c \in ClustersOf(w, first) : Fewer(v[c], w[c])
  BY <1>1 DEF Alike
<1>3. ASSUME NEW q \in EntriesOn(w, first) PROVE \E p \in EntriesOn(v, first) : Same(p, q)
  <2>1. PICK p \in EntriesOn(v, first) : SamePlace(p, q)
    BY <1>1, <1>2, EntriesFewer
  <2> QED
    BY <1>1, <2>1, SameIs
<1>4. ASSUME NEW p \in EntriesOn(v, first) PROVE \E q \in EntriesOn(w, first) : Same(p, q)
  <2>1. PICK q \in EntriesOn(w, first) : SamePlace(q, p)
    BY <1>1, <1>2, EntriesFewer
  <2> QED
    BY <1>1, <2>1, SameIs
<1> QED
  BY <1>3, <1>4

LEMMA FoldersAlike ==
  ASSUME NEW v, Volume(v), NEW w, NEW known \in SUBSET Firsts, Proper(v, known),
         Alike(v, w, known), NEW path, NEW n \in Nat
  PROVE  FoldersOn(w, path, n) = FoldersOn(v, path, n)
<1> DEFINE Differ(m) == FoldersOn(w, path, m) # FoldersOn(v, path, m)
           Odd == {m \in Nat : Differ(m)}
<1>0. Volume(w)
  BY DEF Alike, Volume
<1>1. ~Differ(0)
  BY <1>0, FoldersNext
<1>2. ASSUME NEW m \in Nat, ~Differ(m) PROVE ~Differ(m + 1)
  <2> DEFINE folders == FoldersOn(v, path, m)
             name == path[m + 1].name
  <2>1. FoldersOn(v, path, m + 1) = FoldersIn(v, folders, name) /\ folders \subseteq known
    BY FoldersNext, FoldersWithin
  <2>2. FoldersOn(w, path, m + 1) = FoldersIn(w, folders, name)
    BY <1>0, <1>2, FoldersNext
  <2> HIDE DEF folders, name
  <2>3. ASSUME NEW a \in FoldersIn(v, folders, name) PROVE a \in FoldersIn(w, folders, name)
    <3>1. PICK f \in folders : \E p \in EntriesOn(v, f) :
            p.entry.folder /\ p.entry.name = name /\ a = p.entry.first
      BY <2>3 DEF FoldersIn
    <3>2. \E q \in EntriesOn(w, f) : q.entry.folder /\ q.entry.name = name /\ a = q.entry.first
      BY <2>1, <3>1, EntriesAlike DEF Same
    <3> QED
      BY <3>2 DEF FoldersIn
  <2>4. ASSUME NEW a \in FoldersIn(w, folders, name) PROVE a \in FoldersIn(v, folders, name)
    <3>1. PICK f \in folders : \E p \in EntriesOn(w, f) :
            p.entry.folder /\ p.entry.name = name /\ a = p.entry.first
      BY <2>4 DEF FoldersIn
    <3>2. \E q \in EntriesOn(v, f) : q.entry.folder /\ q.entry.name = name /\ a = q.entry.first
      BY <2>1, <3>1, EntriesAlike DEF Same
    <3> QED
      BY <3>2 DEF FoldersIn
  <2>5. FoldersIn(v, folders, name) = FoldersIn(w, folders, name)
    BY <2>3, <2>4
  <2> QED
    BY <2>1, <2>2, <2>5
<1>3. Odd \subseteq Nat /\ (\A m \in Odd : Differ(m)) /\ \A m \in Nat : Differ(m) => m \in Odd
  OBVIOUS
<1> HIDE DEF Differ, Odd
<1>4. Odd = {}
  <2> SUFFICES ASSUME Odd # {} PROVE FALSE
    OBVIOUS
  <2>1. PICK m \in Odd : \A j \in Odd : m <= j
    BY <1>3, Least
  <2>2. m \in Nat /\ Differ(m) /\ m # 0
    BY <1>1, <1>3
  <2>3. m - 1 \in Nat /\ (m - 1) + 1 = m /\ ~(m <= m - 1)
    BY <2>2
  <2>4. Differ(m - 1)
    BY <1>2, <2>2, <2>3
  <2> QED
    BY <1>3, <2>1, <2>3, <2>4
<1> QED
  BY <1>3, <1>4 DEF Differ

(* A file on the way of a path, at its m-th name.                          *)
FileAt(v, path, f, m) ==
  /\ m \in 1 .. Len(path) /\ f.folder \in FoldersOn(v, path, m - 1)
  /\ f.place \in EntriesOn(v, f.folder)
  /\ ~f.place.entry.folder /\ f.place.entry.name = path[m].name
  /\ f = [folder |-> f.folder, place |-> f.place]

LEMMA FilesAre ==
  ASSUME NEW v, NEW path \in Seq(Component), NEW f
  PROVE  f \in FilesOn(v, path) <=> \E m \in 1 .. Len(path) : FileAt(v, path, f, m)
<1>1. ASSUME f \in FilesOn(v, path) PROVE \E m \in 1 .. Len(path) : FileAt(v, path, f, m)
  <2>1. PICK m \in 1 .. Len(path) : f \in UNION {FilesIn(v, g, path[m].name) : g \in FoldersOn(v, path, m - 1)}
    BY <1>1 DEF FilesOn
  <2>2. PICK g \in FoldersOn(v, path, m - 1) : f \in FilesIn(v, g, path[m].name)
    BY <2>1
  <2>3. PICK p \in EntriesOn(v, g) :
          ~p.entry.folder /\ p.entry.name = path[m].name /\ f = [folder |-> g, place |-> p]
    BY <2>2 DEF FilesIn
  <2>4. f.folder = g /\ f.place = p
    BY <2>3
  <2> QED
    BY <2>2, <2>3, <2>4 DEF FileAt
<1>2. ASSUME NEW m \in 1 .. Len(path), FileAt(v, path, f, m) PROVE f \in FilesOn(v, path)
  BY <1>2, FileThere DEF FileAt
<1> QED
  BY <1>1, <1>2

LEMMA FilesAlike ==
  ASSUME NEW v, Volume(v), NEW w, NEW known \in SUBSET Firsts, Proper(v, known),
         Alike(v, w, known), NEW path \in Seq(Component), NEW f \in FilesOn(v, path)
  PROVE  \E g \in FilesOn(w, path) : g.folder = f.folder /\ Same(f.place, g.place)
<1>1. PICK m \in 1 .. Len(path) : FileAt(v, path, f, m)
  BY FilesAre
<1>2. m - 1 \in Nat
  OBVIOUS
<1>3. /\ f.folder \in FoldersOn(v, path, m - 1) /\ f.place \in EntriesOn(v, f.folder)
      /\ ~f.place.entry.folder /\ f.place.entry.name = path[m].name
  BY <1>1 DEF FileAt
<1>4. f.folder \in known
  BY <1>2, <1>3, FoldersWithin
<1>5. PICK q \in EntriesOn(w, f.folder) : Same(f.place, q)
  BY <1>3, <1>4, EntriesAlike
<1>6. f.folder \in FoldersOn(w, path, m - 1)
  BY <1>2, <1>3, FoldersAlike
<1>7. [folder |-> f.folder, place |-> q] \in FilesOn(w, path)
  BY <1>3, <1>5, <1>6, FileThere DEF Same
<1>8. [folder |-> f.folder, place |-> q].folder = f.folder /\ [folder |-> f.folder, place |-> q].place = q
  OBVIOUS
<1> QED
  BY <1>5, <1>7, <1>8

(* Behind a file the path leads nowhere.                                   *)
LEMMA FileEnds ==
  ASSUME NEW v, Volume(v), Sane(v), NEW path \in Seq(Component), NEW f, NEW m, FileAt(v, path, f, m)
  PROVE  \A n \in Nat : m <= n => FoldersOn(v, path, n) = {}
<1>0. m - 1 \in Nat /\ (m - 1) + 1 = m /\ m \in Nat
  BY DEF FileAt
<1>1. PICK known \in SUBSET Firsts : Proper(v, known)
  BY DEF Sane
<1>2. \A a \in FoldersOn(v, path, m - 1) : a = f.folder
  BY <1>0, OneFolder DEF FileAt
<1>3. FoldersOn(v, path, (m - 1) + 1) = FoldersIn(v, FoldersOn(v, path, m - 1), path[(m - 1) + 1].name)
  BY <1>0, FoldersNext
<1>4. f.folder \in known
  BY <1>0, <1>1, FoldersWithin DEF FileAt
<1>5. ASSUME NEW p \in EntriesOn(v, f.folder), p.entry.name = path[m].name PROVE ~p.entry.folder
  BY <1>1, <1>4, <1>5 DEF FileAt, Proper
<1>6. FoldersOn(v, path, m) = {}
  BY <1>0, <1>2, <1>3, <1>5 DEF FoldersIn
<1> QED
  BY <1>0, <1>6, NoneFurther

(* A path leads to one file, or to none.                                   *)
LEMMA OneFileBelow ==
  ASSUME NEW v, Volume(v), Sane(v), NEW path \in Seq(Component), NEW f, NEW g,
         NEW m \in 1 .. Len(path), NEW n \in 1 .. Len(path), m <= n,
         FileAt(v, path, f, m), FileAt(v, path, g, n)
  PROVE  f = g
<1>0. m - 1 \in Nat /\ n - 1 \in Nat
  OBVIOUS
<1>1. PICK known \in SUBSET Firsts : Proper(v, known)
  BY DEF Sane
<1>2. CASE m = n
  <2>1. f.folder = g.folder
    BY <1>0, <1>2, OneFolder DEF FileAt
  <2>2. f.folder \in known
    BY <1>0, <1>1, FoldersWithin DEF FileAt
  <2>3. f.place = g.place
    BY <1>1, <1>2, <2>1, <2>2 DEF FileAt, Proper
  <2> QED
    BY <2>1, <2>3 DEF FileAt
<1>3. CASE m # n
  <2>1. m <= n - 1
    BY <1>3
  <2>2. FoldersOn(v, path, n - 1) = {}
    BY <1>0, <2>1, FileEnds
  <2> QED
    BY <2>2 DEF FileAt
<1> QED
  BY <1>2, <1>3

(* The way to a file goes on until it is reached.                          *)
LEMMA FileAhead ==
  ASSUME NEW v, Volume(v), Sane(v), NEW path \in Seq(Component), NEW f, NEW m, FileAt(v, path, f, m),
         NEW n \in Nat \ {0}, NEW first \in FoldersOn(v, path, n - 1)
  PROVE  \/ n = m /\ first = f.folder
         \/ /\ n < m
            /\ \E q \in EntriesOn(v, first) : q.entry.folder /\ q.entry.name = path[n].name
<1>0. m - 1 \in Nat /\ m \in Nat /\ n - 1 \in Nat /\ (n - 1) + 1 = n
  BY DEF FileAt
<1>1. n <= m
  <2>1. SUFFICES ASSUME m < n PROVE FALSE
    BY <1>0
  <2>2. m <= n - 1
    BY <1>0, <2>1
  <2> QED
    BY <1>0, <2>2, FileEnds
<1>2. CASE n = m
  BY <1>0, <1>2, OneFolder DEF FileAt
<1>3. CASE n < m
  <2>1. FoldersOn(v, path, n) # {}
    <3>1. n <= m - 1 /\ FoldersOn(v, path, m - 1) # {}
      BY <1>0, <1>3 DEF FileAt
    <3> QED
      BY <1>0, <3>1, NoneFurther
  <2>2. FoldersOn(v, path, (n - 1) + 1) = FoldersIn(v, FoldersOn(v, path, n - 1), path[(n - 1) + 1].name)
    BY <1>0, FoldersNext
  <2>3. \A a \in FoldersOn(v, path, n - 1) : a = first
    BY <1>0, OneFolder
  <2>4. \E q \in EntriesOn(v, first) : q.entry.folder /\ q.entry.name = path[n].name
    BY <1>0, <2>1, <2>2, <2>3 DEF FoldersIn
  <2> QED
    BY <1>3, <2>4
<1> QED
  BY <1>0, <1>1, <1>2, <1>3

LEMMA OneFile ==
  ASSUME NEW v, Volume(v), Sane(v), NEW path \in Seq(Component),
         NEW f \in FilesOn(v, path), NEW g \in FilesOn(v, path)
  PROVE  f = g
<1>1. PICK m \in 1 .. Len(path) : FileAt(v, path, f, m)
  BY FilesAre
<1>2. PICK n \in 1 .. Len(path) : FileAt(v, path, g, n)
  BY FilesAre
<1>3. CASE m <= n
  BY <1>1, <1>2, <1>3, OneFileBelow
<1>4. CASE n <= m
  BY <1>1, <1>2, <1>4, OneFileBelow
<1> QED
  BY <1>3, <1>4

(***************************************************************************)
(* What a write changes, whichever requests fail.                          *)
(***************************************************************************)

(* The names looked for, and how many of them were passed.                 *)
Way   == SubSeq(job.path, Begin(job.path), Len(job.path))
Depth == i - Begin(job.path)

(* Whose chain is followed.                                                *)
Owner == IF goal = "load" THEN found.entry.first ELSE IF goal = "store" THEN target ELSE folder

(* A command looks for its file, changes the directory, or writes the file.*)
InWalk  == at \in {"list", "search", "load"} \/ (at = "chain" /\ goal \in {"list", "load"})
InMerge == at \in {"merge", "put"} \/ (at = "chain" /\ goal = "merge")
InStore == at = "store" \/ (at = "chain" /\ goal = "store")

(* A read that fails leaves zeros or what is on the disk in its buffer.    *)
Filled == ~givenUp /\ pc # "idle" /\ req.op = "read" => mem[req.buf] \in {Zero, disk[req.lba]}

(* What was followed of a chain is its beginning.                          *)
Followed ==
  ~givenUp =>
    /\ at = "chain" =>
         \/ chain = <<>> /\ cur = Start(Owner)
         \/ /\ Leads(disk, Owner, chain) /\ ~Ends(disk, chain[Len(chain)])
            /\ cur = Link(disk, chain[Len(chain)])
    /\ at \in {"list", "load", "merge", "put", "store"} => Leads(disk, Owner, chain)

(* The file to be written, with its new size and without its dates.        *)
Chosen ==
  /\ job.op = "write" /\ walk = "update"
  /\ found.entry \in Entry /\ found.entry.first # 0
  /\ found.entry.size = Len(job.text) /\ found.entry.dated = FALSE

Walking(known) ==
  InWalk =>
    /\ Depth \in Nat /\ folder \in FoldersOn(disk, Way, Depth)
    /\ entries \subseteq EntriesOn(disk, folder)
    /\ walk = "text" => job.op \in {"open", "write"}
    /\ Loading => /\ found.entry.first # 0
                  /\ \E f \in FilesOn(disk, Way) : f.place = found
    /\ walk = "update" =>
         Chosen /\ \E f \in FilesOn(disk, Way) : SamePlace(f.place, found)

(* Where the file's entry is on a volume v.                                *)
PlaceOn(v) == v[ChainOn(v, folder)[found.n]][found.slot]

(* The directory that was read, and then with the file's entry in it.      *)
Copied ==
  at = "put" =>
    LET old == disk[chain[k]]
    IN /\ pc = "idle" => mem[DirBuffer] \in {Zero, old} /\ (~blind => mem[DirBuffer] = old)
       /\ pc # "idle" => /\ mem[DirBuffer] \in {Merged(Zero), Merged(old)}
                         /\ ~blind => mem[DirBuffer] = Merged(old)

(* The file written is no folder, and still there if no directory was      *)
(* overwritten unread.                                                     *)
Merging(known) ==
  InMerge \/ InStore =>
    /\ Chosen /\ target = found.entry.first /\ folder \in known
    /\ Straight(disk, target) /\ OffFolders(disk, known, target)
    /\ found.n \in 1 .. Len(ChainOn(disk, folder)) /\ found.slot \in Slots
    /\ InMerge => PlaceOn(disk) # NoEntry /\ Trim(PlaceOn(disk)) = Trim(found.entry)
    /\ ~blind => \E f \in FilesOn(disk, Way) : f.folder = folder /\ SamePlace(f.place, found)
    /\ Copied

Tree(known) == Proper(disk, known) /\ Walking(known) /\ Merging(known)

TreeInv == ~givenUp => \E known \in SUBSET Firsts : Tree(known)

(* A request that came back, whether it failed or not.                     *)
LEMMA CameBack ==
  ASSUME IInv, Asked, Filled, NEW step, Back(step), ~givenUp
  PROVE  /\ at = step /\ Asks /\ Volume(disk) /\ pc # "idle"
         /\ req.op = "read" => /\ mem[req.buf] \in {Zero, disk[req.lba]}
                               /\ ok => mem[req.buf] = disk[req.lba]
         /\ disk' = disk /\ mem' = mem /\ job' = job /\ pc' = "idle" /\ ~givenUp'
<1>1. at = step /\ Resume /\ job' = job
  BY DEF Back
<1>2. pc = "returned" /\ disk' = disk /\ mem' = mem /\ pc' = "idle" /\ ~givenUp'
  BY <1>1 DEF Resume, Returned, drive
<1>3. ok => Done(req)
  BY <1>2 DEF IInv, PortInv
<1> QED
  BY <1>1, <1>2, <1>3 DEF Asked, Done, Filled

(* The steps of the kernel between two requests.                           *)
LEMMA Between ==
  ASSUME IInv, \/ Enter \/ List \/ FindFile \/ FindNothing \/ FindTarget \/ Deinit
               \/ \E op, path, text : Type(op, path, text)
  PROVE  pc = "idle" /\ pc' = "idle" /\ UNCHANGED <<disk, givenUp, req>>
<1>1. pc = "idle"
  BY DEF IInv, IdleInv, Enter, List, FindFile, FindNothing, FindTarget, Deinit, Searching, Type
<1>2. UNCHANGED <<driver, drive>>
  BY DEF Enter, List, FindFile, FindNothing, FindTarget, Deinit, Searching, Type, portVars
<1> QED
  BY <1>1, <1>2 DEF driver, drive

LEMMA FilledInv ==
  ASSUME IInv, Shape, Asked, Filled, [Next]_vars
  PROVE  Filled'
<1>1. CASE \/ Enter \/ List \/ FindFile \/ FindNothing \/ FindTarget \/ Deinit
           \/ \E op, path, text : Type(op, path, text)
  <2>1. pc' = "idle"
    BY <1>1, Between
  <2> QED
    BY <2>1 DEF Filled
<1>2. CASE Booted \/ ReadLink \/ ReadEntries \/ ReadPage \/ ReadCopy \/ WriteCopy \/ WritePage
  <2>1. pc' = "idle"
    BY <1>2 DEF Booted, ReadLink, ReadEntries, ReadPage, ReadCopy, WriteCopy, WritePage, Back, Resume, Returned
  <2> QED
    BY <2>1 DEF Filled
<1>3. CASE AskDrive
  <2>1. PICK r, content : Ask(r, content) /\ (r.op = "read" => content = Zero)
    BY <1>3 DEF AskDrive, Request
  <2>2. req' = r /\ mem' = [mem EXCEPT ![r.buf] = content] /\ r \in Requests
    BY <2>1 DEF Ask
  <2>3. r.buf \in Buffers /\ mem = [b \in Buffers |-> mem[b]]
    BY <2>2 DEF Requests, IInv, PortInv
  <2> QED
    BY <2>1, <2>2, <2>3 DEF Filled
<1>4. CASE Commit \/ UNCHANGED vars
  <2>1. UNCHANGED <<mem, disk, req>> /\ (givenUp => givenUp') /\ (pc = "idle" => pc' = "idle")
    BY <1>4 DEF Commit, Issue, Poll, drive, vars, portVars, driver
  <2> QED
    BY <2>1 DEF Filled
<1>5. CASE DriveWorks \/ DriveFails
  <2>1. UNCHANGED <<req, pc, givenUp>>
    BY <1>5 DEF DriveWorks, DriveFails, Fetch, Move, Complete, Fail, driver
  <2>2. CASE UNCHANGED <<mem, disk>>
    BY <2>1, <2>2 DEF Filled
  <2>3. CASE Move /\ ~givenUp /\ req.op = "read"
    <3>1. disk' = disk /\ mem' = [mem EXCEPT ![req.buf] = disk[req.lba]]
      BY <2>3, Moves
    <3>2. req.buf \in Buffers /\ mem = [b \in Buffers |-> mem[b]]
      BY DEF Requests, IInv, PortInv
    <3> QED
      BY <2>1, <3>1, <3>2 DEF Filled
  <2>4. CASE givenUp \/ req.op # "read"
    BY <2>1, <2>4 DEF Filled
  <2> QED
    BY <1>5, <2>2, <2>3, <2>4 DEF DriveWorks, DriveFails, Fetch, Complete, Fail
<1>6. CASE Restart
  BY <1>6 DEF Restart, PowerCycle, Filled
<1> QED
  BY <1>1, <1>2, <1>3, <1>4, <1>5, <1>6 DEF Next, Runs

LEMMA FollowedLink ==
  ASSUME IInv, Shape, Asked, Filled, Followed, ReadLink
  PROVE  Followed'
<1> SUFFICES ASSUME ~givenUp' PROVE Followed'
  BY DEF Followed
<1>0. ~givenUp
  BY DEF ReadLink, Back, Resume
<1>1. /\ at = "chain" /\ Asks /\ Volume(disk) /\ disk' = disk
      /\ req.op = "read" => mem[req.buf] \in {Zero, disk[req.lba]}
  BY <1>0, CameBack DEF ReadLink
<1>2. UNCHANGED <<folder, found, target, goal>>
  BY DEF ReadLink, search
<1>3. /\ cur \in Clusters /\ chain \in Seq(Clusters) /\ Len(chain) < MaxChain
      /\ MaxChain \in Nat /\ Len(chain) \in Nat
  BY <1>1, FilesAssumption DEF Shape
<1>4. Links \subseteq {0, Link(disk, cur)}
  BY <1>1, FilesAssumption DEF Asks, Request, Links, Link, Volume
<1>5. PICK next \in {0, Link(disk, cur)} :
        /\ chain' = Append(chain, cur) /\ cur' = next
        /\ at' = IF next \in {0, EndOfChain} \/ Len(chain') = MaxChain THEN goal ELSE "chain"
  BY <1>4 DEF ReadLink
<1>6. /\ chain' \in Seq(Clusters) /\ Len(chain') = Len(chain) + 1 /\ chain'[Len(chain')] = cur
  BY <1>3, <1>5
<1>7. Leads(disk, Owner, chain')
  <2>1. CASE chain = <<>> /\ cur = Start(Owner)
    <3>1. chain' = <<Start(Owner)>> /\ Len(chain') = 1 /\ chain'[1] = Start(Owner)
      BY <1>3, <1>5, <2>1
    <3> QED
      BY <1>3, <1>6, <3>1 DEF Leads
  <2>2. CASE Leads(disk, Owner, chain) /\ ~Ends(disk, chain[Len(chain)]) /\ cur = Link(disk, chain[Len(chain)])
    BY <1>1, <1>3, <1>5, <2>2, LeadsFurther
  <2> QED
    BY <1>0, <1>1, <2>1, <2>2 DEF Followed
<1>8. Owner' = Owner
  BY <1>2 DEF Owner
<1>9. ASSUME at' = "chain"
      PROVE ~Ends(disk, chain'[Len(chain')]) /\ cur' = Link(disk, chain'[Len(chain')])
  <2>1. next \notin {0, EndOfChain}
    BY <1>5, <1>9 DEF Shape
  <2> QED
    BY <1>5, <1>6, <2>1 DEF Ends
<1> QED
  BY <1>1, <1>7, <1>8, <1>9 DEF Followed

LEMMA FollowedInv ==
  ASSUME IInv, Shape, Asked, Filled, Followed, [Next]_vars
  PROVE  Followed'
<1>1. CASE \E op, path, text : Type(op, path, text)
  <2>1. CASE \E who, path : Walk(who, path)
    BY <2>1, WalkShape DEF Followed, Owner
  <2>2. CASE at' = "stopped"
    BY <2>2 DEF Followed
  <2> QED
    BY <1>1, <2>1, <2>2 DEF Type
<1>2. CASE Enter
  BY <1>2 DEF Enter, Follow, Followed, Owner
<1>3. CASE FindFile
  BY <1>3 DEF FindFile, Follow, Followed, Owner
<1>4. CASE FindTarget
  BY <1>4 DEF FindTarget, Follow, Followed, Owner
<1>5. CASE FindNothing
  <2>1. CASE Walk("png", job.path)
    BY <2>1, WalkShape DEF Followed, Owner
  <2>2. CASE at' \in {"prompt", "written"}
    BY <2>2 DEF Followed
  <2> QED
    BY <1>5, <2>1, <2>2 DEF FindNothing, Says
<1>6. CASE ReadLink
  BY <1>6, FollowedLink
<1>7. CASE List \/ Deinit \/ Booted
  BY <1>7 DEF List, Deinit, Booted, Says, Followed
<1>8. CASE ReadEntries
  <2>1. at = "list" /\ at' \in {"list", "search"} /\ UNCHANGED <<folder, found, target, goal, chain, disk, givenUp>>
    BY <1>8 DEF ReadEntries, Back, Resume, drive
  <2> QED
    BY <2>1 DEF Followed, Owner
<1>9. CASE ReadPage
  <2>0. at = "load" /\ UNCHANGED <<disk, givenUp>>
    BY <1>9 DEF ReadPage, Back, Resume, drive
  <2>1. CASE UNCHANGED <<at, search, cur, chain, goal, answer>>
    BY <2>0, <2>1 DEF Followed, Owner, search
  <2>2. CASE at' \in {"stopped", "prompt"}
    BY <2>2 DEF Followed
  <2>3. CASE Walk("update", job.path)
    BY <2>3, WalkShape DEF Followed, Owner
  <2> QED
    BY <1>9, <2>1, <2>2, <2>3 DEF ReadPage, Says
<1>10. CASE ReadCopy
  <2>1. at = "merge" /\ at' = "put" /\ UNCHANGED <<folder, found, target, goal, chain, disk, givenUp>>
    BY <1>10 DEF ReadCopy, Back, Resume, drive, search, reading
  <2> QED
    BY <2>1 DEF Followed, Owner
<1>11. CASE WriteCopy
  <2>0. at = "put" /\ UNCHANGED <<folder, found, target, disk, givenUp>>
    BY <1>11 DEF WriteCopy, Back, Resume, drive, search
  <2>1. CASE at' = "merge" /\ UNCHANGED <<cur, chain, goal>>
    BY <2>0, <2>1 DEF Followed, Owner
  <2>2. CASE Follow(target, "store")
    BY <2>0, <2>2 DEF Followed, Owner, Follow
  <2> QED
    BY <1>11, <2>1, <2>2 DEF WriteCopy
<1>12. CASE WritePage
  <2>1. at = "store" /\ at' \in {"written", "store"} /\ UNCHANGED <<folder, found, target, goal, chain, disk, givenUp>>
    BY <1>12 DEF WritePage, Back, Resume, drive, search
  <2> QED
    BY <2>1 DEF Followed, Owner
<1>13. CASE AskDrive \/ Commit \/ UNCHANGED vars
  <2>1. UNCHANGED <<folder, found, target, goal, chain, cur, at, disk>> /\ (givenUp => givenUp')
    BY <1>13 DEF AskDrive, Ask, Commit, Issue, Poll, drive, driver, vars, portVars, fileVars, search, reading
  <2> QED
    BY <2>1 DEF Followed, Owner
<1>14. CASE DriveWorks \/ DriveFails
  <2>1. UNCHANGED <<folder, found, target, goal, chain, cur, at, givenUp>>
    BY <1>14 DEF DriveWorks, DriveFails, Fetch, Move, Complete, Fail, driver, search, reading
  <2>2. CASE disk'[FatSector] = disk[FatSector]
    BY <2>1, <2>2 DEF Followed, Owner, Leads, Ends, Link
  <2>3. CASE givenUp
    BY <2>1, <2>3 DEF Followed
  <2>4. CASE Move /\ ~givenUp
    BY <2>2, <2>4, Moves
  <2> QED
    BY <1>14, <2>2, <2>3, <2>4 DEF DriveWorks, DriveFails, Fetch, Complete, Fail
<1>15. CASE Restart
  BY <1>15 DEF Restart, Followed
<1> QED
  BY <1>1, <1>2, <1>3, <1>4, <1>5, <1>6, <1>7, <1>8, <1>9, <1>10, <1>11, <1>12, <1>13, <1>14, <1>15
     DEF Next, Runs


Steady == IInv /\ Shape /\ Asked /\ Filled /\ Followed

(* A step that neither finds anything nor writes.                          *)
LEMMA TreeStays ==
  ASSUME NEW known, Tree(known), disk' = disk, UNCHANGED <<job, search>>, blind => blind',
         InWalk' => InWalk, InMerge' => InMerge, InStore' => InStore \/ InMerge,
         Loading' => Loading, Copied'
  PROVE  Tree(known)'
<1>1. UNCHANGED <<walk, i, folder, entries, found, target, Way, Depth>>
  BY DEF search, Way, Depth
<1>2. Walking(known)'
  BY <1>1 DEF Tree, Walking, Chosen
<1>3. Merging(known)'
  BY <1>1 DEF Tree, Merging, Chosen, PlaceOn
<1> QED
  BY <1>2, <1>3 DEF Tree

(* A step after which nothing is looked for or written.                    *)
LEMMA TreeRests ==
  ASSUME NEW known, Tree(known), disk' = disk, at' \in {"boot", "prompt", "written", "stopped"}
  PROVE  Tree(known)'
BY DEF Tree, Walking, Merging, InWalk, InMerge, InStore

(* A walk begins.                                                          *)
LEMMA TreeBegins ==
  ASSUME NEW known, Tree(known), disk' = disk, Volume(disk),
         NEW who, NEW path, Walk(who, path), job'.path = path,
         who = "text" => job'.op \in {"open", "write"},
         who = "update" => Chosen' /\ \E f \in FilesOn(disk', Way') : SamePlace(f.place, found')
  PROVE  Tree(known)'
<1>1. /\ at' = "chain" /\ goal' = "list" /\ walk' = who /\ i' = Begin(path) /\ folder' = 0
      /\ entries' = {}
  BY WalkShape
<1>2. Depth' = 0
  BY <1>1 DEF Depth, Begin
<1>3. folder' \in FoldersOn(disk', Way', Depth')
  <2>1. 0 \in Nat
    OBVIOUS
  <2>2. \A way : FoldersOn(disk, way, 0) = {0}
    BY <2>1, FoldersNext
  <2> QED
    BY <1>1, <1>2, <2>2
<1>4. ~InMerge' /\ ~InStore' /\ ~Loading'
  BY <1>1 DEF InMerge, InStore, Loading
<1>5. Walking(known)'
  BY <1>1, <1>2, <1>3, <1>4 DEF Walking
<1>6. Merging(known)'
  BY <1>4 DEF Merging
<1> QED
  BY <1>5, <1>6 DEF Tree

LEMMA TreeType ==
  ASSUME Steady, ~givenUp, NEW known, Tree(known), NEW op \in {"open", "list", "write"},
         NEW path, NEW text, Type(op, path, text)
  PROVE  Tree(known)'
<1>1. disk' = disk /\ Volume(disk) /\ job'.path = path /\ job'.op = op
  BY DEF Steady, Asked, Type, drive
<1>2. CASE Walk("listed", path)
  BY <1>1, <1>2, TreeBegins
<1>3. CASE Walk("list", path)
  BY <1>1, <1>3, TreeBegins
<1>4. CASE Walk("text", path) /\ op # "list"
  BY <1>1, <1>4, TreeBegins
<1>5. CASE at' = "stopped"
  BY <1>1, <1>5, TreeRests
<1> QED
  BY <1>2, <1>3, <1>4, <1>5 DEF Type

LEMMA TreeLink ==
  ASSUME Steady, ~givenUp, NEW known, Tree(known), ReadLink
  PROVE  Tree(known)'
<1>1. at = "chain" /\ at' \in {"chain", goal} /\ UNCHANGED <<job, search, goal, blind, disk>>
  BY DEF ReadLink, Back, Resume, drive
<1>2. goal \in {"list", "load", "merge", "store"}
  BY DEF Steady, Shape
<1> QED
  BY <1>1, <1>2, TreeStays DEF InWalk, InMerge, InStore, Loading, Copied

(* What is read of a directory is in it, or nothing.                       *)
LEMMA EntriesRead ==
  ASSUME Steady, ~givenUp, ReadEntries
  PROVE  EntriesIn(mem[DirBuffer], k) \subseteq EntriesOn(disk, folder)
<1>1. /\ at = "list" /\ goal = "list" /\ Volume(disk) /\ mem[DirBuffer] \in {Zero, disk[chain[k]]}
      /\ folder \in Firsts /\ k \in 1 .. Len(chain)
  <2>1. Asks /\ at = "list" /\ Volume(disk) /\ (req.op = "read" => mem[req.buf] \in {Zero, disk[req.lba]})
    BY CameBack DEF Steady, ReadEntries
  <2> QED
    BY <2>1 DEF Asks, Request, Steady, Shape
<1>2. Leads(disk, folder, chain)
  BY <1>1 DEF Steady, Followed, Owner
<1>3. chain[k] = ChainOn(disk, folder)[k] /\ k \in 1 .. Len(ChainOn(disk, folder))
  BY <1>1, <1>2, Beginning
<1>4. CASE mem[DirBuffer] = Zero
  BY <1>4, FilesAssumption DEF EntriesIn
<1>5. CASE mem[DirBuffer] = disk[chain[k]]
  BY <1>3, <1>5 DEF EntriesOn
<1> QED
  BY <1>1, <1>4, <1>5

LEMMA TreeEntries ==
  ASSUME Steady, ~givenUp, NEW known, Tree(known), ReadEntries
  PROVE  Tree(known)'
<1>1. /\ at = "list" /\ at' \in {"list", "search"} /\ disk' = disk
      /\ UNCHANGED <<job, walk, i, folder, found, target, blind, Way, Depth>>
      /\ entries' = entries \cup EntriesIn(mem[DirBuffer], k)
  BY DEF ReadEntries, Back, Resume, drive, Way, Depth
<1>2. entries' \subseteq EntriesOn(disk', folder')
  BY <1>1, EntriesRead DEF Tree, Walking, InWalk
<1>3. ~InMerge' /\ ~InStore' /\ ~Loading'
  BY <1>1 DEF InMerge, InStore, Loading
<1>4. Walking(known)'
  BY <1>1, <1>2, <1>3 DEF Tree, Walking, InWalk, Chosen
<1> QED
  BY <1>1, <1>3, <1>4 DEF Tree, Merging

(* The name looked for is the next one of the way.                         *)
LEMMA NextName ==
  ASSUME Steady, Depth \in Nat, i <= Len(job.path)
  PROVE  /\ Depth + 1 \in 1 .. Len(Way) /\ Way[Depth + 1] = job.path[i] /\ Way \in Seq(Component)
         /\ (Depth + 1) - 1 = Depth
<1>1. job.path \in Seq(Component) /\ Begin(job.path) \in {1, 2} /\ i \in Nat
  BY DEF Steady, Shape, Begin
<1>2. Len(Way) = Len(job.path) - Begin(job.path) + 1
  BY <1>1 DEF Way, Depth
<1>3. Way \in Seq(Component)
  BY <1>1 DEF Way
<1> QED
  BY <1>1, <1>2, <1>3 DEF Way, Depth

LEMMA TreeEnter ==
  ASSUME Steady, ~givenUp, NEW known, Tree(known), Enter
  PROVE  Tree(known)'
<1>1. /\ at = "search" /\ disk' = disk /\ UNCHANGED <<job, found, target, blind, Way>>
      /\ i' = i + 1 /\ entries' = {} /\ at' = "chain" /\ goal' = "list"
      /\ walk' \in {walk, "listed"}
  BY DEF Enter, Searching, portVars, drive, Way, Follow
<1>2. PICK p \in Folders : folder' = p.entry.first
  BY DEF Enter
<1>3. /\ p \in entries /\ i <= Len(job.path) /\ p.entry.name = job.path[i].name /\ p.entry.folder
  BY <1>2 DEF Folders, Here
<1>4. /\ Depth \in Nat /\ folder \in FoldersOn(disk, Way, Depth) /\ p \in EntriesOn(disk, folder)
      /\ walk = "text" => job.op \in {"open", "write"}
      /\ walk = "update" => Chosen /\ \E f \in FilesOn(disk, Way) : SamePlace(f.place, found)
  BY <1>1, <1>3 DEF Tree, Walking, InWalk
<1>5. i \in Nat /\ Begin(job.path) \in Nat
  BY DEF Steady, Shape, Begin
<1>6. Depth' = Depth + 1
  BY <1>1, <1>5 DEF Depth
<1>7. folder' \in FoldersOn(disk, Way, Depth + 1)
  <2>1. FoldersOn(disk, Way, Depth + 1) = FoldersIn(disk, FoldersOn(disk, Way, Depth), Way[Depth + 1].name)
    BY <1>4, FoldersNext DEF Steady, Asked
  <2>2. Way[Depth + 1] = job.path[i]
    BY <1>3, <1>4, NextName
  <2> QED
    BY <1>2, <1>3, <1>4, <2>1, <2>2 DEF FoldersIn
<1>8. ~InMerge' /\ ~InStore' /\ ~Loading'
  BY <1>1 DEF InMerge, InStore, Loading
<1>9. Walking(known)'
  <2>1. walk' = "update" => Chosen'
    BY <1>1, <1>4 DEF Chosen
  <2> QED
    BY <1>1, <1>4, <1>6, <1>7, <1>8, <2>1 DEF Walking
<1> QED
  BY <1>1, <1>8, <1>9 DEF Tree, Merging

(* What matches is a file on the way.                                      *)
LEMMA Matched ==
  ASSUME Steady, ~givenUp, NEW known, Tree(known), at = "search", NEW p \in Matching
  PROVE  /\ [folder |-> folder, place |-> p] \in FilesOn(disk, Way)
         /\ folder \in FoldersOn(disk, Way, Depth) /\ Depth \in Nat
         /\ p \in EntriesOn(disk, folder) /\ ~p.entry.folder
<1>1. /\ p \in entries /\ i <= Len(job.path) /\ p.entry.name = job.path[i].name /\ ~p.entry.folder
  BY DEF Matching, Here
<1>2. Depth \in Nat /\ folder \in FoldersOn(disk, Way, Depth) /\ p \in EntriesOn(disk, folder)
  BY <1>1 DEF Tree, Walking, InWalk
<1>3. /\ Depth + 1 \in 1 .. Len(Way) /\ Way[Depth + 1] = job.path[i] /\ Way \in Seq(Component)
      /\ (Depth + 1) - 1 = Depth
  BY <1>1, <1>2, NextName
<1>4. folder \in FoldersOn(disk, Way, (Depth + 1) - 1)
  BY <1>2, <1>3
<1>5. [folder |-> folder, place |-> p] \in FilesOn(disk, Way)
  BY <1>1, <1>2, <1>3, <1>4, FileThere
<1> QED
  BY <1>1, <1>2, <1>5

LEMMA TreeFile ==
  ASSUME Steady, ~givenUp, NEW known, Tree(known), FindFile
  PROVE  Tree(known)'
<1>1. /\ at = "search" /\ disk' = disk /\ walk \in {"text", "png"}
      /\ UNCHANGED <<job, walk, i, folder, entries, target, blind, Way, Depth>>
      /\ at' = "chain" /\ goal' = "load"
  BY DEF FindFile, Searching, portVars, drive, Follow, Way, Depth
<1>2. PICK p \in Matching : p.entry.first # 0 /\ found' = p
  BY DEF FindFile
<1>3. [folder |-> folder, place |-> p] \in FilesOn(disk, Way)
  BY <1>1, Matched
<1>4. \E f \in FilesOn(disk, Way) : f.place = p
  BY <1>3
<1>5. ~InMerge' /\ ~InStore'
  BY <1>1 DEF InMerge, InStore
<1>6. Walking(known)'
  BY <1>1, <1>2, <1>4 DEF Tree, Walking, InWalk
<1> QED
  BY <1>1, <1>5, <1>6 DEF Tree, Merging

LEMMA TreeNothing ==
  ASSUME Steady, ~givenUp, NEW known, Tree(known), FindNothing
  PROVE  Tree(known)'
<1>1. at = "search" /\ disk' = disk /\ job' = job /\ Volume(disk)
  BY DEF FindNothing, Searching, portVars, drive, Steady, Asked
<1>2. CASE Walk("png", job.path)
  BY <1>1, <1>2, TreeBegins
<1>3. CASE at' \in {"written", "prompt"}
  BY <1>1, <1>3, TreeRests
<1> QED
  BY <1>2, <1>3 DEF FindNothing, Says

(* An entry written back keeps all but its size and its dates.             *)
LEMMA SizeTrimmed ==
  ASSUME NEW e \in Entry, NEW n \in Nat
  PROVE  /\ Computed(e, n) \in Entry /\ Computed(e, n).size = n /\ Computed(e, n).dated = FALSE
         /\ Computed(e, n).first = e.first /\ Trim(Computed(e, n)) = Trim(e)
BY DEF Entry, Trim, Computed

LEMMA TreePage ==
  ASSUME Steady, ~givenUp, NEW known, Tree(known), ReadPage
  PROVE  Tree(known)'
<1>1. /\ at = "load" /\ disk' = disk /\ job' = job /\ Volume(disk) /\ blind' = blind
      /\ Loading /\ InWalk
  BY DEF ReadPage, Back, Resume, drive, Steady, Asked, Loading, InWalk
<1>2. CASE UNCHANGED <<at, search, cur, chain, goal, answer>>
  BY <1>1, <1>2, TreeStays DEF InWalk, InMerge, InStore, Loading, Copied
<1>3. CASE at' \in {"stopped", "prompt"}
  BY <1>1, <1>3, TreeRests
<1>4. CASE /\ job.op = "write" /\ Walk("update", job.path)
           /\ found' = [found EXCEPT !.entry = Computed(found.entry, Len(job.text))]
  <2>1. PICK f \in FilesOn(disk, Way) : f.place = found
    BY <1>1 DEF Tree, Walking
  <2>2. found.entry \in Entry /\ found.entry.first # 0 /\ Way \in Seq(Component) /\ Len(job.text) \in Nat
    BY <1>1 DEF Tree, Walking, Steady, Shape, Way, Begin
  <2>3. \E n, s, e : found = Place(n, s, e)
    <3>1. PICK m \in 1 .. Len(Way) : FileAt(disk, Way, f, m)
      BY <2>2, FilesAre
    <3>2. IsEntryOn(disk, f.folder, f.place)
      BY <3>1, EntriesAre DEF FileAt
    <3> QED
      BY <2>1, <3>2 DEF IsEntryOn
  <2>4. PICK n, s, e : found = [n |-> n, slot |-> s, entry |-> e]
    BY <2>3 DEF Place
  <2>5. e \in Entry /\ e = found.entry
    BY <2>2, <2>4
  <2>6. found'.n = n /\ found'.slot = s /\ found'.entry = Computed(e, Len(job.text))
    BY <1>4, <2>4
  <2>7. found'.entry \in Entry /\ found'.entry.first # 0 /\ found'.entry.size = Len(job.text)
        /\ found'.entry.dated = FALSE /\ Trim(found'.entry) = Trim(e)
    <3>1. Len(job.text) \in Nat /\ e \in Entry /\ e.first # 0
      BY <2>2, <2>5
    <3>2. /\ Computed(e, Len(job.text)) \in Entry /\ Computed(e, Len(job.text)).size = Len(job.text)
          /\ Computed(e, Len(job.text)).dated = FALSE
          /\ Computed(e, Len(job.text)).first = e.first /\ Trim(Computed(e, Len(job.text))) = Trim(e)
      BY <3>1, SizeTrimmed, Zenon
    <3>3. found'.entry = Computed(e, Len(job.text))
      BY <2>6
    <3> QED
      BY <3>1, <3>2, <3>3, Zenon
  <2>8. SamePlace(f.place, found')
    BY <2>1, <2>4, <2>6, <2>7 DEF SamePlace
  <2>9. Chosen' /\ Way' = Way
    BY <1>1, <1>4, <2>7, WalkShape DEF Chosen, Way
  <2>10. \E g \in FilesOn(disk', Way') : SamePlace(g.place, found')
    BY <1>1, <2>8, <2>9
  <2> QED
    BY <1>1, <1>4, <2>9, <2>10, TreeBegins
<1> QED
  BY <1>2, <1>3, <1>4 DEF ReadPage, Says

(* A file that a folder of a proper volume has is no folder, and its chain *)
(* is not cyclic.                                                          *)
LEMMA FileOff ==
  ASSUME NEW v, NEW known, Proper(v, known), NEW first \in known, NEW p \in EntriesOn(v, first),
         ~p.entry.folder, p.entry.first # 0
  PROVE  Straight(v, p.entry.first) /\ OffFolders(v, known, p.entry.first)
BY DEF Proper

LEMMA TreeTarget ==
  ASSUME Steady, ~givenUp, NEW known \in SUBSET Firsts, Tree(known), FindTarget
  PROVE  Tree(known)'
<1>1. /\ at = "search" /\ disk' = disk /\ walk = "update" /\ Volume(disk)
      /\ UNCHANGED <<job, walk, i, folder, entries, found, blind, Way, Depth>>
      /\ at' = "chain" /\ goal' = "merge"
  BY DEF FindTarget, Searching, portVars, drive, Follow, Way, Depth, Steady, Asked
<1>2. PICK p \in Matching : target' = p.entry.first
  BY DEF FindTarget
<1>3. /\ [folder |-> folder, place |-> p] \in FilesOn(disk, Way)
      /\ folder \in FoldersOn(disk, Way, Depth) /\ Depth \in Nat
      /\ p \in EntriesOn(disk, folder) /\ ~p.entry.folder
  BY <1>1, Matched
<1>4. PICK f \in FilesOn(disk, Way) : SamePlace(f.place, found)
  BY <1>1 DEF Tree, Walking, InWalk
<1>5. Chosen
  BY <1>1 DEF Tree, Walking, InWalk
<1>6. Way \in Seq(Component)
  BY DEF Steady, Shape, Way, Begin
<1>7. Sane(disk)
  BY DEF Tree, Sane
<1>8. f = [folder |-> folder, place |-> p]
  BY <1>1, <1>3, <1>4, <1>6, <1>7, OneFile
<1>9. SamePlace(p, found) /\ p.entry \in Entry /\ folder \in known /\ folder \in Firsts
  <2>1. p.entry \in Entry
    BY <1>1, <1>3, EntriesTyped DEF Steady, Shape
  <2>2. FoldersOn(disk, Way, Depth) \subseteq known
    BY <1>1, <1>3, FoldersWithin DEF Tree
  <2> QED
    BY <1>3, <1>4, <1>8, <2>1, <2>2
<1>10. p.entry.first = found.entry.first /\ found.entry.first # 0
  BY <1>5, <1>9, Trimmed DEF SamePlace, Chosen
<1>11. Straight(disk, p.entry.first) /\ OffFolders(disk, known, p.entry.first)
  BY <1>3, <1>9, <1>10, FileOff DEF Tree
<1>12. /\ found.n \in 1 .. Len(ChainOn(disk, folder)) /\ found.slot \in Slots
       /\ PlaceOn(disk) # NoEntry /\ Trim(PlaceOn(disk)) = Trim(found.entry)
  <2>1. IsEntryOn(disk, folder, p)
    BY <1>3, EntriesAre
  <2>2. /\ p.n \in 1 .. Len(ChainOn(disk, folder)) /\ p.slot \in Slots
        /\ p.entry = disk[ChainOn(disk, folder)[p.n]][p.slot] /\ p.entry # NoEntry
    BY <2>1 DEF IsEntryOn, Place
  <2> QED
    BY <1>9, <2>2 DEF SamePlace, PlaceOn
<1>13. ~InWalk' /\ ~InStore' /\ ~(at' = "put")
  BY <1>1 DEF InWalk, InStore
<1>14. \E g \in FilesOn(disk, Way) : g.folder = folder /\ SamePlace(g.place, found)
  BY <1>3, <1>9
<1>15. Merging(known)'
  <2>1. PlaceOn(disk)' = PlaceOn(disk)
    BY <1>1 DEF PlaceOn
  <2>2. Chosen'
    BY <1>1, <1>5 DEF Chosen
  <2>3. Copied'
    BY <1>13 DEF Copied
  <2> QED
    BY <1>1, <1>2, <1>9, <1>10, <1>11, <1>12, <1>14, <2>1, <2>2, <2>3 DEF Merging
<1> QED
  BY <1>1, <1>13, <1>15 DEF Tree, Walking

LEMMA TreeCopy ==
  ASSUME Steady, ~givenUp, NEW known, Tree(known), ReadCopy
  PROVE  Tree(known)'
<1>1. /\ at = "merge" /\ at' = "put" /\ disk' = disk /\ mem' = mem /\ pc' = "idle"
      /\ Asks /\ (ok => mem[req.buf] = disk[req.lba])
      /\ mem[req.buf] \in {Zero, disk[req.lba]}
  <2>1. /\ at = "merge" /\ Asks
        /\ req.op = "read" => mem[req.buf] \in {Zero, disk[req.lba]} /\ (ok => mem[req.buf] = disk[req.lba])
        /\ disk' = disk /\ mem' = mem /\ pc' = "idle"
    BY CameBack DEF Steady, ReadCopy
  <2> QED
    BY <2>1 DEF Asks, Request, ReadCopy
<1>2. req.buf = DirBuffer /\ req.lba = chain[k]
  BY <1>1 DEF Asks, Request
<1>3. /\ UNCHANGED <<job, search, cur, chain, goal, k>> /\ blind' = (blind \/ ~ok)
  BY DEF ReadCopy, Back, reading
<1>4. Copied'
  BY <1>1, <1>2, <1>3 DEF Copied
<1>5. blind => blind'
  BY <1>3
<1> QED
  BY <1>1, <1>3, <1>4, <1>5, TreeStays DEF InWalk, InMerge, InStore, Loading

LEMMA TreeWritten ==
  ASSUME Steady, ~givenUp, NEW known, Tree(known), WriteCopy \/ WritePage
  PROVE  Tree(known)'
<1>1. CASE WriteCopy
  <2>1. /\ at = "put" /\ disk' = disk /\ UNCHANGED <<job, search, blind>>
        /\ at' = "merge" \/ (at' = "chain" /\ goal' = "store")
    BY <1>1 DEF WriteCopy, Back, Resume, drive, Follow
  <2> QED
    BY <2>1, TreeStays DEF InWalk, InMerge, InStore, Loading, Copied
<1>2. CASE WritePage
  <2>1. /\ at = "store" /\ disk' = disk /\ UNCHANGED <<job, search, blind>>
        /\ at' = "store" \/ at' = "written"
    BY <1>2 DEF WritePage, Back, Resume, drive
  <2> QED
    BY <2>1, TreeStays DEF InWalk, InMerge, InStore, Loading, Copied
<1> QED
  BY <1>1, <1>2

(* What is written to a directory, whether it was read or not: its entries *)
(* and the file's, with the new size.                                      *)
LEMMA MergedIs ==
  ASSUME Chosen, found.slot \in Slots, NEW content \in {Zero} \cup Directories
  PROVE  /\ Merged(content) \in Directories
         /\ \A s \in Slots :
              Merged(content)[s] = IF k = found.n /\ s = found.slot THEN found.entry
                                   ELSE IF content \in Directories THEN content[s] ELSE NoEntry
<1> DEFINE slots == IF content \in Directories THEN content ELSE [s \in Slots |-> NoEntry]
<1>1. slots \in Directories
  BY DEF Directories
<1>2. Merged(content) = IF k = found.n THEN [slots EXCEPT ![found.slot] = found.entry] ELSE slots
  BY DEF Merged
<1>3. \A s \in Slots : slots[s] = IF content \in Directories THEN content[s] ELSE NoEntry
  OBVIOUS
<1> HIDE DEF slots
<1>4. found.entry \in Entry
  BY DEF Chosen
<1> QED
  BY <1>1, <1>2, <1>3, <1>4 DEF Directories

LEMMA MergedFewer ==
  ASSUME Chosen, found.slot \in Slots, NEW old \in Directories, NEW content \in {Zero, old},
         k = found.n => old[found.slot] # NoEntry /\ Trim(old[found.slot]) = Trim(found.entry)
  PROVE  /\ Fewer(Merged(content), old) /\ Fewer(old, Merged(old))
         /\ Merged(Merged(content)) = Merged(content)
         /\ k = found.n => Merged(content)[found.slot] = found.entry
<1>1. /\ Merged(content) \in Directories /\ Merged(old) \in Directories
      /\ Merged(Merged(content)) \in Directories
  BY MergedIs
<1>2. Zero \notin Directories /\ NoEntry \notin Entry /\ found.entry \in Entry
  BY FilesAssumption DEF Chosen
<1>3. \A s \in Slots : Merged(content)[s] \in {NoEntry, old[s]} \/ (/\ k = found.n /\ s = found.slot
                                                                 /\ Merged(content)[s] = found.entry)
  BY <1>2, MergedIs
<1>4. \A s \in Slots : Merged(old)[s] = old[s] \/ (/\ k = found.n /\ s = found.slot
                                                /\ Merged(old)[s] = found.entry)
  BY <1>2, MergedIs
<1>5. \A s \in Slots : Merged(Merged(content))[s] = Merged(content)[s]
  <2> TAKE s \in Slots
  <2>1. CASE k = found.n /\ s = found.slot
    BY <1>1, <2>1, MergedIs
  <2>2. CASE ~(k = found.n /\ s = found.slot)
    BY <1>1, <2>2, MergedIs
  <2> QED
    BY <2>1, <2>2
<1>6. Merged(Merged(content)) = Merged(content)
  BY <1>1, <1>5 DEF Directories
<1>7. k = found.n => Merged(content)[found.slot] = found.entry
  BY MergedIs
<1>8. Fewer(Merged(content), old)
  BY <1>1, <1>2, <1>3 DEF Fewer
<1>9. Fewer(old, Merged(old))
  BY <1>1, <1>2, <1>4 DEF Fewer
<1> QED
  BY <1>6, <1>7, <1>8, <1>9

(* The cluster of the directory that is changed.                           *)
LEMMA Changed ==
  ASSUME Steady, ~givenUp, NEW known \in SUBSET Firsts, Tree(known), at = "put"
  PROVE  /\ Chosen /\ found.slot \in Slots /\ folder \in known /\ folder \in Firsts
         /\ k \in 1 .. Len(ChainOn(disk, folder)) /\ chain[k] = ChainOn(disk, folder)[k]
         /\ chain[k] \in ClustersOf(disk, folder) /\ disk[chain[k]] \in Directories
         /\ chain[k] \in Clusters
         /\ \A n \in 1 .. Len(ChainOn(disk, folder)) : ChainOn(disk, folder)[n] = chain[k] => n = k
         /\ k = found.n => /\ disk[chain[k]][found.slot] # NoEntry
                           /\ Trim(disk[chain[k]][found.slot]) = Trim(found.entry)
<1>1. /\ Merging(known) /\ InMerge /\ Proper(disk, known)
  BY DEF Tree, InMerge
<1>2. /\ Chosen /\ found.slot \in Slots /\ folder \in known
      /\ PlaceOn(disk) # NoEntry /\ Trim(PlaceOn(disk)) = Trim(found.entry)
  BY <1>1 DEF Merging
<1>3. Volume(disk) /\ goal = "merge" /\ k \in 1 .. Len(chain) /\ chain \in Seq(Clusters)
  BY DEF Steady, Asked, Shape
<1>4. Leads(disk, folder, chain)
  BY <1>3 DEF Steady, Followed, Owner
<1>5. folder \in Firsts
  BY <1>2
<1>6. /\ k \in 1 .. Len(ChainOn(disk, folder)) /\ chain[k] = ChainOn(disk, folder)[k]
      /\ chain[k] \in ClustersOf(disk, folder)
  BY <1>3, <1>4, <1>5, Beginning
<1>7. disk[chain[k]] \in Directories /\ Straight(disk, folder)
  BY <1>1, <1>2, <1>6 DEF Proper
<1>8. chain[k] \in Clusters
  BY <1>3
<1> QED
  BY <1>2, <1>5, <1>6, <1>7, <1>8 DEF Straight, PlaceOn

LEMMA TreeAsk ==
  ASSUME Steady, ~givenUp, NEW known \in SUBSET Firsts, Tree(known), AskDrive
  PROVE  Tree(known)'
<1>1. /\ UNCHANGED <<at, goal, job, search, chain, k, blind, disk>> /\ pc = "idle" /\ pc' = "issue"
  BY DEF AskDrive, Ask, drive, fileVars, reading
<1>2. Copied'
  <2> SUFFICES ASSUME at = "put" PROVE Copied'
    BY <1>1 DEF Copied
  <2>1. Merging(known)
    BY DEF Tree
  <2>2. /\ mem[DirBuffer] \in {Zero, disk[chain[k]]}
        /\ ~blind => mem[DirBuffer] = disk[chain[k]]
    BY <1>1, <2>1 DEF Merging, InMerge, Copied
  <2>3. mem'[DirBuffer] = Merged(mem[DirBuffer])
    <3>1. Ask(Request("write", chain[k], DirBuffer), Merged(mem[DirBuffer]))
      BY DEF AskDrive
    <3>2. mem' = [mem EXCEPT ![DirBuffer] = Merged(mem[DirBuffer])]
      BY <3>1 DEF Ask, Request
    <3>3. mem = [b \in Buffers |-> mem[b]]
      BY DEF Steady, IInv, PortInv
    <3> HIDE DEF DirBuffer
    <3> QED
      BY <3>2, <3>3, Places
  <2>4. found' = found
    BY <1>1 DEF search
  <2> QED
    BY <1>1, <2>2, <2>3, <2>4 DEF Copied, Merged
<1> QED
  BY <1>1, <1>2, TreeStays DEF InWalk, InMerge, InStore, Loading

LEMMA TreeCommit ==
  ASSUME Steady, ~givenUp', NEW known, Tree(known), Commit \/ UNCHANGED vars
  PROVE  Tree(known)'
<1>1. /\ UNCHANGED <<at, goal, job, search, chain, k, blind, disk, mem>>
      /\ (pc = "idle") <=> (pc' = "idle")
  BY DEF Commit, Issue, Poll, drive, driver, vars, portVars, fileVars, reading
<1>2. found' = found
  BY <1>1 DEF search
<1>3. Copied'
  <2>1. (at = "put") => Copied
    BY DEF Tree, Merging, InMerge
  <2> QED
    BY <1>1, <1>2, <2>1 DEF Copied, Merged
<1> QED
  BY <1>1, <1>3, TreeStays DEF InWalk, InMerge, InStore, Loading

(* What the drive writes: the directory with the file's entry in it, or a  *)
(* sector of the file.                                                     *)
LEMMA MovePut ==
  ASSUME Steady, ~givenUp, NEW known \in SUBSET Firsts, Tree(known), Move, at = "put"
  PROVE  /\ disk' = [disk EXCEPT ![chain[k]] = mem[DirBuffer]] /\ mem' = mem
         /\ chain[k] \in Sectors /\ disk'[chain[k]] = mem[DirBuffer]
         /\ \A s \in Sectors \ {chain[k]} : disk'[s] = disk[s]
         /\ mem[DirBuffer] \in {Merged(Zero), Merged(disk[chain[k]])}
         /\ ~blind => mem[DirBuffer] = Merged(disk[chain[k]])
<1>1. /\ pc = "poll" /\ Asks
      /\ req.op = "write" => mem' = mem /\ disk' = [disk EXCEPT ![req.lba] = mem[req.buf]]
  BY Moves DEF Steady
<1>2. req = Request("write", chain[k], DirBuffer)
  BY <1>1 DEF Asks
<1>3. disk' = [disk EXCEPT ![chain[k]] = mem[DirBuffer]] /\ mem' = mem
  BY <1>1, <1>2 DEF Request
<1>4. Copied
  BY DEF Tree, Merging, InMerge
<1>5. disk = [s \in Sectors |-> disk[s]]
  BY DEF Steady, IInv, PortInv
<1>6. chain[k] \in Sectors
  BY Changed, FilesAssumption
<1> QED
  BY <1>1, <1>3, <1>4, <1>5, <1>6 DEF Copied

LEMMA MoveStore ==
  ASSUME Steady, ~givenUp, NEW known \in SUBSET Firsts, Tree(known), Move, at = "store"
  PROVE  /\ disk' = [disk EXCEPT ![chain[k]] = mem[OutBuffer]] /\ mem' = mem
         /\ chain[k] \in Sectors /\ k \in 1 .. Len(ChainOn(disk, target))
         /\ chain[k] = ChainOn(disk, target)[k] /\ chain[k] \in ClustersOf(disk, target)
         /\ \A s \in Sectors \ {chain[k]} : disk'[s] = disk[s]
<1>1. /\ pc = "poll" /\ Asks
      /\ req.op = "write" => mem' = mem /\ disk' = [disk EXCEPT ![req.lba] = mem[req.buf]]
  BY Moves DEF Steady
<1>2. req = Request("write", chain[k], OutBuffer)
  BY <1>1 DEF Asks
<1>3. disk' = [disk EXCEPT ![chain[k]] = mem[OutBuffer]] /\ mem' = mem
  BY <1>1, <1>2 DEF Request
<1>4. disk = [s \in Sectors |-> disk[s]]
  BY DEF Steady, IInv, PortInv
<1>5. Volume(disk) /\ goal = "store" /\ k \in 1 .. Len(chain) /\ chain \in Seq(Clusters) /\ target \in Firsts
  BY DEF Steady, Asked, Shape
<1>6. Leads(disk, target, chain)
  BY <1>5 DEF Steady, Followed, Owner
<1>7. /\ k \in 1 .. Len(ChainOn(disk, target)) /\ chain[k] = ChainOn(disk, target)[k]
      /\ chain[k] \in ClustersOf(disk, target)
  BY <1>5, <1>6, Beginning
<1>8. chain[k] \in Sectors
  BY <1>5, FilesAssumption
<1> QED
  BY <1>3, <1>4, <1>7, <1>8

LEMMA FewerSelf == \A content \in Directories : Fewer(content, content)
BY DEF Fewer

LEMMA FolderClusters ==
  ASSUME NEW v, Volume(v), NEW known \in SUBSET Firsts, NEW f \in known, NEW c \in ClustersOf(v, f)
  PROVE  c \in Clusters /\ c \in Sectors
<1>1. IsChain(v, f, ChainOn(v, f))
  BY ChainIs
<1> QED
  BY <1>1, FilesAssumption DEF IsChain, Leads, ClustersOf

(* What stays when the disk changes in one cluster.                        *)
LEMMA TreeChanges ==
  ASSUME Steady, ~givenUp, NEW known \in SUBSET Firsts, Tree(known), at \in {"put", "store"},
         UNCHANGED <<job, at, search, reading, blind>>,
         disk'[FatSector] = disk[FatSector],
         \A f \in known : \A c \in ClustersOf(disk, f) : Fewer(disk'[c], disk[c]),
         ~blind => \A f \in known : \A c \in ClustersOf(disk, f) : Fewer(disk[c], disk'[c]),
         at = "put" => PlaceOn(disk)' # NoEntry /\ Trim(PlaceOn(disk)') = Trim(found.entry),
         Copied'
  PROVE  Tree(known)'
<1>1. Volume(disk) /\ Merging(known) /\ Proper(disk, known) /\ (InMerge \/ InStore)
  BY DEF Steady, Asked, Tree, InMerge, InStore
<1>2. Proper(disk', known)
  BY <1>1, ProperKept
<1>3. /\ Chosen /\ target = found.entry.first /\ folder \in known
      /\ Straight(disk, target) /\ OffFolders(disk, known, target)
      /\ found.n \in 1 .. Len(ChainOn(disk, folder)) /\ found.slot \in Slots
      /\ ~blind => \E f \in FilesOn(disk, Way) : f.folder = folder /\ SamePlace(f.place, found)
  BY <1>1 DEF Merging, InMerge, InStore, Tree
<1>4. UNCHANGED <<walk, i, folder, entries, found, target, Way, goal, at>>
  BY DEF search, reading, Way
<1>5. target \in Firsts /\ folder \in Firsts
  BY <1>3 DEF Steady, Shape
<1>6. \A first \in Firsts : /\ ChainOn(disk', first) = ChainOn(disk, first)
                            /\ ClustersOf(disk', first) = ClustersOf(disk, first)
  BY <1>1, ChainSame
<1>7. Straight(disk', target)
  BY <1>3, <1>5, <1>6 DEF Straight
<1>8. OffFolders(disk', known, target)
  BY <1>3, <1>5, <1>6 DEF OffFolders
<1>9. ASSUME ~blind
      PROVE  \E f \in FilesOn(disk', Way) : f.folder = folder /\ SamePlace(f.place, found)
  <2>1. PICK f \in FilesOn(disk, Way) : f.folder = folder /\ SamePlace(f.place, found)
    BY <1>3, <1>9
  <2>2. Alike(disk, disk', known)
    BY <1>9 DEF Alike
  <2>3. Way \in Seq(Component)
    BY DEF Steady, Shape, Way, Begin
  <2>4. \E g \in FilesOn(disk', Way) : g.folder = f.folder /\ Same(f.place, g.place)
    BY <1>1, <2>2, <2>3, FilesAlike
  <2> QED
    BY <2>1, <2>4 DEF Same, SamePlace
<1>10. Chosen'
  BY <1>3, <1>4 DEF Chosen
<1>11. InMerge' => PlaceOn(disk)' # NoEntry /\ Trim(PlaceOn(disk)') = Trim(found.entry)
  BY <1>4 DEF InMerge
<1>12. found.n \in 1 .. Len(ChainOn(disk', folder))
  BY <1>3, <1>5, <1>6
<1>13. Merging(known)'
  BY <1>3, <1>4, <1>7, <1>8, <1>9, <1>10, <1>11, <1>12 DEF Merging
<1>14. ~InWalk'
  BY <1>4 DEF InWalk
<1> QED
  BY <1>2, <1>13, <1>14 DEF Tree, Walking

(* The file's entry, when a cluster of the directory or of the file is     *)
(* written.                                                                *)
LEMMA PlacePut ==
  ASSUME Steady, ~givenUp, NEW known \in SUBSET Firsts, Tree(known), Move, at = "put",
         UNCHANGED <<folder, found>>
  PROVE  /\ k = found.n => PlaceOn(disk)' = found.entry
         /\ k # found.n => PlaceOn(disk)' = PlaceOn(disk)
<1> DEFINE n == found.n
           c == ChainOn(disk, folder)[n]
           d == chain[k]
<1>1. /\ disk'[d] = mem[DirBuffer] /\ \A s \in Sectors \ {d} : disk'[s] = disk[s]
      /\ mem[DirBuffer] \in {Merged(Zero), Merged(disk[d])}
  BY MovePut
<1>2. /\ Chosen /\ found.slot \in Slots /\ folder \in known /\ folder \in Firsts
      /\ d = ChainOn(disk, folder)[k] /\ disk[d] \in Directories /\ d \in Clusters
      /\ \A l \in 1 .. Len(ChainOn(disk, folder)) : ChainOn(disk, folder)[l] = d => l = k
  BY Changed
<1>3. Volume(disk) /\ disk'[FatSector] = disk[FatSector] /\ n \in 1 .. Len(ChainOn(disk, folder))
  BY <1>1, <1>2, Places DEF Steady, Asked, Tree, Merging, InMerge
<1>4. PlaceOn(disk)' = disk'[c][found.slot] /\ PlaceOn(disk) = disk[c][found.slot]
  BY <1>2, <1>3, ChainSame DEF PlaceOn
<1>5. c \in ClustersOf(disk, folder)
  BY <1>3 DEF ClustersOf
<1>6. c \in Sectors
  BY <1>2, <1>3, <1>5, FolderClusters
<1> HIDE DEF d
<1>7. ASSUME k = n PROVE disk'[c][found.slot] = found.entry
  <2>1. Merged(Zero)[found.slot] = found.entry /\ Merged(disk[d])[found.slot] = found.entry
    BY <1>2, <1>7, MergedIs
  <2> QED
    BY <1>1, <1>2, <1>7, <2>1
<1>8. ASSUME k # n PROVE disk'[c] = disk[c]
  BY <1>1, <1>2, <1>3, <1>6, <1>8
<1> QED
  BY <1>4, <1>7, <1>8

LEMMA TreePut ==
  ASSUME Steady, ~givenUp, NEW known \in SUBSET Firsts, Tree(known), Move, at = "put",
         UNCHANGED <<job, at, search, reading, blind>>
  PROVE  Tree(known)'
<1> DEFINE d == chain[k]
<1>1. /\ disk'[d] = mem[DirBuffer] /\ mem' = mem /\ d \in Sectors
      /\ \A s \in Sectors \ {d} : disk'[s] = disk[s]
      /\ mem[DirBuffer] \in {Merged(Zero), Merged(disk[d])}
      /\ ~blind => mem[DirBuffer] = Merged(disk[d])
  BY MovePut
<1>2. /\ Chosen /\ found.slot \in Slots /\ folder \in known /\ folder \in Firsts
      /\ k \in 1 .. Len(ChainOn(disk, folder)) /\ d = ChainOn(disk, folder)[k]
      /\ d \in ClustersOf(disk, folder) /\ disk[d] \in Directories /\ d \in Clusters
      /\ \A n \in 1 .. Len(ChainOn(disk, folder)) : ChainOn(disk, folder)[n] = d => n = k
      /\ k = found.n => disk[d][found.slot] # NoEntry /\ Trim(disk[d][found.slot]) = Trim(found.entry)
  BY Changed
<1>3. Volume(disk) /\ Proper(disk, known) /\ Merging(known) /\ disk'[FatSector] = disk[FatSector]
  BY <1>1, <1>2, Places DEF Steady, Asked, Tree
<1> HIDE DEF d
<1>4. \A content \in {Zero, disk[d]} :
        /\ Fewer(Merged(content), disk[d]) /\ Fewer(disk[d], Merged(disk[d]))
        /\ Merged(Merged(content)) = Merged(content)
        /\ k = found.n => Merged(content)[found.slot] = found.entry
  BY <1>2, MergedFewer
<1>5. /\ Fewer(disk'[d], disk[d]) /\ Merged(disk'[d]) = disk'[d]
      /\ k = found.n => disk'[d][found.slot] = found.entry
      /\ ~blind => Fewer(disk[d], disk'[d])
  BY <1>1, <1>4
<1>6. ASSUME NEW f \in known, NEW c \in ClustersOf(disk, f)
      PROVE  /\ Fewer(disk'[c], disk[c])
             /\ ~blind => Fewer(disk[c], disk'[c])
  <2>1. CASE c = d
    BY <1>5, <2>1
  <2>2. CASE c # d
    <3>1. disk[c] \in Directories /\ c \in Sectors
      BY <1>3, <1>6, FolderClusters DEF Proper
    <3> QED
      BY <1>1, <2>2, <3>1, FewerSelf
  <2> QED
    BY <2>1, <2>2
<1>7. UNCHANGED <<found, folder, chain, k>>
  BY DEF search, reading
<1>8. PlaceOn(disk)' # NoEntry /\ Trim(PlaceOn(disk)') = Trim(found.entry)
  <2>1. /\ k = found.n => PlaceOn(disk)' = found.entry
        /\ k # found.n => PlaceOn(disk)' = PlaceOn(disk)
    BY <1>7, PlacePut
  <2>2. PlaceOn(disk) # NoEntry /\ Trim(PlaceOn(disk)) = Trim(found.entry) /\ found.entry \in Entry
    BY <1>2, <1>3 DEF Merging, InMerge, Chosen
  <2> QED
    BY <2>1, <2>2, FilesAssumption
<1>9. Copied'
  <2>1. at' = "put" /\ pc' # "idle"
    <3>1. pc = "poll" /\ pc' = pc /\ at' = at
      BY Moves DEF Steady, Move, driver
    <3> QED
      BY <3>1
  <2>2. chain'[k'] = d /\ k' = k /\ found' = found /\ mem' = mem
    BY <1>1, <1>7 DEF d
  <2>3. mem[DirBuffer] = disk'[d] /\ Merged(disk'[d]) = disk'[d]
    BY <1>1, <1>5
  <2>4. mem'[DirBuffer] = Merged(disk[chain[k]])'
    BY <2>2, <2>3 DEF Merged
  <2> QED
    BY <2>1, <2>4 DEF Copied
<1> QED
  BY <1>3, <1>6, <1>8, <1>9, TreeChanges

LEMMA TreeStore ==
  ASSUME Steady, ~givenUp, NEW known \in SUBSET Firsts, Tree(known), Move, at = "store",
         UNCHANGED <<job, at, search, reading, blind>>
  PROVE  Tree(known)'
<1> DEFINE s == chain[k]
<1>1. /\ s \in ClustersOf(disk, target) /\ s \in Sectors
      /\ \A other \in Sectors \ {s} : disk'[other] = disk[other]
  BY MoveStore
<1> HIDE DEF s
<1>2. Volume(disk) /\ Proper(disk, known) /\ OffFolders(disk, known, target)
  BY DEF Steady, Asked, Tree, Merging, InStore
<1>3. disk'[FatSector] = disk[FatSector]
  BY Moves DEF Steady
<1>4. ASSUME NEW f \in known, NEW c \in ClustersOf(disk, f)
      PROVE  Fewer(disk'[c], disk[c]) /\ Fewer(disk[c], disk'[c])
  <2>1. disk[c] \in Directories /\ c \in Sectors
    BY <1>2, <1>4, FolderClusters DEF Proper
  <2>2. c # s
    BY <1>1, <1>2, <1>4 DEF OffFolders
  <2> QED
    BY <1>1, <2>1, <2>2, FewerSelf
<1>5. Copied'
  BY DEF Copied
<1> QED
  BY <1>3, <1>4, <1>5, TreeChanges

LEMMA TreeDrive ==
  ASSUME Steady, ~givenUp, NEW known \in SUBSET Firsts, Tree(known), DriveWorks \/ DriveFails
  PROVE  Tree(known)'
<1>1. UNCHANGED <<job, at, search, reading, blind, req, pc>>
  BY DEF DriveWorks, DriveFails, Fetch, Move, Complete, Fail, driver
<1>2. UNCHANGED <<goal, chain, k, found>>
  BY <1>1 DEF search, reading
<1>3. at = "put" => Copied
  BY DEF Tree, Merging, InMerge
<1>4. CASE UNCHANGED <<mem, disk>>
  <2>1. Copied'
    BY <1>1, <1>2, <1>3, <1>4 DEF Copied, Merged
  <2> QED
    BY <1>1, <1>2, <1>4, <2>1, TreeStays DEF InWalk, InMerge, InStore, Loading
<1>5. CASE Move /\ at = "put"
  BY <1>1, <1>5, TreePut
<1>6. CASE Move /\ at = "store"
  BY <1>1, <1>6, TreeStore
<1>7. CASE Move /\ at \notin {"put", "store"}
  <2>1. /\ Asks
        /\ req.op = "read" => disk' = disk
        /\ req.op = "standby" => disk' = disk
    BY <1>7, Moves DEF Steady
  <2>2. disk' = disk
    BY <1>7, <2>1 DEF Asks, Request
  <2>3. Copied'
    BY <1>1, <1>7 DEF Copied
  <2> QED
    BY <1>1, <1>2, <2>2, <2>3, TreeStays DEF InWalk, InMerge, InStore, Loading
<1> QED
  BY <1>4, <1>5, <1>6, <1>7 DEF DriveWorks, DriveFails, Fetch, Complete, Fail

LEMMA TreeNext ==
  ASSUME Steady, ~givenUp, ~givenUp', NEW known \in SUBSET Firsts, Tree(known), [Next]_vars
  PROVE  Tree(known)'
<1>1. CASE \E op \in {"open", "list"}, path \in Paths : Type(op, path, <<>>)
  BY <1>1, TreeType
<1>2. CASE \E path \in Paths, text \in Texts : Type("write", path, text)
  BY <1>2, TreeType
<1>3. CASE AskDrive
  BY <1>3, TreeAsk
<1>4. CASE Booted \/ List \/ Deinit
  <2>1. disk' = disk /\ at' \in {"prompt", "stopped"}
    BY <1>4 DEF Booted, Back, Resume, List, Searching, Says, Deinit, portVars, drive
  <2> QED
    BY <2>1, TreeRests
<1>5. CASE ReadLink
  BY <1>5, TreeLink
<1>6. CASE ReadEntries
  BY <1>6, TreeEntries
<1>7. CASE Enter
  BY <1>7, TreeEnter
<1>8. CASE FindFile
  BY <1>8, TreeFile
<1>9. CASE FindNothing
  BY <1>9, TreeNothing
<1>10. CASE ReadPage
  BY <1>10, TreePage
<1>11. CASE FindTarget
  BY <1>11, TreeTarget
<1>12. CASE ReadCopy
  BY <1>12, TreeCopy
<1>13. CASE WriteCopy \/ WritePage
  BY <1>13, TreeWritten
<1>14. CASE Commit \/ UNCHANGED vars
  BY <1>14, TreeCommit
<1>15. CASE DriveWorks \/ DriveFails
  BY <1>15, TreeDrive
<1>16. CASE Restart
  <2>1. disk' = disk /\ at' = "boot"
    BY <1>16 DEF Restart, PowerCycle
  <2> QED
    BY <2>1, TreeRests
<1> QED
  BY <1>1, <1>2, <1>3, <1>4, <1>5, <1>6, <1>7, <1>8, <1>9, <1>10, <1>11, <1>12, <1>13, <1>14,
     <1>15, <1>16 DEF Next, Runs

(* A command that was given up is never taken up again.                    *)
LEMMA GivesUp ==
  ASSUME [Next]_vars, ~givenUp'
  PROVE  ~givenUp
<1>1. CASE Restart
  BY <1>1 DEF Restart
<1>2. CASE \E op, path, text : Type(op, path, text)
  BY <1>2 DEF Type, driver
<1>3. CASE AskDrive
  BY <1>3 DEF AskDrive, Ask
<1>4. CASE \/ Booted \/ ReadLink \/ ReadEntries \/ ReadPage \/ ReadCopy \/ WriteCopy \/ WritePage
  BY <1>4 DEF Booted, ReadLink, ReadEntries, ReadPage, ReadCopy, WriteCopy, WritePage, Back, Resume
<1>5. CASE Enter \/ List \/ FindFile \/ FindNothing \/ FindTarget \/ Deinit
  BY <1>5 DEF Enter, List, FindFile, FindNothing, FindTarget, Deinit, Searching, portVars, driver
<1>6. CASE Commit \/ UNCHANGED vars
  BY <1>6 DEF Commit, Issue, Poll, vars, portVars, driver
<1>7. CASE DriveWorks \/ DriveFails
  BY <1>7 DEF DriveWorks, DriveFails, Fetch, Move, Complete, Fail, driver
<1> QED
  BY <1>1, <1>2, <1>3, <1>4, <1>5, <1>6, <1>7 DEF Next, Runs

(* What of a command and of the disk stays true whichever requests fail.   *)
DiskInv == WalkInv /\ Filled /\ Followed /\ TreeInv

LEMMA InitDisk == Init => DiskInv
<1> SUFFICES ASSUME Init PROVE DiskInv
  OBVIOUS
<1>1. at = "boot" /\ pc = "idle" /\ disk \in Images
  BY DEF Init, PowerOn
<1>2. Filled /\ Followed
  BY <1>1 DEF Filled, Followed
<1>3. PICK known \in SUBSET Firsts : Proper(disk, known)
  BY <1>1, ImagesAssumption DEF Sane
<1>4. Tree(known)
  BY <1>1, <1>3 DEF Tree, Walking, Merging, InWalk, InMerge, InStore
<1> QED
  BY <1>2, <1>4, InitWalk DEF DiskInv, TreeInv

LEMMA NextDisk == DiskInv /\ [Next]_vars => DiskInv'
<1> SUFFICES ASSUME DiskInv, [Next]_vars PROVE DiskInv'
  OBVIOUS
<1>1. WalkInv'
  BY NextWalk DEF DiskInv
<1>2. Steady
  BY DEF DiskInv, WalkInv, Steady
<1>3. Filled' /\ Followed'
  BY <1>2, FilledInv, FollowedInv DEF Steady
<1>4. TreeInv'
  <2> SUFFICES ASSUME ~givenUp' PROVE \E known \in SUBSET Firsts : Tree(known)'
    BY DEF TreeInv
  <2>1. ~givenUp
    BY GivesUp DEF DiskInv
  <2>2. PICK known \in SUBSET Firsts : Tree(known)
    BY <2>1 DEF DiskInv, TreeInv
  <2> QED
    BY <1>2, <2>1, <2>2, TreeNext
<1> QED
  BY <1>1, <1>3, <1>4 DEF DiskInv

LEMMA DiskInvariance == Spec => []DiskInv
BY InitDisk, NextDisk, PTL DEF Spec

(* Whatever is typed, wherever a request fails and whenever the machine is *)
(* switched off, the volume stays a file system as it should be: what a    *)
(* write puts into a directory are the directory's own entries and the     *)
(* file's, or fewer, and what it puts elsewhere is in a file that no       *)
(* folder shares a cluster with (FAT.swift 376-435).                       *)
THEOREM DiskSane == Spec => [](~givenUp => Sane(disk))
<1>1. DiskInv => (~givenUp => Sane(disk))
  BY DEF DiskInv, TreeInv, Tree, Sane
<1> QED
  BY <1>1, DiskInvariance, PTL

(* The commands print what is on the disk (Partition.swift 24-108).        *)
THEOREM AnswersSafe == Spec => []AnswerRight
<1>1. DiskInv => AnswerRight
  <2> SUFFICES ASSUME DiskInv PROVE AnswerRight
    OBVIOUS
  <2>1. CASE at = "prompt" /\ Sound
    <3>1. Sane(disk)
      BY <2>1 DEF DiskInv, TreeInv, Tree, Sane, Sound
    <3> QED
      BY <2>1, <3>1 DEF DiskInv, WalkInv, Answered
  <2>2. CASE ~(at = "prompt" /\ Sound)
    BY <2>2 DEF AnswerRight
  <2> QED
    BY <2>1, <2>2
<1> QED
  BY <1>1, DiskInvariance, PTL

(* What a step may change on the disk.                                     *)
OneChange ==
  disk' # disk /\ ~blind' /\ ~givenUp' /\ Whole(job.path) =>
    /\ job.op = "write"
    /\ \E f \in FilesAt(job.path) :
         LET p == f.place
             d == ChainOf(f.folder)[p.n]
             c == ChainOf(p.entry.first)
         IN \E s \in {d} \cup {c[n] : n \in 1 .. Len(c)} :
              /\ \A other \in Sectors \ {s} : disk'[other] = disk[other]
              /\ s = d => disk'[s] = [disk[s] EXCEPT ![p.slot] = [p.entry EXCEPT !.size = Len(job.text), !.dated = FALSE]]

(* The disk changes only while a directory or a file is written.           *)
LEMMA WhoChanges ==
  ASSUME Steady, ~givenUp, [Next]_vars, disk' # disk
  PROVE  Move /\ at \in {"put", "store"} /\ UNCHANGED <<job, blind>>
<1>1. CASE \E op, path, text : Type(op, path, text)
  BY <1>1 DEF Type, drive
<1>2. CASE AskDrive \/ Commit \/ UNCHANGED vars
  BY <1>2 DEF AskDrive, Ask, Commit, Issue, Poll, drive, vars, portVars
<1>3. CASE \/ Booted \/ ReadLink \/ ReadEntries \/ ReadPage \/ ReadCopy \/ WriteCopy \/ WritePage
  BY <1>3 DEF Booted, ReadLink, ReadEntries, ReadPage, ReadCopy, WriteCopy, WritePage, Back, Resume, drive
<1>4. CASE Enter \/ List \/ FindFile \/ FindNothing \/ FindTarget \/ Deinit
  BY <1>4 DEF Enter, List, FindFile, FindNothing, FindTarget, Deinit, Searching, portVars, drive
<1>5. CASE Restart
  BY <1>5 DEF Restart, PowerCycle
<1>6. CASE DriveWorks \/ DriveFails
  <2>1. Move /\ UNCHANGED <<job, blind>>
    BY <1>6 DEF DriveWorks, DriveFails, Fetch, Complete, Fail
  <2>2. /\ Asks
        /\ req.op = "read" => disk' = disk
        /\ req.op = "standby" => disk' = disk
    BY <2>1, Moves DEF Steady
  <2> QED
    BY <2>1, <2>2 DEF Asks, Request
<1> QED
  BY <1>1, <1>2, <1>3, <1>4, <1>5, <1>6 DEF Next, Runs

LEMMA ChangePut ==
  ASSUME Steady, ~givenUp, NEW known \in SUBSET Firsts, Tree(known), Move, at = "put",
         disk' # disk, ~blind,
         NEW p, p \in EntriesOn(disk, folder), SamePlace(p, found)
  PROVE  /\ \A other \in Sectors \ {chain[k]} : disk'[other] = disk[other]
         /\ chain[k] = ChainOn(disk, folder)[p.n]
         /\ disk'[chain[k]] =
              [disk[chain[k]] EXCEPT ![p.slot] = [p.entry EXCEPT !.size = Len(job.text), !.dated = FALSE]]
<1> DEFINE d == chain[k]
<1>1. /\ disk'[d] = Merged(disk[d]) /\ d \in Sectors
      /\ \A s \in Sectors \ {d} : disk'[s] = disk[s]
      /\ disk' = [disk EXCEPT ![d] = mem[DirBuffer]] /\ mem[DirBuffer] = Merged(disk[d])
  BY MovePut
<1>2. /\ Chosen /\ found.slot \in Slots /\ disk[d] \in Directories
      /\ d = ChainOn(disk, folder)[k]
  BY Changed
<1>3. disk = [s \in Sectors |-> disk[s]]
  BY DEF Steady, IInv, PortInv
<1> HIDE DEF d
<1>4. /\ Merged(disk[d]) \in Directories
      /\ \A s \in Slots : Merged(disk[d])[s] = IF k = found.n /\ s = found.slot THEN found.entry
                                               ELSE disk[d][s]
  BY <1>2, MergedIs
<1>5. k = found.n
  <2>1. SUFFICES ASSUME k # found.n PROVE FALSE
    OBVIOUS
  <2>2. Merged(disk[d]) = disk[d]
    BY <1>2, <1>4, <2>1 DEF Directories
  <2> QED
    BY <1>1, <1>3, <2>2
<1>6. /\ p.n = k /\ p.slot = found.slot /\ Trim(p.entry) = Trim(found.entry)
      /\ p.entry = disk[d][p.slot] /\ p.entry \in Entry
  <2>1. IsEntryOn(disk, folder, p)
    BY EntriesAre
  <2>2. p.entry = disk[ChainOn(disk, folder)[p.n]][p.slot] /\ p.entry # NoEntry
    BY <2>1 DEF IsEntryOn, Place
  <2>3. p.n = k /\ p.slot = found.slot /\ Trim(p.entry) = Trim(found.entry)
    BY <1>5 DEF SamePlace
  <2>4. p.entry = disk[d][p.slot]
    BY <1>2, <2>2, <2>3
  <2>5. disk[d][p.slot] \in Entry \cup {NoEntry}
    BY <1>2, <2>3 DEF Directories
  <2> QED
    BY <2>2, <2>3, <2>4, <2>5
<1>7. found.entry = [p.entry EXCEPT !.size = Len(job.text), !.dated = FALSE]
  <2>1. found.entry \in Entry /\ found.entry.size = Len(job.text) /\ found.entry.dated = FALSE
    BY <1>2 DEF Chosen
  <2>2. found.entry = [p.entry EXCEPT !.size = found.entry.size, !.dated = found.entry.dated]
    BY <1>6, <2>1, Resized
  <2> QED
    BY <2>1, <2>2, Zenon
<1>8. disk'[d] = [disk[d] EXCEPT ![p.slot] = [p.entry EXCEPT !.size = Len(job.text), !.dated = FALSE]]
  <2>2. disk'[d] \in Directories
    BY <1>1, <1>4
  <2>3. \A s \in Slots : disk'[d][s] = [disk[d] EXCEPT ![p.slot] = found.entry][s]
    BY <1>1, <1>2, <1>4, <1>5, <1>6 DEF Directories
  <2>4. disk'[d] = [disk[d] EXCEPT ![p.slot] = found.entry]
    BY <1>2, <2>2, <2>3 DEF Directories
  <2> QED
    BY <1>6, <1>7, <2>4
<1> QED
  BY <1>1, <1>2, <1>6, <1>8 DEF d

LEMMA OnlyOne ==
  ASSUME DiskInv, [Next]_vars
  PROVE  OneChange
<1> SUFFICES ASSUME disk' # disk, ~blind', ~givenUp', Whole(job.path) PROVE OneChange
  BY DEF OneChange
<1>1. Steady /\ ~givenUp
  BY GivesUp DEF DiskInv, WalkInv, Steady
<1>2. Move /\ at \in {"put", "store"} /\ ~blind
  BY <1>1, WhoChanges
<1>3. PICK known \in SUBSET Firsts : Tree(known)
  BY <1>1 DEF DiskInv, TreeInv
<1>4. Way = job.path /\ Way \in Seq(Component)
  BY <1>1 DEF Whole, Way, Steady, Shape
<1>5. /\ Merging(known) /\ Chosen /\ target = found.entry.first /\ folder \in known
      /\ OffFolders(disk, known, target)
  BY <1>2, <1>3 DEF Tree, Merging, InMerge, InStore
<1>6. PICK f \in FilesOn(disk, job.path) : f.folder = folder /\ SamePlace(f.place, found)
  BY <1>2, <1>4, <1>5 DEF Merging, InMerge, InStore
<1>7. f.place \in EntriesOn(disk, folder)
  <2>1. PICK m \in 1 .. Len(job.path) : FileAt(disk, job.path, f, m)
    BY <1>4, <1>6, FilesAre
  <2> QED
    BY <1>6, <2>1 DEF FileAt
<1> DEFINE p == f.place
           d == ChainOn(disk, f.folder)[p.n]
           c == ChainOn(disk, p.entry.first)
<1>8. ASSUME NEW s \in {d} \cup {c[n] : n \in 1 .. Len(c)},
             \A other \in Sectors \ {s} : disk'[other] = disk[other],
             s = d => disk'[s] = [disk[s] EXCEPT ![p.slot] = [p.entry EXCEPT !.size = Len(job.text), !.dated = FALSE]]
      PROVE  OneChange
  BY <1>5, <1>6, <1>8 DEF OneChange, FilesAt, ChainOf, Chosen
<1>9. CASE at = "put"
  <2>1. /\ \A other \in Sectors \ {chain[k]} : disk'[other] = disk[other]
        /\ chain[k] = ChainOn(disk, folder)[p.n]
        /\ disk'[chain[k]] =
              [disk[chain[k]] EXCEPT ![p.slot] = [p.entry EXCEPT !.size = Len(job.text), !.dated = FALSE]]
    BY <1>1, <1>2, <1>3, <1>6, <1>7, <1>9, ChangePut
  <2>2. chain[k] = d
    BY <1>6, <2>1
  <2> QED
    BY <1>8, <2>1, <2>2
<1>10. CASE at = "store"
  <2>1. /\ k \in 1 .. Len(ChainOn(disk, target)) /\ chain[k] = ChainOn(disk, target)[k]
        /\ chain[k] \in ClustersOf(disk, target)
        /\ \A other \in Sectors \ {chain[k]} : disk'[other] = disk[other]
    BY <1>1, <1>2, <1>3, <1>10, MoveStore
  <2>2. p.entry.first = target
    <3>1. p.entry \in Entry /\ found.entry \in Entry
      BY <1>1, <1>5, <1>7, EntriesTyped DEF Steady, Shape, Asked, Chosen
    <3> QED
      BY <1>5, <1>6, <3>1, Trimmed DEF SamePlace
  <2>3. d \in ClustersOf(disk, folder)
    <3>1. IsEntryOn(disk, folder, p)
      BY <1>7, EntriesAre
    <3> QED
      BY <1>6, <3>1 DEF IsEntryOn, ClustersOf
  <2>4. chain[k] # d
    BY <1>5, <2>1, <2>3 DEF OffFolders
  <2> QED
    BY <1>8, <2>1, <2>2, <2>4
<1> QED
  BY <1>2, <1>9, <1>10

(* Only the file a write names changes, and its entry's size, whatever is  *)
(* typed, wherever a request fails and whenever the machine is switched    *)
(* off (FAT.swift 376-435).                                                *)
THEOREM OnlyNamed == Spec => OnlyTheNamedFile
<1>1. DiskInv /\ [Next]_vars => [OneChange]_vars
  BY OnlyOne
<1>2. [][OneChange]_vars => OnlyTheNamedFile
  BY PTL DEF OnlyTheNamedFile, OneChange
<1> QED
  BY <1>1, <1>2, DiskInvariance, PTL DEF Spec

(***************************************************************************)
(* What a write leaves on the disk when no request has failed.             *)
(***************************************************************************)

(* The whole of a chain is followed, and all of a directory is read.       *)
Exact ==
  Sound =>
    /\ at \in {"list", "load", "merge", "put", "store"} => IsChain(disk, Owner, chain)
    /\ at = "chain" /\ goal = "list" => entries = {}
    /\ at = "list" => entries = UNION {EntriesIn(disk[chain[n]], n) : n \in 1 .. k - 1}
    /\ at = "search" => entries = EntriesOn(disk, folder)

BlindFails == blind => failed

(* The entry is in its place from when its cluster was written, and so are *)
(* the sectors of the file.                                                *)
Landing ==
  Sound =>
    /\ at \in {"merge", "put"} /\ k > found.n => PlaceOn(disk) = found.entry
    /\ InStore => PlaceOn(disk) = found.entry
    /\ at = "store" => /\ \A n \in 1 .. k - 1 : disk[chain[n]] = Piece(n)
                       /\ pc # "idle" => mem[OutBuffer] = Piece(k)

LEMMA ExactLink ==
  ASSUME Steady, Exact, ReadLink, Sound'
  PROVE  Exact'
<1>1. /\ at = "chain" /\ Asks /\ Volume(disk) /\ Sound /\ disk' = disk
      /\ req.op = "read" => mem[req.buf] = disk[req.lba]
  BY ReadBack DEF ReadLink, Steady
<1>2. UNCHANGED <<folder, entries, found, target, goal, k>>
  BY DEF ReadLink, search
<1>3. /\ cur \in Clusters /\ chain \in Seq(Clusters) /\ Len(chain) < MaxChain /\ k = 1
      /\ MaxChain \in Nat /\ Len(chain) \in Nat /\ goal \in {"list", "load", "merge", "store"}
  BY <1>1, FilesAssumption DEF Steady, Shape
<1>4. Links = {Link(disk, cur)}
  BY <1>1 DEF Asks, Request, Links, Link, Volume
<1>5. /\ chain' = Append(chain, cur)
      /\ at' = IF Ends(disk, cur) \/ Len(chain') = MaxChain THEN goal ELSE "chain"
  BY <1>4 DEF ReadLink, Ends
<1>6. chain'[Len(chain')] = cur
  BY <1>3, <1>5
<1>7. Followed' /\ ~givenUp'
  BY <1>1, FollowedLink DEF Steady, Sound
<1>8. ASSUME at' # "chain" PROVE at' = goal /\ IsChain(disk', Owner', chain')
  <2>1. at' = goal /\ (Len(chain') = MaxChain \/ Ends(disk', chain'[Len(chain')]))
    BY <1>1, <1>5, <1>6, <1>8
  <2>2. Leads(disk', Owner', chain')
    BY <1>3, <1>7, <2>1 DEF Followed
  <2> QED
    BY <2>1, <2>2 DEF IsChain
<1>9. goal = "list" => entries' = {} /\ entries' = UNION {EntriesIn(disk'[chain'[n]], n) : n \in 1 .. k' - 1}
  BY <1>1, <1>2, <1>3 DEF Exact
<1>10. at' = "chain" \/ at' = goal
  BY <1>5
<1> QED
  BY <1>2, <1>3, <1>8, <1>9, <1>10 DEF Exact

LEMMA ExactEntries ==
  ASSUME Steady, Exact, ReadEntries, Sound'
  PROVE  Exact'
<1>1. /\ at = "list" /\ Asks /\ Volume(disk) /\ Sound /\ disk' = disk
      /\ req.op = "read" => mem[req.buf] = disk[req.lba]
  BY ReadBack DEF ReadEntries, Steady
<1>2. /\ UNCHANGED <<folder, found, target, chain, goal>> /\ k' = k + 1
      /\ entries' = entries \cup EntriesIn(mem[DirBuffer], k)
      /\ at' = IF k = Len(chain) THEN "search" ELSE "list"
  BY DEF ReadEntries
<1>3. k \in 1 .. Len(chain) /\ goal = "list" /\ Len(chain) \in Nat /\ folder \in Firsts
  BY <1>1 DEF Steady, Shape
<1>4. mem[DirBuffer] = disk[chain[k]]
  BY <1>1 DEF Asks, Request
<1>5. entries' = UNION {EntriesIn(disk[chain[n]], n) : n \in 1 .. k}
  <2>1. entries = UNION {EntriesIn(disk[chain[n]], n) : n \in 1 .. k - 1}
    BY <1>1 DEF Exact
  <2>2. \A n : n \in 1 .. k <=> n \in 1 .. k - 1 \/ n = k
    BY <1>3
  <2> QED
    BY <1>2, <1>4, <2>1, <2>2
<1>6. IsChain(disk, folder, chain)
  BY <1>1, <1>3 DEF Exact, Owner
<1>7. IsChain(disk', Owner', chain')
  BY <1>1, <1>2, <1>3, <1>6 DEF Owner
<1>8. CASE k = Len(chain)
  <2>1. ChainOn(disk, folder) = chain
    BY <1>1, <1>3, <1>6, ChainIs, ChainOnly
  <2>2. entries' = EntriesOn(disk', folder')
    BY <1>1, <1>2, <1>5, <1>8, <2>1 DEF EntriesOn
  <2> QED
    BY <1>2, <1>7, <1>8, <2>2 DEF Exact
<1>9. CASE k # Len(chain)
  <2>1. k' - 1 = k /\ at' = "list"
    BY <1>2, <1>3, <1>9
  <2> QED
    BY <1>1, <1>2, <1>5, <1>7, <2>1 DEF Exact
<1> QED
  BY <1>8, <1>9

(* Where nothing was read or found, what was read stays exact.             *)
LEMMA ExactStays ==
  ASSUME Exact, Sound, UNCHANGED <<folder, found, target, goal, chain, entries>>,
         disk'[FatSector] = disk[FatSector],
         at' \in {"merge", "put", "store"} => at \in {"merge", "put", "store"},
         at' = "load" => at = "load",
         at' = "chain" /\ goal = "list" => at = "chain",
         at' \in {"list", "search"} => disk' = disk /\ k' = k /\ at' = at
  PROVE  Exact'
<1>1. Owner' = Owner
  BY DEF Owner
<1>2. at' \in {"list", "load", "merge", "put", "store"} => IsChain(disk', Owner', chain')
  BY <1>1 DEF Exact, IsChain, Leads, Ends, Link
<1> QED
  BY <1>2 DEF Exact

LEMMA ExactNext ==
  ASSUME Steady, Exact, [Next]_vars
  PROVE  Exact'
<1> SUFFICES ASSUME Sound' PROVE Exact'
  BY DEF Exact
<1>0. ~givenUp /\ ~failed'
  BY GivesUp DEF Sound
<1>1. CASE \E op, path, text : Type(op, path, text)
  <2>1. CASE \E who, path : Walk(who, path)
    BY <2>1, WalkShape DEF Exact
  <2>2. CASE at' = "stopped"
    BY <2>2 DEF Exact
  <2> QED
    BY <1>1, <2>1, <2>2 DEF Type
<1>2. CASE Enter
  BY <1>2 DEF Enter, Follow, Exact
<1>3. CASE FindFile \/ FindTarget
  BY <1>3 DEF FindFile, FindTarget, Follow, Exact
<1>4. CASE FindNothing
  <2>1. CASE Walk("png", job.path)
    BY <2>1, WalkShape DEF Exact
  <2>2. CASE at' \in {"prompt", "written"}
    BY <2>2 DEF Exact
  <2> QED
    BY <1>4, <2>1, <2>2 DEF FindNothing, Says
<1>5. CASE List \/ Deinit \/ Booted \/ Restart
  BY <1>5 DEF List, Deinit, Booted, Restart, Says, Exact
<1>6. CASE ReadLink
  BY <1>6, ExactLink
<1>7. CASE ReadEntries
  BY <1>7, ExactEntries
<1>8. CASE ReadPage
  <2>1. Sound /\ disk' = disk /\ at = "load"
    BY <1>0, <1>8 DEF ReadPage, Back, Resume, drive, Sound
  <2>2. CASE UNCHANGED <<at, search, cur, chain, goal, answer>>
    BY <2>1, <2>2, ExactStays DEF search
  <2>3. CASE at' \in {"stopped", "prompt"}
    BY <2>3 DEF Exact
  <2>4. CASE Walk("update", job.path)
    BY <2>4, WalkShape DEF Exact
  <2> QED
    BY <1>8, <2>2, <2>3, <2>4 DEF ReadPage, Says
<1>9. CASE ReadCopy
  <2>1. /\ Sound /\ disk' = disk /\ at = "merge" /\ at' = "put"
        /\ UNCHANGED <<folder, found, target, goal, chain, entries>>
    BY <1>0, <1>9 DEF ReadCopy, Back, Resume, drive, Sound, search, reading
  <2> QED
    BY <2>1, ExactStays
<1>10. CASE WriteCopy
  <2>1. /\ Sound /\ disk' = disk /\ at = "put" /\ UNCHANGED <<folder, found, target, entries>>
    BY <1>0, <1>10 DEF WriteCopy, Back, Resume, drive, Sound, search
  <2>2. CASE at' = "merge" /\ UNCHANGED <<cur, chain, goal>>
    BY <2>1, <2>2, ExactStays
  <2>3. CASE Follow(target, "store")
    BY <2>3 DEF Follow, Exact
  <2> QED
    BY <1>10, <2>2, <2>3 DEF WriteCopy
<1>11. CASE WritePage
  <2>1. /\ Sound /\ disk' = disk /\ at = "store" /\ at' \in {"store", "written"}
        /\ UNCHANGED <<folder, found, target, goal, chain, entries>>
    BY <1>0, <1>11 DEF WritePage, Back, Resume, drive, Sound, search
  <2> QED
    BY <2>1, ExactStays
<1>12. CASE AskDrive \/ Commit \/ UNCHANGED vars
  <2>1. /\ disk' = disk /\ UNCHANGED <<at, k, folder, found, target, goal, chain, entries, failed>>
    BY <1>12 DEF AskDrive, Ask, Commit, Issue, Poll, drive, driver, vars, portVars, fileVars, search, reading
  <2>2. Sound
    BY <1>0, <2>1 DEF Sound
  <2> QED
    BY <2>1, <2>2, ExactStays
<1>13. CASE DriveWorks \/ DriveFails
  <2>1. UNCHANGED <<at, k, folder, found, target, goal, chain, entries, failed>>
    BY <1>13 DEF DriveWorks, DriveFails, search, reading
  <2>2. Sound
    BY <1>0, <2>1 DEF Sound
  <2>3. at \in {"list", "search"} => disk' = disk
    BY <1>0, WhoChanges
  <2>4. disk'[FatSector] = disk[FatSector]
    <3>1. CASE disk' = disk
      BY <3>1
    <3>2. CASE disk' # disk
      BY <1>0, <3>2, WhoChanges, Moves DEF Steady
    <3> QED
      BY <3>1, <3>2
  <2> QED
    BY <2>1, <2>2, <2>3, <2>4, ExactStays
<1> QED
  BY <1>1, <1>2, <1>3, <1>4, <1>5, <1>6, <1>7, <1>8, <1>9, <1>10, <1>11, <1>12, <1>13 DEF Next, Runs

LEMMA PlaceStore ==
  ASSUME Steady, ~givenUp, NEW known \in SUBSET Firsts, Tree(known), Move, at = "store",
         UNCHANGED <<folder, found>>
  PROVE  PlaceOn(disk)' = PlaceOn(disk)
<1> DEFINE n == found.n
           c == ChainOn(disk, folder)[n]
<1>1. /\ chain[k] \in ClustersOf(disk, target)
      /\ \A s \in Sectors \ {chain[k]} : disk'[s] = disk[s]
  BY MoveStore
<1>2. /\ Volume(disk) /\ disk'[FatSector] = disk[FatSector] /\ folder \in known /\ folder \in Firsts
      /\ n \in 1 .. Len(ChainOn(disk, folder)) /\ OffFolders(disk, known, target)
  BY Moves DEF Steady, Asked, Tree, Merging, InStore
<1>3. PlaceOn(disk)' = disk'[c][found.slot] /\ PlaceOn(disk) = disk[c][found.slot]
  BY <1>2, ChainSame DEF PlaceOn
<1>4. c \in ClustersOf(disk, folder)
  BY <1>2 DEF ClustersOf
<1>5. c \in Sectors /\ c # chain[k]
  BY <1>1, <1>2, <1>4, FolderClusters DEF OffFolders
<1> QED
  BY <1>1, <1>3, <1>5

(* A sector of the file that was written is not written again.             *)
LEMMA PiecesKept ==
  ASSUME Steady, ~givenUp, NEW known \in SUBSET Firsts, Tree(known), Move, at = "store"
  PROVE  \A n \in 1 .. k - 1 : disk'[chain[n]] = disk[chain[n]]
<1> TAKE n \in 1 .. k - 1
<1>1. /\ k \in 1 .. Len(ChainOn(disk, target)) /\ chain[k] = ChainOn(disk, target)[k]
      /\ \A s \in Sectors \ {chain[k]} : disk'[s] = disk[s]
  BY MoveStore
<1>2. /\ Volume(disk) /\ goal = "store" /\ k \in 1 .. Len(chain) /\ chain \in Seq(Clusters)
      /\ target \in Firsts /\ Straight(disk, target)
  BY DEF Steady, Asked, Shape, Tree, Merging, InStore
<1>3. Leads(disk, target, chain)
  BY <1>2 DEF Steady, Followed, Owner
<1>4. n \in 1 .. Len(chain) /\ n # k
  BY <1>2
<1>5. chain[n] = ChainOn(disk, target)[n] /\ n \in 1 .. Len(ChainOn(disk, target))
  BY <1>2, <1>3, <1>4, Beginning
<1>6. chain[n] # chain[k]
  BY <1>1, <1>2, <1>4, <1>5 DEF Straight
<1>7. chain[n] \in Sectors
  BY <1>2, <1>4, FilesAssumption
<1> QED
  BY <1>1, <1>6, <1>7

(* A write that was reported done.                                         *)
LEMMA WroteBack ==
  ASSUME Steady, NEW step, Back(step), Sound'
  PROVE  /\ Sound /\ at = step /\ Asks /\ pc # "idle" /\ pc' = "idle"
         /\ req.op = "write" => mem[req.buf] = disk[req.lba]
         /\ disk' = disk /\ mem' = mem /\ job' = job
<1>1. at = step /\ Resume /\ ~failed /\ ok /\ ~givenUp /\ job' = job
  BY DEF Back, Resume, Sound
<1>2. pc = "returned" /\ disk' = disk /\ mem' = mem /\ pc' = "idle"
  BY <1>1 DEF Resume, Returned, drive
<1>3. Done(req)
  BY <1>1, <1>2 DEF Steady, IInv, PortInv
<1> QED
  BY <1>1, <1>2, <1>3 DEF Steady, Asked, Done, Sound

(* A step that writes nothing and goes nowhere.                            *)
LEMMA LandStays ==
  ASSUME Landing, Sound, UNCHANGED <<job, found, folder, chain, k, goal, at, disk>>,
         at = "store" /\ pc' # "idle" =>
           (pc # "idle" /\ mem'[OutBuffer] = mem[OutBuffer]) \/ mem'[OutBuffer] = Piece(k)
  PROVE  Landing'
<1>1. PlaceOn(disk)' = PlaceOn(disk) /\ (InStore' <=> InStore)
  BY DEF PlaceOn, InStore
<1>2. \A n : Piece(n)' = Piece(n)
  BY DEF Piece
<1>3. at = "store" /\ pc' # "idle" => mem'[OutBuffer] = Piece(k)'
  BY <1>2 DEF Landing
<1>4. at = "store" => \A n \in 1 .. k - 1 : disk'[chain[n]] = Piece(n)'
  BY <1>2 DEF Landing
<1> QED
  BY <1>1, <1>3, <1>4 DEF Landing

LEMMA LandCopy ==
  ASSUME Steady, Exact, Landing, NEW known \in SUBSET Firsts, Tree(known), WriteCopy, Sound'
  PROVE  Landing'
<1>1. /\ Sound /\ at = "put" /\ Asks /\ pc # "idle" /\ pc' = "idle" /\ ~givenUp
      /\ req.op = "write" => mem[req.buf] = disk[req.lba]
      /\ disk' = disk /\ UNCHANGED <<folder, found>>
  BY WroteBack DEF WriteCopy, Sound, search
<1>2. mem[DirBuffer] = disk[chain[k]] /\ mem[DirBuffer] \in {Merged(Zero), Merged(disk[chain[k]])}
  <2>1. Copied
    BY <1>1 DEF Tree, Merging, InMerge
  <2> QED
    BY <1>1, <2>1 DEF Asks, Request, Copied
<1>3. /\ Chosen /\ found.slot \in Slots /\ disk[chain[k]] \in Directories /\ folder \in Firsts
      /\ chain[k] = ChainOn(disk, folder)[k] /\ found.n \in 1 .. Len(ChainOn(disk, folder))
      /\ k \in 1 .. Len(ChainOn(disk, folder))
  BY <1>1, Changed DEF Tree, Merging, InMerge
<1>4. k = found.n => PlaceOn(disk) = found.entry
  <2>1. k = found.n => disk[chain[k]][found.slot] = found.entry
    BY <1>2, <1>3, MergedIs
  <2> QED
    BY <1>3, <2>1 DEF PlaceOn
<1>5. k >= found.n => PlaceOn(disk) = found.entry
  BY <1>1, <1>3, <1>4 DEF Landing
<1>6. PlaceOn(disk)' = PlaceOn(disk)
  BY <1>1 DEF PlaceOn
<1>7. CASE k < Len(chain) /\ k' = k + 1 /\ at' = "merge"
  <2>1. k' > found.n => k >= found.n
    BY <1>3, <1>7
  <2> QED
    BY <1>1, <1>5, <1>6, <1>7, <2>1 DEF Landing, InStore
<1>8. CASE k >= Len(chain) /\ Follow(target, "store")
  <2>1. Volume(disk) /\ goal = "merge" /\ IsChain(disk, folder, chain)
    BY <1>1 DEF Steady, Asked, Shape, Exact, Owner
  <2>2. chain = ChainOn(disk, folder)
    BY <1>3, <2>1, ChainIs, ChainOnly
  <2>3. k >= found.n
    BY <1>3, <1>8, <2>2
  <2> QED
    BY <1>1, <1>5, <1>6, <1>8, <2>3 DEF Landing, Follow
<1> QED
  BY <1>3, <1>7, <1>8 DEF WriteCopy, Steady, Shape

LEMMA LandPage ==
  ASSUME Steady, Landing, WritePage, Sound'
  PROVE  /\ Landing' /\ PlaceOn(disk) = found.entry /\ k \in Nat
         /\ \A n \in 1 .. k : disk[chain[n]] = Piece(n)
<1>1. /\ Sound /\ at = "store" /\ Asks /\ pc # "idle" /\ pc' = "idle"
      /\ req.op = "write" => mem[req.buf] = disk[req.lba]
      /\ disk' = disk /\ job' = job /\ UNCHANGED <<folder, found, chain, goal>>
      /\ k' = k + 1 /\ at' \in {"store", "written"} /\ k \in 1 .. Len(chain)
  BY WroteBack DEF WritePage, search, Steady, Shape
<1>2. disk[chain[k]] = Piece(k)
  BY <1>1 DEF Asks, Request, Landing
<1>3. \A n \in 1 .. k : disk[chain[n]] = Piece(n)
  <2>1. \A n \in 1 .. k - 1 : disk[chain[n]] = Piece(n)
    BY <1>1 DEF Landing
  <2>2. \A n \in 1 .. k : n \in 1 .. k - 1 \/ n = k
    BY <1>1
  <2> QED
    BY <1>2, <2>1, <2>2
<1>4. PlaceOn(disk) = found.entry /\ PlaceOn(disk)' = PlaceOn(disk)
  BY <1>1 DEF Landing, InStore, PlaceOn
<1>5. \A n : Piece(n)' = Piece(n)
  BY <1>1 DEF Piece
<1>6. k' - 1 = k
  BY <1>1
<1>7. \A n \in 1 .. k' - 1 : disk'[chain'[n]] = Piece(n)'
  BY <1>1, <1>3, <1>5, <1>6
<1> QED
  BY <1>1, <1>3, <1>4, <1>7 DEF Landing

LEMMA LandNext ==
  ASSUME Steady, TreeInv, Exact, Landing, [Next]_vars
  PROVE  Landing'
<1> SUFFICES ASSUME Sound' PROVE Landing'
  BY DEF Landing
<1>0. ~givenUp /\ ~failed'
  BY GivesUp DEF Sound
<1>00. PICK known \in SUBSET Firsts : Tree(known)
  BY <1>0 DEF TreeInv
<1>1. CASE \E op, path, text : Type(op, path, text)
  <2>1. CASE \E who, path : Walk(who, path)
    BY <2>1, WalkShape DEF Landing, InStore
  <2>2. CASE at' = "stopped"
    BY <2>2 DEF Landing, InStore
  <2> QED
    BY <1>1, <2>1, <2>2 DEF Type
<1>2. CASE Enter \/ FindFile \/ FindTarget
  BY <1>2 DEF Enter, FindFile, FindTarget, Follow, Landing, InStore
<1>3. CASE FindNothing
  <2>1. CASE Walk("png", job.path)
    BY <2>1, WalkShape DEF Landing, InStore
  <2>2. CASE at' \in {"prompt", "written"}
    BY <2>2 DEF Landing, InStore
  <2> QED
    BY <1>3, <2>1, <2>2 DEF FindNothing, Says
<1>4. CASE List \/ Deinit \/ Booted \/ Restart \/ ReadEntries
  <2>1. at' \in {"prompt", "stopped", "boot", "list", "search"}
    BY <1>4 DEF List, Deinit, Booted, Restart, Says, ReadEntries
  <2> QED
    BY <2>1 DEF Landing, InStore
<1>5. CASE ReadLink
  <2>1. /\ at = "chain" /\ Sound /\ disk' = disk /\ job' = job /\ at' \in {"chain", goal} /\ k' = 1
        /\ pc' = "idle" /\ UNCHANGED <<folder, found, goal>>
        /\ goal \in {"list", "load", "merge", "store"}
    BY <1>5, WroteBack DEF ReadLink, search, Steady, Shape
  <2>2. PlaceOn(disk)' = PlaceOn(disk) /\ (InStore' => InStore)
    BY <2>1 DEF PlaceOn, InStore
  <2>3. at' \in {"merge", "put"} => ~(k' > found'.n)
    <3>1. at' \in {"merge", "put"} => InMerge
      BY <2>1 DEF InMerge
    <3>2. at' \in {"merge", "put"} => found.n \in Nat /\ found.n >= 1
      BY <1>00, <3>1 DEF Tree, Merging
    <3> QED
      BY <2>1, <3>2
  <2> QED
    BY <2>1, <2>2, <2>3 DEF Landing
<1>6. CASE ReadPage
  <2>1. at = "load"
    BY <1>6 DEF ReadPage, Back
  <2>2. CASE UNCHANGED <<at, search, cur, chain, goal, answer>>
    BY <2>1, <2>2 DEF Landing, InStore
  <2>3. CASE at' \in {"stopped", "prompt"}
    BY <2>3 DEF Landing, InStore
  <2>4. CASE Walk("update", job.path)
    BY <2>4, WalkShape DEF Landing, InStore
  <2> QED
    BY <1>6, <2>2, <2>3, <2>4 DEF ReadPage, Says
<1>7. CASE ReadCopy
  <2>1. /\ at = "merge" /\ at' = "put" /\ Sound /\ disk' = disk /\ UNCHANGED <<folder, found, k>>
    BY <1>7, WroteBack DEF ReadCopy, search, reading
  <2>2. PlaceOn(disk)' = PlaceOn(disk)
    BY <2>1 DEF PlaceOn
  <2> QED
    BY <2>1, <2>2 DEF Landing, InStore
<1>8. CASE WriteCopy
  BY <1>00, <1>8, LandCopy
<1>9. CASE WritePage
  BY <1>9, LandPage
<1>10. CASE AskDrive
  <2>1. UNCHANGED <<job, found, folder, chain, k, goal, at, disk, failed>>
    BY <1>10 DEF AskDrive, Ask, drive, fileVars, search, reading
  <2>2. ASSUME at = "store" PROVE mem'[OutBuffer] = Piece(k)
    <3>1. Ask(Request("write", chain[k], OutBuffer), Piece(k))
      BY <1>10, <2>2 DEF AskDrive
    <3>2. mem' = [mem EXCEPT ![OutBuffer] = Piece(k)]
      BY <3>1 DEF Ask, Request
    <3>3. mem = [b \in Buffers |-> mem[b]]
      BY DEF Steady, IInv, PortInv
    <3> HIDE DEF OutBuffer
    <3> QED
      BY <3>2, <3>3, Places
  <2>3. Sound
    BY <1>0, <2>1 DEF Sound
  <2> QED
    BY <2>1, <2>2, <2>3, LandStays
<1>11. CASE Commit \/ UNCHANGED vars
  <2>1. /\ UNCHANGED <<job, found, folder, chain, k, goal, at, disk, failed, mem>>
        /\ pc' # "idle" => pc # "idle"
    BY <1>11 DEF Commit, Issue, Poll, drive, driver, vars, portVars, fileVars, search, reading
  <2>2. Sound
    BY <1>0, <2>1 DEF Sound
  <2> QED
    BY <2>1, <2>2, LandStays
<1>12. CASE DriveWorks \/ DriveFails
  <2>1. UNCHANGED <<job, found, folder, chain, k, goal, at, failed, pc, search, reading>>
    BY <1>12 DEF DriveWorks, DriveFails, Fetch, Move, Complete, Fail, driver, search, reading
  <2>2. Sound
    BY <1>0, <2>1 DEF Sound
  <2>3. CASE disk' = disk
    <3>1. ASSUME at = "store" /\ pc # "idle" PROVE mem' = mem
      <4>1. CASE Move
        BY <1>0, <1>00, <3>1, <4>1, MoveStore
      <4> QED
        BY <1>12, <4>1 DEF DriveWorks, DriveFails, Fetch, Complete, Fail
    <3> QED
      BY <2>1, <2>2, <2>3, <3>1, LandStays
  <2>4. CASE disk' # disk /\ at = "put"
    <3>1. /\ k = found.n => PlaceOn(disk)' = found.entry
          /\ k # found.n => PlaceOn(disk)' = PlaceOn(disk)
      BY <1>0, <1>00, <2>1, <2>4, WhoChanges, PlacePut
    <3> QED
      BY <2>1, <2>2, <2>4, <3>1 DEF Landing, InStore
  <2>5. CASE disk' # disk /\ at = "store"
    <3>1. /\ PlaceOn(disk)' = PlaceOn(disk) /\ mem' = mem
          /\ \A n \in 1 .. k - 1 : disk'[chain[n]] = disk[chain[n]]
      BY <1>0, <1>00, <2>1, <2>5, WhoChanges, PlaceStore, PiecesKept, MoveStore
    <3>2. \A n : Piece(n)' = Piece(n)
      BY <2>1 DEF Piece
    <3>3. /\ PlaceOn(disk) = found.entry /\ \A n \in 1 .. k - 1 : disk[chain[n]] = Piece(n)
          /\ pc # "idle" => mem[OutBuffer] = Piece(k)
      BY <2>2, <2>5 DEF Landing, InStore
    <3> QED
      BY <2>1, <2>5, <3>1, <3>2, <3>3 DEF Landing
  <2> QED
    BY <1>0, <2>3, <2>4, <2>5, WhoChanges
<1> QED
  BY <1>1, <1>2, <1>3, <1>4, <1>5, <1>6, <1>7, <1>8, <1>9, <1>10, <1>11, <1>12 DEF Next, Runs

LEMMA BlindNext ==
  ASSUME BlindFails, [Next]_vars
  PROVE  BlindFails'
<1>1. CASE \E op, path, text : Type(op, path, text)
  BY <1>1 DEF Type, BlindFails
<1>2. CASE Restart
  BY <1>2 DEF Restart, BlindFails
<1>3. CASE ReadCopy
  BY <1>3 DEF ReadCopy, Back, BlindFails
<1>4. CASE Booted \/ ReadLink \/ ReadEntries \/ ReadPage \/ WriteCopy \/ WritePage
  BY <1>4 DEF Booted, ReadLink, ReadEntries, ReadPage, WriteCopy, WritePage, Back, BlindFails
<1>5. CASE Enter \/ List \/ FindFile \/ FindNothing \/ FindTarget \/ Deinit
  BY <1>5 DEF Enter, List, FindFile, FindNothing, FindTarget, Deinit, Searching, BlindFails
<1>6. CASE AskDrive \/ Commit \/ DriveWorks \/ DriveFails \/ UNCHANGED vars
  BY <1>6 DEF AskDrive, Commit, DriveWorks, DriveFails, vars, fileVars, BlindFails
<1> QED
  BY <1>1, <1>2, <1>3, <1>4, <1>5, <1>6 DEF Next, Runs

(* The walk of a write that finds nothing to write has nothing to write.   *)
LEMMA NoneWritable ==
  ASSUME Steady, Sound, NEW known \in SUBSET Firsts, Tree(known), Exact, FindNothing, walk = "update",
         Whole(job.path), FileInLowerCase(job.path)
  PROVE  Writable(job.path) = {}
<1> DEFINE v == disk
           path == job.path
           n == i
           first == folder
<1> SUFFICES ASSUME NEW f \in Writable(job.path) PROVE FALSE
  OBVIOUS
<1>1. at = "search" /\ Folders = {} /\ Matching = {}
  BY DEF FindNothing, Searching
<1>2. /\ Volume(v) /\ Sane(v) /\ path \in Seq(Component) /\ n \in Nat \ {0} /\ Way = path
  BY DEF Steady, Shape, Asked, Sound, Tree, Sane, Way, Whole
<1>3. /\ first \in FoldersOn(v, path, n - 1) /\ entries = EntriesOn(v, first)
  BY <1>1, <1>2 DEF Tree, Walking, InWalk, Depth, Whole, Exact
<1>4. /\ f \in FilesOn(v, path) /\ f.place.entry.first # 0 /\ ~f.place.entry.readOnly
      /\ \A l \in 1 .. Len(path) : \A q \in UNION {EntriesOn(v, g) : g \in FoldersOn(v, path, l - 1)} :
           q.entry.name = path[l].name => ~q.entry.readOnly
  BY DEF Writable, FilesAt, FoldersAt, In
<1>5. \A l \in 1 .. Len(path) : path[l].upper => FoldersOn(v, path, l) # {}
  BY DEF FileInLowerCase, FoldersAt
<1>6. /\ \A q \in EntriesOn(v, first) : n <= Len(path) /\ q.entry.name = path[n].name /\ q.entry.folder
                                     => q.entry.readOnly
      /\ \A q \in EntriesOn(v, first) : n <= Len(path) /\ q.entry.name = path[n].name /\ ~q.entry.folder
                                     => path[n].upper \/ q.entry.readOnly
  BY <1>1, <1>3 DEF Folders, Matching, Here
<1> HIDE DEF v, path, n, first
<1>7. PICK m \in 1 .. Len(path) : FileAt(v, path, f, m)
  BY <1>2, <1>4, FilesAre
<1>8. \/ n = m /\ first = f.folder
      \/ n < m /\ \E q \in EntriesOn(v, first) : q.entry.folder /\ q.entry.name = path[n].name
  BY <1>2, <1>3, <1>7, FileAhead
<1>9. n <= Len(path) /\ n \in 1 .. Len(path) /\ m \in Nat
  BY <1>2, <1>7, <1>8
<1>10. CASE n = m /\ first = f.folder
  <2>1. /\ f.place \in EntriesOn(v, first) /\ f.place.entry.name = path[n].name /\ ~f.place.entry.folder
    BY <1>7, <1>10 DEF FileAt
  <2>2. FoldersOn(v, path, m) = {}
    BY <1>2, <1>7, <1>9, FileEnds
  <2>3. ~path[n].upper
    BY <1>5, <1>9, <1>10, <2>2
  <2> QED
    BY <1>4, <1>6, <1>9, <2>1, <2>3
<1>11. CASE \E q \in EntriesOn(v, first) : q.entry.folder /\ q.entry.name = path[n].name
  <2>1. PICK q \in EntriesOn(v, first) : q.entry.folder /\ q.entry.name = path[n].name
    BY <1>11
  <2>2. q \in UNION {EntriesOn(v, g) : g \in FoldersOn(v, path, n - 1)}
    BY <1>3, <2>1
  <2>3. ~q.entry.readOnly
    BY <1>4, <1>9, <2>1, <2>2
  <2> QED
    BY <1>6, <1>9, <2>1, <2>3
<1> QED
  BY <1>8, <1>10, <1>11

(* The last sector is written, and all is on the disk.                     *)
LEMMA AllWritten ==
  ASSUME Steady, NEW known \in SUBSET Firsts, Tree(known), Exact, BlindFails, Landing,
         WritePage, Sound', k = Len(chain), Whole(job.path), NEW f \in FilesAt(job.path)
  PROVE  Written(f)
<1>1. /\ Sound /\ at = "store" /\ ~blind /\ ~givenUp
  BY WroteBack DEF WritePage, BlindFails, Sound
<1>2. PlaceOn(disk) = found.entry /\ \A n \in 1 .. k : disk[chain[n]] = Piece(n)
  BY LandPage
<1>3. /\ Volume(disk) /\ Sane(disk) /\ job.path \in Seq(Component) /\ Way = job.path
      /\ goal = "store" /\ target \in Firsts /\ folder \in Firsts
  BY <1>1 DEF Steady, Shape, Asked, Tree, Sane, Way, Whole
<1>4. /\ Chosen /\ target = found.entry.first
      /\ \E g \in FilesOn(disk, Way) : g.folder = folder /\ SamePlace(g.place, found)
  BY <1>1 DEF Tree, Merging, InStore
<1>5. f.folder = folder /\ f \in FilesOn(disk, job.path) /\ SamePlace(f.place, found)
  <2>1. PICK g \in FilesOn(disk, Way) : g.folder = folder /\ SamePlace(g.place, found)
    BY <1>4
  <2>2. f \in FilesOn(disk, job.path)
    BY DEF FilesAt
  <2>3. f = g
    BY <1>3, <2>1, <2>2, OneFile
  <2> QED
    BY <2>1, <2>2, <2>3
<1>6. f.place.entry = found.entry
  <2>1. PICK m \in 1 .. Len(job.path) : FileAt(disk, job.path, f, m)
    BY <1>3, <1>5, FilesAre
  <2>2. IsEntryOn(disk, folder, f.place)
    BY <1>5, <2>1, EntriesAre DEF FileAt
  <2>3. f.place.entry = disk[ChainOn(disk, folder)[f.place.n]][f.place.slot]
    BY <2>2 DEF IsEntryOn, Place
  <2> QED
    BY <1>2, <1>5, <2>3 DEF PlaceOn, SamePlace
<1>7. chain = ChainOn(disk, target)
  <2>1. IsChain(disk, target, chain)
    BY <1>1, <1>3 DEF Exact, Owner
  <2> QED
    BY <1>3, <2>1, ChainIs, ChainOnly
<1>8. \A n \in 1 .. Len(chain) : disk[chain[n]] = IF n > Len(job.text) THEN Zero ELSE job.text[n]
  <2>1. Len(job.text) \in Nat
    BY DEF Steady, Shape
  <2> QED
    BY <1>2, <2>1 DEF Piece
<1> QED
  BY <1>4, <1>6, <1>7, <1>8 DEF Written, ChainOf, Chosen

(* What the volume says of the command's path, if both stay.               *)
LEMMA LandsAgain ==
  ASSUME disk' = disk, job' = job, NEW f
  PROVE  /\ Whole(job.path)' <=> Whole(job.path)
         /\ FileInLowerCase(job.path)' <=> FileInLowerCase(job.path)
         /\ Writable(job.path)' = Writable(job.path)
         /\ Written(f)' <=> Written(f)
BY DEF Whole, FileInLowerCase, Writable, Written, FoldersAt, FilesAt, In, ChainOf

LEMMA LandedNext ==
  ASSUME Steady, TreeInv, Exact, BlindFails, Landing, WriteLands, [Next]_vars
  PROVE  WriteLands'
<1> SUFFICES ASSUME at' = "written", Sound', Whole(job.path)', FileInLowerCase(job.path)',
                    NEW f \in Writable(job.path)'
             PROVE  Written(f)'
  BY DEF WriteLands
<1>0. ~givenUp /\ ~failed'
  BY GivesUp DEF Sound
<1>1. PICK known \in SUBSET Firsts : Tree(known)
  BY <1>0 DEF TreeInv
<1>2. CASE FindNothing
  <2>1. walk = "update" /\ disk' = disk /\ job' = job /\ Sound
    BY <1>0, <1>2, WalkShape DEF FindNothing, Says, Searching, portVars, drive, Sound
  <2> QED
    BY <1>1, <1>2, <2>1, LandsAgain, NoneWritable
<1>3. CASE WritePage
  <2>1. disk' = disk /\ job' = job /\ k = Len(chain)
    BY <1>3 DEF WritePage, Back, Resume, drive
  <2>2. f \in FilesAt(job.path) /\ Whole(job.path)
    BY <2>1, LandsAgain DEF Writable
  <2>3. Written(f)
    BY <1>1, <1>3, <2>1, <2>2, AllWritten
  <2> QED
    BY <2>1, <2>3, LandsAgain
<1>4. CASE at = "written" /\ job' = job /\ failed' = failed
  <2>1. disk' = disk /\ Sound
    BY <1>0, <1>4, WhoChanges DEF Sound
  <2> QED
    BY <1>4, <2>1, LandsAgain DEF WriteLands
<1>5. CASE AskDrive \/ Commit \/ DriveWorks \/ DriveFails \/ UNCHANGED vars
  <2>1. at = "written" /\ job' = job /\ failed' = failed
    BY <1>5 DEF AskDrive, Commit, DriveWorks, DriveFails, vars, fileVars
  <2> QED
    BY <1>4, <2>1
<1>6. CASE \E op, path, text : Type(op, path, text)
  BY <1>6, WalkShape DEF Type
<1>7. CASE \/ Booted \/ List \/ Deinit \/ Restart \/ ReadEntries \/ Enter \/ FindFile \/ FindTarget
           \/ ReadCopy
  BY <1>7 DEF Booted, List, Deinit, Restart, ReadEntries, Enter, FindFile, FindTarget, ReadCopy, Says, Follow
<1>8. CASE ReadLink
  BY <1>8 DEF ReadLink, Steady, Shape, Back
<1>9. CASE ReadPage
  BY <1>9, WalkShape DEF ReadPage, Back, Says
<1>10. CASE WriteCopy
  BY <1>10 DEF WriteCopy, Follow
<1> QED
  BY <1>2, <1>3, <1>5, <1>6, <1>7, <1>8, <1>9, <1>10 DEF Next, Runs

LandInv == DiskInv /\ Exact /\ BlindFails /\ Landing /\ WriteLands

LEMMA InitLand == Init => LandInv
<1>1. Init => Exact /\ BlindFails /\ Landing /\ WriteLands
  BY DEF Init, Exact, BlindFails, Landing, InStore, WriteLands
<1> QED
  BY <1>1, InitDisk DEF LandInv

LEMMA NextLand == LandInv /\ [Next]_vars => LandInv'
<1> SUFFICES ASSUME LandInv, [Next]_vars PROVE LandInv'
  OBVIOUS
<1>1. DiskInv' /\ Steady /\ TreeInv
  BY NextDisk DEF LandInv, DiskInv, WalkInv, Steady
<1>2. Exact' /\ BlindFails' /\ Landing' /\ WriteLands'
  BY <1>1, ExactNext, BlindNext, LandNext, LandedNext DEF LandInv
<1> QED
  BY <1>1, <1>2 DEF LandInv

(* A write that reports no error has written its text, as far as the       *)
(* file's clusters go, and its size (TextFile.swift 17-23,                 *)
(* Partition.swift 110-149).                                               *)
THEOREM WritesLand == Spec => []WriteLands
<1>1. LandInv => WriteLands
  BY DEF LandInv
<1> QED
  BY <1>1, InitLand, NextLand, PTL DEF Spec
=============================================================================
