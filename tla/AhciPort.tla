------------------------------ MODULE AhciPort ------------------------------
(***************************************************************************)
(* One SATA drive behind an AHCI port (src/Kernel/Modules/AHCI.swift): the *)
(* driver fills the command table of its only slot, sets the slot's bit in *)
(* the port's ci register and looks at it after every interrupt, at most   *)
(* MaxSpin times.  The drive answers when it likes, reports an error, or   *)
(* never answers.                                                          *)
(*                                                                         *)
(* Three tests of the driver compare a masked register with 1 and can only *)
(* ever be false: a busy port is not waited for and the error bit of the   *)
(* port's interrupt status is not seen.  The interrupt of the port sets    *)
(* Done, which nobody reads.  A command is one sector, the length the      *)
(* table's only entry has (dbc = 0x1ff).                                   *)
(***************************************************************************)
EXTENDS Integers

CONSTANTS
  Sectors,   \* the sectors of the drive, as numbers
  Buffers,   \* the buffers in memory, as numbers
  Contents,  \* what a sector or a buffer may hold
  Zero,      \* what a new buffer holds
  MaxSpin    \* the interrupts waited for, 400

ASSUME PortAssumption ==
  /\ Sectors # {} /\ Buffers # {}
  /\ Zero \in Contents /\ MaxSpin \in Nat \ {0}

VARIABLES
  disk,      \* the sectors
  mem,       \* the buffers
  table,     \* command header and table of the slot
  ci, err,   \* the slot's bit in PxCI, the error bit of PxTFD
  device,    \* what the drive does: "ready", "busy", "moved" or "halted"
  fetched,   \* the command the drive works on
  req,       \* the request the driver works on
  pc,        \* where the driver is in read(), write(), CommitCommand()
  spin, ok,
  givenUp    \* a command was given up while the drive still had it

driver   == <<table, req, pc, spin, ok, givenUp>>
drive    == <<disk, ci, err, device, fetched>>
portVars == <<mem, driver, drive>>

Request(o, s, b) == [op |-> o, lba |-> s, buf |-> b]
Requests == [op : {"read", "write", "standby"}, lba : Sectors, buf : Buffers]

Asleep == CHOOSE r \in Requests : r.op = "standby"

PowerOn ==
  /\ mem = [b \in Buffers |-> Zero]
  /\ req = Asleep /\ table = Asleep /\ fetched = Asleep
  /\ ci = FALSE /\ err = FALSE /\ device = "ready"
  /\ pc = "idle" /\ spin = 0 /\ ok = TRUE /\ givenUp = FALSE

(* Switched off and on again: the disk stays.                              *)
PowerCycle ==
  /\ mem' = [b \in Buffers |-> Zero]
  /\ req' = Asleep /\ table' = Asleep /\ fetched' = Asleep
  /\ ci' = FALSE /\ err' = FALSE /\ device' = "ready"
  /\ pc' = "idle" /\ spin' = 0 /\ ok' = TRUE /\ givenUp' = FALSE
  /\ UNCHANGED disk

----------------------------------------------------------------------------
(* The driver.                                                             *)

(* read(), write() or PutDriveToSleep() is called: the caller's buffer is  *)
(* ready, and the driver writes the command over the one before.  Going to *)
(* sleep leaves the buffer's address in the table as it is.                *)
Ask(r, content) ==
  /\ pc = "idle" /\ r \in Requests
  /\ mem' = [mem EXCEPT ![r.buf] = content]
  /\ req' = r
  /\ table' = IF r.op = "standby" THEN [r EXCEPT !.buf = table.buf] ELSE r
  /\ pc' = "issue"
  /\ UNCHANGED <<spin, ok, givenUp, drive>>

Issue ==
  /\ pc = "issue"
  /\ ci' = TRUE /\ spin' = 0
  /\ pc' = "poll"
  /\ UNCHANGED <<mem, table, req, ok, givenUp, disk, err, device, fetched>>

(* The slot's bit in ci is 0 again.                                        *)
Cleared == ~ci

(* MUTANT: this test, too, compares a masked register with a wrong value.  *)
ErrorNeverSeen == TRUE

(* tfd & (1 << 0)                                                          *)
NoError == ~err

(* MUTANT: the interrupts are not counted.                                 *)
NotCounted == spin

Counted == spin + 1

(* No more interrupts are waited for.                                      *)
Tired == Counted = MaxSpin

(* An interrupt ends hlt().                                                *)
Poll ==
  /\ pc = "poll"
  /\ \/ /\ Cleared
        /\ ok' = NoError /\ pc' = "returned"
        /\ UNCHANGED <<spin, givenUp>>
     \/ /\ ~Cleared /\ ~Tired
        /\ spin' = Counted
        /\ UNCHANGED <<ok, pc, givenUp>>
     \/ /\ ~Cleared /\ Tired
        /\ ok' = FALSE /\ givenUp' = TRUE /\ pc' = "returned"
        /\ UNCHANGED spin
  /\ UNCHANGED <<mem, table, req, drive>>

(* The caller goes on.                                                     *)
Returned == pc = "returned" /\ pc' = "idle"

Resume ==
  /\ Returned
  /\ UNCHANGED <<mem, table, req, spin, ok, givenUp, drive>>

----------------------------------------------------------------------------
(* The drive.                                                              *)

Fetch ==
  /\ ci /\ device = "ready"
  /\ device' = "busy" /\ fetched' = table
  /\ UNCHANGED <<mem, driver, disk, ci, err>>

(* It may read the buffer's address with the command or when it needs it.  *)
Move ==
  /\ device = "busy"
  /\ \E b \in {fetched.buf, table.buf} :
       /\ mem' = IF fetched.op = "read"
                 THEN [mem EXCEPT ![b] = disk[fetched.lba]] ELSE mem
       /\ disk' = IF fetched.op = "write"
                  THEN [disk EXCEPT ![fetched.lba] = mem[b]] ELSE disk
  /\ device' = "moved"
  /\ UNCHANGED <<driver, ci, err, fetched>>

Complete ==
  /\ device = "moved"
  /\ ci' = FALSE /\ err' = FALSE /\ device' = "ready"
  /\ UNCHANGED <<mem, driver, disk, fetched>>

(* After an error a port stops until it is started again, with the slot's  *)
(* bit set; some clear the bit and go on.                                  *)
Fail ==
  /\ device \in {"busy", "moved"}
  /\ err' = TRUE
  /\ \/ ci' = FALSE /\ device' = "ready"
     \/ UNCHANGED ci /\ device' = "halted"
  /\ UNCHANGED <<mem, driver, disk, fetched>>

----------------------------------------------------------------------------
(* The types of the variables.                                             *)
PortTypeOK ==
  /\ disk \in [Sectors -> Contents] /\ mem \in [Buffers -> Contents]
  /\ table \in Requests /\ fetched \in Requests /\ req \in Requests
  /\ ci \in BOOLEAN /\ err \in BOOLEAN /\ ok \in BOOLEAN /\ givenUp \in BOOLEAN
  /\ device \in {"ready", "busy", "moved", "halted"}
  /\ pc \in {"idle", "issue", "poll", "returned"}
  /\ spin \in 0 .. MaxSpin - 1

Done(r) == r.op \in {"read", "write"} => mem[r.buf] = disk[r.lba]

(* Until a command has been given up, a command that is reported done is   *)
(* done: what was read is in the buffer, what was to be written is on the  *)
(* disk.  Afterwards the late end of the old command can be taken for the  *)
(* end of a new one (AHCI.swift 181-218).                                  *)
SuccessIsReal == pc = "returned" /\ ok /\ ~givenUp => Done(req)
=============================================================================
