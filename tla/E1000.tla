-------------------------------- MODULE E1000 --------------------------------
(***************************************************************************)
(* The network card's driver (Modules/E1000.swift) over the card's two     *)
(* rings, and what the protocol code of the Networking framework asks of   *)
(* it.  The card works on its own between any two steps of the driver: it  *)
(* sends from the slots [txHead, txTail), fills the slots [rxHead, rxTail) *)
(* and raises causes that a read of ICAUSE returns and clears.             *)
(*                                                                         *)
(* A descriptor is what it points to: 0 for memory nobody has written, the *)
(* number of a packet otherwise.  Memory is counted in cells of one buffer *)
(* (2048 bytes) from the start of the receive buffer.  RXBuffer and        *)
(* TXBuffer are allocated with room for one buffer (137-138), each on a    *)
(* page of its own, pages of memory being handed out in order              *)
(* (KernelHeap), while slot i of a ring uses the i-th buffer after it      *)
(* (210, 317): receive slot i + PageCells is transmit slot i, and the      *)
(* later slots of both lie in whatever was allocated next.                 *)
(***************************************************************************)
EXTENDS Integers, Sequences

CONSTANTS
  TXBufferNum, RXBufferNum,  \* the slots of each ring, 8 in the code
  PageCells,                 \* buffers to a page, 2 in the code
  MaxSends,                  \* bound: packets handed to sendPacket
  MaxFrames                  \* bound: frames arriving from the network

ASSUME E1000Assumption ==
  /\ TXBufferNum \in Nat /\ TXBufferNum >= 3
  /\ RXBufferNum \in Nat /\ RXBufferNum >= 2
  /\ PageCells \in Nat \ {0} /\ MaxSends \in Nat /\ MaxFrames \in Nat

VARIABLES
  pc,                \* where init, or the sendPacket that follows it, is
  enabled,           \* RXCTRL and TXCTRL have their ENABLE bit
  unmasked,          \* IMASK is set and the handler registered
  cause,             \* ICAUSE
  txHead, txTail,    \* TXDESCHEAD, TXDESCTAIL
  rxHead, rxTail,    \* RXDESCHEAD, RXDESCTAIL
  txCur, rxCur,      \* TXCurBuffer, RXCurBuffer
  txDesc,            \* what each transmit descriptor points to
  mem,               \* what each cell of memory holds
  isr, isrHead,      \* where InterruptHandler is, its copy of RXDESCHEAD
  accepted,          \* packets sendPacket took
  sent,              \* the packets on the wire: the number and the contents
  stale,             \* the slots sent from before the driver filled them
  arrived, consumed, \* frames the card stored, frames the handler took
  raced              \* a slot was filled while the card might be sending it

setup == <<enabled, unmasked>>
tx    == <<txHead, txTail, txCur, txDesc, accepted, sent, stale, raced>>
rx    == <<rxHead, rxTail, rxCur, arrived, consumed>>
int   == <<cause, isr, isrHead>>
vars  == <<pc, setup, tx, rx, int, mem>>

TxSlots == 0 .. TXBufferNum - 1
RxSlots == 0 .. RXBufferNum - 1

(* (i + 1) % n, (i + n - 1) % n                                            *)
Succ(i, n) == IF i + 1 = n THEN 0 ELSE i + 1
Pred(i, n) == IF i = 0 THEN n - 1 ELSE i - 1

(* The slots from a up to b.                                               *)
Dist(a, b, n) == IF a <= b THEN b - a ELSE b + n - a

(* MUTANT: the receive slots start one page too late.                      *)
RxCellShifted(i) == i + PageCells

(* RXBuffer.baseAddress!.advanced(by: i * RXBufferSize), and TXBuffer's.   *)
RxCell(i) == i
TxCell(i) == i + PageCells

Cells == 0 .. PageCells + TXBufferNum + RXBufferNum

Causes == {"RECEIVE", "TRANSMIT", "LINKCHANGE"}

Init ==
  /\ pc = "start" /\ enabled = FALSE /\ unmasked = FALSE
  /\ cause = {} /\ isr = "idle" /\ isrHead = 0
  /\ txHead = 0 /\ txTail = 0 /\ txCur = 0 /\ txDesc = [i \in TxSlots |-> 0]
  /\ rxHead = 0 /\ rxTail = 0 /\ rxCur = 0
  /\ mem = [c \in Cells |-> 0]
  /\ accepted = 0 /\ sent = <<>> /\ stale = {}
  /\ arrived = 0 /\ consumed = 0 /\ raced = FALSE

----------------------------------------------------------------------------
(* init, up to the rings: the card is stopped and reset, the heads set to  *)
(* 0 and both tails to the last slot.                                      *)
SetUpRings ==
  /\ pc = "start" /\ pc' = "address"
  /\ rxTail' = RXBufferNum - 1 /\ txTail' = TXBufferNum - 1
  /\ UNCHANGED <<setup, int, mem, txHead, txCur, txDesc, accepted, sent,
                 stale, raced, rxHead, rxCur, arrived, consumed>>

(* getMAC(): three words of the EEPROM, 0xBAD for one that was not read    *)
(* after 1000 looks.  Only the third is tested; then the address is taken  *)
(* from the card's registers, if they are mapped and set, or init fails.   *)
GetMAC ==
  /\ pc = "address"
  /\ \E third \in {"eeprom", "0xBAD"}, registers \in BOOLEAN :
       pc' = IF third = "eeprom" \/ registers THEN "activate" ELSE "failed"
  /\ UNCHANGED <<setup, tx, rx, int, mem>>

(* The receive descriptors get their buffers and both rings are enabled.   *)
Activate ==
  /\ pc = "activate" /\ pc' = "unmask"
  /\ enabled' = TRUE
  /\ UNCHANGED <<unmasked, tx, rx, int, mem>>

(* setIrqHandler, if the card has a line, and IMASK = 0xFFFF.              *)
Unmask ==
  /\ pc = "unmask" /\ pc' = "idle"
  /\ unmasked' \in BOOLEAN
  /\ UNCHANGED <<enabled, tx, rx, int, mem>>

----------------------------------------------------------------------------
(* MUTANT: the card's head is not looked at.                               *)
NoRoomNever(cur) == FALSE

(* TXCurBuffer != head fails                                               *)
NoRoom(cur) == Succ(cur, TXBufferNum) = txHead

(* TXDESCTAIL, once slot cur is filled                                     *)
FilledUpTo(cur) == Succ(cur, TXBufferNum)

(* The slots the card may be sending from.                                 *)
Owned(i) == Dist(txHead, i, TXBufferNum) < Dist(txHead, txTail, TXBufferNum)

(* Discover(), UDP.send, IPProtocol.send and NetworkModule.send copy the   *)
(* packet and call sendPacket, which reads the card's head.  A packet of   *)
(* more than 0x700 bytes is refused on the way, and one that finds no room *)
(* is logged and dropped: neither changes anything.  init calls Discover   *)
(* once; the later packets are those of any other call of udp.send.        *)
SendPacket ==
  /\ pc = "idle" /\ accepted < MaxSends
  /\ ~NoRoom(txCur)
  /\ pc' = "fill"
  /\ accepted' = accepted + 1
  /\ raced' = (raced \/ Owned(txCur))
  /\ UNCHANGED <<setup, rx, int, mem, txHead, txTail, txCur, txDesc, sent, stale>>

(* memcpy into slot TXCurBuffer, and its descriptor.                       *)
Fill ==
  /\ pc = "fill" /\ pc' = "tail"
  /\ mem' = [mem EXCEPT ![TxCell(txCur)] = accepted]
  /\ txDesc' = [txDesc EXCEPT ![txCur] = accepted]
  /\ UNCHANGED <<setup, rx, int, txHead, txTail, txCur, accepted, sent, stale,
                 raced>>

(* TXDESCTAIL = TXCurBuffer                                                *)
WriteTail ==
  /\ pc = "tail" /\ pc' = "idle"
  /\ txTail' = FilledUpTo(txCur)
  /\ txCur' = Succ(txCur, TXBufferNum)
  /\ UNCHANGED <<setup, rx, int, mem, txHead, txDesc, accepted, sent, stale, raced>>

----------------------------------------------------------------------------
(* The card sends the frame at its head.  The driver never asks for a      *)
(* report (RS); a descriptor nobody filled may.                            *)
Transmit ==
  /\ enabled /\ txHead # txTail
  /\ txHead' = Succ(txHead, TXBufferNum)
  /\ IF txDesc[txHead] = 0
     THEN /\ stale' = stale \cup {txHead}
          /\ \E c \in SUBSET {"TRANSMIT"} : cause' = cause \cup c
          /\ UNCHANGED sent
     ELSE /\ sent' = Append(sent, [packet   |-> txDesc[txHead],
                                   contents |-> mem[TxCell(txHead)]])
          /\ UNCHANGED <<stale, cause>>
  /\ UNCHANGED <<pc, setup, rx, isr, isrHead, mem, txTail, txCur, txDesc,
                 accepted, raced>>

(* A frame arrives; without a free slot the card drops it.                 *)
Receive ==
  /\ enabled /\ arrived < MaxFrames /\ rxHead # rxTail
  /\ mem' = [mem EXCEPT ![RxCell(rxHead)] = 0]
  /\ rxHead' = Succ(rxHead, RXBufferNum)
  /\ arrived' = arrived + 1
  /\ cause' = cause \cup {"RECEIVE"}
  /\ UNCHANGED <<pc, setup, tx, rxTail, rxCur, consumed, isr, isrHead>>

(* The link comes or goes.                                                 *)
LinkChange ==
  /\ enabled /\ cause' = cause \cup {"LINKCHANGE"}
  /\ UNCHANGED <<pc, setup, tx, rx, isr, isrHead, mem>>

----------------------------------------------------------------------------
(* MUTANT: the causes are tested in the order of their bits.               *)
TransmitTestedFirst(c) == "RECEIVE" \in c /\ "TRANSMIT" \notin c

(* The first branch of InterruptHandler is taken.                          *)
MustReceive(c) == "RECEIVE" \in c

(* InterruptHandler reads ICAUSE, which clears it, and looks at one cause. *)
Interrupt ==
  /\ unmasked /\ isr = "idle" /\ cause # {}
  /\ cause' = {}
  /\ isr' = IF MustReceive(cause) THEN "receive" ELSE "idle"
  /\ UNCHANGED <<pc, setup, tx, rx, isrHead, mem>>

(* head = RXDESCHEAD                                                       *)
ReadHead ==
  /\ isr = "receive" /\ isr' = "loop"
  /\ isrHead' = rxHead
  /\ UNCHANGED <<pc, setup, tx, rx, cause, mem>>

(* A round of the loop.  The card has set the status of every slot before  *)
(* its head, so the test of the status never ends the loop.                *)
TakeFrame ==
  /\ isr = "loop" /\ rxCur # isrHead
  /\ rxCur' = Succ(rxCur, RXBufferNum)
  /\ consumed' = consumed + 1
  /\ UNCHANGED <<pc, setup, tx, rxHead, rxTail, arrived, int, mem>>

(* MUTANT: every slot up to the head itself is given to the card.          *)
FreedUpToHead(h) == h

(* (head + RXBufferNum - 1) % RXBufferNum                                  *)
FreedUpTo(h) == Pred(h, RXBufferNum)

(* The slots that were read go back to the card.                           *)
GiveBack ==
  /\ isr = "loop" /\ rxCur = isrHead /\ isr' = "idle"
  /\ rxTail' = FreedUpTo(isrHead) /\ isrHead' = 0
  /\ UNCHANGED <<pc, setup, tx, rxHead, rxCur, arrived, consumed, cause, mem>>

Driver  == SetUpRings \/ GetMAC \/ Activate \/ Unmask \/ Fill \/ WriteTail
Handler == Interrupt \/ ReadHead \/ TakeFrame \/ GiveBack

Next == Driver \/ SendPacket \/ Transmit \/ Receive \/ LinkChange \/ Handler

(* The kernel goes on with a call it has begun, the handler runs when the  *)
(* card asks for it and returns, and the card empties its queue.           *)
Spec == /\ Init /\ [][Next]_vars
        /\ WF_vars(Driver) /\ WF_vars(Handler) /\ WF_vars(Transmit)

----------------------------------------------------------------------------
TypeOK ==
  /\ pc \in {"start", "address", "activate", "unmask", "idle", "fill", "tail",
             "failed"}
  /\ enabled \in BOOLEAN /\ unmasked \in BOOLEAN /\ raced \in BOOLEAN
  /\ cause \subseteq Causes
  /\ isr \in {"idle", "receive", "loop"} /\ isrHead \in RxSlots
  /\ txHead \in TxSlots /\ txTail \in TxSlots /\ txCur \in TxSlots
  /\ rxHead \in RxSlots /\ rxTail \in RxSlots /\ rxCur \in RxSlots
  /\ txDesc \in [TxSlots -> 0 .. MaxSends]
  /\ mem \in [Cells -> 0 .. MaxSends]
  /\ accepted \in 0 .. MaxSends /\ stale \subseteq TxSlots
  /\ sent \in Seq([packet : 1 .. MaxSends, contents : 0 .. MaxSends])
  /\ arrived \in 0 .. MaxFrames /\ consumed \in 0 .. MaxFrames

(* The rings start with the card owning slots nobody filled; a packet put  *)
(* there at once may go out twice or never (raced).  Otherwise the packets *)
(* sendPacket took go out once each and in order, and the card never sends *)
(* a slot while it is being filled.                                        *)
SentOnceInOrder ==
  ~raced => /\ Len(sent) <= accepted
            /\ \A k \in 1 .. Len(sent) : sent[k].packet = k
            /\ pc = "fill" => ~Owned(txCur)

(* The overlap of the buffers: as long as no more frames have arrived than *)
(* the page of RXBuffer holds, every packet goes out with its own contents *)
(* and, if no more packets than that were sent, memory behind both pages   *)
(* is untouched.                                                           *)
ContentsKept ==
  arrived <= PageCells =>
    /\ \A k \in 1 .. Len(sent) : sent[k].contents = sent[k].packet
    /\ accepted <= PageCells =>
         \A c \in Cells : c >= 2 * PageCells => mem[c] = 0

(* The handler takes every frame the card stored, once, whatever arrives   *)
(* between its reads of ICAUSE and of the head: what is left is exactly    *)
(* what lies between its place in the ring and the card's, and the card    *)
(* may never store into it.                                                *)
NoFrameSkipped ==
  /\ arrived - consumed = Dist(rxCur, rxHead, RXBufferNum)
  /\ Dist(rxCur, rxHead, RXBufferNum) <= Dist(rxCur, rxTail, RXBufferNum)

(* Every frame is taken in the end, and every packet that was accepted is  *)
(* sent: no cause is lost in a chain that looks at one only, and no tail   *)
(* is left behind.                                                         *)
NothingStuck ==
  /\ \A n \in 1 .. MaxFrames :
       (unmasked /\ arrived = n) ~> (consumed >= n)
  /\ \A p \in 1 .. MaxSends :
       (accepted = p) ~> (raced \/ \E k \in 1 .. Len(sent) : sent[k].packet = p)
=============================================================================
