---------------------------- MODULE E1000Proofs ----------------------------
(***************************************************************************)
(* E1000: for rings of any size and any number of packets and frames, what *)
(* sendPacket accepts goes out once and in order unless the first packet   *)
(* met the card on its way through the slots nobody had filled, and the    *)
(* handler takes every frame exactly once.                                 *)
(***************************************************************************)
EXTENDS E1000, TLAPS

(* Moving around a ring of n slots.                                        *)
LEMMA SuccIn ==
  ASSUME NEW n \in Nat \ {0}, NEW i \in 0 .. n - 1
  PROVE  Succ(i, n) \in 0 .. n - 1 /\ Pred(i, n) \in 0 .. n - 1
BY DEF Succ, Pred

LEMMA SuccPred ==
  ASSUME NEW n \in Nat \ {0}, NEW i \in 0 .. n - 1
  PROVE  Succ(Pred(i, n), n) = i
BY DEF Succ, Pred

LEMMA DistIn ==
  ASSUME NEW n \in Nat \ {0}, NEW a \in 0 .. n - 1, NEW b \in 0 .. n - 1
  PROVE  Dist(a, b, n) \in 0 .. n - 1
BY DEF Dist

LEMMA DistZero ==
  ASSUME NEW n \in Nat \ {0}, NEW a \in 0 .. n - 1, NEW b \in 0 .. n - 1
  PROVE  Dist(a, b, n) = 0 <=> a = b
BY DEF Dist

(* A step of the near end brings the far end closer by one, and the far    *)
(* end goes away by one unless it comes round to the near end.             *)
LEMMA DistNear ==
  ASSUME NEW n \in Nat \ {0}, NEW a \in 0 .. n - 1, NEW b \in 0 .. n - 1, a # b
  PROVE  Dist(Succ(a, n), b, n) = Dist(a, b, n) - 1
BY DEF Succ, Dist

LEMMA DistFar ==
  ASSUME NEW n \in Nat \ {0}, NEW a \in 0 .. n - 1, NEW b \in 0 .. n - 1,
         Dist(a, b, n) # n - 1
  PROVE  Dist(a, Succ(b, n), n) = Dist(a, b, n) + 1
BY DEF Succ, Dist

(* A point on the way divides the way.                                     *)
LEMMA DistVia ==
  ASSUME NEW n \in Nat \ {0}, NEW a \in 0 .. n - 1, NEW b \in 0 .. n - 1,
         NEW c \in 0 .. n - 1, Dist(a, b, n) <= Dist(a, c, n)
  PROVE  Dist(b, c, n) = Dist(a, c, n) - Dist(a, b, n)
BY DEF Dist

LEMMA DistLap ==
  ASSUME NEW n \in Nat \ {0}, NEW a \in 0 .. n - 1
  PROVE  Dist(Succ(a, n), a, n) = n - 1
BY DEF Succ, Dist

----------------------------------------------------------------------------
(* What every state has the type of, in the parts the steps change         *)
(* together.                                                               *)
SetupOK ==
  /\ pc \in {"start", "address", "activate", "unmask", "idle", "fill", "tail",
             "failed"}
  /\ enabled \in BOOLEAN /\ unmasked \in BOOLEAN /\ raced \in BOOLEAN
  /\ enabled <=> pc \in {"unmask", "idle", "fill", "tail"}
  /\ pc \in {"fill", "tail"} => accepted > 0
  /\ unmasked => pc \in {"idle", "fill", "tail"}
  /\ isr # "idle" => unmasked

TxOK ==
  /\ txHead \in TxSlots /\ txTail \in TxSlots /\ txCur \in TxSlots
  /\ txDesc \in [TxSlots -> 0 .. MaxSends]
  /\ mem \in [Cells -> 0 .. MaxSends]
  /\ accepted \in 0 .. MaxSends /\ stale \subseteq TxSlots
  /\ sent \in Seq([packet : 1 .. MaxSends, contents : 0 .. MaxSends])

RxOK ==
  /\ cause \subseteq Causes
  /\ isr \in {"idle", "receive", "loop"} /\ isrHead \in RxSlots
  /\ rxHead \in RxSlots /\ rxTail \in RxSlots /\ rxCur \in RxSlots
  /\ arrived \in 0 .. MaxFrames /\ consumed \in Nat /\ accepted \in Nat

(* The receive ring: behind the tail come the frames that were taken, then *)
(* those to take, then the free slots up to the tail.                      *)
TakenFirst ==
  /\ pc = "start" => rxHead = 0 /\ rxCur = 0 /\ rxTail = 0
  /\ pc # "start" =>
       LET first == Succ(rxTail, RXBufferNum)
       IN /\ Dist(first, rxCur, RXBufferNum) <= Dist(first, rxHead, RXBufferNum)
          /\ isr # "loop" => rxCur = first
          /\ isr = "loop" =>
               /\ Dist(first, rxCur, RXBufferNum) <= Dist(first, isrHead, RXBufferNum)
               /\ Dist(first, isrHead, RXBufferNum) <= Dist(first, rxHead, RXBufferNum)
  /\ arrived - consumed = Dist(rxCur, rxHead, RXBufferNum)

RxInv == SetupOK /\ RxOK /\ TakenFirst

LEMMA RxInit == Init => RxInv
<1> SUFFICES ASSUME Init PROVE RxInv OBVIOUS
<1>1. SetupOK BY DEF Init, SetupOK
<1>2. RxOK BY E1000Assumption DEF Init, RxOK, RxSlots
<1>3. TakenFirst BY E1000Assumption DEF Init, TakenFirst, Dist
<1> QED BY <1>1, <1>2, <1>3 DEF RxInv

LEMMA RxSame ==
  ASSUME RxInv, UNCHANGED <<rx, isr, isrHead>>, pc # "start", pc' # "start"
  PROVE  TakenFirst'
BY DEF RxInv, TakenFirst, rx

LEMMA RxReceive ==
  ASSUME RxInv, Receive PROVE RxInv'
<1> USE E1000Assumption DEF RxInv, SetupOK, RxOK, RxSlots, Receive, setup, tx
<1> DEFINE N == RXBufferNum
           first == Succ(rxTail, N)
<1>0. /\ N \in Nat \ {0} /\ rxHead \in 0 .. N - 1 /\ rxCur \in 0 .. N - 1
      /\ isrHead \in 0 .. N - 1
  OBVIOUS
<1>1. pc # "start" OBVIOUS
<1>2. first \in 0 .. N - 1 BY SuccIn
<1>3. SetupOK' OBVIOUS
<1>4. RxOK' BY SuccIn DEF Causes
<1>5. Dist(first, rxHead, N) # N - 1
  <2>1. Dist(first, rxTail, N) = N - 1 BY DistLap
  <2>2. Dist(first, rxHead, N) # Dist(first, rxTail, N)
    BY <1>2 DEF Dist
  <2> QED BY <2>1, <2>2
<1>6. Dist(first, rxHead', N) = Dist(first, rxHead, N) + 1
  BY <1>2, <1>5, DistFar
<1>7. /\ Dist(first, rxCur, N) \in Int /\ Dist(first, rxHead, N) \in Int
      /\ Dist(first, isrHead, N) \in Int
  <2>1. Dist(first, rxCur, N) \in 0 .. N - 1 BY ONLY <1>0, <1>2, DistIn
  <2>2. Dist(first, rxHead, N) \in 0 .. N - 1 BY ONLY <1>0, <1>2, DistIn
  <2>3. Dist(first, isrHead, N) \in 0 .. N - 1 BY ONLY <1>0, <1>2, DistIn
  <2> QED BY <2>1, <2>2, <2>3
<1>8. Dist(rxCur, rxHead', N) = Dist(rxCur, rxHead, N) + 1
  <2>1. Dist(first, rxCur, N) <= Dist(first, rxHead, N) BY <1>1 DEF TakenFirst
  <2>2. Dist(rxCur, rxHead, N) = Dist(first, rxHead, N) - Dist(first, rxCur, N)
    BY <1>2, <2>1, DistVia
  <2>3. Dist(first, rxCur, N) <= Dist(first, rxHead', N) BY <2>1, <1>6, <1>7
  <2>4. rxHead' \in 0 .. N - 1 BY SuccIn
  <2>5. Dist(rxCur, rxHead', N) = Dist(first, rxHead', N) - Dist(first, rxCur, N)
    BY <1>2, <2>3, <2>4, DistVia
  <2> QED BY <2>2, <2>5, <1>6, <1>7
<1>9. Dist(rxCur, rxHead, N) \in Int BY DistIn
<1>10. TakenFirst'
  BY <1>1, <1>6, <1>7, <1>8, <1>9 DEF TakenFirst
<1> QED BY <1>3, <1>4, <1>10

LEMMA RxTakeFrame ==
  ASSUME RxInv, TakeFrame PROVE RxInv'
<1> USE E1000Assumption DEF RxInv, SetupOK, RxOK, RxSlots, TakeFrame, setup, tx, int
<1> DEFINE N == RXBufferNum
           first == Succ(rxTail, N)
<1>0. /\ N \in Nat \ {0} /\ rxHead \in 0 .. N - 1 /\ rxCur \in 0 .. N - 1
      /\ isrHead \in 0 .. N - 1
  OBVIOUS
<1>1. pc # "start" OBVIOUS
<1>2. first \in 0 .. N - 1 /\ rxCur' \in 0 .. N - 1 BY SuccIn
<1>3. SetupOK' OBVIOUS
<1>4. RxOK' BY SuccIn
<1>5. /\ Dist(first, rxCur, N) <= Dist(first, isrHead, N)
      /\ Dist(first, isrHead, N) <= Dist(first, rxHead, N)
  BY <1>1 DEF TakenFirst
<1>6. /\ Dist(first, rxCur, N) \in 0 .. N - 1 /\ Dist(first, rxHead, N) \in 0 .. N - 1
      /\ Dist(first, isrHead, N) \in 0 .. N - 1
  <2>1. Dist(first, rxCur, N) \in 0 .. N - 1 BY ONLY <1>0, <1>2, DistIn
  <2>2. Dist(first, rxHead, N) \in 0 .. N - 1 BY ONLY <1>0, <1>2, DistIn
  <2>3. Dist(first, isrHead, N) \in 0 .. N - 1 BY ONLY <1>0, <1>2, DistIn
  <2> QED BY <2>1, <2>2, <2>3
<1>7. Dist(first, rxCur, N) # Dist(first, isrHead, N)
  BY <1>2 DEF Dist
<1>8. Dist(first, rxCur, N) # N - 1 BY <1>5, <1>6, <1>7
<1>9. Dist(first, rxCur', N) = Dist(first, rxCur, N) + 1
  BY <1>2, <1>8, DistFar
<1>10. Dist(rxCur', rxHead, N) = Dist(rxCur, rxHead, N) - 1
  <2>1. rxCur # rxHead
    BY <1>5, <1>6, <1>7
  <2> QED BY <2>1, DistNear
<1>11. Dist(rxCur, rxHead, N) \in Int BY DistIn
<1>12. TakenFirst'
  BY <1>1, <1>5, <1>6, <1>7, <1>9, <1>10, <1>11 DEF TakenFirst
<1> QED BY <1>3, <1>4, <1>12

LEMMA RxReadHead ==
  ASSUME RxInv, ReadHead PROVE RxInv'
<1> USE DEF RxInv, SetupOK, RxOK, ReadHead, setup, tx, rx
<1>1. SetupOK' /\ RxOK' OBVIOUS
<1>2. TakenFirst' BY DEF TakenFirst
<1> QED BY <1>1, <1>2

LEMMA RxGiveBack ==
  ASSUME RxInv, GiveBack PROVE RxInv'
<1> USE E1000Assumption DEF RxInv, SetupOK, RxOK, RxSlots, GiveBack, setup, tx
<1> DEFINE N == RXBufferNum
           first == Succ(rxTail, N)
<1>1. SetupOK' OBVIOUS
<1>2. RxOK' BY SuccIn DEF FreedUpTo
<1>3. Succ(rxTail', N) = rxCur BY SuccPred DEF FreedUpTo
<1>4. Dist(rxCur, rxCur, N) = 0 /\ Dist(rxCur, rxHead, N) >= 0 BY DEF Dist
<1>5. TakenFirst' BY <1>3, <1>4 DEF TakenFirst
<1> QED BY <1>1, <1>2, <1>5

LEMMA RxStep == RxInv /\ [Next]_vars => RxInv'
<1> SUFFICES ASSUME RxInv, [Next]_vars PROVE RxInv' OBVIOUS
<1> USE DEF RxInv, SetupOK, RxOK, setup, tx, int
<1>1. CASE SetUpRings
  <2>1. SetupOK' /\ RxOK' BY <1>1, E1000Assumption DEF SetUpRings, RxSlots
  <2>2. Succ(rxTail', RXBufferNum) = 0
    BY <1>1, E1000Assumption DEF SetUpRings, Succ
  <2>3. TakenFirst'
    BY <1>1, <2>2 DEF SetUpRings, TakenFirst, Dist
  <2> QED BY <2>1, <2>3
<1>2. CASE GetMAC
  <2>1. SetupOK' /\ RxOK' BY <1>2 DEF GetMAC, rx
  <2>2. pc # "start" /\ pc' # "start" BY <1>2 DEF GetMAC
  <2> QED BY <1>2, <2>1, <2>2, RxSame DEF GetMAC
<1>3. CASE Activate \/ Unmask \/ SendPacket
  <2>1. CASE Activate \/ Unmask
    <3>a. UNCHANGED <<raced, accepted, cause, isr, isrHead, rx>>
      BY <2>1 DEF Activate, Unmask
    <3>r. RxOK' BY <2>1 DEF Activate, Unmask, rx
    <3>b. ASSUME Activate PROVE SetupOK'
      <4>1. pc' = "unmask" /\ enabled' = TRUE /\ unmasked' = unmasked
        BY <3>b DEF Activate
      <4> QED BY <3>a, <3>b, <4>1 DEF Activate
    <3>c. ASSUME Unmask PROVE SetupOK'
      <4>1. pc = "unmask" /\ pc' = "idle" /\ enabled' = enabled
        BY <3>c DEF Unmask
      <4>2. unmasked' \in BOOLEAN /\ isr = "idle"
        BY <3>c DEF Unmask
      <4> QED BY <3>a, <4>1, <4>2
    <3>1. SetupOK' /\ RxOK' BY <2>1, <3>b, <3>c, <3>r
    <3>2. pc # "start" /\ pc' # "start" BY <2>1 DEF Activate, Unmask
    <3> QED BY <2>1, <3>1, <3>2, RxSame DEF Activate, Unmask
  <2>2. CASE SendPacket
    <3>1. accepted' \in Nat /\ accepted' > 0 BY <2>2 DEF SendPacket
    <3>2. raced' \in BOOLEAN BY <2>2 DEF SendPacket
    <3>3. pc = "idle" /\ pc' = "fill" BY <2>2 DEF SendPacket
    <3>4. UNCHANGED <<enabled, unmasked, cause, isr, isrHead>> BY <2>2 DEF SendPacket
    <3>5. SetupOK' BY <3>1, <3>2, <3>3, <3>4
    <3>6. RxOK' BY <2>2, <3>1, <3>4 DEF SendPacket, rx
    <3> QED BY <2>2, <3>3, <3>5, <3>6, RxSame DEF SendPacket
  <2> QED BY <1>3, <2>1, <2>2
<1>4. CASE Fill \/ WriteTail
  <2>1. SetupOK' /\ RxOK' BY <1>4 DEF Fill, WriteTail, rx
  <2>2. pc # "start" /\ pc' # "start" BY <1>4 DEF Fill, WriteTail
  <2> QED BY <1>4, <2>1, <2>2, RxSame DEF Fill, WriteTail
<1>5. CASE Transmit
  <2>1. SetupOK' /\ RxOK' BY <1>5 DEF Transmit, rx, Causes
  <2>2. pc # "start" /\ pc' # "start" BY <1>5 DEF Transmit
  <2> QED BY <1>5, <2>1, <2>2, RxSame DEF Transmit
<1>6. CASE LinkChange
  <2>1. SetupOK' /\ RxOK' BY <1>6 DEF LinkChange, rx, Causes
  <2>2. pc # "start" /\ pc' # "start" BY <1>6 DEF LinkChange
  <2> QED BY <1>6, <2>1, <2>2, RxSame DEF LinkChange
<1>7. CASE Interrupt
  <2>1. SetupOK' /\ RxOK' BY <1>7 DEF Interrupt, rx
  <2>2. pc # "start" /\ pc' # "start" BY <1>7 DEF Interrupt
  <2>3. isr # "loop" /\ isr' # "loop" BY <1>7 DEF Interrupt
  <2>4. TakenFirst' BY <1>7, <2>2, <2>3 DEF Interrupt, TakenFirst, rx
  <2> QED BY <2>1, <2>4
<1>8. CASE UNCHANGED vars
  <2>1. SetupOK' /\ RxOK' BY <1>8 DEF vars, rx
  <2>2. TakenFirst' BY <1>8 DEF vars, rx, TakenFirst
  <2> QED BY <2>1, <2>2
<1> QED
  BY <1>1, <1>2, <1>3, <1>4, <1>5, <1>6, <1>7, <1>8, RxReceive, RxTakeFrame,
     RxReadHead, RxGiveBack
  DEF Next, Driver, Handler

LEMMA RxSafe == RxInv => NoFrameSkipped
<1> SUFFICES ASSUME RxInv PROVE NoFrameSkipped OBVIOUS
<1> USE E1000Assumption DEF RxInv, RxOK, RxSlots
<1> DEFINE N == RXBufferNum
           first == Succ(rxTail, N)
<1>1. CASE pc = "start"
  BY <1>1 DEF TakenFirst, NoFrameSkipped, Dist
<1>2. CASE pc # "start"
  <2>0. /\ N \in Nat \ {0} /\ rxHead \in 0 .. N - 1 /\ rxCur \in 0 .. N - 1
        /\ rxTail \in 0 .. N - 1
    OBVIOUS
  <2>1. first \in 0 .. N - 1 BY SuccIn
  <2>2. Dist(first, rxCur, N) <= Dist(first, rxHead, N) BY <1>2 DEF TakenFirst
  <2>3. Dist(first, rxTail, N) = N - 1 BY DistLap
  <2>4. Dist(first, rxCur, N) \in 0 .. N - 1 BY ONLY <2>0, <2>1, DistIn
  <2>5. Dist(first, rxHead, N) \in 0 .. N - 1 BY ONLY <2>0, <2>1, DistIn
  <2>6. Dist(rxCur, rxHead, N) = Dist(first, rxHead, N) - Dist(first, rxCur, N)
    BY ONLY <2>0, <2>1, <2>2, DistVia
  <2>7. Dist(first, rxCur, N) <= Dist(first, rxTail, N) BY <2>3, <2>4
  <2>8. Dist(rxCur, rxTail, N) = Dist(first, rxTail, N) - Dist(first, rxCur, N)
    BY ONLY <2>0, <2>1, <2>7, DistVia
  <2>9. Dist(rxCur, rxHead, N) <= Dist(rxCur, rxTail, N)
    BY <2>3, <2>4, <2>5, <2>6, <2>8
  <2> QED BY <2>9 DEF TakenFirst, NoFrameSkipped
<1> QED BY <1>1, <1>2

(* The handler (E1000.swift:256) takes every frame exactly once and never  *)
(* gives the card a slot with a frame it has not taken, whatever the size  *)
(* of the ring.                                                            *)
THEOREM FramesTaken == Spec => []NoFrameSkipped
<1>1. Spec => []RxInv BY RxInit, RxStep, PTL DEF Spec
<1> QED BY <1>1, RxSafe, PTL

----------------------------------------------------------------------------
(* The packets filled in, and the slot behind the last of them.            *)
Filled == IF pc = "fill" THEN accepted - 1 ELSE accepted
End    == IF pc = "tail" THEN Succ(txCur, TXBufferNum) ELSE txCur

(* What is in slot i, counted back from the slot behind the last packet.   *)
Holds(i) == LET back == Dist(i, End, TXBufferNum)
            IN IF back <= Filled THEN Filled - back + 1 ELSE 0

(* The transmit ring holds the last packets, in order, from the card's     *)
(* head to the slot behind the last; the others are on the wire.           *)
Ordered ==
  /\ \A i \in TxSlots :
       Dist(txHead, i, TXBufferNum) < Dist(txHead, End, TXBufferNum)
         => txDesc[i] = Holds(i)
  /\ Len(sent) = LET left == Dist(txHead, End, TXBufferNum)
                 IN IF left <= Filled THEN Filled - left ELSE 0
  /\ \A k \in 1 .. Len(sent) : sent[k].packet = k

(* The card never runs past the packets, its tail is where the driver goes *)
(* on except in the first lap, and a slot being filled leaves a gap.       *)
Bounded ==
  /\ accepted = 0 => /\ txDesc = [i \in TxSlots |-> 0] /\ txCur = 0
                     /\ pc = "start" => txHead = 0 /\ txTail = 0
                     /\ pc # "start" => txTail = TXBufferNum - 1
  /\ accepted > 0 => /\ pc # "start"
                     /\ Dist(txHead, txTail, TXBufferNum)
                          <= Dist(txHead, End, TXBufferNum)
                     /\ pc \notin {"fill", "tail"} => txCur = txTail
                     /\ accepted > 1 => txCur = txTail
                     /\ txCur # txTail => txCur = 0 /\ txTail = TXBufferNum - 1
  /\ pc = "fill" => Dist(txHead, txCur, TXBufferNum) <= TXBufferNum - 2
  /\ pc = "tail" => Dist(txHead, txCur, TXBufferNum) <= TXBufferNum - 2

(* SentOnceInOrder, strengthened to be inductive.                          *)
InOrder == ~raced => Ordered /\ Bounded

TxInv == SetupOK /\ TxOK /\ InOrder

LEMMA DistFull ==
  ASSUME NEW n \in Nat \ {0}, NEW a \in 0 .. n - 1, NEW b \in 0 .. n - 1,
         Dist(a, b, n) = n - 1
  PROVE  Succ(b, n) = a
BY DEF Succ, Dist

LEMMA DistNext ==
  ASSUME NEW n \in Nat \ {0}, n >= 2, NEW a \in 0 .. n - 1
  PROVE  Dist(a, Succ(a, n), n) = 1 /\ Dist(a, a, n) = 0
BY DEF Succ, Dist

LEMMA TxInit == Init => TxInv
<1> SUFFICES ASSUME Init PROVE TxInv OBVIOUS
<1> USE E1000Assumption DEF Init
<1>1. SetupOK BY DEF SetupOK
<1>2. TxOK BY DEF TxOK, TxSlots
<1>4. End = 0 /\ Filled = 0 BY DEF End, Filled
<1>3. \A i \in TxSlots :
        ~(Dist(txHead, i, TXBufferNum) < Dist(txHead, End, TXBufferNum))
  BY <1>4 DEF Dist, TxSlots
<1>5. Ordered
  <2>1. Dist(txHead, End, TXBufferNum) = 0 BY <1>4 DEF Dist
  <2>2. Len(sent) = 0 OBVIOUS
  <2>3. \A k \in 1 .. Len(sent) : sent[k].packet = k BY <2>2
  <2> QED BY <1>3, <1>4, <2>1, <2>2, <2>3 DEF Ordered
<1>6. Bounded BY DEF Bounded
<1> QED BY <1>1, <1>2, <1>5, <1>6 DEF TxInv, InOrder

(* A step that leaves the transmit ring alone.                             *)
LEMMA TxSame ==
  ASSUME TxInv, UNCHANGED tx,
         pc' = pc \/ {pc, pc'} \cap {"start", "fill", "tail"} = {}
  PROVE  InOrder'
<1> USE DEF TxInv, tx
<1>1. End' = End /\ Filled' = Filled BY DEF End, Filled
<1>2. \A i \in TxSlots : Holds(i)' = Holds(i) BY <1>1 DEF Holds
<1>3. Ordered => Ordered' BY <1>1, <1>2 DEF Ordered
<1>4. Bounded => Bounded' BY <1>1 DEF Bounded
<1> QED BY <1>3, <1>4 DEF InOrder

LEMMA TxSend ==
  ASSUME TxInv, SendPacket PROVE InOrder'
<1> USE E1000Assumption DEF TxInv, SetupOK, TxOK, TxSlots, SendPacket
<1> DEFINE N == TXBufferNum
<1> SUFFICES ASSUME ~raced' PROVE Ordered' /\ Bounded' BY DEF InOrder
<1>1. ~raced /\ Ordered /\ Bounded BY DEF InOrder
<1>2. End' = txCur /\ End = txCur /\ Filled' = Filled BY DEF End, Filled
<1>3. \A i \in TxSlots : Holds(i)' = Holds(i) BY <1>2 DEF Holds
<1>4. Ordered' BY <1>1, <1>2, <1>3 DEF Ordered
<1>5. /\ N \in Nat \ {0} /\ txHead \in 0 .. N - 1 /\ txCur \in 0 .. N - 1
      /\ txTail \in 0 .. N - 1
  OBVIOUS
<1>6. Dist(txHead, txCur, N) \in 0 .. N - 1 BY ONLY <1>5, DistIn
<1>7. Dist(txHead, txTail, N) \in 0 .. N - 1 BY ONLY <1>5, DistIn
<1>8. Dist(txHead, txTail, N) <= Dist(txHead, txCur, N)
  <2>1. CASE accepted = 0
    <3>1. ~Owned(txCur) OBVIOUS
    <3> QED BY <3>1, <1>6, <1>7 DEF Owned
  <2>2. CASE accepted > 0
    <3>1. txCur = txTail BY <2>2, <1>1 DEF Bounded
    <3> QED BY <3>1, <1>7
  <2> QED BY <2>1, <2>2
<1>9. Dist(txHead, txCur, N) # N - 1
  <2>1. Succ(txCur, N) # txHead BY DEF NoRoom
  <2> QED BY ONLY <1>5, <2>1, DistFull
<1>10. Bounded'
  BY <1>1, <1>2, <1>6, <1>8, <1>9, SMTT(60) DEF Bounded
<1> QED BY <1>4, <1>10

LEMMA TxFill ==
  ASSUME TxInv, Fill PROVE InOrder'
<1> USE E1000Assumption DEF TxInv, SetupOK, TxOK, TxSlots, Fill
<1> DEFINE N == TXBufferNum
<1> SUFFICES ASSUME ~raced' PROVE Ordered' /\ Bounded' BY DEF InOrder
<1>1. ~raced /\ Ordered /\ Bounded BY DEF InOrder
<1>2. End = txCur /\ End' = Succ(txCur, N) /\ Filled' = Filled + 1 /\ Filled \in Nat
      /\ Filled' = accepted
  BY DEF End, Filled
<1>3. /\ N \in Nat \ {0} /\ N >= 2 /\ txHead \in 0 .. N - 1 /\ txCur \in 0 .. N - 1
      /\ txTail \in 0 .. N - 1
  OBVIOUS
<1>4. Dist(txHead, txCur, N) \in 0 .. N - 1 BY ONLY <1>3, DistIn
<1>5. Dist(txHead, txTail, N) \in 0 .. N - 1 BY ONLY <1>3, DistIn
<1>6. Dist(txHead, txCur, N) <= N - 2 BY <1>1 DEF Bounded
<1>7. Dist(txHead, End', N) = Dist(txHead, txCur, N) + 1
  <2>1. Dist(txHead, txCur, N) # N - 1 BY ONLY <1>3, <1>4, <1>6
  <2> QED BY ONLY <1>2, <1>3, <2>1, DistFar
<1>8. ASSUME NEW i \in 0 .. N - 1,
             Dist(txHead, i, N) < Dist(txHead, End', N)
      PROVE  txDesc'[i] = Holds(i)'
  <2>1. CASE i = txCur
    <3>1. Dist(i, End', N) = 1 BY ONLY <2>1, <1>2, <1>3, DistNext
    <3>2. Holds(i)' = accepted BY <3>1, <1>2 DEF Holds
    <3> QED BY <2>1, <3>2
  <2>2. CASE i # txCur
    <3>1. Dist(txHead, i, N) \in 0 .. N - 1 BY ONLY <1>3, DistIn
    <3>2. Dist(txHead, i, N) # Dist(txHead, txCur, N) BY <2>2, <1>3 DEF Dist
    <3>3. Dist(txHead, i, N) < Dist(txHead, txCur, N)
      BY ONLY <1>4, <1>7, <1>8, <3>1, <3>2
    <3>4. txDesc[i] = Holds(i) BY <1>1, <1>2, <3>3 DEF Ordered
    <3>5. Dist(i, txCur, N) = Dist(txHead, txCur, N) - Dist(txHead, i, N)
      <4>1. Dist(txHead, i, N) <= Dist(txHead, txCur, N) BY ONLY <1>4, <3>1, <3>3
      <4> QED BY ONLY <4>1, <1>3, DistVia
    <3>6. Dist(i, End', N) = Dist(i, txCur, N) + 1
      <4>1. Dist(i, txCur, N) # N - 1 BY ONLY <1>3, <1>4, <1>6, <3>1, <3>5
      <4> QED BY ONLY <4>1, <1>2, <1>3, DistFar
    <3>7. Holds(i)' = Holds(i)
      <4>1. Dist(i, txCur, N) \in Nat BY ONLY <1>4, <3>1, <3>3, <3>5
      <4>2. Holds(i)' = LET back == Dist(i, End', N)
                        IN IF back <= Filled' THEN Filled' - back + 1 ELSE 0
        BY DEF Holds
      <4>3. Holds(i) = LET back == Dist(i, txCur, N)
                       IN IF back <= Filled THEN Filled - back + 1 ELSE 0
        BY <1>2 DEF Holds
      <4> QED BY ONLY <1>2, <3>6, <4>1, <4>2, <4>3
    <3> QED BY <2>2, <3>4, <3>7
  <2> QED BY <2>1, <2>2
<1>9. Ordered'
  <2>1. \A i \in TxSlots :
          Dist(txHead, i, N) < Dist(txHead, End', N) => txDesc'[i] = Holds(i)'
    BY <1>8
  <2>2. Len(sent') = LET left == Dist(txHead, End', N)
                     IN IF left <= Filled' THEN Filled' - left ELSE 0
    <3>1. Len(sent) = LET left == Dist(txHead, txCur, N)
                      IN IF left <= Filled THEN Filled - left ELSE 0
      BY <1>1, <1>2 DEF Ordered
    <3>2. sent' = sent OBVIOUS
    <3> QED BY ONLY <1>2, <1>4, <1>7, <3>1, <3>2
  <2>3. \A k \in 1 .. Len(sent') : sent'[k].packet = k BY <1>1 DEF Ordered
  <2>4. txHead' = txHead OBVIOUS
  <2> QED BY ONLY <2>1, <2>2, <2>3, <2>4 DEF Ordered
<1>10. Bounded'
  <2>1. /\ accepted > 0 /\ accepted' = accepted /\ pc = "fill" /\ pc' = "tail"
        /\ UNCHANGED <<txHead, txTail, txCur>>
    OBVIOUS
  <2>2. /\ Dist(txHead, txTail, N) <= Dist(txHead, txCur, N)
        /\ accepted > 1 => txCur = txTail
        /\ txCur # txTail => txCur = 0 /\ txTail = N - 1
    BY <2>1, <1>1, <1>2 DEF Bounded
  <2>3. Dist(txHead, txTail, N) <= Dist(txHead, End', N)
    BY ONLY <2>2, <1>4, <1>5, <1>7
  <2>4. accepted \in Nat OBVIOUS
  <2> QED BY ONLY <2>1, <2>2, <2>3, <2>4, <1>6 DEF Bounded
<1> QED BY <1>9, <1>10

LEMMA TxWriteTail ==
  ASSUME TxInv, WriteTail PROVE InOrder'
<1> USE E1000Assumption DEF TxInv, SetupOK, TxOK, TxSlots, WriteTail
<1> DEFINE N == TXBufferNum
<1> SUFFICES ASSUME ~raced' PROVE Ordered' /\ Bounded' BY DEF InOrder
<1>1. ~raced /\ Ordered /\ Bounded BY DEF InOrder
<1>2. End' = End /\ txTail' = End /\ txCur' = End /\ Filled' = Filled
  BY DEF End, Filled, FilledUpTo
<1>3. \A i \in TxSlots : Holds(i)' = Holds(i) BY <1>2 DEF Holds
<1>4. Ordered' BY <1>1, <1>2, <1>3 DEF Ordered
<1>5. End \in 0 .. N - 1 BY SuccIn DEF End
<1>6. Dist(txHead, End, N) \in 0 .. N - 1
  <2>1. N \in Nat \ {0} /\ txHead \in 0 .. N - 1 OBVIOUS
  <2> QED BY ONLY <2>1, <1>5, DistIn
<1>7. Bounded' BY <1>2, <1>6 DEF Bounded
<1> QED BY <1>4, <1>7

LEMMA TxTransmit ==
  ASSUME TxInv, Transmit PROVE InOrder'
<1> USE E1000Assumption DEF TxInv, SetupOK, TxOK, TxSlots, Transmit
<1> DEFINE N == TXBufferNum
<1> SUFFICES ASSUME ~raced' PROVE Ordered' /\ Bounded' BY DEF InOrder
<1>1. ~raced /\ Ordered /\ Bounded BY DEF InOrder
<1>2. End' = End /\ Filled' = Filled BY DEF End, Filled
<1>3. /\ N \in Nat \ {0} /\ N >= 3 /\ txHead \in 0 .. N - 1 /\ txCur \in 0 .. N - 1
      /\ txTail \in 0 .. N - 1 /\ txHead' = Succ(txHead, N) /\ txHead # txTail
      /\ pc # "start" /\ accepted \in Nat
  OBVIOUS
<1>4. End \in 0 .. N - 1 /\ Filled \in Nat /\ txHead' \in 0 .. N - 1
  <2>1. Succ(txCur, N) \in 0 .. N - 1 BY ONLY <1>3, SuccIn
  <2>2. End \in 0 .. N - 1 BY <2>1, <1>3 DEF End
  <2>3. Filled \in Nat BY DEF Filled
  <2>4. Succ(txHead, N) \in 0 .. N - 1 BY ONLY <1>3, SuccIn
  <2> QED BY <2>2, <2>3, <2>4, <1>3
<1>5. Dist(txHead, End, N) \in 0 .. N - 1 BY ONLY <1>3, <1>4, DistIn
<1>6. Dist(txHead, txTail, N) \in 1 .. N - 1
  <2>1. Dist(txHead, txTail, N) \in 0 .. N - 1 BY ONLY <1>3, DistIn
  <2>2. Dist(txHead, txTail, N) # 0 BY ONLY <1>3, DistZero
  <2> QED BY <2>1, <2>2
<1>7. Dist(txHead', txTail, N) = Dist(txHead, txTail, N) - 1
  BY ONLY <1>3, DistNear
<1>8. \A i \in TxSlots : Holds(i)' = Holds(i) BY <1>2 DEF Holds
<1>9. CASE accepted = 0
  <2>1. /\ txDesc' = txDesc /\ \A i \in TxSlots : txDesc[i] = 0
    BY <1>9, <1>1 DEF Bounded
  <2>2. Filled = 0 BY <1>9 DEF Filled
  <2>3. sent' = sent BY <2>1
  <2>4. Len(sent) = 0 BY <1>1, <1>5, <2>2 DEF Ordered
  <2>5. Dist(txHead', End, N) \in 0 .. N - 1 BY ONLY <1>3, <1>4, DistIn
  <2>6. \A i \in 0 .. N - 1 :
          Dist(txHead', i, N) < Dist(txHead', End, N) => Holds(i) = 0
    <3>0. SUFFICES ASSUME NEW i \in 0 .. N - 1,
                          Dist(txHead', i, N) < Dist(txHead', End, N)
                   PROVE  Holds(i) = 0
      OBVIOUS
    <3>1. i # End BY ONLY <3>0, <2>5, <1>3
    <3>2. Dist(i, End, N) \in 0 .. N - 1 BY ONLY <1>3, <1>4, DistIn
    <3>3. Dist(i, End, N) # 0 BY ONLY <3>1, <1>3, <1>4, DistZero
    <3> QED BY ONLY <2>2, <3>2, <3>3 DEF Holds
  <2>7. Ordered'
    <3>1. Len(sent') = LET left == Dist(txHead', End', N)
                       IN IF left <= Filled' THEN Filled' - left ELSE 0
      BY ONLY <1>2, <2>2, <2>3, <2>4, <2>5
    <3>2. \A i \in TxSlots :
            Dist(txHead', i, N) < Dist(txHead', End', N) => txDesc'[i] = Holds(i)'
      BY <1>2, <1>8, <2>1, <2>6
    <3>3. \A k \in 1 .. Len(sent') : sent'[k].packet = k BY ONLY <2>3, <2>4
    <3> QED BY ONLY <3>1, <3>2, <3>3 DEF Ordered
  <2>8. Bounded' BY <1>9, <1>1, <2>1 DEF Bounded
  <2> QED BY <2>7, <2>8
<1>10. CASE accepted > 0
  <2>1. Dist(txHead, txTail, N) <= Dist(txHead, End, N)
    BY <1>10, <1>1 DEF Bounded
  <2>2. Dist(txHead, End, N) >= 1 BY ONLY <1>5, <1>6, <2>1
  <2>3. txHead # End BY ONLY <1>3, <1>4, <2>2, DistZero
  <2>4. Dist(txHead', End, N) = Dist(txHead, End, N) - 1
    BY ONLY <1>3, <1>4, <2>3, DistNear
  <2>5. txDesc[txHead] = Holds(txHead)
    <3>1. Dist(txHead, txHead, N) = 0 BY ONLY <1>3, DistZero
    <3>2. Dist(txHead, txHead, N) < Dist(txHead, End, N)
      BY ONLY <1>5, <2>2, <3>1
    <3> QED BY <1>1, <3>2 DEF Ordered
  <2>6. txDesc[txHead] = LET left == Dist(txHead, End, N)
                         IN IF left <= Filled THEN Filled - left + 1 ELSE 0
    BY <2>5 DEF Holds
  <2>7. Len(sent) = LET left == Dist(txHead, End, N)
                    IN IF left <= Filled THEN Filled - left ELSE 0
    BY <1>1 DEF Ordered
  <2>8. /\ Len(sent') = LET left == Dist(txHead', End', N)
                        IN IF left <= Filled' THEN Filled' - left ELSE 0
        /\ \A k \in 1 .. Len(sent') : sent'[k].packet = k
    <3>1. CASE txDesc[txHead] = 0
      <4>1. sent' = sent BY <3>1
      <4>2. \A k \in 1 .. Len(sent) : sent[k].packet = k BY <1>1 DEF Ordered
      <4>3. Dist(txHead, End, N) > Filled BY ONLY <1>4, <1>5, <2>6, <3>1
      <4> QED BY ONLY <1>2, <1>4, <1>5, <2>4, <2>7, <3>1, <4>1, <4>2, <4>3
    <3>2. CASE txDesc[txHead] # 0
      <4> DEFINE e == [packet |-> txDesc[txHead], contents |-> mem[TxCell(txHead)]]
      <4>1. sent' = Append(sent, e) BY <3>2
      <4>2. \A k \in 1 .. Len(sent) : sent[k].packet = k BY <1>1 DEF Ordered
      <4>3. Dist(txHead, End, N) <= Filled BY ONLY <1>4, <1>5, <2>6, <3>2
      <4>4. e.packet = Len(sent) + 1 BY <2>6, <2>7, <4>3, <1>4, <1>5
      <4>5. Len(sent') = Len(sent) + 1 /\ Len(sent) \in Nat BY <4>1
      <4>6. \A k \in 1 .. Len(sent') : sent'[k].packet = k
        <5> HIDE DEF e
        <5>1. sent'[Len(sent) + 1] = e BY <4>1
        <5>2. \A k \in 1 .. Len(sent) : sent'[k] = sent[k] BY <4>1
        <5>3. \A k \in 1 .. Len(sent') : k \in 1 .. Len(sent) \/ k = Len(sent) + 1
          BY ONLY <4>5
        <5> QED BY ONLY <4>2, <4>4, <5>1, <5>2, <5>3
      <4> QED BY ONLY <1>2, <1>4, <1>5, <2>4, <2>7, <4>3, <4>5, <4>6
    <3> QED BY <3>1, <3>2
  <2>9. ASSUME NEW i \in 0 .. N - 1, Dist(txHead', i, N) < Dist(txHead', End', N)
        PROVE  txDesc'[i] = Holds(i)'
    <3>1. i # txHead
      <4>1. SUFFICES ASSUME i = txHead PROVE FALSE OBVIOUS
      <4>2. Dist(txHead', i, N) = N - 1 BY ONLY <4>1, <1>3, DistLap
      <4> QED BY ONLY <4>2, <2>9, <2>4, <1>2, <1>3, <1>5
    <3>2. Dist(txHead', i, N) = Dist(txHead, i, N) - 1
      BY ONLY <3>1, <1>3, DistNear
    <3>3. Dist(txHead, i, N) \in 0 .. N - 1 BY ONLY <1>3, DistIn
    <3>4. Dist(txHead, i, N) < Dist(txHead, End, N)
      BY ONLY <3>2, <3>3, <2>4, <2>9, <1>2, <1>5
    <3> QED BY <3>4, <1>1, <1>8 DEF Ordered
  <2>10. Ordered'
    <3>1. \A i \in TxSlots :
            Dist(txHead', i, N) < Dist(txHead', End', N) => txDesc'[i] = Holds(i)'
      BY <2>9
    <3> QED BY ONLY <3>1, <2>8 DEF Ordered
  <2>11. pc \in {"fill", "tail"} => txHead # txCur
    <3>1. CASE pc = "fill" BY <3>1, <2>3 DEF End
    <3>2. CASE pc = "tail"
      <4>1. SUFFICES ASSUME txHead = txCur PROVE FALSE BY <3>2
      <4>2. txCur # txTail BY ONLY <4>1, <1>3
      <4>3. txCur = 0 /\ txTail = N - 1 BY <4>2, <1>1, <1>10 DEF Bounded
      <4>4. End = 1 BY <3>2, <4>3, <1>3 DEF End, Succ
      <4> QED BY ONLY <4>1, <4>3, <4>4, <2>1, <1>3 DEF Dist
    <3> QED BY <3>1, <3>2
  <2>12. pc \in {"fill", "tail"} => Dist(txHead', txCur, N) <= N - 2
    <3>1. SUFFICES ASSUME pc \in {"fill", "tail"}
                   PROVE  Dist(txHead', txCur, N) <= N - 2
      OBVIOUS
    <3>2. Dist(txHead', txCur, N) = Dist(txHead, txCur, N) - 1
      BY ONLY <2>11, <3>1, <1>3, DistNear
    <3>3. Dist(txHead, txCur, N) \in 0 .. N - 1 BY ONLY <1>3, DistIn
    <3> QED BY ONLY <3>2, <3>3, <1>3
  <2>13. Dist(txHead', txTail, N) <= Dist(txHead', End', N)
    BY ONLY <1>2, <1>5, <1>6, <1>7, <2>1, <2>4
  <2>14. UNCHANGED <<pc, accepted, txCur, txTail>> OBVIOUS
  <2>15. /\ pc \notin {"fill", "tail"} => txCur = txTail
         /\ accepted > 1 => txCur = txTail
         /\ txCur # txTail => txCur = 0 /\ txTail = N - 1
    BY <1>10, <1>1 DEF Bounded
  <2>16. Bounded'
    BY ONLY <1>3, <1>10, <2>12, <2>13, <2>14, <2>15 DEF Bounded
  <2> QED BY <2>10, <2>16
<1> QED BY <1>9, <1>10

LEMMA TypesStep == TypeOK /\ RxInv /\ [Next]_vars => TxOK'
<1> SUFFICES ASSUME TypeOK, RxInv, [Next]_vars PROVE TxOK' OBVIOUS
<1> USE E1000Assumption DEF TypeOK, TxOK, TxSlots, tx
<1>1. CASE SetUpRings BY <1>1 DEF SetUpRings
<1>2. CASE GetMAC \/ Activate \/ Unmask
  BY <1>2 DEF GetMAC, Activate, Unmask
<1>3. CASE SendPacket BY <1>3 DEF SendPacket
<1>4. CASE Fill BY <1>4 DEF Fill
<1>5. CASE WriteTail
  <2>0. TXBufferNum \in Nat \ {0} /\ txCur \in 0 .. TXBufferNum - 1 OBVIOUS
  <2>1. Succ(txCur, TXBufferNum) \in TxSlots BY ONLY <2>0, SuccIn DEF TxSlots
  <2> QED BY <1>5, <2>1 DEF WriteTail, FilledUpTo
<1>6. CASE Transmit
  <2> DEFINE e == [packet |-> txDesc[txHead], contents |-> mem[TxCell(txHead)]]
  <2>1. txHead' \in TxSlots BY <1>6, SuccIn DEF Transmit
  <2>2. stale' \subseteq TxSlots BY <1>6 DEF Transmit
  <2>3. sent' \in Seq([packet : 1 .. MaxSends, contents : 0 .. MaxSends])
    <3>1. CASE txDesc[txHead] = 0 BY <1>6, <3>1 DEF Transmit
    <3>2. CASE txDesc[txHead] # 0
      <4>1. txDesc[txHead] \in 1 .. MaxSends BY <3>2
      <4>2. TxCell(txHead) \in Cells
        <5>1. TXBufferNum \in Nat /\ RXBufferNum \in Nat /\ PageCells \in Nat OBVIOUS
        <5>2. txHead \in 0 .. TXBufferNum - 1 OBVIOUS
        <5> QED BY ONLY <5>1, <5>2 DEF TxCell, Cells
      <4>3. mem[TxCell(txHead)] \in 0 .. MaxSends BY <4>2
      <4>4. e \in [packet : 1 .. MaxSends, contents : 0 .. MaxSends]
        BY <4>1, <4>3
      <4>5. sent' = Append(sent, e) BY <1>6, <3>2 DEF Transmit
      <4> HIDE DEF e
      <4> QED BY <4>4, <4>5
    <3> QED BY <3>1, <3>2
  <2>4. UNCHANGED <<txTail, txCur, txDesc, mem, accepted>> BY <1>6 DEF Transmit
  <2> QED BY <2>1, <2>2, <2>3, <2>4
<1>7. CASE Receive
  <2>0. 0 \in 0 .. MaxSends OBVIOUS
  <2>1. mem' \in [Cells -> 0 .. MaxSends] BY <1>7, <2>0 DEF Receive
  <2>2. UNCHANGED tx BY <1>7 DEF Receive
  <2> QED BY <2>1, <2>2
<1>8. CASE LinkChange \/ Interrupt \/ ReadHead \/ TakeFrame \/ GiveBack
  BY <1>8 DEF LinkChange, Interrupt, ReadHead, TakeFrame, GiveBack
<1>9. CASE UNCHANGED vars BY <1>9 DEF vars
<1> QED
  BY <1>1, <1>2, <1>3, <1>4, <1>5, <1>6, <1>7, <1>8, <1>9 DEF Next, Driver, Handler

LEMMA TypesMeet == RxInv /\ TxOK => TypeOK
<1> SUFFICES ASSUME RxInv, TxOK PROVE TypeOK OBVIOUS
<1> USE E1000Assumption DEF RxInv, SetupOK, RxOK, TxOK
<1>1. Dist(rxCur, rxHead, RXBufferNum) \in 0 .. RXBufferNum - 1
  BY DistIn DEF RxSlots
<1>2. arrived - consumed = Dist(rxCur, rxHead, RXBufferNum) BY DEF TakenFirst
<1>3. consumed \in 0 .. MaxFrames BY <1>1, <1>2
<1> QED BY <1>3 DEF TypeOK

(* Every variable keeps its type, for rings of any size.                   *)
THEOREM Typed == Spec => []TypeOK
<1>1. Init => RxInv /\ TxOK BY RxInit, TxInit DEF TxInv
<1>2. RxInv /\ TxOK /\ [Next]_vars => (RxInv /\ TxOK)'
  BY RxStep, TypesMeet, TypesStep
<1> QED BY <1>1, <1>2, TypesMeet, PTL DEF Spec

----------------------------------------------------------------------------
LEMMA TxSetUp ==
  ASSUME TxInv, SetUpRings PROVE InOrder'
<1> USE E1000Assumption DEF TxInv, SetupOK, TxOK, TxSlots, SetUpRings
<1> SUFFICES ASSUME ~raced' PROVE Ordered' /\ Bounded' BY DEF InOrder
<1>1. ~raced /\ Ordered /\ Bounded BY DEF InOrder
<1>2. accepted = 0 BY <1>1 DEF Bounded
<1>3. End' = End /\ Filled' = Filled BY DEF End, Filled
<1>4. \A i \in TxSlots : Holds(i)' = Holds(i) BY <1>3 DEF Holds
<1>5. Ordered' BY <1>1, <1>3, <1>4 DEF Ordered
<1>6. Bounded' BY <1>1, <1>2 DEF Bounded
<1> QED BY <1>5, <1>6

LEMMA TxStep == RxInv /\ TxInv /\ [Next]_vars => InOrder'
<1> SUFFICES ASSUME RxInv, TxInv, [Next]_vars PROVE InOrder' OBVIOUS
<1>1. CASE GetMAC \/ Activate \/ Unmask
  BY <1>1, TxSame DEF GetMAC, Activate, Unmask
<1>2. CASE Receive \/ LinkChange
  BY <1>2, TxSame DEF Receive, LinkChange
<1>3. CASE Handler
  BY <1>3, TxSame DEF Handler, Interrupt, ReadHead, TakeFrame, GiveBack
<1>4. CASE UNCHANGED vars BY <1>4, TxSame DEF vars
<1> QED
  BY <1>1, <1>2, <1>3, <1>4, TxSetUp, TxSend, TxFill, TxWriteTail, TxTransmit
  DEF Next, Driver

LEMMA TxSafe == TxInv => SentOnceInOrder
<1> SUFFICES ASSUME TxInv, ~raced
             PROVE  /\ Len(sent) <= accepted
                    /\ \A k \in 1 .. Len(sent) : sent[k].packet = k
                    /\ pc = "fill" => ~Owned(txCur)
  BY DEF SentOnceInOrder
<1> USE E1000Assumption DEF TxInv, SetupOK, TxOK, TxSlots
<1> DEFINE N == TXBufferNum
<1>1. Ordered /\ Bounded BY DEF InOrder
<1>2. /\ N \in Nat \ {0} /\ txHead \in 0 .. N - 1 /\ txCur \in 0 .. N - 1
      /\ txTail \in 0 .. N - 1
  OBVIOUS
<1>3. End \in 0 .. N - 1
  <2>1. Succ(txCur, N) \in 0 .. N - 1 BY ONLY <1>2, SuccIn
  <2> QED BY <2>1 DEF End
<1>4. Dist(txHead, End, N) \in 0 .. N - 1 BY ONLY <1>2, <1>3, DistIn
<1>5. Filled \in Nat /\ Filled <= accepted BY DEF Filled
<1>6. Len(sent) <= accepted BY <1>1, <1>4, <1>5 DEF Ordered
<1>7. pc = "fill" => ~Owned(txCur)
  <2>1. SUFFICES ASSUME pc = "fill" PROVE ~Owned(txCur) OBVIOUS
  <2>2. Dist(txHead, txTail, N) <= Dist(txHead, txCur, N)
    BY <1>1, <2>1 DEF Bounded, End
  <2>3. Dist(txHead, txTail, N) \in 0 .. N - 1 BY ONLY <1>2, DistIn
  <2>4. Dist(txHead, txCur, N) \in 0 .. N - 1 BY ONLY <1>2, DistIn
  <2> QED BY ONLY <2>2, <2>3, <2>4 DEF Owned
<1> QED BY <1>1, <1>6, <1>7 DEF Ordered

(* Unless the first packet meets the card among the slots nobody has       *)
(* filled, sendPacket's packets (E1000.swift:298) go out once each and in  *)
(* order, and no slot is written while the card owns it.                   *)
THEOREM PacketsInOrder == Spec => []SentOnceInOrder
<1>1. Init => RxInv /\ TxInv BY RxInit, TxInit
<1>2. RxInv /\ TxInv /\ [Next]_vars => (RxInv /\ TxInv)'
  <2>1. SUFFICES ASSUME RxInv, TxInv, [Next]_vars PROVE RxInv' /\ TxInv' OBVIOUS
  <2>2. RxInv' BY <2>1, RxStep
  <2>3. TypeOK BY <2>1, TypesMeet DEF TxInv
  <2>4. TxOK' BY <2>1, <2>3, TypesStep
  <2>5. InOrder' BY <2>1, TxStep
  <2> QED BY <2>2, <2>4, <2>5 DEF TxInv, RxInv
<1> QED BY <1>1, <1>2, TxSafe, PTL DEF Spec

----------------------------------------------------------------------------
(* The cells a packet or a frame may have been written to, and what the    *)
(* slots that were filled hold as long as no frame left RXBuffer's page.   *)
Placed ==
  /\ txCur <= accepted
  /\ pc \in {"fill", "tail"} => txCur < accepted
  /\ rxHead <= arrived
  /\ arrived <= PageCells =>
       /\ \A i \in TxSlots : txDesc[i] # 0 => mem[TxCell(i)] = txDesc[i]
       /\ \A k \in 1 .. Len(sent) : sent[k].contents = sent[k].packet
       /\ accepted <= PageCells =>
            \A c \in Cells : c >= 2 * PageCells => mem[c] = 0

LEMMA PlacedInit == Init => Placed
<1> SUFFICES ASSUME Init PROVE Placed OBVIOUS
<1>1. Len(sent) = 0 BY DEF Init
<1> QED BY <1>1, E1000Assumption DEF Init, Placed

LEMMA PlacedStep == TypeOK /\ Placed /\ [Next]_vars => Placed'
<1> SUFFICES ASSUME TypeOK, Placed, [Next]_vars PROVE Placed' OBVIOUS
<1> USE E1000Assumption DEF TypeOK, Placed, TxSlots, RxSlots, tx, rx
<1>1. CASE SetUpRings BY <1>1 DEF SetUpRings
<1>2. CASE GetMAC \/ Activate \/ Unmask BY <1>2 DEF GetMAC, Activate, Unmask
<1>3. CASE SendPacket
  <2>1. /\ UNCHANGED <<txCur, rxHead, arrived, sent, mem, txDesc>>
        /\ pc' = "fill" /\ accepted' = accepted + 1
    BY <1>3 DEF SendPacket
  <2>2. ASSUME accepted' <= PageCells PROVE accepted <= PageCells BY <2>1, <2>2
  <2>3. txCur' < accepted' /\ rxHead' <= arrived' BY <2>1
  <2>4. ASSUME arrived' <= PageCells
        PROVE  /\ \A i \in TxSlots : txDesc'[i] # 0 => mem'[TxCell(i)] = txDesc'[i]
               /\ \A k \in 1 .. Len(sent') : sent'[k].contents = sent'[k].packet
    BY <2>1, <2>4
  <2>5. ASSUME arrived' <= PageCells, accepted' <= PageCells
        PROVE  \A c \in Cells : c >= 2 * PageCells => mem'[c] = 0
    BY <2>1, <2>2, <2>5
  <2>6. txCur' <= accepted' BY <2>1
  <2> QED BY <2>3, <2>4, <2>5, <2>6
<1>4. CASE Fill
  <2>0. pc = "fill" /\ pc' = "tail" BY <1>4 DEF Fill
  <2>1. /\ UNCHANGED <<txCur, accepted, rxHead, arrived, sent>> /\ pc' = "tail"
        /\ txCur < accepted
    <3>1. txCur < accepted BY <2>0
    <3>2. UNCHANGED <<txCur, accepted, rxHead, arrived, sent>> BY <1>4 DEF Fill
    <3> QED BY <2>0, <3>1, <3>2
  <2>2. \A i \in TxSlots : i # txCur => TxCell(i) # TxCell(txCur)
    BY DEF TxCell
  <2>3. TxCell(txCur) < accepted + PageCells /\ TxCell(txCur) \in Nat BY <2>1 DEF TxCell
  <2>4. \A i \in TxSlots : TxCell(i) \in Cells BY DEF TxCell, Cells
  <2>5. mem' = [mem EXCEPT ![TxCell(txCur)] = accepted]
        /\ txDesc' = [txDesc EXCEPT ![txCur] = accepted]
    BY <1>4 DEF Fill
  <2>6. ASSUME arrived <= PageCells, NEW i \in TxSlots, txDesc'[i] # 0
        PROVE  mem'[TxCell(i)] = txDesc'[i]
    BY <2>2, <2>4, <2>5, <2>6
  <2>7. ASSUME arrived <= PageCells, accepted <= PageCells, NEW c \in Cells,
               c >= 2 * PageCells
        PROVE  mem'[c] = 0
    <3>1. c # TxCell(txCur) BY <2>3, <2>7 DEF Cells
    <3>2. mem[c] = 0 BY <2>7
    <3> QED BY <2>5, <2>7, <3>1, <3>2
  <2> QED BY <2>1, <2>6, <2>7
<1>5. CASE WriteTail
  <2>1. Succ(txCur, TXBufferNum) <= txCur + 1 /\ Succ(txCur, TXBufferNum) \in Nat
    BY DEF Succ
  <2> QED BY <1>5, <2>1 DEF WriteTail
<1>6. CASE Transmit
  <2> DEFINE e == [packet |-> txDesc[txHead], contents |-> mem[TxCell(txHead)]]
  <2>1. UNCHANGED <<pc, txCur, accepted, rxHead, arrived, txDesc, mem>>
    BY <1>6 DEF Transmit
  <2>2. ASSUME arrived <= PageCells, NEW k \in 1 .. Len(sent')
        PROVE  sent'[k].contents = sent'[k].packet
    <3>1. CASE txDesc[txHead] = 0 BY <1>6, <2>2, <3>1 DEF Transmit
    <3>2. CASE txDesc[txHead] # 0
      <4>1. sent' = Append(sent, e) BY <1>6, <3>2 DEF Transmit
      <4>2. e.contents = e.packet BY <2>2, <3>2
      <4>3. \A j \in 1 .. Len(sent) : sent[j].contents = sent[j].packet BY <2>2
      <4> HIDE DEF e
      <4>4. Len(sent') = Len(sent) + 1 /\ Len(sent) \in Nat BY <4>1
      <4>5. sent'[Len(sent) + 1] = e BY <4>1
      <4>6. \A j \in 1 .. Len(sent) : sent'[j] = sent[j] BY <4>1
      <4>7. k \in 1 .. Len(sent) \/ k = Len(sent) + 1 BY ONLY <2>2, <4>4
      <4> QED BY ONLY <4>2, <4>3, <4>5, <4>6, <4>7
    <3> QED BY <3>1, <3>2
  <2> QED BY <2>1, <2>2
<1>7. CASE Receive
  <2>1. /\ UNCHANGED <<pc, txCur, accepted, txDesc, sent>> /\ arrived' = arrived + 1
        /\ mem' = [mem EXCEPT ![rxHead] = 0]
    BY <1>7 DEF Receive, RxCell
  <2>2. rxHead' <= arrived'
    <3>1. Succ(rxHead, RXBufferNum) <= rxHead + 1 BY DEF Succ
    <3> QED BY <1>7, <3>1 DEF Receive, Succ
  <2>3. ASSUME arrived' <= PageCells PROVE arrived <= PageCells /\ rxHead < PageCells
    BY <2>1, <2>3
  <2>4. \A i \in TxSlots : TxCell(i) >= PageCells /\ TxCell(i) \in Cells
    BY DEF TxCell, Cells
  <2>5. ASSUME arrived' <= PageCells, NEW i \in TxSlots, txDesc[i] # 0
        PROVE  mem'[TxCell(i)] = txDesc[i]
    BY <2>1, <2>3, <2>4, <2>5
  <2>6. ASSUME arrived' <= PageCells, accepted <= PageCells, NEW c \in Cells,
               c >= 2 * PageCells
        PROVE  mem'[c] = 0
    BY <2>1, <2>3, <2>6
  <2> QED BY <2>1, <2>2, <2>3, <2>5, <2>6
<1>8. CASE LinkChange \/ Interrupt \/ ReadHead
  BY <1>8 DEF LinkChange, Interrupt, ReadHead
<1>9. CASE TakeFrame \/ GiveBack BY <1>9 DEF TakeFrame, GiveBack
<1>10. CASE UNCHANGED vars BY <1>10 DEF vars
<1> QED
  BY <1>1, <1>2, <1>3, <1>4, <1>5, <1>6, <1>7, <1>8, <1>9, <1>10
  DEF Next, Driver, Handler

(* Until more frames have arrived than the page of the receive buffer      *)
(* holds (E1000.swift:137, 210), packets go out unchanged and nothing      *)
(* behind the two pages is written, wherever the card and the driver are.  *)
THEOREM ContentsSafe == Spec => []ContentsKept
<1>1. Spec => []Placed
  <2>1. Spec => []TypeOK BY Typed
  <2> QED BY <2>1, PlacedInit, PlacedStep, PTL DEF Spec
<1>2. Placed => ContentsKept BY DEF Placed, ContentsKept
<1> QED BY <1>1, <1>2, PTL
=============================================================================
