---------------------------- MODULE ReliableLink ----------------------------
(***************************************************************************)
(* The reliable inter-board link of rtl/ReliableLink.bsv: two link ends    *)
(* that exchange packets over a 10G MAC that may drop whole packets (CRC   *)
(* error, buffer overflow) but neither reorders nor duplicates them.  Each *)
(* end is a transmitter with a ring of unacknowledged items, a retransmit  *)
(* timer and a receiver; acknowledgements ride in the packet headers.      *)
(*                                                                         *)
(* The registers nextPtr, ackPtr, backPtr and nextItemToRecv are           *)
(* LogTransmitBufferSize bits wide.  The variables below hold the number   *)
(* of items they have counted since reset; Ptr(n) is what the register     *)
(* holds, and every comparison, difference and buffer access of the code   *)
(* is made on Ptr.  As in ReliableStream, the k-th item of a stream is k.  *)
(*                                                                         *)
(* The cycle counts of the code (LinkTimeout, 40 idle cycles between empty *)
(* acknowledgements) are abstracted: the timer may expire at any time it   *)
(* runs, an empty acknowledgement may be sent at any time there is nothing *)
(* else to send.  unsentReg lags backPtr by one cycle, which is the same   *)
(* as the item being enqueued one cycle later.                             *)
(***************************************************************************)
EXTENDS Integers, Sequences

CONSTANTS
  TransmitBufferSize,  \* 2^LogTransmitBufferSize
  TransmitBound,       \* most items in one packet
  RecvBufferSize,      \* 2^LogReliableLinkRecvBufferSize
  MinBody,             \* a frame is padded to at least this many body beats
  WireCap,             \* bound: most packets in flight from each end
  MaxItems             \* bound: most items sent in the direction of each end

Ends == {"A", "B"}
Peer(e) == IF e = "A" THEN "B" ELSE "A"

ASSUME SizeAssumption ==
  /\ TransmitBufferSize \in Nat /\ TransmitBufferSize > 1
  /\ TransmitBound \in Nat \ {0}
  /\ RecvBufferSize \in Nat /\ TransmitBound < RecvBufferSize
  /\ MinBody \in Nat

ASSUME BoundAssumption ==
  /\ WireCap \in [Ends -> Nat]
  /\ MaxItems \in [Ends -> Nat]

VARIABLES
  next, ack, back,      \* nextPtr, ackPtr, backPtr of each transmit buffer
  contents,             \* contents of each transmit buffer's RAM
  timeoutFlag,
  txState, numItemsToSend,
  txPkt,                \* the packet being put to the MAC, as far as it got
  wire,                 \* wire[e]: whole packets on their way from e
  recv,                 \* nextItemToRecv
  rxState, numItemsToRecv,
  rxBody,               \* beats after the header still to come from the MAC
  receiveCount, receiveBuffer,
  delivered             \* history: the items taken from streamOut

txVars == <<next, ack, back, contents, timeoutFlag, txState, numItemsToSend,
            txPkt>>
rxVars == <<recv, rxState, numItemsToRecv, rxBody, receiveCount,
            receiveBuffer, delivered>>
vars == <<next, ack, back, contents, timeoutFlag, txState, numItemsToSend,
          txPkt, wire, recv, rxState, numItemsToRecv, rxBody, receiveCount,
          receiveBuffer, delivered>>

-----------------------------------------------------------------------------
(* Pointers and packets                                                    *)

Ptr(n) == n % TransmitBufferSize

\* A beat that is no item: RAM never written, or padding of a short frame.
NoItem == -1

\* The header fields are counts, like the registers they are copied from.
Packet == [numItems : Nat, seqNum : Nat, ack : Nat, body : Seq(Int)]

\* txPkt between two packets.
NoPacket == [numItems |-> 0, seqNum |-> 0, ack |-> 0, body |-> <<>>]

\* The MAC pads a short frame (Mac.bsv, emitPadding).
Padded(body) ==
  body \o [i \in 1 .. (IF Len(body) < MinBody THEN MinBody - Len(body) ELSE 0)
              |-> NoItem]

Pad(pkt) == [pkt EXCEPT !.body = Padded(pkt.body)]

Init ==
  /\ next = [e \in Ends |-> 0]
  /\ ack = [e \in Ends |-> 0]
  /\ back = [e \in Ends |-> 0]
  /\ contents = [e \in Ends |-> [i \in 0 .. TransmitBufferSize - 1 |-> NoItem]]
  /\ timeoutFlag = [e \in Ends |-> FALSE]
  /\ txState = [e \in Ends |-> 0]
  /\ numItemsToSend = [e \in Ends |-> 0]
  /\ txPkt = [e \in Ends |-> NoPacket]
  /\ wire = [e \in Ends |-> <<>>]
  /\ recv = [e \in Ends |-> 0]
  /\ rxState = [e \in Ends |-> 0]
  /\ numItemsToRecv = [e \in Ends |-> 0]
  /\ rxBody = [e \in Ends |-> <<>>]
  /\ receiveCount = [e \in Ends |-> 0]
  /\ receiveBuffer = [e \in Ends |-> <<>>]
  /\ delivered = [e \in Ends |-> <<>>]

-----------------------------------------------------------------------------
(* Transmitter                                                             *)

\* Faults for the mutation check of CanEnq: only one of the two pointers that
\* bound the ring is respected.
CanEnqIgnoringAck(e) == Ptr(back[e] + 1) # Ptr(next[e])
CanEnqIgnoringNext(e) == Ptr(back[e] + 1) # Ptr(ack[e])

\* TransmitBuffer.canEnq: a free slot ahead of both ackPtr and nextPtr.
CanEnq(e) == /\ Ptr(back[e] + 1) # Ptr(ack[e])
             /\ Ptr(back[e] + 1) # Ptr(next[e])

\* rule fillTransmitBuffer and TransmitBuffer.enq: accept an item of streamIn.
FillTransmitBuffer(e) ==
  /\ back[e] < MaxItems[e]
  /\ CanEnq(e)
  /\ contents' = [contents EXCEPT ![e][Ptr(back[e])] = back[e]]
  /\ back' = [back EXCEPT ![e] = @ + 1]
  /\ UNCHANGED <<next, ack, timeoutFlag, txState, numItemsToSend, txPkt,
                 wire, rxVars>>

\* rule updateTimer: the timer runs while something is unacknowledged.
TimerExpires(e) ==
  /\ Ptr(ack[e]) # Ptr(back[e])
  /\ ~ timeoutFlag[e]
  /\ timeoutFlag' = [timeoutFlag EXCEPT ![e] = TRUE]
  /\ UNCHANGED <<next, ack, back, contents, txState, numItemsToSend, txPkt,
                 wire, rxVars>>

Unsent(e) == (back[e] - next[e]) % TransmitBufferSize

ToSend(e) == IF Unsent(e) > TransmitBound THEN TransmitBound ELSE Unsent(e)

\* rule transmit0: first header beat, with a piggy-backed acknowledgement.
Transmit0(e) ==
  /\ txState[e] = 0
  /\ Len(wire[e]) < WireCap[e]
  /\ numItemsToSend' = [numItemsToSend EXCEPT ![e] = ToSend(e)]
  /\ txPkt' = [txPkt EXCEPT ![e] = [numItems |-> ToSend(e),
                                    seqNum   |-> next[e],
                                    ack      |-> recv[e],
                                    body     |-> <<>>]]
  /\ txState' = [txState EXCEPT ![e] = 1]
  /\ UNCHANGED <<next, ack, back, contents, timeoutFlag, wire, rxVars>>

\* Fault for the mutation check: a timeout does not restart transmission.
AfterPacketNoRestart(e, ptr) == ptr

\* rule readNext, where a packet ends (enableTimeout): after a timeout the
\* next packet starts again at the first unacknowledged item.
AfterPacket(e, ptr) == IF timeoutFlag[e] THEN ack[e] ELSE ptr

\* rule transmit1: second header beat, the last one of an empty packet.
Transmit1(e) ==
  /\ txState[e] = 1
  /\ \/ /\ numItemsToSend[e] = 0
        /\ txState' = [txState EXCEPT ![e] = 0]
        /\ wire' = [wire EXCEPT ![e] = Append(@, Pad(txPkt[e]))]
        /\ txPkt' = [txPkt EXCEPT ![e] = NoPacket]
        /\ next' = [next EXCEPT ![e] = AfterPacket(e, next[e])]
        /\ timeoutFlag' = [timeoutFlag EXCEPT ![e] = FALSE]
     \/ /\ numItemsToSend[e] # 0
        /\ txState' = [txState EXCEPT ![e] = 2]
        /\ UNCHANGED <<wire, txPkt, next, timeoutFlag>>
  /\ UNCHANGED <<ack, back, contents, numItemsToSend, rxVars>>

\* The packet under construction with the item at nextPtr added.
WithNextItem(e) ==
  [txPkt[e] EXCEPT !.body = Append(@, contents[e][Ptr(next[e])])]

\* rule transmit2: one body beat.
Transmit2(e) ==
  /\ txState[e] = 2
  /\ numItemsToSend' = [numItemsToSend EXCEPT ![e] = @ - 1]
  /\ \/ /\ numItemsToSend[e] = 1
        /\ txState' = [txState EXCEPT ![e] = 0]
        /\ wire' = [wire EXCEPT ![e] = Append(@, Pad(WithNextItem(e)))]
        /\ txPkt' = [txPkt EXCEPT ![e] = NoPacket]
        /\ next' = [next EXCEPT ![e] = AfterPacket(e, next[e] + 1)]
        /\ timeoutFlag' = [timeoutFlag EXCEPT ![e] = FALSE]
     \/ /\ numItemsToSend[e] # 1
        /\ txPkt' = [txPkt EXCEPT ![e] = WithNextItem(e)]
        /\ next' = [next EXCEPT ![e] = @ + 1]
        /\ UNCHANGED <<txState, wire, timeoutFlag>>
  /\ UNCHANGED <<ack, back, contents, rxVars>>

-----------------------------------------------------------------------------
(* The wire                                                                *)

\* The MAC drops a packet (Mac.bsv: bad CRC, overflow; random in simulation).
\* The loss takes effect when the receiver would have got the packet.
Lose(e) ==
  /\ rxState[Peer(e)] = 0
  /\ wire[e] # <<>>
  /\ wire' = [wire EXCEPT ![e] = Tail(@)]
  /\ UNCHANGED <<txVars, rxVars>>

-----------------------------------------------------------------------------
(* Receiver                                                                *)

\* Faults for the mutation check of Space: no credit at all, or room for one
\* item taken for room for a packet.
SpaceUnchecked(e) == TRUE
SpaceForOne(e) == RecvBufferSize > receiveCount[e]

\* receiveCount.available > TransmitBound
Space(e) == RecvBufferSize - receiveCount[e] > TransmitBound

\* Faults for the mutation check of Acceptable: the sequence number is not
\* compared, or a packet after a gap is taken.
AcceptableAnySeq(e, h) == h.numItems # 0 /\ Space(e)
AcceptableAfterGap(e, h) ==
  h.numItems # 0 /\ h.seqNum >= recv[e] /\ Space(e)

\* rule receive0, the condition for accepting the items of a packet.
Acceptable(e, h) == /\ h.numItems # 0
                    /\ Ptr(h.seqNum) = Ptr(recv[e])
                    /\ Space(e)

\* rule receive0: take the acknowledgement (TransmitBuffer.ack) and decide
\* whether to accept the items of the packet or to drop them.
Receive0(e) ==
  /\ rxState[e] = 0
  /\ wire[Peer(e)] # <<>>
  /\ LET h == Head(wire[Peer(e)]) IN
     /\ ack' = [ack EXCEPT ![e] = h.ack]
     /\ timeoutFlag' = [timeoutFlag EXCEPT ![e] =
                          @ /\ Ptr(h.ack) = Ptr(ack[e])
                            /\ Ptr(h.ack) # Ptr(back[e])]
     /\ \/ /\ Acceptable(e, h)
           /\ numItemsToRecv' = [numItemsToRecv EXCEPT ![e] = h.numItems]
           /\ recv' = [recv EXCEPT ![e] = @ + h.numItems]
           /\ receiveCount' = [receiveCount EXCEPT ![e] = @ + h.numItems]
        \/ /\ ~ Acceptable(e, h)
           /\ numItemsToRecv' = [numItemsToRecv EXCEPT ![e] = 0]
           /\ UNCHANGED <<recv, receiveCount>>
     /\ rxBody' = [rxBody EXCEPT ![e] = h.body]
  /\ rxState' = [rxState EXCEPT ![e] = 1]
  /\ wire' = [wire EXCEPT ![Peer(e)] = Tail(@)]
  /\ UNCHANGED <<next, back, contents, txState, numItemsToSend, txPkt,
                 receiveBuffer, delivered>>

\* rule receive1: ignore the second header beat.
Receive1(e) ==
  /\ rxState[e] = 1
  /\ rxState' = [rxState EXCEPT ![e] = IF rxBody[e] = <<>> THEN 0 ELSE 2]
  /\ UNCHANGED <<txVars, wire, recv, numItemsToRecv, rxBody, receiveCount,
                 receiveBuffer, delivered>>

\* rule receive2: keep an item, or ignore a beat of padding or of a dropped
\* packet.
Receive2(e) ==
  /\ rxState[e] = 2
  /\ \/ /\ numItemsToRecv[e] # 0
        /\ receiveBuffer' = [receiveBuffer EXCEPT ![e] =
                               Append(@, Head(rxBody[e]))]
        /\ numItemsToRecv' = [numItemsToRecv EXCEPT ![e] = @ - 1]
     \/ /\ numItemsToRecv[e] = 0
        /\ UNCHANGED <<receiveBuffer, numItemsToRecv>>
  /\ rxBody' = [rxBody EXCEPT ![e] = Tail(@)]
  /\ rxState' = [rxState EXCEPT ![e] = IF Len(rxBody[e]) = 1 THEN 0 ELSE 2]
  /\ UNCHANGED <<txVars, wire, recv, receiveCount, delivered>>

\* streamOut.get: the user takes an item.
StreamOutGet(e) ==
  /\ receiveBuffer[e] # <<>>
  /\ delivered' = [delivered EXCEPT ![e] = Append(@, Head(receiveBuffer[e]))]
  /\ receiveBuffer' = [receiveBuffer EXCEPT ![e] = Tail(@)]
  /\ receiveCount' = [receiveCount EXCEPT ![e] = @ - 1]
  /\ UNCHANGED <<txVars, wire, recv, rxState, numItemsToRecv, rxBody>>

-----------------------------------------------------------------------------

Next == \E e \in Ends :
  \/ FillTransmitBuffer(e) \/ TimerExpires(e)
  \/ Transmit0(e) \/ Transmit1(e) \/ Transmit2(e)
  \/ Lose(e)
  \/ Receive0(e) \/ Receive1(e) \/ Receive2(e) \/ StreamOutGet(e)

Spec == Init /\ [][Next]_vars

(***************************************************************************)
(* Fairness.  Every rule of the design fires whenever it can (a clocked    *)
(* circuit), and the user of streamOut keeps taking items.  The wire is    *)
(* lossy but not dead: a packet that would be accepted, or whose           *)
(* acknowledgement is news, is not lost for ever.                          *)
(***************************************************************************)
Accept(e) == Receive0(e) /\ recv'[e] # recv[e]
Acknowledge(e) == Receive0(e) /\ ack'[e] # ack[e]

Fairness == \A e \in Ends :
  /\ WF_vars(TimerExpires(e))
  /\ WF_vars(Transmit0(e)) /\ WF_vars(Transmit1(e)) /\ WF_vars(Transmit2(e))
  /\ WF_vars(Receive0(e)) /\ WF_vars(Receive1(e)) /\ WF_vars(Receive2(e))
  /\ WF_vars(StreamOutGet(e))
  /\ SF_vars(Accept(e))
  /\ SF_vars(Acknowledge(e))

FairSpec == Spec /\ Fairness

-----------------------------------------------------------------------------
(* Properties                                                              *)

\* A packet carries the items its header announces.
Intact(p) ==
  /\ Len(p.body) >= p.numItems
  /\ \A k \in 1 .. p.numItems : p.body[k] = p.seqNum + k - 1

\* Every register has its type: the states of the two machines, counts, and
\* packets of at most TransmitBound items.
TypeOK ==
  /\ next \in [Ends -> Nat] /\ ack \in [Ends -> Nat] /\ back \in [Ends -> Nat]
  /\ contents \in [Ends -> [0 .. TransmitBufferSize - 1 -> Int]]
  /\ timeoutFlag \in [Ends -> BOOLEAN]
  /\ txState \in [Ends -> 0 .. 2]
  /\ numItemsToSend \in [Ends -> 0 .. TransmitBound]
  /\ txPkt \in [Ends -> Packet]
  /\ wire \in [Ends -> Seq(Packet)]
  /\ recv \in [Ends -> Nat]
  /\ rxState \in [Ends -> 0 .. 2]
  /\ numItemsToRecv \in [Ends -> 0 .. TransmitBound]
  /\ rxBody \in [Ends -> Seq(Int)]
  /\ receiveCount \in [Ends -> 0 .. RecvBufferSize]
  /\ receiveBuffer \in [Ends -> Seq(Int)]
  /\ delivered \in [Ends -> Seq(Int)]

\* The assertion "Receive buffer overflow!" of rule receive2 never fails: the
\* credit taken when the header is accepted covers every beat of the body,
\* whatever the user of streamOut does meanwhile.
NoReceiveOverflow == \A e \in Ends :
  rxState[e] = 2 /\ numItemsToRecv[e] # 0 =>
    Len(receiveBuffer[e]) < RecvBufferSize

\* The finite sequence numbers are unambiguous: when a header matches
\* nextItemToRecv modulo the buffer size it really is the next item, however
\* old the packet is and however many were lost or sent again before it.
NoAliasing == \A e \in Ends : wire[Peer(e)] # <<>> =>
  LET h == Head(wire[Peer(e)]) IN
    Ptr(h.seqNum) = Ptr(recv[e]) => h.seqNum = recv[e]

\* Every packet on the wire carries the items its header announces, although
\* acknowledgements, refills and timeouts move the pointers of the transmit
\* buffer while the packet is being put together.
PacketsIntact == \A e \in Ends : \A i \in 1 .. Len(wire[e]) :
  Intact(wire[e][i])

\* An end believes acknowledged only what its peer has accepted, and the peer
\* has accepted only what the end has sent; a delayed header never moves an
\* acknowledgement past that.
AckSound == \A e \in Ends :
  /\ ack[e] <= recv[Peer(e)]
  /\ recv[Peer(e)] <= back[e]

\* The link implements a reliable stream in each direction.
StreamAB == INSTANCE ReliableStream WITH
              sent <- back["A"], delivered <- delivered["B"]
StreamBA == INSTANCE ReliableStream WITH
              sent <- back["B"], delivered <- delivered["A"]

\* Streams: what comes out of streamOut of one end is what went into streamIn
\* of the other, in order, with nothing lost, repeated or invented.
Streams == StreamAB!Spec /\ StreamBA!Spec

\* Every item accepted by streamIn is eventually delivered at the other end,
\* although any number of packets is lost.
EventuallyDelivered == \A e \in Ends : \A n \in 1 .. MaxItems[e] :
  back[e] >= n ~> Len(delivered[Peer(e)]) >= n

-----------------------------------------------------------------------------
(***************************************************************************)
(* The inductive invariant.  Direction by direction, with p the peer of e: *)
(*                                                                         *)
(*  - Window: what e may still have to send fits in the ring, whether      *)
(*    counted from the acknowledged or from the next item (after a timeout *)
(*    and a late acknowledgement either may be ahead of the other);        *)
(*  - Ring: the last TransmitBufferSize items are in their slots;          *)
(*  - Sending: the packet under construction is as announced so far, and   *)
(*    what is missing lies before backPtr;                                 *)
(*  - InFlight: packets are as announced, and no packet is so old that its *)
(*    sequence number could be taken for a later one: everything received  *)
(*    when it arrives was sent before it, when it was at most one ring     *)
(*    behind;                                                              *)
(*  - Acks: acknowledgements on the wire are in order and below recv;      *)
(*  - Receiving, Output: the accepted items are in the receive buffer or   *)
(*    in the beats still to come, and the credit accounts for both.        *)
(***************************************************************************)
Window(e) ==
  /\ ack[e] <= recv[Peer(e)]
  /\ recv[Peer(e)] <= back[e]
  /\ next[e] <= back[e]
  /\ back[e] < next[e] + TransmitBufferSize
  /\ back[e] < ack[e] + TransmitBufferSize

Ring(e) == \A k \in 0 .. back[e] - 1 :
  back[e] <= k + TransmitBufferSize => contents[e][Ptr(k)] = k

Sending(e) == txState[e] # 0 =>
  /\ txPkt[e].numItems <= TransmitBound
  /\ Len(txPkt[e].body) + numItemsToSend[e] = txPkt[e].numItems
  /\ txPkt[e].seqNum + Len(txPkt[e].body) = next[e]
  /\ next[e] + numItemsToSend[e] <= back[e]
  /\ txState[e] = 1 => txPkt[e].body = <<>>
  /\ txState[e] = 2 => numItemsToSend[e] > 0
  /\ \A k \in 1 .. Len(txPkt[e].body) :
       txPkt[e].body[k] = txPkt[e].seqNum + k - 1
  /\ recv[Peer(e)] < txPkt[e].seqNum + TransmitBufferSize
  /\ \A i \in 1 .. Len(wire[e]) :
       wire[e][i].seqNum + wire[e][i].numItems
         < txPkt[e].seqNum + TransmitBufferSize

InFlight(e) ==
  /\ \A i \in 1 .. Len(wire[e]) :
       /\ Intact(wire[e][i])
       /\ wire[e][i].numItems <= TransmitBound
       /\ wire[e][i].seqNum + wire[e][i].numItems <= back[e]
       /\ recv[Peer(e)] < wire[e][i].seqNum + TransmitBufferSize
  /\ \A j \in 1 .. Len(wire[e]) : \A i \in 1 .. j - 1 :
       wire[e][i].seqNum + wire[e][i].numItems
         < wire[e][j].seqNum + TransmitBufferSize

Acks(e) ==
  /\ \A i \in 1 .. Len(wire[e]) :
       ack[Peer(e)] <= wire[e][i].ack /\ wire[e][i].ack <= recv[e]
  /\ \A j \in 1 .. Len(wire[e]) : \A i \in 1 .. j - 1 :
       wire[e][i].ack <= wire[e][j].ack
  /\ txState[e] # 0 =>
       /\ ack[Peer(e)] <= txPkt[e].ack /\ txPkt[e].ack <= recv[e]
       /\ \A i \in 1 .. Len(wire[e]) : wire[e][i].ack <= txPkt[e].ack

Receiving(e) ==
  /\ rxState[e] = 0 => numItemsToRecv[e] = 0
  /\ rxState[e] = 2 => rxBody[e] # <<>>
  /\ numItemsToRecv[e] <= Len(rxBody[e])
  /\ \A k \in 1 .. numItemsToRecv[e] :
       rxBody[e][k] = recv[e] - numItemsToRecv[e] + k - 1

Output(e) ==
  /\ receiveCount[e] = Len(receiveBuffer[e]) + numItemsToRecv[e]
  /\ Len(delivered[e]) + receiveCount[e] = recv[e]
  /\ \A i \in 1 .. Len(receiveBuffer[e]) :
       receiveBuffer[e][i] = Len(delivered[e]) + i - 1

IInv ==
  /\ TypeOK
  /\ \A e \in Ends : /\ Window(e) /\ Ring(e) /\ Sending(e) /\ InFlight(e)
                      /\ Acks(e) /\ Receiving(e) /\ Output(e)
=============================================================================
