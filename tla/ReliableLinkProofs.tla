------------------------- MODULE ReliableLinkProofs -------------------------
(***************************************************************************)
(* Proofs about ReliableLink, for every size of the buffers, every bound   *)
(* on packets, every amount of padding and every number of lost packets.   *)
(***************************************************************************)
EXTENDS ReliableLink, CommonTheorems, SequenceTheorems, TLAPS

-----------------------------------------------------------------------------
(* Modular arithmetic                                                      *)

\* A pointer is the number of a slot of the ring.
LEMMA PtrInRing ==
  ASSUME NEW a \in Nat
  PROVE  Ptr(a) \in 0 .. TransmitBufferSize - 1
BY SizeAssumption, ModDiv DEF Ptr

\* Comparing pointers of counts less than a ring apart compares the counts.
LEMMA PtrInjective ==
  ASSUME NEW a \in Nat, NEW b \in Nat, Ptr(a) = Ptr(b),
         a < b + TransmitBufferSize, b < a + TransmitBufferSize
  PROVE  a = b
BY SizeAssumption, ModInjective DEF Ptr

\* Pointers wrap around after a ring.
LEMMA PtrWraps ==
  ASSUME NEW a \in Nat
  PROVE  Ptr(a + TransmitBufferSize) = Ptr(a)
BY SizeAssumption, ModWraps DEF Ptr

\* The difference of two pointers is the difference of the counts.
LEMMA PtrDifference ==
  ASSUME NEW a \in Nat, NEW b \in Nat, b <= a, a < b + TransmitBufferSize
  PROVE  (a - b) % TransmitBufferSize = a - b
BY SizeAssumption

-----------------------------------------------------------------------------
(* Sequences                                                               *)

\* The head of a non-empty sequence is its first element.
LEMMA HeadIsFirst ==
  ASSUME NEW S, NEW s \in Seq(S), s # <<>>
  PROVE  Len(s) \in Nat \ {0} /\ Head(s) = s[1] /\ Head(s) \in S
BY EmptySeq, HeadTailProperties

-----------------------------------------------------------------------------
(* Padding                                                                 *)

\* Padding a frame keeps its items.
LEMMA PadKeepsItems ==
  ASSUME NEW p \in Packet
  PROVE  /\ Pad(p) \in Packet
         /\ Pad(p).numItems = p.numItems
         /\ Pad(p).seqNum = p.seqNum
         /\ Pad(p).ack = p.ack
         /\ Len(Pad(p).body) >= Len(p.body)
         /\ \A k \in 1 .. Len(p.body) : Pad(p).body[k] = p.body[k]
<1> DEFINE n == IF Len(p.body) < MinBody THEN MinBody - Len(p.body) ELSE 0
           z == [i \in 1 .. n |-> NoItem]
<1>1. p.body \in Seq(Int)
  BY DEF Packet
<1>2. n \in Nat
  BY <1>1, SizeAssumption
<1>3. z \in Seq(Int) /\ Len(z) = n
  BY <1>2 DEF NoItem
<1>4. Padded(p.body) = p.body \o z
  BY DEF Padded
<1>5. /\ Padded(p.body) \in Seq(Int)
      /\ Len(Padded(p.body)) >= Len(p.body)
      /\ \A k \in 1 .. Len(p.body) : Padded(p.body)[k] = p.body[k]
  BY <1>1, <1>2, <1>3, <1>4, ConcatProperties
<1>6. QED
  BY <1>5 DEF Pad, Packet

-----------------------------------------------------------------------------
(* The ends                                                                *)

\* The two ends are each other's peer.
LEMMA PeerFacts ==
  \A e \in Ends : /\ Peer(e) \in Ends /\ Peer(e) # e /\ Peer(Peer(e)) = e
                  /\ \A f \in Ends : f = e \/ f = Peer(e)
BY DEF Ends, Peer

\* The sequence-number argument: under the invariant, the header at the head
\* of the wire matches nextItemToRecv only if it is the next item.
LEMMA HeadUnambiguous ==
  ASSUME IInv, NEW e \in Ends, wire[Peer(e)] # <<>>,
         Ptr(Head(wire[Peer(e)]).seqNum) = Ptr(recv[e])
  PROVE  Head(wire[Peer(e)]).seqNum = recv[e]
<1> DEFINE p == Peer(e)
           h == Head(wire[p])
<1>1. p \in Ends /\ Peer(p) = e
  BY PeerFacts
<1>2. /\ wire[p] \in Seq(Packet) /\ Len(wire[p]) \in Nat \ {0}
      /\ h = wire[p][1]
  BY <1>1, HeadIsFirst DEF IInv, TypeOK
<1>3. h \in Packet
  BY <1>2, ElementOfSeq
<1>4. recv[e] < h.seqNum + TransmitBufferSize
  BY <1>1, <1>2 DEF IInv, InFlight
<1>5. h.seqNum + h.numItems <= back[p]
  BY <1>1, <1>2 DEF IInv, InFlight
<1>6. ack[p] <= recv[e] /\ back[p] < ack[p] + TransmitBufferSize
  BY <1>1 DEF IInv, Window
<1>7. /\ h.seqNum \in Nat /\ h.numItems \in Nat
      /\ recv[e] \in Nat /\ ack[p] \in Nat /\ back[p] \in Nat
  BY <1>1, <1>3 DEF IInv, TypeOK, Packet
<1>8. h.seqNum < recv[e] + TransmitBufferSize
  <2> DEFINE s == h.seqNum
             n == h.numItems
             r == recv[e]
             a == ack[p]
             b == back[p]
  <2>1. /\ s \in Nat /\ n \in Nat /\ r \in Nat /\ a \in Nat /\ b \in Nat
        /\ TransmitBufferSize \in Nat
    BY <1>7, SizeAssumption
  <2>2. s + n <= b /\ a <= r /\ b < a + TransmitBufferSize
    BY <1>5, <1>6
  <2> HIDE DEF s, n, r, a, b
  <2>3. s < r + TransmitBufferSize
    BY <2>1, <2>2
  <2>4. QED
    BY <2>3 DEF s, r
<1>9. QED
  BY <1>4, <1>7, <1>8, PtrInjective

-----------------------------------------------------------------------------
(* Each step preserves the invariant                                       *)

Parts(e) == /\ Window(e) /\ Ring(e) /\ Sending(e) /\ InFlight(e)
            /\ Acks(e) /\ Receiving(e) /\ Output(e)

\* The counts of an end are natural numbers, its sequences sequences.
LEMMA TypeFacts ==
  ASSUME TypeOK, NEW e \in Ends
  PROVE  /\ next[e] \in Nat /\ ack[e] \in Nat /\ back[e] \in Nat
         /\ recv[e] \in Nat
         /\ wire[e] \in Seq(Packet) /\ Len(wire[e]) \in Nat
         /\ txPkt[e] \in Packet
         /\ txPkt[e].body \in Seq(Int) /\ Len(txPkt[e].body) \in Nat
         /\ txPkt[e].numItems \in Nat /\ txPkt[e].seqNum \in Nat
         /\ txPkt[e].ack \in Nat
         /\ numItemsToSend[e] \in Nat
         /\ \A i \in 1 .. Len(wire[e]) :
              /\ wire[e][i] \in Packet
              /\ wire[e][i].numItems \in Nat /\ wire[e][i].seqNum \in Nat
              /\ wire[e][i].ack \in Nat /\ wire[e][i].body \in Seq(Int)
<1>1. /\ next[e] \in Nat /\ ack[e] \in Nat /\ back[e] \in Nat
      /\ recv[e] \in Nat /\ wire[e] \in Seq(Packet) /\ txPkt[e] \in Packet
      /\ numItemsToSend[e] \in Nat
  BY SizeAssumption DEF TypeOK
<1>2. \A i \in 1 .. Len(wire[e]) : wire[e][i] \in Packet
  BY <1>1, ElementOfSeq
<1>3. \A p \in Packet : /\ p.numItems \in Nat /\ p.seqNum \in Nat
                        /\ p.ack \in Nat /\ p.body \in Seq(Int)
  BY DEF Packet
<1>4. QED
  BY <1>1, <1>2, <1>3, LenProperties

\* What the invariant says of one end and its peer.
LEMMA PartsFacts ==
  ASSUME IInv, NEW e \in Ends
  PROVE  /\ TypeOK
         /\ Window(e) /\ Ring(e) /\ Sending(e) /\ InFlight(e)
         /\ Acks(e) /\ Receiving(e) /\ Output(e)
BY DEF IInv

(* Each part of the invariant depends on a few variables only.             *)

\* Each part of the invariant depends on the variables it names only:
\* Window on the counts.
LEMMA WindowFrame ==
  ASSUME NEW f \in Ends, Window(f), next'[f] = next[f], ack'[f] = ack[f],
         back'[f] = back[f], recv'[Peer(f)] = recv[Peer(f)]
  PROVE  Window(f)'
BY DEF Window

\* Ring on the RAM and backPtr.
LEMMA RingFrame ==
  ASSUME NEW f \in Ends, Ring(f), back'[f] = back[f],
         contents'[f] = contents[f]
  PROVE  Ring(f)'
BY DEF Ring

\* Sending on the transmitter, the wire and the count of the peer.
LEMMA SendingFrame ==
  ASSUME NEW f \in Ends, Sending(f), txState'[f] = txState[f],
         txPkt'[f] = txPkt[f], numItemsToSend'[f] = numItemsToSend[f],
         next'[f] = next[f], back'[f] = back[f], wire'[f] = wire[f],
         recv'[Peer(f)] = recv[Peer(f)]
  PROVE  Sending(f)'
BY DEF Sending

\* InFlight on the wire, backPtr and the count of the peer.
LEMMA InFlightFrame ==
  ASSUME NEW f \in Ends, InFlight(f), wire'[f] = wire[f], back'[f] = back[f],
         recv'[Peer(f)] = recv[Peer(f)]
  PROVE  InFlight(f)'
BY DEF InFlight, Intact

\* Acks on the wire, the packet under construction and two counts.
LEMMA AcksFrame ==
  ASSUME NEW f \in Ends, Acks(f), wire'[f] = wire[f], recv'[f] = recv[f],
         txState'[f] = txState[f], txPkt'[f] = txPkt[f],
         ack'[Peer(f)] = ack[Peer(f)]
  PROVE  Acks(f)'
BY DEF Acks

\* Receiving on the receive machine.
LEMMA ReceivingFrame ==
  ASSUME NEW f \in Ends, Receiving(f), rxState'[f] = rxState[f],
         numItemsToRecv'[f] = numItemsToRecv[f], rxBody'[f] = rxBody[f],
         recv'[f] = recv[f]
  PROVE  Receiving(f)'
BY DEF Receiving

\* Output on the receive buffer, the credit and the history.
LEMMA OutputFrame ==
  ASSUME NEW f \in Ends, Output(f), receiveCount'[f] = receiveCount[f],
         receiveBuffer'[f] = receiveBuffer[f], delivered'[f] = delivered[f],
         numItemsToRecv'[f] = numItemsToRecv[f], recv'[f] = recv[f]
  PROVE  Output(f)'
BY DEF Output

\* A new item goes into a slot none of the last items is in.
LEMMA FillStep ==
  ASSUME IInv, NEW e \in Ends, FillTransmitBuffer(e)
  PROVE  IInv'
<1>0. /\ TypeOK
      /\ back \in [Ends -> Nat] /\ back[e] \in Nat
      /\ Ptr(back[e]) \in 0 .. TransmitBufferSize - 1
      /\ contents \in [Ends -> [0 .. TransmitBufferSize - 1 -> Int]]
  BY PtrInRing DEF IInv, TypeOK
<1>1. /\ back' = [back EXCEPT ![e] = back[e] + 1]
      /\ contents' = [contents EXCEPT ![e] =
                        [contents[e] EXCEPT ![Ptr(back[e])] = back[e]]]
      /\ CanEnq(e)
      /\ UNCHANGED <<next, ack, timeoutFlag, txState, numItemsToSend, txPkt,
                     wire>>
      /\ UNCHANGED <<recv, rxState, numItemsToRecv, rxBody, receiveCount,
                     receiveBuffer, delivered>>
  BY DEF FillTransmitBuffer, rxVars
<1>2. TypeOK'
  <2>1. back' \in [Ends -> Nat]
    BY <1>0, <1>1
  <2>2. contents' \in [Ends -> [0 .. TransmitBufferSize - 1 -> Int]]
    BY <1>0, <1>1
  <2>3. QED
    BY <1>0, <1>1, <2>1, <2>2 DEF TypeOK
<1>3. /\ back[e] + 1 < ack[e] + TransmitBufferSize
      /\ back[e] + 1 < next[e] + TransmitBufferSize
  <2>1. next[e] \in Nat /\ ack[e] \in Nat
    BY <1>0, TypeFacts
  <2>2. Window(e)
    BY PartsFacts
  <2>3. Ptr(ack[e] + TransmitBufferSize) = Ptr(ack[e])
        /\ Ptr(next[e] + TransmitBufferSize) = Ptr(next[e])
    BY <2>1, PtrWraps
  <2>4. /\ back[e] + 1 # ack[e] + TransmitBufferSize
        /\ back[e] + 1 # next[e] + TransmitBufferSize
    BY <1>1, <2>3 DEF CanEnq
  <2>5. /\ back[e] < ack[e] + TransmitBufferSize
        /\ back[e] < next[e] + TransmitBufferSize
    BY <2>2 DEF Window
  <2>6. back[e] \in Nat /\ TransmitBufferSize \in Nat
    BY <1>0, SizeAssumption
  <2>7. QED
    BY <2>1, <2>4, <2>5, <2>6
<1>4. ASSUME NEW f \in Ends
      PROVE  Parts(f)'
  <2>0. /\ back'[f] = IF f = e THEN back[e] + 1 ELSE back[f]
        /\ back[f] \in Nat /\ next[f] \in Nat /\ ack[f] \in Nat
        /\ recv[Peer(f)] \in Nat
    BY <1>0, <1>1, TypeFacts, PeerFacts
  <2>1. Window(f)'
    BY <1>1, <1>3, <2>0, PartsFacts DEF Window
  <2>2. Ring(f)'
    <3>1. CASE f # e
      BY <1>0, <1>1, <3>1, PartsFacts DEF Ring
    <3>2. CASE f = e
      <4> SUFFICES ASSUME NEW k \in 0 .. back[e],
                          back[e] + 1 <= k + TransmitBufferSize
                   PROVE  contents'[e][Ptr(k)] = k
        BY <2>0, <3>2 DEF Ring
      <4>1. k \in Nat /\ Ptr(k) \in 0 .. TransmitBufferSize - 1
        BY <1>0, PtrInRing
      <4>2. contents'[e] = [contents[e] EXCEPT ![Ptr(back[e])] = back[e]]
        BY <1>0, <1>1
      <4>3. contents[e] \in [0 .. TransmitBufferSize - 1 -> Int]
        BY <1>0
      <4>4. CASE k = back[e]
        BY <1>0, <4>2, <4>3, <4>4
      <4>5. CASE k # back[e]
        <5>1. Ptr(k) # Ptr(back[e])
          BY <1>0, <4>1, <4>5, PtrInjective, SizeAssumption, SMTT(40)
        <5>2. contents[e][Ptr(k)] = k
          <6>1. k \in 0 .. back[e] - 1 /\ back[e] <= k + TransmitBufferSize
            BY <1>0, <4>1, <4>5, SizeAssumption, SMTT(40)
          <6>2. Ring(e)
            BY PartsFacts
          <6>3. QED
            BY <6>1, <6>2 DEF Ring
        <5>3. QED
          BY <1>0, <4>1, <4>2, <4>3, <5>1, <5>2
      <4>6. QED
        BY <4>4, <4>5
    <3>3. QED
      BY <3>1, <3>2
  <2>3. Sending(f)'
    <3>1. Sending(f) /\ numItemsToSend[f] \in Nat
      BY <1>0, PartsFacts, TypeFacts
    <3>2. QED
      BY <1>1, <2>0, <3>1 DEF Sending
  <2>4. InFlight(f)'
    <3>1. InFlight(f)
      BY PartsFacts
    <3>2. \A i \in 1 .. Len(wire[f]) : wire[f][i].seqNum \in Nat /\ wire[f][i].numItems \in Nat
      BY <1>0, TypeFacts
    <3>3. QED
      BY <1>1, <2>0, <3>1, <3>2, SMTT(40) DEF InFlight, Intact
  <2>5. Acks(f)' /\ Receiving(f)' /\ Output(f)'
    BY <1>1, PartsFacts DEF Acks, Receiving, Output
  <2>6. QED
    BY <2>1, <2>2, <2>3, <2>4, <2>5 DEF Parts
<1>5. QED
  BY <1>2, <1>4 DEF IInv, Parts

\* The timer only raises a flag.
LEMMA TimerStep ==
  ASSUME IInv, NEW e \in Ends, TimerExpires(e)
  PROVE  IInv'
<1>1. /\ timeoutFlag' = [timeoutFlag EXCEPT ![e] = TRUE]
      /\ UNCHANGED <<next, ack, back, contents, txState, numItemsToSend, txPkt,
                     wire, recv, rxState, numItemsToRecv, rxBody,
                     receiveCount, receiveBuffer, delivered>>
  BY DEF TimerExpires, rxVars
<1>2. TypeOK'
  BY <1>1 DEF IInv, TypeOK
<1>3. ASSUME NEW f \in Ends
      PROVE  Parts(f)'
  <2>1. /\ Window(f) /\ Ring(f) /\ Sending(f) /\ InFlight(f)
        /\ Acks(f) /\ Receiving(f) /\ Output(f)
    BY PartsFacts
  <2>2. Window(f)' /\ Ring(f)' /\ Sending(f)' /\ InFlight(f)'
    BY <1>1, <2>1, WindowFrame, RingFrame, SendingFrame, InFlightFrame
  <2>3. Acks(f)' /\ Receiving(f)' /\ Output(f)'
    BY <1>1, <2>1, AcksFrame, ReceivingFrame, OutputFrame
  <2>4. QED
    BY <2>2, <2>3 DEF Parts
<1>4. QED
  BY <1>2, <1>3 DEF IInv, Parts

\* A new header announces at most what is in the ring.
LEMMA Transmit0Step ==
  ASSUME IInv, NEW e \in Ends, Transmit0(e)
  PROVE  IInv'
<1> DEFINE h == [numItems |-> ToSend(e), seqNum |-> next[e], ack |-> recv[e],
                 body |-> <<>>]
<1>0. /\ TypeOK
      /\ next[e] \in Nat /\ back[e] \in Nat /\ recv[e] \in Nat
      /\ numItemsToSend \in [Ends -> 0 .. TransmitBound]
      /\ txPkt \in [Ends -> Packet] /\ txState \in [Ends -> 0 .. 2]
      /\ TransmitBound \in Nat /\ TransmitBufferSize \in Nat
  BY SizeAssumption DEF IInv, TypeOK
<1>1. /\ numItemsToSend' = [numItemsToSend EXCEPT ![e] = ToSend(e)]
      /\ txPkt' = [txPkt EXCEPT ![e] = h]
      /\ txState' = [txState EXCEPT ![e] = 1]
      /\ UNCHANGED <<next, ack, back, contents, timeoutFlag, wire>>
      /\ UNCHANGED <<recv, rxState, numItemsToRecv, rxBody, receiveCount,
                     receiveBuffer, delivered>>
  BY DEF Transmit0, rxVars
<1>2. next[e] <= back[e] /\ back[e] < next[e] + TransmitBufferSize
  BY PartsFacts DEF Window
<1>3. Unsent(e) = back[e] - next[e]
  BY <1>0, <1>2, PtrDifference DEF Unsent
<1>4. ToSend(e) \in 0 .. TransmitBound /\ next[e] + ToSend(e) <= back[e]
  BY <1>0, <1>2, <1>3 DEF ToSend
<1>5. h \in Packet
  <2>1. <<>> \in Seq(Int)
    BY EmptySeq
  <2>2. QED
    BY <1>0, <1>4, <2>1 DEF Packet
<1>6. TypeOK'
  <2>1. /\ numItemsToSend' \in [Ends -> 0 .. TransmitBound]
        /\ txPkt' \in [Ends -> Packet] /\ txState' \in [Ends -> 0 .. 2]
    BY <1>0, <1>1, <1>4, <1>5
  <2>2. QED
    BY <1>0, <1>1, <2>1 DEF TypeOK
<1> HIDE DEF h
<1>7. ASSUME NEW f \in Ends
      PROVE  Parts(f)'
  <2>0. /\ Window(f) /\ Ring(f) /\ Sending(f) /\ InFlight(f)
        /\ Acks(f) /\ Receiving(f) /\ Output(f)
    BY PartsFacts
  <2>1. Window(f)' /\ Ring(f)' /\ InFlight(f)' /\ Receiving(f)' /\ Output(f)'
    BY <1>1, <2>0, WindowFrame, RingFrame, InFlightFrame, ReceivingFrame,
       OutputFrame
  <2>2. CASE f # e
    <3>1. /\ numItemsToSend'[f] = numItemsToSend[f]
          /\ txPkt'[f] = txPkt[f] /\ txState'[f] = txState[f]
      BY <1>0, <1>1, <2>2
    <3>2. Sending(f)' /\ Acks(f)'
      BY <1>1, <2>0, <3>1, SendingFrame, AcksFrame
    <3>3. QED
      BY <2>1, <3>2 DEF Parts
  <2>3. CASE f = e
    <3>1. /\ numItemsToSend'[e] = ToSend(e) /\ txState'[e] = 1
          /\ txPkt'[e].numItems = ToSend(e) /\ txPkt'[e].seqNum = next[e]
          /\ txPkt'[e].ack = recv[e] /\ txPkt'[e].body = <<>>
      BY <1>0, <1>1 DEF h
    <3>2. Peer(e) \in Ends /\ recv[Peer(e)] \in Nat /\ ack[Peer(e)] \in Nat
      BY <1>0, PeerFacts, TypeFacts
    <3>3. recv[Peer(e)] < next[e] + TransmitBufferSize
      BY <1>0, <1>2, <2>0, <2>3, <3>2 DEF Window
    <3>4. ASSUME NEW i \in 1 .. Len(wire[e])
          PROVE  wire[e][i].seqNum + wire[e][i].numItems
                   < next[e] + TransmitBufferSize
      <4>1. wire[e][i].seqNum \in Nat /\ wire[e][i].numItems \in Nat
        BY <1>0, TypeFacts
      <4>2. wire[e][i].seqNum + wire[e][i].numItems <= back[e]
        BY <2>0, <2>3 DEF InFlight
      <4>3. next[e] \in Nat /\ back[e] \in Nat /\ TransmitBufferSize \in Nat
        BY <1>0
      <4>4. QED
        BY <1>2, <4>1, <4>2, <4>3, SMTT(40)
    <3>5. Len(txPkt'[e].body) = 0
      BY <3>1, EmptySeq
    <3>6. Sending(e)'
      BY <1>0, <1>1, <1>4, <3>1, <3>3, <3>4, <3>5, SMTT(40) DEF Sending
    <3>7. ack[Peer(e)] <= recv[e]
      BY <3>2, PeerFacts, PartsFacts DEF Window
    <3>8. Acks(e)'
      BY <1>0, <1>1, <2>0, <2>3, <3>1, <3>7 DEF Acks
    <3>9. QED
      BY <2>1, <2>3, <3>6, <3>8 DEF Parts
  <2>4. QED
    BY <2>2, <2>3
<1>8. QED
  BY <1>6, <1>7 DEF IInv, Parts

\* What Append does to the wire.
LEMMA AppendFacts ==
  ASSUME NEW S, NEW s \in Seq(S), NEW x \in S
  PROVE  /\ Append(s, x) \in Seq(S)
         /\ Len(s) \in Nat
         /\ Len(Append(s, x)) = Len(s) + 1
         /\ \A i \in 1 .. Len(s) : Append(s, x)[i] = s[i]
         /\ Append(s, x)[Len(s) + 1] = x
BY AppendProperties, LenProperties

\* The end of a packet: the whole packet w goes on the wire and the next one
\* starts after it or, after a timeout, at the first unacknowledged item.
LEMMA EmitStep ==
  ASSUME IInv, NEW e \in Ends, txState[e] # 0,
         NEW w \in Packet, Intact(w),
         w.numItems = txPkt[e].numItems, w.seqNum = txPkt[e].seqNum,
         w.ack = txPkt[e].ack,
         txState' = [txState EXCEPT ![e] = 0],
         wire' = [wire EXCEPT ![e] = Append(@, w)],
         next' = [next EXCEPT ![e] =
                    AfterPacket(e, next[e] + numItemsToSend[e])],
         txPkt' = [txPkt EXCEPT ![e] = NoPacket],
         timeoutFlag' = [timeoutFlag EXCEPT ![e] = FALSE],
         numItemsToSend' \in [Ends -> 0 .. TransmitBound],
         \A f \in Ends : f # e => numItemsToSend'[f] = numItemsToSend[f],
         UNCHANGED <<ack, back, contents, recv, rxState, numItemsToRecv,
                     rxBody, receiveCount, receiveBuffer, delivered>>
  PROVE  IInv'
<1>1. TypeOK
  BY DEF IInv
<1>2. /\ next \in [Ends -> Nat] /\ ack \in [Ends -> Nat]
      /\ txPkt \in [Ends -> Packet] /\ txState \in [Ends -> 0 .. 2]
      /\ wire \in [Ends -> Seq(Packet)]
      /\ timeoutFlag \in [Ends -> BOOLEAN]
  BY <1>1 DEF TypeOK
<1>3. /\ next[e] \in Nat /\ back[e] \in Nat /\ ack[e] \in Nat
      /\ numItemsToSend[e] \in Nat /\ wire[e] \in Seq(Packet)
      /\ Len(wire[e]) \in Nat
      /\ TransmitBufferSize \in Nat
  BY <1>1, TypeFacts, SizeAssumption
<1>4. /\ Window(e) /\ Ring(e) /\ Sending(e) /\ InFlight(e)
      /\ Acks(e) /\ Receiving(e) /\ Output(e)
  BY PartsFacts
<1>5. NoPacket \in Packet
  BY EmptySeq DEF NoPacket, Packet
<1>6. /\ wire'[e] = Append(wire[e], w)
      /\ wire'[e] \in Seq(Packet)
      /\ Len(wire'[e]) = Len(wire[e]) + 1
      /\ \A i \in 1 .. Len(wire[e]) : wire'[e][i] = wire[e][i]
      /\ wire'[e][Len(wire[e]) + 1] = w
  BY <1>2, <1>3, AppendFacts
<1>7. /\ next'[e] \in Nat
      /\ next'[e] = ack[e] \/ next'[e] = next[e] + numItemsToSend[e]
  BY <1>2, <1>3 DEF AfterPacket
<1>8. TypeOK'
  <2>1. next' \in [Ends -> Nat]
    BY <1>2, <1>3 DEF AfterPacket
  <2>2. wire' \in [Ends -> Seq(Packet)]
    BY <1>2, <1>6
  <2>3. /\ txPkt' \in [Ends -> Packet] /\ txState' \in [Ends -> 0 .. 2]
        /\ timeoutFlag' \in [Ends -> BOOLEAN]
    BY <1>2, <1>5
  <2>4. QED
    BY <1>1, <2>1, <2>2, <2>3 DEF TypeOK
<1>9. ASSUME NEW f \in Ends, f # e
      PROVE  Parts(f)'
  <2>1. /\ Window(f) /\ Ring(f) /\ Sending(f) /\ InFlight(f)
        /\ Acks(f) /\ Receiving(f) /\ Output(f)
    BY PartsFacts
  <2>2. /\ next'[f] = next[f] /\ wire'[f] = wire[f]
        /\ txPkt'[f] = txPkt[f] /\ txState'[f] = txState[f]
        /\ numItemsToSend'[f] = numItemsToSend[f]
    BY <1>2, <1>9
  <2>3. Window(f)' /\ Ring(f)' /\ Sending(f)' /\ InFlight(f)'
    BY <2>1, <2>2, WindowFrame, RingFrame, SendingFrame, InFlightFrame
  <2>4. Acks(f)' /\ Receiving(f)' /\ Output(f)'
    BY <2>1, <2>2, AcksFrame, ReceivingFrame, OutputFrame
  <2>5. QED
    BY <2>3, <2>4 DEF Parts
<1>10. Parts(e)'
  <2>1. Window(e)'
    <3>1. next[e] + numItemsToSend[e] <= back[e]
      BY <1>4 DEF Sending
    <3>2. /\ next[e] <= back[e] /\ back[e] < next[e] + TransmitBufferSize
          /\ back[e] < ack[e] + TransmitBufferSize
          /\ ack[e] <= recv[Peer(e)] /\ recv[Peer(e)] <= back[e]
      BY <1>4 DEF Window
    <3>3. recv[Peer(e)] \in Nat
      BY <1>1, PeerFacts, TypeFacts
    <3>4. next'[e] <= back[e] /\ back[e] < next'[e] + TransmitBufferSize
      <4>1. /\ next[e] \in Nat /\ back[e] \in Nat /\ ack[e] \in Nat
            /\ numItemsToSend[e] \in Nat /\ TransmitBufferSize \in Nat
        BY <1>3
      <4>2. CASE next'[e] = ack[e]
        BY <3>2, <3>3, <4>1, <4>2
      <4>3. CASE next'[e] = next[e] + numItemsToSend[e]
        BY <3>1, <3>2, <4>1, <4>3
      <4>4. QED
        BY <1>7, <4>2, <4>3
    <3>5. QED
      BY <3>2, <3>4 DEF Window
  <2>2. Ring(e)' /\ Receiving(e)' /\ Output(e)'
    BY <1>4, RingFrame, ReceivingFrame, OutputFrame
  <2>3. txState'[e] = 0
    BY <1>2
  <2>4. Sending(e)'
    BY <2>3 DEF Sending
  <2>5. InFlight(e)'
    <3>1. /\ w.numItems <= TransmitBound
          /\ w.seqNum + w.numItems <= back[e]
          /\ recv[Peer(e)] < w.seqNum + TransmitBufferSize
      <4>1. /\ txPkt[e].seqNum \in Nat /\ txPkt[e].numItems \in Nat
            /\ Len(txPkt[e].body) \in Nat
        BY <1>1, TypeFacts
      <4>2. /\ txPkt[e].numItems <= TransmitBound
            /\ Len(txPkt[e].body) + numItemsToSend[e] = txPkt[e].numItems
            /\ txPkt[e].seqNum + Len(txPkt[e].body) = next[e]
            /\ next[e] + numItemsToSend[e] <= back[e]
            /\ recv[Peer(e)] < txPkt[e].seqNum + TransmitBufferSize
        BY <1>4 DEF Sending
      <4>3. QED
        BY <1>3, <4>1, <4>2, SMTT(40)
    <3>2. \A i \in 1 .. Len(wire[e]) :
            wire[e][i].seqNum + wire[e][i].numItems
              < w.seqNum + TransmitBufferSize
      BY <1>4 DEF Sending
    <3>3. ASSUME NEW i \in 1 .. Len(wire[e]) + 1
          PROVE  /\ Intact(wire'[e][i])
                 /\ wire'[e][i].numItems <= TransmitBound
                 /\ wire'[e][i].seqNum + wire'[e][i].numItems <= back[e]
                 /\ recv[Peer(e)] < wire'[e][i].seqNum + TransmitBufferSize
      <4>1. CASE i = Len(wire[e]) + 1
        BY <1>6, <3>1, <4>1
      <4>2. CASE i # Len(wire[e]) + 1
        <5>1. i \in 1 .. Len(wire[e]) /\ wire'[e][i] = wire[e][i]
          BY <1>3, <1>6, <4>2
        <5>2. QED
          BY <1>4, <5>1 DEF InFlight
      <4>3. QED
        BY <4>1, <4>2
    <3>4. ASSUME NEW j \in 1 .. Len(wire[e]) + 1, NEW i \in 1 .. j - 1
          PROVE  wire'[e][i].seqNum + wire'[e][i].numItems
                   < wire'[e][j].seqNum + TransmitBufferSize
      <4>1. i \in 1 .. Len(wire[e]) /\ wire'[e][i] = wire[e][i]
        BY <1>3, <1>6
      <4>2. CASE j = Len(wire[e]) + 1
        BY <1>6, <3>2, <4>1, <4>2
      <4>3. CASE j # Len(wire[e]) + 1
        <5>1. j \in 1 .. Len(wire[e]) /\ wire'[e][j] = wire[e][j]
          BY <1>3, <1>6, <4>3
        <5>2. QED
          BY <1>4, <4>1, <5>1 DEF InFlight
      <4>4. QED
        BY <4>2, <4>3
    <3>5. QED
      BY <1>6, <3>3, <3>4 DEF InFlight, Intact
  <2>6. Acks(e)'
    <3>1. /\ ack[Peer(e)] <= w.ack /\ w.ack <= recv[e]
          /\ \A i \in 1 .. Len(wire[e]) : wire[e][i].ack <= w.ack
      BY <1>4 DEF Acks
    <3>2. ASSUME NEW i \in 1 .. Len(wire[e]) + 1
          PROVE  /\ ack[Peer(e)] <= wire'[e][i].ack
                 /\ wire'[e][i].ack <= recv[e]
      <4>1. CASE i = Len(wire[e]) + 1
        BY <1>6, <3>1, <4>1
      <4>2. CASE i # Len(wire[e]) + 1
        <5>1. i \in 1 .. Len(wire[e]) /\ wire'[e][i] = wire[e][i]
          BY <1>3, <1>6, <4>2
        <5>2. QED
          BY <1>4, <5>1 DEF Acks
      <4>3. QED
        BY <4>1, <4>2
    <3>3. ASSUME NEW j \in 1 .. Len(wire[e]) + 1, NEW i \in 1 .. j - 1
          PROVE  wire'[e][i].ack <= wire'[e][j].ack
      <4>1. i \in 1 .. Len(wire[e]) /\ wire'[e][i] = wire[e][i]
        BY <1>3, <1>6
      <4>2. CASE j = Len(wire[e]) + 1
        BY <1>6, <3>1, <4>1, <4>2
      <4>3. CASE j # Len(wire[e]) + 1
        <5>1. j \in 1 .. Len(wire[e]) /\ wire'[e][j] = wire[e][j]
          BY <1>3, <1>6, <4>3
        <5>2. QED
          BY <1>4, <4>1, <5>1 DEF Acks
      <4>4. QED
        BY <4>2, <4>3
    <3>4. QED
      BY <1>6, <2>3, <3>2, <3>3 DEF Acks
  <2>7. QED
    BY <2>1, <2>2, <2>4, <2>5, <2>6 DEF Parts
<1>11. QED
  BY <1>8, <1>9, <1>10 DEF IInv, Parts

\* The second header beat, alone (empty packet) or before a body.
LEMMA Transmit1Step ==
  ASSUME IInv, NEW e \in Ends, Transmit1(e)
  PROVE  IInv'
<1>0. /\ TypeOK
      /\ txPkt[e] \in Packet /\ next[e] \in Nat
      /\ txState \in [Ends -> 0 .. 2]
      /\ numItemsToSend \in [Ends -> 0 .. TransmitBound]
      /\ numItemsToSend[e] \in Nat
  BY TypeFacts DEF IInv, TypeOK
<1>1. /\ txState[e] = 1
      /\ UNCHANGED <<ack, back, contents, numItemsToSend>>
      /\ UNCHANGED <<recv, rxState, numItemsToRecv, rxBody, receiveCount,
                     receiveBuffer, delivered>>
  BY DEF Transmit1, rxVars
<1>2. Sending(e)
  BY PartsFacts
<1>3. CASE numItemsToSend[e] = 0
  <2>1. /\ txState' = [txState EXCEPT ![e] = 0]
        /\ wire' = [wire EXCEPT ![e] = Append(@, Pad(txPkt[e]))]
        /\ txPkt' = [txPkt EXCEPT ![e] = NoPacket]
        /\ next' = [next EXCEPT ![e] = AfterPacket(e, next[e])]
        /\ timeoutFlag' = [timeoutFlag EXCEPT ![e] = FALSE]
    BY <1>3 DEF Transmit1
  <2>2. txPkt[e].numItems = 0
    <3>1. Len(txPkt[e].body) = 0
      BY <1>1, <1>2, EmptySeq DEF Sending
    <3>2. QED
      BY <1>1, <1>2, <1>3, <3>1 DEF Sending
  <2>3. Intact(Pad(txPkt[e]))
    <3>1. Pad(txPkt[e]).numItems = 0 /\ Pad(txPkt[e]).body \in Seq(Int)
      BY <1>0, <2>2, PadKeepsItems DEF Packet
    <3>2. Len(Pad(txPkt[e]).body) \in Nat
      BY <3>1, LenProperties
    <3>3. QED
      BY <3>1, <3>2 DEF Intact
  <2>4. next[e] + numItemsToSend[e] = next[e]
    BY <1>0, <1>3
  <2>5. next' = [next EXCEPT ![e] = AfterPacket(e, next[e] + numItemsToSend[e])]
    BY <2>1, <2>4
  <2>6. /\ Pad(txPkt[e]) \in Packet
        /\ Pad(txPkt[e]).numItems = txPkt[e].numItems
        /\ Pad(txPkt[e]).seqNum = txPkt[e].seqNum
        /\ Pad(txPkt[e]).ack = txPkt[e].ack
    BY <1>0, PadKeepsItems
  <2>7. /\ numItemsToSend' \in [Ends -> 0 .. TransmitBound]
        /\ \A f \in Ends : f # e => numItemsToSend'[f] = numItemsToSend[f]
    BY <1>0, <1>1
  <2>8. txState[e] # 0
    BY <1>1
  <2>9. QED
    BY <1>1, <2>1, <2>3, <2>5, <2>6, <2>7, <2>8, EmitStep
<1>4. CASE numItemsToSend[e] # 0
  <2>1. /\ txState' = [txState EXCEPT ![e] = 2]
        /\ UNCHANGED <<wire, txPkt, next, timeoutFlag>>
    BY <1>4 DEF Transmit1
  <2>2. TypeOK'
    <3>1. txState' \in [Ends -> 0 .. 2]
      BY <1>0, <2>1
    <3>2. QED
      BY <1>0, <1>1, <2>1, <3>1 DEF TypeOK
  <2>3. ASSUME NEW f \in Ends
        PROVE  Parts(f)'
    <3>1. /\ Window(f) /\ Ring(f) /\ Sending(f) /\ InFlight(f)
          /\ Acks(f) /\ Receiving(f) /\ Output(f)
      BY PartsFacts
    <3>2. Window(f)' /\ Ring(f)' /\ InFlight(f)' /\ Receiving(f)' /\ Output(f)'
      BY <1>1, <2>1, <3>1, WindowFrame, RingFrame, InFlightFrame,
         ReceivingFrame, OutputFrame
    <3>3. CASE f # e
      <4>1. txState'[f] = txState[f]
        BY <1>0, <2>1, <3>3
      <4>2. Sending(f)' /\ Acks(f)'
        BY <1>1, <2>1, <3>1, <4>1, SendingFrame, AcksFrame
      <4>3. QED
        BY <3>2, <4>2 DEF Parts
    <3>4. CASE f = e
      <4>1. txState'[e] = 2
        BY <1>0, <2>1
      <4>2. Sending(e)'
        BY <1>0, <1>1, <1>2, <1>4, <2>1, <4>1 DEF Sending
      <4>3. Acks(e)'
        BY <1>1, <2>1, <3>1, <3>4, <4>1 DEF Acks
      <4>4. QED
        BY <3>2, <3>4, <4>2, <4>3 DEF Parts
    <3>5. QED
      BY <3>3, <3>4
  <2>4. QED
    BY <2>2, <2>3 DEF IInv, Parts
<1>5. QED
  BY <1>3, <1>4

\* A body beat: the item read is the one announced, since the slots between
\* nextPtr and backPtr are intact.
LEMMA Transmit2Step ==
  ASSUME IInv, NEW e \in Ends, Transmit2(e)
  PROVE  IInv'
<1> DEFINE c == contents[e][Ptr(next[e])]
           w == WithNextItem(e)
<1>0. /\ TypeOK
      /\ txPkt[e] \in Packet
      /\ next[e] \in Nat /\ back[e] \in Nat /\ numItemsToSend[e] \in Nat
      /\ txPkt[e].body \in Seq(Int) /\ Len(txPkt[e].body) \in Nat
      /\ txPkt[e].seqNum \in Nat /\ txPkt[e].numItems \in Nat
      /\ TransmitBufferSize \in Nat /\ TransmitBound \in Nat
  BY TypeFacts, SizeAssumption DEF IInv
<1>1. /\ next \in [Ends -> Nat]
      /\ txPkt \in [Ends -> Packet]
      /\ numItemsToSend \in [Ends -> 0 .. TransmitBound]
      /\ contents[e] \in [0 .. TransmitBufferSize - 1 -> Int]
  BY <1>0 DEF TypeOK
<1>2. /\ txState[e] = 2
      /\ numItemsToSend' = [numItemsToSend EXCEPT ![e] = @ - 1]
      /\ UNCHANGED <<ack, back, contents>>
      /\ UNCHANGED <<recv, rxState, numItemsToRecv, rxBody, receiveCount,
                     receiveBuffer, delivered>>
  BY DEF Transmit2, rxVars
<1>3. /\ txPkt[e].numItems <= TransmitBound
      /\ Len(txPkt[e].body) + numItemsToSend[e] = txPkt[e].numItems
      /\ txPkt[e].seqNum + Len(txPkt[e].body) = next[e]
      /\ next[e] + numItemsToSend[e] <= back[e]
      /\ numItemsToSend[e] > 0
      /\ \A k \in 1 .. Len(txPkt[e].body) :
           txPkt[e].body[k] = txPkt[e].seqNum + k - 1
  BY <1>2, PartsFacts DEF Sending
<1>4. c = next[e]
  <2>1. back[e] <= next[e] + TransmitBufferSize
    BY <1>0, PartsFacts DEF Window
  <2>2. next[e] \in 0 .. back[e] - 1
    BY <1>0, <1>3, SMTT(40)
  <2>3. Ring(e)
    BY PartsFacts
  <2>4. QED
    BY <2>1, <2>2, <2>3 DEF Ring
<1>5. /\ w \in Packet
      /\ w.numItems = txPkt[e].numItems /\ w.seqNum = txPkt[e].seqNum
      /\ w.ack = txPkt[e].ack
      /\ w.body = Append(txPkt[e].body, next[e])
  <2>1. next[e] \in Int
    BY <1>0
  <2>2. Append(txPkt[e].body, next[e]) \in Seq(Int)
    BY <1>0, <2>1, AppendFacts
  <2>3. w = [txPkt[e] EXCEPT !.body = Append(txPkt[e].body, next[e])]
    BY <1>4 DEF WithNextItem
  <2> HIDE DEF w
  <2>4. QED
    BY <1>0, <2>2, <2>3 DEF Packet
<1>6. /\ Len(w.body) = Len(txPkt[e].body) + 1
      /\ \A k \in 1 .. Len(w.body) : w.body[k] = w.seqNum + k - 1
  <2>1. next[e] \in Int
    BY <1>0
  <2>2. /\ Len(w.body) = Len(txPkt[e].body) + 1
        /\ \A k \in 1 .. Len(txPkt[e].body) : w.body[k] = txPkt[e].body[k]
        /\ w.body[Len(txPkt[e].body) + 1] = next[e]
    BY <1>0, <1>5, <2>1, AppendFacts
  <2>3. ASSUME NEW k \in 1 .. Len(txPkt[e].body) + 1
        PROVE  w.body[k] = txPkt[e].seqNum + k - 1
    <3>1. CASE k = Len(txPkt[e].body) + 1
      BY <1>0, <1>3, <2>2, <3>1
    <3>2. CASE k # Len(txPkt[e].body) + 1
      <4>1. k \in 1 .. Len(txPkt[e].body)
        BY <1>0, <3>2
      <4>2. QED
        BY <1>3, <2>2, <4>1
    <3>3. QED
      BY <3>1, <3>2
  <2>4. QED
    BY <1>5, <2>2, <2>3
<1> HIDE DEF w, c
<1>7. /\ numItemsToSend' \in [Ends -> 0 .. TransmitBound]
      /\ numItemsToSend'[e] = numItemsToSend[e] - 1
      /\ \A f \in Ends : f # e => numItemsToSend'[f] = numItemsToSend[f]
  BY <1>0, <1>1, <1>2, <1>3, SMTT(40)
<1>8. CASE numItemsToSend[e] = 1
  <2>1. /\ txState' = [txState EXCEPT ![e] = 0]
        /\ wire' = [wire EXCEPT ![e] = Append(@, Pad(w))]
        /\ txPkt' = [txPkt EXCEPT ![e] = NoPacket]
        /\ next' = [next EXCEPT ![e] = AfterPacket(e, next[e] + 1)]
        /\ timeoutFlag' = [timeoutFlag EXCEPT ![e] = FALSE]
    BY <1>8 DEF Transmit2, w
  <2>2. Len(w.body) = w.numItems
    BY <1>0, <1>3, <1>5, <1>6, <1>8
  <2>3. /\ Pad(w) \in Packet
        /\ Pad(w).numItems = w.numItems /\ Pad(w).seqNum = w.seqNum
        /\ Pad(w).ack = w.ack
        /\ Len(Pad(w).body) >= Len(w.body)
        /\ \A k \in 1 .. Len(w.body) : Pad(w).body[k] = w.body[k]
    BY <1>5, PadKeepsItems
  <2>4. Intact(Pad(w))
    BY <1>6, <2>2, <2>3 DEF Intact
  <2>5. next[e] + numItemsToSend[e] = next[e] + 1
    BY <1>8
  <2>6. txState[e] # 0
    BY <1>2
  <2>7. QED
    BY <1>2, <1>5, <1>7, <2>1, <2>3, <2>4, <2>5, <2>6, EmitStep
<1>9. CASE numItemsToSend[e] # 1
  <2>1. /\ txPkt' = [txPkt EXCEPT ![e] = w]
        /\ next' = [next EXCEPT ![e] = @ + 1]
        /\ UNCHANGED <<txState, wire, timeoutFlag>>
    BY <1>9 DEF Transmit2, w
  <2>2. /\ next' \in [Ends -> Nat] /\ next'[e] = next[e] + 1
        /\ txPkt' \in [Ends -> Packet] /\ txPkt'[e] = w
        /\ \A f \in Ends : f # e => /\ next'[f] = next[f]
                                    /\ txPkt'[f] = txPkt[f]
    BY <1>0, <1>1, <1>5, <2>1, SMTT(40)
  <2>3. TypeOK'
    BY <1>0, <1>2, <1>7, <2>1, <2>2 DEF TypeOK
  <2>4. ASSUME NEW f \in Ends
        PROVE  Parts(f)'
    <3>1. /\ Window(f) /\ Ring(f) /\ Sending(f) /\ InFlight(f)
          /\ Acks(f) /\ Receiving(f) /\ Output(f)
      BY PartsFacts
    <3>2. Ring(f)' /\ InFlight(f)' /\ Receiving(f)' /\ Output(f)'
      BY <1>2, <2>1, <3>1, RingFrame, InFlightFrame, ReceivingFrame,
         OutputFrame
    <3>3. CASE f # e
      <4>1. Window(f)' /\ Sending(f)' /\ Acks(f)'
        BY <1>2, <1>7, <2>1, <2>2, <3>1, <3>3, WindowFrame, SendingFrame,
           AcksFrame
      <4>2. QED
        BY <3>2, <4>1 DEF Parts
    <3>4. CASE f = e
      <4>1. Window(e)'
        <5>1. next[e] + 1 <= back[e]
          BY <1>0, <1>3
        <5>2. Window(e)
          BY <3>1, <3>4
        <5>3. back[e] < next[e] + 1 + TransmitBufferSize
          <6>1. back[e] < next[e] + TransmitBufferSize
            BY <5>2 DEF Window
          <6>2. QED
            BY <1>0, <6>1
        <5>4. QED
          BY <1>2, <2>2, <5>1, <5>2, <5>3 DEF Window
      <4>2. Sending(e)'
        <5>1. /\ recv[Peer(e)] < w.seqNum + TransmitBufferSize
              /\ \A i \in 1 .. Len(wire[e]) :
                   wire[e][i].seqNum + wire[e][i].numItems
                     < w.seqNum + TransmitBufferSize
          BY <1>2, <1>5, <3>1, <3>4 DEF Sending
        <5>2. /\ w.numItems <= TransmitBound
              /\ Len(w.body) + (numItemsToSend[e] - 1) = w.numItems
              /\ w.seqNum + Len(w.body) = next[e] + 1
              /\ next[e] + 1 + (numItemsToSend[e] - 1) <= back[e]
              /\ numItemsToSend[e] - 1 > 0
          <6> DEFINE l == Len(txPkt[e].body)
                     q == txPkt[e].seqNum
                     t == txPkt[e].numItems
                     m == Len(w.body)
          <6>1. m = l + 1 /\ w.numItems = t /\ w.seqNum = q
            BY <1>5, <1>6
          <6>2. /\ next[e] \in Nat /\ back[e] \in Nat /\ l \in Nat
                /\ numItemsToSend[e] \in Nat /\ q \in Nat /\ t \in Nat
            BY <1>0
          <6>3. /\ t <= TransmitBound /\ l + numItemsToSend[e] = t
                /\ q + l = next[e] /\ next[e] + numItemsToSend[e] <= back[e]
                /\ numItemsToSend[e] > 0
            BY <1>3
          <6> HIDE DEF l, q, t, m
          <6>4. /\ m + (numItemsToSend[e] - 1) = t /\ q + m = next[e] + 1
                /\ next[e] + 1 + (numItemsToSend[e] - 1) <= back[e]
                /\ numItemsToSend[e] - 1 > 0
            BY <1>9, <6>1, <6>2, <6>3
          <6>5. QED
            BY <6>1, <6>3, <6>4 DEF m
        <5>3. txState'[e] = 2
          BY <1>2, <2>1
        <5>4. QED
          BY <1>2, <1>6, <1>7, <2>1, <2>2, <5>1, <5>2, <5>3 DEF Sending
      <4>3. Acks(e)'
        BY <1>2, <1>5, <2>1, <2>2, <3>1, <3>4 DEF Acks
      <4>4. QED
        BY <3>2, <3>4, <4>1, <4>2, <4>3 DEF Parts
    <3>5. QED
      BY <3>3, <3>4
  <2>5. QED
    BY <2>3, <2>4 DEF IInv, Parts
<1>10. QED
  BY <1>8, <1>9

\* What Tail does to the wire.
LEMMA TailFacts ==
  ASSUME NEW S, NEW s \in Seq(S), s # <<>>
  PROVE  /\ Tail(s) \in Seq(S)
         /\ Len(s) \in Nat \ {0}
         /\ Len(Tail(s)) = Len(s) - 1
         /\ \A i \in 1 .. Len(s) - 1 :
              Tail(s)[i] = s[i + 1] /\ i + 1 \in 1 .. Len(s)
BY HeadTailProperties, EmptySeq

\* Taking the oldest packet off a wire keeps what is known of the others.
LEMMA TailKeeps ==
  ASSUME IInv, NEW e \in Ends, wire[e] # <<>>,
         wire' = [wire EXCEPT ![e] = Tail(@)]
  PROVE  /\ wire' \in [Ends -> Seq(Packet)]
         /\ wire'[Peer(e)] = wire[Peer(e)]
         /\ Len(wire'[e]) = Len(wire[e]) - 1 /\ Len(wire[e]) \in Nat \ {0}
         /\ \A i \in 1 .. Len(wire'[e]) :
              wire'[e][i] = wire[e][i + 1] /\ i + 1 \in 1 .. Len(wire[e])
<1>1. wire \in [Ends -> Seq(Packet)] /\ wire[e] \in Seq(Packet)
  BY DEF IInv, TypeOK
<1>2. wire'[e] = Tail(wire[e]) /\ wire'[Peer(e)] = wire[Peer(e)]
  BY <1>1, PeerFacts
<1>3. /\ Tail(wire[e]) \in Seq(Packet)
      /\ Len(wire[e]) \in Nat \ {0}
      /\ Len(Tail(wire[e])) = Len(wire[e]) - 1
      /\ \A i \in 1 .. Len(wire[e]) - 1 :
           Tail(wire[e])[i] = wire[e][i + 1] /\ i + 1 \in 1 .. Len(wire[e])
  BY <1>1, TailFacts
<1>4. wire' \in [Ends -> Seq(Packet)]
  BY <1>1, <1>3
<1>5. QED
  BY <1>2, <1>3, <1>4

\* A lost packet takes nothing away that the invariant needs.
LEMMA LoseStep ==
  ASSUME IInv, NEW e \in Ends, Lose(e)
  PROVE  IInv'
<1>1. /\ wire[e] # <<>>
      /\ wire' = [wire EXCEPT ![e] = Tail(@)]
      /\ UNCHANGED <<next, ack, back, contents, timeoutFlag, txState,
                     numItemsToSend, txPkt>>
      /\ UNCHANGED <<recv, rxState, numItemsToRecv, rxBody, receiveCount,
                     receiveBuffer, delivered>>
  BY DEF Lose, txVars, rxVars
<1>2. /\ wire' \in [Ends -> Seq(Packet)]
      /\ wire'[Peer(e)] = wire[Peer(e)]
      /\ Len(wire'[e]) = Len(wire[e]) - 1 /\ Len(wire[e]) \in Nat \ {0}
      /\ \A i \in 1 .. Len(wire'[e]) :
           wire'[e][i] = wire[e][i + 1] /\ i + 1 \in 1 .. Len(wire[e])
  BY <1>1, TailKeeps
<1>3. TypeOK'
  BY <1>1, <1>2 DEF IInv, TypeOK
<1>4. ASSUME NEW f \in Ends
      PROVE  Parts(f)'
  <2>1. /\ Window(f) /\ Ring(f) /\ Sending(f) /\ InFlight(f)
        /\ Acks(f) /\ Receiving(f) /\ Output(f)
    BY PartsFacts
  <2>2. Window(f)' /\ Ring(f)' /\ Receiving(f)' /\ Output(f)'
    BY <1>1, <2>1, WindowFrame, RingFrame, ReceivingFrame, OutputFrame
  <2>3. CASE f = Peer(e)
    <3>1. Sending(f)' /\ InFlight(f)' /\ Acks(f)'
      BY <1>1, <1>2, <2>1, <2>3, SendingFrame, InFlightFrame, AcksFrame
    <3>2. QED
      BY <2>2, <3>1 DEF Parts
  <2>4. CASE f = e
    <3>1. Sending(e)'
      BY <1>1, <1>2, <2>1, <2>4 DEF Sending
    <3>2. InFlight(e)'
      <4>1. \A i \in 1 .. Len(wire'[e]) :
              /\ Intact(wire'[e][i])
              /\ wire'[e][i].numItems <= TransmitBound
              /\ wire'[e][i].seqNum + wire'[e][i].numItems <= back[e]
              /\ recv[Peer(e)] < wire'[e][i].seqNum + TransmitBufferSize
        BY <1>2, <2>1, <2>4 DEF InFlight
      <4>2. ASSUME NEW j \in 1 .. Len(wire'[e]), NEW i \in 1 .. j - 1
            PROVE  wire'[e][i].seqNum + wire'[e][i].numItems
                     < wire'[e][j].seqNum + TransmitBufferSize
        <5>1. i \in 1 .. Len(wire'[e]) /\ i + 1 \in 1 .. (j + 1) - 1
          BY <1>2
        <5>2. QED
          BY <1>2, <2>1, <2>4, <5>1 DEF InFlight
      <4>3. QED
        BY <1>1, <4>1, <4>2 DEF InFlight, Intact
    <3>3. Acks(e)'
      <4>1. \A i \in 1 .. Len(wire'[e]) :
              ack[Peer(e)] <= wire'[e][i].ack /\ wire'[e][i].ack <= recv[e]
        BY <1>2, <2>1, <2>4 DEF Acks
      <4>2. ASSUME NEW j \in 1 .. Len(wire'[e]), NEW i \in 1 .. j - 1
            PROVE  wire'[e][i].ack <= wire'[e][j].ack
        <5>1. i \in 1 .. Len(wire'[e]) /\ i + 1 \in 1 .. (j + 1) - 1
          BY <1>2
        <5>2. QED
          BY <1>2, <2>1, <2>4, <5>1 DEF Acks
      <4>3. txState[e] # 0 => 
              /\ ack[Peer(e)] <= txPkt[e].ack /\ txPkt[e].ack <= recv[e]
              /\ \A i \in 1 .. Len(wire'[e]) : wire'[e][i].ack <= txPkt[e].ack
        BY <1>2, <2>1, <2>4 DEF Acks
      <4>4. QED
        BY <1>1, <4>1, <4>2, <4>3 DEF Acks
    <3>4. QED
      BY <2>2, <2>4, <3>1, <3>2, <3>3 DEF Parts
  <2>5. QED
    BY <2>3, <2>4, PeerFacts
<1>5. QED
  BY <1>3, <1>4 DEF IInv, Parts

\* The second header beat is ignored.
LEMMA Receive1Step ==
  ASSUME IInv, NEW e \in Ends, Receive1(e)
  PROVE  IInv'
<1>1. /\ rxState[e] = 1
      /\ rxState' = [rxState EXCEPT ![e] = IF rxBody[e] = <<>> THEN 0 ELSE 2]
      /\ UNCHANGED <<next, ack, back, contents, timeoutFlag, txState,
                     numItemsToSend, txPkt, wire>>
      /\ UNCHANGED <<recv, numItemsToRecv, rxBody, receiveCount,
                     receiveBuffer, delivered>>
  BY DEF Receive1, txVars
<1>2. rxState \in [Ends -> 0 .. 2] /\ numItemsToRecv[e] \in Nat
  BY SizeAssumption DEF IInv, TypeOK
<1>3. TypeOK'
  <2>1. rxState' \in [Ends -> 0 .. 2]
    BY <1>1, <1>2
  <2>2. QED
    BY <1>1, <2>1 DEF IInv, TypeOK
<1>4. ASSUME NEW f \in Ends
      PROVE  Parts(f)'
  <2>1. /\ Window(f) /\ Ring(f) /\ Sending(f) /\ InFlight(f)
        /\ Acks(f) /\ Receiving(f) /\ Output(f)
    BY PartsFacts
  <2>2. Window(f)' /\ Ring(f)' /\ Sending(f)' /\ InFlight(f)'
    BY <1>1, <2>1, WindowFrame, RingFrame, SendingFrame, InFlightFrame
  <2>3. Acks(f)' /\ Output(f)'
    BY <1>1, <2>1, AcksFrame, OutputFrame
  <2>4. Receiving(f)'
    <3>1. CASE f # e
      BY <1>1, <1>2, <2>1, <3>1, ReceivingFrame
    <3>2. CASE f = e
      <4>1. rxBody[e] = <<>> => numItemsToRecv[e] = 0
        <5>1. Len(<<>>) = 0
          BY EmptySeq
        <5>2. QED
          BY <1>2, <2>1, <3>2, <5>1 DEF Receiving
      <4>2. rxState'[e] = IF rxBody[e] = <<>> THEN 0 ELSE 2
        BY <1>1, <1>2
      <4>3. QED
        BY <1>1, <2>1, <3>2, <4>1, <4>2 DEF Receiving
    <3>3. QED
      BY <3>1, <3>2
  <2>5. QED
    BY <2>2, <2>3, <2>4 DEF Parts
<1>5. QED
  BY <1>3, <1>4 DEF IInv, Parts

\* A header arrives: the acknowledgement only moves forward, and the items
\* are accepted only if they are the next ones and there is room for all.
LEMMA Receive0Step ==
  ASSUME IInv, NEW e \in Ends, Receive0(e)
  PROVE  IInv'
<1> DEFINE p == Peer(e)
           h == Head(wire[p])
           n == IF Acceptable(e, h) THEN h.numItems ELSE 0
<1>1. p \in Ends /\ p # e /\ Peer(p) = e /\ \A f \in Ends : f = e \/ f = p
  BY PeerFacts
<1>2. /\ rxState[e] = 0 /\ wire[p] # <<>>
      /\ ack' = [ack EXCEPT ![e] = h.ack]
      /\ timeoutFlag' = [timeoutFlag EXCEPT ![e] =
                           @ /\ Ptr(h.ack) = Ptr(ack[e])
                             /\ Ptr(h.ack) # Ptr(back[e])]
      /\ rxBody' = [rxBody EXCEPT ![e] = h.body]
      /\ rxState' = [rxState EXCEPT ![e] = 1]
      /\ wire' = [wire EXCEPT ![p] = Tail(@)]
      /\ UNCHANGED <<next, back, contents, txState, numItemsToSend, txPkt,
                     receiveBuffer, delivered>>
  BY DEF Receive0
<1>3. /\ TypeOK
      /\ ack \in [Ends -> Nat] /\ recv \in [Ends -> Nat]
      /\ rxBody \in [Ends -> Seq(Int)] /\ rxState \in [Ends -> 0 .. 2]
      /\ timeoutFlag \in [Ends -> BOOLEAN]
      /\ numItemsToRecv \in [Ends -> 0 .. TransmitBound]
      /\ receiveCount \in [Ends -> 0 .. RecvBufferSize]
      /\ wire[p] \in Seq(Packet)
  BY <1>1 DEF IInv, TypeOK
<1>4. h = wire[p][1] /\ h \in Packet /\ 1 \in 1 .. Len(wire[p])
  BY <1>2, <1>3, HeadIsFirst
<1>5. /\ h.ack \in Nat /\ h.numItems \in Nat /\ h.seqNum \in Nat
      /\ h.body \in Seq(Int) /\ n \in Nat
  BY <1>4 DEF Packet
<1>6. /\ Intact(h) /\ h.numItems <= TransmitBound
      /\ h.seqNum + h.numItems <= back[p]
  BY <1>1, <1>4, PartsFacts DEF InFlight
<1>7. /\ numItemsToRecv' = [numItemsToRecv EXCEPT ![e] = n]
      /\ recv' = [recv EXCEPT ![e] = @ + n]
      /\ receiveCount' = [receiveCount EXCEPT ![e] = @ + n]
  <2>1. CASE Acceptable(e, h)
    BY <2>1 DEF Receive0
  <2>2. CASE ~ Acceptable(e, h)
    <3>1. /\ numItemsToRecv' = [numItemsToRecv EXCEPT ![e] = 0]
          /\ UNCHANGED <<recv, receiveCount>>
      BY <2>2 DEF Receive0
    <3>2. recv[e] + 0 = recv[e] /\ receiveCount[e] + 0 = receiveCount[e]
      BY <1>3
    <3>3. QED
      BY <1>3, <2>2, <3>1, <3>2
  <2>3. QED
    BY <2>1, <2>2
<1>8. n # 0 => /\ n = h.numItems /\ h.seqNum = recv[e]
              /\ receiveCount[e] + n <= RecvBufferSize
  <2>1. ASSUME Acceptable(e, h)
        PROVE  h.seqNum = recv[e] /\ RecvBufferSize - receiveCount[e] > TransmitBound
    BY <1>2, <2>1, HeadUnambiguous DEF Acceptable, Space
  <2>2. receiveCount[e] \in Nat /\ RecvBufferSize \in Nat /\ TransmitBound \in Nat
    BY <1>3, SizeAssumption
  <2>3. CASE Acceptable(e, h)
    <3>1. receiveCount[e] + h.numItems <= RecvBufferSize
      BY <1>5, <1>6, <2>1, <2>2, <2>3
    <3>2. QED
      BY <2>1, <2>3, <3>1
  <2>4. QED
    BY <2>3
<1>9. /\ recv[e] \in Nat /\ recv[p] \in Nat /\ back[e] \in Nat /\ back[p] \in Nat
      /\ ack[e] \in Nat /\ ack[p] \in Nat /\ next[e] \in Nat /\ next[p] \in Nat
      /\ TransmitBufferSize \in Nat /\ receiveCount[e] \in Nat
      /\ RecvBufferSize \in Nat /\ TransmitBound \in Nat
  BY <1>1, <1>3, TypeFacts, SizeAssumption
<1>10. n <= TransmitBound /\ receiveCount[e] + n <= RecvBufferSize
  <2>1. CASE n = 0
    <3>1. receiveCount[e] <= RecvBufferSize
      BY <1>3
    <3>2. QED
      BY <1>9, <2>1, <3>1
  <2>2. CASE n # 0
    BY <1>6, <1>8, <2>2
  <2>3. QED
    BY <2>1, <2>2
<1> HIDE DEF n, h, p
<1>11. /\ ack'[e] = h.ack /\ ack'[p] = ack[p]
       /\ recv'[e] = recv[e] + n /\ recv'[p] = recv[p]
       /\ numItemsToRecv'[e] = n /\ numItemsToRecv'[p] = numItemsToRecv[p]
       /\ receiveCount'[e] = receiveCount[e] + n
       /\ receiveCount'[p] = receiveCount[p]
       /\ rxBody'[e] = h.body /\ rxBody'[p] = rxBody[p]
       /\ rxState'[e] = 1 /\ rxState'[p] = rxState[p]
  BY <1>1, <1>2, <1>3, <1>7
<1>12. /\ wire' \in [Ends -> Seq(Packet)]
       /\ wire'[e] = wire[e]
       /\ Len(wire'[p]) = Len(wire[p]) - 1 /\ Len(wire[p]) \in Nat \ {0}
       /\ \A i \in 1 .. Len(wire'[p]) :
            wire'[p][i] = wire[p][i + 1] /\ i + 1 \in 1 .. Len(wire[p])
  BY <1>1, <1>2, TailKeeps
<1>13. TypeOK'
  <2>1. ack' \in [Ends -> Nat] /\ recv' \in [Ends -> Nat]
    <3>1. recv[e] + n \in Nat
      BY <1>5, <1>9, SMTT(40)
    <3>2. QED
      BY <1>2, <1>3, <1>5, <1>7, <3>1
  <2>2. rxBody' \in [Ends -> Seq(Int)] /\ rxState' \in [Ends -> 0 .. 2]
    BY <1>2, <1>3, <1>5
  <2>3. timeoutFlag' \in [Ends -> BOOLEAN]
    BY <1>2, <1>3
  <2>4. numItemsToRecv' \in [Ends -> 0 .. TransmitBound]
    BY <1>3, <1>5, <1>7, <1>10
  <2>5. receiveCount' \in [Ends -> 0 .. RecvBufferSize]
    <3>1. receiveCount[e] + n \in 0 .. RecvBufferSize
      BY <1>5, <1>9, <1>10, SMTT(40)
    <3>2. QED
      BY <1>3, <1>7, <3>1
  <2>6. QED
    BY <1>2, <1>3, <1>12, <2>1, <2>2, <2>3, <2>4, <2>5 DEF TypeOK
<1>14. /\ Window(e) /\ Ring(e) /\ Sending(e) /\ InFlight(e)
       /\ Acks(e) /\ Receiving(e) /\ Output(e)
       /\ Window(p) /\ Ring(p) /\ Sending(p) /\ InFlight(p)
       /\ Acks(p) /\ Receiving(p) /\ Output(p)
  BY <1>1, PartsFacts
<1>15. Parts(e)'
  <2>1. Window(e)'
    <3>1. ack[e] <= h.ack /\ h.ack <= recv[p]
      BY <1>1, <1>4, <1>14 DEF Acks
    <3>2. /\ recv[p] <= back[e] /\ next[e] <= back[e]
          /\ back[e] < next[e] + TransmitBufferSize
          /\ back[e] < ack[e] + TransmitBufferSize
      BY <1>14 DEF Window, p
    <3>3. back[e] < h.ack + TransmitBufferSize
      BY <1>5, <1>9, <3>1, <3>2, SMTT(40)
    <3>4. QED
      BY <1>2, <1>11, <3>1, <3>2, <3>3 DEF Window, p
  <2>2. Ring(e)' /\ Sending(e)' /\ InFlight(e)'
    BY <1>2, <1>11, <1>12, <1>14, RingFrame, SendingFrame, InFlightFrame DEF p
  <2>3. Acks(e)'
    <3>1. recv[e] <= recv[e] + n
      BY <1>5, <1>9
    <3>2. \A i \in 1 .. Len(wire[e]) : wire[e][i].ack \in Nat
      BY <1>3, TypeFacts
    <3>3. txPkt[e].ack \in Nat
      BY <1>3, TypeFacts
    <3>4. \A x \in Nat : x <= recv[e] => x <= recv[e] + n
      BY <1>5, <1>9
    <3>5. ack'[Peer(e)] = ack[Peer(e)]
      BY <1>11 DEF p
    <3>6. QED
      BY <1>2, <1>11, <1>12, <1>14, <3>2, <3>3, <3>4, <3>5 DEF Acks
  <2>4. Receiving(e)'
    <3>1. CASE n = 0
      <4>1. Len(h.body) \in Nat
        BY <1>5, LenProperties
      <4>2. QED
        BY <1>11, <3>1, <4>1 DEF Receiving
    <3>2. CASE n # 0
      <4>1. n <= Len(h.body) /\ \A k \in 1 .. n : h.body[k] = recv[e] + k - 1
        BY <1>6, <1>8, <3>2 DEF Intact
      <4>2. Len(h.body) \in Nat
        BY <1>5, LenProperties
      <4>3. \A k \in 1 .. n : recv[e] + k - 1 = (recv[e] + n) - n + k - 1
        BY <1>5, <1>9
      <4>4. QED
        BY <1>11, <4>1, <4>2, <4>3 DEF Receiving
    <3>3. QED
      BY <3>1, <3>2
  <2>5. Output(e)'
    <3>1. /\ numItemsToRecv[e] = 0
          /\ receiveCount[e] = Len(receiveBuffer[e]) + numItemsToRecv[e]
          /\ Len(delivered[e]) + receiveCount[e] = recv[e]
      BY <1>2, <1>14 DEF Receiving, Output
    <3>2. Len(receiveBuffer[e]) \in Nat /\ Len(delivered[e]) \in Nat
      BY <1>3, LenProperties DEF TypeOK
    <3>3. /\ receiveCount[e] + n = Len(receiveBuffer[e]) + n
          /\ Len(delivered[e]) + (receiveCount[e] + n) = recv[e] + n
      <4> DEFINE a == Len(receiveBuffer[e])
                 b == Len(delivered[e])
      <4>1. a \in Nat /\ b \in Nat /\ numItemsToRecv[e] = 0
            /\ receiveCount[e] = a + numItemsToRecv[e]
            /\ b + receiveCount[e] = recv[e]
        BY <3>1, <3>2
      <4> HIDE DEF a, b
      <4>2. receiveCount[e] + n = a + n /\ b + (receiveCount[e] + n) = recv[e] + n
        BY <1>5, <1>9, <4>1
      <4>3. QED
        BY <4>2 DEF a, b
    <3>4. QED
      BY <1>2, <1>11, <1>14, <3>3 DEF Output
  <2>6. QED
    BY <2>1, <2>2, <2>3, <2>4, <2>5 DEF Parts
<1>16. Parts(p)'
  <2>1. Ring(p)' /\ Receiving(p)' /\ Output(p)'
    BY <1>1, <1>2, <1>11, <1>14, RingFrame, ReceivingFrame, OutputFrame
  <2>2. Window(p)'
    <3>1. ack[p] <= recv[e] /\ recv[e] <= back[p]
      BY <1>1, <1>14 DEF Window
    <3>2. recv[e] + n <= back[p]
      <4>1. CASE n = 0
        BY <1>9, <3>1, <4>1
      <4>2. CASE n # 0
        BY <1>6, <1>8, <4>2
      <4>3. QED
        BY <4>1, <4>2
    <3>3. ack[p] <= recv[e] + n
      BY <1>5, <1>9, <3>1
    <3>4. QED
      BY <1>1, <1>2, <1>11, <1>14, <3>2, <3>3 DEF Window
  <2>3. Sending(p)'
    <3>1. ASSUME txState[p] # 0
          PROVE  recv[e] + n < txPkt[p].seqNum + TransmitBufferSize
      <4>1. /\ recv[e] < txPkt[p].seqNum + TransmitBufferSize
            /\ h.seqNum + h.numItems < txPkt[p].seqNum + TransmitBufferSize
        BY <1>1, <1>4, <1>14, <3>1 DEF Sending
      <4>2. CASE n = 0
        BY <1>9, <4>1, <4>2
      <4>3. CASE n # 0
        BY <1>8, <4>1, <4>3
      <4>4. QED
        BY <4>2, <4>3
    <3>2. QED
      BY <1>1, <1>2, <1>11, <1>12, <1>14, <3>1 DEF Sending
  <2>4. InFlight(p)'
    <3>1. ASSUME NEW i \in 1 .. Len(wire'[p])
          PROVE  /\ Intact(wire'[p][i])
                 /\ wire'[p][i].numItems <= TransmitBound
                 /\ wire'[p][i].seqNum + wire'[p][i].numItems <= back[p]
                 /\ recv[e] + n < wire'[p][i].seqNum + TransmitBufferSize
      <4>1. wire'[p][i] = wire[p][i + 1] /\ i + 1 \in 1 .. Len(wire[p])
        BY <1>12
      <4>2. 1 \in 1 .. (i + 1) - 1
        OBVIOUS
      <4>3. h.seqNum + h.numItems < wire[p][i + 1].seqNum + TransmitBufferSize
        BY <1>4, <1>14, <4>1, <4>2 DEF InFlight
      <4>4. recv[e] < wire[p][i + 1].seqNum + TransmitBufferSize
        BY <1>1, <1>14, <4>1 DEF InFlight
      <4>5. recv[e] + n < wire[p][i + 1].seqNum + TransmitBufferSize
        <5>1. CASE n = 0
          BY <1>9, <4>4, <5>1
        <5>2. CASE n # 0
          BY <1>8, <4>3, <5>2
        <5>3. QED
          BY <5>1, <5>2
      <4>6. QED
        BY <1>14, <4>1, <4>5 DEF InFlight
    <3>2. ASSUME NEW j \in 1 .. Len(wire'[p]), NEW i \in 1 .. j - 1
          PROVE  wire'[p][i].seqNum + wire'[p][i].numItems
                   < wire'[p][j].seqNum + TransmitBufferSize
      <4>1. i \in 1 .. Len(wire'[p]) /\ i + 1 \in 1 .. (j + 1) - 1
        BY <1>12
      <4>2. QED
        BY <1>12, <1>14, <4>1 DEF InFlight
    <3>3. back'[p] = back[p] /\ recv'[Peer(p)] = recv[e] + n
      BY <1>1, <1>2, <1>11
    <3>4. QED
      BY <3>1, <3>2, <3>3 DEF InFlight, Intact
  <2>5. Acks(p)'
    <3>1. ASSUME NEW i \in 1 .. Len(wire'[p])
          PROVE  h.ack <= wire'[p][i].ack /\ wire'[p][i].ack <= recv[p]
      <4>1. wire'[p][i] = wire[p][i + 1] /\ i + 1 \in 1 .. Len(wire[p])
        BY <1>12
      <4>2. 1 \in 1 .. (i + 1) - 1
        OBVIOUS
      <4>3. QED
        BY <1>4, <1>14, <4>1, <4>2 DEF Acks
    <3>2. ASSUME NEW j \in 1 .. Len(wire'[p]), NEW i \in 1 .. j - 1
          PROVE  wire'[p][i].ack <= wire'[p][j].ack
      <4>1. i \in 1 .. Len(wire'[p]) /\ i + 1 \in 1 .. (j + 1) - 1
        BY <1>12
      <4>2. QED
        BY <1>12, <1>14, <4>1 DEF Acks
    <3>3. txState[p] # 0 =>
            /\ h.ack <= txPkt[p].ack /\ txPkt[p].ack <= recv[p]
            /\ \A i \in 1 .. Len(wire'[p]) : wire'[p][i].ack <= txPkt[p].ack
      BY <1>4, <1>12, <1>14 DEF Acks
    <3>4. QED
      BY <1>1, <1>2, <1>11, <3>1, <3>2, <3>3 DEF Acks
  <2>6. QED
    BY <2>1, <2>2, <2>3, <2>4, <2>5 DEF Parts
<1>17. QED
  BY <1>1, <1>13, <1>15, <1>16 DEF IInv, Parts

\* A body beat: kept if it is one of the accepted items, else ignored.
LEMMA Receive2Step ==
  ASSUME IInv, NEW e \in Ends, Receive2(e)
  PROVE  IInv'
<1> DEFINE b == rxBody[e]
           n == numItemsToRecv[e]
<1>1. /\ rxState[e] = 2
      /\ rxBody' = [rxBody EXCEPT ![e] = Tail(@)]
      /\ rxState' = [rxState EXCEPT ![e] = IF Len(b) = 1 THEN 0 ELSE 2]
      /\ UNCHANGED <<next, ack, back, contents, timeoutFlag, txState,
                     numItemsToSend, txPkt, wire, recv, receiveCount,
                     delivered>>
  BY DEF Receive2, txVars
<1>2. /\ TypeOK
      /\ rxBody \in [Ends -> Seq(Int)] /\ b \in Seq(Int)
      /\ rxState \in [Ends -> 0 .. 2]
      /\ numItemsToRecv \in [Ends -> 0 .. TransmitBound]
      /\ receiveBuffer \in [Ends -> Seq(Int)] /\ receiveBuffer[e] \in Seq(Int)
      /\ delivered[e] \in Seq(Int)
  BY DEF IInv, TypeOK
<1>3. /\ Window(e) /\ Ring(e) /\ Sending(e) /\ InFlight(e)
      /\ Acks(e) /\ Receiving(e) /\ Output(e)
  BY PartsFacts
<1>4. b # <<>>
  BY <1>1, <1>3 DEF Receiving
<1>5. /\ Tail(b) \in Seq(Int) /\ Len(b) \in Nat \ {0}
      /\ Len(Tail(b)) = Len(b) - 1
      /\ \A i \in 1 .. Len(b) - 1 :
           Tail(b)[i] = b[i + 1] /\ i + 1 \in 1 .. Len(b)
      /\ Head(b) = b[1] /\ Head(b) \in Int
  BY <1>2, <1>4, TailFacts, HeadIsFirst
<1>6. /\ n \in Nat /\ n <= TransmitBound /\ recv[e] \in Nat
      /\ TransmitBound \in Nat
  BY <1>2, TypeFacts, SizeAssumption
<1>7. /\ n <= Len(b)
      /\ \A k \in 1 .. n : b[k] = recv[e] - n + k - 1
  BY <1>3 DEF Receiving
<1>8. /\ rxBody'[e] = Tail(b)
      /\ rxState'[e] = IF Len(b) = 1 THEN 0 ELSE 2
      /\ \A f \in Ends : f # e => rxBody'[f] = rxBody[f] /\ rxState'[f] = rxState[f]
      /\ rxBody' \in [Ends -> Seq(Int)] /\ rxState' \in [Ends -> 0 .. 2]
  BY <1>1, <1>2, <1>5
<1>9. /\ numItemsToRecv' \in [Ends -> 0 .. TransmitBound]
      /\ numItemsToRecv'[e] = IF n = 0 THEN 0 ELSE n - 1
      /\ receiveBuffer' \in [Ends -> Seq(Int)]
      /\ receiveBuffer'[e] = IF n = 0 THEN receiveBuffer[e]
                                      ELSE Append(receiveBuffer[e], Head(b))
      /\ \A f \in Ends : f # e =>
           /\ numItemsToRecv'[f] = numItemsToRecv[f]
           /\ receiveBuffer'[f] = receiveBuffer[f]
  <2>1. CASE n = 0
    <3>1. UNCHANGED <<receiveBuffer, numItemsToRecv>>
      BY <2>1 DEF Receive2
    <3>2. QED
      BY <1>2, <2>1, <3>1
  <2>2. CASE n # 0
    <3>1. /\ receiveBuffer' = [receiveBuffer EXCEPT ![e] = Append(@, Head(b))]
          /\ numItemsToRecv' = [numItemsToRecv EXCEPT ![e] = n - 1]
      BY <2>2 DEF Receive2
    <3>2. Append(receiveBuffer[e], Head(b)) \in Seq(Int)
      BY <1>2, <1>5, AppendFacts
    <3>3. n - 1 \in 0 .. TransmitBound
      BY <1>6, <2>2
    <3>4. QED
      BY <1>2, <2>2, <3>1, <3>2, <3>3
  <2>3. QED
    BY <2>1, <2>2
<1> HIDE DEF b, n
<1>10. TypeOK'
  BY <1>1, <1>2, <1>8, <1>9 DEF TypeOK
<1>11. ASSUME NEW f \in Ends
       PROVE  Parts(f)'
  <2>1. /\ Window(f) /\ Ring(f) /\ Sending(f) /\ InFlight(f)
        /\ Acks(f) /\ Receiving(f) /\ Output(f)
    BY PartsFacts
  <2>2. Window(f)' /\ Ring(f)' /\ Sending(f)' /\ InFlight(f)' /\ Acks(f)'
    BY <1>1, <2>1, WindowFrame, RingFrame, SendingFrame, InFlightFrame,
       AcksFrame
  <2>3. CASE f # e
    <3>1. Receiving(f)' /\ Output(f)'
      BY <1>1, <1>8, <1>9, <2>1, <2>3, ReceivingFrame, OutputFrame
    <3>2. QED
      BY <2>2, <3>1 DEF Parts
  <2>4. CASE f = e
    <3>1. Receiving(e)'
      <4>1. rxState'[e] = 2 => rxBody'[e] # <<>>
        <5>1. Len(<<>>) = 0
          BY EmptySeq
        <5>2. rxState'[e] = 2 => Len(b) # 1
          BY <1>8
        <5>3. Len(b) # 1 => Len(Tail(b)) # 0
          BY <1>5
        <5>4. QED
          BY <1>8, <5>1, <5>2, <5>3
      <4>2. rxState'[e] = 0 => numItemsToRecv'[e] = 0
        <5>1. rxState'[e] = 0 => Len(b) = 1
          BY <1>8
        <5>2. Len(b) = 1 => n = 0 \/ n = 1
          BY <1>6, <1>7
        <5>3. n = 0 \/ n = 1 => numItemsToRecv'[e] = 0
          BY <1>9
        <5>4. QED
          BY <5>1, <5>2, <5>3
      <4>3. numItemsToRecv'[e] <= Len(rxBody'[e])
        BY <1>5, <1>6, <1>7, <1>8, <1>9
      <4>4. ASSUME NEW k \in 1 .. numItemsToRecv'[e]
            PROVE  rxBody'[e][k] = recv[e] - numItemsToRecv'[e] + k - 1
        <5>1. n # 0 /\ numItemsToRecv'[e] = n - 1 /\ k \in Nat
          BY <1>6, <1>9
        <5>2. k + 1 \in 1 .. n /\ k \in 1 .. Len(b) - 1
          BY <1>5, <1>6, <1>7, <5>1
        <5>3. rxBody'[e][k] = b[k + 1]
          BY <1>5, <1>8, <5>2
        <5>4. b[k + 1] = recv[e] - n + (k + 1) - 1
          BY <1>7, <5>2
        <5>5. recv[e] - n + (k + 1) - 1 = recv[e] - (n - 1) + k - 1
          BY <1>6, <5>1
        <5>6. QED
          BY <5>1, <5>3, <5>4, <5>5
      <4>5. QED
        BY <1>1, <4>1, <4>2, <4>3, <4>4 DEF Receiving
    <3>2. Output(e)'
      <4>1. CASE n = 0
        BY <1>1, <1>3, <1>9, <4>1 DEF Output, n
      <4>2. CASE n # 0
        <5> DEFINE r == receiveBuffer[e]
                   l == Len(r)
                   d == Len(delivered[e])
        <5>1. /\ l \in Nat /\ d \in Nat
              /\ receiveBuffer'[e] = Append(r, Head(b))
              /\ Len(Append(r, Head(b))) = l + 1
              /\ \A i \in 1 .. l : Append(r, Head(b))[i] = r[i]
              /\ Append(r, Head(b))[l + 1] = Head(b)
          BY <1>2, <1>5, <1>9, <4>2, AppendFacts, LenProperties
        <5>2. /\ receiveCount[e] = l + n
              /\ d + receiveCount[e] = recv[e]
              /\ \A i \in 1 .. l : r[i] = d + i - 1
          BY <1>3 DEF Output, n
        <5>3. Head(b) = recv[e] - n + 1 - 1
          BY <1>5, <1>6, <1>7, <4>2
        <5>4. receiveCount[e] \in Nat
          BY <1>2 DEF TypeOK
        <5> HIDE DEF l, d, r
        <5>5. /\ receiveCount[e] = (l + 1) + (n - 1)
              /\ Head(b) = d + (l + 1) - 1
          BY <1>6, <5>1, <5>2, <5>3, <5>4, SMTT(40)
        <5>6. ASSUME NEW i \in 1 .. l + 1
              PROVE  Append(r, Head(b))[i] = d + i - 1
          <6>1. CASE i = l + 1
            BY <5>1, <5>5, <6>1
          <6>2. CASE i # l + 1
            <7>1. i \in 1 .. l
              BY <5>1, <6>2
            <7>2. QED
              BY <5>1, <5>2, <7>1
          <6>3. QED
            BY <6>1, <6>2
        <5>7. numItemsToRecv'[e] = n - 1
          BY <1>9, <4>2
        <5>8. QED
          BY <1>1, <5>1, <5>2, <5>5, <5>6, <5>7 DEF Output, d
      <4>3. QED
        BY <4>1, <4>2
    <3>3. QED
      BY <2>2, <2>4, <3>1, <3>2 DEF Parts
  <2>5. QED
    BY <2>3, <2>4
<1>12. QED
  BY <1>10, <1>11 DEF IInv, Parts

\* The user gets the next item of the stream.
LEMMA GetDelivers ==
  ASSUME IInv, NEW e \in Ends, StreamOutGet(e)
  PROVE  /\ Head(receiveBuffer[e]) = Len(delivered[e])
         /\ Len(delivered[e]) < back[Peer(e)]
<1>1. receiveBuffer[e] \in Seq(Int) /\ receiveBuffer[e] # <<>>
  BY DEF IInv, TypeOK, StreamOutGet
<1>2. /\ Len(receiveBuffer[e]) \in Nat \ {0}
      /\ Head(receiveBuffer[e]) = receiveBuffer[e][1]
  BY <1>1, HeadIsFirst
<1>3. /\ numItemsToRecv[e] \in Nat /\ receiveCount[e] \in Nat
      /\ recv[e] \in Nat /\ back[Peer(e)] \in Nat
      /\ delivered[e] \in Seq(Int)
  BY SizeAssumption, PeerFacts DEF IInv, TypeOK
<1>4. Len(delivered[e]) \in Nat
  BY <1>3, LenProperties
<1>5. /\ receiveCount[e] = Len(receiveBuffer[e]) + numItemsToRecv[e]
      /\ Len(delivered[e]) + receiveCount[e] = recv[e]
      /\ receiveBuffer[e][1] = Len(delivered[e]) + 1 - 1
  BY <1>2, PartsFacts DEF Output
<1>6. recv[e] <= back[Peer(e)]
  BY PeerFacts, PartsFacts DEF Window
<1> DEFINE a == Len(receiveBuffer[e])
           d == Len(delivered[e])
<1>7. a \in Nat \ {0} /\ d \in Nat /\ receiveCount[e] = a + numItemsToRecv[e]
      /\ d + receiveCount[e] = recv[e] /\ receiveBuffer[e][1] = d + 1 - 1
  BY <1>2, <1>4, <1>5
<1> HIDE DEF a, d
<1>8. receiveBuffer[e][1] = d /\ d < back[Peer(e)]
  BY <1>3, <1>6, <1>7
<1>9. QED
  BY <1>2, <1>8 DEF d

\* Taking an item returns its credit.
LEMMA GetStep ==
  ASSUME IInv, NEW e \in Ends, StreamOutGet(e)
  PROVE  IInv'
<1> DEFINE r == receiveBuffer[e]
<1>1. /\ r # <<>>
      /\ delivered' = [delivered EXCEPT ![e] = Append(@, Head(r))]
      /\ receiveBuffer' = [receiveBuffer EXCEPT ![e] = Tail(@)]
      /\ receiveCount' = [receiveCount EXCEPT ![e] = @ - 1]
      /\ UNCHANGED <<next, ack, back, contents, timeoutFlag, txState,
                     numItemsToSend, txPkt, wire, recv, rxState,
                     numItemsToRecv, rxBody>>
  BY DEF StreamOutGet, txVars
<1>2. /\ TypeOK
      /\ receiveBuffer \in [Ends -> Seq(Int)] /\ r \in Seq(Int)
      /\ delivered \in [Ends -> Seq(Int)] /\ delivered[e] \in Seq(Int)
      /\ receiveCount \in [Ends -> 0 .. RecvBufferSize]
  BY DEF IInv, TypeOK
<1>3. /\ Tail(r) \in Seq(Int) /\ Len(r) \in Nat \ {0}
      /\ Len(Tail(r)) = Len(r) - 1
      /\ \A i \in 1 .. Len(r) - 1 :
           Tail(r)[i] = r[i + 1] /\ i + 1 \in 1 .. Len(r)
      /\ Head(r) \in Int
  BY <1>1, <1>2, TailFacts, HeadIsFirst
<1>4. /\ Append(delivered[e], Head(r)) \in Seq(Int)
      /\ Len(delivered[e]) \in Nat
      /\ Len(Append(delivered[e], Head(r))) = Len(delivered[e]) + 1
  BY <1>2, <1>3, AppendFacts
<1>5. /\ numItemsToRecv[e] \in Nat /\ receiveCount[e] \in Nat /\ recv[e] \in Nat
      /\ RecvBufferSize \in Nat /\ receiveCount[e] <= RecvBufferSize
  BY <1>2, SizeAssumption DEF TypeOK
<1>6. /\ receiveCount[e] = Len(r) + numItemsToRecv[e]
      /\ Len(delivered[e]) + receiveCount[e] = recv[e]
      /\ \A i \in 1 .. Len(r) : r[i] = Len(delivered[e]) + i - 1
  BY PartsFacts DEF Output
<1> DEFINE l == Len(r)
           d == Len(delivered[e])
<1>7. /\ delivered'[e] = Append(delivered[e], Head(r))
      /\ receiveBuffer'[e] = Tail(r)
      /\ receiveCount'[e] = receiveCount[e] - 1
      /\ \A f \in Ends : f # e => /\ delivered'[f] = delivered[f]
                                  /\ receiveBuffer'[f] = receiveBuffer[f]
                                  /\ receiveCount'[f] = receiveCount[f]
  BY <1>1, <1>2
<1>8. TypeOK'
  <2>1. receiveCount[e] - 1 \in 0 .. RecvBufferSize
    <3>1. l \in Nat \ {0} /\ receiveCount[e] = l + numItemsToRecv[e]
      BY <1>3, <1>6
    <3> HIDE DEF l
    <3>2. QED
      BY <1>5, <3>1
  <2>2. /\ receiveCount' \in [Ends -> 0 .. RecvBufferSize]
        /\ receiveBuffer' \in [Ends -> Seq(Int)]
        /\ delivered' \in [Ends -> Seq(Int)]
    BY <1>1, <1>2, <1>3, <1>4, <2>1
  <2>3. QED
    BY <1>1, <1>2, <2>2 DEF TypeOK
<1>9. ASSUME NEW f \in Ends
      PROVE  Parts(f)'
  <2>1. /\ Window(f) /\ Ring(f) /\ Sending(f) /\ InFlight(f)
        /\ Acks(f) /\ Receiving(f) /\ Output(f)
    BY PartsFacts
  <2>2. Window(f)' /\ Ring(f)' /\ Sending(f)' /\ InFlight(f)' /\ Acks(f)'
        /\ Receiving(f)'
    BY <1>1, <2>1, WindowFrame, RingFrame, SendingFrame, InFlightFrame,
       AcksFrame, ReceivingFrame
  <2>3. CASE f # e
    <3>1. Output(f)'
      BY <1>1, <1>7, <2>1, <2>3, OutputFrame
    <3>2. QED
      BY <2>2, <3>1 DEF Parts
  <2>4. CASE f = e
    <3>1. /\ l \in Nat \ {0} /\ d \in Nat
          /\ receiveCount[e] = l + numItemsToRecv[e]
          /\ d + receiveCount[e] = recv[e]
          /\ Len(receiveBuffer'[e]) = l - 1 /\ Len(delivered'[e]) = d + 1
      BY <1>3, <1>4, <1>6, <1>7
    <3>2. ASSUME NEW i \in 1 .. l - 1
          PROVE  receiveBuffer'[e][i] = (d + 1) + i - 1
      <4>1. /\ receiveBuffer'[e][i] = r[i + 1] /\ i + 1 \in 1 .. l
            /\ r[i + 1] = d + (i + 1) - 1
        BY <1>3, <1>6, <1>7
      <4> HIDE DEF l, d
      <4>2. QED
        BY <3>1, <4>1
    <3> HIDE DEF l, d
    <3>3. /\ receiveCount[e] - 1 = (l - 1) + numItemsToRecv[e]
          /\ (d + 1) + (receiveCount[e] - 1) = recv[e]
      <4>1. /\ l \in Nat \ {0} /\ d \in Nat
            /\ receiveCount[e] = l + numItemsToRecv[e]
            /\ d + receiveCount[e] = recv[e]
        BY <3>1
      <4>2. QED
        BY <1>5, <4>1
    <3>4. Output(e)'
      BY <1>1, <1>7, <3>1, <3>2, <3>3 DEF Output
    <3>5. QED
      BY <2>2, <2>4, <3>4 DEF Parts
  <2>5. QED
    BY <2>3, <2>4
<1>10. QED
  BY <1>8, <1>9 DEF IInv, Parts

-----------------------------------------------------------------------------
(* The theorems                                                            *)

\* The invariant holds after reset.
LEMMA InitInv == Init => IInv
<1> SUFFICES ASSUME Init PROVE IInv
  OBVIOUS
<1>1. NoPacket \in Packet /\ <<>> \in Seq(Packet) /\ <<>> \in Seq(Int)
      /\ Len(<<>>) = 0
  BY EmptySeq DEF NoPacket, Packet
<1>2. TypeOK
  <2>1. 0 \in 0 .. TransmitBound /\ 0 \in 0 .. RecvBufferSize /\ NoItem \in Int
    BY SizeAssumption DEF NoItem
  <2>2. contents \in [Ends -> [0 .. TransmitBufferSize - 1 -> Int]]
    BY <2>1 DEF Init
  <2>3. QED
    BY <1>1, <2>1, <2>2 DEF Init, TypeOK
<1>3. ASSUME NEW e \in Ends
      PROVE  Parts(e)
  <2>1. Window(e) /\ Ring(e) /\ Sending(e)
    BY PeerFacts, SizeAssumption DEF Init, Window, Ring, Sending
  <2>2. InFlight(e) /\ Acks(e) /\ Receiving(e) /\ Output(e)
    BY <1>1, PeerFacts DEF Init, InFlight, Acks, Receiving, Output
  <2>3. QED
    BY <2>1, <2>2 DEF Parts
<1>4. QED
  BY <1>2, <1>3 DEF IInv, Parts

\* A step that changes nothing keeps the invariant.
LEMMA StutterInv == ASSUME IInv, UNCHANGED vars PROVE IInv'
<1>1. UNCHANGED <<next, ack, back, contents, timeoutFlag, txState,
                  numItemsToSend, txPkt, wire, recv, rxState, numItemsToRecv,
                  rxBody, receiveCount, receiveBuffer, delivered>>
  BY DEF vars
<1>2. TypeOK'
  BY <1>1 DEF IInv, TypeOK
<1>3. ASSUME NEW f \in Ends
      PROVE  Parts(f)'
  <2>1. /\ Window(f) /\ Ring(f) /\ Sending(f) /\ InFlight(f)
        /\ Acks(f) /\ Receiving(f) /\ Output(f)
    BY PartsFacts
  <2>2. Window(f)' /\ Ring(f)' /\ Sending(f)' /\ InFlight(f)'
    BY <1>1, <2>1, WindowFrame, RingFrame, SendingFrame, InFlightFrame
  <2>3. Acks(f)' /\ Receiving(f)' /\ Output(f)'
    BY <1>1, <2>1, AcksFrame, ReceivingFrame, OutputFrame
  <2>4. QED
    BY <2>2, <2>3 DEF Parts
<1>4. QED
  BY <1>2, <1>3 DEF IInv, Parts

\* Every rule of the link keeps the invariant.
LEMMA NextInv == IInv /\ [Next]_vars => IInv'
<1>1. ASSUME IInv, Next PROVE IInv'
  <2>1. PICK e \in Ends :
          \/ FillTransmitBuffer(e) \/ TimerExpires(e)
          \/ Transmit0(e) \/ Transmit1(e) \/ Transmit2(e)
          \/ Lose(e)
          \/ Receive0(e) \/ Receive1(e) \/ Receive2(e) \/ StreamOutGet(e)
    BY <1>1 DEF Next
  <2>2. QED
    BY <1>1, <2>1, FillStep, TimerStep, Transmit0Step, Transmit1Step,
       Transmit2Step, LoseStep, Receive0Step, Receive1Step, Receive2Step,
       GetStep
<1>2. QED
  BY <1>1, StutterInv

\* The inductive invariant of the link holds in every reachable state.
THEOREM Invariance == Spec => []IInv
BY InitInv, NextInv, PTL DEF Spec

\* The registers of ReliableLink.bsv keep their types: in particular the
\* credit counter never exceeds the size of the receive buffer.
THEOREM TypeCorrect == Spec => []TypeOK
<1>1. IInv => TypeOK
  BY DEF IInv
<1>2. QED
  BY <1>1, Invariance, PTL

\* The assertion "Receive buffer overflow!" of rule receive2 never fails.
THEOREM NoOverflow == Spec => []NoReceiveOverflow
<1>1. IInv => NoReceiveOverflow
  <2> SUFFICES ASSUME IInv, NEW e \in Ends, numItemsToRecv[e] # 0
               PROVE  Len(receiveBuffer[e]) < RecvBufferSize
    BY DEF NoReceiveOverflow
  <2> DEFINE l == Len(receiveBuffer[e])
  <2>1. /\ receiveCount[e] \in Nat /\ receiveCount[e] <= RecvBufferSize
        /\ numItemsToRecv[e] \in Nat /\ receiveBuffer[e] \in Seq(Int)
        /\ RecvBufferSize \in Nat
    BY SizeAssumption DEF IInv, TypeOK
  <2>2. l \in Nat /\ receiveCount[e] = l + numItemsToRecv[e]
    BY <2>1, LenProperties, PartsFacts DEF Output
  <2> HIDE DEF l
  <2>3. l < RecvBufferSize
    BY <2>1, <2>2
  <2>4. QED
    BY <2>3 DEF l
<1>2. QED
  BY <1>1, Invariance, PTL

\* A header that matches nextItemToRecv modulo the buffer size is the header
\* of the next item, for every buffer size and every history of losses.
THEOREM SequenceNumbersUnambiguous == Spec => []NoAliasing
<1>1. IInv => NoAliasing
  BY HeadUnambiguous DEF NoAliasing
<1>2. QED
  BY <1>1, Invariance, PTL

\* Every packet on the wire carries the items its header announces.
THEOREM PacketsAreIntact == Spec => []PacketsIntact
<1>1. IInv => PacketsIntact
  BY DEF IInv, InFlight, PacketsIntact
<1>2. QED
  BY <1>1, Invariance, PTL

\* Acknowledged <= received <= sent.
THEOREM AcksAreSound == Spec => []AckSound
<1>1. IInv => AckSound
  BY DEF IInv, Window, AckSound
<1>2. QED
  BY <1>1, Invariance, PTL

\* The link implements a reliable stream in each direction.
THEOREM LinkImplementsStreams == Spec => Streams
<1>1. Init => StreamAB!Init /\ StreamBA!Init
  BY DEF Init, StreamAB!Init, StreamBA!Init, Ends
<1>2. ASSUME IInv, [Next]_vars
      PROVE  [StreamAB!Next]_(StreamAB!vars) /\ [StreamBA!Next]_(StreamBA!vars)
  <2>0. /\ back \in [Ends -> Nat] /\ delivered \in [Ends -> Seq(Int)]
        /\ "A" \in Ends /\ "B" \in Ends /\ "A" # "B"
        /\ Peer("A") = "B" /\ Peer("B") = "A"
        /\ \A e \in Ends : e = "A" \/ e = "B"
    BY <1>2 DEF IInv, TypeOK, Ends, Peer
  <2>1. CASE UNCHANGED <<back, delivered>>
    BY <2>1 DEF StreamAB!vars, StreamBA!vars
  <2>2. ASSUME NEW e \in Ends, FillTransmitBuffer(e)
        PROVE  [StreamAB!Next]_(StreamAB!vars) /\ [StreamBA!Next]_(StreamBA!vars)
    <3>1. back' = [back EXCEPT ![e] = @ + 1] /\ delivered' = delivered
      BY <2>2 DEF FillTransmitBuffer, rxVars
    <3>2. CASE e = "A"
      <4>1. StreamAB!Send /\ UNCHANGED StreamBA!vars
        BY <2>0, <3>1, <3>2 DEF StreamAB!Send, StreamBA!vars
      <4>2. QED
        BY <4>1 DEF StreamAB!Next
    <3>3. CASE e = "B"
      <4>1. StreamBA!Send /\ UNCHANGED StreamAB!vars
        BY <2>0, <3>1, <3>3 DEF StreamBA!Send, StreamAB!vars
      <4>2. QED
        BY <4>1 DEF StreamBA!Next
    <3>4. QED
      BY <2>0, <3>2, <3>3
  <2>3. ASSUME NEW e \in Ends, StreamOutGet(e)
        PROVE  [StreamAB!Next]_(StreamAB!vars) /\ [StreamBA!Next]_(StreamBA!vars)
    <3>1. /\ delivered' = [delivered EXCEPT ![e] =
                             Append(@, Len(delivered[e]))]
          /\ Len(delivered[e]) < back[Peer(e)]
          /\ back' = back
      BY <1>2, <2>3, GetDelivers DEF StreamOutGet, txVars
    <3>2. CASE e = "B"
      <4>1. StreamAB!Deliver /\ UNCHANGED StreamBA!vars
        BY <2>0, <3>1, <3>2 DEF StreamAB!Deliver, StreamBA!vars
      <4>2. QED
        BY <4>1 DEF StreamAB!Next
    <3>3. CASE e = "A"
      <4>1. StreamBA!Deliver /\ UNCHANGED StreamAB!vars
        BY <2>0, <3>1, <3>3 DEF StreamBA!Deliver, StreamAB!vars
      <4>2. QED
        BY <4>1 DEF StreamBA!Next
    <3>4. QED
      BY <2>0, <3>2, <3>3
  <2>4. \/ UNCHANGED <<back, delivered>>
        \/ \E e \in Ends : FillTransmitBuffer(e) \/ StreamOutGet(e)
    BY <1>2 DEF Next, vars, txVars, rxVars, TimerExpires, Transmit0, Transmit1,
       Transmit2, Lose, Receive0, Receive1, Receive2
  <2>5. QED
    BY <2>1, <2>2, <2>3, <2>4
<1>3. QED
  BY <1>1, <1>2, Invariance, PTL
     DEF Spec, Streams, StreamAB!Spec, StreamBA!Spec
=============================================================================
