----------------------- MODULE MacReceiveBufferProofs -----------------------
(***************************************************************************)
(* Proof that the receive buffer of a MAC implements PacketBuffer, for     *)
(* every size of the ring and every stream of packets.                     *)
(***************************************************************************)
EXTENDS MacReceiveBuffer, CommonTheorems, SequenceTheorems, TLAPS

\* A pointer is the number of a slot of the ring.
LEMMA PtrInRing ==
  ASSUME NEW a \in Nat
  PROVE  Ptr(a) \in 0 .. Size - 1
BY BufferAssumption, ModDiv DEF Ptr

\* Comparing pointers of counts less than a ring apart compares the counts.
LEMMA PtrInjective ==
  ASSUME NEW a \in Nat, NEW b \in Nat, Ptr(a) = Ptr(b),
         a < b + Size, b < a + Size
  PROVE  a = b
BY BufferAssumption, ModInjective DEF Ptr

\* Pointers wrap around after a ring.
LEMMA PtrWraps ==
  ASSUME NEW a \in Nat
  PROVE  Ptr(a + Size) = Ptr(a)
BY BufferAssumption, ModWraps DEF Ptr

\* The counts and lengths of a state are natural numbers.
LEMMA Counts ==
  ASSUME TypeOK
  PROVE  /\ Len(cur) \in Nat /\ Len(good) \in Nat /\ Len(out) \in Nat
         /\ Size \in Nat /\ Size > 1
BY BufferAssumption, LenProperties DEF TypeOK

\* The test of canEnq, on counts: there is a slot beside the one written.
LEMMA CanEnqMeans ==
  ASSUME TypeOK, Pointers, CanEnq
  PROVE  far + 1 < front + Size
<1>1. /\ far \in Nat /\ front \in Nat /\ Size \in Nat
      /\ far < front + Size
  BY BufferAssumption DEF TypeOK, Pointers
<1>2. Ptr(front + Size) = Ptr(front)
  BY <1>1, PtrWraps
<1>3. far + 1 # front + Size
  BY <1>2 DEF CanEnq
<1>4. QED
  BY <1>1, <1>3

\* The test for an oversized packet, on counts.
LEMMA TooLongMeans ==
  ASSUME TypeOK, Pointers
  PROVE  TooLong <=> far + 2 = near + Size
<1>1. /\ far \in Nat /\ near \in Nat /\ Size \in Nat /\ Size > 1
      /\ near <= far /\ far + 1 < near + Size
  BY BufferAssumption DEF TypeOK, Pointers
<1>2. Ptr(near + Size) = Ptr(near)
  BY <1>1, PtrWraps
<1>3. far + 2 \in Nat /\ near + Size \in Nat
  BY <1>1
<1>4. ASSUME Ptr(far + 2) = Ptr(near)
      PROVE  far + 2 = near + Size
  <2>1. far + 2 < near + Size + Size /\ near + Size < far + 2 + Size
    BY <1>1
  <2>2. Ptr(far + 2) = Ptr(near + Size)
    BY <1>2, <1>4
  <2>3. QED
    BY <1>3, <2>1, <2>2, PtrInjective
<1>5. QED
  BY <1>2, <1>4 DEF TooLong

\* The slot written by enq is none of those in use.
LEMMA SlotIsFree ==
  ASSUME TypeOK, Pointers, CanEnq, NEW k \in front .. far - 1
  PROVE  /\ k \in Nat /\ Ptr(k) \in 0 .. Size - 1
         /\ Ptr(k) # Ptr(far)
<1>1. /\ far \in Nat /\ front \in Nat /\ Size \in Nat
      /\ far + 1 < front + Size
  BY BufferAssumption, CanEnqMeans DEF TypeOK
<1>2. k \in Nat /\ k < far /\ far < k + Size /\ k < far + Size
  BY <1>1
<1>3. QED
  BY <1>1, <1>2, PtrInjective, PtrInRing

\* The elements of a concatenation.
LEMMA ConcatFacts ==
  ASSUME NEW S, NEW s \in Seq(S), NEW t \in Seq(S)
  PROVE  /\ s \o t \in Seq(S) /\ Len(s \o t) = Len(s) + Len(t)
         /\ \A i \in 1 .. Len(s) : (s \o t)[i] = s[i]
         /\ \A j \in 1 .. Len(t) : (s \o t)[Len(s) + j] = t[j]
<1> DEFINE u == s \o t
           n == Len(s)
           m == Len(t)
<1>0. n \in Nat /\ m \in Nat
  BY LenProperties
<1>1. /\ u \in Seq(S) /\ Len(u) = n + m
      /\ \A i \in 1 .. n + m : u[i] = IF i <= n THEN s[i] ELSE t[i - n]
  BY ConcatProperties
<1> HIDE DEF u, n, m
<1>2. ASSUME NEW i \in 1 .. n
      PROVE  u[i] = s[i]
  <2>1. i \in 1 .. n + m /\ i <= n
    BY <1>0
  <2>2. QED
    BY <1>1, <2>1
<1>3. ASSUME NEW j \in 1 .. m
      PROVE  u[n + j] = t[j]
  <2>1. n + j \in 1 .. n + m /\ ~ (n + j <= n) /\ (n + j) - n = j
    BY <1>0
  <2>2. u[n + j] = t[(n + j) - n]
    BY <1>1, <2>1
  <2>3. QED
    BY <2>1, <2>2
<1>4. QED
  BY <1>1, <1>2, <1>3 DEF u, n, m

-----------------------------------------------------------------------------

\* The invariant holds after reset.
LEMMA InitInv == Init => BufferInv
<1> SUFFICES ASSUME Init PROVE BufferInv
  OBVIOUS
<1>1. TypeOK
  <2>1. buffer \in [0 .. Size - 1 -> Nat]
    BY DEF Init
  <2>2. cur \in Seq(Nat) /\ good \in Seq(Nat) /\ out \in Seq(Nat)
    BY EmptySeq DEF Init
  <2>3. drop \in BOOLEAN /\ dataValid \in BOOLEAN
    BY DEF Init
  <2>4. /\ front \in Nat /\ near \in Nat /\ far \in Nat
        /\ dataOut \in Nat /\ arrived \in Nat
    BY DEF Init
  <2>5. QED
    BY <2>1, <2>2, <2>3, <2>4 DEF TypeOK
<1>2. Len(cur) = 0 /\ Len(good) = 0 /\ Len(out) = 0
  BY EmptySeq DEF Init
<1>3. Pointers
  BY <1>2, BufferAssumption DEF Init, Pointers
<1>4. Contents
  BY DEF Init, Contents
<1>5. Arriving
  BY <1>2 DEF Init, Arriving
<1>6. QED
  BY <1>1, <1>3, <1>4, <1>5 DEF BufferInv, Fetched, Init

\* What the output register holds after reading the RAM at ptr.
LEMMA ReadFetches ==
  ASSUME BufferInv, NEW ptr \in Nat, front <= ptr, ptr <= near,
         ReadAt(ptr), UNCHANGED <<ptrVars, good>>
  PROVE  Fetched' /\ front' = ptr /\ dataValid' \in BOOLEAN /\ dataOut' \in Nat
<1>1. /\ near \in Nat /\ front \in Nat /\ far \in Nat /\ near <= far
      /\ far < front + Size /\ Size \in Nat
      /\ buffer \in [0 .. Size - 1 -> Nat]
  BY BufferAssumption DEF BufferInv, TypeOK, Pointers
<1>2. Ptr(ptr) \in 0 .. Size - 1
  BY PtrInRing
<1>3. dataValid' => ptr < near
  <2>1. dataValid' => ptr # near
    BY DEF ReadAt
  <2>2. QED
    BY <1>1, <2>1
<1>4. ptr < near => buffer[Ptr(ptr)] = good[ptr + 1]
  BY <1>1 DEF BufferInv, Contents
<1>5. dataOut' = buffer[Ptr(ptr)] /\ front' = ptr /\ near' = near /\ good' = good
  BY DEF ReadAt, ptrVars
<1>6. Fetched'
  BY <1>3, <1>4, <1>5 DEF Fetched
<1>7. QED
  BY <1>1, <1>2, <1>5, <1>6 DEF ReadAt

\* The output side hands out the next good beat or only reads the RAM.
LEMMA WriteStep ==
  ASSUME BufferInv, WriteToOutputPort
  PROVE  /\ BufferInv'
         /\ \/ Packets!HandOut
            \/ UNCHANGED <<cur, good, out>>
<1>0. /\ front \in Nat /\ near \in Nat /\ far \in Nat /\ Size \in Nat
      /\ Size > 1 /\ front <= near /\ near <= far /\ far < front + Size
      /\ far + 1 < near + Size /\ near = Len(good) /\ front = Len(out)
      /\ out \in Seq(Nat) /\ good \in Seq(Nat) /\ cur \in Seq(Nat)
      /\ dataOut \in Nat
  BY BufferAssumption DEF BufferInv, TypeOK, Pointers
<1>1. /\ buffer' = buffer /\ near' = near /\ far' = far /\ drop' = drop
      /\ arrived' = arrived /\ cur' = cur /\ good' = good
  BY DEF WriteToOutputPort, ptrVars
<1>2. ASSUME NEW ptr \in Nat, front <= ptr, ptr <= near, ReadAt(ptr),
             out' \in Seq(Nat), Len(out') = ptr
      PROVE  BufferInv'
  <2>1. Fetched' /\ front' = ptr /\ dataValid' \in BOOLEAN /\ dataOut' \in Nat
    BY <1>1, <1>2, ReadFetches DEF ptrVars
  <2>2. TypeOK'
    BY <1>1, <1>2, <2>1 DEF BufferInv, TypeOK
  <2>3. Pointers'
    BY <1>0, <1>1, <1>2, <2>1 DEF Pointers
  <2>4. Contents'
    <3>1. \A k \in ptr .. near - 1 : k \in front .. near - 1
      BY <1>0, <1>2
    <3>2. QED
      BY <1>1, <2>1, <3>1 DEF BufferInv, Contents
  <2>5. Arriving'
    BY <1>1 DEF BufferInv, Arriving
  <2>6. QED
    BY <2>1, <2>2, <2>3, <2>4, <2>5 DEF BufferInv
<1>3. CASE dataValid /\ out' = Append(out, dataOut) /\ ReadAt(front + 1)
  <2>1. front < near /\ dataOut = good[front + 1]
    BY <1>3 DEF BufferInv, Fetched
  <2>2. out' \in Seq(Nat) /\ Len(out') = front + 1
    BY <1>0, <1>3, AppendProperties
  <2>3. BufferInv'
    BY <1>0, <1>2, <1>3, <2>1, <2>2
  <2>4. Packets!HandOut
    BY <1>0, <1>1, <1>3, <2>1 DEF Packets!HandOut
  <2>5. QED
    BY <2>3, <2>4
<1>4. CASE ReadAt(front) /\ UNCHANGED out
  <2>1. BufferInv'
    BY <1>0, <1>2, <1>4
  <2>2. QED
    BY <1>1, <1>4, <2>1
<1>5. QED
  BY <1>3, <1>4 DEF WriteToOutputPort

\* A beat that is not the last goes behind the arriving packet, or is dropped
\* with it when the ring has no room for the packet.
LEMMA BeatStep ==
  ASSUME BufferInv, EnqBeat
  PROVE  BufferInv' /\ Packets!Arrive(arrived) /\ arrived \in 0 .. MaxBeats
<1> DEFINE l == Len(cur)
<1>0. /\ front \in Nat /\ near \in Nat /\ far \in Nat /\ Size \in Nat
      /\ Size > 1 /\ front <= near /\ near <= far
      /\ far + 1 < near + Size /\ near = Len(good) /\ front = Len(out)
      /\ cur \in Seq(Nat) /\ arrived \in Nat /\ l \in Nat
      /\ buffer \in [0 .. Size - 1 -> Nat] /\ drop \in BOOLEAN
  BY Counts, BufferAssumption DEF BufferInv, TypeOK, Pointers
<1>1. /\ buffer' = [buffer EXCEPT ![Ptr(far)] = arrived]
      /\ drop' = (drop \/ TooLong)
      /\ far' = (IF TooLong THEN far ELSE far + 1)
      /\ arrived' = arrived + 1 /\ cur' = Append(cur, arrived)
      /\ near' = near /\ good' = good /\ front' = front /\ out' = out
      /\ dataValid' = dataValid /\ dataOut' = dataOut
  BY DEF EnqBeat, outVars
<1>2. far + 1 < front + Size
  BY CanEnqMeans DEF EnqBeat, BufferInv
<1>3. TooLong <=> far + 2 = near + Size
  BY TooLongMeans DEF BufferInv
<1>4. Ptr(far) \in 0 .. Size - 1
  BY <1>0, PtrInRing
<1>5. \A k \in front .. far - 1 : buffer'[Ptr(k)] = buffer[Ptr(k)]
  <2>1. ASSUME NEW k \in front .. far - 1
        PROVE  buffer'[Ptr(k)] = buffer[Ptr(k)]
    <3>1. Ptr(k) \in 0 .. Size - 1 /\ Ptr(k) # Ptr(far)
      BY SlotIsFree DEF EnqBeat, BufferInv
    <3>2. QED
      BY <1>0, <1>1, <3>1
  <2>2. QED
    BY <2>1
<1>6. buffer'[Ptr(far)] = arrived
  BY <1>0, <1>1, <1>4
<1>7. /\ cur' \in Seq(Nat) /\ Len(cur') = l + 1 /\ cur'[l + 1] = arrived
      /\ \A i \in 1 .. l : cur'[i] = cur[i]
  BY <1>0, <1>1, AppendProperties
<1>8. /\ ~ drop => far - near = l
      /\ drop => l >= Size - 1 /\ far + 2 = near + Size
      /\ far - near <= l
  BY DEF BufferInv, Arriving
<1> HIDE DEF l
<1>9. far' \in Nat /\ near <= far' /\ far' < front + Size
      /\ far' + 1 < near + Size
  <2>1. CASE TooLong
    <3>1. far' = far
      BY <1>1, <2>1
    <3>2. QED
      BY <1>0, <1>2, <3>1
  <2>2. CASE ~ TooLong
    <3>1. far' = far + 1 /\ far + 2 # near + Size
      BY <1>1, <1>3, <2>2
    <3>2. QED
      BY <1>0, <1>2, <3>1
  <2>3. QED
    BY <2>1, <2>2
<1>10. TypeOK'
  <2>1. buffer' \in [0 .. Size - 1 -> Nat]
    BY <1>0, <1>1
  <2>2. drop' \in BOOLEAN
    BY <1>1
  <2>3. QED
    BY <1>0, <1>1, <1>7, <1>9, <2>1, <2>2, SMTT(40) DEF BufferInv, TypeOK
<1>11. Pointers'
  BY <1>0, <1>1, <1>9 DEF Pointers
<1>12. Contents'
  <2>1. ASSUME NEW k \in front .. near - 1
        PROVE  buffer'[Ptr(k)] = good[k + 1]
    <3>1. k \in front .. far - 1
      BY <1>0
    <3>2. QED
      BY <1>5, <3>1 DEF BufferInv, Contents
  <2>2. ASSUME NEW k \in near .. far - 1
        PROVE  buffer'[Ptr(k)] = cur'[k - near + 1]
    <3>1. k \in front .. far - 1 /\ k - near + 1 \in 1 .. l
      BY <1>0, <1>8
    <3>2. buffer[Ptr(k)] = cur[k - near + 1]
      BY DEF BufferInv, Contents
    <3>3. QED
      BY <1>5, <1>7, <3>1, <3>2
  <2>3. ASSUME NEW k \in near .. far' - 1
        PROVE  buffer'[Ptr(k)] = cur'[k - near + 1]
    <3>1. CASE k \in near .. far - 1
      BY <2>2, <3>1
    <3>2. CASE k \notin near .. far - 1
      <4>1. k = far /\ ~ TooLong
        BY <1>0, <1>1, <3>2
      <4>2. far - near + 1 = l + 1
        BY <1>0, <1>3, <1>8, <4>1
      <4>3. QED
        BY <1>6, <1>7, <4>1, <4>2
    <3>3. QED
      BY <3>1, <3>2
  <2>4. QED
    BY <1>1, <2>1, <2>3 DEF Contents
<1>13. Arriving'
  <2>1. CASE TooLong
    <3>1. far' = far /\ drop' /\ far + 2 = near + Size /\ near' = near
      BY <1>1, <1>3, <2>1
    <3>2. l + 1 >= Size - 1 /\ far - near <= l + 1
      BY <1>0, <1>8, <3>1
    <3>3. QED
      BY <1>7, <3>1, <3>2 DEF Arriving
  <2>2. CASE ~ TooLong
    <3>1. far' = far + 1 /\ far + 2 # near + Size /\ near' = near
      BY <1>1, <1>3, <2>2
    <3>2. ~ drop
      BY <1>8, <3>1
    <3>3. ~ drop'
      BY <1>1, <2>2, <3>2
    <3>4. far + 1 - near = l + 1
      BY <1>0, <1>8, <3>2
    <3>5. QED
      BY <1>0, <1>7, <3>1, <3>3, <3>4 DEF Arriving
  <2>3. QED
    BY <2>1, <2>2
<1>14. Fetched'
  BY <1>1 DEF BufferInv, Fetched
<1>15. Packets!Arrive(arrived)
  BY <1>1 DEF Packets!Arrive
<1>16. arrived \in 0 .. MaxBeats
  BY <1>0, BufferAssumption DEF EnqBeat
<1>17. QED
  BY <1>10, <1>11, <1>12, <1>13, <1>14, <1>15, <1>16 DEF BufferInv
\* The last beat commits the packet or takes it back.
LEMMA LastStep ==
  ASSUME BufferInv, NEW err \in BOOLEAN, EnqLast(err)
  PROVE  /\ BufferInv'
         /\ Packets!Finish(arrived, err)
         /\ arrived \in 0 .. MaxBeats
<1> DEFINE l == Len(cur)
           new == Append(cur, arrived)
<1>0. /\ front \in Nat /\ near \in Nat /\ far \in Nat /\ Size \in Nat
      /\ Size > 1 /\ front <= near /\ near <= far
      /\ far + 1 < near + Size /\ near = Len(good) /\ front = Len(out)
      /\ cur \in Seq(Nat) /\ good \in Seq(Nat) /\ arrived \in Nat /\ l \in Nat
      /\ buffer \in [0 .. Size - 1 -> Nat] /\ drop \in BOOLEAN
      /\ dataOut \in Nat /\ dataValid \in BOOLEAN /\ out \in Seq(Nat)
  BY Counts, BufferAssumption DEF BufferInv, TypeOK, Pointers
<1>1. /\ buffer' = [buffer EXCEPT ![Ptr(far)] = arrived]
      /\ drop' = FALSE
      /\ arrived' = arrived + 1 /\ cur' = <<>>
      /\ front' = front /\ out' = out
      /\ dataValid' = dataValid /\ dataOut' = dataOut
  BY DEF EnqLast, outVars
<1>2. far + 1 < front + Size
  BY CanEnqMeans DEF EnqLast, BufferInv
<1>3. Ptr(far) \in 0 .. Size - 1
  BY <1>0, PtrInRing
<1>4. \A k \in front .. far - 1 : buffer'[Ptr(k)] = buffer[Ptr(k)]
  <2>1. ASSUME NEW k \in front .. far - 1
        PROVE  buffer'[Ptr(k)] = buffer[Ptr(k)]
    <3>1. Ptr(k) \in 0 .. Size - 1 /\ Ptr(k) # Ptr(far)
      BY SlotIsFree DEF EnqLast, BufferInv
    <3>2. QED
      BY <1>0, <1>1, <3>1
  <2>2. QED
    BY <2>1
<1>5. buffer'[Ptr(far)] = arrived
  BY <1>0, <1>1, <1>3
<1>6. /\ ~ drop => far - near = l
      /\ drop => l >= Size - 1 /\ far + 2 = near + Size
  BY DEF BufferInv, Arriving
<1>7. /\ new \in Seq(Nat) /\ Len(new) = l + 1 /\ new[l + 1] = arrived
      /\ \A i \in 1 .. l : new[i] = cur[i]
  BY <1>0, AppendProperties
<1>8. cur' \in Seq(Nat) /\ Len(cur') = 0
  BY <1>1, EmptySeq
<1>9. arrived \in 0 .. MaxBeats /\ arrived' \in Nat
  BY <1>0, <1>1, BufferAssumption DEF EnqLast
<1>10. buffer' \in [0 .. Size - 1 -> Nat] /\ drop' \in BOOLEAN
  BY <1>0, <1>1
<1> HIDE DEF l, new
<1>11. CASE err \/ drop
  <2>1. far' = near /\ near' = near /\ good' = good
    BY <1>11 DEF EnqLast
  <2>2. TypeOK'
    BY <1>0, <1>1, <1>8, <1>9, <1>10, <2>1 DEF TypeOK
  <2>3. Pointers'
    <3>1. near < front + Size /\ near + 1 < near + Size
      BY <1>0, <1>2
    <3>2. QED
      BY <1>0, <1>1, <2>1, <3>1 DEF Pointers
  <2>4. Contents'
    <3>1. ASSUME NEW k \in front .. near - 1
          PROVE  buffer'[Ptr(k)] = good[k + 1]
      <4>1. k \in front .. far - 1
        BY <1>0
      <4>2. QED
        BY <1>4, <4>1 DEF BufferInv, Contents
    <3>2. near .. near - 1 = {}
      BY <1>0
    <3>3. QED
      BY <1>1, <2>1, <3>1, <3>2 DEF Contents
  <2>5. Arriving'
    <3>1. near - near = 0
      BY <1>0
    <3>2. QED
      BY <1>1, <1>8, <2>1, <3>1 DEF Arriving
  <2>6. Fetched'
    BY <1>1, <2>1 DEF BufferInv, Fetched
  <2>7. ~ (~ err /\ l + 1 <= Size - 1)
    <3>1. CASE drop
      BY <1>0, <1>6, <3>1
    <3>2. QED
      BY <1>11, <3>1
  <2>8. Packets!Finish(arrived, err)
    BY <1>1, <2>1, <2>7 DEF Packets!Finish, l
  <2>9. QED
    BY <1>9, <2>2, <2>3, <2>4, <2>5, <2>6, <2>8 DEF BufferInv
<1>12. CASE ~ (err \/ drop)
  <2>1. far' = far + 1 /\ near' = far + 1 /\ good' = good \o new
    BY <1>12 DEF EnqLast, new
  <2>2. far - near = l
    BY <1>6, <1>12
  <2>3. /\ good' \in Seq(Nat) /\ Len(good') = near + l + 1
        /\ \A i \in 1 .. near : good'[i] = good[i]
        /\ \A j \in 1 .. l + 1 : good'[near + j] = new[j]
    <3> DEFINE m == l + 1
    <3>1. m \in Nat /\ near + m = near + l + 1 /\ m = Len(new)
      BY <1>0, <1>7
    <3>2. near \in Nat /\ near = Len(good) /\ good \in Seq(Nat) /\ new \in Seq(Nat)
      BY <1>0, <1>7
    <3> HIDE DEF m
    <3>3. /\ good \o new \in Seq(Nat) /\ Len(good \o new) = near + m
          /\ \A i \in 1 .. near : (good \o new)[i] = good[i]
          /\ \A j \in 1 .. m : (good \o new)[near + j] = new[j]
      BY <3>1, <3>2, ConcatFacts
    <3>4. QED
      BY <2>1, <3>1, <3>3 DEF m
  <2>4. TypeOK'
    <3>1. far' \in Nat /\ near' \in Nat
      BY <1>0, <2>1
    <3>2. QED
      BY <1>0, <1>1, <1>8, <1>9, <1>10, <2>3, <3>1 DEF TypeOK
  <2>5. Pointers'
    <3>1. /\ front <= far + 1 /\ far + 1 < front + Size
          /\ far + 1 + 1 < far + 1 + Size /\ far + 1 = near + l + 1
      BY <1>0, <1>2, <2>2
    <3>2. QED
      BY <1>0, <1>1, <2>1, <2>3, <3>1 DEF Pointers
  <2>6. ASSUME NEW k \in front .. far
        PROVE  buffer'[Ptr(k)] = good'[k + 1]
    <3>1. CASE k < near
      <4>1. k \in front .. near - 1 /\ k \in front .. far - 1 /\ k + 1 \in 1 .. near
        BY <1>0, <3>1
      <4>2. QED
        BY <1>4, <2>3, <4>1 DEF BufferInv, Contents
    <3>2. CASE near <= k /\ k < far
      <4>1. /\ k \in near .. far - 1 /\ k \in front .. far - 1
            /\ k - near + 1 \in 1 .. l /\ k - near + 1 \in 1 .. l + 1
            /\ k + 1 = near + (k - near + 1)
        BY <1>0, <2>2, <3>2
      <4>2. buffer[Ptr(k)] = cur[k - near + 1]
        BY <4>1 DEF BufferInv, Contents
      <4>3. good'[k + 1] = new[k - near + 1]
        BY <2>3, <4>1
      <4>4. QED
        BY <1>4, <1>7, <4>1, <4>2, <4>3
    <3>3. CASE k = far
      <4>1. l + 1 \in 1 .. l + 1 /\ far + 1 = near + (l + 1)
        BY <1>0, <2>2
      <4>2. QED
        BY <1>5, <1>7, <2>3, <3>3, <4>1
    <3>4. QED
      BY <1>0, <3>1, <3>2, <3>3
  <2>7. Contents'
    <3>1. front .. (far + 1) - 1 = front .. far /\ (far + 1) .. (far + 1) - 1 = {}
      BY <1>0
    <3>2. QED
      BY <1>1, <2>1, <2>6, <3>1 DEF Contents
  <2>8. Arriving'
    <3>1. (far + 1) - (far + 1) = 0
      BY <1>0
    <3>2. QED
      BY <1>1, <1>8, <2>1, <3>1 DEF Arriving
  <2>9. Fetched'
    <3>1. dataValid => /\ front < far + 1 /\ front + 1 \in 1 .. near
                       /\ dataOut = good[front + 1]
      BY <1>0, SMTT(40) DEF BufferInv, Fetched
    <3>2. QED
      BY <1>1, <2>1, <2>3, <3>1 DEF Fetched
  <2>10. l + 1 <= Size - 1
    BY <1>0, <2>2
  <2>11. Packets!Finish(arrived, err)
    BY <1>1, <1>12, <2>1, <2>10 DEF Packets!Finish, l, new
  <2>12. QED
    BY <1>9, <2>4, <2>5, <2>7, <2>8, <2>9, <2>11 DEF BufferInv
<1>13. QED
  BY <1>11, <1>12

-----------------------------------------------------------------------------

\* Every step keeps the invariant and is a step of PacketBuffer.
LEMMA NextInv ==
  ASSUME BufferInv, [Next]_vars
  PROVE  BufferInv' /\ [Packets!Next]_(Packets!vars)
<1>1. CASE WriteToOutputPort
  BY <1>1, WriteStep DEF Packets!Next, Packets!vars
<1>2. CASE EnqBeat
  BY <1>2, BeatStep DEF Packets!Next
<1>3. ASSUME NEW err \in BOOLEAN, EnqLast(err)
      PROVE  BufferInv' /\ [Packets!Next]_(Packets!vars)
  BY <1>3, LastStep DEF Packets!Next
<1>4. CASE UNCHANGED vars
  <2>1. UNCHANGED Packets!vars
    BY <1>4 DEF vars, Packets!vars
  <2>2. BufferInv'
    BY <1>4 DEF vars, BufferInv, TypeOK, Pointers, Contents, Arriving, Fetched
  <2>3. QED
    BY <2>1, <2>2
<1>5. QED
  BY <1>1, <1>2, <1>3, <1>4 DEF Next

\* The inductive invariant of the receive buffer holds in every state.
THEOREM BufferInvariance == Spec => []BufferInv
<1>1. BufferInv /\ [Next]_vars => BufferInv'
  BY NextInv
<1>2. QED
  BY <1>1, InitInv, PTL DEF Spec

\* The receive buffer of a MAC hands out whole good packets in order, and
\* drops exactly the erroneous and the oversized ones, for every ring size.
THEOREM BufferImplementsPackets == Spec => WholePackets
<1>1. Init => Packets!Init
  BY DEF Init, Packets!Init
<1>2. BufferInv /\ [Next]_vars => [Packets!Next]_(Packets!vars)
  BY NextInv
<1>3. QED
  BY <1>1, <1>2, BufferInvariance, PTL DEF Spec, WholePackets, Packets!Spec
=============================================================================
