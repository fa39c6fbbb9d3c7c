-------------------------- MODULE MacReceiveBuffer --------------------------
(***************************************************************************)
(* The receive buffer between the 10G MAC and a reliable link              *)
(* (mkReceiveBuffer in rtl/Mac.bsv): a ring with two back pointers, so     *)
(* that a packet whose last beat reports an error can be taken back.       *)
(*                                                                         *)
(* frontPtr, nearBackPtr and farBackPtr are held as the number of beats    *)
(* they have passed; Ptr(n) is the register, and the code's comparisons    *)
(* are made on Ptr.  The n-th beat of the network is the number n.  The    *)
(* rule writeToOutputPort and the method enq may run in one cycle; each    *)
(* then sees the registers from before, which is the same as               *)
(* writeToOutputPort followed by enq.                                      *)
(***************************************************************************)
EXTENDS Integers, Sequences

CONSTANTS
  Size,       \* 2^LogMacRecvBufferSize
  MaxBeats    \* bound: beats that arrive in all

ASSUME BufferAssumption == Size \in Nat /\ Size > 1 /\ MaxBeats \in Nat

VARIABLES
  buffer, front, near, far,
  drop,                \* the arriving packet is to be dropped
  dataValid, dataOut,  \* the output register of the block RAM
  arrived,             \* beats that have arrived so far
  cur, good, out       \* history: see PacketBuffer

ptrVars == <<buffer, near, far, drop>>
outVars == <<front, dataValid, dataOut, out>>
vars == <<buffer, front, near, far, drop, dataValid, dataOut, arrived, cur,
          good, out>>

Ptr(n) == n % Size

Init ==
  /\ buffer = [i \in 0 .. Size - 1 |-> 0]
  /\ front = 0 /\ near = 0 /\ far = 0
  /\ drop = FALSE
  /\ dataValid = FALSE /\ dataOut = 0
  /\ arrived = 0
  /\ cur = <<>> /\ good = <<>> /\ out = <<>>

\* Fault for the mutation check: the last beat committed is never valid.
ReadAtOffByOne(ptr) ==
  /\ front' = ptr
  /\ dataOut' = buffer[Ptr(ptr)]
  /\ dataValid' = (near > ptr + 1)

\* Reading the block RAM at ptr; the data is good if a packet has been
\* committed beyond it.
ReadAt(ptr) ==
  /\ front' = ptr
  /\ dataOut' = buffer[Ptr(ptr)]
  /\ dataValid' = (Ptr(near) # Ptr(ptr))

\* rule writeToOutputPort, when the output port can take a beat and when not.
WriteToOutputPort ==
  /\ \/ /\ dataValid
        /\ out' = Append(out, dataOut)
        /\ ReadAt(front + 1)
     \/ /\ ReadAt(front)
        /\ UNCHANGED out
  /\ UNCHANGED <<ptrVars, arrived, cur, good>>

\* Fault for the mutation check: the buffer may fill up completely.
CanEnqWhenFull == TRUE

\* method canEnq: what sink_ready tells the MAC.
CanEnq == Ptr(far + 1) # Ptr(front)

\* Fault for the mutation check: the packet may grow by one more beat.
TooLongOffByOne == Ptr(far + 1) = Ptr(near)

\* The packet has no room for another beat after this one.
TooLong == Ptr(far + 2) = Ptr(near)

\* method enq, a beat that is not the last of its packet.
EnqBeat ==
  /\ arrived < MaxBeats
  /\ CanEnq
  /\ buffer' = [buffer EXCEPT ![Ptr(far)] = arrived]
  /\ drop' = (drop \/ TooLong)
  /\ far' = IF TooLong THEN far ELSE far + 1
  /\ arrived' = arrived + 1
  /\ cur' = Append(cur, arrived)
  /\ UNCHANGED <<near, good, outVars>>

\* method enq, the last beat: the packet is committed or taken back.
EnqLast(err) ==
  /\ arrived < MaxBeats
  /\ CanEnq
  /\ buffer' = [buffer EXCEPT ![Ptr(far)] = arrived]
  /\ \/ /\ err \/ drop
        /\ far' = near
        /\ UNCHANGED <<near, good>>
     \/ /\ ~ (err \/ drop)
        /\ near' = far + 1
        /\ far' = far + 1
        /\ good' = good \o Append(cur, arrived)
  /\ drop' = FALSE
  /\ arrived' = arrived + 1
  /\ cur' = <<>>
  /\ UNCHANGED outVars

Next == WriteToOutputPort \/ EnqBeat \/ \E err \in BOOLEAN : EnqLast(err)

Spec == Init /\ [][Next]_vars

\* The output side is a rule of the design, and its port is taken from: both
\* the prefetch and the transfer happen again and again.
FairSpec == /\ Spec
            /\ WF_vars(WriteToOutputPort)
            /\ WF_vars(WriteToOutputPort /\ out' # out)

-----------------------------------------------------------------------------
(* Properties                                                              *)

\* Every register has its type.
TypeOK ==
  /\ buffer \in [0 .. Size - 1 -> Nat]
  /\ front \in Nat /\ near \in Nat /\ far \in Nat
  /\ drop \in BOOLEAN /\ dataValid \in BOOLEAN /\ dataOut \in Nat
  /\ arrived \in Nat
  /\ cur \in Seq(Nat) /\ good \in Seq(Nat) /\ out \in Seq(Nat)

Packets == INSTANCE PacketBuffer WITH Beat <- 0 .. MaxBeats, Capacity <- Size - 1

\* The buffer hands out whole good packets, in order, and drops a packet if
\* and only if it is erroneous or has Size beats or more: never because of
\* what else is in the ring.
WholePackets == Packets!Spec

\* The buffer is ready for another beat again and again: a packet that is too
\* long cannot fill the ring and block the link for ever.
EventuallyReady == []<>CanEnq

\* Every beat of a good packet is handed out.
EventuallyOut == \A n \in 1 .. MaxBeats : Len(good) >= n ~> Len(out) >= n

-----------------------------------------------------------------------------
(***************************************************************************)
(* The inductive invariant: the ring holds, from frontPtr to nearBackPtr,  *)
(* the good beats not yet handed out and, from nearBackPtr to farBackPtr,  *)
(* the beats of the arriving packet; and the output register, if valid,    *)
(* holds the next good beat.                                               *)
(***************************************************************************)
Pointers ==
  /\ front <= near /\ near <= far
  /\ far < front + Size
  /\ far + 1 < near + Size
  /\ near = Len(good)
  /\ front = Len(out)

Contents ==
  /\ \A k \in front .. near - 1 : buffer[Ptr(k)] = good[k + 1]
  /\ \A k \in near .. far - 1 : buffer[Ptr(k)] = cur[k - near + 1]

Arriving ==
  /\ ~ drop => far - near = Len(cur)
  /\ drop => Len(cur) >= Size - 1 /\ far + 2 = near + Size
  /\ far - near <= Len(cur)

Fetched == dataValid => front < near /\ dataOut = good[front + 1]

BufferInv == TypeOK /\ Pointers /\ Contents /\ Arriving /\ Fetched
=============================================================================
