---------------------------- MODULE PacketBuffer ----------------------------
(***************************************************************************)
(* What the receive buffer of a MAC promises (the comment above            *)
(* mkReceiveBuffer in rtl/Mac.bsv): beats arrive one by one, whether their *)
(* packet is good is known with its last beat only, and what comes out is  *)
(* the beats of the good packets, whole and in order.  A packet is dropped *)
(* if it is erroneous or longer than Capacity, and for no other reason.    *)
(***************************************************************************)
EXTENDS Naturals, Sequences

CONSTANTS Beat,       \* the beats
          Capacity    \* most beats of a packet

VARIABLES cur,       \* beats of the packet that is arriving
          good,      \* beats of the good packets so far
          out        \* beats handed out so far

vars == <<cur, good, out>>

Init == cur = <<>> /\ good = <<>> /\ out = <<>>

Arrive(beat) == /\ cur' = Append(cur, beat)
                /\ UNCHANGED <<good, out>>

Finish(beat, err) ==
  /\ good' = IF ~ err /\ Len(cur) + 1 <= Capacity
               THEN good \o Append(cur, beat) ELSE good
  /\ cur' = <<>>
  /\ UNCHANGED out

HandOut == /\ Len(out) < Len(good)
           /\ out' = Append(out, good[Len(out) + 1])
           /\ UNCHANGED <<cur, good>>

Next == \/ \E beat \in Beat : Arrive(beat)
        \/ \E beat \in Beat, err \in BOOLEAN : Finish(beat, err)
        \/ HandOut

Spec == Init /\ [][Next]_vars
=============================================================================
