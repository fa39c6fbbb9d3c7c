--------------------------- MODULE ReliableStream ---------------------------
(***************************************************************************)
(* What an inter-board link promises its user, per direction: the items    *)
(* put into streamIn of one end come out of streamOut of the other end,    *)
(* each exactly once and in order.  (Interface of ReliableLink.bsv.)       *)
(*                                                                         *)
(* The k-th item put into the stream is represented by the number k,       *)
(* counted from 0: items are pairwise distinct, so that a lost, duplicated *)
(* or reordered item can be told from the right one.                       *)
(***************************************************************************)
EXTENDS Naturals, Sequences

VARIABLES sent,       \* number of items accepted from streamIn so far
          delivered   \* the items handed out by streamOut so far

vars == <<sent, delivered>>

Init == /\ sent = 0
        /\ delivered = <<>>

\* streamIn takes one more item.
Send == /\ sent' = sent + 1
        /\ UNCHANGED delivered

\* streamOut hands out the oldest item not yet handed out.
Deliver == /\ Len(delivered) < sent
           /\ delivered' = Append(delivered, Len(delivered))
           /\ UNCHANGED sent

Next == Send \/ Deliver

Spec == Init /\ [][Next]_vars
=============================================================================
