----------------------------- MODULE MCHostLink -----------------------------
(* One board with two cores and one memory; two clients, one after the      *)
(* other.  The code is one word, the data one segment of two words.         *)
EXTENDS HostLink

MCCode == <<[addr |-> 20, words |-> <<<<"i0">>>>]>>
MCData == <<[addr |-> 40, words |-> <<<<"d0">>, <<"d1">>>>]>>
MCHeap == [addr |-> 60, words |-> <<<<"h0">>>>]
=============================================================================
