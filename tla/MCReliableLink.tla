--------------------------- MODULE MCReliableLink ---------------------------
(* ReliableLink for TLC.  The bounds differ per direction, so that one      *)
(* direction can wrap its sequence numbers while the other is kept small.   *)
EXTENDS ReliableLink

CONSTANTS ItemsA, ItemsB, WireA, WireB

MCMaxItems == [e \in Ends |-> IF e = "A" THEN ItemsA ELSE ItemsB]
MCWireCap == [e \in Ends |-> IF e = "A" THEN WireA ELSE WireB]
=============================================================================
