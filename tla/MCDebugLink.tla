---------------------------- MODULE MCDebugLink -----------------------------
(* DebugLink for TLC: two boxes in a column, each with a worker and a bridge *)
(* in either order on the JTAG chain, and two programs one after the other.  *)
EXTENDS DebugLink

\* The worker of the box that is not the master's may get too hot, where it
\* is the first on the chain.
MCHotBoards == {<<<<0, 1>>, 0>>}
=============================================================================
