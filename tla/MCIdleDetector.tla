--------------------------- MODULE MCIdleDetector ---------------------------
(* IdleDetector for TLC: board 0 with two cores, board 1 with one, and one  *)
(* thread per core.                                                         *)
EXTENDS IdleDetector

CONSTANTS c1, c2, c3, t1, t2, t3

MCCores3 == {c1, c2, c3}
MCThreads3 == {t1, t2, t3}
MCBoardOf3 == [c \in MCCores3 |-> IF c = c3 THEN 1 ELSE 0]
MCCoreOf3 == [t \in MCThreads3 |-> CASE t = t1 -> c1 [] t = t2 -> c2
                                     [] t = t3 -> c3]
=============================================================================
