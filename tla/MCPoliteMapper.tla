--------------------------- MODULE MCPoliteMapper ---------------------------
(* Small graphs on a mesh of 2 x 2 boards with two mailboxes of two threads.*)
EXTENDS PoliteMapper

New == [op |-> "newDevice"]
Link(a, p, b) == [op |-> "addEdge", from |-> a, pin |-> p, to |-> b]
Labelled(l, a, p, b) ==
  [op |-> "addLabelledEdge", label |-> l, from |-> a, pin |-> p, to |-> b]

\* A fan-out with parallel edges, a self loop and a cycle.
Fan == <<New, New, New, Labelled("a", 1, 0, 2), Labelled("b", 1, 0, 3),
         Labelled("c", 1, 0, 2), Labelled("d", 1, 0, 1), Labelled("a", 3, 1, 1),
         Labelled("b", 2, 0, 3)>>
\* Two senders on two pins, in an order that the sort must undo.
Cross == <<New, New, New, Labelled("a", 1, 0, 3), Labelled("b", 1, 0, 2),
           Labelled("c", 1, 0, 3), Labelled("a", 2, 1, 1), Link(2, 1, 3)>>
\* More keys than a word of a bitmap on some threads, and not on others.
Busy == <<New, New, New, Link(1, 0, 2), Link(1, 1, 2), Link(2, 0, 2),
          Link(3, 0, 1), Link(3, 0, 2), Link(3, 1, 3)>>
\* Two keys of two beats each to the mailboxes of another board, and a third
\* key that may no longer fit there.
Wide == <<New, New, New, Labelled("a", 1, 0, 2), Labelled("b", 1, 0, 3),
          Labelled("c", 1, 1, 3), Labelled("d", 1, 1, 2), Labelled("e", 2, 0, 1)>>
\* addEdge refuses the pin.
BadPin == <<New, New, Link(1, 2, 2)>>

MCPrograms == {Fan, Cross, Busy, Wide, BadPin}
\* The last two are refused: more boards than there are, an unknown method.
MCConfigs ==
  [boards : {<<1, 1>>, <<2, 1>>, <<1, 2>>, <<2, 2>>},
   method : {"default", "bfs", "direct"}]
    \cup {[boards |-> <<2, 1>>, method |-> "random"],
          [boards |-> <<3, 1>>, method |-> "bfs"],
          [boards |-> <<1, 1>>, method |-> "unknown"]}
MCDRAM == {{"header", "rest", "out"}, {"vertex", "out"}}
=============================================================================
