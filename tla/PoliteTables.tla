---------------------------- MODULE PoliteTables ----------------------------
(* The multicast tables of a mapped POLite graph (include/POLite/PGraph.h,  *)
(* Bitmap.h): how the mapper fills them, and what a softswitch reads in     *)
(* them.  A graph is a sequence, by device, of its outgoing edges           *)
(* [to, pin, label] in the order they were added; addr maps a device to its *)
(* thread and its number there.  Threads are numbered from 0 over mailboxes *)
(* and boards, as the bits of a thread id are.                              *)
EXTENDS ProgRouters

CONSTANTS
  ThreadsPerMailbox,
  NumPins,         \* POLITE_NUM_PINS
  EdgesPerHeader,  \* POLITE_EDGES_PER_HEADER
  WordBits,        \* bits in a word of a key bitmap (64)
  InvalidKey,      \* the key that ends a list of out edges (0xffff)
  RestLimit        \* greatest index into the rest table (0xffff)

MboxOf(t) == t \div ThreadsPerMailbox
BoardOf(t) == BoardOfMbox(MboxOf(t))
Pins == 0 .. NumPins - 1

\* The mailbox id that makes the router use the key in the thread mask.
UseRoutingKey == -1

\* An element of an out-edge list.
OutEdge(mbox, key, mask, route) ==
  [mbox |-> mbox, key |-> key, mask |-> mask, route |-> route]
Terminator == OutEdge(0, InvalidKey, {}, ZeroKey)

\* allocateRoutingTables
NewTables(threads, boards, devs) ==
  [headers |-> [t \in threads |-> <<>>], rest |-> [t \in threads |-> <<>>],
   bitmaps |-> [t \in threads |-> {}],
   out     |-> [d \in devs |-> [p \in Pins |-> <<>>]],
   routers |-> [b \in boards |-> NewRouter], ok |-> TRUE]

\* Bitmap: the index of the first word that is not full.
FirstFree(used) ==
  Min({w \in 0 .. Cardinality(used) :
        \E k \in WordBits * w .. WordBits * w + WordBits - 1 : k \notin used})

\* The least key free in every receiver's bitmap, from the first word that
\* no receiver has filled on.
FindKeyOfFirst(T, groups) ==
  LET used == T.bitmaps[Head(groups).thread]
  IN  Min((0 .. Cardinality(used)) \ used)

FindKey(T, groups) ==
  LET used  == {T.bitmaps[g.thread] : g \in ToSet(groups)}
      taken == UNION used
      start == WordBits * Max({FirstFree(u) : u \in used})
  IN  Min((start .. start + Cardinality(taken)) \ taken)

NoHeader == [n |-> 0, restIndex |-> 0, edges |-> <<>>]

\* addInTableEntries, for one receiver group.
AddInTableEntry(T, key, g) ==
  LET t == g.thread
      n == Len(g.receivers)
      inHeader == IF n < EdgesPerHeader THEN n ELSE EdgesPerHeader
      header == [n |-> n, restIndex |-> Len(T.rest[t]),
                 edges |-> SubSeq(g.receivers, 1, inHeader)]
      padded == T.headers[t] \o
                [i \in 1 .. key + 1 - Len(T.headers[t]) |-> NoHeader]
  IN  [T EXCEPT !.headers[t] = [padded EXCEPT ![key + 1] = header],
                !.bitmaps[t] = @ \cup {key},
                !.rest[t] = @ \o SubSeq(g.receivers, inHeader + 1, n),
                !.ok = @ /\ Len(T.rest[t]) <= RestLimit]

AddInTableEntries(T, groups) ==
  LET key == FindKey(T, groups)
      fill(acc, g) == AddInTableEntry(acc, key, g)
  IN  IF key >= InvalidKey
      THEN [key |-> key, tables |-> [T EXCEPT !.ok = FALSE]]
      ELSE [key |-> key, tables |-> FoldLeft(fill, T, groups)]

\* qsort with cmpEdgeDest: by falling thread id, equal ones in order.
InsertDest(sorted, e) ==
  SelectSeq(sorted, LAMBDA f : f.thread >= e.thread) \o <<e>> \o
  SelectSeq(sorted, LAMBDA f : f.thread < e.thread)

SortDests(dests) == FoldLeft(InsertDest, <<>>, dests)

\* splitDests: the destinations of a pin, on the sender's board or not.
SplitDests(graph, addr, d, p, local) ==
  LET edges == SelectSeq(graph[d], LAMBDA e : e.pin = p)
      dests == [i \in DOMAIN edges |->
                 [thread |-> addr[edges[i].to].thread,
                  id |-> addr[edges[i].to].id, label |-> edges[i].label]]
  IN  SortDests(SelectSeq(dests, LAMBDA e :
        (BoardOf(e.thread) = BoardOf(addr[d].thread)) = local))

\* Destinations next to each other on one mailbox make one message, and
\* those next to each other on one thread of it one receiver group.
GroupDest(runs, e) ==
  LET in == [id |-> e.id, label |-> e.label]
      new == [thread |-> e.thread, receivers |-> <<in>>]
      r == Len(runs)
      g == Len(runs[r])
  IN  IF r = 0 \/ MboxOf(runs[r][1].thread) # MboxOf(e.thread)
      THEN Append(runs, <<new>>)
      ELSE IF runs[r][g].thread = e.thread
           THEN [runs EXCEPT ![r][g].receivers = Append(@, in)]
           ELSE [runs EXCEPT ![r] = Append(@, new)]

\* computeTables: in-table entries, and a routing destination, per message.
ComputeTables(T, dests) ==
  LET step(acc, groups) ==
        LET added == AddInTableEntries(acc.tables, groups)
        IN  [tables |-> added.tables,
             dests |-> Append(acc.dests,
               [kind |-> "MRM", mbox |-> MboxOf(groups[1].thread),
                key |-> added.key, mask |-> {g.thread : g \in ToSet(groups)}])]
  IN  FoldLeft(step, [tables |-> T, dests |-> <<>>],
               FoldLeft(GroupDest, <<>>, dests))

\* The body of computeRoutingTables for one pin of one device: an out edge
\* per message on the board, one with the routing key, and the terminator.
RoutePin(T, graph, addr, d, p) ==
  LET local  == ComputeTables(T, SplitDests(graph, addr, d, p, TRUE))
      remote == ComputeTables(local.tables,
                              SplitDests(graph, addr, d, p, FALSE))
      b      == BoardOf(addr[d].thread)
      routed == AddDests(remote.tables.routers, b % MeshX, b \div MeshX,
                         remote.dests)
      edges  == [i \in DOMAIN local.dests |->
                  OutEdge(local.dests[i].mbox, local.dests[i].key,
                          local.dests[i].mask, ZeroKey)]
  IN  [remote.tables EXCEPT
        !.routers = routed.routers,
        !.ok = @ /\ \A c \in DOMAIN routed.routers : ~routed.routers[c].full,
        !.out[d][p] = edges \o
          <<OutEdge(UseRoutingKey, 0, {}, routed.key), Terminator>>]

------------------------------------------------------------------------------
\* What a softswitch finds: the out edges from a place in the thread's array
\* up to the terminator, and the receivers of a key.
RECURSIVE OutEdges(_, _)
OutEdges(array, i) ==
  IF i > Len(array) \/ array[i].key = InvalidKey THEN <<>>
  ELSE <<array[i]>> \o OutEdges(array, i + 1)

Receivers(headers, rest, key) ==
  LET h == headers[key + 1]
  IN  [i \in 1 .. h.n |-> IF i <= EdgesPerHeader THEN h.edges[i]
                          ELSE rest[h.restIndex + i - EdgesPerHeader]]

\* The messages the network makes of an out edge taken on board b: the
\* records say mailbox, threads and key.
Messages(routers, b, e) ==
  IF e.mbox = UseRoutingKey THEN Walk(routers, b, e.route)
  ELSE <<[kind |-> "MRM", mbox |-> e.mbox, key |-> e.key, mask |-> e.mask]>>
=============================================================================
