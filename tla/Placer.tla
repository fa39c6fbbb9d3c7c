------------------------------- MODULE Placer -------------------------------
(* Partition a graph and place the parts on a mesh (include/POLite/Placer.h).*)
(* A graph is [labels, out]: the label of each node, and its successors in  *)
(* the order of the edges; nodes are numbered from 1, parts from 0.  The    *)
(* operators are the steps of the local search; a module that maps a graph  *)
(* makes an action of each.                                                 *)
EXTENDS Integers, FiniteSets, FiniteSetsExt, Functions, SequencesExt

CONSTANT PlacerEffort  \* attempts at a placement

NoCost == -1  \* the initial best cost, ~0: greater than any cost

Nodes(g) == DOMAIN g.labels
NumParts(w, h) == w * h
PartSize(g, n) == (Len(g.labels) + n) \div n

\* partitionMetis: any partition, when there is something to decide.
PartitionMetis(g, n) ==
  IF n >= Len(g.labels) THEN {[v \in Nodes(g) |-> v - 1]}
  ELSE IF n = 1 THEN {[v \in Nodes(g) |-> 0]}
  ELSE [Nodes(g) -> 0 .. n - 1]

PartitionRandom(g, n) == [Nodes(g) -> 0 .. n - 1]

PartitionDirect(g, n) == {[v \in Nodes(g) |-> (v - 1) \div PartSize(g, n)]}

\* partitionBFS: breadth first from the least node not seen, a new part
\* whenever one is full.
RECURSIVE Visit(_, _, _)
Visit(g, n, s) ==
  LET unseen == {v \in Nodes(g) : s.part[v] = -1}
      v == Head(s.frontier)
  IN  CASE unseen = {} -> s.part
        [] unseen # {} /\ s.count = PartSize(g, n) ->
             Visit(g, n, [s EXCEPT !.next = @ + 1, !.count = 0,
                                   !.frontier = <<>>])
        [] unseen # {} /\ s.count < PartSize(g, n) /\ s.frontier = <<>> ->
             Visit(g, n, [s EXCEPT !.frontier = <<Min(unseen)>>])
        [] OTHER ->
             Visit(g, n, [s EXCEPT
               !.part[v] = IF @ = -1 THEN s.next ELSE @,
               !.count = IF v \in unseen THEN @ + 1 ELSE @,
               !.frontier = Tail(@) \o
                 IF v \in unseen
                 THEN SelectSeq(g.out[v], LAMBDA u : u \in unseen \ {v})
                 ELSE <<>>])

PartitionBFS(g, n) ==
  {Visit(g, n, [part |-> [v \in Nodes(g) |-> -1], next |-> 0, count |-> 0,
                frontier |-> <<>>])}

\* partition: what each method may answer.
Partitions(method, g, w, h) ==
  CASE method \in {"default", "metis"} -> PartitionMetis(g, NumParts(w, h))
    [] method = "random" -> PartitionRandom(g, NumParts(w, h))
    [] method = "direct" -> PartitionDirect(g, NumParts(w, h))
    [] method = "bfs"    -> PartitionBFS(g, NumParts(w, h))

\* computeSubgraphs: the nodes of part p in order, and the edges between them.
Members(g, parts, p) == SelectSeq([v \in Nodes(g) |-> v],
                                  LAMBDA v : parts[v] = p)

Subgraph(g, parts, p) ==
  LET vs == Members(g, parts, p)
      mappedTo(u) == CHOOSE i \in DOMAIN vs : vs[i] = u
      inside(v) == SelectSeq(g.out[v], LAMBDA u : parts[u] = p)
  IN  [labels |-> [i \in DOMAIN vs |-> g.labels[vs[i]]],
       out |-> [i \in DOMAIN vs |-> [j \in DOMAIN inside(vs[i]) |->
                 mappedTo(inside(vs[i])[j])]]]

\* computeInterPartitionCounts: edges between two parts, either way.
ConnCount(g, parts, i, j) ==
  LET from(p, q) == FoldLeft(LAMBDA n, v : n +
        Len(SelectSeq(g.out[v], LAMBDA u : parts[u] = q)),
        0, Members(g, parts, p))
  IN  from(i, j) + from(j, i)

\* The constructor, for a partition the method may answer.
Cells(w, h) == (0 .. w - 1) \X (0 .. h - 1)

NewPlacer(g, w, h, parts) ==
  [graph |-> g, w |-> w, h |-> h, parts |-> parts,
   conn |-> [i, j \in 0 .. w * h - 1 |-> ConnCount(g, parts, i, j)],
   mapping |-> <<>>, coord |-> <<>>, cost |-> NoCost,
   mappingSaved |-> <<>>, coordSaved |-> <<>>, costSaved |-> NoCost,
   attempt |-> 0, cells |-> <<>>, change |-> FALSE, stage |-> "shuffle"]

Dist(a, b) == LET abs(n) == IF n >= 0 THEN n ELSE -n
              IN  abs(a[1] - b[1]) + abs(a[2] - b[2])

\* cost
Cost(pl, coord) ==
  MapThenSumSet(LAMBDA ij : Dist(coord[ij[1]], coord[ij[2]]) * pl.conn[ij],
                {ij \in DOMAIN pl.conn : ij[2] < ij[1]})

\* The cells a sweep visits, row by row; the last row and column are only
\* ever partners in a swap.
Sweep(pl) == [k \in 1 .. (pl.w - 1) * (pl.h - 1) |->
               <<(k - 1) % (pl.w - 1), (k - 1) \div (pl.w - 1)>>]

\* randomPlacement, and the start of the first sweep.
Shuffles(pl) == Surjection(Cells(pl.w, pl.h), 0 .. NumParts(pl.w, pl.h) - 1)

Shuffle(pl, m) ==
  LET coord == [p \in 0 .. NumParts(pl.w, pl.h) - 1 |->
                 CHOOSE c \in DOMAIN m : m[c] = p]
  IN  [pl EXCEPT !.mapping = m, !.coord = coord, !.cost = Cost(pl, coord),
                 !.cells = Sweep(pl), !.change = FALSE, !.stage = "sweep"]

\* swap: the parts at two cells.
Swap(pl, c, d) ==
  [pl EXCEPT !.mapping = [@ EXCEPT ![c] = pl.mapping[d], ![d] = pl.mapping[c]],
             !.coord = [@ EXCEPT ![pl.mapping[c]] = d, ![pl.mapping[d]] = c]]

\* trySwap: undone unless it lowers the cost.
TrySwapEqual(pl, c, d) ==
  LET cost == Cost(pl, Swap(pl, c, d).coord)
  IN  IF cost <= pl.cost THEN [Swap(pl, c, d) EXCEPT !.cost = cost] ELSE pl

TrySwap(pl, c, d) ==
  LET cost == Cost(pl, Swap(pl, c, d).coord)
  IN  IF cost < pl.cost THEN [Swap(pl, c, d) EXCEPT !.cost = cost] ELSE pl

\* One cell of the sweep: the first of three swaps that lowers the cost.
VisitCell(pl) ==
  LET c == Head(pl.cells)
      partners == <<<<c[1] + 1, c[2]>>, <<c[1], c[2] + 1>>,
                    <<c[1] + 1, c[2] + 1>>>>
      try(acc, d) == IF acc # pl THEN acc ELSE TrySwap(pl, c, d)
      tried == FoldLeft(try, pl, partners)
  IN  [tried EXCEPT !.cells = Tail(@), !.change = @ \/ tried # pl]

\* The end of a sweep: another one after a change, else the attempt is over.
EndSweep(pl) ==
  IF pl.change THEN [pl EXCEPT !.cells = Sweep(pl), !.change = FALSE]
  ELSE [pl EXCEPT !.stage = "judge"]

Save(pl) == [pl EXCEPT !.costSaved = pl.cost, !.mappingSaved = pl.mapping,
                       !.coordSaved = pl.coord]

Restore(pl) == [pl EXCEPT !.cost = pl.costSaved, !.mapping = pl.mappingSaved,
                          !.coord = pl.coordSaved]

\* Keep the better of this attempt and the best one before.
Judge(pl) ==
  LET kept == IF pl.costSaved = NoCost \/ pl.cost <= pl.costSaved
              THEN Save(pl) ELSE Restore(pl)
  IN  [kept EXCEPT !.attempt = @ + 1,
         !.stage = IF pl.attempt + 1 = PlacerEffort THEN "placed" ELSE "shuffle"]

\* The mapping and the coordinates say the same, and the cost is its cost.
Consistent(pl) ==
  pl.mapping # <<>> =>
    /\ \A c \in DOMAIN pl.mapping : pl.coord[pl.mapping[c]] = c
    /\ \A p \in DOMAIN pl.coord : pl.mapping[pl.coord[p]] = p
    /\ pl.cost = Cost(pl, pl.coord)
    /\ pl.costSaved # NoCost /\ pl.stage \in {"shuffle", "placed"} =>
         pl.cost = pl.costSaved
=============================================================================
