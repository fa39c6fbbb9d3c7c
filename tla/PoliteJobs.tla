----------------------------- MODULE PoliteJobs -----------------------------
(* The host programs of the POLite applications (apps/POLite, Run.cpp and   *)
(* EdgeList.h): the graph each one builds, the states it writes to the      *)
(* devices, how many messages it then waits for, and what it should get.    *)
(* A network is a sequence of edges <<from, to>> over nodes 0 .. n - 1;     *)
(* node v is device v + 1.  A job is [app, graph, s].                       *)
EXTENDS PoliteApps

\* EdgeList::read fills the neighbour array of a node from its end.
NumNodes(net) == Max({e[1] : e \in ToSet(net)} \cup {e[2] : e \in ToSet(net)}) + 1
Neighbours(net, v) == LET out == Reverse(SelectSeq(net, LAMBDA e : e[1] = v))
                      IN  [i \in DOMAIN out |-> out[i][2]]

Edge(to, pin, label) == [to |-> to, pin |-> pin, label |-> label]

\* The edges of a network, all on pin 0 with one label.
NetGraph(net, label) ==
  [d \in 1 .. NumNodes(net) |->
    [i \in 1 .. Len(Neighbours(net, d - 1)) |->
      Edge(Neighbours(net, d - 1)[i] + 1, 0, label)]]

FanIn(graph, d) ==
  FoldLeft(LAMBDA n, edges : n + Len(SelectSeq(edges, LAMBDA e : e.to = d)),
           0, graph)

Job(app, graph, s) == [app |-> app, graph |-> graph, s |-> s]
Devices(job) == DOMAIN job.graph

SSSPJob(app, net, source) ==
  Job(app, NetGraph(net, 1),
      [d \in 1 .. NumNodes(net) |->
        [isSource |-> d = source + 1, changed |-> FALSE,
         dist |-> IF d = source + 1 THEN 0 ELSE IntMax]])

HashMinJob(net) ==
  Job("hashmin-sync", NetGraph(net, 0),
      [d \in 1 .. NumNodes(net) |-> [changed |-> FALSE, min |-> d - 1]])

\* A tree of the given depth and fan-out, its nodes numbered by level.
RECURSIVE TreeSize(_, _)
TreeSize(depth, b) == IF depth = 0 THEN 1 ELSE 1 + b * TreeSize(depth - 1, b)

ClockTreeJob(depth, b) ==
  LET n == TreeSize(depth, b)
      interior == TreeSize(depth - 1, b)
      up(d) == IF d = 1 THEN <<>>
               ELSE <<Edge((d - 2) \div b + 1, PIN_ACK, 0)>>
      down(d) == IF d > interior THEN <<>>
                 ELSE [j \in 1 .. b |-> Edge(b * (d - 1) + j + 1, PIN_TICK, 0)]
  IN  Job("clocktree-async", [d \in 1 .. n |-> up(d) \o down(d)],
          [d \in 1 .. n |->
            [isRoot |-> d = 1, isLeaf |-> d > interior, waitingForAck |-> FALSE,
             ackCount |-> b, vertexCount |-> 0]])

HeatJob(net, val, time) ==
  Job("heat-sync", NetGraph(net, 0),
      [d \in 1 .. NumNodes(net) |->
        [id |-> d - 1, val |-> val[d], acc |-> 0, time |-> time,
         numNeighbours |-> 0, isConstant |-> FALSE]])

HeatGalsJob(net, val, time) ==
  Job("heat-gals", NetGraph(net, 0),
      [d \in 1 .. NumNodes(net) |->
        [id |-> d - 1, val |-> val[d], acc |-> 0, accNext |-> 0, time |-> time,
         sent |-> FALSE, received |-> 0, receivedNext |-> 0,
         fanIn |-> FanIn(NetGraph(net, 0), d), isConstant |-> FALSE]])

\* The sources are the first nodes.
ASPJob(net, numSources) ==
  Job("asp-sync", NetGraph(net, 0),
      [d \in 1 .. NumNodes(net) |->
        [sum |-> 0, newReaching |-> {},
         reaching |-> {d} \cap (1 .. numSources)]])

ASPGalsJob(net, numSources) ==
  Job("asp-gals", NetGraph(net, 0),
      [d \in 1 .. NumNodes(net) |->
        [fanIn |-> FanIn(NetGraph(net, 0), d), time |-> 0, done |-> FALSE,
         sent |-> FALSE, received |-> 0, receivedNext |-> 0,
         toReach |-> numSources - (IF d <= numSources THEN 1 ELSE 0), sum |-> 0,
         reaching |-> {d} \cap (1 .. numSources),
         reaching1 |-> {}, reaching2 |-> {}]])

\* A line of devices that closes on itself; the label is the direction.
PressureJob(pressure, steps) ==
  LET n == Len(pressure)
      to(d, label) == IF label = 0 THEN IF d = 1 THEN n ELSE d - 1
                      ELSE IF d = n THEN 1 ELSE d + 1
  IN  Job("pressure-sync",
          [d \in 1 .. n |-> [i \in 1 .. 2 |-> Edge(to(d, i - 1), 0, i - 1)]],
          [d \in 1 .. n |->
            [mode |-> "SHARE", numSteps |-> steps, pressure |-> pressure[d],
             newPressure |-> 0, move |-> {}]])

\* How many messages the host program receives before it ends.
Expected(job) ==
  IF job.app = "clocktree-async" THEN 1 ELSE Cardinality(Devices(job))

------------------------------------------------------------------------------
\* Reference answers, from the graph alone.
SumOf(f) == FoldLeft(LAMBDA a, b : a + b, 0, f)

\* In how many edges a device is reached from another, at most n.
Relax(job, dist) ==
  [d \in Devices(job) |->
    Min({dist[d]} \cup
        {dist[c] + 1 : c \in {c \in Devices(job) : dist[c] < IntMax /\
                       \E e \in ToSet(job.graph[c]) : e.to = d}})]
DistancesFrom(job, source) ==
  FoldLeft(LAMBDA dist, i : Relax(job, dist),
           [d \in Devices(job) |-> IF d = source THEN 0 ELSE IntMax],
           job.graph)
Distance(job, c, d) == DistancesFrom(job, c)[d]

\* The temperatures after the given number of steps taken by all together.
Cool(job, val) ==
  [d \in Devices(job) |->
    SumOf([c \in Devices(job) |->
      val[c] * Len(SelectSeq(job.graph[c], LAMBDA e : e.to = d))])
      \div FanIn(job.graph, d)]
Temperatures(job) ==
  FoldLeft(LAMBDA val, i : Cool(job, val), [d \in Devices(job) |-> job.s[d].val],
           [i \in 1 .. job.s[1].time |-> i])

\* The message that device d should send to the host in the end.
Answer(job, d) ==
  CASE job.app \in {"sssp-sync", "sssp-async"} ->
         Distance(job, CHOOSE c \in Devices(job) : job.s[c].isSource, d)
    [] job.app = "hashmin-sync" ->
         Min({c \in Devices(job) : Distance(job, c, d) < IntMax}) - 1
    [] job.app \in {"heat-sync", "heat-gals"} ->
         [from |-> d - 1, val |-> Temperatures(job)[d]]
    [] job.app \in {"asp-sync", "asp-gals"} ->
         [sum |-> SumOf([c \in Devices(job) |->
            IF c \in job.s[c].reaching /\ Distance(job, c, d) < IntMax
            THEN Distance(job, c, d) ELSE 0])]
=============================================================================
