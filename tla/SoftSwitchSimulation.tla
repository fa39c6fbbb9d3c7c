------------------------ MODULE SoftSwitchSimulation ------------------------
(* The softswitches of a machine implement the device graph.  The variable  *)
(* graph holds what the state of the threads stands for.                    *)
EXTENDS SoftSwitch

VARIABLE graph

\* A released thread counts as having stepped already.
Stepping(d) == pc[Addr[d].thread] = "step"
SteppedTo(d) == AppStep(App, dev[d], time[Addr[d].thread])
LogicalDev == [d \in DOMAIN dev |-> IF Stepping(d) THEN SteppedTo(d).dev ELSE dev[d]]
LogicalDone ==
  \A t \in Threads :
    IF pc[t] = "step" THEN \A d \in ToSet(DevicesOn(t)) : ~SteppedTo(d).active
    ELSE ~active[t]
LogicalTime == Max({time[t] + (IF pc[t] = "step" THEN 1 ELSE 0) : t \in Threads})

\* The copies of messages, told apart by where they are: in a slot or of an
\* out edge still to send along, and in the network.
Unsent(t) == FlattenSeq(leaving[t] \o outEdge[t])
Carried(at, copy, msg) == [at |-> at, copy |-> copy, msg |-> msg]
Copies ==
  UNION {{Carried(<<t, i>>, Unsent(t)[i], slot[t][1]) : i \in DOMAIN Unsent(t)} :
         t \in Threads}
  \cup UNION {{Carried(<<-1, i>>, [thread |-> m.thread, key |-> m.key], m.msg) :
               i \in 1 .. net[m]} : m \in DOMAIN net}

\* Each stands for a message to each of its receivers, and so does a message
\* being received for the receivers left.
Arrivals(c, in) ==
  {<<c, i, [to |-> in[i].dev, label |-> in[i].label, msg |-> c.msg]>> :
     i \in DOMAIN in}
LogicalFlight(cs) ==
  UNION {Arrivals(c, tables.in[c.copy.thread][c.copy.key + 1]) :
         c \in {c \in cs : c.copy # Host}}
  \cup UNION {Arrivals(Carried(<<t, 0>>, Host, rx[t].msg[1]), rx[t].left) :
              t \in {t \in Threads : rx[t].left # <<>>}}

\* Messages to the host that have not left, and those still to be made.
LogicalHost(cs, ds, done) ==
  {<<c, 0, c.msg>> : c \in {c \in cs : c.copy = Host}}
  \cup {<<Carried(<<d, 0>>, Host, 0), 1, AppFinish(App, ds[d].s)>> :
         d \in {d \in DOMAIN ds : done /\ AppFinishes(App) /\
                 Addr[d].id >= finished[Addr[d].thread]}}

\* The bag of the last parts of a set of tuples.
BagOf(S) == LET vals == {x[3] : x \in S}
            IN  [v \in vals |-> Cardinality({x \in S : x[3] = v})]

Logical(ds, done, cs) ==
  [dev |-> ds, flight |-> BagOf(LogicalFlight(cs)),
   host |-> host (+) BagOf(LogicalHost(cs, ds, done)),
   time |-> LogicalTime, done |-> done]

SimInit ==
  /\ Init
  /\ \E ds \in {LogicalDev}, done \in {LogicalDone}, cs \in {Copies} :
       graph = Logical(ds, done, cs)
SimNext ==
  /\ Next
  /\ \E ds \in {LogicalDev'}, done \in {LogicalDone'}, cs \in {Copies'} :
       graph' = Logical(ds, done, cs)'
SimSpec == SimInit /\ [][SimNext]_<<vars, graph>> /\ WF_vars(Next)

Graph == INSTANCE DeviceGraph
           WITH dev <- graph.dev, flight <- graph.flight, host <- graph.host,
                time <- graph.time, done <- graph.done

\* The threads together run the device graph: multicast by table, send slots,
\* the senders stack and the barrier only order the handlers' calls.
Simulates == Graph!Spec
=============================================================================
