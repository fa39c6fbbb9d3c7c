----------------------------- MODULE SoftSwitch -----------------------------
(* The POLite softswitch (PThread::run of include/POLite/PDevice.h): each   *)
(* thread multiplexes its devices over one event loop.  A thread sends the  *)
(* message in its send slot along the out edges of a pin, one at a time;    *)
(* the mailbox may take the message out of the slot at any time later.  It  *)
(* receives a message once for all of the message's receivers on it.  With  *)
(* nothing to send it votes and waits for the release of the barrier, that  *)
(* the idle detector gives when all threads wait and no message is left     *)
(* anywhere (module IdleDetector).  The tables are those of PoliteTables.   *)
EXTENDS PoliteTables, PoliteJobs, BagsExt, Bags

CONSTANTS
  Jobs,      \* the jobs to choose from, each with addr and threads too
  MaxTime,   \* bound: time steps
  NetCap     \* messages the network holds

Host == [thread |-> -1, key |-> 0]

\* The tables that the mapper makes for a job.
Mapped(j) ==
  LET n == Len(j.graph)
      route(T, i) == RoutePin(T, j.graph, j.addr, (i - 1) \div NumPins + 1,
                              (i - 1) % NumPins)
  IN  FoldLeft(route,
        NewTables(j.threads, {BoardOf(t) : t \in j.threads}, 1 .. n),
        [i \in 1 .. n * NumPins |-> i])

DeviceAt(j, t, id) ==
  CHOOSE d \in DOMAIN j.addr : j.addr[d] = [thread |-> t, id |-> id]

\* What the tables come to: the receivers that a thread finds under a key,
\* and the copies [thread, key] of a message that an out edge makes.
InTable(j, T) ==
  [t \in j.threads |-> [k \in DOMAIN T.headers[t] |->
    LET in == Receivers(T.headers[t], T.rest[t], k - 1)
    IN  [i \in DOMAIN in |-> [dev |-> DeviceAt(j, t, in[i].id),
                              label |-> in[i].label]]]]

CopiesOf(m) == LET ts == SetToSortSeq(m.mask, <)
               IN  [i \in DOMAIN ts |-> [thread |-> ts[i], key |-> m.key]]

OutTable(j, T) ==
  [d \in DOMAIN j.addr |-> [p \in Pins |->
    LET out == OutEdges(T.out[d][p], 1)
    IN  [i \in DOMAIN out |->
          FoldLeft(LAMBDA s, m : s \o CopiesOf(m), <<>>,
            Messages(T.routers, BoardOf(j.addr[d].thread), out[i]))]]]

VARIABLES
  job,      \* the job
  tables,   \* the tables of its threads, in and out
  dev,      \* devices, by number: state and readyToSend
  pc,       \* per thread: where it is in run()
  senders,  \* per thread: stack of its devices that want to send
  marked,   \* devices with isMarkedRTS
  outEdge,  \* per thread: the copies of each out edge still to send along
  slot,     \* per thread: the payload in the send slot
  leaving,  \* per thread: the out edge, if any, the slot's message waits for
  rx,       \* per thread: the receivers left of the message being received
  active,   \* per thread: a device asked for another time step
  time,     \* per thread: time steps made
  finished, \* per thread: devices whose finish handler has been called
  net,      \* bag of messages [thread, key, msg] in the network
  host      \* bag of payloads the host received

vars == <<job, tables, dev, pc, senders, marked, outEdge, slot, leaving, rx, active,
          time, finished, net, host>>

App == job.app
Threads == job.threads
Addr == job.addr
DevicesOn(t) == SelectSeq([d \in DOMAIN Addr |-> d], LAMBDA d : Addr[d].thread = t)

\* A payload is a sequence of one message, an empty slot none.
NoMsg == [left |-> <<>>, msg |-> <<>>]

------------------------------------------------------------------------------
\* senders_queue_add: push the device unless it is on the stack.
AddUnmarked(Q, d) ==
  [senders |-> [Q.senders EXCEPT ![Addr[d].thread] = Append(@, d)],
   marked |-> Q.marked \cup {d}]

AddSender(Q, d) ==
  IF d \in Q.marked THEN Q
  ELSE [senders |-> [Q.senders EXCEPT ![Addr[d].thread] = Append(@, d)],
        marked |-> Q.marked \cup {d}]

Queue == [senders |-> senders, marked |-> marked]

\* After a handler has made ds of the devices: queue the ready one.
AddIfReady(Q, ds, d) == IF ds[d].rts # No THEN AddSender(Q, d) ELSE Q

Init ==
  /\ job \in Jobs
  /\ \E T \in {Mapped(job)} :
       tables = [in |-> InTable(job, T), out |-> OutTable(job, T)]
  /\ dev = [d \in Devices(job) |-> AppInit(App, job.s[d])]
  /\ pc = [t \in Threads |-> "run"]
  /\ LET Q == FoldLeft(LAMBDA q, d : AddIfReady(q, dev, d),
                       [senders |-> [t \in Threads |-> <<>>], marked |-> {}],
                       [d \in DOMAIN dev |-> d])
     IN  senders = Q.senders /\ marked = Q.marked
  /\ outEdge = [t \in Threads |-> <<>>]
  /\ slot = [t \in Threads |-> <<>>]
  /\ leaving = [t \in Threads |-> <<>>]
  /\ rx = [t \in Threads |-> NoMsg]
  /\ active = [t \in Threads |-> TRUE]
  /\ time = [t \in Threads |-> 0]
  /\ finished = [t \in Threads |-> 0]
  /\ net = EmptyBag
  /\ host = EmptyBag

\* tinselCanSend: the slot's last message has left it.
CanSend(t) == leaving[t] = <<>>
InLoop(t) == pc[t] = "run" /\ rx[t].left = <<>>

\* Send along the next out edge.
SendNext(t) ==
  /\ InLoop(t) /\ outEdge[t] # <<>>
  /\ CanSend(t)
  /\ leaving' = [leaving EXCEPT ![t] = <<Head(outEdge[t])>>]
  /\ outEdge' = [outEdge EXCEPT ![t] = Tail(@)]
  /\ UNCHANGED <<job, tables, dev, pc, senders, marked, slot, rx, active, time,
                 finished, net, host>>

\* Pop a device; if it still wants to send, call its send handler and turn
\* to the out edges of the pin it was ready on.
StartMulticastBody(t) ==
  LET d == Last(senders[t])
      popped == [senders |-> [senders EXCEPT ![t] = Front(@)],
                 marked |-> marked \ {d}]
      sent == AppSend(App, dev[d])
      sending == dev[d].rts # No
      Q == IF sending THEN AddIfReady(popped, [dev EXCEPT ![d] = sent.dev], d)
           ELSE popped
  IN  /\ InLoop(t) /\ outEdge[t] = <<>> /\ senders[t] # <<>>
      /\ senders' = Q.senders /\ marked' = Q.marked
      /\ IF sending
         THEN /\ dev' = [dev EXCEPT ![d] = sent.dev]
              /\ slot' = [slot EXCEPT ![t] = <<sent.msg>>]
              /\ outEdge' = [outEdge EXCEPT ![t] =
                   IF dev[d].rts = HostPin THEN << <<Host>> >>
                   ELSE tables.out[d][dev[d].rts - 2]]
         ELSE UNCHANGED <<dev, slot, outEdge>>
      /\ UNCHANGED <<job, tables, pc, leaving, rx, active, time, finished, net, host>>

StartWithoutWaiting(t) == StartMulticastBody(t)

StartMulticast(t) == CanSend(t) /\ StartMulticastBody(t)

\* tinselIdle: vote, and wait.
GoIdle(t) ==
  /\ InLoop(t) /\ outEdge[t] = <<>> /\ senders[t] = <<>>
  /\ pc' = [pc EXCEPT ![t] = "idle"]
  /\ UNCHANGED <<job, tables, dev, senders, marked, outEdge, slot, leaving, rx, active,
                 time, finished, net, host>>

\* A message arrives; it also ends a wait for the barrier.
Receive(t, m) ==
  /\ InLoop(t) \/ pc[t] = "idle"
  /\ m.thread = t
  /\ pc' = [pc EXCEPT ![t] = "run"]
  /\ rx' = [rx EXCEPT ![t] = [left |-> tables.in[t][m.key + 1],
                              msg |-> <<m.msg>>]]
  /\ net' = BagRemove(net, m)
  /\ UNCHANGED <<job, tables, dev, senders, marked, outEdge, slot, leaving, active,
                 time, finished, host>>

\* Call the receive handler of the next receiver, and queue it if ready.
DeliverUnqueued(t) ==
  /\ rx[t].left # <<>>
  /\ LET in == Head(rx[t].left)
     IN  \E to \in AppRecv(App, dev[in.dev], rx[t].msg[1], in.label) :
           dev' = [dev EXCEPT ![in.dev] = to]
  /\ rx' = [rx EXCEPT ![t] = IF Len(@.left) = 1 THEN NoMsg
                             ELSE [@ EXCEPT !.left = Tail(@)]]
  /\ UNCHANGED <<job, tables, pc, senders, marked, outEdge, slot, leaving, active,
                 time, finished, net, host>>

Deliver(t) ==
  /\ rx[t].left # <<>>
  /\ LET in == Head(rx[t].left)
     IN  \E to \in AppRecv(App, dev[in.dev], rx[t].msg[1], in.label) :
           /\ dev' = [dev EXCEPT ![in.dev] = to]
           /\ LET Q == AddIfReady(Queue, dev', in.dev)
              IN  senders' = Q.senders /\ marked' = Q.marked
  /\ rx' = [rx EXCEPT ![t] = IF Len(@.left) = 1 THEN NoMsg
                             ELSE [@ EXCEPT !.left = Tail(@)]]
  /\ UNCHANGED <<job, tables, pc, outEdge, slot, leaving, active, time, finished, net,
                 host>>

\* The barrier releases the waiting threads: to a new time step, or, when
\* none of them voted to go on, to termination.
Release ==
  /\ \A t \in Threads : pc[t] = "idle" /\ leaving[t] = <<>>
  /\ net = EmptyBag
  /\ IF \E t \in Threads : active[t]
     THEN /\ \A t \in Threads : time[t] < MaxTime
          /\ BagCardinality(host) < Expected(job)
          /\ pc' = [t \in Threads |-> "step"]
     ELSE pc' = [t \in Threads |-> "finish"]
  /\ UNCHANGED <<job, tables, dev, senders, marked, outEdge, slot, leaving, rx, active,
                 time, finished, net, host>>

\* The step handlers of a thread's devices, in order.
StepDevices(t) ==
  /\ pc[t] = "step"
  /\ LET to == [d \in DOMAIN dev |-> AppStep(App, dev[d], time[t])]
         now == [d \in DOMAIN dev |->
                  IF Addr[d].thread = t THEN to[d].dev ELSE dev[d]]
         Q == FoldLeft(LAMBDA q, d : AddIfReady(q, now, d), Queue, DevicesOn(t))
     IN  /\ dev' = now
         /\ active' = [active EXCEPT ![t] =
                        \E d \in ToSet(DevicesOn(t)) : to[d].active]
         /\ senders' = Q.senders /\ marked' = Q.marked
  /\ time' = [time EXCEPT ![t] = @ + 1]
  /\ pc' = [pc EXCEPT ![t] = "run"]
  /\ UNCHANGED <<job, tables, outEdge, slot, leaving, rx, finished, net, host>>

\* The finish handler of the next device, once the slot is free.
FinishDevice(t) ==
  /\ pc[t] = "finish" /\ finished[t] < Len(DevicesOn(t))
  /\ CanSend(t)
  /\ finished' = [finished EXCEPT ![t] = @ + 1]
  /\ IF AppFinishes(App)
     THEN /\ slot' = [slot EXCEPT ![t] =
                       <<AppFinish(App, dev[DevicesOn(t)[finished[t] + 1]].s)>>]
          /\ leaving' = [leaving EXCEPT ![t] = << <<Host>> >>]
     ELSE UNCHANGED <<slot, leaving>>
  /\ UNCHANGED <<job, tables, dev, pc, senders, marked, outEdge, rx, active, time, net,
                 host>>

Sleep(t) ==
  /\ pc[t] = "finish" /\ finished[t] = Len(DevicesOn(t))
  /\ pc' = [pc EXCEPT ![t] = "sleep"]
  /\ UNCHANGED <<job, tables, dev, senders, marked, outEdge, slot, leaving, rx, active,
                 time, finished, net, host>>

\* The mailbox takes the message out of the slot, as it is by now, and the
\* network makes the copies of it.
Leave(t) ==
  /\ leaving[t] # <<>>
  /\ LET copies == leaving[t][1]
         msgs == [i \in DOMAIN copies |->
                   [thread |-> copies[i].thread, key |-> copies[i].key,
                    msg |-> slot[t][1]]]
     IN  IF copies = <<Host>>
         THEN host' = BagAdd(host, slot[t][1]) /\ UNCHANGED net
         ELSE /\ BagCardinality(net) < NetCap
              /\ net' = FoldLeft(BagAdd, net, msgs)
              /\ UNCHANGED host
  /\ leaving' = [leaving EXCEPT ![t] = <<>>]
  /\ UNCHANGED <<job, tables, dev, pc, senders, marked, outEdge, slot, rx, active, time,
                 finished>>

Next ==
  \/ \E t \in Threads :
       \/ SendNext(t) \/ StartMulticast(t) \/ GoIdle(t) \/ Deliver(t)
       \/ StepDevices(t) \/ FinishDevice(t) \/ Sleep(t) \/ Leave(t)
       \/ \E m \in DOMAIN net : Receive(t, m)
  \/ Release

\* A core goes on running its threads, and mailboxes and routers go on moving
\* messages, so a step that can be taken is not put off for ever.
Spec == Init /\ [][Next]_vars /\ WF_vars(Next)

------------------------------------------------------------------------------
\* The stack of senders (an array with one place per device) holds exactly
\* the devices marked as being on it, each once and on its own thread, and no
\* device is ready to send without being on it: a handler may turn
\* readyToSend off and on again while the device waits (PState).
SendersExact ==
  /\ \A t \in Threads :
       /\ Len(senders[t]) <= Len(DevicesOn(t))
       /\ \A i, k \in DOMAIN senders[t] : i # k => senders[t][i] # senders[t][k]
       /\ ToSet(senders[t]) = {d \in marked : Addr[d].thread = t}
  /\ \A d \in DOMAIN dev : dev[d].rts # No => d \in marked

\* The host program: the payloads it receives are the answers, computed from
\* the graph, however threads and messages interleave.  Clock trees report
\* their number of vertices; no bead of the pressure model gets lost.
Answers ==
  BagCardinality(host) = Expected(job) =>
    LET j == job IN
    CASE App = "clocktree-async" -> BagToSet(host) = {Len(j.graph)}
      [] App = "pressure-sync" ->
           MapThenSumSet(LAMBDA m : m.pressure * host[m], BagToSet(host)) =
             SumOf([d \in Devices(j) |-> j.s[d].pressure])
      [] OTHER -> \A a \in {Answer(j, d) : d \in Devices(j)} :
           CopiesIn(a, host) = Cardinality({d \in Devices(j) : Answer(j, d) = a})

\* The host program gets all the messages it waits for.
EventuallyAnswered == <>(BagCardinality(host) = Expected(job))
=============================================================================
