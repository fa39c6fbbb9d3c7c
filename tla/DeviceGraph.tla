---------------------------- MODULE DeviceGraph ----------------------------
(* What it is to run a POLite application: a graph of devices that send,    *)
(* receive and step.  A device that is ready sends one message along every  *)
(* edge of its pin or to the host, messages arrive in any order, and when   *)
(* no device is ready and no message is under way all devices step; when no *)
(* step handler asks for another time step, all finish.  The simulator of   *)
(* apps/POLite/util/POLiteSWSim runs graphs so on a PC.                     *)
EXTENDS PoliteJobs, BagsExt, Bags

CONSTANTS Jobs,    \* the jobs to choose from
          MaxTime  \* bound: time steps

VARIABLES
  job,     \* the job
  dev,     \* devices
  flight,  \* bag of messages [to, label, msg] under way
  host,    \* bag of messages the host has been sent
  time,    \* time steps made
  done     \* the devices have finished

vars == <<job, dev, flight, host, time, done>>

AddAll(bag, seq) == FoldLeft(BagAdd, bag, seq)

\* The messages that go out on a pin, one per edge.
Posts(edges, pin, msg) ==
  LET out == SelectSeq(edges, LAMBDA e : Pin(e.pin) = pin)
  IN  [i \in DOMAIN out |->
        [to |-> out[i].to, label |-> out[i].label, msg |-> msg]]

Finishes(j, ds) ==
  IF AppFinishes(j.app) THEN [d \in DOMAIN ds |-> AppFinish(j.app, ds[d].s)]
  ELSE <<>>

Init ==
  /\ job \in Jobs
  /\ dev = [d \in Devices(job) |-> AppInit(job.app, job.s[d])]
  /\ flight = EmptyBag
  /\ host = EmptyBag
  /\ time = 0
  /\ done = FALSE

Send(d) ==
  /\ ~done
  /\ dev[d].rts # No
  /\ LET sent == AppSend(job.app, dev[d])
     IN  /\ dev' = [dev EXCEPT ![d] = sent.dev]
         /\ IF dev[d].rts = HostPin
            THEN /\ host' = BagAdd(host, sent.msg)
                 /\ UNCHANGED flight
            ELSE /\ flight' = AddAll(flight, Posts(job.graph[d],
                                                   dev[d].rts, sent.msg))
                 /\ UNCHANGED host
  /\ UNCHANGED <<job, time, done>>

Recv(m) ==
  /\ \E to \in AppRecv(job.app, dev[m.to], m.msg, m.label) :
       dev' = [dev EXCEPT ![m.to] = to]
  /\ flight' = BagRemove(flight, m)
  /\ UNCHANGED <<job, host, time, done>>

\* All step; the graph ends, and sends its results, when none is active.
\* A graph that goes on for ever ends with the host program, which stops
\* when it has the messages it waits for.
Step ==
  /\ ~done
  /\ flight = EmptyBag
  /\ \A d \in DOMAIN dev : dev[d].rts = No
  /\ time < MaxTime /\ BagCardinality(host) < Expected(job)
  /\ LET to == [d \in DOMAIN dev |-> AppStep(job.app, dev[d], time)]
         now == [d \in DOMAIN dev |-> to[d].dev]
     IN  /\ dev' = now
         /\ done' = \A d \in DOMAIN dev : ~to[d].active
         /\ host' = IF done' THEN AddAll(host, Finishes(job, now)) ELSE host
  /\ time' = time + 1
  /\ UNCHANGED <<job, flight>>

Next ==
  \/ \E d \in DOMAIN dev : Send(d)
  \/ \E m \in DOMAIN flight : Recv(m)
  \/ Step

Spec == Init /\ [][Next]_vars
=============================================================================
