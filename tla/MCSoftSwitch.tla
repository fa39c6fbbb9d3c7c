---------------------------- MODULE MCSoftSwitch ----------------------------
(* Small graphs on one or two boards with two mailboxes of two threads.     *)
EXTENDS SoftSwitchSimulation

\* Place a job: the thread of each device; other threads have none.
Place(j, threads, others) ==
  [app |-> j.app, graph |-> j.graph, s |-> j.s,
   threads |-> Range(threads) \cup others,
   addr |-> [d \in DOMAIN j.graph |->
     [thread |-> threads[d],
      id |-> Cardinality({c \in 1 .. d - 1 : threads[c] = threads[d]})]]]

Diamond == <<<<0, 1>>, <<0, 2>>, <<1, 3>>, <<2, 3>>, <<3, 0>>>>
Line == <<<<0, 1>>, <<1, 0>>, <<1, 2>>, <<2, 1>>>>

MCJobs ==
  {Place(SSSPJob("sssp-sync", Diamond, 0), <<0, 1, 1, 4>>, {}),
    Place(SSSPJob("sssp-async", Diamond, 0), <<0, 1, 1, 4>>, {}),
    Place(HashMinJob(Line), <<0, 0, 4>>, {2}),
    Place(ClockTreeJob(1, 2), <<0, 1, 1>>, {}),
    Place(ClockTreeJob(2, 1), <<1, 0, 4>>, {}),
    Place(HeatJob(Line, <<4, 8, 16>>, 2), <<0, 0, 4>>, {}),
    Place(HeatGalsJob(Line, <<4, 8, 16>>, 2), <<0, 1, 0>>, {}),
    Place(ASPJob(Line, 2), <<0, 1, 0>>, {}),
    Place(ASPGalsJob(Line, 2), <<0, 1, 4>>, {}),
    Place(PressureJob(<<3, 1, 0>>, 2), <<0, 0, 1>>, {})}
=============================================================================
