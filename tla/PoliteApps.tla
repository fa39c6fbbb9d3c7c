----------------------------- MODULE PoliteApps -----------------------------
(* The devices of the POLite applications under apps/POLite, as pure        *)
(* operators: what a handler makes of the device's state and of its         *)
(* readyToSend pin.  A device is [s, rts]; init takes the state that the    *)
(* host program wrote, send yields the message too, recv the set of its     *)
(* outcomes, step whether the device is active, finish the message for the  *)
(* host.  Temperatures are whole numbers that the runs choose so that every *)
(* division is exact; bit vectors of nodes are sets; rand() is a choice.    *)
EXTENDS Integers, FiniteSets, FiniteSetsExt, SequencesExt

CONSTANTS
  IntMax,         \* greatest int32_t
  NumNeighbours   \* NUM_NEIGHBOURS of the pressure application, even

No == 0
HostPin == 1
Pin(n) == n + 2

Dev(s, rts) == [s |-> s, rts |-> rts]
Sent(d, msg) == [dev |-> d, msg |-> msg]
Stepped(d, active) == [dev |-> d, active |-> active]

\* Two's complement at the width of IntMax.
Int32(n) == IF n > IntMax THEN n - 2 * (IntMax + 1) ELSE n

------------------------------------------------------------------------------
\* sssp-sync: shortest paths from the source, a round per time step.
SSSPInit(s) == Dev(s, IF s.isSource THEN Pin(0) ELSE No)
SSSPSend(d) == Sent(Dev(d.s, No), d.s.dist)
SSSPRecv(d, msg, weight) ==
  LET newDist == Int32(msg + weight)
  IN  IF newDist < d.s.dist
      THEN Dev([d.s EXCEPT !.dist = newDist, !.changed = TRUE], d.rts)
      ELSE d
SSSPStep(d) ==
  IF d.s.changed THEN Stepped(Dev([d.s EXCEPT !.changed = FALSE], Pin(0)), TRUE)
  ELSE Stepped(d, FALSE)

\* sssp-async: every improvement is sent on at once.
SSSPAsyncRecv(d, msg, weight) ==
  LET newDist == Int32(msg + weight)
  IN  IF newDist < d.s.dist THEN Dev([d.s EXCEPT !.dist = newDist], Pin(0))
      ELSE d

\* hashmin-sync: the least vertex that reaches this one.
HashMinSend(d) == Sent(Dev(d.s, No), d.s.min)
HashMinRecv(d, msg) ==
  IF msg < d.s.min THEN Dev([d.s EXCEPT !.min = msg, !.changed = TRUE], d.rts)
  ELSE d

------------------------------------------------------------------------------
\* clocktree-async: ticks go down the tree, acknowledgements come back.
PIN_TICK == 0
PIN_ACK == 1
ClockTreeInit(s) == Dev([s EXCEPT !.vertexCount = 1], No)
ClockTreeSend(d) ==
  Sent(Dev([d.s EXCEPT !.waitingForAck = ~@], No), d.s.vertexCount)
ClockTreeRecv(d, msg) ==
  LET s == [d.s EXCEPT !.vertexCount = @ + msg, !.ackCount = @ - 1]
  IN  IF d.s.isLeaf THEN Dev(d.s, Pin(PIN_ACK))
      ELSE IF d.s.waitingForAck
      THEN Dev(s, IF s.ackCount # 0 THEN No
                  ELSE IF s.isRoot THEN HostPin ELSE Pin(PIN_ACK))
      ELSE Dev(d.s, Pin(PIN_TICK))
ClockTreeStep(d) ==
  Stepped(IF d.s.isRoot THEN Dev(d.s, Pin(PIN_TICK)) ELSE d, TRUE)

------------------------------------------------------------------------------
\* heat-sync: every step each device takes the mean of what it received.
HeatSend(d) == Sent(Dev(d.s, No), [from |-> d.s.id, val |-> d.s.val])
HeatRecv(d, msg) ==
  Dev([d.s EXCEPT !.acc = @ + msg.val, !.numNeighbours = @ + 1], d.rts)
HeatStep(d) ==
  IF d.s.time = 0 THEN Stepped(Dev(d.s, No), FALSE)
  ELSE Stepped(Dev([d.s EXCEPT !.time = @ - 1, !.acc = 0, !.numNeighbours = 0,
                      !.val = IF d.s.isConstant THEN @
                              ELSE d.s.acc \div d.s.numNeighbours], Pin(0)),
               TRUE)

\* heat-gals: the same, where a device goes on as soon as it has sent and has
\* heard from all of its neighbours; a neighbour may be one step ahead.
HeatChangeDropsNext(d) ==
  IF d.s.time = 0 \/ ~d.s.sent \/ d.s.received # d.s.fanIn THEN d
  ELSE Dev([d.s EXCEPT !.time = @ - 1, !.sent = FALSE,
              !.val = IF d.s.isConstant THEN @ ELSE d.s.acc \div d.s.fanIn,
              !.acc = 0, !.accNext = 0,
              !.received = d.s.receivedNext, !.receivedNext = 0],
           IF d.s.time = 1 THEN No ELSE Pin(0))

HeatChange(d) ==
  IF d.s.time = 0 \/ ~d.s.sent \/ d.s.received # d.s.fanIn THEN d
  ELSE Dev([d.s EXCEPT !.time = @ - 1, !.sent = FALSE,
              !.val = IF d.s.isConstant THEN @ ELSE d.s.acc \div d.s.fanIn,
              !.acc = d.s.accNext, !.accNext = 0,
              !.received = d.s.receivedNext, !.receivedNext = 0],
           IF d.s.time = 1 THEN No ELSE Pin(0))
HeatGalsSend(d) ==
  Sent(HeatChange(Dev([d.s EXCEPT !.sent = TRUE], No)),
       [from |-> d.s.id, time |-> d.s.time, val |-> d.s.val])
HeatGalsRecv(d, msg) ==
  IF msg.time = d.s.time
  THEN HeatChange(Dev([d.s EXCEPT !.acc = @ + msg.val, !.received = @ + 1],
                      d.rts))
  ELSE Dev([d.s EXCEPT !.accNext = @ + msg.val, !.receivedNext = @ + 1], d.rts)

------------------------------------------------------------------------------
\* asp-sync: the sources that reach a device, and the sum of their distances.
ASPSend(d) == Sent(Dev(d.s, No), [reaching |-> d.s.reaching])
ASPRecv(d, msg) == Dev([d.s EXCEPT !.newReaching = @ \cup msg.reaching], d.rts)
ASPStep(d, time) ==
  LET new == d.s.newReaching \ d.s.reaching
  IN  Stepped(Dev([d.s EXCEPT !.reaching = @ \cup new, !.newReaching = {},
                     !.sum = @ + (time + 1) * Cardinality(new)],
                  IF new # {} THEN Pin(0) ELSE No), new # {})

\* asp-gals: the same with the time step kept by each device.
ASPChange(d) ==
  LET s == d.s
      new == s.reaching1 \ s.reaching
  IN  CASE ~s.sent -> Dev(s, Pin(0))
        [] s.sent /\ s.toReach = 0 -> Dev([s EXCEPT !.done = TRUE], No)
        [] s.sent /\ s.toReach # 0 /\ s.received = s.fanIn ->
             Dev([s EXCEPT !.time = @ + 1, !.reaching = @ \cup new,
                    !.sum = @ + (s.time + 1) * Cardinality(new),
                    !.toReach = @ - Cardinality(new),
                    !.reaching1 = s.reaching2, !.reaching2 = {},
                    !.received = s.receivedNext, !.receivedNext = 0,
                    !.sent = FALSE], Pin(0))
        [] OTHER -> Dev(s, No)
ASPGalsSend(d) ==
  Sent(ASPChange(Dev([d.s EXCEPT !.sent = TRUE], d.rts)),
       [time |-> d.s.time, reaching |-> d.s.reaching])
ASPGalsRecv(d, msg) ==
  IF msg.time = d.s.time
  THEN ASPChange(Dev([d.s EXCEPT !.reaching1 = @ \cup msg.reaching,
                        !.received = @ + 1], d.rts))
  ELSE Dev([d.s EXCEPT !.reaching2 = @ \cup msg.reaching,
              !.receivedNext = @ + 1], d.rts)

------------------------------------------------------------------------------
\* pressure-sync: beads move to where there are fewer.
Opposite(dir) == (dir + NumNeighbours \div 2) % NumNeighbours
PressureInit(s) ==
  Dev([s EXCEPT !.mode = "SHARE", !.newPressure = s.pressure], Pin(0))
PressureSend(d) ==
  Sent(Dev(d.s, No), [pressure |-> d.s.pressure, move |-> d.s.move])
PressureRecv(d, msg, dir) ==
  LET stay == d
      give == Dev([d.s EXCEPT !.move = @ \cup {Opposite(dir)},
                     !.newPressure = @ - 1], d.rts)
      take == Dev([d.s EXCEPT !.newPressure = @ + 1], d.rts)
  IN  IF d.s.mode = "SHARE"
      THEN IF d.s.newPressure > msg.pressure THEN {stay, give} ELSE {stay}
      ELSE IF dir \in msg.move THEN {take} ELSE {stay}
PressureStep(d) ==
  LET move == d.s.mode = "SHARE"
  IN  IF d.s.numSteps = 0 THEN Stepped(Dev(d.s, No), FALSE)
      ELSE Stepped(Dev([d.s EXCEPT !.pressure = d.s.newPressure,
                          !.mode = IF move THEN "MOVE" ELSE "SHARE",
                          !.move = IF move THEN @ ELSE {},
                          !.numSteps = @ - 1], Pin(0)), TRUE)

------------------------------------------------------------------------------
\* The handlers of an application.
AppInit(app, s) ==
  CASE app \in {"sssp-sync", "sssp-async"} -> SSSPInit(s)
    [] app = "clocktree-async" -> ClockTreeInit(s)
    [] app = "pressure-sync" -> PressureInit(s)
    [] OTHER -> Dev(s, Pin(0))

AppSend(app, d) ==
  CASE app \in {"sssp-sync", "sssp-async"} -> SSSPSend(d)
    [] app = "hashmin-sync" -> HashMinSend(d)
    [] app = "clocktree-async" -> ClockTreeSend(d)
    [] app = "heat-sync" -> HeatSend(d)
    [] app = "heat-gals" -> HeatGalsSend(d)
    [] app = "asp-sync" -> ASPSend(d)
    [] app = "asp-gals" -> ASPGalsSend(d)
    [] app = "pressure-sync" -> PressureSend(d)

AppRecv(app, d, msg, label) ==
  CASE app = "sssp-sync" -> {SSSPRecv(d, msg, label)}
    [] app = "sssp-async" -> {SSSPAsyncRecv(d, msg, label)}
    [] app = "hashmin-sync" -> {HashMinRecv(d, msg)}
    [] app = "clocktree-async" -> {ClockTreeRecv(d, msg)}
    [] app = "heat-sync" -> {HeatRecv(d, msg)}
    [] app = "heat-gals" -> {HeatGalsRecv(d, msg)}
    [] app = "asp-sync" -> {ASPRecv(d, msg)}
    [] app = "asp-gals" -> {ASPGalsRecv(d, msg)}
    [] app = "pressure-sync" -> PressureRecv(d, msg, label)

AppStep(app, d, time) ==
  CASE app \in {"sssp-sync", "hashmin-sync"} -> SSSPStep(d)
    [] app = "sssp-async" -> Stepped(d, FALSE)
    [] app = "clocktree-async" -> ClockTreeStep(d)
    [] app = "heat-sync" -> HeatStep(d)
    [] app = "asp-sync" -> ASPStep(d, time)
    [] app \in {"heat-gals", "asp-gals"} -> Stepped(Dev(d.s, No), FALSE)
    [] app = "pressure-sync" -> PressureStep(d)

AppFinishes(app) == app # "clocktree-async"

AppFinish(app, s) ==
  CASE app \in {"sssp-sync", "sssp-async"} -> s.dist
    [] app = "hashmin-sync" -> s.min
    [] app \in {"heat-sync", "heat-gals"} -> [from |-> s.id, val |-> s.val]
    [] app \in {"asp-sync", "asp-gals"} -> [sum |-> s.sum]
    [] app = "pressure-sync" -> [pressure |-> s.pressure]
=============================================================================
