--------------------------- MODULE DebugLinkProofs ---------------------------
(***************************************************************************)
(* Proofs about DebugLink: for every number of boxes, of boards of a box   *)
(* and of cores, every order in which the boards hang on their links,      *)
(* every size of the queues on the way, and any number of programs, killed *)
(* anywhere, turned away or failed, the tables of the constructor are      *)
(* right and what pollStdOut has of a thread is the beginning of what it   *)
(* printed, in every behaviour (CleanSpec) in which no box whose bridge    *)
(* still has something of an earlier program is connected to; and in every *)
(* behaviour (Spec) if nothing is ever left in such a bridge (Undisturbed).*)
(***************************************************************************)
EXTENDS BoardStreamTheorems

-----------------------------------------------------------------------------
(* The constructor's place.                                                *)

\* The turn of a board in AskTemp's loop: the workers, then the bridges.
TempRank(p) ==
  IF IdOf(p) /= Bridge THEN MeshRank(Home(p)) ELSE NumBoards + BoxRank(p[1])

\* The board is in the tables, or it is not.
Known(p) ==
  IF IdOf(p) /= Bridge THEN link.portOf[Home(p)] = p /\ link.boardOf[p] = Home(p)
  ELSE link.bridge[p[1]] = <<p[2]>>
Unknown(p) ==
  IF IdOf(p) /= Bridge THEN link.portOf[Home(p)] = None
  ELSE link.bridge[p[1]] = None

\* One for what comes before the k-th turn, none after it.
Before(i, k) == IF i < k THEN 1 ELSE 0

\* The commands of a board before the temperature.
Base(p) == IF IdOf(p) = Bridge /\ p[1] = Master THEN 2 ELSE 1

\* The commands sent to a board and the replies got from it, by stage.
Progress(p, n, g) ==
  /\ link.st \in {"off", "exit", "connect", "ready", "fail"} => n = 0 /\ g = 0
  /\ link.st = "query" => n = Before(PortRank(p), link.k) /\ g = 0
  /\ link.st = "response" => n = 1 /\ g \in {0, 1} /\ (g = 1 <=> Known(p))
  /\ link.st = "enable" => n = 1 /\ g = 1
  /\ link.st = "enabled" => n = Base(p) /\ g = 1
  /\ link.st = "askTemp" => /\ n = Base(p) + Before(TempRank(p), link.k)
                            /\ g = n
  /\ link.st = "getTemp" => /\ n = Base(p) + Before(TempRank(p), link.k + 1)
                            /\ g = Base(p) + Before(TempRank(p), link.k)
  /\ link.st = "setDest" =>
       /\ n = Base(p) + 1 + 2 * (IF IdOf(p) = Bridge THEN 0
                                  ELSE Before(TempRank(p), link.k))
       /\ g = Base(p) + 1
  /\ link.st = "put" =>
       /\ n = Base(p) + 1 + (IF IdOf(p) = Bridge THEN 0
                               ELSE Before(TempRank(p), link.k)
                                      + Before(TempRank(p), link.k + 1))
       /\ g = Base(p) + 1
  /\ link.st = "poll" => n = Base(p) + (IF IdOf(p) = Bridge THEN 1 ELSE 3)
                         /\ g = Base(p) + 1

\* The line buffer after the first characters of a thread.
TextAfter(b, l, c, n) ==
  LET t0 == [lines |-> <<>>, line |-> <<>>]
      t1 == Added(t0, Text(b, l, c)[1]) IN
  IF n = 0 THEN t0 ELSE IF n = 1 THEN t1 ELSE Added(t1, Text(b, l, c)[2])

\* g[c] characters of core c of a worker have come.
Printed(p, g) ==
  \A c \in Cores :
    IF link.st = "poll" /\ IdOf(p) /= Bridge
    THEN text[<<Home(p), c>>] = TextAfter(p[1], p[2], c, g[c])
    ELSE g[c] = 0

-----------------------------------------------------------------------------
(* The invariant.                                                          *)

\* Where a program can be: abort is not among them.
Stages == {"off", "connect", "ready", "query", "response", "enable", "enabled", "askTemp",
           "getTemp", "setDest", "put", "poll", "fail", "exit"}

\* Where it is connected to all boxes, and all have told it they are ready.
Asking == {"query", "response", "enable", "enabled", "askTemp", "getTemp", "setDest",
           "put", "poll"}

\* What the boxes hold has its type.
BoxesTypeOK ==
  /\ board \in [Boxes -> [Links -> BoardType]]
  /\ uart \in [Boxes -> [Links -> UartType]]
  /\ printed \in [Boxes -> [Links -> [Cores -> Nat]]]
  /\ buffer \in [Boxes -> [Links -> BufferType]]
  /\ tcp \in [Boxes -> [client : BOOLEAN, up : Seq(Packets), down : Seq(Packets)]]
  /\ server \in [Boxes -> {"listen", "power", "serve", "down"}]

\* The program and its line buffers have theirs.
LinkTypeOK ==
  /\ link \in [st : Stages, session : Int, k : Nat, tries : Int, conn : SUBSET Boxes,
               bridge : [Boxes -> {None} \cup {<<l>> : l \in Links}],
               portOf : [Mesh -> {None} \cup Ports],
               boardOf : [Ports -> {None} \cup Mesh], tryNext : 0 .. NumBoxes - 1]
  /\ text \in [Mesh \X Cores -> [lines : Seq(Seq(Int)), line : Seq(Int)]]

\* Everything has its type.
TypeOK == ChainOK /\ BoxesTypeOK /\ LinkTypeOK

\* The turns of the loops.
TurnOK ==
  /\ link.st \in {"connect", "ready"} => link.k < NumBoxes
  /\ link.st \in {"query", "response"} => link.k < NumBoxes * NumLinks
  /\ link.st \in {"askTemp", "getTemp"} => link.k < NumBoards + NumBoxes
  /\ link.st \in {"setDest", "put"} => link.k < NumBoards
  /\ link.st \in {"enable", "enabled"} => link.k = 0
  /\ link.st /= "poll" => text = NoText

\* The boards of box b that are in the tables.
KnownOf(b) == {l \in Links : Known(<<b, l>>)}

\* The tables: empty, then filling box by box, then complete.
TablesOK ==
  /\ \A p \in Ports : Known(p) \/ Unknown(p)
  /\ link.st \in {"off", "exit", "connect", "ready", "query", "fail"} =>
       \A p \in Ports : Unknown(p)
  /\ link.st = "response" => \A b \in Boxes :
       /\ link.k <= NumLinks * BoxRank(b) => KnownOf(b) = {}
       /\ link.k >= NumLinks * BoxRank(b) + NumLinks => KnownOf(b) = Links
       /\ NumLinks * BoxRank(b) <= link.k /\ link.k <= NumLinks * BoxRank(b) + NumLinks
            => Cardinality(KnownOf(b)) = link.k - NumLinks * BoxRank(b)
  /\ link.st \in Asking \ {"query", "response"} => \A p \in Ports : Known(p)

\* The box has not told the program it is ready, or not been heard.
Unready(b) ==
  \/ link.st \in {"connect", "fail"}
  \/ link.st = "ready" /\ link.k <= BoxRank(b)

\* A box has a client when the program is connected to it, and powers up or serves as
\* long; nothing is on its way to a box that listens, and its workers are as new.
ServerOK ==
  /\ link.st \in {"off", "exit"} => link.conn = {}
  /\ link.st \in Asking \cup {"ready"} => link.conn = Boxes
  /\ \A b \in Boxes :
       /\ tcp[b].client <=> b \in link.conn
       /\ b \in link.conn => server[b] \in {"power", "serve"}
       /\ server[b] \in {"listen", "power"} => tcp[b].up = <<>>
       /\ server[b] = "listen" =>
            \A l \in Links :
              /\ buffer[b][l] = NewBuffer /\ printed[b][l] = NothingPrinted
              /\ IdOf(<<b, l>>) /= Bridge => board[b][l] = NewBoard /\ uart[b][l] = NewUart

\* What the program finds in its connection to a box.
ConnectionOK ==
  \A b \in link.conn :
    /\ server[b] = "power" => Unready(b) /\ tcp[b].down = <<>>
    /\ server[b] = "serve" /\ Unready(b) => tcp[b].down /= <<>>
    /\ \A i \in 1 .. Len(tcp[b].down) :
         IF i = 1 /\ Unready(b) THEN tcp[b].down[i] = Packet(0, <<READY>>)
         ELSE ChannelOf(tcp[b].down[i].bytes) \in Channels

\* The view of the board at port p.
View(p) ==
  [up |-> tcp[p[1]].up, down |-> tcp[p[1]].down, at |-> server[p[1]],
   buf |-> buffer[p[1]][p[2]], ua |-> uart[p[1]][p[2]], bd |-> board[p[1]][p[2]],
   pr |-> printed[p[1]][p[2]]]

\* The board at port p, and how far the program is with it.
Linked(p) ==
  \E n \in Nat, g \in [Channels -> Nat] :
    /\ Progress(p, n, g[Replies]) /\ Printed(p, g)
    /\ Live(p[1], p[2], IdOf(p), View(p), n, g)

\* Programs are killed only where no reply of a bridge is on its way.
CalmEnds == KillAt \subseteq {"askTemp", "setDest", "put", "poll"}

\* Otherwise a bridge may have something of an earlier program, until a program is
\* served; the master's until it is reset.
Loose(p) ==
  /\ ~ CalmEnds
  /\ IdOf(p) = Bridge
  /\ p[1] \notin link.conn \/ (p[1] = Master /\ server[p[1]] = "power")

\* Whatever that is, no thread prints on a bridge, and what boardctrld still has
\* for it are commands for a bridge.
Dormant(l, v) ==
  /\ v.bd.started = {} /\ v.bd.send = <<>> /\ v.pr = NothingPrinted
  /\ \A k \in OnLink(v.up, l) : ToBridge(v.up[k].bytes)
Stale(p) == Loose(p) /\ Dormant(p[2], View(p))

\* Each board, with the program or without.
PortsOK ==
  \A p \in Ports :
    \/ p[1] \in link.conn /\ Linked(p)
    \/ p[1] \notin link.conn /\ Lone(p[1], p[2], IdOf(p), View(p))
    \/ Stale(p)

\* The inductive invariant.
IInv ==
  /\ TypeOK /\ TurnOK /\ TablesOK /\ ServerOK /\ ConnectionOK /\ PortsOK

-----------------------------------------------------------------------------
(* The steps of the boards.                                                *)

\* A view of boxes that have their type has its type.
LEMMA ViewTyped ==
  /\ BoxesTypeOK => \A p \in Ports : View(p) \in ViewType
  /\ BoxesTypeOK' => \A p \in Ports : View(p)' \in ViewType
<1>1. ASSUME BoxesTypeOK, NEW p \in Ports
      PROVE  View(p) \in ViewType
  <2>1. p[1] \in Boxes /\ p[2] \in Links
    BY DEF Ports
  <2>2. /\ board[p[1]][p[2]] \in BoardType /\ uart[p[1]][p[2]] \in UartType
        /\ printed[p[1]][p[2]] \in [Cores -> Nat] /\ buffer[p[1]][p[2]] \in BufferType
        /\ tcp[p[1]].up \in Seq(Packets) /\ tcp[p[1]].down \in Seq(Packets)
        /\ server[p[1]] \in {"listen", "power", "serve", "down"}
    BY <1>1, <2>1 DEF BoxesTypeOK
  <2>3. QED
    BY <2>2 DEF View, ViewType
<1>2. ASSUME BoxesTypeOK', NEW p \in Ports
      PROVE  View(p)' \in ViewType
  <2>1. p[1] \in Boxes /\ p[2] \in Links
    BY DEF Ports
  <2>2. /\ board'[p[1]][p[2]] \in BoardType /\ uart'[p[1]][p[2]] \in UartType
        /\ printed'[p[1]][p[2]] \in [Cores -> Nat] /\ buffer'[p[1]][p[2]] \in BufferType
        /\ tcp'[p[1]].up \in Seq(Packets) /\ tcp'[p[1]].down \in Seq(Packets)
        /\ server'[p[1]] \in {"listen", "power", "serve", "down"}
    BY <1>2, <2>1 DEF BoxesTypeOK
  <2>3. QED
    BY <2>2 DEF View, ViewType
<1>3. QED
  BY <1>1, <1>2

\* What a board is.
LEMMA IdTyped ==
  ASSUME ChainOK, NEW p \in Ports
  PROVE  /\ p[1] \in Boxes /\ p[2] \in Links /\ p = <<p[1], p[2]>>
         /\ IdOf(p) \in {Bridge} \cup Identities /\ chain[p[1]][p[2]] = IdOf(p)
         /\ IsBridge(p[1], p[2]) <=> IdOf(p) = Bridge
<1>1. p[1] \in Boxes /\ p[2] \in Links /\ p = <<p[1], p[2]>>
  BY DEF Ports
<1>2. QED
  BY <1>1, ChainShape DEF IdOf, IsBridge

\* Every board has done some of the commands it has been sent.
LEMMA PortSound ==
  ASSUME PortsOK, NEW p \in Ports
  PROVE  \/ \E n \in Nat, e \in Nat, m \in Nat :
              /\ Down(p[1], p[2], IdOf(p), View(p).up, View(p).buf, View(p).ua, View(p).bd, n, e, m)
              /\ Registers(p[1], IdOf(p), View(p).bd, View(p).pr, e)
         \/ Stale(p)
<1>1. CASE Linked(p)
  <2>1. PICK n \in Nat, g \in [Channels -> Nat] : Live(p[1], p[2], IdOf(p), View(p), n, g)
    BY <1>1 DEF Linked
  <2>2. QED
    BY <2>1 DEF Live
<1>2. CASE Lone(p[1], p[2], IdOf(p), View(p))
  BY <1>2 DEF Lone
<1>3. QED
  BY <1>1, <1>2 DEF PortsOK

\* A board that is not loose is with the program or is not.
LEMMA NotLoose ==
  ASSUME PortsOK, NEW p \in Ports, ~ Loose(p)
  PROVE  IF p[1] \in link.conn THEN Linked(p) ELSE Lone(p[1], p[2], IdOf(p), View(p))
BY DEF PortsOK, Stale

\* No thread prints on a bridge.
LEMMA BridgeMute ==
  ASSUME PortsOK, NEW p \in Ports, IdOf(p) = Bridge
  PROVE  View(p).bd.started = {} /\ View(p).bd.send = <<>> /\ View(p).pr = NothingPrinted
<1>1. CASE Stale(p)
  BY <1>1 DEF Stale, Dormant
<1>2. CASE \E e \in Nat : Registers(p[1], IdOf(p), View(p).bd, View(p).pr, e)
  BY <1>2 DEF Registers
<1>3. QED
  BY <1>1, <1>2, PortSound

\* What is on its way to a bridge are commands for one.
LEMMA BridgeDormant ==
  ASSUME PortsOK, BoxesTypeOK, ChainOK, NEW p \in Ports, IdOf(p) = Bridge
  PROVE  Dormant(p[2], View(p))
<1> DEFINE v == View(p)
<1>1. v \in ViewType /\ p[1] \in Boxes /\ p[2] \in Links
  BY ViewTyped, IdTyped
<1>2. v.up \in Seq(Packets)
  BY <1>1 DEF ViewType
<1>3. v.bd.started = {} /\ v.bd.send = <<>> /\ v.pr = NothingPrinted
  BY BridgeMute
<1>4. CASE \E n \in Nat, e \in Nat, m \in Nat :
             Down(p[1], p[2], Bridge, v.up, v.buf, v.ua, v.bd, n, e, m)
  <2> HIDE DEF v
  <2>1. PICK n \in Nat, e \in Nat, m \in Nat :
          Down(p[1], p[2], Bridge, v.up, v.buf, v.ua, v.bd, n, e, m)
    BY <1>4
  <2>2. \A k \in OnLink(v.up, p[2]) : ToBridge(v.up[k].bytes)
    BY <1>1, <1>2, <2>1, UpKnown
  <2>3. QED
    BY <1>3, <2>2 DEF Dormant, v
<1>5. CASE Stale(p)
  BY <1>5 DEF Stale
<1>6. QED
  BY <1>4, <1>5, PortSound

\* A step of the boxes leaves the program and its tables as they are.
BoxStays == UNCHANGED <<chain, link, text>>

\* Such a step keeps the invariant if it does for each board.
PortKept(p) ==
  /\ p[1] \in link.conn => \A n \in Nat, g \in [Channels -> Nat] :
       Progress(p, n, g[Replies]) /\ Printed(p, g) /\ Live(p[1], p[2], IdOf(p), View(p), n, g)
         => Live(p[1], p[2], IdOf(p), View(p)', n, g)
  /\ p[1] \notin link.conn =>
       (Lone(p[1], p[2], IdOf(p), View(p)) => Lone(p[1], p[2], IdOf(p), View(p)'))
  /\ Stale(p) => Stale(p)' \/ (p[1] \in link.conn /\ Linked(p)')

\* A board is as loose as its box is connected and powered.
LEMMA LooseStays ==
  ASSUME NEW p, BoxStays, server'[p[1]] = server[p[1]]
  PROVE  Loose(p)' <=> Loose(p)
BY DEF Loose, BoxStays, IdOf

\* A board that is the same after a step is kept.
LEMMA SameKept ==
  ASSUME NEW p \in Ports, BoxStays, View(p)' = View(p)
  PROVE  PortKept(p)
<1>1. server'[p[1]] = server[p[1]]
  <2>1. View(p).at = server[p[1]] /\ View(p)'.at = server'[p[1]]
    BY DEF View
  <2>2. QED
    BY <2>1
<1>2. Loose(p)' <=> Loose(p)
  BY <1>1, LooseStays
<1>3. Stale(p) => Stale(p)'
  BY <1>2 DEF Stale
<1>4. QED
  BY <1>3 DEF PortKept

\* A step of the boxes that leaves the program alone keeps the invariant if every
\* board's place with the program is kept.
LEMMA BoxKeeps ==
  ASSUME IInv, BoxStays, BoxesTypeOK', ServerOK', ConnectionOK',
         \A p \in Ports : PortKept(p)
  PROVE  IInv'
<1>1. chain' = chain /\ link' = link /\ text' = text
  BY DEF BoxStays
<1>2. TypeOK'
  BY <1>1 DEF IInv, TypeOK, ChainOK, LinkTypeOK
<1>3. TurnOK'
  BY <1>1 DEF IInv, TurnOK
<1>4. \A p \in Ports : /\ IdOf(p)' = IdOf(p) /\ Home(p)' = Home(p)
                       /\ (Known(p) <=> Known(p)') /\ (Unknown(p) <=> Unknown(p)')
                       /\ TempRank(p)' = TempRank(p) /\ Base(p)' = Base(p)
  BY <1>1 DEF IdOf, Home, Known, Unknown, TempRank, Base
<1>5. \A b \in Boxes : KnownOf(b)' = KnownOf(b)
  BY <1>1 DEF KnownOf, Known, IdOf, Home
<1>6. TablesOK'
  BY <1>1, <1>4, <1>5 DEF IInv, TablesOK
<1>7. PortsOK'
  <2>1. SUFFICES ASSUME NEW p \in Ports
                 PROVE  (\/ p[1] \in link.conn /\ Linked(p)
                         \/ p[1] \notin link.conn /\ Lone(p[1], p[2], IdOf(p), View(p))
                         \/ Stale(p))'
    BY DEF PortsOK
  <2>2. PortKept(p)
    OBVIOUS
  <2>3. CASE p[1] \in link.conn /\ Linked(p)
    <3>1. Linked(p)
      BY <2>3
    <3>2. PICK n \in Nat, g \in [Channels -> Nat] :
            /\ Progress(p, n, g[Replies]) /\ Printed(p, g)
            /\ Live(p[1], p[2], IdOf(p), View(p), n, g)
      BY <3>1 DEF Linked
    <3>3. Live(p[1], p[2], IdOf(p)', View(p)', n, g)
      BY <1>4, <2>2, <2>3, <3>2 DEF PortKept
    <3>4. Progress(p, n, g[Replies])'
      BY <1>1, <3>2 DEF Progress, Known, IdOf, Home, TempRank, Base
    <3>5. Printed(p, g)'
      BY <1>1, <3>2 DEF Printed, IdOf, Home
    <3>6. Linked(p)'
      BY <3>3, <3>4, <3>5 DEF Linked
    <3>7. QED
      BY <1>1, <2>3, <3>6
  <2>4. CASE p[1] \notin link.conn /\ Lone(p[1], p[2], IdOf(p), View(p))
    <3>1. Lone(p[1], p[2], IdOf(p), View(p))
      BY <2>4
    <3>2. Lone(p[1], p[2], IdOf(p)', View(p)')
      BY <1>4, <2>2, <2>4, <3>1 DEF PortKept
    <3>3. QED
      BY <1>1, <2>4, <3>2
  <2>5. CASE Stale(p)
    BY <1>1, <2>2, <2>5 DEF PortKept
  <2>6. QED
    BY <2>3, <2>4, <2>5 DEF IInv, PortsOK
<1>8. QED
  BY <1>2, <1>3, <1>6, <1>7 DEF IInv

\* A board's registers, UART and count of characters change, nothing else.
BoardChange(b, l, bd, ua, pr) ==
  /\ UNCHANGED <<chain, link, text, tcp, server, buffer>>
  /\ board' = [board EXCEPT ![b][l] = bd]
  /\ uart' = [uart EXCEPT ![b][l] = ua]
  /\ printed' = [printed EXCEPT ![b][l] = pr]

\* The same of the view.
Became(v, v2, bd, ua, pr) ==
  /\ v2.up = v.up /\ v2.down = v.down /\ v2.at = v.at /\ v2.buf = v.buf
  /\ v2.bd = bd /\ v2.ua = ua /\ v2.pr = pr

\* A step of one board is seen by that board only.
LEMMA BoardViews ==
  ASSUME BoxesTypeOK, NEW p \in Ports, NEW bd \in BoardType, NEW ua \in UartType,
         NEW pr \in [Cores -> Nat], BoardChange(p[1], p[2], bd, ua, pr)
  PROVE  /\ BoxesTypeOK'
         /\ \A q \in Ports : q # p => View(q)' = View(q)
         /\ Became(View(p), View(p)', bd, ua, pr)
<1>1. p[1] \in Boxes /\ p[2] \in Links /\ p = <<p[1], p[2]>>
  BY DEF Ports
<1>2. /\ board' \in [Boxes -> [Links -> BoardType]] /\ board'[p[1]][p[2]] = bd
      /\ \A b \in Boxes, l \in Links : <<b, l>> # <<p[1], p[2]>> => board'[b][l] = board[b][l]
  BY <1>1 DEF BoardChange, BoxesTypeOK
<1>3. /\ uart' \in [Boxes -> [Links -> UartType]] /\ uart'[p[1]][p[2]] = ua
      /\ \A b \in Boxes, l \in Links : <<b, l>> # <<p[1], p[2]>> => uart'[b][l] = uart[b][l]
  BY <1>1 DEF BoardChange, BoxesTypeOK
<1>4. /\ printed' \in [Boxes -> [Links -> [Cores -> Nat]]] /\ printed'[p[1]][p[2]] = pr
      /\ \A b \in Boxes, l \in Links :
           <<b, l>> # <<p[1], p[2]>> => printed'[b][l] = printed[b][l]
  BY <1>1 DEF BoardChange, BoxesTypeOK
<1>5. tcp' = tcp /\ server' = server /\ buffer' = buffer
  BY DEF BoardChange
<1>6. BoxesTypeOK'
  BY <1>2, <1>3, <1>4, <1>5 DEF BoxesTypeOK
<1>7. ASSUME NEW q \in Ports, q # p
      PROVE  View(q)' = View(q)
  <2>1. q[1] \in Boxes /\ q[2] \in Links /\ <<q[1], q[2]>> # <<p[1], p[2]>>
    BY <1>1, <1>7 DEF Ports
  <2>2. /\ board'[q[1]][q[2]] = board[q[1]][q[2]] /\ uart'[q[1]][q[2]] = uart[q[1]][q[2]]
        /\ printed'[q[1]][q[2]] = printed[q[1]][q[2]]
    BY <2>1, <1>2, <1>3, <1>4
  <2>3. QED
    BY <2>2, <1>5 DEF View
<1>8. Became(View(p), View(p)', bd, ua, pr)
  <2>1. View(p)' = [up |-> tcp[p[1]].up, down |-> tcp[p[1]].down, at |-> server[p[1]],
                    buf |-> buffer[p[1]][p[2]], ua |-> ua, bd |-> bd, pr |-> pr]
    BY <1>2, <1>3, <1>4, <1>5 DEF View
  <2> DEFINE v2 == View(p)'
  <2>2. /\ v2.up = tcp[p[1]].up /\ v2.down = tcp[p[1]].down /\ v2.at = server[p[1]]
        /\ v2.buf = buffer[p[1]][p[2]] /\ v2.ua = ua /\ v2.bd = bd /\ v2.pr = pr
    BY <2>1
  <2> HIDE DEF v2
  <2>3. Became(View(p), v2, bd, ua, pr)
    BY <2>2 DEF View, Became
  <2>4. QED
    BY <2>3 DEF v2
<1>9. QED
  BY <1>6, <1>7, <1>8

\* It keeps the invariant, if it does for the board.
LEMMA BoardKeeps ==
  ASSUME IInv, NEW p \in Ports, NEW bd \in BoardType, NEW ua \in UartType,
         NEW pr \in [Cores -> Nat], BoardChange(p[1], p[2], bd, ua, pr),
         server[p[1]] = "listen" => IdOf(p) = Bridge /\ pr = printed[p[1]][p[2]],
         PortKept(p)
  PROVE  IInv'
<1>0. BoxesTypeOK
  BY DEF IInv, TypeOK
<1>1. /\ BoxesTypeOK' /\ \A q \in Ports : q # p => View(q)' = View(q)
  BY <1>0, BoardViews
<1>2. chain' = chain /\ link' = link /\ text' = text /\ tcp' = tcp /\ server' = server
      /\ buffer' = buffer
  BY DEF BoardChange
<1>3. \A b \in Boxes, l \in Links : <<b, l>> # p =>
        board'[b][l] = board[b][l] /\ uart'[b][l] = uart[b][l] /\ printed'[b][l] = printed[b][l]
  <2>1. SUFFICES ASSUME NEW b \in Boxes, NEW l \in Links, <<b, l>> # p
                 PROVE  /\ board'[b][l] = board[b][l] /\ uart'[b][l] = uart[b][l]
                        /\ printed'[b][l] = printed[b][l]
    OBVIOUS
  <2>2. p = <<p[1], p[2]>> /\ p[1] \in Boxes /\ p[2] \in Links
    BY DEF Ports
  <2>3. b # p[1] \/ l # p[2]
    BY <2>1, <2>2
  <2>4. QED
    BY <1>0, <2>2, <2>3 DEF BoardChange, BoxesTypeOK
<1>4. ServerOK'
  <2>1. ServerOK
    BY DEF IInv
  <2>2. ASSUME NEW b \in Boxes, server[b] = "listen", NEW l \in Links
        PROVE  /\ buffer'[b][l] = NewBuffer /\ printed'[b][l] = NothingPrinted
               /\ IdOf(<<b, l>>)' /= Bridge => board'[b][l] = NewBoard /\ uart'[b][l] = NewUart
    <3>1. <<b, l>> # p \/ (IdOf(<<b, l>>) = Bridge /\ pr = printed[b][l])
      BY <2>2
    <3>2. IdOf(<<b, l>>)' = IdOf(<<b, l>>)
      BY <1>2 DEF IdOf
    <3>3. /\ buffer[b][l] = NewBuffer /\ printed[b][l] = NothingPrinted
          /\ IdOf(<<b, l>>) /= Bridge => board[b][l] = NewBoard /\ uart[b][l] = NewUart
      BY <2>1, <2>2 DEF ServerOK
    <3>4. CASE <<b, l>> # p
      BY <1>2, <1>3, <3>2, <3>3, <3>4
    <3>5. CASE <<b, l>> = p
      <4>1. p[1] = b /\ p[2] = l /\ printed' = [printed EXCEPT ![b][l] = pr]
        BY <3>5 DEF BoardChange
      <4>2. printed'[b][l] = pr
        BY <1>0, <4>1 DEF BoxesTypeOK
      <4>3. QED
        BY <1>2, <3>1, <3>2, <3>3, <3>5, <4>2
    <3>6. QED
      BY <3>4, <3>5
  <2>3. QED
    BY <1>2, <2>1, <2>2 DEF ServerOK
<1>5. ConnectionOK'
  BY <1>2 DEF IInv, ConnectionOK, Unready
<1>6. BoxStays
  BY <1>2 DEF BoxStays
<1>7. \A q \in Ports : PortKept(q)
  <2>1. ASSUME NEW q \in Ports, q # p PROVE PortKept(q)
    BY <1>1, <1>6, <2>1, SameKept
  <2>2. QED
    BY <2>1
<1>8. QED
  BY <1>1, <1>4, <1>5, <1>6, <1>7, BoxKeeps

\* A box without a client has powered its workers down.
LEMMA Asleep ==
  ASSUME IInv, NEW p \in Ports, server[p[1]] = "listen", IdOf(p) # Bridge
  PROVE  /\ uart[p[1]][p[2]].to = <<>> /\ board[p[1]][p[2]].respond = <<>>
         /\ board[p[1]][p[2]].send = <<>> /\ board[p[1]][p[2]].started = {}
         /\ board[p[1]][p[2]].offset = <<>>
<1>1. p[1] \in Boxes /\ p[2] \in Links /\ p = <<p[1], p[2]>>
  BY DEF Ports
<1>2. board[p[1]][p[2]] = NewBoard /\ uart[p[1]][p[2]] = NewUart
  BY <1>1 DEF IInv, ServerOK
<1>3. QED
  BY <1>2 DEF NewBoard, NewUart

\* The same, in terms of views.
Becomes(p, v2) ==
  /\ \A n \in Nat, g \in [Channels -> Nat] :
       Live(p[1], p[2], IdOf(p), View(p), n, g) => Live(p[1], p[2], IdOf(p), v2, n, g)
  /\ Lone(p[1], p[2], IdOf(p), View(p)) => Lone(p[1], p[2], IdOf(p), v2)
  /\ IdOf(p) = Bridge /\ Dormant(p[2], View(p)) => Dormant(p[2], v2)

\* A bridge that prints nothing, and is sent nothing else.
LEMMA DormantSame ==
  ASSUME NEW l, NEW v, NEW v2, v2.up = v.up, v2.bd.started = v.bd.started,
         v2.bd.send = v.bd.send, v2.pr = v.pr, Dormant(l, v)
  PROVE  Dormant(l, v2)
BY DEF Dormant

\* What PortKept asks, in terms of views.
LEMMA Kept ==
  ASSUME NEW p \in Ports, BoxStays, server'[p[1]] = server[p[1]], Becomes(p, View(p)')
  PROVE  PortKept(p)
<1>1. Loose(p)' <=> Loose(p)
  BY LooseStays
<1>2. Stale(p) => Stale(p)'
  BY <1>1 DEF Becomes, Stale, Loose
<1>3. QED
  BY <1>2 DEF Becomes, PortKept

\* A step of the board at p keeps the invariant when the board fits its commands and
\* streams after the step.
LEMMA StepKeeps ==
  ASSUME IInv, NEW p \in Ports, NEW bd \in BoardType, NEW ua \in UartType,
         NEW pr \in [Cores -> Nat], BoardChange(p[1], p[2], bd, ua, pr),
         server[p[1]] = "listen" => IdOf(p) = Bridge /\ pr = printed[p[1]][p[2]],
         \A v2 \in ViewType : Became(View(p), v2, bd, ua, pr) => Becomes(p, v2)
  PROVE  IInv'
<1>1. BoxesTypeOK
  BY DEF IInv, TypeOK
<1>2. BoxesTypeOK' /\ Became(View(p), View(p)', bd, ua, pr)
  BY <1>1, BoardViews
<1>3. View(p)' \in ViewType
  BY <1>2, ViewTyped
<1>4. Becomes(p, View(p)')
  BY <1>2, <1>3
<1>5. BoxStays /\ server'[p[1]] = server[p[1]]
  BY DEF BoardChange, BoxStays
<1>6. PortKept(p)
  BY <1>4, <1>5, Kept
<1>7. QED
  BY <1>6, BoardKeeps

\* What a command makes of a board.
LEMMA TakenType ==
  ASSUME NEW b \in Boxes, NEW l \in Links, NEW id \in {Bridge} \cup Identities,
         chain[b][l] = id, NEW up \in Seq(Packets), NEW buf \in BufferType,
         NEW ua \in UartType, NEW bd \in BoardType, NEW pr,
         NEW n \in Nat, NEW e \in Nat, NEW m \in Nat,
         Down(b, l, id, up, buf, ua, bd, n, e, m), Registers(b, id, bd, pr, e),
         Some(ua.to), ~ Some(bd.respond)
  PROVE  (IF Partly(Coming(bd, ua)) THEN [bd EXCEPT !.recv = Coming(bd, ua)]
          ELSE Exec(b, l, bd, Coming(bd, ua))) \in BoardType
<1>1. Coming(bd, ua) \in Seq(Int)
  <2>1. bd.recv \in Seq(Int) /\ ua.to \in Seq(Int) /\ ua.to # <<>>
    BY DEF BoardType, UartType, Some
  <2>2. QED
    BY <2>1 DEF Coming
<1>2. CASE Partly(Coming(bd, ua))
  <2>1. [bd EXCEPT !.recv = Coming(bd, ua)] \in BoardType
    BY <1>1 DEF BoardType
  <2>2. QED
    BY <1>2, <2>1
<1>3. CASE ~ Partly(Coming(bd, ua))
  <2> DEFINE ua2 == [ua EXCEPT !.to = Tail(@)]
             bd2 == [bd EXCEPT !.recv = <<>>]
  <2>0. Tail(ua.to) \in Seq(Int)
    <3>1. ua.to \in Seq(Int) /\ ua.to # <<>>
      BY DEF UartType, Some
    <3>2. QED
      BY <3>1
  <2>1. ua2 \in UartType /\ ua2.to = Tail(ua.to)
    BY <2>0 DEF UartType
  <2>2. bd2 \in BoardType /\ ~ Some(bd2.recv)
    BY DEF BoardType, Some
  <2> HIDE DEF ua2, bd2
  <2>3. Command(b, id, e, Coming(bd, ua))
    BY <1>3, <2>1, <2>2, DownWhole
  <2> DEFINE q == Exec(b, l, bd, Coming(bd, ua))
  <2>4. Does(b, l, bd, Coming(bd, ua), q)
    BY DEF Does
  <2> HIDE DEF q
  <2>5. q \in BoardType
    BY <2>3, <2>4, Executed
  <2>6. QED
    BY <1>3, <2>5 DEF q
<1>4. QED
  BY <1>2, <1>3

\* A board takes a byte.
LEMMA ReceiveKeeps ==
  ASSUME IInv, NEW b \in Boxes, NEW l \in Links, UartRecv(b, l),
         UNCHANGED <<ctrlVars, link, text>>
  PROVE  IInv'
<1> DEFINE p == <<b, l>>
           v == View(p)
           id == IdOf(p)
           x == Coming(v.bd, v.ua)
           bd2 == IF Len(x) < CommandSize(b, l, x[1]) THEN [v.bd EXCEPT !.recv = x]
                  ELSE Exec(b, l, v.bd, x)
           ua2 == [v.ua EXCEPT !.to = Tail(@)]
<1>1. p \in Ports /\ p[1] = b /\ p[2] = l
  BY DEF Ports
<1>2. BoxesTypeOK /\ ChainOK /\ PortsOK
  BY DEF IInv, TypeOK
<1>3. /\ v \in ViewType /\ v.bd = board[b][l] /\ v.ua = uart[b][l] /\ v.pr = printed[b][l]
      /\ v.bd \in BoardType /\ v.ua \in UartType /\ v.pr \in [Cores -> Nat]
      /\ v.up \in Seq(Packets) /\ v.buf \in BufferType
  BY <1>1, <1>2, ViewTyped DEF View, ViewType
<1>4. id \in {Bridge} \cup Identities /\ chain[b][l] = id
  BY <1>1, <1>2, IdTyped
<1>5. Some(v.ua.to) /\ ~ Some(v.bd.respond)
  BY <1>3 DEF UartRecv, Some
<1>6. ASSUME id # Bridge
      PROVE  \E n \in Nat, e \in Nat, m \in Nat :
        Down(b, l, id, v.up, v.buf, v.ua, v.bd, n, e, m) /\ Registers(b, id, v.bd, v.pr, e)
  BY <1>1, <1>2, <1>6, PortSound DEF Stale, Loose
<1>7. ua2 \in UartType /\ ua2.to = Tail(v.ua.to) /\ ua2.from = v.ua.from
  <2> HIDE DEF v
  <2>1. v.ua.to \in Seq(Int) /\ v.ua.to # <<>>
    BY <1>3, <1>5 DEF UartType, Some
  <2>2. Tail(v.ua.to) \in Seq(Int)
    BY <2>1
  <2>3. QED
    BY <1>3, <2>2 DEF UartType
<1>8. BoardChange(b, l, bd2, ua2, v.pr)
  <2>1. uart' = [uart EXCEPT ![b][l] = ua2]
    BY <1>2, <1>3 DEF UartRecv, BoxesTypeOK
  <2>2. printed' = [printed EXCEPT ![b][l] = v.pr]
    BY <1>2, <1>3 DEF UartRecv, BoxesTypeOK
  <2>3. board' = [board EXCEPT ![b][l] = bd2]
    BY <1>3 DEF UartRecv, Exec, Coming
  <2>4. QED
    BY <2>1, <2>2, <2>3 DEF UartRecv, BoardChange, ctrlVars
<1>9. server[b] = "listen" => id = Bridge /\ v.pr = printed[b][l]
  BY <1>1, <1>3, <1>5, Asleep DEF Some
<1> HIDE DEF p, v, id
<1>x. ASSUME NEW n \in Nat, NEW e \in Nat, NEW m \in Nat,
             Down(b, l, id, v.up, v.buf, v.ua, v.bd, n, e, m)
      PROVE  bd2 = IF Partly(x) THEN [v.bd EXCEPT !.recv = x] ELSE Exec(b, l, v.bd, x)
  <2>1. CommandSize(b, l, x[1]) = toDebugLinkSize(x[1])
    BY <1>3, <1>4, <1>5, <1>x, SizeKnown
  <2>2. QED
    BY <2>1 DEF Partly
<1>y. x \in Seq(Int)
  <2>1. v.bd.recv \in Seq(Int) /\ v.ua.to \in Seq(Int) /\ v.ua.to # <<>>
    BY <1>3, <1>5 DEF BoardType, UartType, Some
  <2>2. QED
    BY <2>1 DEF Coming
<1>z. ASSUME id = Bridge
      PROVE  /\ bd2 \in BoardType /\ bd2.started = v.bd.started /\ bd2.send = v.bd.send
  <2>1. IsBridge(b, l)
    BY <1>4, <1>z DEF IsBridge
  <2>2. /\ 1 + chain[b][l] = 0 /\ QueryOut(b, l) \in Seq(Int) /\ TempOut \in Seq(Int)
        /\ <<>> \in Seq(Int)
    BY <1>4, <1>z DEF QueryOut, TempOut, Temperature, QUERY, TEMP, Bridge
  <2> HIDE DEF x
  <2>3. /\ [v.bd EXCEPT !.recv = x] \in BoardType
        /\ [v.bd EXCEPT !.recv = x].started = v.bd.started
        /\ [v.bd EXCEPT !.recv = x].send = v.bd.send
    BY <1>3, <1>y DEF BoardType
  <2> DEFINE bd0 == [v.bd EXCEPT !.recv = <<>>]
             bd3 == BridgeExec(b, l, bd0, x)
  <2>4. bd0 \in BoardType /\ bd0.started = v.bd.started /\ bd0.send = v.bd.send
    BY <1>3, <2>2 DEF BoardType
  <2> HIDE DEF bd0
  <2>5. /\ bd3 \in BoardType /\ bd3.started = bd0.started /\ bd3.send = bd0.send
    <3>1. CASE x[1] = TEMP
      BY <2>2, <2>4, <3>1 DEF BridgeExec, BoardType
    <3>2. CASE x[1] # TEMP
      <4>1. bd3 = [bd0 EXCEPT !.respond = QueryOut(b, l), !.idle = @ \/ x[1] /= QUERY]
        BY <3>2 DEF BridgeExec
      <4>2. (bd0.idle \/ x[1] /= QUERY) \in BOOLEAN
        OBVIOUS
      <4>3. QED
        BY <2>2, <2>4, <4>1, <4>2 DEF BoardType
    <3>3. QED
      BY <3>1, <3>2
  <2>6. Exec(b, l, v.bd, x) = bd3
    BY <2>1 DEF Exec, bd0
  <2> HIDE DEF bd3
  <2>7. QED
    BY <2>3, <2>4, <2>5, <2>6
<1>10. bd2 \in BoardType
  <2>1. CASE id = Bridge
    BY <1>z, <2>1
  <2>2. CASE id # Bridge
    <3>1. PICK n \in Nat, e \in Nat, m \in Nat :
            Down(b, l, id, v.up, v.buf, v.ua, v.bd, n, e, m) /\ Registers(b, id, v.bd, v.pr, e)
      BY <1>6, <2>2
    <3>2. bd2 = IF Partly(x) THEN [v.bd EXCEPT !.recv = x] ELSE Exec(b, l, v.bd, x)
      BY <1>x, <3>1
    <3> HIDE DEF bd2
    <3>3. QED
      BY <1>3, <1>4, <1>5, <3>1, <3>2, TakenType
  <2>3. QED
    BY <2>1, <2>2
<1>11. ASSUME NEW v2 \in ViewType, Became(v, v2, bd2, ua2, v.pr)
       PROVE  Becomes(p, v2)
  <2>1. /\ v2.up = v.up /\ v2.down = v.down /\ v2.at = v.at /\ v2.buf = v.buf
        /\ v2.pr = v.pr /\ v2.bd = bd2 /\ v2.ua = ua2
    BY <1>11 DEF Became
  <2>2. ASSUME NEW n \in Nat, NEW e \in Nat, NEW m \in Nat,
               Down(b, l, id, v.up, v.buf, v.ua, v.bd, n, e, m)
        PROVE  Taking(b, l, v, v2)
    <3>1. bd2 = IF Partly(x) THEN [v.bd EXCEPT !.recv = x] ELSE Exec(b, l, v.bd, x)
      BY <1>x, <2>2
    <3> HIDE DEF bd2
    <3>2. QED
      BY <1>5, <1>7, <2>1, <3>1 DEF Taking
  <2> HIDE DEF bd2, ua2
  <2>3. ASSUME NEW n \in Nat, NEW g \in [Channels -> Nat], Live(b, l, id, v, n, g)
        PROVE  Live(b, l, id, v2, n, g)
    <3>1. Taking(b, l, v, v2)
      BY <2>2, <2>3 DEF Live
    <3>2. QED
      BY <1>3, <1>4, <2>1, <2>3, <3>1, LiveTaken
  <2>4. ASSUME Lone(b, l, id, v) PROVE Lone(b, l, id, v2)
    <3>1. Taking(b, l, v, v2)
      BY <2>2, <2>4 DEF Lone
    <3>2. QED
      BY <1>3, <1>4, <2>1, <2>4, <3>1, LoneTaken
  <2>5. ASSUME id = Bridge, Dormant(l, v) PROVE Dormant(l, v2)
    BY <1>z, <2>1, <2>5, DormantSame
  <2>6. QED
    BY <1>1, <2>3, <2>4, <2>5 DEF Becomes, v, id
<1> HIDE DEF bd2, ua2
<1>12. QED
  BY <1>1, <1>3, <1>7, <1>8, <1>9, <1>10, <1>11, StepKeeps DEF v, id

\* A board sends a byte of a reply, or of a character's packet.
LEMMA SaysKeeps ==
  ASSUME IInv, NEW b \in Boxes, NEW l \in Links,
         SendReply(b, l) \/ ContinueStdOut(b, l), UNCHANGED <<ctrlVars, link, text>>
  PROVE  IInv'
<1> DEFINE p == <<b, l>>
           v == View(p)
           id == IdOf(p)
<1>1. p \in Ports /\ p[1] = b /\ p[2] = l
  BY DEF Ports
<1>2. BoxesTypeOK /\ ChainOK /\ PortsOK
  BY DEF IInv, TypeOK
<1>3. /\ v \in ViewType /\ v.bd = board[b][l] /\ v.ua = uart[b][l] /\ v.pr = printed[b][l]
      /\ v.bd \in BoardType /\ v.ua \in UartType /\ v.pr \in [Cores -> Nat]
  BY <1>1, <1>2, ViewTyped DEF View, ViewType
<1>4. id \in {Bridge} \cup Identities /\ chain[b][l] = id
  BY <1>1, <1>2, IdTyped
<1>5. printed' = [printed EXCEPT ![b][l] = v.pr]
  BY <1>2, <1>3 DEF SendReply, ContinueStdOut, BoxesTypeOK
<1>6. server[b] = "listen" => id = Bridge /\ v.pr = printed[b][l]
  <2>1. v.bd.respond # <<>> \/ v.bd.send # <<>>
    <3>1. CASE SendReply(b, l)
      BY <1>3, <3>1 DEF SendReply
    <3>2. CASE ContinueStdOut(b, l)
      BY <1>3, <3>2 DEF ContinueStdOut
    <3>3. QED
      BY <3>1, <3>2
  <2>2. QED
    BY <1>1, <1>3, <2>1, Asleep
<1>7. /\ v.bd.respond \in Seq(Int) /\ v.bd.send \in Seq(Int) /\ v.ua.from \in Seq(Int)
      /\ v.ua.to \in Seq(Int)
  <2> HIDE DEF v
  <2>1. QED
    BY <1>3 DEF BoardType, UartType
<1>8. ASSUME NEW bd2 \in BoardType, NEW h \in Int, NEW ua2,
             ua2 = [v.ua EXCEPT !.from = Append(@, h)],
             board' = [board EXCEPT ![b][l] = bd2], uart' = [uart EXCEPT ![b][l] = ua2],
             id = Bridge => bd2.started = v.bd.started /\ bd2.send = v.bd.send,
             \A v2 \in ViewType : Became(v, v2, bd2, ua2, v.pr) =>
               Replying(v, v2) \/ Continuing(v, v2)
      PROVE  IInv'
  <2>1. ua2 \in UartType
    <3> HIDE DEF v
    <3>1. Append(v.ua.from, h) \in Seq(Int)
      BY <1>7, <1>8
    <3>2. QED
      BY <1>3, <1>8, <3>1 DEF UartType
  <2>2. BoardChange(b, l, bd2, ua2, v.pr)
    BY <1>5, <1>8 DEF SendReply, ContinueStdOut, BoardChange, ctrlVars
  <2> HIDE DEF p, v, id
  <2>3. ASSUME NEW v2 \in ViewType, Became(v, v2, bd2, ua2, v.pr)
        PROVE  Becomes(p, v2)
    <3>1. /\ v2.up = v.up /\ v2.down = v.down /\ v2.at = v.at /\ v2.buf = v.buf
          /\ v2.pr = v.pr /\ v2.bd = bd2
      BY <2>3 DEF Became
    <3>2. Replying(v, v2) \/ Continuing(v, v2)
      BY <1>8, <2>3
    <3>3. ASSUME NEW n \in Nat, NEW g \in [Channels -> Nat], Live(b, l, id, v, n, g)
          PROVE  Live(b, l, id, v2, n, g)
      BY <1>3, <1>4, <3>1, <3>2, <3>3, LiveSaid
    <3>4. ASSUME Lone(b, l, id, v) PROVE Lone(b, l, id, v2)
      BY <1>3, <1>4, <3>1, <3>2, <3>4, LoneSaid
    <3>5. ASSUME id = Bridge, Dormant(l, v) PROVE Dormant(l, v2)
      BY <1>8, <3>1, <3>5, DormantSame
    <3>6. QED
      BY <1>1, <3>3, <3>4, <3>5 DEF Becomes, v, id
  <2>4. QED
    BY <1>1, <1>3, <1>6, <1>8, <2>1, <2>2, <2>3, StepKeeps DEF v, id
<1>m. id = Bridge => v.bd.send = <<>>
  BY <1>1, <1>2, BridgeMute
<1>9. CASE SendReply(b, l)
  <2> DEFINE r == v.bd.respond
             whole == Len(r) = 2 /\ v.bd.send = <<>>
             h == IF whole THEN r[1] ELSE r[Len(r)]
             ua2 == [v.ua EXCEPT !.from = Append(@, h)]
             bd2 == IF whole THEN [v.bd EXCEPT !.respond = Tail(@)]
                    ELSE [v.bd EXCEPT !.respond = <<>>, !.send = <<>>]
  <2>1. r # <<>> /\ r \in Seq(Int)
    BY <1>3, <1>7, <1>9 DEF SendReply
  <2>2. Len(r) \in Nat \ {0} /\ r[1] \in Int /\ r[Len(r)] \in Int /\ Tail(r) \in Seq(Int)
    <3> HIDE DEF v
    <3>1. QED
      BY <2>1
  <2>3. h \in Int
    BY <2>2
  <2>4. bd2 \in BoardType
    <3> HIDE DEF v
    <3>1. [v.bd EXCEPT !.respond = Tail(@)] \in BoardType
      BY <1>3, <2>2 DEF BoardType
    <3> DEFINE none == <<>>
    <3>2a. none \in Seq(Int)
      OBVIOUS
    <3> HIDE DEF none
    <3>2b. [v.bd EXCEPT !.respond = none, !.send = none] \in BoardType
      BY <1>3, <3>2a DEF BoardType
    <3>2. [v.bd EXCEPT !.respond = <<>>, !.send = <<>>] \in BoardType
      BY <3>2b DEF none
    <3>3. QED
      BY <3>1, <3>2
  <2>5. board' = [board EXCEPT ![b][l] = bd2]
    BY <1>3, <1>9 DEF SendReply
  <2>6. uart' = [uart EXCEPT ![b][l] = ua2]
    BY <1>2, <1>3, <1>9 DEF SendReply, BoxesTypeOK
  <2>7. ASSUME NEW v2 \in ViewType, Became(v, v2, bd2, ua2, v.pr)
        PROVE  Replying(v, v2)
    <3> HIDE DEF v
    <3>1. v2.bd = bd2 /\ v2.ua = ua2
      BY <2>7 DEF Became
    <3>2. v2.ua.from = Append(v.ua.from, h) /\ v2.ua.to = v.ua.to
      BY <1>3, <3>1 DEF UartType
    <3>3. QED
      BY <2>1, <3>1, <3>2 DEF Replying, Some
  <2>a. id = Bridge => bd2.started = v.bd.started /\ bd2.send = v.bd.send
    <3> HIDE DEF v, id, r
    <3>1. QED
      BY <1>3, <1>m DEF BoardType
  <2> HIDE DEF bd2, h
  <2>8. QED
    BY <1>8, <2>3, <2>4, <2>5, <2>6, <2>7, <2>a
<1>10. CASE ContinueStdOut(b, l)
  <2> DEFINE r == v.bd.send
             h == Head(r)
             ua2 == [v.ua EXCEPT !.from = Append(@, h)]
             bd2 == [v.bd EXCEPT !.send = Tail(@)]
  <2>1. r # <<>> /\ r \in Seq(Int) /\ v.bd.respond = <<>>
    BY <1>3, <1>7, <1>10 DEF ContinueStdOut
  <2>2. Head(r) \in Int /\ Tail(r) \in Seq(Int)
    <3> HIDE DEF v
    <3>1. QED
      BY <2>1
  <2>4. bd2 \in BoardType
    <3> HIDE DEF v
    <3>1. QED
      BY <1>3, <2>2 DEF BoardType
  <2>5. board' = [board EXCEPT ![b][l] = bd2]
    BY <1>2, <1>3, <1>10 DEF ContinueStdOut, BoxesTypeOK
  <2>6. uart' = [uart EXCEPT ![b][l] = ua2]
    BY <1>2, <1>3, <1>10 DEF ContinueStdOut, BoxesTypeOK
  <2>7. ASSUME NEW v2 \in ViewType, Became(v, v2, bd2, ua2, v.pr)
        PROVE  Continuing(v, v2)
    <3> HIDE DEF v
    <3>1. v2.bd = bd2 /\ v2.ua = ua2
      BY <2>7 DEF Became
    <3>2. v2.ua.from = Append(v.ua.from, h) /\ v2.ua.to = v.ua.to
      BY <1>3, <3>1 DEF UartType
    <3>3. QED
      BY <2>1, <3>1, <3>2 DEF Continuing, Some
  <2>a. id # Bridge
    BY <1>m, <2>1
  <2> HIDE DEF bd2, h
  <2>8. QED
    BY <1>8, <2>2, <2>4, <2>5, <2>6, <2>7, <2>a DEF h
<1>11. QED
  BY <1>9, <1>10

\* A board begins the packet of a character.
LEMMA PrintKeeps ==
  ASSUME IInv, NEW b \in Boxes, NEW l \in Links, NEW c \in Cores, BeginStdOut(b, l, c),
         UNCHANGED <<ctrlVars, link, text>>
  PROVE  IInv'
<1> DEFINE p == <<b, l>>
           v == View(p)
           id == IdOf(p)
           k == Text(b, l, c)[v.pr[c] + 1]
           bd2 == [v.bd EXCEPT !.send = <<0, c, k>>]
           ua2 == [v.ua EXCEPT !.from = Append(@, STD)]
           pr2 == [v.pr EXCEPT ![c] = @ + 1]
<1>1. p \in Ports /\ p[1] = b /\ p[2] = l
  BY DEF Ports
<1>2. BoxesTypeOK /\ ChainOK /\ PortsOK
  BY DEF IInv, TypeOK
<1>3. /\ v \in ViewType /\ v.bd = board[b][l] /\ v.ua = uart[b][l] /\ v.pr = printed[b][l]
      /\ v.bd \in BoardType /\ v.ua \in UartType /\ v.pr \in [Cores -> Nat]
  BY <1>1, <1>2, ViewTyped DEF View, ViewType
<1>4. id \in {Bridge} \cup Identities /\ chain[b][l] = id
  BY <1>1, <1>2, IdTyped
<1>5. /\ v.bd.respond = <<>> /\ v.bd.send = <<>> /\ c \in v.bd.started
      /\ v.pr[c] < Len(Text(b, l, c))
  BY <1>3 DEF BeginStdOut
<1>m. id # Bridge
  BY <1>1, <1>2, <1>5, BridgeMute
<1>6. server[b] # "listen"
  BY <1>1, <1>3, <1>5, <1>m, Asleep
<1>7. BoardChange(b, l, bd2, ua2, pr2)
  <2>1. board' = [board EXCEPT ![b][l] = bd2]
    BY <1>2, <1>3 DEF BeginStdOut, BoxesTypeOK
  <2>2. uart' = [uart EXCEPT ![b][l] = ua2]
    BY <1>2, <1>3 DEF BeginStdOut, BoxesTypeOK
  <2>3. printed' = [printed EXCEPT ![b][l] = pr2]
    BY <1>2, <1>3 DEF BeginStdOut, BoxesTypeOK
  <2>4. QED
    BY <2>1, <2>2, <2>3 DEF BeginStdOut, BoardChange, ctrlVars
<1> HIDE DEF p, v, id
<1>8. bd2 \in BoardType /\ ua2 \in UartType /\ pr2 \in [Cores -> Nat]
  <2>1. <<0, c, k>> \in Seq(Int)
    <3>1. c \in Int /\ v.pr[c] \in Nat
      BY <1>3, Shape DEF Cores
    <3>2. /\ Text(b, l, c) = <<Text(b, l, c)[1], Text(b, l, c)[2]>>
          /\ Text(b, l, c)[1] \in Int /\ Text(b, l, c)[2] \in Int
      BY <3>1, Shape DEF Text, Boxes, NEWLINE
    <3>3. k \in Int
      <4> DEFINE t == Text(b, l, c)
      <4>1. Len(t) = 2 /\ t[1] \in Int /\ t[2] \in Int
        BY <3>2
      <4>2. v.pr[c] < Len(t)
        BY <1>5
      <4> HIDE DEF t
      <4>3. \A i \in Nat : i < 2 => i + 1 = 1 \/ i + 1 = 2
        OBVIOUS
      <4>4. v.pr[c] + 1 = 1 \/ v.pr[c] + 1 = 2
        BY <3>1, <4>1, <4>2, <4>3
      <4>5. t[v.pr[c] + 1] \in Int
        BY <4>1, <4>4
      <4>6. QED
        BY <4>5 DEF t
    <3>4. QED
      BY <3>1, <3>3
  <2>2. bd2 \in BoardType
    BY <1>3, <2>1 DEF BoardType
  <2>3. Append(v.ua.from, STD) \in Seq(Int)
    BY <1>3 DEF UartType, STD
  <2>4. ua2 \in UartType
    BY <1>3, <2>3 DEF UartType
  <2>5. pr2 \in [Cores -> Nat]
    BY <1>3
  <2>6. QED
    BY <2>2, <2>4, <2>5
<1>9. ASSUME NEW v2 \in ViewType, Became(v, v2, bd2, ua2, pr2)
      PROVE  Becomes(p, v2)
  <2>1. /\ v2.up = v.up /\ v2.down = v.down /\ v2.at = v.at /\ v2.buf = v.buf
        /\ v2.bd = bd2 /\ v2.ua = ua2 /\ v2.pr = pr2
    BY <1>9 DEF Became
  <2>2. v2.ua.from = Append(v.ua.from, STD) /\ v2.ua.to = v.ua.to
    BY <1>3, <2>1 DEF UartType
  <2>3. Printing(b, l, c, v, v2)
    BY <1>5, <2>1, <2>2 DEF Printing, Some
  <2> HIDE DEF bd2, ua2, pr2
  <2>4. ASSUME NEW n \in Nat, NEW g \in [Channels -> Nat], Live(b, l, id, v, n, g)
        PROVE  Live(b, l, id, v2, n, g)
    BY <1>3, <1>4, <2>1, <2>3, <2>4, LivePrint
  <2>5. ASSUME Lone(b, l, id, v) PROVE Lone(b, l, id, v2)
    BY <1>3, <1>4, <2>1, <2>3, <2>5, LonePrint
  <2>6. QED
    BY <1>1, <1>m, <2>4, <2>5 DEF Becomes, v, id
<1> HIDE DEF bd2, ua2, pr2
<1>10. QED
  BY <1>1, <1>6, <1>7, <1>8, <1>9, StepKeeps DEF v

\* A board gets too hot.
LEMMA HeatKeeps ==
  ASSUME IInv, NEW b \in Boxes, NEW l \in Links, Overheat(b, l),
         UNCHANGED <<ctrlVars, link, text>>
  PROVE  IInv'
<1> DEFINE p == <<b, l>>
           v == View(p)
           id == IdOf(p)
           bd2 == [v.bd EXCEPT !.hot = TRUE]
           ua2 == [v.ua EXCEPT !.from = Append(@, OVERHEAT)]
<1>1. p \in Ports /\ p[1] = b /\ p[2] = l
  BY DEF Ports
<1>2. BoxesTypeOK /\ ChainOK /\ PortsOK
  BY DEF IInv, TypeOK
<1>3. /\ v \in ViewType /\ v.bd = board[b][l] /\ v.ua = uart[b][l] /\ v.pr = printed[b][l]
      /\ v.bd \in BoardType /\ v.ua \in UartType /\ v.pr \in [Cores -> Nat]
  BY <1>1, <1>2, ViewTyped DEF View, ViewType
<1>4. id \in Identities /\ id # Bridge /\ chain[b][l] = id
  BY <1>1, <1>2, IdTyped DEF Overheat
<1>5. v.bd.respond = <<>> /\ v.bd.send = <<>> /\ v.bd.offset # <<>>
  BY <1>3 DEF Overheat
<1>6. server[b] # "listen"
  BY <1>1, <1>3, <1>4, <1>5, Asleep
<1>7. BoardChange(b, l, bd2, ua2, v.pr)
  <2>1. board' = [board EXCEPT ![b][l] = bd2]
    BY <1>2, <1>3 DEF Overheat, BoxesTypeOK
  <2>2. uart' = [uart EXCEPT ![b][l] = ua2]
    BY <1>2, <1>3 DEF Overheat, BoxesTypeOK
  <2>3. printed' = [printed EXCEPT ![b][l] = v.pr]
    BY <1>2, <1>3 DEF Overheat, BoxesTypeOK
  <2>4. QED
    BY <2>1, <2>2, <2>3 DEF Overheat, BoardChange, ctrlVars
<1> HIDE DEF p, v, id
<1>8. bd2 \in BoardType /\ ua2 \in UartType
  <2>2. bd2 \in BoardType
    BY <1>3 DEF BoardType
  <2>3. Append(v.ua.from, OVERHEAT) \in Seq(Int)
    BY <1>3 DEF UartType, OVERHEAT
  <2>4. ua2 \in UartType
    BY <1>3, <2>3 DEF UartType
  <2>6. QED
    BY <2>2, <2>4
<1>9. ASSUME NEW v2 \in ViewType, Became(v, v2, bd2, ua2, v.pr)
      PROVE  Becomes(p, v2)
  <2>1. /\ v2.up = v.up /\ v2.down = v.down /\ v2.at = v.at /\ v2.buf = v.buf
        /\ v2.bd = bd2 /\ v2.ua = ua2 /\ v2.pr = v.pr
    BY <1>9 DEF Became
  <2>2. v2.ua.from = Append(v.ua.from, OVERHEAT) /\ v2.ua.to = v.ua.to
    BY <1>3, <2>1 DEF UartType
  <2>3. Heating(v, v2)
    BY <1>5, <2>1, <2>2 DEF Heating, Some
  <2> HIDE DEF bd2, ua2
  <2>4. ASSUME NEW n \in Nat, NEW g \in [Channels -> Nat], Live(b, l, id, v, n, g)
        PROVE  Live(b, l, id, v2, n, g)
    BY <1>3, <1>4, <2>1, <2>3, <2>4, LiveHeat
  <2>5. ASSUME Lone(b, l, id, v) PROVE Lone(b, l, id, v2)
    BY <1>3, <1>4, <2>1, <2>3, <2>5, LoneHeat
  <2>6. QED
    BY <1>1, <1>4, <2>4, <2>5 DEF Becomes, v, id
<1> HIDE DEF bd2, ua2
<1>10. QED
  BY <1>1, <1>3, <1>6, <1>7, <1>8, <1>9, StepKeeps DEF v

\* The other boxes stay as they are.
OthersStay(b) ==
  \A c \in Boxes : c # b =>
    /\ tcp'[c] = tcp[c] /\ server'[c] = server[c] /\ buffer'[c] = buffer[c]
    /\ board'[c] = board[c] /\ uart'[c] = uart[c] /\ printed'[c] = printed[c]

\* What ServerOK and ConnectionOK say of one box.
BoxFine(b) ==
  /\ tcp[b].client <=> b \in link.conn
  /\ b \in link.conn => server[b] \in {"power", "serve"}
  /\ server[b] \in {"listen", "power"} => tcp[b].up = <<>>
  /\ server[b] = "listen" =>
       \A l \in Links :
         /\ buffer[b][l] = NewBuffer /\ printed[b][l] = NothingPrinted
         /\ IdOf(<<b, l>>) /= Bridge => board[b][l] = NewBoard /\ uart[b][l] = NewUart

\* What ServerOK says of a box's line and its boards.
LineFine(b) ==
  /\ server[b] = "power" => Unready(b) /\ tcp[b].down = <<>>
  /\ server[b] = "serve" /\ Unready(b) => tcp[b].down /= <<>>
  /\ \A i \in 1 .. Len(tcp[b].down) :
       IF i = 1 /\ Unready(b) THEN tcp[b].down[i] = Packet(0, <<READY>>)
       ELSE ChannelOf(tcp[b].down[i].bytes) \in Channels

\* ServerOK, one box at a time.
LEMMA Fine ==
  /\ ServerOK => \A b \in Boxes : BoxFine(b)
  /\ ConnectionOK <=> \A b \in link.conn : LineFine(b)
  /\ ConnectionOK' <=> \A b \in link'.conn : LineFine(b)'
<1>1. ServerOK => \A b \in Boxes : BoxFine(b)
  BY DEF ServerOK, BoxFine
<1>2. ConnectionOK <=> \A b \in link.conn : LineFine(b)
  BY DEF ConnectionOK, LineFine
<1>3. ConnectionOK' <=> \A b \in link'.conn : LineFine(b)'
  BY DEF ConnectionOK, LineFine
<1>4. QED
  BY <1>1, <1>2, <1>3

\* A step of one box keeps the invariant, if it does for the box and its boards.
LEMMA OneBox ==
  ASSUME IInv, NEW b \in Boxes, BoxStays, OthersStay(b), BoxesTypeOK', BoxFine(b)',
         b \in link.conn => LineFine(b)', \A l \in Links : PortKept(<<b, l>>)
  PROVE  IInv'
<1>0. ServerOK /\ ConnectionOK /\ link' = link /\ chain' = chain /\ LinkTypeOK
  BY DEF IInv, TypeOK, BoxStays
<1>1. \A c \in Boxes : BoxFine(c)'
  <2>1. ASSUME NEW c \in Boxes, c # b
        PROVE  BoxFine(c)'
    <3>1. BoxFine(c)
      BY <1>0, Fine
    <3>2. \A l : IdOf(<<c, l>>)' = IdOf(<<c, l>>)
      BY <1>0 DEF IdOf
    <3>3. /\ tcp'[c] = tcp[c] /\ server'[c] = server[c] /\ buffer'[c] = buffer[c]
          /\ board'[c] = board[c] /\ uart'[c] = uart[c] /\ printed'[c] = printed[c]
      BY <2>1 DEF OthersStay
    <3>4. QED
      BY <1>0, <3>1, <3>2, <3>3 DEF BoxFine
  <2>2. QED
    BY <2>1
<1>2. ServerOK'
  BY <1>0, <1>1 DEF ServerOK, BoxFine
<1>3. link.conn \subseteq Boxes
  BY <1>0 DEF LinkTypeOK
<1>4. ASSUME NEW c \in link.conn PROVE LineFine(c)'
  <2>1. CASE c = b
    BY <1>4, <2>1
  <2>2. CASE c # b
    <3>1. LineFine(c)
      BY <1>0, Fine
    <3>2. tcp'[c] = tcp[c] /\ server'[c] = server[c] /\ (Unready(c)' <=> Unready(c))
      BY <1>0, <1>3, <2>2 DEF OthersStay, Unready
    <3>3. QED
      BY <3>1, <3>2 DEF LineFine
  <2>3. QED
    BY <2>1, <2>2
<1>5. ConnectionOK'
  BY <1>0, <1>4, Fine
<1>6. ASSUME NEW p \in Ports PROVE PortKept(p)
  <2>1. p[1] \in Boxes /\ p[2] \in Links /\ p = <<p[1], p[2]>>
    BY DEF Ports
  <2>2. CASE p[1] = b
    BY <2>1, <2>2
  <2>3. CASE p[1] # b
    <3>1. View(p)' = View(p)
      BY <2>1, <2>3 DEF OthersStay, View
    <3>2. QED
      BY <3>1, SameKept
  <2>4. QED
    BY <2>2, <2>3
<1>7. QED
  BY <1>2, <1>5, <1>6, BoxKeeps

\* The client's packets are taken, in order.
LEMMA FromClientKeeps ==
  ASSUME IInv, NEW b \in Boxes, FromClient(b), UNCHANGED <<link, text>>
  PROVE  IInv'
<1> DEFINE pkt == Head(tcp[b].up)
           k == pkt.link
           y == SubSeq(pkt.bytes, 1, toDebugLinkSize(pkt.bytes[1]))
<1>0. BoxesTypeOK /\ ChainOK /\ PortsOK /\ ServerOK /\ ConnectionOK
  BY DEF IInv, TypeOK
<1>1. /\ tcp[b].up \in Seq(Packets) /\ tcp[b].up # <<>> /\ pkt \in Packets /\ k \in Links
      /\ Tail(tcp[b].up) \in Seq(Packets)
  <2> DEFINE u == tcp[b].up
  <2>1. u \in Seq(Packets) /\ u # <<>>
    BY <1>0 DEF BoxesTypeOK, FromClient
  <2> HIDE DEF u
  <2>2. Head(u) \in Packets /\ Tail(u) \in Seq(Packets)
    BY <2>1
  <2>3. Head(u).link \in Links
    BY <2>2 DEF Packets
  <2>4. QED
    BY <2>1, <2>2, <2>3 DEF u
<1>2. y \in Seq(Int)
  <2> DEFINE p == <<b, k>>
             v == View(p)
             id == IdOf(p)
  <2>1. p \in Ports /\ p[1] = b /\ p[2] = k
    BY <1>1 DEF Ports
  <2>2. v \in ViewType /\ v.up = tcp[b].up
    BY <1>0, <2>1, ViewTyped DEF View
  <2>3. \/ \E n \in Nat, e \in Nat, m \in Nat :
               Down(b, k, id, v.up, v.buf, v.ua, v.bd, n, e, m)
        \/ Dormant(k, v)
    BY <1>0, <2>1, PortSound DEF Stale
  <2>4. /\ v.up \in Seq(Packets) /\ v.buf \in BufferType /\ v.ua \in UartType
        /\ v.bd \in BoardType
    <3> HIDE DEF v
    <3>1. QED
      BY <2>2 DEF ViewType
  <2>5. v.up # <<>> /\ Head(v.up).link = k
    BY <1>1, <2>2
  <2> HIDE DEF v, id, p
  <2>6. LET x == Head(v.up).bytes
            z == SubSeq(x, 1, toDebugLinkSize(x[1])) IN z \in Seq(Int)
    <3>1. CASE \E n \in Nat, e \in Nat, m \in Nat :
                 Down(b, k, id, v.up, v.buf, v.ua, v.bd, n, e, m)
      BY <1>1, <2>4, <2>5, <3>1, DownForward
    <3>2. CASE Dormant(k, v)
      <4> DEFINE u == v.up
      <4>1. u \in Seq(Packets) /\ u # <<>> /\ Head(u).link = k
        BY <2>4, <2>5
      <4>2. \A j \in OnLink(u, k) : ToBridge(u[j].bytes)
        BY <3>2 DEF Dormant
      <4> HIDE DEF u
      <4>3. Head(u) = u[1] /\ 1 \in 1 .. Len(u) /\ Head(u) \in Packets
        BY <4>1
      <4> DEFINE x == Head(u).bytes
      <4>4. ToBridge(x) /\ x \in Seq(Int)
        BY <4>1, <4>2, <4>3 DEF OnLink, Packets
      <4> HIDE DEF x
      <4>5. toDebugLinkSize(x[1]) \in {1, 3}
        BY <4>4, Codes DEF BridgeCodes, ToBridge
      <4>6. toDebugLinkSize(x[1]) \in Nat /\ Len(x) = toDebugLinkSize(x[1])
        BY <4>4, <4>5 DEF ToBridge
      <4>7. SubSeq(x, 1, toDebugLinkSize(x[1])) \in Seq(Int)
        <5> DEFINE s == toDebugLinkSize(x[1])
        <5>1. s \in Nat /\ Len(x) = s
          BY <4>6
        <5> HIDE DEF s
        <5>2. SubSeq(x, 1, s) \in Seq(Int)
          BY <4>4, <5>1
        <5>3. QED
          BY <5>2 DEF s
      <4>8. QED
        BY <4>7 DEF x, u
    <3>3. QED
      BY <2>3, <3>1, <3>2
  <2>7. QED
    BY <2>2, <2>6
<1>3. /\ tcp' = [tcp EXCEPT ![b] = [tcp[b] EXCEPT !.up = Tail(@)]]
      /\ buffer' = [buffer EXCEPT ![b][k] = [buffer[b][k] EXCEPT !.out = @ \o y]]
      /\ server' = server /\ chain' = chain /\ board' = board /\ uart' = uart
      /\ printed' = printed /\ server[b] = "serve"
  BY <1>0, <1>1 DEF FromClient, boardVars, BoxesTypeOK
<1> HIDE DEF y, pkt, k
<1>3a. /\ buffer[b][k] \in BufferType
       /\ tcp[b] \in [client : BOOLEAN, up : Seq(Packets), down : Seq(Packets)]
  BY <1>0, <1>1 DEF BoxesTypeOK
<1>3b. buffer[b][k].out \o y \in Seq(Int)
  BY <1>2, <1>3a DEF BufferType
<1>3c. /\ [buffer[b][k] EXCEPT !.out = @ \o y] \in BufferType
       /\ [tcp[b] EXCEPT !.up = Tail(@)]
            \in [client : BOOLEAN, up : Seq(Packets), down : Seq(Packets)]
  BY <1>1, <1>3a, <1>3b DEF BufferType
<1>4. BoxesTypeOK'
  BY <1>0, <1>1, <1>3, <1>3c DEF BoxesTypeOK
<1>5. OthersStay(b)
  BY <1>0, <1>3 DEF OthersStay, BoxesTypeOK
<1>6. /\ tcp'[b].client = tcp[b].client /\ tcp'[b].up = Tail(tcp[b].up)
      /\ tcp'[b].down = tcp[b].down
  BY <1>0, <1>3, <1>3a DEF BoxesTypeOK
<1>7. BoxFine(b)'
  <2>1. BoxFine(b)
    BY <1>0, Fine
  <2>2. QED
    BY <1>3, <1>6, <2>1 DEF BoxFine
<1>8. b \in link.conn => LineFine(b)'
  <2>1. b \in link.conn => LineFine(b)
    BY <1>0, Fine
  <2>2. Unready(b)' <=> Unready(b)
    BY DEF Unready
  <2>3. QED
    BY <1>3, <1>6, <2>1, <2>2 DEF LineFine
<1>9. ASSUME NEW l \in Links PROVE PortKept(<<b, l>>)
  <2> DEFINE p == <<b, l>>
             v == View(p)
             v2 == View(p)'
             id == IdOf(p)
  <2>1. p \in Ports /\ p[1] = b /\ p[2] = l
    BY DEF Ports
  <2>2. v \in ViewType /\ v2 \in ViewType
    BY <1>0, <1>4, <2>1, ViewTyped
  <2>3. id \in {Bridge} \cup Identities
    BY <1>0, <2>1, IdTyped
  <2>4. /\ v.up = tcp[b].up /\ v2.up = Tail(v.up) /\ v2.down = v.down /\ v2.at = v.at
        /\ v2.ua = v.ua /\ v2.bd = v.bd /\ v2.pr = v.pr
    BY <1>3, <1>6 DEF View
  <2>5. l # k => v2.buf = v.buf
    BY <1>0, <1>1, <1>3 DEF View, BoxesTypeOK
  <2>6. l = k => v2.buf.in = v.buf.in /\ v2.buf.out = v.buf.out \o y
    BY <1>0, <1>1, <1>3, <1>3a DEF View, BoxesTypeOK, BufferType
  <2>7. Some(v.up) /\ Head(v.up) = pkt
    BY <1>1, <2>4 DEF Some, pkt
  <2> HIDE DEF v, v2, id, p
  <2>8. /\ Head(v.up).link # l => v2.buf = v.buf
        /\ Head(v.up).link = l => /\ v2.buf.in = v.buf.in
             /\ v2.buf.out = v.buf.out \o
                  SubSeq(Head(v.up).bytes, 1, toDebugLinkSize(Head(v.up).bytes[1]))
    BY <2>5, <2>6, <2>7 DEF k, y
  <2>9. ASSUME NEW n \in Nat, NEW g \in [Channels -> Nat], Live(b, l, id, v, n, g)
        PROVE  Live(b, l, id, v2, n, g)
    BY <2>2, <2>3, <2>4, <2>7, <2>8, <2>9, LiveForward
  <2>10. ASSUME Lone(b, l, id, v) PROVE Lone(b, l, id, v2)
    BY <2>2, <2>3, <2>4, <2>7, <2>8, <2>10, LoneForward
  <2>a. ASSUME Dormant(l, v) PROVE Dormant(l, v2)
    <3> DEFINE u == v.up
    <3>1. u \in Seq(Packets) /\ u # <<>> /\ v2.up = Tail(u)
      BY <2>2, <2>4, <2>7 DEF ViewType, Some
    <3>2. \A j \in OnLink(u, l) : ToBridge(u[j].bytes)
      BY <2>a DEF Dormant
    <3> HIDE DEF u
    <3>3. ASSUME NEW j \in OnLink(Tail(u), l) PROVE ToBridge(Tail(u)[j].bytes)
      <4>1. j \in 1 .. Len(Tail(u)) /\ Tail(u)[j].link = l
        BY <3>3 DEF OnLink
      <4>2. j + 1 \in 1 .. Len(u) /\ Tail(u)[j] = u[j + 1]
        BY <3>1, <4>1
      <4>3. j + 1 \in OnLink(u, l)
        BY <4>1, <4>2 DEF OnLink
      <4>4. QED
        BY <3>2, <4>2, <4>3
    <3>4. QED
      BY <2>4, <2>a, <3>1, <3>3 DEF Dormant
  <2>11. Becomes(p, View(p)')
    BY <2>1, <2>9, <2>10, <2>a DEF Becomes, v, v2, id
  <2>12. BoxStays /\ server' = server
    BY <1>3 DEF BoxStays
  <2>13. QED
    BY <2>1, <2>11, <2>12, Kept DEF p
<1>10. BoxStays
  BY <1>3 DEF BoxStays
<1>11. QED
  BY <1>4, <1>5, <1>7, <1>8, <1>9, <1>10, OneBox

\* As much of a queue as there is room for moves on.
LEMMA ShiftSome ==
  ASSUME NEW s \in Seq(Int), NEW t \in Seq(Int), NEW j \in Int, j <= Len(t),
         NEW x, x = SubSeq(t, 1, j)
  PROVE  /\ Shift(s, t, Joined(s, x), Dropped(t, Len(x)))
         /\ Joined(s, x) \in Seq(Int) /\ Dropped(t, Len(x)) \in Seq(Int)
<1>0. PICK n \in Nat : n = Len(t)
  OBVIOUS
<1>1. x \in Seq(Int)
  BY <1>0
<1>2. \E k \in 0 .. Len(t) : x = SubSeq(t, 1, k) /\ Len(x) = k
  <2>1. CASE j >= 0
    <3>1. Len(x) = j
      BY <1>0, <2>1
    <3>2. QED
      BY <1>0, <2>1, <3>1
  <2>2. CASE j < 0
    <3>1. Len(x) = 0
      BY <1>0, <2>2
    <3>2. x = <<>>
      BY <1>1, <3>1, EmptySeq
    <3>3. SubSeq(t, 1, 0) = <<>>
      BY <1>0
    <3>4. QED
      BY <1>0, <3>1, <3>2, <3>3
  <2>3. QED
    BY <2>1, <2>2
<1>3. PICK k \in 0 .. Len(t) : x = SubSeq(t, 1, k) /\ Len(x) = k
  BY <1>2
<1>4. SubSeq(t, k + 1, Len(t)) \in Seq(Int)
  BY <1>0, <1>3
<1>5. Shift(s, t, Joined(s, x), Dropped(t, Len(x)))
  BY <1>3 DEF Shift, Joined, Dropped
<1>6. QED
  BY <1>1, <1>3, <1>4, <1>5 DEF Joined, Dropped

\* A round of serve.
LEMMA ServeKeeps ==
  ASSUME IInv, NEW b \in Boxes, Serve(b), UNCHANGED <<link, text>>
  PROVE  IInv'
<1>0. BoxesTypeOK /\ ChainOK /\ PortsOK /\ ServerOK /\ ConnectionOK
  BY DEF IInv, TypeOK
<1>1. /\ tcp' = tcp /\ server' = server /\ chain' = chain /\ board' = board
      /\ printed' = printed /\ server[b] = "serve"
  BY DEF Serve
<1> DEFINE q2(l) == [in |-> Joined(buffer[b][l].in, Read(b, l)),
                     out |-> Dropped(buffer[b][l].out, Len(Taken(b, l)))]
           u2(l) == [to |-> Joined(uart[b][l].to, Taken(b, l)),
                     from |-> Dropped(uart[b][l].from, Len(Read(b, l)))]
<1>2. /\ buffer' = [buffer EXCEPT ![b] = [l \in Links |-> q2(l)]]
      /\ uart' = [uart EXCEPT ![b] = [l \in Links |-> u2(l)]]
  BY DEF Serve, Joined
<1>3. ASSUME NEW l \in Links
      PROVE  /\ q2(l) \in BufferType /\ u2(l) \in UartType
             /\ Shift(uart[b][l].to, buffer[b][l].out, u2(l).to, q2(l).out)
             /\ Shift(buffer[b][l].in, uart[b][l].from, q2(l).in, u2(l).from)
  <2> DEFINE to == uart[b][l].to
             from == uart[b][l].from
             in == buffer[b][l].in
             out == buffer[b][l].out
  <2>1. to \in Seq(Int) /\ from \in Seq(Int) /\ in \in Seq(Int) /\ out \in Seq(Int)
    BY <1>0 DEF BoxesTypeOK, UartType, BufferType
  <2>2. \E j \in Int : j <= Len(out) /\ Taken(b, l) = SubSeq(out, 1, j)
    <3> DEFINE j == IF UartBytes - Len(to) < Len(out) THEN UartBytes - Len(to) ELSE Len(out)
    <3>1. Taken(b, l) = SubSeq(out, 1, j)
      BY DEF Taken
    <3>2. PICK x \in Nat, y \in Nat : x = Len(out) /\ y = Len(to)
      BY <2>1, LenProperties
    <3>2a. UartBytes \in Nat
      BY Shape
    <3> HIDE DEF out, to
    <3>3. j \in Int /\ j <= Len(out)
      BY <3>2, <3>2a
    <3>4. QED
      BY <3>1, <3>3
  <2>3. \E j \in Int : j <= Len(from) /\ Read(b, l) = SubSeq(from, 1, j)
    <3> DEFINE j == IF ServeBytes < Len(from) THEN ServeBytes ELSE Len(from)
    <3>0. Len(from) \in Nat /\ ServeBytes \in Nat
      BY <2>1, BufferAssumption
    <3>1. CASE ~ ReadFits(b, l)
      <4>1. Read(b, l) = <<>>
        BY <3>1 DEF Read
      <4>2. SubSeq(from, 1, 0) = <<>>
        <5> HIDE DEF from
        <5>1. QED
          BY <2>1
      <4>3. QED
        BY <3>0, <4>1, <4>2
    <3>2. CASE ReadFits(b, l)
      <4>1. Read(b, l) = SubSeq(from, 1, j)
        BY <3>2 DEF Read
      <4>2. j \in Int /\ j <= Len(from)
        BY <3>0
      <4>3. QED
        BY <4>1, <4>2
    <3>3. QED
      BY <3>1, <3>2
  <2> DEFINE x == Taken(b, l)
             y == Read(b, l)
  <2>3a. /\ \E j \in Int : j <= Len(out) /\ x = SubSeq(out, 1, j)
         /\ \E j \in Int : j <= Len(from) /\ y = SubSeq(from, 1, j)
    BY <2>2, <2>3
  <2> HIDE DEF to, from, in, out, x, y
  <2>4. /\ Shift(to, out, Joined(to, x), Dropped(out, Len(x)))
        /\ Joined(to, x) \in Seq(Int) /\ Dropped(out, Len(x)) \in Seq(Int)
    BY <2>1, <2>3a, ShiftSome
  <2>5. /\ Shift(in, from, Joined(in, y), Dropped(from, Len(y)))
        /\ Joined(in, y) \in Seq(Int) /\ Dropped(from, Len(y)) \in Seq(Int)
    BY <2>1, <2>3a, ShiftSome
  <2>6. /\ q2(l) = [in |-> Joined(in, y), out |-> Dropped(out, Len(x))]
        /\ u2(l) = [to |-> Joined(to, x), from |-> Dropped(from, Len(y))]
    BY DEF to, from, in, out, x, y
  <2> HIDE DEF q2, u2
  <2>7. /\ q2(l) \in BufferType /\ q2(l).in = Joined(in, y) /\ q2(l).out = Dropped(out, Len(x))
        /\ u2(l) \in UartType /\ u2(l).to = Joined(to, x) /\ u2(l).from = Dropped(from, Len(y))
    BY <2>4, <2>5, <2>6 DEF BufferType, UartType
  <2>8. QED
    BY <2>4, <2>5, <2>7 DEF to, from, in, out
<1> HIDE DEF q2, u2
<1>4. /\ \A l \in Links : buffer'[b][l] = q2(l) /\ uart'[b][l] = u2(l)
      /\ \A c \in Boxes : c # b => buffer'[c] = buffer[c] /\ uart'[c] = uart[c]
      /\ buffer' \in [Boxes -> [Links -> BufferType]]
      /\ uart' \in [Boxes -> [Links -> UartType]]
  BY <1>0, <1>2, <1>3 DEF BoxesTypeOK
<1>5. BoxesTypeOK'
  BY <1>0, <1>1, <1>4 DEF BoxesTypeOK
<1>6. OthersStay(b)
  BY <1>1, <1>4 DEF OthersStay
<1>7. BoxFine(b)'
  <2>1. BoxFine(b)
    BY <1>0, Fine
  <2>2. QED
    BY <1>1, <2>1 DEF BoxFine
<1>8. b \in link.conn => LineFine(b)'
  <2>1. b \in link.conn => LineFine(b)
    BY <1>0, Fine
  <2>2. Unready(b)' <=> Unready(b)
    BY DEF Unready
  <2>3. QED
    BY <1>1, <2>1, <2>2 DEF LineFine
<1>9. ASSUME NEW l \in Links PROVE PortKept(<<b, l>>)
  <2> DEFINE p == <<b, l>>
             v == View(p)
             v2 == View(p)'
             id == IdOf(p)
  <2>1. p \in Ports /\ p[1] = b /\ p[2] = l
    BY DEF Ports
  <2>2. v \in ViewType /\ v2 \in ViewType
    BY <1>0, <1>5, <2>1, ViewTyped
  <2>3. id \in {Bridge} \cup Identities
    BY <1>0, <2>1, IdTyped
  <2>4. /\ v2.up = v.up /\ v2.down = v.down /\ v2.at = v.at /\ v2.bd = v.bd /\ v2.pr = v.pr
        /\ v.ua = uart[b][l] /\ v.buf = buffer[b][l]
    BY <1>1 DEF View
  <2>5. v2.ua = u2(l) /\ v2.buf = q2(l)
    BY <1>4 DEF View
  <2> HIDE DEF v, v2, id, p
  <2>6. /\ Shift(v.ua.to, v.buf.out, v2.ua.to, v2.buf.out)
        /\ Shift(v.buf.in, v.ua.from, v2.buf.in, v2.ua.from)
    BY <1>3, <2>4, <2>5
  <2>7. /\ Below(v2.bd, v2.ua, v2.buf) = Below(v.bd, v.ua, v.buf)
        /\ Above(v2.bd, v2.ua, v2.buf) = Above(v.bd, v.ua, v.buf)
    BY <2>2, <2>3, <2>4, <2>6, Moved
  <2>9. ASSUME NEW n \in Nat, NEW g \in [Channels -> Nat], Live(b, l, id, v, n, g)
        PROVE  Live(b, l, id, v2, n, g)
    BY <2>2, <2>3, <2>4, <2>7, <2>9, LiveMoved
  <2>10. ASSUME Lone(b, l, id, v) PROVE Lone(b, l, id, v2)
    BY <2>2, <2>3, <2>4, <2>7, <2>10, LoneMoved
  <2>a. ASSUME Dormant(l, v) PROVE Dormant(l, v2)
    BY <2>4, <2>a, DormantSame
  <2>11. Becomes(p, View(p)')
    BY <2>1, <2>9, <2>10, <2>a DEF Becomes, v, v2, id
  <2>12. BoxStays /\ server' = server
    BY <1>1 DEF BoxStays
  <2>13. QED
    BY <2>1, <2>11, <2>12, Kept DEF p
<1>10. BoxStays
  BY <1>1 DEF BoxStays
<1>11. QED
  BY <1>5, <1>6, <1>7, <1>8, <1>9, <1>10, OneBox

\* The server process of a box without a client ends.
LEMMA DownKeeps ==
  ASSUME IInv, NEW b \in Boxes, server[b] = "serve", b \notin link.conn,
         server' = [server EXCEPT ![b] = "down"],
         UNCHANGED <<tcp, buffer, boardVars, link, text>>
  PROVE  IInv'
<1>0. BoxesTypeOK /\ ChainOK /\ PortsOK /\ ServerOK /\ ConnectionOK
  BY DEF IInv, TypeOK
<1>1. /\ tcp' = tcp /\ chain' = chain /\ board' = board /\ printed' = printed /\ uart' = uart
      /\ buffer' = buffer /\ link' = link /\ text' = text
      /\ server' = [server EXCEPT ![b] = "down"]
  BY DEF boardVars
<1>2. b \notin link.conn
  OBVIOUS
<1>3. server'[b] = "down" /\ \A c \in Boxes : c # b => server'[c] = server[c]
  BY <1>0, <1>1 DEF BoxesTypeOK
<1>4. BoxesTypeOK'
  BY <1>0, <1>1 DEF BoxesTypeOK
<1>5. OthersStay(b)
  BY <1>1, <1>3 DEF OthersStay
<1>5a. BoxFine(b)
  BY <1>0, Fine
<1>6. BoxFine(b)'
  <2>1. ~ tcp'[b].client /\ b \notin link'.conn
    BY <1>1, <1>2, <1>5a DEF BoxFine
  <2>2. QED
    BY <1>3, <2>1 DEF BoxFine
<1>7. ASSUME NEW l \in Links PROVE PortKept(<<b, l>>)
  <2> DEFINE p == <<b, l>>
             v == View(p)
             v2 == View(p)'
             id == IdOf(p)
  <2>1. p \in Ports /\ p[1] = b /\ p[2] = l
    BY DEF Ports
  <2>2. v \in ViewType /\ v2 \in ViewType
    BY <1>0, <1>4, <2>1, ViewTyped
  <2>3. /\ v2.up = v.up /\ v2.buf = v.buf /\ v2.ua = v.ua /\ v2.bd = v.bd /\ v2.pr = v.pr
    BY <1>1 DEF View
  <2> HIDE DEF v, v2, id, p
  <2>4. ASSUME Lone(b, l, id, v) PROVE Lone(b, l, id, v2)
    BY <2>3, <2>4 DEF Lone
  <2>5. ASSUME Stale(p) PROVE Stale(p)'
    <3>1. Dormant(l, v) /\ Loose(p)
      BY <2>1, <2>5 DEF Stale, v
    <3>2. Dormant(l, v2)
      BY <2>3, <3>1, DormantSame
    <3>3. Loose(p)'
      BY <1>1, <1>2, <2>1, <3>1 DEF Loose, IdOf
    <3>4. QED
      BY <2>1, <3>2, <3>3 DEF Stale, v2
  <2>6. QED
    BY <1>2, <2>1, <2>4, <2>5 DEF PortKept, v, v2, id, p
<1>8. BoxStays
  BY <1>1 DEF BoxStays
<1>9. QED
  BY <1>2, <1>4, <1>5, <1>6, <1>7, <1>8, OneBox

\* A report of heat is not for the client.
LEMMA ReportKeeps ==
  ASSUME IInv, NEW b \in Boxes, NEW k \in Links, ReportOverheat(b, k), UNCHANGED <<link, text>>
  PROVE  IInv'
<1>0. BoxesTypeOK /\ ChainOK /\ PortsOK /\ ServerOK /\ ConnectionOK
  BY DEF IInv, TypeOK
<1>1. /\ tcp' = tcp /\ chain' = chain /\ board' = board /\ printed' = printed /\ uart' = uart
      /\ server' = server /\ server[b] = "serve" /\ buffer[b][k].in # <<>>
      /\ Head(buffer[b][k].in) = OVERHEAT
      /\ buffer' = [buffer EXCEPT ![b][k] = [buffer[b][k] EXCEPT !.in = Tail(@)]]
  BY <1>0 DEF ReportOverheat, boardVars, BoxesTypeOK
<1>2. buffer[b][k] \in BufferType
  BY <1>0 DEF BoxesTypeOK
<1>3. Tail(buffer[b][k].in) \in Seq(Int)
  <2> DEFINE s == buffer[b][k].in
  <2>1. s \in Seq(Int) /\ s # <<>>
    BY <1>1, <1>2 DEF BufferType
  <2> HIDE DEF s
  <2>2. Tail(s) \in Seq(Int)
    BY <2>1
  <2>3. QED
    BY <2>2 DEF s
<1>3a. [buffer[b][k] EXCEPT !.in = Tail(@)] \in BufferType
  BY <1>2, <1>3 DEF BufferType
<1>4. BoxesTypeOK'
  BY <1>0, <1>1, <1>3a DEF BoxesTypeOK
<1>5. OthersStay(b)
  BY <1>0, <1>1 DEF OthersStay, BoxesTypeOK
<1>6. BoxFine(b)'
  <2>1. BoxFine(b)
    BY <1>0, Fine
  <2>2. QED
    BY <1>1, <2>1 DEF BoxFine
<1>7. b \in link.conn => LineFine(b)'
  <2>1. b \in link.conn => LineFine(b)
    BY <1>0, Fine
  <2>2. Unready(b)' <=> Unready(b)
    BY DEF Unready
  <2>3. QED
    BY <1>1, <2>1, <2>2 DEF LineFine
<1>8. ASSUME NEW l \in Links PROVE PortKept(<<b, l>>)
  <2> DEFINE p == <<b, l>>
             v == View(p)
             v2 == View(p)'
             id == IdOf(p)
  <2>1. p \in Ports /\ p[1] = b /\ p[2] = l
    BY DEF Ports
  <2>2. v \in ViewType /\ v2 \in ViewType
    BY <1>0, <1>4, <2>1, ViewTyped
  <2>2a. id \in {Bridge} \cup Identities
    BY <1>0, <2>1, IdTyped
  <2>3. /\ v2.up = v.up /\ v2.down = v.down /\ v2.at = v.at /\ v2.ua = v.ua /\ v2.bd = v.bd
        /\ v2.pr = v.pr
    BY <1>1 DEF View
  <2>4. l # k => v2 = v
    BY <1>0, <1>1 DEF View, BoxesTypeOK
  <2>5. l = k => /\ v2.buf.in = Tail(v.buf.in) /\ v2.buf.out = v.buf.out
                 /\ v.buf.in # <<>> /\ Head(v.buf.in) = OVERHEAT
    BY <1>0, <1>1, <1>2 DEF View, BoxesTypeOK, BufferType
  <2>b. BoxStays
    BY <1>1 DEF BoxStays
  <2> HIDE DEF v, v2, id, p
  <2>6. CASE l = k
    <3>1. Some(v.buf.in) /\ Head(v.buf.in) = OVERHEAT /\ v2.buf.in = Tail(v.buf.in)
          /\ v2.buf.out = v.buf.out
      BY <2>5, <2>6 DEF Some
    <3>2. ASSUME NEW n \in Nat, NEW g \in [Channels -> Nat], Live(b, l, id, v, n, g)
          PROVE  Live(b, l, id, v2, n, g)
      BY <2>2, <2>2a, <2>3, <3>1, <3>2, LiveReport
    <3>3. ASSUME Lone(b, l, id, v) PROVE Lone(b, l, id, v2)
      BY <2>2, <2>2a, <2>3, <3>1, <3>3, LoneReport
    <3>a. ASSUME Dormant(l, v) PROVE Dormant(l, v2)
      BY <2>3, <3>a, DormantSame
    <3>4. Becomes(p, View(p)')
      BY <2>1, <3>2, <3>3, <3>a DEF Becomes, v, v2, id
    <3>5. QED
      BY <1>1, <2>1, <2>b, <3>4, Kept DEF p
  <2>7. CASE l # k
    <3>1. View(p)' = View(p)
      BY <2>4, <2>7 DEF v, v2
    <3>2. QED
      BY <2>1, <2>b, <3>1, SameKept DEF p
  <2>8. QED
    BY <2>6, <2>7
<1>9. BoxStays
  BY <1>1 DEF BoxStays
<1>10. QED
  BY <1>4, <1>5, <1>6, <1>7, <1>8, <1>9, OneBox

\* The packet at the head of a queue is there whole.
LEMMA WholeThere ==
  ASSUME NEW b \in Boxes, NEW l \in Links, NEW id \in {Bridge} \cup Identities,
         NEW v \in ViewType, NEW n, NEW g, Live(b, l, id, v, n, g),
         WholePacket(v.buf.in), v.buf.in[1] # OVERHEAT
  PROVE  fromDebugLinkSize(v.buf.in[1]) \in 1 .. Len(v.buf.in)
<1>0. /\ v.down \in Seq(Packets) /\ v.buf \in BufferType /\ v.ua \in UartType
      /\ v.bd \in BoardType
  BY DEF ViewType
<1>p. PICK e \in Nat : \E a, P : Up(b, l, id, v.down, v.buf, v.ua, v.bd, v.pr, e, g, a, P)
  BY DEF Live
<1>1. PICK a, P : Up(b, l, id, v.down, v.buf, v.ua, v.bd, v.pr, e, g, a, P)
  BY <1>p
<1> DEFINE in == v.buf.in
           k == fromDebugLinkSize(in[1])
<1>2. in \in Seq(Int) /\ in # <<>> /\ Len(in) >= k
  BY <1>0 DEF WholePacket, BufferType
<1>3. Some(v.buf.in)
  BY <1>2 DEF Some
<1>a. Proper(First(P), id)
  BY <1>0, <1>1, <1>3, UpFirst
<1>b. Begins(First(P), in)
  BY <1>0, <1>1, <1>3, UpFirst
<1> HIDE DEF in
<1>4. Len(First(P)) \in Nat \ {0} /\ Len(First(P)) = fromDebugLinkSize(First(P)[1])
  BY <1>a DEF Proper
<1>5. Len(in) \in Nat \ {0}
  BY <1>2
<1>6. First(P)[1] = in[1]
  <2>1. 1 \in 1 .. Len(First(P)) /\ 1 <= Len(in)
    BY <1>4, <1>5
  <2>2. QED
    BY <1>b, <2>1 DEF Begins
<1>7. k \in Nat \ {0}
  BY <1>4, <1>6
<1>8. k \in 1 .. Len(in)
  <2> HIDE DEF k
  <2>1. Len(in) >= k
    BY <1>2 DEF k
  <2>2. QED
    BY <1>5, <1>7, <2>1
<1>9. QED
  BY <1>8 DEF in

\* A packet goes to the client.
LEMMA ToClientKeeps ==
  ASSUME IInv, NEW b \in Boxes, NEW k \in Links, ToClient(b, k), UNCHANGED <<link, text>>
  PROVE  IInv'
<1> DEFINE in == buffer[b][k].in
           N == fromDebugLinkSize(in[1])
           x == Packet(k, [j \in 1 .. N |-> in[j]])
           p == <<b, k>>
           v == View(p)
           id == IdOf(p)
<1>0. BoxesTypeOK /\ ChainOK /\ PortsOK /\ ServerOK /\ ConnectionOK
  BY DEF IInv, TypeOK
<1>1. /\ chain' = chain /\ board' = board /\ printed' = printed /\ uart' = uart
      /\ server' = server /\ server[b] = "serve" /\ WholePacket(in) /\ in[1] # OVERHEAT
      /\ tcp[b].client
      /\ tcp' = [tcp EXCEPT ![b] = [tcp[b] EXCEPT !.down = Append(@, x)]]
      /\ buffer' = [buffer EXCEPT ![b][k] = [buffer[b][k] EXCEPT !.in = Dropped(@, N)]]
  BY <1>0 DEF ToClient, boardVars, BoxesTypeOK
<1>2. /\ buffer[b][k] \in BufferType /\ in \in Seq(Int) /\ tcp[b].down \in Seq(Packets)
      /\ tcp[b] \in [client : BOOLEAN, up : Seq(Packets), down : Seq(Packets)]
  BY <1>0 DEF BoxesTypeOK, BufferType
<1>3. b \in link.conn /\ LineFine(b) /\ BoxFine(b)
  BY <1>0, <1>1, Fine DEF ServerOK
<1>4. p \in Ports /\ p[1] = b /\ p[2] = k
  BY DEF Ports
<1>5. v \in ViewType /\ v.buf = buffer[b][k]
  BY <1>0, <1>4, ViewTyped DEF View
<1>6. id \in {Bridge} \cup Identities
  BY <1>0, <1>4, IdTyped
<1>6a. \A q \in Ports : q[1] = b => ~ Loose(q)
  BY <1>1, <1>3 DEF Loose
<1>7. PICK n \in Nat, g \in [Channels -> Nat] : Live(b, k, id, v, n, g)
  <2>1. Linked(p)
    BY <1>0, <1>3, <1>4, <1>6a, NotLoose
  <2>2. QED
    BY <1>4, <2>1 DEF Linked
<1>8. N \in 1 .. Len(in)
  <2>1. v.buf.in = in
    BY <1>5
  <2> HIDE DEF v, id, p, in
  <2>2. WholePacket(v.buf.in) /\ v.buf.in[1] # OVERHEAT
    BY <1>1, <2>1
  <2>3. fromDebugLinkSize(v.buf.in[1]) \in 1 .. Len(v.buf.in)
    BY <1>5, <1>6, <1>7, <2>2, WholeThere
  <2>4. QED
    BY <2>1, <2>3
<1>9. x \in Packets /\ Dropped(in, N) \in Seq(Int) /\ x.link = k
      /\ x.bytes = [j \in 1 .. N |-> in[j]]
  <2> HIDE DEF in, N
  <2>1. Len(in) \in Nat
    BY <1>2
  <2>2. [j \in 1 .. N |-> in[j]] \in Seq(Int)
    BY <1>2, <1>8, <2>1
  <2>3. Dropped(in, N) \in Seq(Int)
    BY <1>2, <1>8, <2>1 DEF Dropped
  <2>4. QED
    BY <2>2, <2>3 DEF Packet, Packets
<1> HIDE DEF x
<1>10. /\ [buffer[b][k] EXCEPT !.in = Dropped(@, N)] \in BufferType
       /\ [tcp[b] EXCEPT !.down = Append(@, x)]
            \in [client : BOOLEAN, up : Seq(Packets), down : Seq(Packets)]
  <2>1. Append(tcp[b].down, x) \in Seq(Packets)
    <3> DEFINE d == tcp[b].down
    <3>1. d \in Seq(Packets)
      BY <1>2
    <3> HIDE DEF d
    <3>2. Append(d, x) \in Seq(Packets)
      BY <1>9, <3>1
    <3>3. QED
      BY <3>2 DEF d
  <2>2. QED
    BY <1>2, <1>9, <2>1 DEF BufferType
<1>11. BoxesTypeOK'
  BY <1>0, <1>1, <1>10 DEF BoxesTypeOK
<1>12. OthersStay(b)
  BY <1>0, <1>1 DEF OthersStay, BoxesTypeOK
<1>13. /\ tcp'[b].client = tcp[b].client /\ tcp'[b].up = tcp[b].up
       /\ tcp'[b].down = Append(tcp[b].down, x)
  BY <1>0, <1>1, <1>2 DEF BoxesTypeOK
<1>14. BoxFine(b)'
  BY <1>1, <1>3, <1>13 DEF BoxFine
<1>15. ASSUME NEW l \in Links
       PROVE  /\ PortKept(<<b, l>>)
              /\ l = k => ChannelOf(x.bytes) \in Channels
  <2> DEFINE o == <<b, l>>
             w == View(o)
             w2 == View(o)'
             i == IdOf(o)
  <2>1. o \in Ports /\ o[1] = b /\ o[2] = l
    BY DEF Ports
  <2>2. w \in ViewType /\ w2 \in ViewType
    BY <1>0, <1>11, <2>1, ViewTyped
  <2>3. i \in {Bridge} \cup Identities
    BY <1>0, <2>1, IdTyped
  <2>4. /\ w2.up = w.up /\ w2.down = Append(w.down, x) /\ w2.at = w.at /\ w2.ua = w.ua
        /\ w2.bd = w.bd /\ w2.pr = w.pr
    BY <1>1, <1>13 DEF View
  <2>5. l # k => w2.buf = w.buf
    BY <1>0, <1>1 DEF View, BoxesTypeOK
  <2>6. l = k => /\ w.buf.in = in /\ w2.buf.in = Dropped(in, N) /\ w2.buf.out = w.buf.out
    BY <1>0, <1>1, <1>2 DEF View, BoxesTypeOK, BufferType
  <2>6a. l = k => o = p /\ w = v /\ i = id
    OBVIOUS
  <2>6b. ~ Stale(o)
    BY <1>6a, <2>1 DEF Stale
  <2> HIDE DEF w, w2, i, o, v, id, p, in, N
  <2>7. CASE l = k
    <3>1. /\ WholePacket(w.buf.in) /\ w.buf.in[1] # OVERHEAT
          /\ w2.buf.in = Dropped(w.buf.in, fromDebugLinkSize(w.buf.in[1]))
          /\ w2.buf.out = w.buf.out
      BY <1>1, <2>6, <2>7 DEF N
    <3>2. Whole(x, l, w.buf.in)
      <4>1. x = Packet(k, [j \in 1 .. N |-> in[j]])
        BY DEF x
      <4>2. Whole(x, k, in)
        BY <4>1, ZenonT(30) DEF Whole, N
      <4>3. in = w.buf.in /\ k = l
        BY <2>6, <2>7
      <4>4. QED
        BY <4>2, <4>3
    <3>3. ASSUME NEW n1 \in Nat, NEW g1, Live(b, l, i, w, n1, g1)
          PROVE  Live(b, l, i, w2, n1, g1) /\ ChannelOf(x.bytes) \in Channels
      <4>1. Live(b, l, i, w2, n1, g1)
        BY <2>2, <2>3, <2>4, <3>1, <3>2, <3>3, LiveToClient
      <4>2. ChannelOf(x.bytes) \in Channels
        BY <2>2, <2>3, <2>4, <3>1, <3>2, <3>3, LiveToClient
      <4>3. QED
        BY <4>1, <4>2
    <3>4. Live(b, l, i, w, n, g)
      BY <1>7, <2>6a, <2>7
    <3>5. PortKept(o)
      BY <1>3, <2>1, <2>6b, <3>3 DEF PortKept, w, w2, i
    <3>6. QED
      BY <3>3, <3>4, <3>5 DEF o
  <2>8. CASE l # k
    <3>1. ASSUME NEW n1 \in Nat, NEW g1, Live(b, l, i, w, n1, g1)
          PROVE  Live(b, l, i, w2, n1, g1)
      BY <1>9, <2>2, <2>3, <2>4, <2>5, <2>8, <3>1, LiveArrive
    <3>2. PortKept(o)
      BY <1>3, <2>1, <2>6b, <3>1 DEF PortKept, w, w2, i
    <3>3. QED
      BY <2>8, <3>2 DEF o
  <2>9. QED
    BY <2>7, <2>8
<1>16. LineFine(b)'
  <2>1. ChannelOf(x.bytes) \in Channels
    BY <1>15
  <2>2. Unready(b)' <=> Unready(b)
    BY DEF Unready
  <2> DEFINE d == tcp[b].down
             d2 == tcp'[b].down
  <2>3. d \in Seq(Packets) /\ d2 = Append(d, x)
    BY <1>2, <1>13
  <2>4. /\ Unready(b) => d # <<>>
        /\ \A i \in 1 .. Len(d) :
             IF i = 1 /\ Unready(b) THEN d[i] = Packet(0, <<READY>>)
             ELSE ChannelOf(d[i].bytes) \in Channels
    BY <1>1, <1>3 DEF LineFine
  <2> HIDE DEF d, d2
  <2>5. /\ d2 # <<>> /\ Len(d) \in Nat /\ Len(d2) = Len(d) + 1 /\ d2[Len(d) + 1] = x
        /\ \A i \in 1 .. Len(d) : d2[i] = d[i]
        /\ d # <<>> => Len(d) # 0
    <3>1. /\ Len(d) \in Nat /\ Len(d2) = Len(d) + 1 /\ d2[Len(d) + 1] = x
          /\ \A i \in 1 .. Len(d) : d2[i] = d[i]
      BY <1>9, <2>3, AppendProperties
    <3>2. d2 # <<>>
      <4>1. Len(d) + 1 # 0 /\ Len(<<>>) = 0
        BY <3>1
      <4>2. QED
        BY <3>1, <4>1
    <3>3. d # <<>> => Len(d) # 0
      BY <2>3, EmptySeq
    <3>4. QED
      BY <3>1, <3>2, <3>3
  <2>6. \A i \in 1 .. Len(d2) :
             IF i = 1 /\ Unready(b) THEN d2[i] = Packet(0, <<READY>>)
             ELSE ChannelOf(d2[i].bytes) \in Channels
    BY <2>1, <2>4, <2>5
  <2>7. server'[b] # "power"
    BY <1>1
  <2>8. QED
    BY <2>2, <2>5, <2>6, <2>7 DEF LineFine, d2
<1>17. BoxStays
  BY <1>1 DEF BoxStays
<1>18. QED
  BY <1>11, <1>12, <1>14, <1>15, <1>16, <1>17, OneBox

\* What is out of reset has its type.
LEMMA NewTyped ==
  /\ NewBoard \in BoardType /\ NewUart \in UartType /\ NewBuffer \in BufferType
  /\ NothingPrinted \in [Cores -> Nat]
<1>1. NewBoard \in BoardType
  <2> DEFINE none == <<>>
  <2>1. none \in Seq(Int)
    OBVIOUS
  <2>2. NewBoard = [recv |-> none, offset |-> none, linkEn |-> {}, destCore |-> 0,
                    respond |-> none, send |-> none, idle |-> FALSE, started |-> {},
                    hot |-> FALSE]
    BY DEF NewBoard
  <2> HIDE DEF none
  <2>3. QED
    BY <2>1, <2>2 DEF BoardType
<1>2. NewUart \in UartType /\ NewBuffer \in BufferType
  BY DEF NewUart, NewBuffer, UartType, BufferType
<1>3. NothingPrinted \in [Cores -> Nat]
  BY DEF NothingPrinted
<1>4. QED
  BY <1>1, <1>2, <1>3

\* Before the program has heard that a box is up it has sent nothing to it.
LEMMA NothingYet ==
  ASSUME NEW p \in Ports, p[1] \in Boxes, Unready(p[1]), NEW n \in Nat,
         NEW g \in [Channels -> Nat], Progress(p, n, g[Replies]), Printed(p, g)
  PROVE  n = 0 /\ g = [ch \in Channels |-> 0]
<1>1. link.st \in {"connect", "ready", "fail"}
  BY DEF Unready
<1>2. n = 0 /\ g[Replies] = 0
  BY <1>1 DEF Progress
<1>3. \A c \in Cores : g[c] = 0
  BY <1>1 DEF Printed
<1>4. \A ch \in Channels : g[ch] = 0
  BY <1>2, <1>3 DEF Channels
<1>5. QED
  BY <1>2, <1>4

\* The packet that says so is of no channel.
LEMMA ReadyAlone ==
  /\ ChannelOf(<<READY>>) \notin Channels
  /\ \A l, ch : ch \in Channels => OnChannel(<<Packet(0, <<READY>>)>>, l, ch) = {}
<1>1. ChannelOf(<<READY>>) \notin Channels
  <2>1. <<READY>>[1] = READY
    OBVIOUS
  <2>2. ChannelOf(<<READY>>) = -2
    BY <2>1 DEF ChannelOf, READY, STD, QUERY, TEMP
  <2>3. \A c \in Cores : c # -2
    BY Shape DEF Cores
  <2>4. QED
    BY <2>2, <2>3 DEF Channels, Replies
<1>2. ASSUME NEW l, NEW ch \in Channels
      PROVE  OnChannel(<<Packet(0, <<READY>>)>>, l, ch) = {}
  <2> DEFINE x == Packet(0, <<READY>>)
             q == <<x>>
  <2>1. Len(q) = 1 /\ q[1] = x
    OBVIOUS
  <2>2. x.bytes = <<READY>>
    BY DEF Packet
  <2> HIDE DEF x, q
  <2>3. \A k \in 1 .. Len(q) : k = 1
    BY <2>1
  <2>4. \A k \in OnLink(q, l) : ChannelOf(q[k].bytes) # ch
    BY <1>1, <2>1, <2>2, <2>3 DEF OnLink
  <2>5. OnChannel(q, l, ch) = {}
    BY <2>4 DEF OnChannel
  <2>6. QED
    BY <2>5 DEF q, x
<1>3. QED
  BY <1>1, <1>2

\* A bridge is quiet while the program has got all the replies of the
\* commands sent, and when the program is not there.
LEMMA BridgeLone ==
  ASSUME NEW b \in Boxes, NEW l \in Links, NEW v \in ViewType, NEW n \in Nat, NEW g,
         Live(b, l, Bridge, v, n, g), g[Replies] = n
  PROVE  Lone(b, l, Bridge, v)
<1>1. Bridge \in {Bridge} \cup Identities
  OBVIOUS
<1>2. QED
  BY <1>1, LiveLone

\* A board newly up and one nothing is on its way to have nothing to print.
LEMMA FreshDormant ==
  ASSUME NEW id, NEW l, NEW v \in ViewType, Fresh(id, v), ~ Some(v.up), v.pr = NothingPrinted
  PROVE  Dormant(l, v)
<1>1. v.bd.started = {} /\ v.bd.send = <<>>
  BY DEF Fresh, NewBoard
<1>2. OnLink(v.up, l) = {}
  <2>1. v.up = <<>>
    BY DEF Some, ViewType
  <2>2. QED
    BY <2>1 DEF OnLink
<1>3. QED
  BY <1>1, <1>2 DEF Dormant

\* A board is with a program that has not been told the box is up, when nothing
\* has been sent to it.
LEMMA NewLinked ==
  ASSUME NEW p \in Ports, link' = link, text' = text, chain' = chain, Unready(p[1]),
         Live(p[1], p[2], IdOf(p), View(p)', 0, [ch \in Channels |-> 0])
  PROVE  Linked(p)'
<1> DEFINE g == [ch \in Channels |-> 0]
<1>1. link.st \in {"connect", "ready", "fail"}
  BY DEF Unready
<1>2. g \in [Channels -> Nat] /\ g[Replies] = 0 /\ \A c \in Cores : g[c] = 0
  BY DEF Channels
<1>3. Progress(p, 0, g[Replies])'
  BY <1>1, <1>2 DEF Progress
<1>4. Printed(p, g)'
  BY <1>1, <1>2 DEF Printed
<1>5. IdOf(p)' = IdOf(p)
  BY DEF IdOf
<1>6. QED
  BY <1>2, <1>3, <1>4, <1>5 DEF Linked

\* The boards come up.
LEMMA PowerUpKeeps ==
  ASSUME IInv, NEW b \in Boxes, PowerUp(b), UNCHANGED <<link, text>>
  PROVE  IInv'
<1>0. BoxesTypeOK /\ ChainOK /\ PortsOK /\ ServerOK /\ ConnectionOK
  BY DEF IInv, TypeOK
<1> DEFINE x == Packet(0, <<READY>>)
           bds == [l \in Links |-> IF Reset(b, l) THEN NewBoard ELSE board[b][l]]
           uas == [l \in Links |-> IF Reset(b, l) THEN NewUart ELSE uart[b][l]]
           prs == [l \in Links |-> NothingPrinted]
           bufs == [l \in Links |-> NewBuffer]
<1>1. /\ chain' = chain /\ server[b] = "power" /\ server' = [server EXCEPT ![b] = "serve"]
      /\ board' = [board EXCEPT ![b] = bds] /\ uart' = [uart EXCEPT ![b] = uas]
      /\ printed' = [printed EXCEPT ![b] = prs] /\ buffer' = [buffer EXCEPT ![b] = bufs]
      /\ tcp' = [tcp EXCEPT ![b] = [tcp[b] EXCEPT !.down = Append(@, x)]]
  BY <1>0 DEF PowerUp, BoxesTypeOK
<1>2. x \in Packets /\ x.link = 0 /\ x.bytes = <<READY>>
  BY Counts DEF Packet, Packets, READY
<1> HIDE DEF x
<1>3. /\ tcp[b] \in [client : BOOLEAN, up : Seq(Packets), down : Seq(Packets)]
      /\ tcp[b].down \in Seq(Packets)
  BY <1>0 DEF BoxesTypeOK
<1>4. [tcp[b] EXCEPT !.down = Append(@, x)]
        \in [client : BOOLEAN, up : Seq(Packets), down : Seq(Packets)]
  <2>1. Append(tcp[b].down, x) \in Seq(Packets)
    <3> DEFINE d == tcp[b].down
    <3>1. d \in Seq(Packets)
      BY <1>3
    <3> HIDE DEF d
    <3>2. Append(d, x) \in Seq(Packets)
      BY <1>2, <3>1
    <3>3. QED
      BY <3>2 DEF d
  <2>2. QED
    BY <1>3, <2>1
<1>5. /\ bds \in [Links -> BoardType] /\ uas \in [Links -> UartType]
      /\ prs \in [Links -> [Cores -> Nat]] /\ bufs \in [Links -> BufferType]
  <2>1. \A l \in Links : board[b][l] \in BoardType /\ uart[b][l] \in UartType
    BY <1>0 DEF BoxesTypeOK
  <2>2. QED
    BY <2>1, NewTyped
<1>6. /\ server'[b] = "serve" /\ \A l \in Links : /\ board'[b][l] = bds[l] /\ uart'[b][l] = uas[l]
                                                /\ printed'[b][l] = NothingPrinted
                                                /\ buffer'[b][l] = NewBuffer
  BY <1>0, <1>1 DEF BoxesTypeOK
<1> HIDE DEF bds, uas, prs, bufs
<1>7. BoxesTypeOK'
  BY <1>0, <1>1, <1>4, <1>5 DEF BoxesTypeOK
<1>8. OthersStay(b)
  BY <1>0, <1>1 DEF OthersStay, BoxesTypeOK
<1>9. /\ tcp'[b].client = tcp[b].client /\ tcp'[b].up = tcp[b].up
      /\ tcp'[b].down = Append(tcp[b].down, x)
  BY <1>0, <1>1, <1>3 DEF BoxesTypeOK
<1>10. BoxFine(b) /\ (b \in link.conn => LineFine(b))
  BY <1>0, Fine
<1>11. BoxFine(b)'
  BY <1>1, <1>6, <1>9, <1>10 DEF BoxFine
<1>12. tcp[b].up = <<>>
  BY <1>1, <1>10 DEF BoxFine
<1>13. ASSUME b \in link.conn
       PROVE  Unready(b) /\ tcp'[b].down = <<x>>
  <2>1. Unready(b) /\ tcp[b].down = <<>>
    BY <1>1, <1>10, <1>13 DEF LineFine
  <2>2. Append(<<>>, x) = <<x>>
    OBVIOUS
  <2>3. QED
    BY <1>9, <2>1, <2>2
<1>14. b \in link.conn => LineFine(b)'
  <2>1. ASSUME b \in link.conn PROVE LineFine(b)'
    <3>1. tcp'[b].down = <<x>> /\ Unready(b) /\ (Unready(b) <=> Unready(b)')
      BY <1>13, <2>1 DEF Unready
    <3>2. Len(<<x>>) = 1 /\ <<x>>[1] = x /\ <<x>> # <<>>
      OBVIOUS
    <3>3. \A i \in 1 .. Len(tcp'[b].down) : i = 1 /\ tcp'[b].down[i] = x
      BY <3>1, <3>2
    <3>4. QED
      BY <1>6, <3>1, <3>2, <3>3 DEF LineFine, x
  <2>2. QED
    BY <2>1
<1>15. ASSUME NEW l \in Links PROVE PortKept(<<b, l>>)
  <2> DEFINE p == <<b, l>>
             v == View(p)
             v2 == View(p)'
             id == IdOf(p)
  <2>1. p \in Ports /\ p[1] = b /\ p[2] = l
    BY DEF Ports
  <2>2. v \in ViewType /\ v2 \in ViewType
    BY <1>0, <1>7, <2>1, ViewTyped
  <2>3. id \in {Bridge} \cup Identities /\ (IsBridge(b, l) <=> id = Bridge)
    BY <1>0, <2>1, IdTyped
  <2>4. /\ v2.up = tcp[b].up /\ v2.down = tcp'[b].down /\ v2.at = "serve"
        /\ v2.buf = NewBuffer /\ v2.pr = NothingPrinted
        /\ v2.bd = bds[l] /\ v2.ua = uas[l]
        /\ v.bd = board[b][l] /\ v.ua = uart[b][l]
    BY <1>6, <1>9 DEF View
  <2> HIDE DEF v, v2, p, id
  <2>5. ~ Some(v2.up)
    BY <1>12, <2>4 DEF Some
  <2>6. CASE id # Bridge \/ b = Master
    <3>1. Fresh(id, v2) /\ ~ v2.bd.idle
      <4>1. bds[l] = NewBoard /\ uas[l] = NewUart
        BY <2>3, <2>6 DEF bds, uas, Reset
      <4>2. QED
        BY <2>4, <4>1 DEF Fresh, NewBoard
    <3>2. Lone(b, l, id, v2)
      BY <2>2, <2>3, <2>4, <2>5, <3>1, Restart
    <3>3. ASSUME b \in link.conn, NEW n \in Nat, NEW g \in [Channels -> Nat],
                 Progress(p, n, g[Replies]), Printed(p, g)
          PROVE  Live(b, l, id, v2, n, g)
      <4>1. n = 0 /\ g = [ch \in Channels |-> 0]
        BY <1>13, <2>1, <3>3, NothingYet
      <4>2. \A ch \in Channels : OnChannel(v2.down, l, ch) = {}
        BY <1>13, <2>4, <3>3, ReadyAlone DEF x
      <4>3. Live(b, l, id, v2, 0, [ch \in Channels |-> 0])
        BY <2>2, <2>3, <2>4, <2>5, <3>1, <4>2, Restart
      <4>4. QED
        BY <4>1, <4>3
    <3>4. ASSUME Stale(p), b \notin link.conn PROVE Stale(p)'
      <4>1. Loose(p)' /\ IdOf(p)' = id
        BY <1>1, <2>1, <3>4 DEF Stale, Loose, IdOf, id
      <4>2. Dormant(l, v2)
        BY <2>2, <2>4, <2>5, <3>1, FreshDormant
      <4>3. QED
        BY <2>1, <4>1, <4>2 DEF Stale, v2
    <3>5. ASSUME b \in link.conn PROVE Linked(p)'
      <4>1. Unready(b)
        BY <1>13, <3>5
      <4>2. \A ch \in Channels : OnChannel(v2.down, l, ch) = {}
        BY <1>13, <2>4, <3>5, ReadyAlone DEF x
      <4>3. Live(b, l, id, v2, 0, [ch \in Channels |-> 0])
        BY <2>2, <2>3, <2>4, <2>5, <3>1, <4>2, Restart
      <4>4. Linked(p)'
        BY <1>1, <2>1, <4>1, <4>3, NewLinked DEF v2, id
      <4>5. QED
        BY <4>4
    <3>6. QED
      BY <2>1, <3>2, <3>3, <3>4, <3>5 DEF PortKept, v, v2, id, p
  <2>7. CASE id = Bridge /\ b # Master
    <3>1. v2.bd = v.bd /\ v2.ua = v.ua
      BY <2>3, <2>4, <2>7 DEF bds, uas, Reset
    <3>2. ASSUME Lone(b, l, id, v) PROVE Fresh(id, v2)
      BY <2>2, <2>7, <3>1, <3>2, QuietFresh
    <3>3. ASSUME Lone(b, l, id, v) PROVE Lone(b, l, id, v2)
      BY <2>2, <2>3, <2>4, <2>5, <3>2, <3>3, Restart
    <3>4. ASSUME b \in link.conn, NEW n \in Nat, NEW g \in [Channels -> Nat],
                 Progress(p, n, g[Replies]), Printed(p, g), Live(b, l, id, v, n, g)
          PROVE  Live(b, l, id, v2, n, g)
      <4>1. n = 0 /\ g = [ch \in Channels |-> 0] /\ g[Replies] = n
        <5>1. n = 0 /\ g = [ch \in Channels |-> 0]
          BY <1>13, <2>1, <3>4, NothingYet
        <5>2. g[Replies] = 0
          BY <5>1 DEF Channels
        <5>3. QED
          BY <5>1, <5>2
      <4>2. Lone(b, l, id, v)
        BY <2>2, <2>7, <3>4, <4>1, BridgeLone
      <4>3. Fresh(id, v2)
        BY <3>2, <4>2
      <4>4. \A ch \in Channels : OnChannel(v2.down, l, ch) = {}
        BY <1>13, <2>4, <3>4, ReadyAlone DEF x
      <4>5. Live(b, l, id, v2, 0, [ch \in Channels |-> 0])
        BY <2>2, <2>3, <2>4, <2>5, <2>7, <4>3, <4>4, Restart
      <4>6. QED
        BY <4>1, <4>5
    <3>5. ASSUME Stale(p) PROVE Stale(p)'
      <4>1. Loose(p)' /\ Dormant(l, v)
        BY <1>1, <2>1, <2>7, <3>5 DEF Stale, Loose, IdOf, v
      <4>2. Dormant(l, v2)
        BY <2>2, <2>4, <2>5, <3>1, <4>1 DEF Dormant, Some, OnLink, ViewType
      <4>3. QED
        BY <2>1, <4>1, <4>2 DEF Stale, v2
    <3>6. QED
      BY <2>1, <3>3, <3>4, <3>5 DEF PortKept, v, v2, id, p
  <2>8. QED
    BY <2>6, <2>7
<1>16. BoxStays
  BY <1>1 DEF BoxStays
<1>17. QED
  BY <1>7, <1>8, <1>11, <1>14, <1>15, <1>16, OneBox

\* The boards go down.
LEMMA PowerDownKeeps ==
  ASSUME IInv, NEW b \in Boxes, PowerDown(b), UNCHANGED <<link, text>>
  PROVE  IInv'
<1>0. BoxesTypeOK /\ ChainOK /\ PortsOK /\ ServerOK /\ ConnectionOK
  BY DEF IInv, TypeOK
<1> DEFINE bds == [l \in Links |-> IF IsBridge(b, l) THEN board[b][l] ELSE NewBoard]
           uas == [l \in Links |-> IF IsBridge(b, l) THEN uart[b][l] ELSE NewUart]
           prs == [l \in Links |-> NothingPrinted]
           bufs == [l \in Links |-> NewBuffer]
<1>1. /\ chain' = chain /\ server[b] = "down" /\ server' = [server EXCEPT ![b] = "listen"]
      /\ board' = [board EXCEPT ![b] = bds] /\ uart' = [uart EXCEPT ![b] = uas]
      /\ printed' = [printed EXCEPT ![b] = prs] /\ buffer' = [buffer EXCEPT ![b] = bufs]
      /\ tcp' = [tcp EXCEPT ![b] = [Closed EXCEPT !.down = tcp[b].down]]
  BY DEF PowerDown
<1>2. /\ [Closed EXCEPT !.down = tcp[b].down]
            \in [client : BOOLEAN, up : Seq(Packets), down : Seq(Packets)]
      /\ [Closed EXCEPT !.down = tcp[b].down].client = FALSE
      /\ [Closed EXCEPT !.down = tcp[b].down].up = <<>>
  <2> DEFINE d == tcp[b].down
  <2>1. d \in Seq(Packets)
    BY <1>0 DEF BoxesTypeOK
  <2> HIDE DEF d
  <2>2. <<>> \in Seq(Packets)
    OBVIOUS
  <2>3. /\ Closed \in [client : BOOLEAN, up : Seq(Packets), down : Seq(Packets)]
        /\ Closed.client = FALSE /\ Closed.up = <<>>
    BY <2>2 DEF Closed
  <2>4. /\ [Closed EXCEPT !.down = d]
              \in [client : BOOLEAN, up : Seq(Packets), down : Seq(Packets)]
        /\ [Closed EXCEPT !.down = d].client = FALSE
        /\ [Closed EXCEPT !.down = d].up = <<>>
    BY <2>1, <2>3
  <2>5. QED
    BY <2>4 DEF d
<1>5. /\ bds \in [Links -> BoardType] /\ uas \in [Links -> UartType]
      /\ prs \in [Links -> [Cores -> Nat]] /\ bufs \in [Links -> BufferType]
  <2>1. \A l \in Links : board[b][l] \in BoardType /\ uart[b][l] \in UartType
    BY <1>0 DEF BoxesTypeOK
  <2>2. QED
    BY <2>1, NewTyped
<1>6. /\ server'[b] = "listen" /\ tcp'[b].client = FALSE /\ tcp'[b].up = <<>>
      /\ \A l \in Links : /\ board'[b][l] = bds[l] /\ uart'[b][l] = uas[l]
                          /\ printed'[b][l] = NothingPrinted /\ buffer'[b][l] = NewBuffer
  BY <1>0, <1>1, <1>2 DEF BoxesTypeOK
<1> HIDE DEF bds, uas, prs, bufs
<1>7. BoxesTypeOK'
  BY <1>0, <1>1, <1>2, <1>5 DEF BoxesTypeOK
<1>8. OthersStay(b)
  BY <1>0, <1>1 DEF OthersStay, BoxesTypeOK
<1>9. b \notin link.conn
  <2>1. BoxFine(b)
    BY <1>0, Fine
  <2>2. QED
    BY <1>1, <2>1 DEF BoxFine
<1>10. ASSUME NEW l \in Links
       PROVE  IdOf(<<b, l>>)' # Bridge => bds[l] = NewBoard /\ uas[l] = NewUart
  BY <1>1 DEF IdOf, IsBridge, bds, uas
<1>11. BoxFine(b)'
  <2>1. tcp'[b].client = FALSE /\ tcp'[b].up = <<>>
    BY <1>6
  <2>2. b \notin link'.conn
    BY <1>9
  <2>3. QED
    BY <1>6, <1>10, <2>1, <2>2 DEF BoxFine
<1>12. ASSUME NEW l \in Links PROVE PortKept(<<b, l>>)
  <2> DEFINE p == <<b, l>>
             v == View(p)
             v2 == View(p)'
             id == IdOf(p)
  <2>1. p \in Ports /\ p[1] = b /\ p[2] = l
    BY DEF Ports
  <2>2. v \in ViewType /\ v2 \in ViewType
    BY <1>0, <1>7, <2>1, ViewTyped
  <2>3. id \in {Bridge} \cup Identities /\ (IsBridge(b, l) <=> id = Bridge)
    BY <1>0, <2>1, IdTyped
  <2>4. /\ v2.up = <<>> /\ v2.buf = NewBuffer /\ v2.pr = NothingPrinted
        /\ v2.bd = bds[l] /\ v2.ua = uas[l]
        /\ v.bd = board[b][l] /\ v.ua = uart[b][l]
    BY <1>6 DEF View
  <2> HIDE DEF v, v2, p, id
  <2>5. ~ Some(v2.up)
    BY <2>4 DEF Some
  <2>6. ASSUME Lone(b, l, id, v) PROVE Fresh(id, v2)
    <3>1. CASE id # Bridge
      <4>1. bds[l] = NewBoard /\ uas[l] = NewUart
        BY <2>3, <3>1 DEF bds, uas
      <4>2. QED
        BY <2>4, <4>1 DEF Fresh
    <3>2. CASE id = Bridge
      <4>1. v2.bd = v.bd /\ v2.ua = v.ua
        BY <2>3, <2>4, <3>2 DEF bds, uas
      <4>2. QED
        BY <2>2, <2>6, <3>2, <4>1, QuietFresh
    <3>3. QED
      BY <3>1, <3>2
  <2>7. ASSUME Lone(b, l, id, v) PROVE Lone(b, l, id, v2)
    BY <2>2, <2>3, <2>4, <2>5, <2>6, <2>7, Restart
  <2>8. ASSUME Stale(p) PROVE Stale(p)'
    <3>1. Loose(p)' /\ Dormant(l, v) /\ id = Bridge
      BY <1>1, <1>9, <2>1, <2>8 DEF Stale, Loose, IdOf, v, id
    <3>2. v2.bd = v.bd
      BY <2>3, <2>4, <3>1 DEF bds
    <3>3. OnLink(v2.up, l) = {}
      BY <2>4 DEF OnLink
    <3>4. Dormant(l, v2)
      BY <2>4, <3>1, <3>2, <3>3 DEF Dormant
    <3>5. QED
      BY <2>1, <3>1, <3>4 DEF Stale, v2
  <2>9. QED
    BY <1>9, <2>1, <2>7, <2>8 DEF PortKept, v, v2, id, p
<1>13. BoxStays
  BY <1>1 DEF BoxStays
<1>14. QED
  BY <1>7, <1>8, <1>9, <1>11, <1>12, <1>13, OneBox

\* A packet of a board begins with what packets begin with.
LEMMA FirstKnown ==
  ASSUME NEW b \in Boxes, NEW l \in Links, NEW id \in {Bridge} \cup Identities,
         NEW v \in ViewType, NEW n, NEW g, Live(b, l, id, v, n, g), v.buf.in # <<>>
  PROVE  v.buf.in[1] \in FromBoard
<1>0. /\ v.down \in Seq(Packets) /\ v.buf \in BufferType /\ v.ua \in UartType
      /\ v.bd \in BoardType
  BY DEF ViewType
<1>p. PICK e \in Nat : \E a, P : Up(b, l, id, v.down, v.buf, v.ua, v.bd, v.pr, e, g, a, P)
  BY DEF Live
<1>1. PICK a, P : Up(b, l, id, v.down, v.buf, v.ua, v.bd, v.pr, e, g, a, P)
  BY <1>p
<1> DEFINE in == v.buf.in
           x == First(P)
<1>2. in \in Seq(Int) /\ in # <<>> /\ Some(v.buf.in)
  BY <1>0 DEF BufferType, Some
<1>3. Proper(x, id) /\ Begins(x, in)
  BY <1>0, <1>1, <1>2, UpFirst
<1> HIDE DEF in, x
<1>4. Len(x) \in Nat \ {0} /\ Len(in) \in Nat \ {0}
  BY <1>2, <1>3 DEF Proper
<1>5. x[1] = in[1]
  BY <1>3, <1>4 DEF Begins
<1>6. x[1] \in FromBoard
  <2>1. CASE x[1] = OVERHEAT
    BY <2>1 DEF FromBoard
  <2>2. CASE ChannelOf(x) \in Channels
    <3>1. x[1] \in {STD, QUERY, TEMP}
      <4>1. x[1] \notin {STD, QUERY, TEMP} => ChannelOf(x) = -2
        BY DEF ChannelOf
      <4>2. -2 \notin Channels
        BY Shape DEF Channels, Cores, Replies
      <4>3. QED
        BY <2>2, <4>1, <4>2
    <3>2. QED
      BY <3>1 DEF FromBoard
  <2>3. QED
    BY <1>3, <2>1, <2>2 DEF Proper
<1>7. QED
  BY <1>5, <1>6 DEF in

\* A server that ends has no client, or one that has gone.
LEMMA ServerEnds ==
  ASSUME IInv, NEW b \in Boxes, ClientGone(b) \/ (\E l \in Links : ServerExits(b, l))
  PROVE  /\ b \notin link.conn /\ server[b] = "serve"
         /\ server' = [server EXCEPT ![b] = "down"] /\ UNCHANGED <<tcp, buffer, boardVars>>
<1>0. BoxesTypeOK /\ ChainOK /\ PortsOK /\ ServerOK
  BY DEF IInv, TypeOK
<1>1. /\ server[b] = "serve" /\ server' = [server EXCEPT ![b] = "down"]
      /\ UNCHANGED <<tcp, buffer, boardVars>>
  BY DEF ClientGone, ServerExits
<1>2. CASE ClientGone(b)
  <2>1. ~ tcp[b].client
    BY <1>2 DEF ClientGone
  <2>2. QED
    BY <1>0, <1>1, <2>1 DEF ServerOK
<1>3. ASSUME NEW l \in Links, ServerExits(b, l)
      PROVE  b \notin link.conn
  <2> DEFINE p == <<b, l>>
             v == View(p)
  <2>1. SUFFICES ASSUME b \in link.conn PROVE FALSE
    OBVIOUS
  <2>2. p \in Ports /\ p[1] = b /\ p[2] = l
    BY DEF Ports
  <2>3. ~ Loose(p)
    BY <1>1, <2>1, <2>2 DEF Loose
  <2>4. Linked(p)
    BY <1>0, <2>1, <2>2, <2>3, NotLoose
  <2>5. PICK n \in Nat, g \in [Channels -> Nat] : Live(b, l, IdOf(p), v, n, g)
    BY <2>2, <2>4 DEF Linked
  <2>6. v \in ViewType /\ IdOf(p) \in {Bridge} \cup Identities /\ v.buf = buffer[b][l]
    BY <1>0, <2>2, ViewTyped, IdTyped DEF View
  <2> HIDE DEF v, p
  <2>7. v.buf.in # <<>> /\ v.buf.in[1] \notin FromBoard
    BY <1>3, <2>6 DEF ServerExits
  <2>8. QED
    BY <2>5, <2>6, <2>7, FirstKnown
<1>4. QED
  BY <1>1, <1>2, <1>3

\* What goes on in the boxes by itself keeps the invariant.
LEMMA BoardsKeep ==
  ASSUME IInv, Boards \/ Environment
  PROVE  IInv'
<1>1. CASE Environment
  <2>1. PICK p \in HotBoards : Overheat(p[1], p[2])
    BY <1>1 DEF Environment
  <2>2. p[1] \in Boxes /\ p[2] \in Links
    BY LinkAssumption
  <2>3. UNCHANGED <<ctrlVars, link, text>>
    BY <1>1 DEF Environment
  <2>4. QED
    BY <2>1, <2>2, <2>3, HeatKeeps
<1>2. CASE Boards
  <2>1. PICK b \in Boxes : BoxStep(b) /\ UNCHANGED <<link, text>>
    BY <1>2 DEF Boards, Box
  <2>2. CASE PowerUp(b)
    BY <2>1, <2>2, PowerUpKeeps
  <2>3. CASE FromClient(b)
    BY <2>1, <2>3, FromClientKeeps
  <2>4. CASE Serve(b)
    BY <2>1, <2>4, ServeKeeps
  <2>5. CASE ClientGone(b) \/ (\E l \in Links : ServerExits(b, l))
    <3>1. UNCHANGED <<tcp, buffer, boardVars, link, text>>
      BY <2>1, <2>5, ServerEnds
    <3>2. QED
      BY <2>5, <3>1, ServerEnds, DownKeeps
  <2>6. CASE PowerDown(b)
    BY <2>1, <2>6, PowerDownKeeps
  <2>7. ASSUME NEW l \in Links, ToClient(b, l) PROVE IInv'
    BY <2>1, <2>7, ToClientKeeps
  <2>8. ASSUME NEW l \in Links, ReportOverheat(b, l) PROVE IInv'
    BY <2>1, <2>8, ReportKeeps
  <2>9. ASSUME NEW l \in Links, BoardStep(b, l), UNCHANGED ctrlVars PROVE IInv'
    <3>1. UNCHANGED <<ctrlVars, link, text>>
      BY <2>1, <2>9
    <3>2. CASE UartRecv(b, l)
      BY <3>1, <3>2, ReceiveKeeps
    <3>3. CASE SendReply(b, l) \/ ContinueStdOut(b, l)
      BY <3>1, <3>3, SaysKeeps
    <3>4. ASSUME NEW c \in Cores, BeginStdOut(b, l, c) PROVE IInv'
      BY <3>1, <3>4, PrintKeeps
    <3>5. QED
      BY <2>9, <3>2, <3>3, <3>4 DEF BoardStep
  <2>10. QED
    BY <2>1, <2>2, <2>3, <2>4, <2>5, <2>6, <2>7, <2>8, <2>9 DEF BoxStep
<1>3. QED
  BY <1>1, <1>2

-----------------------------------------------------------------------------
(* The steps of the program, once all boxes are up.                        *)

\* The program is connected to all boxes before and after the step.
Talks == /\ link.st \in Asking /\ link'.st \in Asking /\ link'.conn = link.conn

\* Every box is connected to and up.
LEMMA AllServe ==
  ASSUME IInv, link.st \in Asking
  PROVE  /\ link.conn = Boxes /\ \A b \in Boxes : ~ Unready(b)
         /\ \A b \in Boxes : server[b] = "serve" /\ tcp[b].client
         /\ \A p \in Ports : Linked(p)
<1>1. ServerOK /\ ConnectionOK /\ PortsOK
  BY DEF IInv
<1>2. link.conn = Boxes
  BY <1>1 DEF ServerOK
<1>3. \A b \in Boxes : ~ Unready(b)
  BY DEF Unready, Asking
<1>4. ASSUME NEW b \in Boxes PROVE server[b] = "serve" /\ tcp[b].client
  <2>1. server[b] \in {"power", "serve"} /\ tcp[b].client
    BY <1>1, <1>2 DEF ServerOK
  <2>2. server[b] # "power"
    BY <1>1, <1>2, <1>3 DEF ConnectionOK
  <2>3. QED
    BY <2>1, <2>2
<1>5. ASSUME NEW p \in Ports PROVE Linked(p)
  <2>1. p[1] \in link.conn /\ server[p[1]] = "serve"
    BY <1>2, <1>4 DEF Ports
  <2>2. ~ Loose(p)
    BY <2>1 DEF Loose
  <2>3. QED
    BY <1>1, <2>1, <2>2, NotLoose
<1>6. QED
  BY <1>2, <1>3, <1>4, <1>5

\* The packets in a connection change, the boxes do not.
Exchange(b, u, d) ==
  /\ UNCHANGED <<server, buffer, boardVars>>
  /\ tcp' = [tcp EXCEPT ![b] = [tcp[b] EXCEPT !.up = u, !.down = d]]

\* The program sends or takes a packet of box b: the other boxes do not notice.
LEMMA TalkKeeps ==
  ASSUME IInv, link.st \in Asking, NEW b \in Boxes, NEW u \in Seq(Packets), NEW d \in Seq(Packets),
         Exchange(b, u, d),
         \A i \in 1 .. Len(d) : ChannelOf(d[i].bytes) \in Channels
  PROVE  /\ BoxesTypeOK' /\ (Talks => ServerOK' /\ ConnectionOK')
         /\ tcp'[b].up = u /\ tcp'[b].down = d
         /\ \A c \in Boxes : c # b => tcp'[c] = tcp[c]
<1>0. BoxesTypeOK /\ ServerOK /\ ConnectionOK
  BY DEF IInv, TypeOK
<1>1. /\ server' = server /\ buffer' = buffer /\ board' = board /\ uart' = uart
      /\ printed' = printed /\ chain' = chain
      /\ tcp' = [tcp EXCEPT ![b] = [tcp[b] EXCEPT !.up = u, !.down = d]]
  BY DEF boardVars, Exchange
<1>2. /\ tcp[b] \in [client : BOOLEAN, up : Seq(Packets), down : Seq(Packets)]
      /\ [tcp[b] EXCEPT !.up = u, !.down = d]
           \in [client : BOOLEAN, up : Seq(Packets), down : Seq(Packets)]
  BY <1>0 DEF BoxesTypeOK
<1>3. /\ tcp'[b].client = tcp[b].client /\ tcp'[b].up = u /\ tcp'[b].down = d
      /\ \A c \in Boxes : c # b => tcp'[c] = tcp[c]
  BY <1>0, <1>1, <1>2 DEF BoxesTypeOK
<1>4. BoxesTypeOK'
  BY <1>0, <1>1, <1>2 DEF BoxesTypeOK
<1>5. ASSUME Talks
      PROVE  /\ link.conn = Boxes /\ link'.conn = Boxes
             /\ \A c \in Boxes : ~ Unready(c) /\ ~ Unready(c)'
             /\ \A c \in Boxes : server[c] = "serve" /\ tcp[c].client
  <2>1. \A c \in Boxes : ~ Unready(c)'
    BY <1>5 DEF Talks, Unready, Asking
  <2>2. QED
    BY <1>5, <2>1, AllServe DEF Talks
<1>6. ASSUME Talks PROVE ServerOK'
  <2>1. \A c \in Boxes : server'[c] = "serve" /\ (tcp'[c].client <=> c \in link'.conn)
    BY <1>1, <1>3, <1>5, <1>6
  <2>2. link'.st \in Asking
    BY <1>6 DEF Talks
  <2>3. link'.st \notin {"off", "exit"}
    BY <2>2 DEF Asking
  <2>4. QED
    BY <1>5, <1>6, <2>1, <2>3 DEF ServerOK
<1>7. ASSUME Talks PROVE ConnectionOK'
  <2>1. ASSUME NEW c \in Boxes PROVE LineFine(c)'
    <3>1. CASE c = b
      BY <1>1, <1>3, <1>5, <1>7, <3>1 DEF LineFine
    <3>2. CASE c # b
      <4>1. LineFine(c)
        BY <1>0, <1>5, <1>7, Fine
      <4>2. QED
        BY <1>1, <1>3, <1>5, <1>7, <3>2, <4>1 DEF LineFine
    <3>3. QED
      BY <3>1, <3>2
  <2>2. QED
    BY <1>5, <1>7, <2>1, Fine
<1>8. QED
  BY <1>3, <1>4, <1>6, <1>7

\* The next command for a board.
IsNext(p, n, x) ==
  /\ n < Len(Commands(p[1], IdOf(p)))
  /\ x = Packet(p[2], Commands(p[1], IdOf(p))[n + 1])

\* The program sends a packet.
LEMMA Sent ==
  ASSUME IInv, Talks, NEW b \in Boxes, NEW x \in Packets, PutPacket(b, x)
  PROVE  /\ BoxesTypeOK' /\ ServerOK' /\ ConnectionOK'
         /\ \A p \in Ports, n \in Nat, g \in [Channels -> Nat] :
              Live(p[1], p[2], IdOf(p), View(p), n, g) =>
                /\ p # <<b, x.link>> => Live(p[1], p[2], IdOf(p), View(p)', n, g)
                /\ p = <<b, x.link>> /\ IsNext(p, n, x) =>
                     Live(p[1], p[2], IdOf(p), View(p)', n + 1, g)
<1>0. BoxesTypeOK /\ ChainOK /\ ConnectionOK
  BY DEF IInv, TypeOK
<1> DEFINE u == Append(tcp[b].up, x)
           d == tcp[b].down
<1>1. /\ tcp[b].up \in Seq(Packets) /\ d \in Seq(Packets)
      /\ tcp[b] \in [client : BOOLEAN, up : Seq(Packets), down : Seq(Packets)]
  BY <1>0 DEF BoxesTypeOK
<1>2. u \in Seq(Packets)
  <2> DEFINE s == tcp[b].up
  <2>1. s \in Seq(Packets)
    BY <1>1
  <2> HIDE DEF s
  <2>2. Append(s, x) \in Seq(Packets)
    BY <2>1
  <2>3. QED
    BY <2>2 DEF s
<1>3. Exchange(b, u, d)
  <2>1. [tcp[b] EXCEPT !.up = u, !.down = d] = [tcp[b] EXCEPT !.up = u]
    BY <1>1
  <2>2. tcp' = [tcp EXCEPT ![b] = [tcp[b] EXCEPT !.up = u]]
    BY <1>0 DEF PutPacket, BoxesTypeOK
  <2>3. QED
    BY <2>1, <2>2 DEF PutPacket, Exchange
<1>4. \A i \in 1 .. Len(d) : ChannelOf(d[i].bytes) \in Channels
  <2>1. link.conn = Boxes /\ ~ Unready(b)
    BY AllServe DEF Talks
  <2>2. QED
    BY <1>0, <2>1 DEF ConnectionOK
<1> HIDE DEF u, d
<1>5. /\ BoxesTypeOK' /\ ServerOK' /\ ConnectionOK' /\ tcp'[b].up = u /\ tcp'[b].down = d
      /\ \A c \in Boxes : c # b => tcp'[c] = tcp[c]
  BY <1>1, <1>2, <1>3, <1>4, TalkKeeps DEF Talks
<1>6. /\ server' = server /\ buffer' = buffer /\ board' = board /\ uart' = uart
      /\ printed' = printed
  BY <1>3 DEF boardVars, Exchange
<1>7. ASSUME NEW p \in Ports, NEW n \in Nat, NEW g \in [Channels -> Nat],
             Live(p[1], p[2], IdOf(p), View(p), n, g)
      PROVE  /\ p # <<b, x.link>> => Live(p[1], p[2], IdOf(p), View(p)', n, g)
             /\ p = <<b, x.link>> /\ IsNext(p, n, x) =>
                  Live(p[1], p[2], IdOf(p), View(p)', n + 1, g)
  <2> DEFINE v == View(p)
             v2 == View(p)'
             id == IdOf(p)
  <2>1. p[1] \in Boxes /\ p[2] \in Links /\ p = <<p[1], p[2]>> /\ id \in {Bridge} \cup Identities
    BY <1>0, IdTyped
  <2>2. v \in ViewType /\ v2 \in ViewType
    BY <1>0, <1>5, ViewTyped
  <2>3. p[1] # b => v2 = v
    BY <1>5, <1>6, <2>1 DEF View
  <2>4. p[1] = b => /\ v2.up = Append(v.up, x) /\ v2.down = v.down /\ v2.at = v.at
                    /\ v2.buf = v.buf /\ v2.ua = v.ua /\ v2.bd = v.bd /\ v2.pr = v.pr
    BY <1>5, <1>6, <2>1 DEF View, u, d
  <2> HIDE DEF v, v2, id
  <2>5. CASE p[1] # b
    BY <1>7, <2>1, <2>3, <2>5 DEF v, v2, id
  <2>6. CASE p[1] = b
    <3>1. Live(p[1], p[2], id, v, n, g)
      BY <1>7 DEF v, id
    <3>2. x.link # p[2] => Live(p[1], p[2], id, v2, n, g)
      BY <2>1, <2>2, <2>4, <2>6, <3>1, LiveSend
    <3>3. n < Len(Commands(p[1], id)) /\ x = Packet(p[2], Commands(p[1], id)[n + 1])
            => Live(p[1], p[2], id, v2, n + 1, g)
      BY <2>1, <2>2, <2>4, <2>6, <3>1, LiveSend
    <3>4. IsNext(p, n, x) => Live(p[1], p[2], id, v2, n + 1, g)
      BY <3>3 DEF IsNext, id
    <3>5. QED
      BY <2>1, <2>6, <3>2, <3>4 DEF v, v2, id
  <2>7. QED
    BY <2>5, <2>6
<1>8. QED
  BY <1>5, <1>7

\* One more of channel c.
Plus(g, c) == [g EXCEPT ![c] = @ + 1]

\* One more item of channel c has come.
LEMMA PlusShape ==
  ASSUME NEW g \in [Channels -> Nat], NEW c \in Channels
  PROVE  /\ Plus(g, c) \in [Channels -> Nat] /\ Plus(g, c)[c] = g[c] + 1
         /\ \A ch \in Channels : ch # c => Plus(g, c)[ch] = g[ch]
BY DEF Plus

\* The packet x of the board at p is the next of its channel.
IsItem(p, g, x) ==
  LET c == ChannelOf(x.bytes)
      F == Stream(p[1], p[2], IdOf(p), c) IN
  g[c] + 1 \in 1 .. Len(F) /\ Carries(x, F, g[c])

\* The program gets a packet.
LEMMA Got ==
  ASSUME IInv, link.st \in Asking, NEW b \in Boxes, GetPacket(b), NEW x, x = Received(b)
  PROVE  /\ BoxesTypeOK' /\ (Talks => ServerOK' /\ ConnectionOK')
         /\ x \in Packets /\ ChannelOf(x.bytes) \in Channels
         /\ \A p \in Ports, n \in Nat, g \in [Channels -> Nat] :
              Live(p[1], p[2], IdOf(p), View(p), n, g) =>
                /\ p # <<b, x.link>> => Live(p[1], p[2], IdOf(p), View(p)', n, g)
                /\ p = <<b, x.link>> =>
                     /\ IsItem(p, g, x)
                     /\ Live(p[1], p[2], IdOf(p), View(p)', n, Plus(g, ChannelOf(x.bytes)))
<1>0. BoxesTypeOK /\ ChainOK /\ ConnectionOK
  BY DEF IInv, TypeOK
<1> DEFINE u == tcp[b].up
           s == tcp[b].down
           d == Tail(s)
<1>1. /\ u \in Seq(Packets) /\ s \in Seq(Packets) /\ s # <<>>
      /\ tcp[b] \in [client : BOOLEAN, up : Seq(Packets), down : Seq(Packets)]
  BY <1>0 DEF BoxesTypeOK, GetPacket, Arrived
<1>2. x = Head(s)
  BY DEF Received
<1>3. Exchange(b, u, d)
  <2>1. [tcp[b] EXCEPT !.up = u, !.down = d] = [tcp[b] EXCEPT !.down = d]
    BY <1>1
  <2>2. tcp' = [tcp EXCEPT ![b] = [tcp[b] EXCEPT !.down = d]]
    BY <1>0 DEF GetPacket, BoxesTypeOK
  <2>3. QED
    BY <2>1, <2>2 DEF GetPacket, Exchange
<1>4. \A i \in 1 .. Len(s) : ChannelOf(s[i].bytes) \in Channels
  <2>1. link.conn = Boxes /\ ~ Unready(b)
    BY AllServe
  <2>2. QED
    BY <1>0, <2>1 DEF ConnectionOK
<1> HIDE DEF u, s
<1>5. /\ d \in Seq(Packets) /\ x \in Packets /\ ChannelOf(x.bytes) \in Channels
      /\ \A i \in 1 .. Len(d) : ChannelOf(d[i].bytes) \in Channels
  <2>1. /\ d \in Seq(Packets) /\ x \in Packets /\ Len(d) \in Nat /\ Len(s) = Len(d) + 1
        /\ x = s[1] /\ \A i \in 1 .. Len(d) : d[i] = s[i + 1]
    BY <1>1, <1>2, HeadTailProperties
  <2> HIDE DEF d
  <2>2. 1 \in 1 .. Len(s) /\ \A i \in 1 .. Len(d) : i + 1 \in 1 .. Len(s)
    BY <2>1
  <2>3. QED
    BY <1>4, <2>1, <2>2
<1> HIDE DEF d
<1>6. /\ BoxesTypeOK' /\ (Talks => ServerOK' /\ ConnectionOK') /\ tcp'[b].up = u /\ tcp'[b].down = d
      /\ \A c \in Boxes : c # b => tcp'[c] = tcp[c]
  BY <1>1, <1>3, <1>5, TalkKeeps
<1>7. /\ server' = server /\ buffer' = buffer /\ board' = board /\ uart' = uart
      /\ printed' = printed
  BY <1>3 DEF boardVars, Exchange
<1>8. ASSUME NEW p \in Ports, NEW n \in Nat, NEW g \in [Channels -> Nat],
             Live(p[1], p[2], IdOf(p), View(p), n, g)
      PROVE  /\ p # <<b, x.link>> => Live(p[1], p[2], IdOf(p), View(p)', n, g)
             /\ p = <<b, x.link>> =>
                  /\ IsItem(p, g, x)
                  /\ Live(p[1], p[2], IdOf(p), View(p)', n, Plus(g, ChannelOf(x.bytes)))
  <2> DEFINE v == View(p)
             v2 == View(p)'
             id == IdOf(p)
             c == ChannelOf(x.bytes)
  <2>1. p[1] \in Boxes /\ p[2] \in Links /\ p = <<p[1], p[2]>> /\ id \in {Bridge} \cup Identities
    BY <1>0, IdTyped
  <2>2. v \in ViewType /\ v2 \in ViewType
    BY <1>0, <1>6, ViewTyped
  <2>3. p[1] # b => v2 = v
    BY <1>6, <1>7, <2>1 DEF View
  <2>4. p[1] = b => /\ v2.up = v.up /\ v2.down = Tail(v.down) /\ v2.at = v.at /\ v.down = s
                    /\ v2.buf = v.buf /\ v2.ua = v.ua /\ v2.bd = v.bd /\ v2.pr = v.pr
    BY <1>6, <1>7, <2>1 DEF View, u, d, s
  <2> HIDE DEF v, v2, id
  <2>5. CASE p[1] # b
    BY <1>8, <2>1, <2>3, <2>5 DEF v, v2, id
  <2>6. CASE p[1] = b
    <3>1. Live(p[1], p[2], id, v, n, g)
      BY <1>8 DEF v, id
    <3>2. Some(v.down) /\ Head(v.down) = x
      BY <1>1, <1>2, <2>4, <2>6 DEF Some
    <3>3. ASSUME x.link # p[2]
          PROVE  Live(p[1], p[2], id, v2, n, g)
      <4>1. \A ch \in Channels : ~ Belongs(Head(v.down), p[2], ch)
        BY <3>2, <3>3 DEF Belongs
      <4>2. QED
        BY <2>1, <2>2, <2>4, <2>6, <3>1, <3>2, <4>1, LivePass
    <3>4. ASSUME x.link = p[2]
          PROVE  /\ g[c] + 1 \in 1 .. Len(Stream(p[1], p[2], id, c))
                 /\ Carries(x, Stream(p[1], p[2], id, c), g[c])
                 /\ Live(p[1], p[2], id, v2, n, Plus(g, c))
      <4>1. Belongs(Head(v.down), p[2], c) /\ c \in Channels
        BY <1>5, <3>2, <3>4 DEF Belongs
      <4> HIDE DEF c
      <4>2. g[c] + 1 \in 1 .. Len(Stream(p[1], p[2], id, c))
        BY <2>1, <2>2, <2>4, <2>6, <3>1, <3>2, <4>1, LiveGot
      <4>3. Carries(Head(v.down), Stream(p[1], p[2], id, c), g[c])
        BY <2>1, <2>2, <2>4, <2>6, <3>1, <3>2, <4>1, LiveGot
      <4>4. Live(p[1], p[2], id, v2, n, [g EXCEPT ![c] = @ + 1])
        BY <2>1, <2>2, <2>4, <2>6, <3>1, <3>2, <4>1, LiveGot
      <4>5. QED
        BY <3>2, <4>2, <4>3, <4>4 DEF Plus
    <3>5. x.link = p[2] => IsItem(p, g, x)
      BY <3>4 DEF IsItem, id
    <3>6. QED
      BY <2>1, <2>6, <3>3, <3>4, <3>5 DEF v, v2, id
  <2>7. QED
    BY <2>5, <2>6
<1>9. QED
  BY <1>5, <1>6, <1>8

\* What has come of a board, and what it has been sent.
LEMMA Bounds ==
  ASSUME IInv, NEW p \in Ports, NEW n \in Nat, NEW g \in [Channels -> Nat],
         Live(p[1], p[2], IdOf(p), View(p), n, g)
  PROVE  /\ g[Replies] <= n /\ n <= Len(Commands(p[1], IdOf(p)))
         /\ IdOf(p) = Bridge \/ n < 4 => \A c \in Cores : g[c] = 0
         /\ \A c \in Cores : g[c] <= 2
<1>0. BoxesTypeOK /\ ChainOK
  BY DEF IInv, TypeOK
<1> DEFINE v == View(p)
           id == IdOf(p)
<1>1. p[1] \in Boxes /\ p[2] \in Links /\ id \in {Bridge} \cup Identities
  BY <1>0, IdTyped
<1>2. v \in ViewType
  BY <1>0, ViewTyped
<1> HIDE DEF v, id
<1>3. Live(p[1], p[2], id, v, n, g)
  BY DEF v, id
<1>4. PICK e \in Nat :
        /\ g[Replies] <= e /\ e <= n /\ n <= Len(Commands(p[1], id))
        /\ Registers(p[1], id, v.bd, v.pr, e)
        /\ \A c \in Cores : g[c] <= v.pr[c] /\ g[c] <= 2
  BY <1>1, <1>2, <1>3, LiveBounds
<1>5. Replies \in Channels /\ Cores \subseteq Channels
  BY DEF Channels
<1>6. g[Replies] \in Nat /\ \A c \in Cores : g[c] \in Nat
  BY <1>5
<1>7. g[Replies] <= n
  BY <1>4, <1>6
<1>8. ASSUME id = Bridge \/ n < 4
      PROVE  \A c \in Cores : g[c] = 0
  <2>1. id = Bridge \/ e < 4
    BY <1>4, <1>8
  <2>2. v.pr = NothingPrinted
    BY <1>4, <2>1 DEF Registers
  <2>3. \A c \in Cores : v.pr[c] = 0
    BY <2>2 DEF NothingPrinted
  <2>4. QED
    BY <1>4, <1>6, <2>3
<1>9. QED
  BY <1>4, <1>7, <1>8 DEF id

\* Before the threads run, what comes is the next reply of a board of the box
\* that has one to give.
LEMMA Reply ==
  ASSUME IInv, link.st \in Asking, NEW b \in Boxes, GetPacket(b), NEW x, x = Received(b),
         NEW p \in Ports, p = <<b, x.link>>, NEW n \in Nat, NEW g \in [Channels -> Nat],
         Live(p[1], p[2], IdOf(p), View(p), n, g), BoxesTypeOK',
         IdOf(p) = Bridge \/ n < 4
  PROVE  /\ g[Replies] + 1 <= n
         /\ g[Replies] + 1 \in 1 .. Len(Stream(p[1], p[2], IdOf(p), Replies))
         /\ Carries(x, Stream(p[1], p[2], IdOf(p), Replies), g[Replies])
         /\ Live(p[1], p[2], IdOf(p), View(p)', n, Plus(g, Replies))
<1>0. BoxesTypeOK /\ ChainOK
  BY DEF IInv, TypeOK
<1> DEFINE v2 == View(p)'
           id == IdOf(p)
           c == ChannelOf(x.bytes)
<1>1. p[1] \in Boxes /\ p[2] \in Links /\ id \in {Bridge} \cup Identities
  BY <1>0, IdTyped
<1>2. v2 \in ViewType
  BY ViewTyped
<1>3. /\ c \in Channels /\ IsItem(p, g, x) /\ Live(p[1], p[2], id, v2, n, Plus(g, c))
  BY Got
<1> HIDE DEF v2, id, c
<1>4. Plus(g, c) \in [Channels -> Nat] /\ Plus(g, c)[c] = g[c] + 1 /\ g[c] \in Nat
  BY <1>3, PlusShape
<1>5. PICK e \in Nat :
        /\ Plus(g, c)[Replies] <= e /\ e <= n
        /\ Registers(p[1], id, v2.bd, v2.pr, e)
        /\ \A ch \in Cores : Plus(g, c)[ch] <= v2.pr[ch]
  BY <1>1, <1>2, <1>3, LiveBounds
<1>6. id = Bridge \/ e < 4
  BY <1>5 DEF id
<1>7. \A ch \in Cores : v2.pr[ch] = 0
  BY <1>5, <1>6 DEF Registers, NothingPrinted
<1>8. c \notin Cores
  <2>1. ASSUME c \in Cores PROVE FALSE
    <3>1. g[c] + 1 <= 0
      BY <1>4, <1>5, <1>7, <2>1
    <3>2. QED
      BY <1>4, <3>1
  <2>2. QED
    BY <2>1
<1>9. c = Replies
  BY <1>3, <1>8 DEF Channels
<1>10. g[Replies] + 1 <= n
  BY <1>4, <1>5, <1>9
<1>11. /\ g[Replies] + 1 \in 1 .. Len(Stream(p[1], p[2], IdOf(p), Replies))
       /\ Carries(x, Stream(p[1], p[2], IdOf(p), Replies), g[Replies])
  BY <1>3, <1>9 DEF IsItem, c
<1>12. QED
  BY <1>3, <1>9, <1>10, <1>11 DEF v2, id

-----------------------------------------------------------------------------
(* The tables.                                                             *)

\* Each box has one bridge.
LEMMA BridgePort ==
  ASSUME ChainOK
  PROVE  /\ \A b \in Boxes : \E p \in Ports : p[1] = b /\ IdOf(p) = Bridge
         /\ \A p, q \in Ports : p[1] = q[1] /\ IdOf(p) = IdOf(q) => p = q
<1>1. ASSUME NEW b \in Boxes
      PROVE  \E p \in Ports : p[1] = b /\ IdOf(p) = Bridge
  <2>1. Bridge \in {Bridge} \cup Identities
    OBVIOUS
  <2>2. PICK l \in Links : chain[b][l] = Bridge
    BY <2>1, ChainShape
  <2>3. <<b, l>> \in Ports /\ <<b, l>>[1] = b /\ IdOf(<<b, l>>) = Bridge
    BY <2>2 DEF Ports, IdOf
  <2>4. QED
    BY <2>3
<1>2. ASSUME NEW p \in Ports, NEW q \in Ports, p[1] = q[1], IdOf(p) = IdOf(q)
      PROVE  p = q
  <2>1. p[1] \in Boxes /\ p[2] \in Links /\ q[2] \in Links /\ p = <<p[1], p[2]>>
        /\ q = <<q[1], q[2]>>
    BY DEF Ports
  <2>2. p[2] = q[2]
    BY <1>2, <2>1, ChainShape DEF IdOf
  <2>3. QED
    BY <1>2, <2>1, <2>2
<1>3. QED
  BY <1>1, <1>2

\* Two boards have different places in the loop of temperatures.
LEMMA TempRanks ==
  ASSUME ChainOK
  PROVE  /\ \A p \in Ports : /\ TempRank(p) \in 0 .. NumBoards + NumBoxes - 1
                             /\ IdOf(p) # Bridge <=> TempRank(p) < NumBoards
         /\ \A p, q \in Ports : TempRank(p) = TempRank(q) => p = q
<1>0. NumBoards \in Nat \ {0} /\ NumBoxes \in Nat \ {0}
  BY Shape
<1>1. ASSUME NEW p \in Ports
      PROVE  /\ TempRank(p) \in 0 .. NumBoards + NumBoxes - 1
             /\ IdOf(p) # Bridge <=> TempRank(p) < NumBoards
             /\ IdOf(p) # Bridge => Home(p) \in Mesh /\ TempRank(p) = MeshRank(Home(p))
             /\ IdOf(p) = Bridge => TempRank(p) = NumBoards + BoxRank(p[1])
                                    /\ BoxRank(p[1]) \in 0 .. NumBoxes - 1
  <2>1. CASE IdOf(p) # Bridge
    <3>1. Home(p) \in Mesh
      BY <2>1, HomeShape
    <3>2. MeshRank(Home(p)) \in 0 .. NumBoards - 1
      BY <3>1, MeshRanks
    <3>3. QED
      BY <1>0, <2>1, <3>1, <3>2 DEF TempRank
  <2>2. CASE IdOf(p) = Bridge
    <3>1. BoxRank(p[1]) \in 0 .. NumBoxes - 1
      BY BoxRanks DEF Ports
    <3>2. QED
      BY <1>0, <2>2, <3>1 DEF TempRank
  <2>3. QED
    BY <2>1, <2>2
<1>2. ASSUME NEW p \in Ports, NEW q \in Ports, TempRank(p) = TempRank(q)
      PROVE  p = q
  <2>1. IdOf(p) = Bridge <=> IdOf(q) = Bridge
    BY <1>1, <1>2
  <2>2. CASE IdOf(p) # Bridge
    <3>1. /\ Home(p) \in Mesh /\ Home(q) \in Mesh /\ MeshRank(Home(p)) = MeshRank(Home(q))
      BY <1>1, <1>2, <2>1, <2>2
    <3>2. Home(p) = Home(q)
      BY <3>1, MeshRanks
    <3>3. QED
      BY <2>1, <2>2, <3>2, HomeShape
  <2>3. CASE IdOf(p) = Bridge
    <3>1. /\ TempRank(p) = NumBoards + BoxRank(p[1]) /\ BoxRank(p[1]) \in Nat
          /\ TempRank(q) = NumBoards + BoxRank(q[1]) /\ BoxRank(q[1]) \in Nat
      BY <1>1, <2>1, <2>3
    <3>a. \A x, y \in Nat : NumBoards + x = NumBoards + y => x = y
      BY <1>0
    <3>b. NumBoards + BoxRank(p[1]) = NumBoards + BoxRank(q[1])
      BY <1>2, <3>1
    <3>2. BoxRank(p[1]) = BoxRank(q[1])
      BY <3>1, <3>a, <3>b
    <3>3. p[1] = q[1]
      BY <3>2, BoxRanks DEF Ports
    <3>4. QED
      BY <2>1, <2>3, <3>3, BridgePort
  <2>4. QED
    BY <2>2, <2>3
<1>3. QED
  BY <1>1, <1>2

\* Full tables lead to the boards.
LEMMA Tabled ==
  ASSUME ChainOK, \A p \in Ports : Known(p)
  PROVE  /\ \A k \in 0 .. NumBoards - 1 :
              /\ link.portOf[BoardAt(k)] \in Ports /\ IdOf(link.portOf[BoardAt(k)]) # Bridge
              /\ TempRank(link.portOf[BoardAt(k)]) = k
         /\ \A b \in Boxes :
              /\ <<b, link.bridge[b][1]>> \in Ports /\ IdOf(<<b, link.bridge[b][1]>>) = Bridge
              /\ TempRank(<<b, link.bridge[b][1]>>) = NumBoards + BoxRank(b)
         /\ \A k \in 0 .. NumBoards + NumBoxes - 1 :
              TempPort(k) \in Ports /\ TempRank(TempPort(k)) = k
<1>0. NumBoards \in Nat \ {0} /\ NumBoxes \in Nat \ {0} /\ Cardinality(Mesh) = NumBoards
  BY Shape, Counts
<1>1. ASSUME NEW k \in 0 .. NumBoards - 1
      PROVE  /\ link.portOf[BoardAt(k)] \in Ports /\ IdOf(link.portOf[BoardAt(k)]) # Bridge
             /\ TempRank(link.portOf[BoardAt(k)]) = k
  <2>1. BoardAt(k) \in Mesh /\ MeshRank(BoardAt(k)) = k
    BY MeshRanks
  <2>2. PICK p \in Ports : IdOf(p) # Bridge /\ Home(p) = BoardAt(k)
    BY <2>1, HomeShape
  <2>3. link.portOf[BoardAt(k)] = p
    BY <2>2 DEF Known
  <2>4. QED
    BY <2>1, <2>2, <2>3 DEF TempRank
<1>2. ASSUME NEW b \in Boxes
      PROVE  /\ <<b, link.bridge[b][1]>> \in Ports /\ IdOf(<<b, link.bridge[b][1]>>) = Bridge
             /\ TempRank(<<b, link.bridge[b][1]>>) = NumBoards + BoxRank(b)
  <2>1. PICK p \in Ports : p[1] = b /\ IdOf(p) = Bridge
    BY BridgePort
  <2>2. link.bridge[b] = <<p[2]>>
    BY <2>1 DEF Known
  <2>3. link.bridge[b][1] = p[2] /\ p = <<p[1], p[2]>>
    BY <2>2 DEF Ports
  <2>4. <<b, link.bridge[b][1]>> = p
    BY <2>1, <2>3
  <2>5. QED
    BY <2>1, <2>4 DEF TempRank
<1>3. ASSUME NEW k \in 0 .. NumBoards + NumBoxes - 1
      PROVE  TempPort(k) \in Ports /\ TempRank(TempPort(k)) = k
  <2>1. CASE k < NumBoards
    <3>1. k \in 0 .. NumBoards - 1
      BY <1>0, <2>1
    <3>2. TempPort(k) = link.portOf[BoardAt(k)]
      BY <1>0, <2>1 DEF TempPort
    <3>3. QED
      BY <1>1, <3>1, <3>2
  <2>2. CASE ~ (k < NumBoards)
    <3> DEFINE j == k - NumBoards
               b == BoxAt(j)
    <3>1. j \in 0 .. NumBoxes - 1
      BY <1>0, <2>2
    <3>2. TempPort(k) = <<b, link.bridge[b][1]>>
      BY <1>0, <2>2 DEF TempPort
    <3>3. b \in Boxes /\ BoxRank(b) = j
      BY <3>1, BoxRanks
    <3>4. NumBoards + j = k
      BY <1>0, <3>1
    <3> HIDE DEF b, j
    <3>5. QED
      BY <1>2, <3>2, <3>3, <3>4
  <2>3. QED
    BY <2>1, <2>2
<1>4. QED
  BY <1>1, <1>2, <1>3

\* What the boards are does not change, nor what the tables say of them.
TablesStay ==
  /\ chain' = chain /\ link'.portOf = link.portOf /\ link'.boardOf = link.boardOf
  /\ link'.bridge = link.bridge

\* With the tables unchanged, the places and ranks are unchanged.
LEMMA SameTables ==
  ASSUME TablesStay
  PROVE  \A p \in Ports : /\ (Known(p)' <=> Known(p)) /\ (Unknown(p)' <=> Unknown(p))
                          /\ IdOf(p)' = IdOf(p) /\ Home(p)' = Home(p)
                          /\ TempRank(p)' = TempRank(p) /\ Base(p)' = Base(p)
BY DEF TablesStay, Known, Unknown, IdOf, Home, TempRank, Base

\* A board is not both in the tables and not in them.
LEMMA KnownOrNot ==
  ASSUME ChainOK, NEW p \in Ports
  PROVE  ~ (Known(p) /\ Unknown(p))
<1>1. p = <<p[1], p[2]>>
  BY DEF Ports
<1>2. p # <<>> /\ <<p[2]>> # <<>>
  BY <1>1
<1>3. QED
  BY <1>2 DEF Known, Unknown, None

-----------------------------------------------------------------------------
(* The steps of the program, seen from a board.                            *)

\* What a board has been sent and the program has got of it is within bounds.
Bounded(p, n, g) ==
  /\ g[Replies] <= n /\ n <= Len(Commands(p[1], IdOf(p)))
  /\ IdOf(p) = Bridge \/ n < 4 => \A c \in Cores : g[c] = 0
  /\ \A c \in Cores : g[c] <= 2

\* The place of a board with the program.
At(p, n, g) == Progress(p, n, g[Replies]) /\ Printed(p, g)

\* The program sends packet x to the board at q.
LEMMA SendKeeps ==
  ASSUME IInv, Talks, NEW q \in Ports, NEW x \in Packets, x.link = q[2],
         PutPacket(q[1], x), LinkTypeOK', TurnOK', TablesOK',
         \A p \in Ports, n \in Nat, g \in [Channels -> Nat] :
           At(p, n, g) /\ Bounded(p, n, g) =>
             IF p = q THEN IsNext(p, n, x) /\ At(p, n + 1, g)' ELSE At(p, n, g)'
  PROVE  IInv'
<1>0. ChainOK /\ ChainOK'
  BY DEF IInv, TypeOK, PutPacket, boardVars, ChainOK
<1>1. BoxesTypeOK' /\ ServerOK' /\ ConnectionOK'
  <2>1. q[1] \in Boxes
    BY DEF Ports
  <2>2. QED
    BY <2>1, Sent
<1>2. ASSUME NEW p \in Ports PROVE Linked(p)'
  <2>1. PICK n \in Nat, g \in [Channels -> Nat] :
          /\ At(p, n, g) /\ Live(p[1], p[2], IdOf(p), View(p), n, g)
    BY AllServe DEF Talks, Linked, At
  <2>2. Bounded(p, n, g)
    BY <2>1, Bounds DEF Bounded
  <2>3. q[1] \in Boxes /\ q = <<q[1], x.link>>
    BY DEF Ports
  <2>4. IdOf(p)' = IdOf(p)
    BY DEF IdOf, PutPacket, boardVars
  <2>5. CASE p = q
    <3>1. IsNext(p, n, x) /\ At(p, n + 1, g)'
      BY <2>1, <2>2, <2>5
    <3>2. Live(p[1], p[2], IdOf(p), View(p)', n + 1, g)
      BY <2>1, <2>3, <2>5, <3>1, Sent
    <3>3. n + 1 \in Nat
      OBVIOUS
    <3>4. QED
      BY <2>4, <3>1, <3>2, <3>3 DEF Linked, At
  <2>6. CASE p # q
    <3>1. At(p, n, g)'
      BY <2>1, <2>2, <2>6
    <3>2. Live(p[1], p[2], IdOf(p), View(p)', n, g)
      BY <2>1, <2>3, <2>6, Sent
    <3>3. QED
      BY <2>4, <3>1, <3>2 DEF Linked, At
  <2>7. QED
    BY <2>5, <2>6
<1>3. PortsOK'
  <2>1. link'.conn = Boxes
    BY AllServe DEF Talks
  <2>2. QED
    BY <1>2, <2>1 DEF PortsOK, Ports
<1>4. QED
  BY <1>0, <1>1, <1>3 DEF IInv, TypeOK

\* The packet that comes next keeps within the bounds.
LEMMA NextBounded ==
  ASSUME IInv, link.st \in Asking, NEW b \in Boxes, GetPacket(b), NEW x, x = Received(b),
         NEW p \in Ports, p = <<b, x.link>>, NEW n \in Nat, NEW g \in [Channels -> Nat],
         Live(p[1], p[2], IdOf(p), View(p), n, g)
  PROVE  IsItem(p, g, x) /\ Bounded(p, n, Plus(g, ChannelOf(x.bytes)))
<1> DEFINE v2 == View(p)'
           id == IdOf(p)
           c == ChannelOf(x.bytes)
           h == Plus(g, c)
<1>1. p[1] \in Boxes /\ p[2] \in Links /\ id \in {Bridge} \cup Identities
  BY IdTyped DEF IInv, TypeOK
<1>2. BoxesTypeOK' /\ c \in Channels /\ IsItem(p, g, x) /\ Live(p[1], p[2], id, v2, n, h)
  BY Got
<1>3. v2 \in ViewType
  BY <1>2, ViewTyped
<1> HIDE DEF v2, id, c
<1>4. h \in [Channels -> Nat]
  BY <1>2, PlusShape
<1> HIDE DEF h
<1>5. PICK e \in Nat :
        /\ h[Replies] <= e /\ e <= n /\ n <= Len(Commands(p[1], id))
        /\ Registers(p[1], id, v2.bd, v2.pr, e)
        /\ \A ch \in Cores : h[ch] <= v2.pr[ch] /\ h[ch] <= 2
  BY <1>1, <1>2, <1>3, LiveBounds
<1>6. Replies \in Channels /\ Cores \subseteq Channels
  BY DEF Channels
<1>7. h[Replies] \in Nat /\ \A ch \in Cores : h[ch] \in Nat
  BY <1>4, <1>6
<1>8. ASSUME id = Bridge \/ n < 4
      PROVE  \A ch \in Cores : h[ch] = 0
  <2>1. id = Bridge \/ e < 4
    BY <1>5, <1>8
  <2>2. \A ch \in Cores : v2.pr[ch] = 0
    BY <1>5, <2>1 DEF Registers, NothingPrinted
  <2>3. QED
    BY <1>5, <1>7, <2>2
<1>9. h[Replies] <= n
  BY <1>5, <1>7
<1>10. QED
  BY <1>2, <1>5, <1>8, <1>9 DEF Bounded, id, c, h

\* The program gets packet x from the board at q.
LEMMA GetKeeps ==
  ASSUME IInv, Talks, NEW q \in Ports, NEW x, x.link = q[2], GetPacket(q[1]),
         x = Received(q[1]), LinkTypeOK', TurnOK', TablesOK',
         \A p \in Ports, n \in Nat, g \in [Channels -> Nat] :
           At(p, n, g) /\ Bounded(p, n, g) =>
             IF p = q
             THEN IsItem(p, g, x) /\ Bounded(p, n, Plus(g, ChannelOf(x.bytes)))
                    => At(p, n, Plus(g, ChannelOf(x.bytes)))'
             ELSE At(p, n, g)'
  PROVE  IInv'
<1> DEFINE c == ChannelOf(x.bytes)
<1>0. ChainOK /\ ChainOK' /\ BoxesTypeOK
  BY DEF IInv, TypeOK, GetPacket, boardVars, ChainOK
<1>1. q[1] \in Boxes /\ q = <<q[1], x.link>>
  BY DEF Ports
<1>a. link.st \in Asking
  BY DEF Talks
<1>2. BoxesTypeOK' /\ ServerOK' /\ ConnectionOK' /\ c \in Channels
  <2>1. BoxesTypeOK' /\ (Talks => ServerOK' /\ ConnectionOK') /\ c \in Channels
    BY <1>1, <1>a, Got
  <2>2. QED
    BY <2>1
<1> HIDE DEF c
<1>3. ASSUME NEW p \in Ports PROVE Linked(p)'
  <2>1. PICK n \in Nat, g \in [Channels -> Nat] :
          /\ At(p, n, g) /\ Live(p[1], p[2], IdOf(p), View(p), n, g)
    BY <1>a, AllServe DEF Linked, At
  <2>2. Bounded(p, n, g)
    BY <2>1, Bounds DEF Bounded
  <2>4. IdOf(p)' = IdOf(p)
    BY DEF IdOf, GetPacket, boardVars
  <2>5. CASE p = q
    <3>1. IsItem(p, g, x) /\ Live(p[1], p[2], IdOf(p), View(p)', n, Plus(g, c))
      BY <1>1, <1>a, <2>1, <2>5, Got DEF c
    <3>2. Plus(g, c) \in [Channels -> Nat]
      BY <1>2, PlusShape
    <3>3. Bounded(p, n, Plus(g, c))
      BY <1>1, <1>a, <2>1, <2>5, NextBounded DEF c
    <3>4. At(p, n, Plus(g, c))'
      BY <2>1, <2>2, <2>5, <3>1, <3>3 DEF c
    <3>5. QED
      BY <2>4, <3>1, <3>2, <3>4 DEF Linked, At
  <2>6. CASE p # q
    <3>1. At(p, n, g)'
      BY <2>1, <2>2, <2>6
    <3>2. Live(p[1], p[2], IdOf(p), View(p)', n, g)
      BY <1>1, <1>a, <2>1, <2>6, Got
    <3>3. QED
      BY <2>4, <3>1, <3>2 DEF Linked, At
  <2>7. QED
    BY <2>5, <2>6
<1>4. PortsOK'
  <2>1. link'.conn = Boxes
    BY <1>a, AllServe DEF Talks
  <2>2. QED
    BY <1>3, <2>1 DEF PortsOK, Ports
<1>5. QED
  BY <1>0, <1>2, <1>4 DEF IInv, TypeOK

\* Whom the program hears from before the threads run, and what.
LEMMA Heard ==
  ASSUME IInv, link.st \in {"response", "enabled", "getTemp"}, NEW b \in Boxes,
         GetPacket(b), NEW x, x = Received(b)
  PROVE  \E q \in Ports, n \in Nat, g \in [Channels -> Nat] :
           /\ q = <<b, x.link>> /\ q[1] = b /\ x.link = q[2] /\ At(q, n, g) /\ Bounded(q, n, g)
           /\ g[Replies] + 1 <= n
           /\ g[Replies] + 1 \in 1 .. Len(Stream(q[1], q[2], IdOf(q), Replies))
           /\ Carries(x, Stream(q[1], q[2], IdOf(q), Replies), g[Replies])
<1>0. BoxesTypeOK /\ ChainOK
  BY DEF IInv, TypeOK
<1>1. link.st \in Asking
  BY DEF Asking
<1>2. x \in Packets /\ BoxesTypeOK'
  BY <1>1, Got
<1> DEFINE q == <<b, x.link>>
<1>3. q \in Ports /\ q[1] = b /\ x.link = q[2]
  BY <1>2 DEF Packets, Ports
<1> HIDE DEF q
<1>4. q = <<b, x.link>>
  BY DEF q
<1>5. PICK n \in Nat, g \in [Channels -> Nat] :
        At(q, n, g) /\ Live(q[1], q[2], IdOf(q), View(q), n, g)
  BY <1>1, <1>3, AllServe DEF Linked, At
<1>6. Bounded(q, n, g)
  BY <1>3, <1>5, Bounds DEF Bounded
<1>7. IdOf(q) = Bridge \/ n < 4
  <2>1. IdOf(q) # Bridge => Base(q) = 1
    BY DEF Base
  <2>2. Before(TempRank(q), link.k + 1) \in {0, 1}
    BY DEF Before
  <2>3. Progress(q, n, g[Replies])
    BY <1>5 DEF At
  <2>4. QED
    BY <2>1, <2>2, <2>3 DEF Progress
<1>8. /\ g[Replies] + 1 <= n
      /\ g[Replies] + 1 \in 1 .. Len(Stream(q[1], q[2], IdOf(q), Replies))
      /\ Carries(x, Stream(q[1], q[2], IdOf(q), Replies), g[Replies])
  BY <1>1, <1>2, <1>3, <1>4, <1>5, <1>7, Reply
<1>9. QED
  BY <1>3, <1>4, <1>5, <1>6, <1>8

\* The next turn of a loop, or the next stage.
LinkType ==
  [st : Stages, session : Int, k : Nat, tries : Int, conn : SUBSET Boxes,
   bridge : [Boxes -> {None} \cup {<<l>> : l \in Links}],
   portOf : [Mesh -> {None} \cup Ports],
   boardOf : [Ports -> {None} \cup Mesh], tryNext : 0 .. NumBoxes - 1]

\* Two states of the program with the same connections and tables.
SameLinks(lk, lk2) ==
  /\ lk2.session = lk.session /\ lk2.conn = lk.conn /\ lk2.bridge = lk.bridge
  /\ lk2.portOf = lk.portOf /\ lk2.boardOf = lk.boardOf /\ lk2.tryNext = lk.tryNext

\* A turn of a loop changes the turn and the stage only.
LEMMA Turns ==
  ASSUME NEW lk \in LinkType, NEW n, NEW next \in Stages
  PROVE  /\ Turn(lk, n, next) \in LinkType /\ SameLinks(lk, Turn(lk, n, next))
         /\ lk.k + 1 < n => Turn(lk, n, next).k = lk.k + 1 /\ Turn(lk, n, next).st = lk.st
         /\ ~ (lk.k + 1 < n) => Turn(lk, n, next).k = 0 /\ Turn(lk, n, next).st = next
<1>1. CASE lk.k + 1 < n
  <2>1. Turn(lk, n, next) = [lk EXCEPT !.k = @ + 1]
    BY <1>1 DEF Turn
  <2>2. lk.k + 1 \in Nat
    BY DEF LinkType
  <2>3. QED
    BY <1>1, <2>1, <2>2 DEF LinkType, SameLinks
<1>2. CASE ~ (lk.k + 1 < n)
  <2>1. Turn(lk, n, next) = [lk EXCEPT !.k = 0, !.st = next]
    BY <1>2 DEF Turn
  <2> DEFINE m == [lk EXCEPT !.k = 0]
  <2>2. m \in LinkType /\ m.k = 0 /\ SameLinks(lk, m)
    BY DEF LinkType, SameLinks
  <2>3. [lk EXCEPT !.k = 0, !.st = next] = [m EXCEPT !.st = next]
    BY DEF LinkType
  <2> HIDE DEF m
  <2>4. /\ [m EXCEPT !.st = next] \in LinkType /\ SameLinks(m, [m EXCEPT !.st = next])
        /\ [m EXCEPT !.st = next].k = m.k /\ [m EXCEPT !.st = next].st = next
    BY <2>2 DEF LinkType, SameLinks
  <2>5. QED
    BY <1>2, <2>1, <2>2, <2>3, <2>4 DEF SameLinks
<1>3. QED
  BY <1>1, <1>2

\* A stage without turns.
LEMMA Stage ==
  ASSUME NEW lk \in LinkType, NEW next \in Stages
  PROVE  /\ [lk EXCEPT !.st = next] \in LinkType /\ SameLinks(lk, [lk EXCEPT !.st = next])
         /\ [lk EXCEPT !.st = next].k = lk.k /\ [lk EXCEPT !.st = next].st = next
BY DEF LinkType, SameLinks

\* Before the threads print, no text is there.
LEMMA StillNone ==
  ASSUME IInv, link.st # "poll", text' = text, chain' = chain, NEW p \in Ports,
         NEW g \in [Channels -> Nat], NEW h \in [Channels -> Nat], Printed(p, g),
         \A c \in Cores : h[c] = g[c]
  PROVE  Printed(p, h)'
<1>0. ChainOK /\ text = NoText
  BY DEF IInv, TypeOK, TurnOK
<1>1. \A c \in Cores : h[c] = 0
  BY DEF Printed
<1>2. IdOf(p)' = IdOf(p) /\ Home(p)' = Home(p)
  BY DEF IdOf, Home
<1>3. ASSUME NEW c \in Cores, IdOf(p) # Bridge
      PROVE  text'[<<Home(p), c>>] = TextAfter(p[1], p[2], c, h[c])
  <2>1. Home(p) \in Mesh
    BY <1>0, <1>3, HomeShape
  <2>2. TextAfter(p[1], p[2], c, 0) = [lines |-> <<>>, line |-> <<>>]
    BY DEF TextAfter
  <2>3. <<Home(p), c>> \in Mesh \X Cores
    BY <2>1
  <2>4. QED
    BY <1>0, <1>1, <2>2, <2>3 DEF NoText
<1>4. QED
  BY <1>1, <1>2, <1>3 DEF Printed

\* The program sends a command, before the threads print.
LEMMA AskKeeps ==
  ASSUME IInv, Talks, link.st # "poll", text' = text,
         NEW q \in Ports, NEW x \in Packets, x.link = q[2],
         PutPacket(q[1], x), LinkTypeOK', TurnOK', TablesOK',
         \A p \in Ports, n \in Nat, r \in Nat :
           Progress(p, n, r) /\ r <= n =>
             IF p = q THEN IsNext(p, n, x) /\ Progress(p, n + 1, r)' ELSE Progress(p, n, r)'
  PROVE  IInv'
<1>1. chain' = chain
  BY DEF PutPacket, boardVars
<1>2. ASSUME NEW p \in Ports, NEW n \in Nat, NEW g \in [Channels -> Nat],
             At(p, n, g), Bounded(p, n, g)
      PROVE  IF p = q THEN IsNext(p, n, x) /\ At(p, n + 1, g)' ELSE At(p, n, g)'
  <2>1. Printed(p, g)'
    BY <1>1, <1>2, StillNone DEF At
  <2>2. g[Replies] \in Nat
    BY DEF Channels
  <2>3. Progress(p, n, g[Replies]) /\ g[Replies] <= n
    BY <1>2 DEF At, Bounded
  <2>4. QED
    BY <2>1, <2>2, <2>3 DEF At
<1>3. QED
  BY <1>2, SendKeeps

\* The program gets a reply, before the threads print.
LEMMA ReplyKeeps ==
  ASSUME IInv, Talks, link.st # "poll", text' = text, NEW q \in Ports, NEW x,
         x.link = q[2], GetPacket(q[1]), x = Received(q[1]), ChannelOf(x.bytes) = Replies,
         LinkTypeOK', TurnOK', TablesOK',
         \A p \in Ports, n \in Nat, r \in Nat :
           Progress(p, n, r) /\ r <= n =>
             IF p = q THEN r + 1 <= n => Progress(p, n, r + 1)' ELSE Progress(p, n, r)'
  PROVE  IInv'
<1>1. chain' = chain
  BY DEF GetPacket, boardVars
<1>a. Replies \in Channels /\ Cores \subseteq Channels /\ Replies \notin Cores
  BY Shape DEF Channels, Cores, Replies
<1>2. ASSUME NEW p \in Ports, NEW n \in Nat, NEW g \in [Channels -> Nat],
             At(p, n, g), Bounded(p, n, g)
      PROVE  IF p = q
             THEN IsItem(p, g, x) /\ Bounded(p, n, Plus(g, Replies))
                    => At(p, n, Plus(g, Replies))'
             ELSE At(p, n, g)'
  <2>2. g[Replies] \in Nat
    BY <1>a
  <2>3. Progress(p, n, g[Replies]) /\ g[Replies] <= n
    BY <1>2 DEF At, Bounded
  <2>4. CASE p = q
    <3> DEFINE h == Plus(g, Replies)
    <3>1. /\ h \in [Channels -> Nat] /\ h[Replies] = g[Replies] + 1
          /\ \A c \in Cores : h[c] = g[c]
      BY <1>a, PlusShape
    <3> HIDE DEF h
    <3>2. Printed(p, h)'
      BY <1>1, <1>2, <3>1, StillNone DEF At
    <3>3. ASSUME Bounded(p, n, h) PROVE At(p, n, h)'
      <4>1. g[Replies] + 1 <= n
        BY <3>1, <3>3 DEF Bounded
      <4>2. QED
        BY <2>2, <2>3, <2>4, <3>1, <3>2, <4>1 DEF At
    <3>4. QED
      BY <2>4, <3>3 DEF h
  <2>5. CASE p # q
    <3>1. Printed(p, g)'
      BY <1>1, <1>2, StillNone DEF At
    <3>2. QED
      BY <2>2, <2>3, <2>5, <3>1 DEF At
  <2>6. QED
    BY <2>4, <2>5
<1>3. QED
  BY <1>2, GetKeeps

-----------------------------------------------------------------------------
(* The commands of the program.                                            *)

\* The program has its type; with its tables unchanged, they stay.
LEMMA LinkTyped ==
  ASSUME IInv
  PROVE  /\ link \in LinkType /\ link.k \in Nat
         /\ (link' \in LinkType /\ text' = text => LinkTypeOK')
         /\ (SameLinks(link, link') /\ chain' = chain => TablesStay)
BY DEF IInv, TypeOK, LinkTypeOK, LinkType, SameLinks, TablesStay

\* The tables stay full, or empty.
LEMMA TablesFull ==
  ASSUME IInv, TablesStay, link.st \in Asking \ {"query", "response"},
         link'.st \in Asking \ {"query", "response"}
  PROVE  TablesOK' /\ \A p \in Ports : Known(p)
<1>1. \A p \in Ports : Known(p)
  BY DEF IInv, TablesOK
<1>2. \A p \in Ports : Known(p)'
  BY <1>1, SameTables
<1>3. link'.st \notin {"off", "exit", "connect", "ready", "query", "fail", "response"}
  BY DEF Asking
<1>4. QED
  BY <1>1, <1>2, <1>3 DEF TablesOK

\* Empty tables are right before the first reply.
LEMMA TablesEmpty ==
  ASSUME ChainOK, TablesStay, \A p \in Ports : Unknown(p),
         \/ link'.st \in {"off", "exit", "connect", "ready", "query", "fail"}
         \/ link'.st = "response" /\ link'.k = 0
  PROVE  TablesOK'
<1>1. \A p \in Ports : Unknown(p)' /\ ~ Known(p)'
  BY SameTables, KnownOrNot
<1>2. link'.st \notin Asking \ {"query", "response"}
  BY DEF Asking
<1>3. ASSUME link'.st = "response", link'.k = 0, NEW b \in Boxes
      PROVE  /\ link'.k <= NumLinks * BoxRank(b) => KnownOf(b)' = {}
             /\ link'.k >= NumLinks * BoxRank(b) + NumLinks => KnownOf(b)' = Links
             /\ NumLinks * BoxRank(b) <= link'.k /\ link'.k <= NumLinks * BoxRank(b) + NumLinks
                  => Cardinality(KnownOf(b)') = link'.k - NumLinks * BoxRank(b)
  <2>1. KnownOf(b)' = {}
    <3>1. \A l \in Links : <<b, l>> \in Ports
      BY DEF Ports
    <3>2. \A l \in Links : ~ Known(<<b, l>>)'
      BY <1>1, <3>1
    <3>3. QED
      BY <3>2 DEF KnownOf
  <2>2. Cardinality(KnownOf(b)') = 0
    BY <2>1, FS_EmptySet
  <2>3. NumLinks \in Nat \ {0} /\ BoxRank(b) \in Nat
    BY Shape, BoxRanks
  <2> DEFINE m == NumLinks * BoxRank(b)
  <2>4. m \in Nat
    BY <2>3
  <2> HIDE DEF m
  <2>5. m <= link'.k => m = 0
    BY <1>3, <2>4
  <2>6. ~ (link'.k >= m + NumLinks)
    BY <1>3, <2>3, <2>4
  <2>7. m = 0 => link'.k - m = 0
    BY <1>3
  <2>8. QED
    BY <2>1, <2>2, <2>5, <2>6, <2>7 DEF m
<1>4. QED
  BY <1>1, <1>2, <1>3 DEF TablesOK

\* The commands in their order.
LEMMA InOrder ==
  ASSUME ChainOK, NEW p \in Ports
  PROVE  /\ Base(p) \in {1, 2} /\ (Base(p) = 2 <=> IdOf(p) = Bridge /\ p[1] = Master)
         /\ IsNext(p, 0, Packet(p[2], QueryIn(p[1])))
         /\ Base(p) = 2 => IsNext(p, 1, Packet(p[2], EnableIn))
         /\ IsNext(p, Base(p), Packet(p[2], <<TEMP>>))
         /\ IdOf(p) # Bridge => /\ IsNext(p, 2, Packet(p[2], <<SET_DEST, 0, BROADCAST>>))
                                /\ IsNext(p, 3, Packet(p[2], <<STD, 0>>))
<1>1. p[1] \in Boxes /\ p[2] \in Links
  BY DEF Ports
<1>2. Len(Commands(p[1], IdOf(p))) =
        IF IdOf(p) # Bridge THEN 4 ELSE IF p[1] = Master THEN 3 ELSE 2
  BY <1>1, CommandShape
<1>3. CASE IdOf(p) # Bridge
  <2>1. Commands(p[1], IdOf(p)) =
          <<QueryIn(p[1]), <<TEMP>>, <<SET_DEST, 0, BROADCAST>>, <<STD, 0>>>>
    BY <1>3 DEF Commands
  <2>2. Base(p) = 1
    BY <1>3 DEF Base
  <2>3. QED
    BY <1>2, <1>3, <2>1, <2>2 DEF IsNext
<1>4. CASE IdOf(p) = Bridge /\ p[1] = Master
  <2>1. Commands(p[1], IdOf(p)) = <<QueryIn(p[1]), EnableIn, <<TEMP>>>>
    BY <1>4 DEF Commands
  <2>2. Base(p) = 2
    BY <1>4 DEF Base
  <2>3. QED
    BY <1>2, <1>4, <2>1, <2>2 DEF IsNext
<1>5. CASE IdOf(p) = Bridge /\ p[1] # Master
  <2>1. Commands(p[1], IdOf(p)) = <<QueryIn(p[1]), <<TEMP>>>>
    BY <1>5 DEF Commands
  <2>2. Base(p) = 1
    BY <1>5 DEF Base
  <2>3. QED
    BY <1>2, <1>5, <2>1, <2>2 DEF IsNext
<1>6. QED
  BY <1>3, <1>4, <1>5

\* The commands are packets of the connection.
LEMMA CommandTyped ==
  ASSUME NEW l \in Links, NEW b \in Boxes
  PROVE  /\ Packet(l, QueryIn(b)) \in Packets /\ Packet(l, EnableIn) \in Packets
         /\ Packet(l, <<TEMP>>) \in Packets /\ Packet(l, <<STD, 0>>) \in Packets
         /\ Packet(l, <<SET_DEST, 0, BROADCAST>>) \in Packets
<1>1. /\ OffsetOf(b) \in Int /\ EdgesOf(b) \in Int /\ 16 * MeshYLen + MeshXLen \in Int
      /\ QUERY \in Int /\ EN_IDLE \in Int /\ TEMP \in Int /\ STD \in Int /\ SET_DEST \in Int
      /\ BROADCAST \in Int
  BY BoxNumbers DEF QUERY, EN_IDLE, TEMP, STD, SET_DEST, BROADCAST
<1>2. /\ QueryIn(b) \in Seq(Int) /\ EnableIn \in Seq(Int) /\ <<TEMP>> \in Seq(Int)
      /\ <<STD, 0>> \in Seq(Int) /\ <<SET_DEST, 0, BROADCAST>> \in Seq(Int)
  BY <1>1 DEF QueryIn, EnableIn
<1>3. \A y \in Seq(Int) : Packet(l, y) \in Packets /\ Packet(l, y).link = l
  BY DEF Packet, Packets
<1>4. QED
  BY <1>2, <1>3

\* SendQuery keeps the invariant.
LEMMA SendQueryKeeps ==
  ASSUME IInv, SendQuery
  PROVE  IInv'
<1> DEFINE k == link.k
           q == <<BoxAt(k \div NumLinks), k % NumLinks>>
           x == Packet(q[2], QueryIn(q[1]))
           all == NumBoxes * NumLinks
<1>0. ChainOK /\ NumBoxes \in Nat \ {0} /\ NumLinks \in Nat \ {0} /\ all \in Nat
      /\ link.st = "query" /\ k < all /\ k \in Nat /\ link \in LinkType
  BY Shape, LinkTyped DEF IInv, TypeOK, TurnOK, SendQuery
<1>1. /\ q \in Ports /\ PortRank(q) = k /\ \A p \in Ports : PortRank(p) \in 0 .. all - 1
      /\ \A p \in Ports : PortRank(p) = k => p = q
  <2>1. k \in 0 .. all - 1
    BY <1>0
  <2>2. QED
    BY <2>1, PortRanks
<1>2. /\ PutPacket(q[1], x) /\ link' = Turn(link, all, "response") /\ text' = text
  BY DEF SendQuery, QueryIn
<1>a. chain' = chain
  BY <1>2 DEF PutPacket, boardVars
<1>3. \A p \in Ports : Unknown(p) /\ ~ Known(p)
  BY <1>0, KnownOrNot DEF IInv, TablesOK
<1> HIDE DEF q, all
<1>4. "response" \in Stages
  BY DEF Stages
<1>5. /\ link' \in LinkType /\ SameLinks(link, link')
      /\ k + 1 < all => link'.k = k + 1 /\ link'.st = "query"
      /\ ~ (k + 1 < all) => link'.k = 0 /\ link'.st = "response"
  BY <1>0, <1>2, <1>4, Turns
<1>6. TablesStay /\ LinkTypeOK'
  BY <1>2, <1>5, <1>a, LinkTyped
<1>7. /\ TablesOK'
  BY <1>0, <1>3, <1>5, <1>6, TablesEmpty
<1>8. TurnOK'
  <2>1. 0 < all
    BY <1>0
  <2>2. link'.k < all /\ link'.st \in {"query", "response"}
    BY <1>5, <2>1
  <2>3. text' = NoText
    BY <1>0, <1>2 DEF IInv, TurnOK
  <2>4. QED
    BY <2>2, <2>3 DEF TurnOK, all
<1>9. Talks
  BY <1>0, <1>5 DEF Talks, Asking, SameLinks
<1>10. q[1] \in Boxes /\ q[2] \in Links /\ x \in Packets /\ x.link = q[2]
  <2>1. q[1] \in Boxes /\ q[2] \in Links
    BY <1>1 DEF Ports
  <2>2. QED
    BY <2>1, CommandTyped DEF Packet
<1>11. IsNext(q, 0, x)
  BY <1>0, <1>1, InOrder
<1> HIDE DEF x
<1>12. ASSUME NEW p \in Ports, NEW n \in Nat, NEW r \in Nat, Progress(p, n, r), r <= n
       PROVE  IF p = q THEN IsNext(p, n, x) /\ Progress(p, n + 1, r)' ELSE Progress(p, n, r)'
  <2>1. n = Before(PortRank(p), k) /\ r = 0
    BY <1>0, <1>12 DEF Progress
  <2>2. PortRank(p)' = PortRank(p) /\ PortRank(p) \in 0 .. all - 1
    BY <1>1 DEF PortRank
  <2>3. p = q => n = 0
    BY <1>0, <1>1, <2>1 DEF Before
  <2>4. p = q => Before(PortRank(p), k + 1) = n + 1
    BY <1>0, <1>1, <2>1, <2>3 DEF Before
  <2>5. p # q => Before(PortRank(p), k + 1) = n
    <3>1. p # q => PortRank(p) # k
      BY <1>1
    <3>2. QED
      BY <1>0, <2>1, <2>2, <3>1 DEF Before
  <2>6. ASSUME NEW m \in Nat, m = Before(PortRank(p), k + 1)
        PROVE  Progress(p, m, r)'
    <3>1. CASE k + 1 < all
      <4>1. link'.k = k + 1 /\ link'.st = "query"
        BY <1>5, <3>1
      <4>2. QED
        BY <2>1, <2>6, <4>1 DEF Progress
    <3>2. CASE ~ (k + 1 < all)
      <4>1. link'.k = 0 /\ link'.st = "response"
        BY <1>5, <3>2
      <4>2. m = 1
        BY <1>0, <2>2, <2>6, <3>2 DEF Before
      <4>3. ~ Known(p)'
        BY <1>3, <1>6, SameTables
      <4>4. QED
        BY <2>1, <4>1, <4>2, <4>3 DEF Progress
    <3>3. QED
      BY <3>1, <3>2
  <2>7. QED
    BY <1>11, <2>3, <2>4, <2>5, <2>6
<1>13. QED
  BY <1>0, <1>1, <1>2, <1>6, <1>7, <1>8, <1>9, <1>10, <1>12, AskKeeps

\* EnableIdle keeps the invariant.
LEMMA EnableIdleKeeps ==
  ASSUME IInv, EnableIdle
  PROVE  IInv'
<1> DEFINE q == <<Master, link.bridge[Master][1]>>
           x == Packet(q[2], EnableIn)
<1>0. ChainOK /\ link.st = "enable" /\ link.k = 0 /\ link \in LinkType
  BY LinkTyped DEF IInv, TypeOK, TurnOK, EnableIdle
<1>1. /\ PutPacket(q[1], x) /\ link' = [link EXCEPT !.st = "enabled"] /\ text' = text
  BY DEF EnableIdle, EnableIn
<1>2. chain' = chain
  BY <1>1 DEF PutPacket, boardVars
<1>3. \A p \in Ports : Known(p)
  BY <1>0 DEF IInv, TablesOK, Asking
<1>4. q \in Ports /\ IdOf(q) = Bridge /\ q[1] = Master
  BY <1>0, <1>3, Tabled, Counts
<1> HIDE DEF q
<1>5. "enabled" \in Stages
  BY DEF Stages
<1>6. link' \in LinkType /\ SameLinks(link, link') /\ link'.k = 0 /\ link'.st = "enabled"
  BY <1>0, <1>1, <1>5, Stage
<1>7. TablesStay /\ LinkTypeOK'
  BY <1>1, <1>2, <1>6, LinkTyped
<1>8. TablesOK'
  <2>1. link.st \in Asking \ {"query", "response"} /\ link'.st \in Asking \ {"query", "response"}
    BY <1>0, <1>6 DEF Asking
  <2>2. QED
    BY <1>7, <2>1, TablesFull
<1>9. TurnOK'
  <2>1. text' = NoText
    BY <1>0, <1>1 DEF IInv, TurnOK
  <2>2. QED
    BY <1>6, <2>1 DEF TurnOK
<1>10. Talks
  BY <1>0, <1>6 DEF Talks, Asking, SameLinks
<1>11. q[1] \in Boxes /\ q[2] \in Links /\ x \in Packets /\ x.link = q[2]
  <2>1. q[1] \in Boxes /\ q[2] \in Links
    BY <1>4 DEF Ports
  <2>2. QED
    BY <2>1, CommandTyped DEF Packet
<1>12. Base(q) = 2 /\ IsNext(q, 1, x)
  <2>1. Base(q) = 2
    BY <1>4 DEF Base
  <2>2. QED
    BY <1>0, <1>4, <2>1, InOrder
<1> HIDE DEF x
<1>13. ASSUME NEW p \in Ports, NEW n \in Nat, NEW r \in Nat, Progress(p, n, r), r <= n
       PROVE  IF p = q THEN IsNext(p, n, x) /\ Progress(p, n + 1, r)' ELSE Progress(p, n, r)'
  <2>1. n = 1 /\ r = 1
    BY <1>0, <1>13 DEF Progress
  <2>2. Base(p)' = Base(p)
    BY <1>7, SameTables
  <2>3. p # q => Base(p) = 1
    BY <1>0, <1>4, InOrder, BridgePort
  <2>4. ASSUME NEW m \in Nat, m = Base(p)
        PROVE  Progress(p, m, r)'
    BY <1>6, <2>1, <2>2, <2>4 DEF Progress
  <2>5. QED
    BY <1>12, <2>1, <2>3, <2>4
<1>14. QED
  BY <1>0, <1>1, <1>4, <1>7, <1>8, <1>9, <1>10, <1>11, <1>13, AskKeeps

\* AskTemp keeps the invariant.
LEMMA AskTempKeeps ==
  ASSUME IInv, AskTemp
  PROVE  IInv'
<1> DEFINE q == TempPort(link.k)
           x == Packet(q[2], <<TEMP>>)
           all == NumBoards + NumBoxes
<1>0. /\ ChainOK /\ link.st = "askTemp" /\ link.k < all /\ link \in LinkType /\ link.k \in Nat
      /\ all \in Nat
  BY Shape, LinkTyped DEF IInv, TypeOK, TurnOK, AskTemp
<1>1. /\ PutPacket(q[1], x) /\ link' = [link EXCEPT !.st = "getTemp"] /\ text' = text
  BY DEF AskTemp
<1>2. chain' = chain
  BY <1>1 DEF PutPacket, boardVars
<1>3. \A p \in Ports : Known(p)
  BY <1>0 DEF IInv, TablesOK, Asking
<1>4. q \in Ports /\ TempRank(q) = link.k /\ \A p \in Ports : TempRank(p) = link.k => p = q
  <2>1. link.k \in 0 .. all - 1
    BY <1>0
  <2>a. \A k \in 0 .. NumBoards + NumBoxes - 1 :
          TempPort(k) \in Ports /\ TempRank(TempPort(k)) = k
    BY <1>0, <1>3, Tabled
  <2>b. \A k \in 0 .. all - 1 : TempPort(k) \in Ports /\ TempRank(TempPort(k)) = k
    BY <2>a, Shape
  <2> HIDE DEF all
  <2>2. q \in Ports /\ TempRank(q) = link.k
    BY <2>1, <2>b
  <2> HIDE DEF q
  <2>3. QED
    BY <1>0, <2>2, TempRanks
<1> HIDE DEF q, all
<1>5. "getTemp" \in Stages
  BY DEF Stages
<1>6. link' \in LinkType /\ SameLinks(link, link') /\ link'.k = link.k /\ link'.st = "getTemp"
  BY <1>0, <1>1, <1>5, Stage
<1>7. TablesStay /\ LinkTypeOK'
  BY <1>1, <1>2, <1>6, LinkTyped
<1>8. TablesOK'
  <2>1. link.st \in Asking \ {"query", "response"} /\ link'.st \in Asking \ {"query", "response"}
    BY <1>0, <1>6 DEF Asking
  <2>2. QED
    BY <1>7, <2>1, TablesFull
<1>9. TurnOK'
  <2>1. text' = NoText
    BY <1>0, <1>1 DEF IInv, TurnOK
  <2>2. QED
    BY <1>0, <1>6, <2>1 DEF TurnOK, all
<1>10. Talks
  BY <1>0, <1>6 DEF Talks, Asking, SameLinks
<1>11. q[1] \in Boxes /\ q[2] \in Links /\ x \in Packets /\ x.link = q[2]
  <2>1. q[1] \in Boxes /\ q[2] \in Links
    BY <1>4 DEF Ports
  <2>2. QED
    BY <2>1, CommandTyped DEF Packet
<1>12. IsNext(q, Base(q), x)
  BY <1>0, <1>4, InOrder
<1> HIDE DEF x
<1>13. ASSUME NEW p \in Ports, NEW n \in Nat, NEW r \in Nat, Progress(p, n, r), r <= n
       PROVE  IF p = q THEN IsNext(p, n, x) /\ Progress(p, n + 1, r)' ELSE Progress(p, n, r)'
  <2>1. n = Base(p) + Before(TempRank(p), link.k) /\ r = n
    BY <1>0, <1>13 DEF Progress
  <2>2. /\ Base(p)' = Base(p) /\ TempRank(p)' = TempRank(p) /\ TempRank(p) \in Nat
        /\ Base(p) \in Nat
    BY <1>0, <1>7, SameTables, TempRanks, InOrder
  <2>3. p = q => Before(TempRank(p), link.k) = 0 /\ Before(TempRank(p), link.k + 1) = 1
    BY <1>0, <1>4 DEF Before
  <2>4. p # q => Before(TempRank(p), link.k) = Before(TempRank(p), link.k + 1)
    <3>1. p # q => TempRank(p) # link.k
      BY <1>4
    <3>2. QED
      BY <1>0, <2>2, <3>1 DEF Before
  <2>5. ASSUME NEW m \in Nat, m = Base(p) + Before(TempRank(p), link.k + 1)
        PROVE  Progress(p, m, r)'
    BY <1>6, <2>1, <2>2, <2>5 DEF Progress
  <2>6. p = q => n = Base(p) /\ n + 1 = Base(p) + Before(TempRank(p), link.k + 1)
    BY <2>1, <2>2, <2>3
  <2>7. p # q => n = Base(p) + Before(TempRank(p), link.k + 1)
    BY <2>1, <2>4
  <2>8. QED
    BY <1>12, <2>5, <2>6, <2>7
<1>14. QED
  BY <1>0, <1>1, <1>4, <1>7, <1>8, <1>9, <1>10, <1>11, <1>13, AskKeeps

\* SetBroadcastDest keeps the invariant.
LEMMA SetDestKeeps ==
  ASSUME IInv, SetBroadcastDest
  PROVE  IInv'
<1> DEFINE q == link.portOf[BoardAt(link.k)]
           x == Packet(q[2], <<SET_DEST, 0, BROADCAST>>)
<1>0. /\ ChainOK /\ link.st = "setDest" /\ link.k < NumBoards /\ link \in LinkType
      /\ link.k \in Nat /\ NumBoards \in Nat
  BY Shape, LinkTyped DEF IInv, TypeOK, TurnOK, SetBroadcastDest
<1>1. /\ PutPacket(q[1], x) /\ link' = [link EXCEPT !.st = "put"] /\ text' = text
  BY DEF SetBroadcastDest
<1>2. chain' = chain
  BY <1>1 DEF PutPacket, boardVars
<1>3. \A p \in Ports : Known(p)
  BY <1>0 DEF IInv, TablesOK, Asking
<1>4. /\ q \in Ports /\ TempRank(q) = link.k /\ IdOf(q) # Bridge
      /\ \A p \in Ports : TempRank(p) = link.k => p = q
  <2>1. link.k \in 0 .. NumBoards - 1
    BY <1>0
  <2>2. q \in Ports /\ TempRank(q) = link.k /\ IdOf(q) # Bridge
    BY <1>0, <1>3, <2>1, Tabled
  <2> HIDE DEF q
  <2>3. QED
    BY <1>0, <2>2, TempRanks
<1> HIDE DEF q
<1>5. "put" \in Stages
  BY DEF Stages
<1>6. link' \in LinkType /\ SameLinks(link, link') /\ link'.k = link.k /\ link'.st = "put"
  BY <1>0, <1>1, <1>5, Stage
<1>7. TablesStay /\ LinkTypeOK'
  BY <1>1, <1>2, <1>6, LinkTyped
<1>8. TablesOK'
  <2>1. link.st \in Asking \ {"query", "response"} /\ link'.st \in Asking \ {"query", "response"}
    BY <1>0, <1>6 DEF Asking
  <2>2. QED
    BY <1>7, <2>1, TablesFull
<1>9. TurnOK'
  <2>1. text' = NoText
    BY <1>0, <1>1 DEF IInv, TurnOK
  <2>2. QED
    BY <1>0, <1>6, <2>1 DEF TurnOK
<1>10. Talks
  BY <1>0, <1>6 DEF Talks, Asking, SameLinks
<1>11. q[1] \in Boxes /\ q[2] \in Links /\ x \in Packets /\ x.link = q[2]
  <2>1. q[1] \in Boxes /\ q[2] \in Links
    BY <1>4 DEF Ports
  <2>2. QED
    BY <2>1, CommandTyped DEF Packet
<1>12. IsNext(q, 2, x)
  BY <1>0, <1>4, InOrder
<1> HIDE DEF x
<1>13. ASSUME NEW p \in Ports, NEW n \in Nat, NEW r \in Nat, Progress(p, n, r), r <= n
       PROVE  IF p = q THEN IsNext(p, n, x) /\ Progress(p, n + 1, r)' ELSE Progress(p, n, r)'
  <2>1. /\ n = Base(p) + 1 + 2 * (IF IdOf(p) = Bridge THEN 0
                                   ELSE Before(TempRank(p), link.k))
        /\ r = Base(p) + 1
    BY <1>0, <1>13 DEF Progress
  <2>2. /\ Base(p)' = Base(p) /\ TempRank(p)' = TempRank(p) /\ IdOf(p)' = IdOf(p)
        /\ TempRank(p) \in Nat /\ Base(p) \in {1, 2} /\ (IdOf(p) # Bridge => Base(p) = 1)
    BY <1>0, <1>7, SameTables, TempRanks, InOrder
  <2>3. p = q => Before(TempRank(p), link.k) = 0 /\ Before(TempRank(p), link.k + 1) = 1
    BY <1>0, <1>4 DEF Before
  <2>4. p # q => Before(TempRank(p), link.k) = Before(TempRank(p), link.k + 1)
    <3>1. p # q => TempRank(p) # link.k
      BY <1>4
    <3>2. QED
      BY <1>0, <2>2, <3>1 DEF Before
  <2>a. Before(TempRank(p), link.k) \in {0, 1}
    BY DEF Before
  <2>5. ASSUME NEW m \in Nat,
               m = Base(p) + 1 + (IF IdOf(p) = Bridge THEN 0
                                  ELSE Before(TempRank(p), link.k)
                                         + Before(TempRank(p), link.k + 1))
        PROVE  Progress(p, m, r)'
    BY <1>6, <2>1, <2>2, <2>5 DEF Progress
  <2>6. CASE p = q
    <3>1. n = 2 /\ n + 1 = Base(p) + 1 + (Before(TempRank(p), link.k)
                                           + Before(TempRank(p), link.k + 1))
      BY <1>4, <2>1, <2>2, <2>3, <2>6
    <3>2. QED
      BY <1>4, <1>12, <2>5, <2>6, <3>1
  <2>7. CASE p # q
    <3>1. n = Base(p) + 1 + (IF IdOf(p) = Bridge THEN 0
                             ELSE Before(TempRank(p), link.k)
                                    + Before(TempRank(p), link.k + 1))
      BY <2>1, <2>2, <2>4, <2>7, <2>a
    <3>2. QED
      BY <2>5, <2>7, <3>1
  <2>8. QED
    BY <2>6, <2>7
<1>14. QED
  BY <1>0, <1>1, <1>4, <1>7, <1>8, <1>9, <1>10, <1>11, <1>13, AskKeeps

\* Put keeps the invariant.
LEMMA PutKeeps ==
  ASSUME IInv, Put
  PROVE  IInv'
<1> DEFINE q == link.portOf[BoardAt(link.k)]
           x == Packet(q[2], <<STD, 0>>)
           lk == [link EXCEPT !.st = "setDest"]
<1>0. /\ ChainOK /\ link.st = "put" /\ link.k < NumBoards /\ link \in LinkType
      /\ link.k \in Nat /\ NumBoards \in Nat /\ Cardinality(Mesh) = NumBoards
  BY Shape, Counts, LinkTyped DEF IInv, TypeOK, TurnOK, Put
<1>1. /\ PutPacket(q[1], x) /\ link' = Turn(lk, NumBoards, "poll") /\ text' = text
  BY <1>0 DEF Put
<1>2. chain' = chain
  BY <1>1 DEF PutPacket, boardVars
<1>3. \A p \in Ports : Known(p)
  BY <1>0 DEF IInv, TablesOK, Asking
<1>4. /\ q \in Ports /\ TempRank(q) = link.k /\ IdOf(q) # Bridge
      /\ \A p \in Ports : TempRank(p) = link.k => p = q
  <2>1. link.k \in 0 .. NumBoards - 1
    BY <1>0
  <2>2. q \in Ports /\ TempRank(q) = link.k /\ IdOf(q) # Bridge
    BY <1>0, <1>3, <2>1, Tabled
  <2> HIDE DEF q
  <2>3. QED
    BY <1>0, <2>2, TempRanks
<1> HIDE DEF q
<1>5. "setDest" \in Stages /\ "poll" \in Stages
  BY DEF Stages
<1>a. lk \in LinkType /\ SameLinks(link, lk) /\ lk.k = link.k /\ lk.st = "setDest"
  BY <1>0, <1>5, Stage
<1> HIDE DEF lk
<1>6. /\ link' \in LinkType /\ SameLinks(lk, link')
      /\ link.k + 1 < NumBoards => link'.k = link.k + 1 /\ link'.st = "setDest"
      /\ ~ (link.k + 1 < NumBoards) => link'.k = 0 /\ link'.st = "poll"
  BY <1>1, <1>5, <1>a, Turns
<1>b. SameLinks(link, link')
  BY <1>6, <1>a DEF SameLinks
<1>7. TablesStay /\ LinkTypeOK'
  BY <1>1, <1>2, <1>6, <1>b, LinkTyped
<1>8. TablesOK'
  <2>1. link.st \in Asking \ {"query", "response"} /\ link'.st \in Asking \ {"query", "response"}
    BY <1>0, <1>6 DEF Asking
  <2>2. QED
    BY <1>7, <2>1, TablesFull
<1>9. TurnOK'
  <2>1. text' = NoText
    BY <1>0, <1>1 DEF IInv, TurnOK
  <2>2. QED
    BY <1>0, <1>6, <2>1 DEF TurnOK
<1>10. Talks
  BY <1>0, <1>6, <1>b DEF Talks, Asking, SameLinks
<1>11. q[1] \in Boxes /\ q[2] \in Links /\ x \in Packets /\ x.link = q[2]
  <2>1. q[1] \in Boxes /\ q[2] \in Links
    BY <1>4 DEF Ports
  <2>2. QED
    BY <2>1, CommandTyped DEF Packet
<1>12. IsNext(q, 3, x)
  BY <1>0, <1>4, InOrder
<1> HIDE DEF x
<1>13. ASSUME NEW p \in Ports, NEW n \in Nat, NEW r \in Nat, Progress(p, n, r), r <= n
       PROVE  IF p = q THEN IsNext(p, n, x) /\ Progress(p, n + 1, r)' ELSE Progress(p, n, r)'
  <2>1. /\ n = Base(p) + 1 + (IF IdOf(p) = Bridge THEN 0
                              ELSE Before(TempRank(p), link.k)
                                     + Before(TempRank(p), link.k + 1))
        /\ r = Base(p) + 1
    BY <1>0, <1>13 DEF Progress
  <2>2. /\ Base(p)' = Base(p) /\ TempRank(p)' = TempRank(p) /\ IdOf(p)' = IdOf(p)
        /\ TempRank(p) \in Nat /\ Base(p) \in {1, 2} /\ (IdOf(p) # Bridge => Base(p) = 1)
        /\ (IdOf(p) # Bridge => TempRank(p) < NumBoards)
    BY <1>0, <1>7, SameTables, TempRanks, InOrder
  <2>3. p = q => Before(TempRank(p), link.k) = 0 /\ Before(TempRank(p), link.k + 1) = 1
    BY <1>0, <1>4 DEF Before
  <2>4. p # q => Before(TempRank(p), link.k) = Before(TempRank(p), link.k + 1)
    <3>1. p # q => TempRank(p) # link.k
      BY <1>4
    <3>2. QED
      BY <1>0, <2>2, <3>1 DEF Before
  <2>a. Before(TempRank(p), link.k) \in {0, 1} /\ Before(TempRank(p), link.k + 1) \in {0, 1}
    BY DEF Before
  <2>5. ASSUME NEW m \in Nat,
               m = Base(p) + 1 + 2 * (IF IdOf(p) = Bridge THEN 0
                                      ELSE Before(TempRank(p), link.k + 1))
        PROVE  Progress(p, m, r)'
    <3>1. CASE link.k + 1 < NumBoards
      <4>1. link'.k = link.k + 1 /\ link'.st = "setDest"
        BY <1>6, <3>1
      <4>2. QED
        BY <2>1, <2>2, <2>5, <4>1 DEF Progress
    <3>2. CASE ~ (link.k + 1 < NumBoards)
      <4>1. link'.k = 0 /\ link'.st = "poll"
        BY <1>6, <3>2
      <4>2. IdOf(p) # Bridge => Before(TempRank(p), link.k + 1) = 1
        BY <1>0, <2>2, <3>2 DEF Before
      <4>3. m = Base(p) + (IF IdOf(p) = Bridge THEN 1 ELSE 3)
        BY <2>2, <2>5, <4>2
      <4>4. QED
        BY <2>1, <2>2, <4>1, <4>3 DEF Progress
    <3>3. QED
      BY <3>1, <3>2
  <2>6. CASE p = q
    <3>1. n = 3 /\ n + 1 = Base(p) + 1 + 2 * Before(TempRank(p), link.k + 1)
      BY <1>4, <2>1, <2>2, <2>3, <2>6
    <3>2. QED
      BY <1>4, <1>12, <2>5, <2>6, <3>1
  <2>7. CASE p # q
    <3>1. n = Base(p) + 1 + 2 * (IF IdOf(p) = Bridge THEN 0
                                 ELSE Before(TempRank(p), link.k + 1))
      BY <2>1, <2>2, <2>4, <2>7, <2>a
    <3>2. QED
      BY <2>5, <2>7, <3>1
  <2>8. QED
    BY <2>6, <2>7
<1>14. QED
  BY <1>0, <1>1, <1>4, <1>7, <1>8, <1>9, <1>10, <1>11, <1>13, AskKeeps

-----------------------------------------------------------------------------
(* The replies.                                                            *)

\* The first reply of a board answers the query, the last tells the temperature.
LEMMA ReplyCodes ==
  ASSUME NEW b \in Boxes, NEW l, NEW id \in {Bridge} \cup Identities, NEW x,
         NEW i \in Nat, i + 1 \in 1 .. Len(Stream(b, l, id, Replies)),
         Carries(x, Stream(b, l, id, Replies), i)
  PROVE  /\ ChannelOf(x.bytes) = Replies
         /\ i = 0 => x.bytes = Answer(id)
         /\ id = Bridge /\ b = Master /\ i = 1 => x.bytes = Answer(id)
         /\ i = (IF id = Bridge /\ b = Master THEN 2 ELSE 1) => x.bytes = TempOut
<1>1. Replies \in Channels
  BY DEF Channels
<1>2. x.bytes = Stream(b, l, id, Replies)[i + 1]
  BY DEF Carries, Item
<1>3. ChannelOf(x.bytes) = Replies
  BY <1>1, <1>2, StreamShape
<1>4. Stream(b, l, id, Replies) =
        IF id = Bridge /\ b = Master THEN <<Answer(id), Answer(id), TempOut>>
        ELSE <<Answer(id), TempOut>>
  BY DEF Stream
<1>5. i = 0 => x.bytes = Answer(id)
  BY <1>2, <1>4
<1>6. id = Bridge /\ b = Master /\ i = 1 => x.bytes = Answer(id)
  BY <1>2, <1>4
<1>7. i = (IF id = Bridge /\ b = Master THEN 2 ELSE 1) => x.bytes = TempOut
  BY <1>2, <1>4
<1>8. QED
  BY <1>3, <1>5, <1>6, <1>7

\* IdleEnabled keeps the invariant: what it takes is the second answer of the
\* master box's bridge.
LEMMA IdleEnabledKeeps ==
  ASSUME IInv, IdleEnabled
  PROVE  IInv'
<1> DEFINE x == Received(Master)
<1>0. /\ ChainOK /\ link.st = "enabled" /\ link.k = 0 /\ link \in LinkType /\ Master \in Boxes
      /\ NumBoards + NumBoxes \in Nat \ {0}
  BY Shape, Counts, LinkTyped DEF IInv, TypeOK, TurnOK, IdleEnabled
<1>1. /\ GetPacket(Master) /\ text' = text
      /\ link' = Checked(Master, QUERY, [link EXCEPT !.st = "askTemp"])
  BY DEF IdleEnabled
<1>2. chain' = chain
  BY <1>1 DEF GetPacket, boardVars
<1>3. PICK q \in Ports, n \in Nat, g \in [Channels -> Nat] :
        /\ q = <<Master, x.link>> /\ q[1] = Master /\ x.link = q[2] /\ At(q, n, g)
        /\ g[Replies] + 1 <= n
        /\ g[Replies] + 1 \in 1 .. Len(Stream(q[1], q[2], IdOf(q), Replies))
        /\ Carries(x, Stream(q[1], q[2], IdOf(q), Replies), g[Replies])
  BY <1>0, <1>1, Heard
<1>4. x = Received(Master)
  OBVIOUS
<1> HIDE DEF x
<1>5. n = Base(q) /\ g[Replies] = 1
  BY <1>0, <1>3 DEF At, Progress
<1>6. Base(q) = 2 /\ IdOf(q) = Bridge
  BY <1>0, <1>3, <1>5, InOrder
<1>7. ChannelOf(x.bytes) = Replies /\ x.bytes = Answer(Bridge)
  BY <1>0, <1>3, <1>5, <1>6, ReplyCodes
<1>8. link' = [link EXCEPT !.st = "askTemp"]
  BY <1>1, <1>4, <1>7 DEF Checked, Answer
<1>9. "askTemp" \in Stages
  BY DEF Stages
<1>10. link' \in LinkType /\ SameLinks(link, link') /\ link'.k = 0 /\ link'.st = "askTemp"
  BY <1>0, <1>8, <1>9, Stage
<1>11. TablesStay /\ LinkTypeOK'
  BY <1>1, <1>2, <1>10, LinkTyped
<1>12. TablesOK'
  <2>1. link.st \in Asking \ {"query", "response"} /\ link'.st \in Asking \ {"query", "response"}
    BY <1>0, <1>10 DEF Asking
  <2>2. QED
    BY <1>11, <2>1, TablesFull
<1>13. TurnOK'
  <2>1. text' = NoText
    BY <1>0, <1>1 DEF IInv, TurnOK
  <2>2. QED
    BY <1>0, <1>10, <2>1 DEF TurnOK
<1>14. Talks
  BY <1>0, <1>10 DEF Talks, Asking, SameLinks
<1>15. ASSUME NEW p \in Ports, NEW m \in Nat, NEW r \in Nat, Progress(p, m, r), r <= m
       PROVE  IF p = q THEN r + 1 <= m => Progress(p, m, r + 1)' ELSE Progress(p, m, r)'
  <2>1. m = Base(p) /\ r = 1
    BY <1>0, <1>15 DEF Progress
  <2>2. Base(p)' = Base(p) /\ TempRank(p)' = TempRank(p) /\ TempRank(p) \in Nat
    BY <1>0, <1>11, SameTables, TempRanks
  <2>3. Before(TempRank(p), 0) = 0
    BY <2>2 DEF Before
  <2>4. p # q => Base(p) = 1
    BY <1>0, <1>3, <1>6, InOrder, BridgePort
  <2>5. ASSUME NEW s \in Nat, s = Base(p)
        PROVE  Progress(p, m, s)'
    BY <1>10, <2>1, <2>2, <2>3, <2>5 DEF Progress
  <2>6. QED
    BY <1>6, <2>1, <2>4, <2>5
<1>16. QED
  BY <1>0, <1>1, <1>3, <1>4, <1>7, <1>11, <1>12, <1>13, <1>14, <1>15, ReplyKeeps

\* GetTemp keeps the invariant: what it takes is the temperature asked for.
LEMMA GetTempKeeps ==
  ASSUME IInv, GetTemp
  PROVE  IInv'
<1> DEFINE t == TempPort(link.k)
           b == t[1]
           x == Received(b)
           all == NumBoards + NumBoxes
           lk == [link EXCEPT !.st = "askTemp"]
<1>0. /\ ChainOK /\ link.st = "getTemp" /\ link.k < all /\ link \in LinkType /\ link.k \in Nat
      /\ all \in Nat /\ all > 0 /\ NumBoards > 0 /\ Cardinality(Mesh) = NumBoards
  BY Shape, Counts, LinkTyped DEF IInv, TypeOK, TurnOK, GetTemp
<1>1. /\ GetPacket(b) /\ text' = text /\ link' = Checked(b, TEMP, Turn(lk, all, "setDest"))
  BY <1>0 DEF GetTemp
<1>2. chain' = chain
  BY <1>1 DEF GetPacket, boardVars
<1>3. \A p \in Ports : Known(p)
  BY <1>0 DEF IInv, TablesOK, Asking
<1>4. t \in Ports /\ TempRank(t) = link.k /\ \A p \in Ports : TempRank(p) = link.k => p = t
  <2>1. link.k \in 0 .. all - 1
    BY <1>0
  <2>a. \A k \in 0 .. NumBoards + NumBoxes - 1 :
          TempPort(k) \in Ports /\ TempRank(TempPort(k)) = k
    BY <1>0, <1>3, Tabled
  <2>b. \A k \in 0 .. all - 1 : TempPort(k) \in Ports /\ TempRank(TempPort(k)) = k
    BY <2>a, Shape
  <2> HIDE DEF all
  <2>2. t \in Ports /\ TempRank(t) = link.k
    BY <2>1, <2>b
  <2> HIDE DEF t
  <2>3. QED
    BY <1>0, <2>2, TempRanks
<1>5. t[1] \in Boxes
  BY <1>4 DEF Ports
<1> HIDE DEF t
<1>6. PICK q \in Ports, n \in Nat, g \in [Channels -> Nat] :
        /\ q[1] = b /\ x.link = q[2] /\ At(q, n, g)
        /\ g[Replies] + 1 <= n
        /\ g[Replies] + 1 \in 1 .. Len(Stream(q[1], q[2], IdOf(q), Replies))
        /\ Carries(x, Stream(q[1], q[2], IdOf(q), Replies), g[Replies])
  BY <1>0, <1>1, <1>5, Heard
<1>7. x = Received(q[1]) /\ GetPacket(q[1])
  BY <1>1, <1>6
<1>8. /\ TempRank(q) \in Nat /\ Base(q) \in {1, 2} /\ IdOf(q) \in {Bridge} \cup Identities
      /\ q[1] \in Boxes
  BY <1>0, TempRanks, InOrder, IdTyped
<1>9. /\ n = Base(q) + Before(TempRank(q), link.k + 1)
      /\ g[Replies] = Base(q) + Before(TempRank(q), link.k)
  BY <1>0, <1>6 DEF At, Progress
<1>10. TempRank(q) = link.k
  <2>1. Before(TempRank(q), link.k) = 0 /\ Before(TempRank(q), link.k + 1) = 1
    BY <1>6, <1>8, <1>9 DEF Before
  <2>2. QED
    BY <1>0, <1>8, <2>1 DEF Before
<1>11. g[Replies] = Base(q)
  BY <1>8, <1>9, <1>10 DEF Before
<1>12. ChannelOf(x.bytes) = Replies /\ x.bytes = TempOut
  <2>1. g[Replies] = (IF IdOf(q) = Bridge /\ q[1] = Master THEN 2 ELSE 1)
    BY <1>11 DEF Base
  <2>2. g[Replies] \in Nat
    BY <1>8, <1>11
  <2> HIDE DEF x
  <2>3. QED
    BY <1>6, <1>8, <2>1, <2>2, ReplyCodes
<1> HIDE DEF all, lk
<1>13. link' = Turn(lk, all, "setDest")
  BY <1>1, <1>12 DEF Checked, TempOut
<1> HIDE DEF x, b
<1>14. "askTemp" \in Stages /\ "setDest" \in Stages
  BY DEF Stages
<1>15. lk \in LinkType /\ SameLinks(link, lk) /\ lk.k = link.k /\ lk.st = "askTemp"
  BY <1>0, <1>14, Stage DEF lk
<1>16. /\ link' \in LinkType /\ SameLinks(lk, link')
       /\ link.k + 1 < all => link'.k = link.k + 1 /\ link'.st = "askTemp"
       /\ ~ (link.k + 1 < all) => link'.k = 0 /\ link'.st = "setDest"
  BY <1>13, <1>14, <1>15, Turns
<1>17. SameLinks(link, link')
  BY <1>15, <1>16 DEF SameLinks
<1>18. TablesStay /\ LinkTypeOK'
  BY <1>1, <1>2, <1>16, <1>17, LinkTyped
<1>19. TablesOK'
  <2>1. link.st \in Asking \ {"query", "response"} /\ link'.st \in Asking \ {"query", "response"}
    BY <1>0, <1>16 DEF Asking
  <2>2. QED
    BY <1>18, <2>1, TablesFull
<1>20. TurnOK'
  <2>1. text' = NoText
    BY <1>0, <1>1 DEF IInv, TurnOK
  <2>2. QED
    BY <1>0, <1>16, <2>1 DEF TurnOK, all
<1>21. Talks
  BY <1>0, <1>16, <1>17 DEF Talks, Asking, SameLinks
<1>22. ASSUME NEW p \in Ports, NEW m \in Nat, NEW r \in Nat, Progress(p, m, r), r <= m
       PROVE  IF p = q THEN r + 1 <= m => Progress(p, m, r + 1)' ELSE Progress(p, m, r)'
  <2>1. /\ m = Base(p) + Before(TempRank(p), link.k + 1)
        /\ r = Base(p) + Before(TempRank(p), link.k)
    BY <1>0, <1>22 DEF Progress
  <2>2. /\ Base(p)' = Base(p) /\ TempRank(p)' = TempRank(p) /\ IdOf(p)' = IdOf(p)
        /\ TempRank(p) \in Nat /\ Base(p) \in {1, 2} /\ TempRank(p) < all
    <3>1. TempRank(p) \in Nat /\ TempRank(p) < all
      BY <1>0, TempRanks, Shape DEF all
    <3>2. QED
      BY <1>0, <1>18, <3>1, SameTables, InOrder
  <2>3. p = q => Before(TempRank(p), link.k) = 0 /\ Before(TempRank(p), link.k + 1) = 1
    BY <1>0, <1>10 DEF Before
  <2>4. p # q => Before(TempRank(p), link.k) = Before(TempRank(p), link.k + 1)
    <3>1. p # q => TempRank(p) # link.k
      BY <1>4, <1>10
    <3>2. QED
      BY <1>0, <2>2, <3>1 DEF Before
  <2>5. ASSUME NEW s \in Nat, s = Base(p) + Before(TempRank(p), link.k + 1)
        PROVE  Progress(p, m, s)'
    <3>1. CASE link.k + 1 < all
      <4>1. link'.k = link.k + 1 /\ link'.st = "askTemp"
        BY <1>16, <3>1
      <4>2. QED
        BY <2>1, <2>2, <2>5, <4>1 DEF Progress
    <3>2. CASE ~ (link.k + 1 < all)
      <4>1. link'.k = 0 /\ link'.st = "setDest"
        BY <1>16, <3>2
      <4>2. Before(TempRank(p), link.k + 1) = 1 /\ Before(TempRank(p), 0) = 0
        BY <1>0, <2>2, <3>2 DEF Before
      <4>3. m = Base(p) + 1 + 2 * (IF IdOf(p) = Bridge THEN 0 ELSE Before(TempRank(p), 0))
        BY <2>1, <2>2, <4>2
      <4>4. QED
        BY <2>1, <2>2, <2>5, <4>1, <4>2, <4>3 DEF Progress
    <3>3. QED
      BY <3>1, <3>2
  <2>6. p = q => r + 1 = Base(p) + Before(TempRank(p), link.k + 1)
    BY <2>1, <2>2, <2>3
  <2>7. p # q => r = Base(p) + Before(TempRank(p), link.k + 1)
    BY <2>1, <2>4
  <2>8. QED
    BY <2>5, <2>6, <2>7
<1>23. QED
  BY <1>0, <1>1, <1>6, <1>7, <1>12, <1>18, <1>19, <1>20, <1>21, <1>22, ReplyKeeps

\* A reply puts its board, and no other, in the tables.
LEMMA Records ==
  ASSUME ChainOK, chain' = chain, link \in LinkType, NEW lk \in LinkType, SameLinks(link, lk),
         NEW q \in Ports, Unknown(q), NEW x, x.link = q[2], x.bytes = Answer(IdOf(q)),
         link' = Recorded(lk, q[1], x)
  PROVE  /\ link' \in LinkType /\ link'.st = lk.st /\ link'.k = lk.k /\ link'.conn = link.conn
         /\ Known(q)'
         /\ \A p \in Ports : p # q => (Known(p)' <=> Known(p)) /\ (Unknown(p)' <=> Unknown(p))
<1>0. /\ q[1] \in Boxes /\ q[2] \in Links /\ q = <<q[1], q[2]>>
      /\ IdOf(q) \in {Bridge} \cup Identities
  BY IdTyped
<1>a. \A p \in Ports : /\ IdOf(p)' = IdOf(p) /\ Home(p)' = Home(p) /\ p = <<p[1], p[2]>>
                       /\ p[1] \in Boxes
  BY DEF IdOf, Home, Ports
<1>1. /\ lk.portOf = link.portOf /\ lk.boardOf = link.boardOf /\ lk.bridge = link.bridge
      /\ lk.conn = link.conn
  BY DEF SameLinks
<1>2. CASE IdOf(q) = Bridge
  <2>1. x.bytes[2] = 0
    BY <1>2 DEF Answer, Bridge
  <2> DEFINE B == [link.bridge EXCEPT ![q[1]] = <<q[2]>>]
  <2>2. link' = [lk EXCEPT !.bridge = B]
    BY <1>1, <2>1 DEF Recorded
  <2>3. /\ B \in [Boxes -> {None} \cup {<<l>> : l \in Links}] /\ B[q[1]] = <<q[2]>>
        /\ \A c \in Boxes : c # q[1] => B[c] = link.bridge[c]
    BY <1>0 DEF LinkType
  <2> HIDE DEF B
  <2>4. /\ link' \in LinkType /\ link'.st = lk.st /\ link'.k = lk.k /\ link'.conn = link.conn
        /\ link'.bridge = B /\ link'.portOf = link.portOf /\ link'.boardOf = link.boardOf
    BY <1>1, <2>2, <2>3 DEF LinkType
  <2>5. Known(q)'
    BY <1>2, <1>a, <2>3, <2>4 DEF Known
  <2>6. ASSUME NEW p \in Ports, p # q
        PROVE  (Known(p)' <=> Known(p)) /\ (Unknown(p)' <=> Unknown(p))
    <3>1. IdOf(p) = Bridge => p[1] # q[1]
      BY <1>2, <2>6, BridgePort
    <3>2. IdOf(p) = Bridge => link'.bridge[p[1]] = link.bridge[p[1]]
      BY <1>a, <2>3, <2>4, <3>1
    <3>3. QED
      BY <1>a, <2>4, <3>2 DEF Known, Unknown
  <2>7. QED
    BY <2>4, <2>5, <2>6
<1>3. CASE IdOf(q) # Bridge
  <2>1. IdOf(q) \in Nat /\ Home(q) \in Mesh /\ link.portOf[Home(q)] = None
    BY <1>0, <1>3, IdentityShape, HomeShape DEF Unknown
  <2>2. x.bytes[2] = 1 + IdOf(q)
    BY DEF Answer
  <2>3. x.bytes[2] # 0 /\ x.bytes[2] - 1 = IdOf(q)
    BY <2>1, <2>2
  <2>4. Coords(q[1], x.bytes[2] - 1) = Home(q)
    BY <2>3 DEF Home
  <2> DEFINE P == [link.portOf EXCEPT ![Home(q)] = q]
             H == [link.boardOf EXCEPT ![q] = Home(q)]
  <2>5. link' = [lk EXCEPT !.portOf = P, !.boardOf = H]
    <3>1. link' = [lk EXCEPT !.portOf[Home(q)] = q, !.boardOf[q] = Home(q),
                             !.st = lk.st]
      BY <1>0, <1>1, <1>3, <2>1, <2>3, <2>4 DEF Recorded
    <3>2. QED
      BY <1>1, <3>1 DEF LinkType
  <2>6. /\ P \in [Mesh -> {None} \cup Ports] /\ P[Home(q)] = q
        /\ \A xy \in Mesh : xy # Home(q) => P[xy] = link.portOf[xy]
    BY <2>1 DEF LinkType
  <2>7. /\ H \in [Ports -> {None} \cup Mesh] /\ H[q] = Home(q)
        /\ \A p \in Ports : p # q => H[p] = link.boardOf[p]
    BY <2>1 DEF LinkType
  <2> HIDE DEF P, H
  <2>8. /\ link' \in LinkType /\ link'.st = lk.st /\ link'.k = lk.k /\ link'.conn = link.conn
        /\ link'.bridge = link.bridge /\ link'.portOf = P /\ link'.boardOf = H
    <3> DEFINE m == [lk EXCEPT !.portOf = P]
    <3>1. /\ m \in LinkType /\ m.st = lk.st /\ m.k = lk.k /\ m.conn = link.conn
          /\ m.bridge = link.bridge /\ m.portOf = P
      BY <1>1, <2>6 DEF LinkType
    <3>2. link' = [m EXCEPT !.boardOf = H]
      BY <2>5 DEF LinkType
    <3> HIDE DEF m
    <3>3. QED
      BY <2>7, <3>1, <3>2 DEF LinkType
  <2>9. Known(q)'
    BY <1>3, <1>a, <2>6, <2>7, <2>8 DEF Known
  <2>10. ASSUME NEW p \in Ports, p # q
         PROVE  (Known(p)' <=> Known(p)) /\ (Unknown(p)' <=> Unknown(p))
    <3>1. IdOf(p) # Bridge => Home(p) \in Mesh /\ Home(p) # Home(q)
      BY <1>3, <2>10, HomeShape
    <3>2. IdOf(p) # Bridge => link'.portOf[Home(p)] = link.portOf[Home(p)]
      BY <2>6, <2>8, <3>1
    <3>3. link'.boardOf[p] = link.boardOf[p]
      BY <2>7, <2>8, <2>10
    <3>4. QED
      BY <1>a, <2>8, <3>2, <3>3 DEF Known, Unknown
  <2>11. QED
    BY <2>8, <2>9, <2>10
<1>4. QED
  BY <1>2, <1>3

\* The boards of a box, in their slots of the loop.
LEMMA Slots ==
  /\ \A b \in Boxes : NumLinks * BoxRank(b) \in Nat
  /\ \A b, c \in Boxes : BoxRank(b) < BoxRank(c)
       => NumLinks * BoxRank(b) + NumLinks <= NumLinks * BoxRank(c)
  /\ \A b \in Boxes : NumLinks * BoxRank(b) + NumLinks <= NumBoxes * NumLinks
<1>1. \A n, s, r \in Nat : s < r => n * s + n <= n * r
  <2>1. ASSUME NEW n \in Nat, NEW s \in Nat, NEW r \in Nat, s < r
        PROVE  n * s + n <= n * r
    <3> DEFINE t == r - s - 1
    <3>1. t \in Nat /\ r = s + 1 + t
      BY <2>1
    <3> HIDE DEF t
    <3> DEFINE a == n * s
               d == n * t
    <3>2. n * r = a + n + d /\ a \in Nat /\ d \in Nat
      BY <3>1
    <3> HIDE DEF a, d
    <3>3. a + n <= n * r
      BY <3>2
    <3>4. QED
      BY <3>3 DEF a
  <2>2. QED
    BY <2>1
<1>2. NumLinks \in Nat /\ NumBoxes \in Nat /\ \A b \in Boxes : BoxRank(b) \in 0 .. NumBoxes - 1
  BY Shape, BoxRanks
<1>3. \A b \in Boxes : NumLinks * BoxRank(b) \in Nat
  BY <1>2
<1>4. \A b, c \in Boxes : BoxRank(b) < BoxRank(c)
       => NumLinks * BoxRank(b) + NumLinks <= NumLinks * BoxRank(c)
  BY <1>1, <1>2
<1>5. ASSUME NEW b \in Boxes
      PROVE  NumLinks * BoxRank(b) + NumLinks <= NumBoxes * NumLinks
  <2>1. BoxRank(b) \in Nat /\ BoxRank(b) < NumBoxes
    BY <1>2
  <2>2. NumLinks * BoxRank(b) + NumLinks <= NumLinks * NumBoxes
    BY <1>1, <1>2, <2>1
  <2>3. QED
    BY <1>2, <2>2
<1>6. QED
  BY <1>3, <1>4, <1>5

\* GetResponse keeps the invariant: whichever board of the box answers, it was
\* not in the tables, and its place in the mesh was empty.
LEMMA GetResponseKeeps ==
  ASSUME IInv, GetResponse
  PROVE  IInv'
<1> DEFINE k == link.k
           at == BoxAt(k \div NumLinks)
           x == Received(at)
           all == NumBoxes * NumLinks
           lk == Turn(link, all, "enable")
<1>0. /\ ChainOK /\ link.st = "response" /\ k < all /\ link \in LinkType /\ k \in Nat
      /\ all \in Nat /\ NumLinks \in Nat \ {0}
  BY Shape, LinkTyped DEF IInv, TypeOK, TurnOK, GetResponse
<1>1. /\ GetPacket(at) /\ text' = text /\ link' = Checked(at, QUERY, Recorded(lk, at, x))
  BY DEF GetResponse
<1>2. chain' = chain
  BY <1>1 DEF GetPacket, boardVars
<1>3. PICK b \in Boxes :
        b = at /\ NumLinks * BoxRank(b) <= k /\ k < NumLinks * BoxRank(b) + NumLinks
  <2>1. k \in 0 .. all - 1
    BY <1>0
  <2> DEFINE b == at
  <2>2. /\ <<b, k % NumLinks>> \in Ports
        /\ BoxRank(b) = k \div NumLinks /\ k % NumLinks \in 0 .. NumLinks - 1
        /\ k = (k % NumLinks) + NumLinks * (k \div NumLinks)
    BY <2>1, PortRanks
  <2>3. b \in Boxes
    BY <2>2 DEF Ports
  <2> DEFINE r == k % NumLinks
             m == NumLinks * BoxRank(b)
  <2>4. k = r + m /\ r \in 0 .. NumLinks - 1 /\ m \in Nat
    BY <2>2, <2>3, Slots
  <2> HIDE DEF r, m
  <2>5. m <= k /\ k < m + NumLinks
    BY <1>0, <2>4
  <2>6. QED
    BY <2>3, <2>5 DEF m
<1> HIDE DEF at
<1>4. PICK q \in Ports, n \in Nat, g \in [Channels -> Nat] :
        /\ q[1] = b /\ x.link = q[2] /\ At(q, n, g)
        /\ g[Replies] + 1 <= n
        /\ g[Replies] + 1 \in 1 .. Len(Stream(q[1], q[2], IdOf(q), Replies))
        /\ Carries(x, Stream(q[1], q[2], IdOf(q), Replies), g[Replies])
  BY <1>0, <1>1, <1>3, Heard
<1>b. x = Received(b) /\ GetPacket(b) /\ link' = Checked(b, QUERY, Recorded(lk, b, x))
  BY <1>1, <1>3
<1>5. x = Received(q[1]) /\ GetPacket(q[1])
  BY <1>4, <1>b
<1>6. g[Replies] = 0 /\ ~ Known(q)
  <2>1. n = 1 /\ g[Replies] \in {0, 1} /\ (g[Replies] = 1 <=> Known(q))
    BY <1>0, <1>4 DEF At, Progress
  <2>2. QED
    BY <1>4, <2>1
<1>7. Unknown(q) /\ IdOf(q) \in {Bridge} \cup Identities
  BY <1>0, <1>6, IdTyped DEF IInv, TablesOK
<1> HIDE DEF x
<1>8. ChannelOf(x.bytes) = Replies /\ x.bytes = Answer(IdOf(q))
  BY <1>3, <1>4, <1>6, <1>7, ReplyCodes
<1>9. link' = Recorded(lk, q[1], x)
  <2>1. x.bytes[1] = QUERY
    BY <1>8 DEF Answer
  <2>2. QED
    BY <1>4, <1>b, <2>1 DEF Checked
<1>10. "enable" \in Stages
  BY DEF Stages
<1> HIDE DEF all, lk
<1>11. /\ lk \in LinkType /\ SameLinks(link, lk)
       /\ k + 1 < all => lk.k = k + 1 /\ lk.st = "response"
       /\ ~ (k + 1 < all) => lk.k = 0 /\ lk.st = "enable"
  BY <1>0, <1>10, Turns DEF lk
<1>12. /\ link' \in LinkType /\ link'.st = lk.st /\ link'.k = lk.k /\ link'.conn = link.conn
       /\ Known(q)'
  BY <1>0, <1>2, <1>4, <1>7, <1>8, <1>9, <1>11, Records
<1>13. \A p \in Ports : p # q => (Known(p)' <=> Known(p)) /\ (Unknown(p)' <=> Unknown(p))
  BY <1>0, <1>2, <1>4, <1>7, <1>8, <1>9, <1>11, Records
<1>14. LinkTypeOK'
  BY <1>1, <1>12, LinkTyped
<1>15. TurnOK'
  <2>1. text' = NoText
    BY <1>0, <1>1 DEF IInv, TurnOK
  <2>2. QED
    BY <1>0, <1>11, <1>12, <2>1 DEF TurnOK, all
<1>16. Talks
  BY <1>0, <1>11, <1>12 DEF Talks, Asking
<1>17. \A p \in Ports : p = <<p[1], p[2]>> /\ p[1] \in Boxes /\ p[2] \in Links
  BY DEF Ports
<1>a. IsFiniteSet(Links) /\ Cardinality(Links) = NumLinks
  BY Counts
<1>18. ASSUME NEW c \in Boxes, c # b
       PROVE  KnownOf(c)' = KnownOf(c)
  <2>1. \A l \in Links : <<c, l>> \in Ports /\ <<c, l>> # q
    BY <1>4, <1>18 DEF Ports
  <2>2. \A l \in Links : Known(<<c, l>>)' <=> Known(<<c, l>>)
    BY <1>13, <2>1
  <2>3. QED
    BY <2>2 DEF KnownOf
<1>19. /\ Cardinality(KnownOf(b)') = Cardinality(KnownOf(b)) + 1
       /\ KnownOf(b)' \subseteq Links
  <2>1. q[2] \in Links /\ q = <<b, q[2]>>
    BY <1>4, <1>17
  <2>2. \A l \in Links : <<b, l>> \in Ports /\ (<<b, l>> = q <=> l = q[2])
    BY <1>3, <2>1 DEF Ports
  <2>3. \A l \in Links : Known(<<b, l>>)' <=> Known(<<b, l>>) \/ l = q[2]
    BY <1>12, <1>13, <2>1, <2>2
  <2>4. KnownOf(b)' = KnownOf(b) \cup {q[2]}
    BY <2>1, <2>3 DEF KnownOf
  <2>5. q[2] \notin KnownOf(b)
    BY <1>6, <2>1 DEF KnownOf
  <2>6. KnownOf(b) \subseteq Links /\ IsFiniteSet(KnownOf(b))
    <3>1. KnownOf(b) \subseteq Links
      BY DEF KnownOf
    <3>2. QED
      BY <1>a, <3>1, FS_Subset
  <2>7. Cardinality(KnownOf(b) \cup {q[2]}) = Cardinality(KnownOf(b)) + 1
    BY <2>5, <2>6, FS_AddElement
  <2>8. QED
    BY <2>1, <2>4, <2>6, <2>7
<1>20. /\ Cardinality(KnownOf(b)') = (k + 1) - NumLinks * BoxRank(b)
       /\ (k + 1 = NumLinks * BoxRank(b) + NumLinks => KnownOf(b)' = Links)
  <2> DEFINE m == NumLinks * BoxRank(b)
  <2>1. m \in Nat /\ m <= k /\ k < m + NumLinks
    BY <1>3, Slots
  <2>2. m <= k /\ k <= m + NumLinks => Cardinality(KnownOf(b)) = k - m
    BY <1>0, <1>3 DEF IInv, TablesOK
  <2> HIDE DEF m
  <2>3. Cardinality(KnownOf(b)') = (k + 1) - m
    BY <1>0, <1>19, <2>1, <2>2
  <2>4. k + 1 = m + NumLinks => KnownOf(b)' = Links
    <3>1. ASSUME k + 1 = m + NumLinks
          PROVE  Cardinality(KnownOf(b)') = Cardinality(Links)
      BY <1>0, <1>a, <2>1, <2>3, <3>1
    <3> DEFINE S == KnownOf(b)'
    <3> HIDE DEF S
    <3>2. S \subseteq Links
      BY <1>19 DEF S
    <3>3. Cardinality(S) = Cardinality(Links) => S = Links
      BY <1>a, <3>2, FS_Subset
    <3>4. QED
      BY <3>1, <3>3 DEF S
  <2>5. QED
    BY <2>3, <2>4 DEF m
<1>21. ASSUME NEW c \in Boxes
       PROVE  /\ k + 1 <= NumLinks * BoxRank(c) => KnownOf(c)' = {}
              /\ k + 1 >= NumLinks * BoxRank(c) + NumLinks => KnownOf(c)' = Links
              /\ NumLinks * BoxRank(c) <= k + 1 /\ k + 1 <= NumLinks * BoxRank(c) + NumLinks
                   => Cardinality(KnownOf(c)') = (k + 1) - NumLinks * BoxRank(c)
  <2> DEFINE m == NumLinks * BoxRank(b)
             o == NumLinks * BoxRank(c)
  <2>1. m \in Nat /\ o \in Nat /\ m <= k /\ k < m + NumLinks
    BY <1>3, Slots
  <2>2. /\ k <= o => KnownOf(c) = {}
        /\ k >= o + NumLinks => KnownOf(c) = Links
    BY <1>0 DEF IInv, TablesOK
  <2>3. /\ BoxRank(b) < BoxRank(c) => m + NumLinks <= o
        /\ BoxRank(c) < BoxRank(b) => o + NumLinks <= m
    BY <1>3, Slots
  <2>4. c # b => BoxRank(c) < BoxRank(b) \/ BoxRank(b) < BoxRank(c)
    <3>1. BoxRank(c) = BoxRank(b) => c = b
      BY <1>3, BoxRanks
    <3>2. BoxRank(c) \in Nat /\ BoxRank(b) \in Nat
      BY <1>3, BoxRanks
    <3>3. QED
      BY <3>1, <3>2
  <2>5. CASE c = b
    <3>1. m = o
      BY <2>5
    <3>a. KnownOf(c)' = KnownOf(b)'
      BY <2>5
    <3> HIDE DEF o
    <3>b. Cardinality(KnownOf(b)') = (k + 1) - m /\ (k + 1 = m + NumLinks => KnownOf(b)' = Links)
      BY <1>20
    <3> HIDE DEF m
    <3>2. Cardinality(KnownOf(c)') = (k + 1) - o /\ (k + 1 = o + NumLinks => KnownOf(c)' = Links)
      BY <3>1, <3>a, <3>b
    <3>3. ~ (k + 1 <= o) /\ (k + 1 >= o + NumLinks => k + 1 = o + NumLinks)
      BY <1>0, <2>1, <3>1
    <3>4. QED
      BY <3>2, <3>3 DEF o
  <2>6. CASE c # b
    <3>1. KnownOf(c)' = KnownOf(c)
      BY <1>18, <2>6
    <3> HIDE DEF m, o
    <3>2. CASE o + NumLinks <= m
      <4>1. k >= o + NumLinks /\ ~ (k + 1 <= o) /\ ~ (k + 1 <= o + NumLinks)
        BY <1>0, <2>1, <3>2
      <4>2. KnownOf(c)' = Links
        BY <2>2, <3>1, <4>1
      <4>3. QED
        BY <4>1, <4>2 DEF o
    <3>3. CASE m + NumLinks <= o
      <4>1. k <= o /\ ~ (k + 1 >= o + NumLinks) /\ (o <= k + 1 => (k + 1) - o = 0)
        BY <1>0, <2>1, <3>3
      <4>2. KnownOf(c)' = {}
        BY <2>2, <3>1, <4>1
      <4>3. Cardinality(KnownOf(c)') = 0
        BY <4>2, FS_EmptySet
      <4>4. QED
        BY <4>1, <4>2, <4>3 DEF o
    <3>4. QED
      BY <2>3, <2>4, <2>6, <3>2, <3>3
  <2>7. QED
    BY <2>5, <2>6
<1>22. ASSUME ~ (k + 1 < all)
       PROVE  \A p \in Ports : Known(p)'
  <2>1. ASSUME NEW p \in Ports PROVE Known(p)'
    <3>1. p[1] \in Boxes /\ p[2] \in Links /\ p = <<p[1], p[2]>>
      BY <1>17
    <3> DEFINE o == NumLinks * BoxRank(p[1])
    <3>2. o + NumLinks <= all /\ o \in Nat
      BY <3>1, Slots DEF all
    <3> HIDE DEF o
    <3>3. k + 1 >= o + NumLinks
      BY <1>0, <1>22, <3>2
    <3>4. KnownOf(p[1])' = Links
      BY <1>21, <3>1, <3>3 DEF o
    <3>5. Known(<<p[1], p[2]>>)'
      BY <3>1, <3>4 DEF KnownOf
    <3>6. QED
      BY <3>1, <3>5
  <2>2. QED
    BY <2>1
<1>23. TablesOK'
  <2>1. \A p \in Ports : Known(p)' \/ Unknown(p)'
    BY <1>12, <1>13 DEF IInv, TablesOK
  <2>2. CASE k + 1 < all
    <3>1. link'.st = "response" /\ link'.k = k + 1
      BY <1>11, <1>12, <2>2
    <3> DEFINE k2 == link'.k
    <3>2. k2 = k + 1
      BY <3>1
    <3> HIDE DEF k, k2
    <3>3. ASSUME NEW c \in Boxes
          PROVE  /\ k2 <= NumLinks * BoxRank(c) => KnownOf(c)' = {}
                 /\ k2 >= NumLinks * BoxRank(c) + NumLinks => KnownOf(c)' = Links
                 /\ NumLinks * BoxRank(c) <= k2 /\ k2 <= NumLinks * BoxRank(c) + NumLinks
                      => Cardinality(KnownOf(c)') = k2 - NumLinks * BoxRank(c)
      <4>1. k2 <= NumLinks * BoxRank(c) => KnownOf(c)' = {}
        BY <1>21, <3>2
      <4>2. k2 >= NumLinks * BoxRank(c) + NumLinks => KnownOf(c)' = Links
        BY <1>21, <3>2
      <4>3. NumLinks * BoxRank(c) <= k2 /\ k2 <= NumLinks * BoxRank(c) + NumLinks
              => Cardinality(KnownOf(c)') = k2 - NumLinks * BoxRank(c)
        <5>1. NumLinks * BoxRank(c) <= k + 1 /\ k + 1 <= NumLinks * BoxRank(c) + NumLinks
                => Cardinality(KnownOf(c)') = (k + 1) - NumLinks * BoxRank(c)
          BY <1>21
        <5> DEFINE o == NumLinks * BoxRank(c)
                   j == k + 1
        <5> HIDE DEF o, j
        <5>2. o <= j /\ j <= o + NumLinks => Cardinality(KnownOf(c)') = j - o
          BY <5>1 DEF o, j
        <5>3. k2 = j
          BY <3>2 DEF j
        <5>4. o <= k2 /\ k2 <= o + NumLinks => Cardinality(KnownOf(c)') = k2 - o
          BY <5>2, <5>3
        <5>5. QED
          BY <5>4 DEF o
      <4>4. QED
        BY <4>1, <4>2, <4>3
    <3>4. /\ link'.st = "response" /\ link'.st \notin Asking \ {"query", "response"}
          /\ link'.st \notin {"off", "exit", "connect", "ready", "query", "fail"}
      BY <3>1 DEF Asking
    <3>5. QED
      BY <2>1, <3>3, <3>4 DEF TablesOK, k2
  <2>3. CASE ~ (k + 1 < all)
    <3>1. link'.st = "enable"
      BY <1>11, <1>12, <2>3
    <3>2. QED
      BY <1>22, <2>1, <2>3, <3>1 DEF TablesOK, Asking
  <2>4. QED
    BY <2>2, <2>3
<1>24. ASSUME NEW p \in Ports, NEW m \in Nat, NEW r \in Nat, Progress(p, m, r), r <= m
       PROVE  IF p = q THEN r + 1 <= m => Progress(p, m, r + 1)' ELSE Progress(p, m, r)'
  <2>1. m = 1 /\ r \in {0, 1} /\ (r = 1 <=> Known(p))
    BY <1>0, <1>24 DEF Progress
  <2>2. ASSUME NEW s \in {0, 1}, s = 1 <=> Known(p)'
        PROVE  Progress(p, m, s)'
    <3>1. CASE k + 1 < all
      <4>1. link'.st = "response"
        BY <1>11, <1>12, <3>1
      <4>2. QED
        BY <2>1, <2>2, <4>1 DEF Progress
    <3>2. CASE ~ (k + 1 < all)
      <4>1. link'.st = "enable"
        BY <1>11, <1>12, <3>2
      <4>2. s = 1
        BY <1>22, <2>2, <3>2
      <4>3. QED
        BY <2>1, <4>1, <4>2 DEF Progress
    <3>3. QED
      BY <3>1, <3>2
  <2>3. p = q => (r + 1 <= m => r + 1 = 1 /\ Known(p)')
    BY <1>12, <2>1
  <2>4. p # q => (r = 1 <=> Known(p)')
    BY <1>13, <2>1
  <2>5. QED
    BY <2>1, <2>2, <2>3, <2>4
<1>25. QED
  BY <1>0, <1>1, <1>4, <1>5, <1>8, <1>14, <1>15, <1>16, <1>23, <1>24, ReplyKeeps

-----------------------------------------------------------------------------
(* The beginning and the end of a program.                                 *)

\* Tables of a new program are empty.
LEMMA NewTables ==
  ASSUME ChainOK, chain' = chain, link'.portOf = NewLink.portOf, link'.bridge = NewLink.bridge,
         link'.st \in {"off", "exit", "connect"}
  PROVE  TablesOK'
<1>1. ASSUME NEW p \in Ports PROVE Unknown(p)'
  <2>1. IdOf(p)' = IdOf(p) /\ Home(p)' = Home(p) /\ p[1] \in Boxes
    BY DEF IdOf, Home, Ports
  <2>2. IdOf(p) # Bridge => Home(p) \in Mesh
    BY HomeShape
  <2>3. QED
    BY <2>1, <2>2 DEF Unknown, NewLink
<1>2. /\ link'.st \notin {"response"} /\ link'.st \notin Asking \ {"query", "response"}
  BY DEF Asking
<1>3. QED
  BY <1>1, <1>2 DEF TablesOK

\* A program not begun, and empty line buffers, have their type.
LEMMA NewLinkTyped ==
  /\ NewLink \in LinkType /\ NewLink.conn = {} /\ NewLink.k = 0
  /\ NoText \in [Mesh \X Cores -> [lines : Seq(Seq(Int)), line : Seq(Int)]]
<1>1. 0 \in 0 .. NumBoxes - 1
  BY Shape
<1>2. "off" \in Stages
  BY DEF Stages
<1>3. /\ [b \in Boxes |-> None] \in [Boxes -> {None} \cup {<<l>> : l \in Links}]
      /\ [xy \in Mesh |-> None] \in [Mesh -> {None} \cup Ports]
      /\ [p \in Ports |-> None] \in [Ports -> {None} \cup Mesh]
  BY DEF None
<1>4. NewLink \in LinkType /\ NewLink.conn = {} /\ NewLink.k = 0
  <2> DEFINE B == [b \in Boxes |-> None]
             P == [xy \in Mesh |-> None]
             H == [p \in Ports |-> None]
  <2>1. NewLink = [st |-> "off", session |-> 0, k |-> 0, tries |-> 0, conn |-> {},
                   bridge |-> B, portOf |-> P, boardOf |-> H, tryNext |-> 0]
    BY DEF NewLink
  <2>2. /\ B \in [Boxes -> {None} \cup {<<l>> : l \in Links}]
        /\ P \in [Mesh -> {None} \cup Ports] /\ H \in [Ports -> {None} \cup Mesh]
    BY <1>3
  <2> HIDE DEF B, P, H
  <2>3. QED
    BY <1>1, <1>2, <2>1, <2>2 DEF LinkType
<1>5. NoText \in [Mesh \X Cores -> [lines : Seq(Seq(Int)), line : Seq(Int)]]
  <2> DEFINE none == <<>>
             t0 == [lines |-> none, line |-> none]
  <2>1. none \in Seq(Seq(Int)) /\ none \in Seq(Int)
    OBVIOUS
  <2>2. NoText = [t \in Mesh \X Cores |-> t0]
    BY DEF NoText
  <2>3. t0 \in [lines : Seq(Seq(Int)), line : Seq(Int)]
    <3> HIDE DEF none
    <3>1. QED
      BY <2>1
  <2> HIDE DEF t0
  <2>4. QED
    BY <2>2, <2>3
<1>6. QED
  BY <1>4, <1>5

\* Construct keeps the invariant.
LEMMA ConstructKeeps ==
  ASSUME IInv, Construct
  PROVE  IInv'
<1>0. /\ link.st \in {"off", "exit"} /\ ChainOK /\ BoxesTypeOK /\ ServerOK /\ PortsOK
      /\ link.conn = {} /\ text = NoText /\ link \in LinkType
  BY LinkTyped DEF Construct, IInv, TypeOK, TurnOK, ServerOK
<1>1. /\ link' = [NewLink EXCEPT !.st = "connect", !.session = link.session + 1]
      /\ text' = text /\ chain' = chain /\ board' = board /\ uart' = uart
      /\ printed' = printed /\ tcp' = tcp /\ server' = server /\ buffer' = buffer
  BY DEF Construct, ctrlVars, boardVars
<1>2. /\ link' \in LinkType /\ link'.st = "connect" /\ link'.k = 0 /\ link'.conn = {}
      /\ link'.portOf = NewLink.portOf /\ link'.bridge = NewLink.bridge
  <2> DEFINE lk == NewLink
             m == [lk EXCEPT !.st = "connect"]
  <2>1. link' = [m EXCEPT !.session = link.session + 1]
    BY <1>1, NewLinkTyped DEF LinkType
  <2>2. lk \in LinkType /\ lk.conn = {} /\ lk.k = 0
    BY NewLinkTyped
  <2>3. link.session + 1 \in Int
    BY <1>0 DEF LinkType
  <2> HIDE DEF lk
  <2>4. "connect" \in Stages
    BY DEF Stages
  <2>5. /\ m \in LinkType /\ m.conn = {} /\ m.k = 0 /\ m.st = "connect"
        /\ m.portOf = lk.portOf /\ m.bridge = lk.bridge
    BY <2>2, <2>4 DEF LinkType
  <2> HIDE DEF m
  <2>6. QED
    BY <2>1, <2>3, <2>5 DEF LinkType, lk
<1>3. LinkTypeOK' /\ ChainOK' /\ BoxesTypeOK'
  BY <1>0, <1>1, <1>2, LinkTyped DEF ChainOK, BoxesTypeOK
<1>4. TurnOK'
  BY <1>0, <1>1, <1>2, Shape DEF TurnOK
<1>5. TablesOK'
  BY <1>0, <1>1, <1>2, NewTables
<1>6. ServerOK' /\ ConnectionOK'
  <2>1. \A p : IdOf(p)' = IdOf(p)
    BY <1>1 DEF IdOf
  <2>2. link'.st \notin Asking \cup {"ready"}
    BY <1>2 DEF Asking
  <2>3. QED
    BY <1>0, <1>1, <1>2, <2>1, <2>2 DEF ServerOK, ConnectionOK
<1>7. PortsOK'
  <2>1. ASSUME NEW p \in Ports
        PROVE  Lone(p[1], p[2], IdOf(p), View(p))' \/ Stale(p)'
    <3>1. Lone(p[1], p[2], IdOf(p), View(p)) \/ Stale(p)
      BY <1>0 DEF PortsOK
    <3>2. IdOf(p)' = IdOf(p) /\ View(p)' = View(p)
      BY <1>1 DEF IdOf, View
    <3>3. Loose(p)' <=> Loose(p)
      BY <1>0, <1>1, <1>2 DEF Loose, IdOf
    <3>4. QED
      BY <3>1, <3>2, <3>3 DEF Stale
  <2>2. QED
    BY <1>2, <2>1 DEF PortsOK
<1>8. QED
  BY <1>3, <1>4, <1>5, <1>6, <1>7 DEF IInv, TypeOK

\* The program may end: if no bridge then owes it a reply, all are quiet.
LEMMA GoneKeeps ==
  ASSUME IInv, Gone, CalmEnds => link.st \in {"fail", "askTemp", "setDest", "put", "poll"}
  PROVE  IInv'
<1>0. /\ ChainOK /\ BoxesTypeOK /\ ServerOK /\ PortsOK /\ link \in LinkType
  BY LinkTyped DEF IInv, TypeOK
<1>1. /\ text' = NoText /\ chain' = chain /\ board' = board /\ uart' = uart
      /\ printed' = printed /\ server' = server /\ buffer' = buffer
  <2>1. text' = NoText /\ UNCHANGED <<server, buffer, boardVars>>
    BY Zenon DEF Gone
  <2>2. QED
    BY <2>1 DEF boardVars
<1>a. link' = [NewLink EXCEPT !.st = "exit", !.session = link.session]
  BY Zenon DEF Gone
<1>b. tcp' = [b \in Boxes |-> IF b \in link.conn
                              THEN [tcp[b] EXCEPT !.client = FALSE, !.down = <<>>]
                              ELSE tcp[b]]
  BY Zenon DEF Gone
<1>2. /\ link' \in LinkType /\ link'.st = "exit" /\ link'.k = 0 /\ link'.conn = {}
      /\ link'.portOf = NewLink.portOf /\ link'.bridge = NewLink.bridge
  <2> DEFINE lk == NewLink
             m == [lk EXCEPT !.st = "exit"]
  <2>1. link' = [m EXCEPT !.session = link.session]
    BY <1>a, NewLinkTyped DEF LinkType
  <2>2. lk \in LinkType /\ lk.conn = {} /\ lk.k = 0
    BY NewLinkTyped
  <2>3. link.session \in Int
    BY <1>0 DEF LinkType
  <2> HIDE DEF lk
  <2>4. "exit" \in Stages
    BY DEF Stages
  <2>5. /\ m \in LinkType /\ m.conn = {} /\ m.k = 0 /\ m.st = "exit"
        /\ m.portOf = lk.portOf /\ m.bridge = lk.bridge
    BY <2>2, <2>4 DEF LinkType
  <2> HIDE DEF m
  <2>6. QED
    BY <2>1, <2>3, <2>5 DEF LinkType, lk
<1>3. ASSUME NEW b \in Boxes
      PROVE  /\ tcp'[b] \in [client : BOOLEAN, up : Seq(Packets), down : Seq(Packets)]
             /\ tcp'[b].client = FALSE /\ tcp'[b].up = tcp[b].up
             /\ b \notin link.conn => tcp'[b] = tcp[b]
  <2> DEFINE none == <<>>
  <2>1. tcp[b] \in [client : BOOLEAN, up : Seq(Packets), down : Seq(Packets)]
    BY <1>0 DEF BoxesTypeOK
  <2>2. tcp'[b] = IF b \in link.conn THEN [tcp[b] EXCEPT !.client = FALSE, !.down = none]
                  ELSE tcp[b]
    BY Zenon, <1>b
  <2>3. none \in Seq(Packets)
    OBVIOUS
  <2> HIDE DEF none
  <2>4. b \notin link.conn => tcp[b].client = FALSE
    BY <1>0, <2>1 DEF ServerOK
  <2>5. QED
    BY <2>1, <2>2, <2>3, <2>4
<1>4. LinkTypeOK' /\ ChainOK' /\ BoxesTypeOK'
  <2>1. LinkTypeOK'
    BY <1>1, <1>2, NewLinkTyped DEF LinkTypeOK, LinkType
  <2>2. tcp' \in [Boxes -> [client : BOOLEAN, up : Seq(Packets), down : Seq(Packets)]]
    <3>1. tcp' = [b \in Boxes |-> tcp'[b]]
      BY Zenon, <1>b
    <3>2. QED
      BY <1>3, <3>1
  <2>3. QED
    BY <1>0, <1>1, <2>1, <2>2 DEF ChainOK, BoxesTypeOK
<1>5. TurnOK'
  BY <1>1, <1>2 DEF TurnOK
<1>6. TablesOK'
  BY <1>0, <1>1, <1>2, NewTables
<1>7. ServerOK' /\ ConnectionOK'
  <2>1. \A p : IdOf(p)' = IdOf(p)
    BY <1>1 DEF IdOf
  <2>2. link'.st \notin Asking \cup {"ready"}
    BY <1>2 DEF Asking
  <2>3. ConnectionOK'
    BY <1>2 DEF ConnectionOK
  <2>4. QED
    BY <1>0, <1>1, <1>2, <1>3, <2>1, <2>2, <2>3 DEF ServerOK
<1>8. ASSUME NEW p \in Ports
      PROVE  Lone(p[1], p[2], IdOf(p), View(p)') \/ Stale(p)'
  <2> DEFINE v == View(p)
             v2 == View(p)'
             id == IdOf(p)
  <2>1. p[1] \in Boxes /\ p[2] \in Links /\ id \in {Bridge} \cup Identities
    BY <1>0, IdTyped
  <2>2. v \in ViewType /\ v2 \in ViewType
    BY <1>0, <1>4, ViewTyped
  <2>3. /\ v2.up = v.up /\ v2.buf = v.buf /\ v2.ua = v.ua /\ v2.bd = v.bd /\ v2.pr = v.pr
        /\ p[1] \notin link.conn => v2 = v
    BY <1>1, <1>3, <2>1 DEF View
  <2>a. CASE ~ CalmEnds /\ id = Bridge
    <3>1. Dormant(p[2], v)
      BY <1>0, <2>a, BridgeDormant
    <3>2. Dormant(p[2], v2)
      BY <2>3, <3>1, DormantSame
    <3>3. Loose(p)'
      BY <1>1, <1>2, <2>a DEF Loose, IdOf
    <3>4. QED
      BY <3>2, <3>3 DEF Stale
  <2>b. ASSUME CalmEnds \/ id # Bridge
        PROVE  ~ Loose(p)
    BY <2>b DEF Loose
  <2>4. CASE (CalmEnds \/ id # Bridge) /\ p[1] \notin link.conn
    BY <1>0, <2>3, <2>4, <2>b, NotLoose
  <2>5. CASE (CalmEnds \/ id # Bridge) /\ p[1] \in link.conn
    <3>0. Linked(p)
      BY <1>0, <2>5, <2>b, NotLoose
    <3>1. PICK n \in Nat, g \in [Channels -> Nat] :
            Progress(p, n, g[Replies]) /\ Live(p[1], p[2], id, v, n, g)
      BY <3>0 DEF Linked
    <3>2. id = Bridge => g[Replies] = n
      <4>1. Base(p) \in {1, 2}
        BY <1>0, InOrder
      <4>2. Progress(p, n, g[Replies])
        BY <3>1
      <4>3. ASSUME CalmEnds, IdOf(p) = Bridge PROVE g[Replies] = n
        <5>1. link.st \in {"fail", "askTemp", "setDest", "put", "poll"}
          BY <4>3
        <5>2. QED
          BY <4>1, <4>2, <4>3, <5>1 DEF Progress
      <4>4. QED
        BY <2>5, <4>3
    <3> HIDE DEF v, v2, id
    <3>3. Lone(p[1], p[2], id, v2)
      BY <2>1, <2>2, <2>3, <3>1, <3>2, LiveLone
    <3>4. QED
      BY <3>3 DEF v2, id
  <2>6. QED
    BY <2>a, <2>4, <2>5
<1>9. PortsOK'
  <2>1. \A p : IdOf(p)' = IdOf(p)
    BY <1>1 DEF IdOf
  <2>2. QED
    BY <1>2, <1>8, <2>1 DEF PortsOK
<1>10. QED
  BY <1>4, <1>5, <1>6, <1>7, <1>9 DEF IInv, TypeOK

\* A turn of the loop of connections.
LEMMA AfterTurns ==
  ASSUME NEW lk \in LinkType, lk.st = "connect", lk.k < NumBoxes
  PROVE  /\ AfterTurn(lk) \in LinkType /\ SameLinks(lk, AfterTurn(lk))
         /\ AfterTurn(lk).st \in {"connect", "ready", "fail"}
         /\ AfterTurn(lk).st \in {"connect", "ready"} => AfterTurn(lk).k < NumBoxes
         /\ AfterTurn(lk).st = "ready" => AfterTurn(lk).k = 0 /\ lk.conn = Boxes
<1>0. NumBoxes \in Nat \ {0} /\ "ready" \in Stages /\ "fail" \in Stages /\ lk.k \in Nat
  BY Shape DEF Stages, LinkType
<1>1. CASE lk.k + 1 < NumBoxes
  <2>1. AfterTurn(lk) = [lk EXCEPT !.k = @ + 1]
    BY <1>1 DEF AfterTurn
  <2>2. QED
    BY <1>0, <1>1, <2>1 DEF LinkType, SameLinks
<1>2. CASE ~ (lk.k + 1 < NumBoxes) /\ Cardinality(lk.conn) = NumBoxes
  <2>1. AfterTurn(lk) = [lk EXCEPT !.st = "ready", !.k = 0, !.tries = 0]
    BY <1>2 DEF AfterTurn
  <2>2. lk.conn = Boxes
    <3>1. lk.conn \subseteq Boxes
      BY DEF LinkType
    <3>2. QED
      BY <1>2, <3>1, Counts, FS_Subset
  <2> DEFINE m == [lk EXCEPT !.st = "ready"]
             o == [m EXCEPT !.k = 0]
  <2>3. AfterTurn(lk) = [o EXCEPT !.tries = 0]
    BY <2>1
  <2>4. m \in LinkType /\ SameLinks(lk, m) /\ m.st = "ready"
    BY <1>0 DEF LinkType, SameLinks
  <2> HIDE DEF m
  <2>5. o \in LinkType /\ SameLinks(m, o) /\ o.st = "ready" /\ o.k = 0
    BY <2>4 DEF LinkType, SameLinks
  <2> HIDE DEF o
  <2>6. /\ [o EXCEPT !.tries = 0] \in LinkType /\ SameLinks(o, [o EXCEPT !.tries = 0])
        /\ [o EXCEPT !.tries = 0].st = "ready" /\ [o EXCEPT !.tries = 0].k = 0
    BY <2>5 DEF LinkType, SameLinks
  <2>7. SameLinks(lk, AfterTurn(lk))
    BY <2>3, <2>4, <2>5, <2>6 DEF SameLinks
  <2>8. QED
    BY <1>0, <2>2, <2>3, <2>6, <2>7
<1>3. CASE ~ (lk.k + 1 < NumBoxes) /\ Cardinality(lk.conn) # NumBoxes
           /\ lk.tries < MaxConnectionAttempts
  <2>1. AfterTurn(lk) = [lk EXCEPT !.tries = @ + 1, !.k = 0]
    BY <1>3 DEF AfterTurn
  <2> DEFINE m == [lk EXCEPT !.k = 0]
  <2>2. m \in LinkType /\ SameLinks(lk, m) /\ m.st = "connect" /\ m.k = 0
    BY DEF LinkType, SameLinks
  <2>3. AfterTurn(lk) = [m EXCEPT !.tries = @ + 1]
    BY <2>1 DEF LinkType
  <2> HIDE DEF m
  <2>4. AfterTurn(lk) \in LinkType /\ SameLinks(m, AfterTurn(lk))
        /\ AfterTurn(lk).st = "connect" /\ AfterTurn(lk).k = 0
    BY <2>2, <2>3 DEF LinkType, SameLinks
  <2>5. SameLinks(lk, AfterTurn(lk))
    BY <2>2, <2>4 DEF SameLinks
  <2>6. QED
    BY <1>0, <2>4, <2>5
<1>4. CASE ~ (lk.k + 1 < NumBoxes) /\ Cardinality(lk.conn) # NumBoxes
           /\ ~ (lk.tries < MaxConnectionAttempts)
  <2>1. AfterTurn(lk) = [lk EXCEPT !.st = "fail"]
    BY <1>4 DEF AfterTurn
  <2>2. AfterTurn(lk) \in LinkType /\ SameLinks(lk, AfterTurn(lk)) /\ AfterTurn(lk).st = "fail"
    BY <1>0, <2>1, Stage
  <2>3. QED
    BY <2>2
<1>5. QED
  BY <1>1, <1>2, <1>3, <1>4

\* Before a program has asked anything, a board's place is the start.
LEMMA AtStart ==
  ASSUME NEW p \in Ports, link.st \in {"connect", "ready", "fail"}
  PROVE  /\ link'.st \in {"connect", "ready", "fail"} \/ (link'.st = "query" /\ link'.k = 0) =>
              \A n \in Nat, g \in [Channels -> Nat] :
                Progress(p, n, g[Replies]) /\ Printed(p, g) =>
                  Progress(p, n, g[Replies])' /\ Printed(p, g)'
         /\ link'.st \in {"connect", "ready", "fail"} =>
              \A g \in [Channels -> Nat] :
                g = [ch \in Channels |-> 0] => Progress(p, 0, g[Replies])' /\ Printed(p, g)'
<1>0. Replies \in Channels /\ Cores \subseteq Channels
  BY DEF Channels
<1>1. ASSUME link'.st \in {"connect", "ready", "fail"} \/ (link'.st = "query" /\ link'.k = 0),
             NEW n \in Nat, NEW g \in [Channels -> Nat], Progress(p, n, g[Replies]), Printed(p, g)
      PROVE  Progress(p, n, g[Replies])' /\ Printed(p, g)'
  <2>1. n = 0 /\ g[Replies] = 0
    BY <1>1 DEF Progress
  <2>2. \A c \in Cores : g[c] = 0
    BY <1>1 DEF Printed
  <2>3. PortRank(p)' = PortRank(p) /\ PortRank(p) \in Nat
    BY PortRanks DEF PortRank
  <2>4. Before(PortRank(p), 0) = 0
    BY <2>3 DEF Before
  <2>5. Progress(p, n, g[Replies])'
    BY <1>1, <2>1, <2>3, <2>4 DEF Progress
  <2>6. Printed(p, g)'
    BY <1>1, <2>2 DEF Printed
  <2>7. QED
    BY <2>5, <2>6
<1>2. ASSUME link'.st \in {"connect", "ready", "fail"}, NEW g \in [Channels -> Nat],
             g = [ch \in Channels |-> 0]
      PROVE  Progress(p, 0, g[Replies])' /\ Printed(p, g)'
  <2>1. g[Replies] = 0 /\ \A c \in Cores : g[c] = 0
    BY <1>0, <1>2
  <2>2. Progress(p, 0, g[Replies])'
    BY <1>2, <2>1 DEF Progress
  <2>3. Printed(p, g)'
    BY <1>2, <2>1 DEF Printed
  <2>4. QED
    BY <2>2, <2>3
<1>3. QED
  BY <1>1, <1>2

\* GetReady keeps the invariant: the first packet of a box is READY.
LEMMA GetReadyKeeps ==
  ASSUME IInv, GetReady
  PROVE  IInv'
<1> DEFINE at == BoxAt(link.k)
           lk == Turn(link, NumBoxes, "query")
<1>0. /\ ChainOK /\ BoxesTypeOK /\ ServerOK /\ ConnectionOK /\ PortsOK /\ link \in LinkType
      /\ link.st = "ready" /\ link.k \in Nat /\ link.k < NumBoxes /\ NumBoxes \in Nat
      /\ link.conn = Boxes /\ text = NoText
  BY Shape, LinkTyped DEF IInv, TypeOK, TurnOK, ServerOK, GetReady
<1>a. link.k \in 0 .. NumBoxes - 1
  BY <1>0
<1>1. PICK b \in Boxes : b = at /\ BoxRank(b) = link.k
  BY <1>a, BoxRanks
<1>2. /\ GetPacket(b) /\ text' = text /\ link' = Checked(b, READY, lk)
  BY <1>1 DEF GetReady
<1> DEFINE s == tcp[b].down
<1>3. /\ chain' = chain /\ board' = board /\ uart' = uart /\ printed' = printed
      /\ server' = server /\ buffer' = buffer /\ s # <<>>
      /\ tcp' = [tcp EXCEPT ![b] = [tcp[b] EXCEPT !.down = Tail(s)]]
  BY <1>0, <1>2 DEF GetPacket, boardVars, Arrived, BoxesTypeOK
<1>4. tcp[b] \in [client : BOOLEAN, up : Seq(Packets), down : Seq(Packets)]
  BY <1>0 DEF BoxesTypeOK
<1>5. s \in Seq(Packets)
  BY <1>4
<1>b. tcp[b].up \in Seq(Packets) /\ tcp[b].client \in BOOLEAN
  BY <1>4
<1> DEFINE d == Tail(s)
<1> HIDE DEF s
<1>6. /\ d \in Seq(Packets) /\ Len(d) \in Nat /\ Len(s) = Len(d) + 1 /\ Head(s) = s[1]
      /\ \A i \in 1 .. Len(d) : d[i] = s[i + 1]
  BY <1>3, <1>5, HeadTailProperties
<1> HIDE DEF d
<1>7. /\ tcp'[b] \in [client : BOOLEAN, up : Seq(Packets), down : Seq(Packets)]
      /\ tcp'[b].client = tcp[b].client /\ tcp'[b].up = tcp[b].up /\ tcp'[b].down = d
      /\ \A c \in Boxes : c # b => tcp'[c] = tcp[c]
  BY <1>0, <1>3, <1>4, <1>6 DEF BoxesTypeOK, d
<1>8. Unready(b) /\ LineFine(b)
  BY <1>0, <1>1, Fine DEF Unready
<1>9. s[1] = Packet(0, <<READY>>) /\ \A i \in 1 .. Len(d) : ChannelOf(d[i].bytes) \in Channels
  <2>1. \A i \in 1 .. Len(s) :
          IF i = 1 THEN s[i] = Packet(0, <<READY>>) ELSE ChannelOf(s[i].bytes) \in Channels
    BY <1>8 DEF LineFine, s
  <2>2. 1 \in 1 .. Len(s) /\ \A i \in 1 .. Len(d) : i + 1 \in 1 .. Len(s) /\ i + 1 # 1
    BY <1>6
  <2>3. QED
    BY <1>6, <2>1, <2>2
<1>10. link' = lk
  <2>1. Received(b) = Packet(0, <<READY>>)
    BY <1>6, <1>9 DEF Received, s
  <2>2. Received(b).bytes[1] = READY
    BY <2>1 DEF Packet
  <2>3. QED
    BY <1>2, <2>2 DEF Checked
<1> HIDE DEF at, lk
<1>11. "query" \in Stages
  BY DEF Stages
<1>12. /\ link' \in LinkType /\ SameLinks(link, link')
       /\ link.k + 1 < NumBoxes => link'.k = link.k + 1 /\ link'.st = "ready"
       /\ ~ (link.k + 1 < NumBoxes) => link'.k = 0 /\ link'.st = "query"
  BY <1>0, <1>10, <1>11, Turns DEF lk
<1>13. TablesStay /\ LinkTypeOK' /\ link'.conn = Boxes
  BY <1>0, <1>2, <1>3, <1>12, LinkTyped DEF SameLinks
<1>14. TablesOK'
  <2>1. \A p \in Ports : Unknown(p)
    BY <1>0 DEF IInv, TablesOK
  <2>2. link'.st \in {"off", "exit", "connect", "ready", "query", "fail"}
    BY <1>12
  <2>3. QED
    BY <1>0, <1>13, <2>1, <2>2, TablesEmpty
<1>15. TurnOK'
  <2>1. 0 < NumBoxes * NumLinks
    BY Shape
  <2>2. QED
    BY <1>0, <1>2, <1>12, <2>1 DEF TurnOK
<1>16. ChainOK' /\ BoxesTypeOK'
  BY <1>0, <1>3, <1>6, <1>7 DEF ChainOK, BoxesTypeOK
<1>17. ASSUME NEW c \in Boxes
       PROVE  Unready(c)' <=> Unready(c) /\ c # b
  <2>1. BoxRank(c) \in 0 .. NumBoxes - 1 /\ BoxRank(c)' = BoxRank(c)
        /\ (BoxRank(c) = link.k => c = b)
    BY <1>1, BoxRanks DEF BoxRank
  <2>2. Unready(c) <=> link.k <= BoxRank(c)
    BY <1>0 DEF Unready
  <2>3. Unready(c)' <=> link.k + 1 <= BoxRank(c)
    <3>1. CASE link.k + 1 < NumBoxes
      BY <1>12, <2>1, <3>1 DEF Unready
    <3>2. CASE ~ (link.k + 1 < NumBoxes)
      <4>1. ~ (link.k + 1 <= BoxRank(c))
        BY <1>0, <2>1, <3>2
      <4>2. QED
        BY <1>12, <3>2, <4>1 DEF Unready
    <3>3. QED
      BY <3>1, <3>2
  <2>4. QED
    BY <1>0, <1>1, <2>1, <2>2, <2>3
<1>18. ServerOK'
  <2>1. \A p : IdOf(p)' = IdOf(p)
    BY <1>3 DEF IdOf
  <2>2. link'.st \notin {"off", "exit"}
    BY <1>12
  <2>3. ASSUME NEW c \in Boxes
        PROVE  /\ tcp'[c].client <=> c \in link'.conn
               /\ c \in link'.conn => server'[c] \in {"power", "serve"}
               /\ server'[c] \in {"listen", "power"} => tcp'[c].up = <<>>
               /\ server'[c] # "listen"
    BY <1>0, <1>3, <1>7, <1>13 DEF ServerOK
  <2>4. QED
    BY <1>13, <2>2, <2>3 DEF ServerOK
<1>19. ConnectionOK'
  <2>1. ASSUME NEW c \in Boxes PROVE LineFine(c)'
    <3>1. CASE c # b
      <4>1. LineFine(c)
        BY <1>0, Fine
      <4>2. (Unready(c)' <=> Unready(c)) /\ tcp'[c] = tcp[c] /\ server'[c] = server[c]
        BY <1>3, <1>7, <1>17, <3>1
      <4>3. QED
        BY <4>1, <4>2 DEF LineFine
    <3>2. CASE c = b
      <4>1. ~ Unready(c)' /\ tcp'[c].down = d /\ server'[c] = server[c]
        BY <1>3, <1>7, <1>17, <3>2
      <4>2. server[c] # "power"
        BY <1>3, <1>8, <3>2 DEF LineFine, s
      <4>3. QED
        BY <1>9, <4>1, <4>2 DEF LineFine
    <3>3. QED
      BY <3>1, <3>2
  <2>2. QED
    BY <1>13, <2>1, Fine
<1>c. server[b] = "serve"
  <2>1. server[b] \in {"power", "serve"}
    BY <1>0 DEF ServerOK
  <2>2. server[b] # "power"
    BY <1>3, <1>8 DEF LineFine, s
  <2>3. QED
    BY <2>1, <2>2
<1>20. ASSUME NEW p \in Ports, ~ Stale(p) PROVE Linked(p)'
  <2> DEFINE v == View(p)
             v2 == View(p)'
             id == IdOf(p)
  <2>1. p[1] \in Boxes /\ p[2] \in Links /\ id \in {Bridge} \cup Identities
    BY <1>0, IdTyped
  <2>2. v \in ViewType /\ v2 \in ViewType
    BY <1>0, <1>16, ViewTyped
  <2>3. PICK n \in Nat, g \in [Channels -> Nat] :
          Progress(p, n, g[Replies]) /\ Printed(p, g) /\ Live(p[1], p[2], id, v, n, g)
    BY <1>0, <1>20, <2>1 DEF PortsOK, Linked
  <2>4. Progress(p, n, g[Replies])' /\ Printed(p, g)'
    BY <1>0, <1>12, <2>3, AtStart
  <2>5. p[1] # b => v2 = v
    BY <1>3, <1>7, <2>1 DEF View
  <2>6. p[1] = b => /\ v2.up = v.up /\ v2.down = d /\ v2.at = v.at /\ v.down = s
                    /\ v2.buf = v.buf /\ v2.ua = v.ua /\ v2.bd = v.bd /\ v2.pr = v.pr
    BY <1>3, <1>7, <2>1 DEF View, s
  <2> HIDE DEF v, v2, id
  <2>7. Live(p[1], p[2], id, v2, n, g)
    <3>1. CASE p[1] # b
      BY <2>3, <2>5, <3>1
    <3>2. CASE p[1] = b
      <4>1. Some(v.down) /\ v2.down = Tail(v.down) /\ Head(v.down) = Packet(0, <<READY>>)
        BY <1>3, <1>6, <1>9, <2>6, <3>2 DEF Some, d
      <4>2. \A ch \in Channels : ~ Belongs(Head(v.down), p[2], ch)
        <5>1. Head(v.down).bytes = <<READY>>
          BY <4>1 DEF Packet
        <5>2. QED
          BY <5>1, ReadyAlone DEF Belongs
      <4>3. QED
        BY <2>1, <2>2, <2>3, <2>6, <3>2, <4>1, <4>2, LivePass
    <3>3. QED
      BY <3>1, <3>2
  <2>8. IdOf(p)' = id
    BY <1>3 DEF IdOf, id
  <2>9. QED
    BY <2>3, <2>4, <2>7, <2>8 DEF Linked, v2
<1>d. ASSUME NEW p \in Ports, Stale(p) PROVE Stale(p)'
  <2>1. p[1] \in Boxes /\ p[1] # b
    BY <1>0, <1>c, <1>d DEF Stale, Loose, Ports
  <2>2. View(p)' = View(p)
    BY <1>3, <1>7, <2>1 DEF View
  <2>3. Loose(p)' <=> Loose(p)
    BY <1>0, <1>3, <1>13 DEF Loose, IdOf
  <2>4. QED
    BY <1>d, <2>2, <2>3 DEF Stale
<1>21. PortsOK'
  BY <1>13, <1>20, <1>d DEF PortsOK, Ports
<1>22. QED
  BY <1>13, <1>14, <1>15, <1>16, <1>18, <1>19, <1>21 DEF IInv, TypeOK

\* Connect keeps the invariant: a box that accepts is as new, but for its bridge, and
\* that is quiet, or the master's, to be reset.
LEMMA ConnectKeeps ==
  ASSUME IInv, Connect, CalmEnds \/ CleanStart
  PROVE  IInv'
<1> DEFINE at == BoxAt(link.k)
<1>0. /\ ChainOK /\ BoxesTypeOK /\ ServerOK /\ ConnectionOK /\ PortsOK /\ link \in LinkType
      /\ link.st = "connect" /\ link.k \in Nat /\ link.k < NumBoxes /\ NumBoxes \in Nat
      /\ text = NoText
  BY Shape, LinkTyped DEF IInv, TypeOK, TurnOK, Connect
<1>a. link.k \in 0 .. NumBoxes - 1
  BY <1>0
<1>1. PICK b \in Boxes : b = at
  BY <1>a, BoxRanks
<1> HIDE DEF at
<1> DEFINE new == b \notin link.conn /\ server[b] = "listen"
           lk == IF new THEN [link EXCEPT !.conn = @ \cup {b}] ELSE link
<1>2. /\ link' = AfterTurn(lk) /\ text' = text
      /\ new => Accept(b)
      /\ ~ new => UNCHANGED <<ctrlVars, boardVars>>
  BY <1>1 DEF Connect, at
<1>3. /\ chain' = chain /\ board' = board /\ uart' = uart /\ printed' = printed
      /\ buffer' = buffer
  BY <1>2 DEF Accept, ctrlVars, boardVars
<1>4. /\ lk \in LinkType /\ SameLinks(link, [lk EXCEPT !.conn = link.conn])
      /\ lk.st = "connect" /\ lk.k = link.k
      /\ lk.conn = IF new THEN link.conn \cup {b} ELSE link.conn
  <2>1. CASE new
    BY <1>0, <2>1 DEF LinkType, SameLinks
  <2>2. CASE ~ new
    BY <1>0, <2>2 DEF LinkType, SameLinks
  <2>3. QED
    BY <2>1, <2>2
<1> HIDE DEF lk
<1>5. /\ link' \in LinkType /\ SameLinks(lk, link')
      /\ link'.st \in {"connect", "ready", "fail"}
      /\ link'.st \in {"connect", "ready"} => link'.k < NumBoxes
      /\ link'.st = "ready" => link'.k = 0 /\ lk.conn = Boxes
  BY <1>0, <1>2, <1>4, AfterTurns
<1>6. /\ link'.conn = IF new THEN link.conn \cup {b} ELSE link.conn
      /\ link'.portOf = link.portOf /\ link'.boardOf = link.boardOf
      /\ link'.bridge = link.bridge
  BY <1>4, <1>5 DEF SameLinks, LinkType
<1>7. TablesStay /\ LinkTypeOK'
  BY <1>2, <1>3, <1>5, <1>6, LinkTyped DEF TablesStay
<1>8. TablesOK'
  <2>1. \A p \in Ports : Unknown(p)
    BY <1>0 DEF IInv, TablesOK
  <2>2. QED
    BY <1>0, <1>5, <1>7, <2>1, TablesEmpty
<1>9. TurnOK'
  BY <1>0, <1>2, <1>5 DEF TurnOK
<1> DEFINE accepted == [client |-> TRUE, up |-> <<>>, down |-> <<>>]
<1>10. /\ new => server' = [server EXCEPT ![b] = "power"] /\ tcp' = [tcp EXCEPT ![b] = accepted]
       /\ ~ new => server' = server /\ tcp' = tcp
  BY <1>2 DEF Accept, Closed, ctrlVars
<1>11. accepted \in [client : BOOLEAN, up : Seq(Packets), down : Seq(Packets)]
  <2> DEFINE none == <<>>
  <2>1. none \in Seq(Packets) /\ accepted = [client |-> TRUE, up |-> none, down |-> none]
    OBVIOUS
  <2> HIDE DEF none, accepted
  <2>2. QED
    BY <2>1
<1>12. accepted.client = TRUE /\ accepted.up = <<>> /\ accepted.down = <<>>
  OBVIOUS
<1> HIDE DEF accepted
<1>13. /\ \A c \in Boxes : c # b => tcp'[c] = tcp[c] /\ server'[c] = server[c]
       /\ new => tcp'[b] = accepted /\ server'[b] = "power"
       /\ ~ new => tcp'[b] = tcp[b] /\ server'[b] = server[b]
  BY <1>0, <1>10 DEF BoxesTypeOK
<1>14. ChainOK' /\ BoxesTypeOK'
  <2>1. /\ tcp' \in [Boxes -> [client : BOOLEAN, up : Seq(Packets), down : Seq(Packets)]]
        /\ server' \in [Boxes -> {"listen", "power", "serve", "down"}]
    <3>1. CASE new
      <4>1. /\ tcp \in [Boxes -> [client : BOOLEAN, up : Seq(Packets), down : Seq(Packets)]]
            /\ server \in [Boxes -> {"listen", "power", "serve", "down"}]
        BY <1>0 DEF BoxesTypeOK
      <4>2. server' = [server EXCEPT ![b] = "power"] /\ tcp' = [tcp EXCEPT ![b] = accepted]
        BY <1>10, <3>1
      <4>3. server' \in [Boxes -> {"listen", "power", "serve", "down"}]
        BY <4>1, <4>2
      <4>4. tcp' \in [Boxes -> [client : BOOLEAN, up : Seq(Packets), down : Seq(Packets)]]
        BY <1>11, <4>1, <4>2
      <4>5. QED
        BY <4>3, <4>4
    <3>2. CASE ~ new
      BY <1>0, <1>10, <3>2 DEF BoxesTypeOK
    <3>3. QED
      BY <3>1, <3>2
  <2>2. QED
    BY <1>0, <1>3, <2>1 DEF ChainOK, BoxesTypeOK
<1>15. \A c \in Boxes : Unready(c) /\ Unready(c)'
  <2>1. \A c \in Boxes : BoxRank(c) \in Nat /\ BoxRank(c)' = BoxRank(c)
    BY BoxRanks DEF BoxRank
  <2>2. QED
    BY <1>0, <1>5, <2>1 DEF Unready
<1>16. ServerOK'
  <2>1. \A p : IdOf(p)' = IdOf(p)
    BY <1>3 DEF IdOf
  <2>2. /\ link'.st \notin {"off", "exit"}
        /\ link'.st \in Asking \cup {"ready"} => link'.conn = Boxes
    BY <1>4, <1>5 DEF Asking, SameLinks
  <2>3. ASSUME NEW c \in Boxes PROVE BoxFine(c)'
    <3>1. BoxFine(c)
      BY <1>0, Fine
    <3>2. CASE c = b /\ new
      <4>1. tcp'[c].client = TRUE /\ tcp'[c].up = <<>> /\ server'[c] = "power" /\ c \in link'.conn
        BY <1>6, <1>12, <1>13, <3>2
      <4>2. QED
        BY <4>1 DEF BoxFine
    <3>3. CASE ~ (c = b /\ new)
      <4>1. /\ tcp'[c] = tcp[c] /\ server'[c] = server[c] /\ (c \in link'.conn <=> c \in link.conn)
        BY <1>6, <1>13, <3>3
      <4>2. QED
        BY <1>3, <2>1, <3>1, <4>1 DEF BoxFine
    <3>4. QED
      BY <3>2, <3>3
  <2>4. QED
    BY <2>2, <2>3 DEF ServerOK, BoxFine
<1>17. ConnectionOK'
  <2>1. ASSUME NEW c \in link'.conn PROVE LineFine(c)'
    <3>0. c \in Boxes
      BY <1>5 DEF LinkType
    <3>1. CASE c = b /\ new
      <4>1. tcp'[c].down = <<>> /\ server'[c] = "power"
        BY <1>12, <1>13, <3>1
      <4>2. Len(tcp'[c].down) = 0
        BY <4>1
      <4>3. QED
        BY <1>15, <3>0, <4>1, <4>2 DEF LineFine
    <3>2. CASE ~ (c = b /\ new)
      <4>1. tcp'[c] = tcp[c] /\ server'[c] = server[c] /\ c \in link.conn
        BY <1>6, <1>13, <2>1, <3>0, <3>2
      <4>2. LineFine(c)
        BY <1>0, <4>1, Fine
      <4>3. QED
        BY <1>15, <3>0, <4>1, <4>2 DEF LineFine
    <3>3. QED
      BY <3>1, <3>2
  <2>2. QED
    BY <2>1, Fine
<1>18. ASSUME NEW p \in Ports
       PROVE  \/ p[1] \in link'.conn /\ Linked(p)'
              \/ p[1] \notin link'.conn /\ Lone(p[1], p[2], IdOf(p), View(p))'
              \/ Stale(p)'
  <2> DEFINE v == View(p)
             v2 == View(p)'
             id == IdOf(p)
  <2>1. p[1] \in Boxes /\ p[2] \in Links /\ p = <<p[1], p[2]>> /\ id \in {Bridge} \cup Identities
    BY <1>0, IdTyped
  <2>2. v \in ViewType /\ v2 \in ViewType
    BY <1>0, <1>14, ViewTyped
  <2>3. ~ (p[1] = b /\ new) => v2 = v /\ (p[1] \in link'.conn <=> p[1] \in link.conn)
    BY <1>3, <1>6, <1>13, <2>1 DEF View
  <2>4. p[1] = b /\ new =>
          /\ v2.up = <<>> /\ v2.down = <<>> /\ v2.at = "power" /\ v2.buf = v.buf
          /\ v2.ua = v.ua /\ v2.bd = v.bd /\ v2.pr = v.pr
    BY <1>3, <1>12, <1>13, <2>1 DEF View
  <2>5. IdOf(p)' = id
    BY <1>3 DEF IdOf
  <2>6. CASE ~ (p[1] = b /\ new)
    <3>0. CASE Stale(p)
      <4>1. server'[p[1]] = server[p[1]]
        BY <1>13, <2>1, <2>6
      <4>2. Loose(p)'
        BY <2>3, <2>5, <2>6, <3>0, <4>1 DEF Stale, Loose, id
      <4>3. QED
        BY <2>3, <2>6, <3>0, <4>2 DEF Stale
    <3>1. CASE p[1] \in link'.conn /\ ~ Stale(p)
      <4>1. PICK n \in Nat, g \in [Channels -> Nat] :
              Progress(p, n, g[Replies]) /\ Printed(p, g) /\ Live(p[1], p[2], id, v, n, g)
        BY <1>0, <2>3, <2>6, <3>1 DEF PortsOK, Linked
      <4>2. Progress(p, n, g[Replies])' /\ Printed(p, g)'
        BY <1>0, <1>5, <4>1, AtStart
      <4>3. Live(p[1], p[2], id, v2, n, g)
        BY <2>3, <2>6, <4>1
      <4>4. QED
        BY <2>5, <3>1, <4>2, <4>3 DEF Linked
    <3>2. CASE p[1] \notin link'.conn /\ ~ Stale(p)
      <4>1. Lone(p[1], p[2], id, v)
        BY <1>0, <2>3, <2>6, <3>2 DEF PortsOK
      <4>2. QED
        BY <2>3, <2>5, <2>6, <3>2, <4>1
    <3>3. QED
      BY <3>0, <3>1, <3>2
  <2>7. CASE p[1] = b /\ new
    <3> DEFINE g == [ch \in Channels |-> 0]
    <3>1. /\ p[1] \in link'.conn /\ p[1] \notin link.conn /\ server[p[1]] = "listen"
      BY <1>6, <2>7
    <3>2. Lone(p[1], p[2], id, v) \/ Stale(p)
      BY <1>0, <3>1 DEF PortsOK
    <3>a. ASSUME Stale(p), b = Master PROVE Stale(p)'
      <4>1. Loose(p)' /\ Dormant(p[2], v)
        BY <1>13, <2>5, <2>7, <3>a DEF Stale, Loose, id
      <4>2. OnLink(v2.up, p[2]) = {}
        <5>1. Len(v2.up) = 0
          BY <2>4, <2>7
        <5>2. QED
          BY <5>1 DEF OnLink
      <4>3. v2.bd = v.bd /\ v2.pr = v.pr
        BY <2>4, <2>7
      <4>4. Dormant(p[2], v2)
        BY <4>1, <4>2, <4>3 DEF Dormant
      <4>5. QED
        BY <4>1, <4>4 DEF Stale
    <3>b. ASSUME Stale(p), b # Master PROVE Fresh(id, v2)
      <4>1. id = Bridge /\ ~ CalmEnds /\ v.bd.started = {} /\ IsBridge(p[1], p[2])
        BY <1>0, <3>b, IdTyped DEF Stale, Loose, Dormant
      <4>2. AtRest(p[1], p[2])
        BY <1>2, <2>1, <2>7, <3>b, <4>1 DEF CleanStart
      <4>3. v.bd.recv = <<>> /\ v.bd.respond = <<>> /\ v.bd.send = <<>> /\ v.ua = NewUart
        BY <4>2 DEF AtRest, View
      <4>4. v2.bd = v.bd /\ v2.ua = v.ua
        BY <2>4, <2>7
      <4> HIDE DEF v, v2, id
      <4>5. QED
        BY <4>1, <4>3, <4>4 DEF Fresh, NewUart
    <3>3. v.buf = NewBuffer /\ v.pr = NothingPrinted
          /\ (id # Bridge => v.bd = NewBoard /\ v.ua = NewUart)
      <4>1. BoxFine(p[1])
        BY <1>0, <2>1, Fine
      <4>2. /\ buffer[p[1]][p[2]] = NewBuffer /\ printed[p[1]][p[2]] = NothingPrinted
            /\ (IdOf(<<p[1], p[2]>>) # Bridge =>
                  board[p[1]][p[2]] = NewBoard /\ uart[p[1]][p[2]] = NewUart)
        BY <2>1, <3>1, <4>1 DEF BoxFine
      <4>3. QED
        BY <2>1, <4>2 DEF View
    <3> HIDE DEF v, v2, id
    <3>4. ASSUME ~ (Stale(p) /\ b = Master)
          PROVE  Fresh(id, v2)
      <4>0. CASE Stale(p)
        BY <3>4, <3>b, <4>0
      <4>1. CASE id = Bridge /\ ~ Stale(p)
        BY <2>1, <2>2, <2>4, <2>7, <3>2, <4>1, QuietFresh
      <4>2. CASE id # Bridge
        BY <2>4, <2>7, <3>3, <4>2 DEF Fresh
      <4>3. QED
        BY <4>0, <4>1, <4>2
    <3>5. ~ Some(v2.up) /\ v2.buf = NewBuffer /\ v2.pr = NothingPrinted
      BY <2>4, <2>7, <3>3 DEF Some
    <3>6. \A ch \in Channels : OnChannel(v2.down, p[2], ch) = {}
      <4>1. Len(v2.down) = 0
        BY <2>4, <2>7
      <4>2. QED
        BY <4>1 DEF OnChannel, OnLink
    <3>7. v2.at # "serve"
      BY <2>4, <2>7
    <3>8. ~ (Stale(p) /\ b = Master) => Live(p[1], p[2], id, v2, 0, g)
      BY <2>1, <2>2, <3>4, <3>5, <3>6, <3>7, Restart
    <3>9. g \in [Channels -> Nat]
      OBVIOUS
    <3>10. Progress(p, 0, g[Replies])' /\ Printed(p, g)'
      BY <1>0, <1>5, <3>9, AtStart
    <3>11. ~ (Stale(p) /\ b = Master) => Linked(p)'
      BY <2>5, <3>8, <3>9, <3>10 DEF Linked, v2, id
    <3>12. QED
      BY <3>1, <3>11, <3>a
  <2>8. QED
    BY <2>6, <2>7
<1>19. PortsOK'
  BY <1>18 DEF PortsOK
<1>20. QED
  BY <1>7, <1>8, <1>9, <1>14, <1>16, <1>17, <1>19 DEF IInv, TypeOK

-----------------------------------------------------------------------------
(* The characters.                                                         *)

\* A box that has something is found, wherever the search begins.
LEMMA BoxFound ==
  ASSUME link \in LinkType, NEW b \in Boxes, Arrived(b)
  PROVE  (link.tryNext + NextBox) % NumBoxes \in 0 .. NumBoxes - 1
<1> DEFINE t == link.tryNext
           Has(k) == Arrived(BoxAt((t + k) % NumBoxes))
           Least(k) == Has(k) /\ \A i \in 0 .. k - 1 : ~ Has(i)
           S == {k \in 0 .. NumBoxes - 1 : Has(k)}
<1>1. NumBoxes \in Nat \ {0} /\ t \in 0 .. NumBoxes - 1
  BY Shape DEF LinkType
<1>2. BoxRank(b) \in 0 .. NumBoxes - 1 /\ BoxAt(BoxRank(b)) = b
  BY BoxRanks
<1>3. \A x \in 0 .. NumBoxes - 1 : x % NumBoxes = x /\ (x + NumBoxes) % NumBoxes = x
  <2> DEFINE Y == 2
  <2>a. Y \in Nat \ {0} /\ Y = 2
    OBVIOUS
  <2> HIDE DEF Y
  <2>b. ASSUME NEW x \in 0 .. NumBoxes - 1, NEW y \in 0 .. Y - 1
        PROVE  (x + NumBoxes * y) % NumBoxes = x
    <3> DEFINE X == NumBoxes
    <3>1. X \in Nat \ {0} /\ x \in 0 .. X - 1
      BY <1>1
    <3> HIDE DEF X
    <3>2. (x + X * y) % X = x
      BY <2>a, <3>1, Grid
    <3>3. QED
      BY <3>2 DEF X
  <2>1. \A x \in 0 .. NumBoxes - 1, y \in 0 .. 1 : (x + NumBoxes * y) % NumBoxes = x
    BY <2>a, <2>b
  <2>2. ASSUME NEW x \in 0 .. NumBoxes - 1
        PROVE  x % NumBoxes = x /\ (x + NumBoxes) % NumBoxes = x
    <3>1. x + NumBoxes * 0 = x /\ x + NumBoxes * 1 = x + NumBoxes
      BY <1>1
    <3>2. (x + NumBoxes * 0) % NumBoxes = x /\ (x + NumBoxes * 1) % NumBoxes = x
      BY <2>1
    <3>3. QED
      BY <3>1, <3>2
  <2>3. QED
    BY <2>2
<1>4. \E k \in 0 .. NumBoxes - 1 : Has(k)
  <2> DEFINE r == BoxRank(b)
  <2>1. r \in 0 .. NumBoxes - 1 /\ Arrived(BoxAt(r))
    BY <1>2
  <2> HIDE DEF r, t
  <2>2. CASE t <= r
    <3>1. r - t \in 0 .. NumBoxes - 1 /\ t + (r - t) = r
      BY <1>1, <2>1, <2>2
    <3>2. (t + (r - t)) % NumBoxes = r
      BY <1>3, <2>1, <3>1
    <3>3. QED
      BY <2>1, <3>1, <3>2
  <2>3. CASE r < t
    <3>1. (r + NumBoxes) - t \in 0 .. NumBoxes - 1 /\ t + ((r + NumBoxes) - t) = r + NumBoxes
      BY <1>1, <2>1, <2>3
    <3>2. (t + ((r + NumBoxes) - t)) % NumBoxes = r
      BY <1>3, <2>1, <3>1
    <3>3. QED
      BY <2>1, <3>1, <3>2
  <2>4. QED
    BY <1>1, <2>1, <2>2, <2>3
<1>5. \E k \in 0 .. NumBoxes - 1 : Least(k)
  <2>1. S \subseteq Nat /\ S # {}
    BY <1>4
  <2>2. PICK k \in S : \A i \in S : k <= i
    <3> HIDE DEF S
    <3>1. QED
      BY <2>1, LeastNumber
  <2>3. k \in 0 .. NumBoxes - 1 /\ Has(k)
    BY <2>2
  <2>4. ASSUME NEW i \in 0 .. k - 1 PROVE ~ Has(i)
    <3>1. i \in 0 .. NumBoxes - 1 /\ ~ (k <= i)
      BY <1>1, <2>3
    <3>2. i \notin S
      BY <2>2, <3>1
    <3>3. QED
      BY <3>1, <3>2
  <2>5. QED
    BY <2>3, <2>4
<1>6. NextBox = CHOOSE k \in 0 .. NumBoxes - 1 : Least(k)
  BY DEF NextBox
<1> HIDE DEF Least
<1>7. NextBox \in 0 .. NumBoxes - 1
  BY <1>5, <1>6
<1> HIDE DEF t
<1>8. \A x, y \in Nat, n \in Nat \ {0} : (x + y) % n \in 0 .. n - 1
  OBVIOUS
<1>9. (t + NextBox) % NumBoxes \in 0 .. NumBoxes - 1
  BY <1>1, <1>7, <1>8
<1>10. QED
  BY <1>9 DEF t

\* The lines and the line buffer of a thread.
TextType == [lines : Seq(Seq(Int)), line : Seq(Int)]

\* A character added to it keeps its type.
LEMMA AddedTyped ==
  ASSUME NEW t \in TextType, NEW ch \in Int
  PROVE  Added(t, ch) \in TextType
<1> DEFINE s == t.line
           r == t.lines
           r2 == Append(r, s)
           s2 == Append(s, ch)
           none == <<>>
           first == Append(none, ch)
<1>1. s \in Seq(Int) /\ r \in Seq(Seq(Int)) /\ t = [lines |-> r, line |-> s]
      /\ none \in Seq(Int)
  BY DEF TextType
<1> HIDE DEF s, r, none
<1>2. r2 \in Seq(Seq(Int)) /\ s2 \in Seq(Int) /\ first \in Seq(Int)
  BY <1>1
<1> DEFINE full == ch = NEWLINE \/ Len(s) = MaxLineLen - 1
<1>3. Added(t, ch) =
        IF ch = NEWLINE THEN [lines |-> r2, line |-> none]
        ELSE IF full THEN [lines |-> r2, line |-> first]
        ELSE [lines |-> r, line |-> s2]
  <2>1. t.line = s /\ t.lines = r
    BY DEF s, r
  <2>2. ASSUME ch = NEWLINE
        PROVE  Added(t, ch) = [lines |-> r2, line |-> none]
    BY <2>1, <2>2 DEF Added, none
  <2>3. ASSUME ch # NEWLINE, full
        PROVE  Added(t, ch) = [lines |-> r2, line |-> first]
    BY <2>1, <2>3 DEF Added, none
  <2>4. ASSUME ch # NEWLINE, ~ full
        PROVE  Added(t, ch) = [lines |-> r, line |-> s2]
    BY <1>1, <2>1, <2>4 DEF Added
  <2>5. QED
    BY <2>2, <2>3, <2>4
<1> HIDE DEF r2, s2, first, full
<1>4. QED
  BY <1>1, <1>2, <1>3 DEF TextType

\* One more character of a thread.
LEMMA TextNext ==
  ASSUME NEW b, NEW l, NEW c, NEW n \in {0, 1}
  PROVE  TextAfter(b, l, c, n + 1) = Added(TextAfter(b, l, c, n), Text(b, l, c)[n + 1])
<1>1. CASE n = 0
  BY <1>1 DEF TextAfter
<1>2. CASE n = 1
  BY <1>2 DEF TextAfter
<1>3. QED
  BY <1>1, <1>2

\* PollStdOut keeps the invariant: the packet is the next character of some core,
\* and it joins the line buffer of that thread.
LEMMA PollKeeps ==
  ASSUME IInv, PollStdOut
  PROVE  IInv'
<1> DEFINE at == (link.tryNext + NextBox) % NumBoxes
           pkt == Received(BoxAt(at))
<1>0. /\ ChainOK /\ BoxesTypeOK /\ LinkTypeOK /\ link \in LinkType /\ link.st = "poll"
      /\ link.st \in Asking /\ \A p \in Ports : Known(p)
  BY LinkTyped DEF IInv, TypeOK, PollStdOut, TablesOK, Asking
<1>1. at \in 0 .. NumBoxes - 1
  <2>1. PICK b \in Boxes : Arrived(b)
    BY DEF PollStdOut
  <2>2. QED
    BY <1>0, <2>1, BoxFound
<1>2. GetPacket(BoxAt(at))
  BY DEF PollStdOut
<1>3. PICK b \in Boxes : b = BoxAt(at)
  BY <1>1, BoxRanks
<1>a. PICK x : x = pkt
  OBVIOUS
<1> DEFINE c == x.bytes[3]
<1>4. x.bytes[1] = STD /\ link.boardOf[<<b, x.link>>] # None =>
        /\ link' = [link EXCEPT !.tryNext = (at + 1) % NumBoxes]
        /\ text' = [text EXCEPT ![<<link.boardOf[<<b, x.link>>], c>>]
                                  = Added(@, x.bytes[4])]
  BY <1>3, <1>a DEF PollStdOut, ThreadOf
<1>5. GetPacket(b) /\ x = Received(b)
  BY <1>2, <1>3, <1>a
<1> HIDE DEF at, pkt
<1>6. x \in Packets /\ ChannelOf(x.bytes) \in Channels
  BY <1>0, <1>5, Got
<1>7. PICK q \in Ports : q = <<b, x.link>>
  BY <1>6 DEF Packets, Ports
<1>8. q[1] = b /\ q[2] = x.link /\ IdOf(q) \in {Bridge} \cup Identities /\ q[1] \in Boxes
  BY <1>0, <1>7, IdTyped
<1>9. PICK n \in Nat, g \in [Channels -> Nat] :
        At(q, n, g) /\ Live(q[1], q[2], IdOf(q), View(q), n, g)
  BY <1>0, AllServe DEF Linked, At
<1> DEFINE ch == ChannelOf(x.bytes)
           F == Stream(q[1], q[2], IdOf(q), ch)
<1>10. IsItem(q, g, x) /\ Bounded(q, n, Plus(g, ch))
  BY <1>0, <1>5, <1>7, <1>9, NextBounded
<1>11. /\ g[ch] + 1 \in 1 .. Len(F) /\ x.bytes = F[g[ch] + 1] /\ g[ch] \in Nat
       /\ Plus(g, ch) \in [Channels -> Nat] /\ Plus(g, ch)[ch] = g[ch] + 1
  <2>1. g[ch] + 1 \in 1 .. Len(F) /\ x.bytes = F[g[ch] + 1]
    BY <1>10 DEF IsItem, Carries, Item
  <2> HIDE DEF ch, F
  <2>2. ch \in Channels
    BY <1>6 DEF ch
  <2>3. Plus(g, ch) \in [Channels -> Nat] /\ Plus(g, ch)[ch] = g[ch] + 1 /\ g[ch] \in Nat
    BY <2>2, PlusShape
  <2>4. QED
    BY <2>1, <2>3
<1>12. Len(F) = IF ch = Replies /\ IdOf(q) = Bridge /\ q[1] = Master THEN 3 ELSE 2
  <2>1. ch \in Channels /\ q[1] \in Boxes /\ IdOf(q) \in {Bridge} \cup Identities
    BY <1>6, <1>8
  <2> DEFINE id == IdOf(q)
             l == q[2]
             o == q[1]
  <2> HIDE DEF ch, id, l, o
  <2>2. id \in {Bridge} \cup Identities /\ ch \in Channels /\ o \in Boxes
    BY <2>1 DEF id, o
  <2>3. Len(Stream(o, l, id, ch)) =
          IF ch = Replies /\ id = Bridge /\ o = Master THEN 3 ELSE 2
    BY <2>2, StreamShape
  <2>4. QED
    BY <2>3 DEF id, l, o
<1> HIDE DEF ch
<1>13. ch # Replies
  <2>1. ASSUME ch = Replies PROVE FALSE
    <3>1. g[ch] = Base(q) + 1
      BY <1>0, <1>9, <2>1 DEF At, Progress
    <3>2. Len(F) = Base(q) + 1
      BY <1>12, <2>1 DEF Base
    <3> HIDE DEF F
    <3>3. QED
      BY <1>11, <3>1, <3>2
  <2>2. QED
    BY <2>1
<1>14. ch \in Cores
  BY <1>6, <1>13 DEF ch, Channels
<1>15. IdOf(q) # Bridge
  <2>1. IdOf(q) = Bridge => Plus(g, ch)[ch] = 0
    BY <1>10, <1>14 DEF Bounded, ch
  <2>2. QED
    BY <1>11, <2>1
<1>16. g[ch] \in {0, 1}
  BY <1>11, <1>12, <1>13
<1>17. x.bytes = <<STD, 0, ch, Text(q[1], q[2], ch)[g[ch] + 1]>>
  <2>1. F = <<<<STD, 0, ch, Text(q[1], q[2], ch)[1]>>, <<STD, 0, ch, Text(q[1], q[2], ch)[2]>>>>
    BY <1>13 DEF Stream, ch
  <2> DEFINE f1 == <<STD, 0, ch, Text(q[1], q[2], ch)[1]>>
             f2 == <<STD, 0, ch, Text(q[1], q[2], ch)[2]>>
  <2>2. F[1] = f1 /\ F[2] = f2
    <3>1. F = <<f1, f2>>
      BY <2>1
    <3> HIDE DEF F, f1, f2
    <3>2. QED
      BY <3>1
  <2> HIDE DEF F
  <2>3. CASE g[ch] = 0
    BY <1>11, <2>2, <2>3
  <2>4. CASE g[ch] = 1
    BY <1>11, <2>2, <2>4
  <2>5. QED
    BY <1>16, <2>3, <2>4
<1> DEFINE t == Text(q[1], q[2], ch)[g[ch] + 1]
<1>18. x.bytes[1] = STD /\ c = ch /\ x.bytes[4] = t
  BY <1>17
<1>19. t \in Int
  <2>1. x.bytes \in Seq(Int) /\ Len(x.bytes) = 4
    BY <1>6, <1>17 DEF Packets
  <2> HIDE DEF t
  <2>2. x.bytes[4] \in Int
    BY <2>1
  <2>3. QED
    BY <1>18, <2>2
<1> HIDE DEF F, c, t
<1>20. link.boardOf[q] = Home(q) /\ Home(q) \in Mesh
  BY <1>0, <1>15, HomeShape DEF Known
<1> DEFINE key == <<Home(q), ch>>
<1>b. link.boardOf[<<b, x.link>>] # None
  <2>1. Home(q) # <<>>
    <3>1. PICK xy \in Mesh : xy = Home(q)
      BY <1>20
    <3>2. xy = <<xy[1], xy[2]>>
      BY DEF Mesh
    <3>3. PICK i, j : xy = <<i, j>>
      BY <3>2
    <3>4. <<i, j>> # <<>>
      OBVIOUS
    <3>5. QED
      BY <3>1, <3>3, <3>4
  <2>2. QED
    BY <1>7, <1>20, <2>1 DEF None
<1>21. /\ link' = [link EXCEPT !.tryNext = (at + 1) % NumBoxes]
       /\ text' = [text EXCEPT ![key] = Added(text[key], t)]
       /\ key \in Mesh \X Cores
  BY <1>4, <1>7, <1>14, <1>18, <1>20, <1>b
<1> HIDE DEF key
<1>22. chain' = chain
  BY <1>5 DEF GetPacket, boardVars
<1>23. (at + 1) % NumBoxes \in 0 .. NumBoxes - 1
  <2>1. \A i \in Nat, j \in Nat \ {0} : (i + 1) % j \in 0 .. j - 1
    OBVIOUS
  <2>2. at \in Nat /\ NumBoxes \in Nat \ {0}
    BY <1>1, Shape
  <2>3. QED
    BY <2>1, <2>2
<1>24. /\ link' \in LinkType /\ link'.st = "poll" /\ link'.conn = link.conn
       /\ link'.k = link.k /\ link'.portOf = link.portOf /\ link'.boardOf = link.boardOf
       /\ link'.bridge = link.bridge
  BY <1>0, <1>21, <1>23 DEF LinkType
<1>25. LinkTypeOK'
  <2>1. text \in [Mesh \X Cores -> TextType]
    BY <1>0 DEF LinkTypeOK, TextType
  <2>2. Added(text[key], t) \in TextType
    BY <1>19, <1>21, <2>1, AddedTyped
  <2>3. text' \in [Mesh \X Cores -> TextType]
    BY <1>21, <2>1, <2>2
  <2>4. QED
    BY <1>24, <2>3 DEF LinkTypeOK, LinkType, TextType
<1>26. TablesStay /\ Talks
  BY <1>0, <1>22, <1>24 DEF TablesStay, Talks, Asking
<1>27. TablesOK'
  <2>1. link.st \in Asking \ {"query", "response"} /\ link'.st \in Asking \ {"query", "response"}
    BY <1>0, <1>24 DEF Asking
  <2>2. QED
    BY <1>26, <2>1, TablesFull
<1>28. TurnOK'
  BY <1>24 DEF TurnOK
<1>29. ASSUME NEW p \in Ports, NEW m \in Nat, NEW h \in [Channels -> Nat],
              At(p, m, h), Bounded(p, m, h)
       PROVE  IF p = q
              THEN IsItem(p, h, x) /\ Bounded(p, m, Plus(h, ChannelOf(x.bytes)))
                     => At(p, m, Plus(h, ChannelOf(x.bytes)))'
              ELSE At(p, m, h)'
  <2>1. /\ IdOf(p)' = IdOf(p) /\ Home(p)' = Home(p) /\ Base(p)' = Base(p)
    BY <1>26, SameTables
  <2>2. \A d \in Cores : IdOf(p) # Bridge => text[<<Home(p), d>>] = TextAfter(p[1], p[2], d, h[d])
    BY <1>0, <1>29 DEF At, Printed
  <2>3. \A d \in Cores : IdOf(p) = Bridge => h[d] = 0
    BY <1>29 DEF At, Printed
  <2>a. IdOf(p) # Bridge => Home(p) \in Mesh
    BY <1>0, HomeShape
  <2>4. ASSUME NEW d \in Cores, IdOf(p) # Bridge, p # q \/ d # ch
        PROVE  text'[<<Home(p), d>>] = text[<<Home(p), d>>]
    <3>1. p # q => Home(p) # Home(q)
      BY <1>0, <1>15, <2>4, HomeShape
    <3>2. <<Home(p), d>> # key /\ <<Home(p), d>> \in Mesh \X Cores
      BY <2>4, <2>a, <3>1 DEF key
    <3>3. text \in [Mesh \X Cores -> TextType]
      BY <1>0 DEF LinkTypeOK, TextType
    <3>4. QED
      BY <1>21, <3>2, <3>3
  <2>5. CASE p # q
    <3>1. Progress(p, m, h[Replies])'
      BY <1>0, <1>24, <1>29, <2>1 DEF At, Progress
    <3>2. Printed(p, h)'
      BY <1>24, <2>1, <2>2, <2>3, <2>4, <2>5 DEF Printed
    <3>3. QED
      BY <2>5, <3>1, <3>2 DEF At
  <2>6. CASE p = q
    <3> DEFINE h2 == Plus(h, ch)
    <3>0. ch \in Channels
      BY <1>14 DEF Channels
    <3>1. /\ h2 \in [Channels -> Nat] /\ h2[ch] = h[ch] + 1 /\ h[ch] \in Nat
          /\ \A d \in Channels : d # ch => h2[d] = h[d]
      BY <3>0, PlusShape
    <3> HIDE DEF h2
    <3>2. Progress(p, m, h2[Replies])'
      <4>1. h2[Replies] = h[Replies]
        BY <1>13, <3>1 DEF Channels
      <4>2. Progress(p, m, h[Replies])
        BY <1>29 DEF At
      <4>3. QED
        BY <1>0, <1>24, <2>1, <4>1, <4>2 DEF Progress
    <3>3. ASSUME IsItem(p, h, x), Bounded(p, m, h2)
          PROVE  Printed(p, h2)'
      <4>1. h[ch] \in {0, 1}
        <5>1. h2[ch] <= 2
          BY <1>14, <3>3 DEF Bounded
        <5>2. QED
          BY <3>1, <5>1
      <4>2. x.bytes = <<STD, 0, ch, Text(p[1], p[2], ch)[h[ch] + 1]>>
        <5> DEFINE f1 == <<STD, 0, ch, Text(p[1], p[2], ch)[1]>>
                   f2 == <<STD, 0, ch, Text(p[1], p[2], ch)[2]>>
                   G == Stream(p[1], p[2], IdOf(p), ch)
        <5>1. G = <<f1, f2>>
          BY <1>13 DEF Stream
        <5>2. x.bytes = G[h[ch] + 1]
          BY <3>3 DEF IsItem, Carries, Item, ch
        <5> HIDE DEF f1, f2, G
        <5>3. G[1] = f1 /\ G[2] = f2
          BY <5>1
        <5>4. h[ch] = 0 => x.bytes = f1
          BY <5>2, <5>3
        <5>5. h[ch] = 1 => x.bytes = f2
          BY <5>2, <5>3
        <5>6. QED
          BY <4>1, <5>4, <5>5 DEF f1, f2
      <4>3. t = Text(p[1], p[2], ch)[h[ch] + 1]
        BY <1>18, <4>2
      <4>4. text'[<<Home(p), ch>>] = TextAfter(p[1], p[2], ch, h2[ch])
        <5>1. text'[key] = Added(text[key], t)
          <6>1. text \in [Mesh \X Cores -> TextType]
            BY <1>0 DEF LinkTypeOK, TextType
          <6>2. QED
            BY <1>21, <6>1
        <5>2. text[key] = TextAfter(p[1], p[2], ch, h[ch])
          BY <1>14, <1>15, <2>2, <2>6 DEF key
        <5>3. TextAfter(p[1], p[2], ch, h[ch] + 1)
                = Added(TextAfter(p[1], p[2], ch, h[ch]), Text(p[1], p[2], ch)[h[ch] + 1])
          BY <4>1, TextNext
        <5>4. key = <<Home(p), ch>>
          BY <2>6 DEF key
        <5>5. TextAfter(p[1], p[2], ch, h2[ch]) = text'[key]
          BY <3>1, <4>3, <5>1, <5>2, <5>3
        <5>6. text'[key] = text'[<<Home(p), ch>>]
          BY <5>4
        <5>7. QED
          BY <5>5, <5>6
      <4>5. ASSUME NEW d \in Cores, d # ch
            PROVE  text'[<<Home(p), d>>] = TextAfter(p[1], p[2], d, h2[d])
        <5>1. h2[d] = h[d]
          BY <3>1, <4>5 DEF Channels
        <5>2. QED
          BY <1>15, <2>2, <2>4, <2>6, <4>5, <5>1
      <4>6. \A d \in Cores : text'[<<Home(p), d>>] = TextAfter(p[1], p[2], d, h2[d])
        BY <4>4, <4>5
      <4>7. QED
        BY <1>15, <1>24, <2>1, <2>6, <4>6 DEF Printed
    <3>4. QED
      BY <2>6, <3>2, <3>3 DEF At, h2, ch
  <2>7. QED
    BY <2>5, <2>6
<1>30. QED
  BY <1>5, <1>8, <1>25, <1>26, <1>27, <1>28, <1>29, GetKeeps

-----------------------------------------------------------------------------
(* The invariant holds from the start, and every step keeps it.            *)

\* At first no client is connected and nothing is in any queue.
LEMMA InitInvariant ==
  ASSUME Init
  PROVE  IInv
<1>1. /\ link = NewLink /\ text = NoText /\ ChainOK
      /\ board = [b \in Boxes |-> [l \in Links |-> NewBoard]]
      /\ uart = [b \in Boxes |-> [l \in Links |-> NewUart]]
      /\ printed = [b \in Boxes |-> [l \in Links |-> NothingPrinted]]
      /\ tcp = [b \in Boxes |-> Closed] /\ server = [b \in Boxes |-> "listen"]
      /\ buffer = [b \in Boxes |-> [l \in Links |-> NewBuffer]]
  BY DEF Init, BoardsInit, CtrlInit, ChainOK
<1>2. /\ link \in LinkType /\ link.st = "off" /\ link.conn = {} /\ link.k = 0
      /\ link.portOf = [xy \in Mesh |-> None] /\ link.bridge = [b \in Boxes |-> None]
  BY <1>1, NewLinkTyped DEF NewLink
<1>3. BoxesTypeOK
  <2>1. Closed \in [client : BOOLEAN, up : Seq(Packets), down : Seq(Packets)]
    <3> DEFINE none == <<>>
    <3>1. Closed = [client |-> FALSE, up |-> none, down |-> none]
      BY DEF Closed
    <3>2. none \in Seq(Packets)
      OBVIOUS
    <3> HIDE DEF none
    <3>3. QED
      BY <3>1, <3>2
  <2>2. QED
    BY <1>1, <2>1, NewTyped DEF BoxesTypeOK
<1>4. LinkTypeOK
  BY <1>1, <1>2, NewLinkTyped DEF LinkTypeOK, LinkType
<1>5. TurnOK
  BY <1>1, <1>2 DEF TurnOK
<1>6. TablesOK
  <2>1. ASSUME NEW p \in Ports PROVE Unknown(p)
    <3>1. p[1] \in Boxes /\ (IdOf(p) # Bridge => Home(p) \in Mesh)
      BY <1>1, HomeShape DEF Ports
    <3>2. QED
      BY <1>2, <3>1 DEF Unknown
  <2>2. link.st # "response" /\ link.st \notin Asking \ {"query", "response"}
    BY <1>2 DEF Asking
  <2>3. QED
    BY <2>1, <2>2 DEF TablesOK
<1>7. ASSUME NEW b \in Boxes
      PROVE  /\ tcp[b].client = FALSE /\ tcp[b].up = <<>> /\ server[b] = "listen"
             /\ \A l \in Links : /\ buffer[b][l] = NewBuffer /\ printed[b][l] = NothingPrinted
                                 /\ board[b][l] = NewBoard /\ uart[b][l] = NewUart
  BY <1>1 DEF Closed
<1>8. ServerOK /\ ConnectionOK
  <2>1. link.st \notin Asking \cup {"ready"}
    BY <1>2 DEF Asking
  <2>2. QED
    BY <1>2, <1>7, <2>1 DEF ServerOK, ConnectionOK
<1>9. PortsOK
  <2>1. ASSUME NEW p \in Ports PROVE Lone(p[1], p[2], IdOf(p), View(p))
    <3> DEFINE v == View(p)
    <3>1. p[1] \in Boxes /\ p[2] \in Links /\ IdOf(p) \in {Bridge} \cup Identities
      BY <1>1, IdTyped
    <3>2. v \in ViewType
      BY <1>3, ViewTyped
    <3>3. v.up = <<>> /\ v.buf = NewBuffer /\ v.pr = NothingPrinted
      BY <1>7, <3>1 DEF View
    <3>4. v.bd = NewBoard /\ v.ua = NewUart
      BY <1>7, <3>1 DEF View
    <3> HIDE DEF v
    <3>5. Fresh(IdOf(p), v) /\ ~ Some(v.up)
      BY <3>3, <3>4 DEF Fresh, Some
    <3>6. Lone(p[1], p[2], IdOf(p), v)
      BY <3>1, <3>2, <3>3, <3>5, Restart
    <3>7. QED
      BY <3>6 DEF v
  <2>2. QED
    BY <1>2, <2>1 DEF PortsOK
<1>10. QED
  BY <1>1, <1>3, <1>4, <1>5, <1>6, <1>8, <1>9 DEF IInv, TypeOK

\* A step that changes nothing keeps the invariant.
LEMMA StutterKeeps ==
  ASSUME IInv, UNCHANGED vars
  PROVE  IInv'
<1>1. /\ chain' = chain /\ board' = board /\ uart' = uart /\ printed' = printed
      /\ tcp' = tcp /\ server' = server /\ buffer' = buffer /\ link' = link /\ text' = text
  BY DEF vars, boardVars, ctrlVars
<1>2. \A p : /\ IdOf(p)' = IdOf(p) /\ View(p)' = View(p) /\ Home(p)' = Home(p)
             /\ TempRank(p)' = TempRank(p) /\ Base(p)' = Base(p)
  BY <1>1 DEF IdOf, View, Home, TempRank, Base
<1>3. \A p : (Known(p)' <=> Known(p)) /\ (Unknown(p)' <=> Unknown(p))
  BY <1>1, <1>2 DEF Known, Unknown
<1>4. \A b : (Unready(b)' <=> Unready(b)) /\ KnownOf(b)' = KnownOf(b)
  BY <1>1, <1>3 DEF Unready, KnownOf
<1>5. TypeOK'
  BY <1>1 DEF IInv, TypeOK, ChainOK, BoxesTypeOK, LinkTypeOK
<1>6. TurnOK'
  BY <1>1 DEF IInv, TurnOK
<1>7. TablesOK'
  BY <1>1, <1>3, <1>4 DEF IInv, TablesOK
<1>8. ServerOK'
  BY <1>1, <1>2 DEF IInv, ServerOK
<1>9. ConnectionOK'
  BY <1>1, <1>4 DEF IInv, ConnectionOK
<1>10. PortsOK'
  <2>1. \A p, n, g : /\ Progress(p, n, g[Replies])' <=> Progress(p, n, g[Replies])
                     /\ Printed(p, g)' <=> Printed(p, g)
    BY <1>1, <1>2, <1>3 DEF Progress, Printed
  <2>2. \A p : Linked(p)' <=> Linked(p)
    BY <1>2, <2>1 DEF Linked
  <2>3. \A p : Stale(p)' <=> Stale(p)
    BY <1>1, <1>2 DEF Stale, Loose
  <2>4. QED
    BY <1>1, <1>2, <2>2, <2>3 DEF IInv, PortsOK
<1>11. QED
  BY <1>5, <1>6, <1>7, <1>8, <1>9, <1>10 DEF IInv

\* The tables have the board of every turn of AskTemp's loop.
LEMMA AllFound ==
  ASSUME IInv, link.st = "askTemp"
  PROVE  Found(link.k)
<1>1. /\ ChainOK /\ link.k \in Nat /\ link.k < NumBoards + NumBoxes
      /\ \A p \in Ports : Known(p)
  BY LinkTyped DEF IInv, TypeOK, TurnOK, TablesOK, Asking, LinkType
<1>2. \A p \in Ports : ~ Unknown(p)
  BY <1>1, KnownOrNot
<1>3. NumBoards \in Nat \ {0} /\ NumBoxes \in Nat \ {0} /\ Cardinality(Mesh) = NumBoards
  BY Shape, Counts
<1> DEFINE k == link.k
<1>4. CASE k < NumBoards
  <2>1. k \in 0 .. NumBoards - 1
    BY <1>1, <1>3, <1>4
  <2>2. BoardAt(k) \in Mesh
    BY <2>1, MeshRanks
  <2>3. PICK p \in Ports : IdOf(p) # Bridge /\ Home(p) = BoardAt(k)
    BY <1>1, <2>2, HomeShape
  <2>4. link.portOf[BoardAt(k)] # None
    BY <1>2, <2>3 DEF Unknown
  <2>5. QED
    BY <1>3, <1>4, <2>4 DEF Found
<1>5. CASE ~ (k < NumBoards)
  <2> DEFINE j == k - NumBoards
             b == BoxAt(j)
  <2>1. j \in 0 .. NumBoxes - 1
    BY <1>1, <1>3, <1>5
  <2> HIDE DEF j
  <2>2. b \in Boxes
    BY <2>1, BoxRanks
  <2>3. PICK p \in Ports : p[1] = b /\ IdOf(p) = Bridge
    BY <1>1, <2>2, BridgePort
  <2>4. link.bridge[b] # None
    BY <1>2, <2>3 DEF Unknown
  <2>5. QED
    BY <1>3, <1>5, <2>4 DEF Found, j
<1>6. QED
  BY <1>4, <1>5

\* A connection is the program's until the program ends.
LEMMA StaysConnected ==
  ASSUME IInv
  PROVE  ~ Disconnected
<1>1. \A b \in link.conn : b \in Boxes /\ tcp[b].client
  BY LinkTyped DEF IInv, TypeOK, ServerOK, LinkType
<1>2. QED
  BY <1>1 DEF Disconnected

\* Every step of the specification keeps the invariant.
LEMMA NextKeeps ==
  ASSUME IInv, [Next]_vars, CalmEnds \/ CleanStart \/ UNCHANGED vars
  PROVE  IInv'
<1>1. CASE Construct
  BY <1>1, ConstructKeeps
<1>2. CASE LinkStep
  <2>1. CASE Connect
    <3>1. CASE UNCHANGED vars
      BY <3>1, StutterKeeps
    <3>2. CASE CalmEnds \/ CleanStart
      BY <2>1, <3>2, ConnectKeeps
    <3>3. QED
      BY <3>1, <3>2
  <2>2. CASE GetReady
    BY <2>2, GetReadyKeeps
  <2>3. CASE SendQuery
    BY <2>3, SendQueryKeeps
  <2>4. CASE GetResponse
    BY <2>4, GetResponseKeeps
  <2>5. CASE EnableIdle
    BY <2>5, EnableIdleKeeps
  <2>6. CASE IdleEnabled
    BY <2>6, IdleEnabledKeeps
  <2>7. CASE AskTemp
    BY <2>7, AskTempKeeps
  <2>8. CASE GetTemp
    BY <2>8, GetTempKeeps
  <2>9. CASE SetBroadcastDest
    BY <2>9, SetDestKeeps
  <2>10. CASE Put
    BY <2>10, PutKeeps
  <2>11. CASE PollStdOut
    BY <2>11, PollKeeps
  <2>12. CASE Fail
    <3>1. Gone /\ link.st = "fail"
      BY <2>12, LinkTyped DEF Fail, IInv, TypeOK, LinkType, Stages
    <3>2. QED
      BY <3>1, GoneKeeps
  <2>13. ~ NotFound
    BY AllFound DEF NotFound
  <2>14. QED
    BY <1>2, <2>1, <2>2, <2>3, <2>4, <2>5, <2>6, <2>7, <2>8, <2>9, <2>10, <2>11, <2>12, <2>13
    DEF LinkStep
<1>3. CASE Kill
  <2>1. Gone /\ link.st \in KillAt
    BY <1>3 DEF Kill
  <2>2. CalmEnds => link.st \in {"fail", "askTemp", "setDest", "put", "poll"}
    BY <2>1 DEF CalmEnds
  <2>3. QED
    BY <2>1, <2>2, GoneKeeps
<1>4. CASE Boards \/ Environment
  BY <1>4, BoardsKeep
<1>5. CASE UNCHANGED vars
  BY <1>5, StutterKeeps
<1>6. ~ Disconnected
  BY StaysConnected
<1>7. QED
  BY <1>1, <1>2, <1>3, <1>4, <1>5, <1>6 DEF Next

-----------------------------------------------------------------------------
(* Where a worker is, and where its links lead.                            *)

\* The weights of the three bits of edgeEn.
LEMMA Weights ==
  2 ^ 0 = 1 /\ 2 ^ 1 = 2 /\ 2 ^ 2 = 4
<1> DEFINE A == {}
           B == {0}
           C == {1}
           D == {0, 1}
<1>1. /\ IsFiniteSet(A) /\ Cardinality(A) = 0 /\ IsFiniteSet(B) /\ Cardinality(B) = 1
      /\ IsFiniteSet(C)
  BY FS_EmptySet, FS_Singleton
<1>2. IsFiniteSet(D) /\ Cardinality(D) = 2
  <2>1. 1 \notin B /\ B \cup {1} = D
    OBVIOUS
  <2> HIDE DEF B, D
  <2>2. IsFiniteSet(B \cup {1}) /\ Cardinality(B \cup {1}) = Cardinality(B) + 1
    BY <1>1, <2>1, FS_AddElement
  <2>3. QED
    BY <1>1, <2>1, <2>2
<1>3. SUBSET A = {A} /\ SUBSET B = {A, B} /\ SUBSET D = {A, B, C, D}
  <2>1. SUBSET A = {A}
    OBVIOUS
  <2>2. SUBSET B = {A, B}
    OBVIOUS
  <2>3. ASSUME NEW S \in SUBSET D PROVE S \in {A, B, C, D}
    <3>1. CASE 0 \in S /\ 1 \in S
      <4>1. S = D
        BY <3>1
      <4>2. QED
        BY <4>1
    <3>2. CASE 0 \in S /\ 1 \notin S
      <4>1. S = B
        BY <3>2
      <4>2. QED
        BY <4>1
    <3>3. CASE 0 \notin S /\ 1 \in S
      <4>1. S = C
        BY <3>3
      <4>2. QED
        BY <4>1
    <3>4. CASE 0 \notin S /\ 1 \notin S
      <4>1. S = A
        BY <3>4
      <4>2. QED
        BY <4>1
    <3>5. QED
      BY <3>1, <3>2, <3>3, <3>4
  <2>4. A \in SUBSET D /\ B \in SUBSET D /\ C \in SUBSET D /\ D \in SUBSET D
    OBVIOUS
  <2>5. SUBSET D = {A, B, C, D}
    <3> HIDE DEF A, B, C, D
    <3>1. QED
      BY <2>3, <2>4
  <2>6. QED
    BY <2>1, <2>2, <2>5
<1>4. A # B /\ C \notin {A, B} /\ D \notin {A, B, C}
  <2>1. /\ 0 \notin A /\ 0 \in B /\ 1 \notin A /\ 1 \notin B /\ 0 \notin C /\ 1 \in C
        /\ 0 \in D /\ 1 \in D
    OBVIOUS
  <2> HIDE DEF A, B, C, D
  <2>2. A # B /\ C # A /\ C # B /\ D # A /\ D # B /\ D # C
    BY <2>1
  <2>3. QED
    BY <2>2
<1> HIDE DEF A, B, C, D
<1>5. IsFiniteSet({A}) /\ Cardinality({A}) = 1
  BY FS_Singleton
<1>6. IsFiniteSet({A, B}) /\ Cardinality({A, B}) = 2
  <2>1. B \notin {A} /\ {A} \cup {B} = {A, B}
    BY <1>4
  <2>2. IsFiniteSet({A} \cup {B}) /\ Cardinality({A} \cup {B}) = Cardinality({A}) + 1
    BY <1>5, <2>1, FS_AddElement
  <2>3. QED
    BY <1>5, <2>1, <2>2
<1>7. IsFiniteSet({A, B, C}) /\ Cardinality({A, B, C}) = 3
  <2>1. {A, B} \cup {C} = {A, B, C}
    OBVIOUS
  <2>2. /\ IsFiniteSet({A, B} \cup {C})
        /\ Cardinality({A, B} \cup {C}) = Cardinality({A, B}) + 1
    BY <1>4, <1>6, FS_AddElement
  <2>3. QED
    BY <1>6, <2>1, <2>2
<1>8. Cardinality({A, B, C, D}) = 4
  <2>1. {A, B, C} \cup {D} = {A, B, C, D}
    OBVIOUS
  <2>2. Cardinality({A, B, C} \cup {D}) = Cardinality({A, B, C}) + 1
    BY <1>4, <1>7, FS_AddElement
  <2>3. QED
    BY <1>7, <2>1, <2>2
<1>9. \A S : IsFiniteSet(S) => Cardinality(SUBSET S) = 2 ^ Cardinality(S)
  BY FS_SUBSET
<1>10. Cardinality(SUBSET A) = 2 ^ 0 /\ Cardinality(SUBSET B) = 2 ^ 1
       /\ Cardinality(SUBSET D) = 2 ^ 2
  BY <1>1, <1>2, <1>9
<1>11. QED
  BY <1>3, <1>5, <1>6, <1>8, <1>10

\* The next place of a row of A blocks of L, and the one before.
LEMMA Steps ==
  ASSUME NEW A \in Nat \ {0}, NEW L \in Nat \ {0}, NEW a \in 0 .. A - 1, NEW x \in 0 .. L - 1
  PROVE  /\ a * L + x \in 0 .. L * A - 1
         /\ ~ (a = A - 1 /\ x = L - 1) => (a * L + x) + 1 \in 0 .. L * A - 1
         /\ a = A - 1 /\ x = L - 1 => (a * L + x) + 1 = L * A
         /\ ~ (a = 0 /\ x = 0) => (a * L + x) - 1 \in 0 .. L * A - 1
         /\ a = 0 /\ x = 0 => (a * L + x) - 1 = -1
<1>1. \A y \in 0 .. L - 1, z \in 0 .. A - 1 : y + L * z \in 0 .. L * A - 1
  BY Grid
<1>2. a * L + x = x + L * a
  OBVIOUS
<1>3. a * L + x \in 0 .. L * A - 1
  BY <1>1, <1>2
<1>4. x < L - 1 => (a * L + x) + 1 \in 0 .. L * A - 1
  <2>1. (a * L + x) + 1 = (x + 1) + L * a
    OBVIOUS
  <2>2. x < L - 1 => x + 1 \in 0 .. L - 1
    OBVIOUS
  <2>3. QED
    BY <1>1, <2>1, <2>2
<1>5. x = L - 1 /\ a < A - 1 => (a * L + x) + 1 \in 0 .. L * A - 1
  <2>1. x = L - 1 => (a * L + x) + 1 = 0 + L * (a + 1)
    OBVIOUS
  <2>2. (a < A - 1 => a + 1 \in 0 .. A - 1) /\ 0 \in 0 .. L - 1
    OBVIOUS
  <2>3. QED
    BY <1>1, <2>1, <2>2
<1>6. a = A - 1 /\ x = L - 1 => (a * L + x) + 1 = L * A
  OBVIOUS
<1>7. x > 0 => (a * L + x) - 1 \in 0 .. L * A - 1
  <2>1. (a * L + x) - 1 = (x - 1) + L * a
    OBVIOUS
  <2>2. x > 0 => x - 1 \in 0 .. L - 1
    OBVIOUS
  <2>3. QED
    BY <1>1, <2>1, <2>2
<1>8. x = 0 /\ a > 0 => (a * L + x) - 1 \in 0 .. L * A - 1
  <2>1. x = 0 => (a * L + x) - 1 = (L - 1) + L * (a - 1)
    OBVIOUS
  <2>2. (a > 0 => a - 1 \in 0 .. A - 1) /\ L - 1 \in 0 .. L - 1
    OBVIOUS
  <2>3. QED
    BY <1>1, <2>1, <2>2
<1>9. a = 0 /\ x = 0 => (a * L + x) - 1 = -1
  OBVIOUS
<1>10. QED
  BY <1>3, <1>4, <1>5, <1>6, <1>7, <1>8, <1>9

\* A link that is left on leads to a board of the program, or over the edge of
\* the cluster.
LEMMA LinkLeads ==
  ASSUME NEW b \in Boxes, NEW id \in Identities, NEW d \in LinkEn(id, EdgesOf(b)), NEW n,
         n = Neighbour(Coords(b, id), d)
  PROVE  n \in Mesh \/ n[1] = -1 \/ n[1] = ClusterXLen * MeshXLenInBox
<1> DEFINE x == id % Columns
           y == id \div Columns
           E == EdgesOf(b)
           hx == b[1] * MeshXLenInBox + x
           hy == b[2] * MeshYLenInBox + y
<1>1. /\ x \in 0 .. MeshXLenInBox - 1 /\ y \in 0 .. MeshYLenInBox - 1
      /\ b[1] \in 0 .. BoxMeshXLen - 1 /\ b[2] \in 0 .. BoxMeshYLen - 1
  BY IdentityShape, BoxNumbers, Shape
<1>2. Coords(b, id) = <<hx, hy>>
  BY DEF Coords
<1>3. /\ E \in 0 .. 7
      /\ Bit(E, 0) = E % 2 /\ Bit(E, 1) = (E \div 2) % 2 /\ Bit(E, 2) = (E \div 4) % 2
  <2>1. E \in 0 .. 7
    BY BoxNumbers
  <2> HIDE DEF E
  <2>2. E \div 1 = E
    BY <2>1
  <2>3. QED
    BY <2>1, <2>2, Weights DEF Bit
<1>4. /\ b[2] = BoxMeshYLen - 1 => E % 2 = 1
      /\ b[2] = 0 => (E \div 2) % 2 = 1
      /\ BoxMeshXLen = 1 => (E \div 4) % 2 = 1
  <2> DEFINE p == IF b[2] = BoxMeshYLen - 1 THEN 1 ELSE 0
             q == IF b[2] = 0 THEN 2 ELSE 0
             r == IF BoxMeshXLen = 1 THEN 4 ELSE 0
  <2>1. E = p + q + r
    BY DEF EdgesOf
  <2>2. p \in {0, 1} /\ q \in {0, 2} /\ r \in {0, 4}
    OBVIOUS
  <2>3. /\ b[2] = BoxMeshYLen - 1 => p = 1
        /\ b[2] = 0 => q = 2
        /\ BoxMeshXLen = 1 => r = 4
    OBVIOUS
  <2> HIDE DEF p, q, r, E
  <2>4. (p = 1 => E % 2 = 1) /\ (q = 2 => (E \div 2) % 2 = 1) /\ (r = 4 => (E \div 4) % 2 = 1)
    BY <2>1, <2>2
  <2>5. QED
    BY <2>3, <2>4
<1>5. /\ d \in {"N", "S", "E", "W"}
      /\ d = "N" => ~ (y = MeshYLenInBox - 1 /\ b[2] = BoxMeshYLen - 1)
      /\ d = "S" => ~ (y = 0 /\ b[2] = 0)
      /\ d = "E" => ~ (x = MeshXLenInBox - 1 /\ BoxMeshXLen = 1)
  <2> HIDE DEF x, y, E
  <2>1. d \in {"N", "S", "E", "W"}
        \ ((IF y = MeshYLenInBox - 1 /\ Bit(E, 0) = 1 THEN {"N"} ELSE {})
           \cup (IF y = 0 /\ Bit(E, 1) = 1 THEN {"S"} ELSE {})
           \cup (IF x = MeshXLenInBox - 1 /\ Bit(E, 2) = 1 THEN {"E"} ELSE {})
           \cup (IF x = 0 /\ Bit(E, 2 + 1) = 1 THEN {"W"} ELSE {}))
    BY DEF LinkEn, x, y, E
  <2>2. QED
    BY <1>3, <1>4, <2>1
<1> HIDE DEF x, y, E
<1>6. /\ hx \in 0 .. MeshXLen - 1
      /\ ~ (b[1] = BoxMeshXLen - 1 /\ x = MeshXLenInBox - 1) => hx + 1 \in 0 .. MeshXLen - 1
      /\ b[1] = BoxMeshXLen - 1 /\ x = MeshXLenInBox - 1 => hx + 1 = MeshXLenInBox * BoxMeshXLen
      /\ ~ (b[1] = 0 /\ x = 0) => hx - 1 \in 0 .. MeshXLen - 1
      /\ b[1] = 0 /\ x = 0 => hx - 1 = -1
  <2>1. BoxMeshXLen \in Nat \ {0} /\ MeshXLenInBox \in Nat \ {0}
    BY Shape
  <2>2. QED
    BY <1>1, <2>1, Steps DEF MeshXLen
<1>7. /\ hy \in 0 .. MeshYLen - 1
      /\ ~ (b[2] = BoxMeshYLen - 1 /\ y = MeshYLenInBox - 1) => hy + 1 \in 0 .. MeshYLen - 1
      /\ ~ (b[2] = 0 /\ y = 0) => hy - 1 \in 0 .. MeshYLen - 1
  BY <1>1, Shape, Steps DEF MeshYLen
<1>8. BoxMeshXLen # 1 => MeshXLenInBox * BoxMeshXLen = ClusterXLen * MeshXLenInBox
  <2>1. BoxMeshXLen \in Nat \ {0} /\ BoxMeshXLen <= 2 /\ MeshXLenInBox \in Nat
    BY Shape, LinkAssumption DEF ClusterXLen
  <2>2. BoxMeshXLen # 1 => BoxMeshXLen = 2
    BY <2>1
  <2>3. QED
    BY <2>1, <2>2 DEF ClusterXLen
<1> HIDE DEF hx, hy
<1>9. n = CASE d = "N" -> <<hx, hy + 1>> [] d = "S" -> <<hx, hy - 1>>
            [] d = "E" -> <<hx + 1, hy>> [] d = "W" -> <<hx - 1, hy>>
  <2>1. PICK xy : xy = Coords(b, id)
    OBVIOUS
  <2>2. xy[1] = hx /\ xy[2] = hy
    BY <1>2, <2>1
  <2>3. n = Neighbour(xy, d)
    BY <2>1
  <2>4. QED
    BY <2>2, <2>3 DEF Neighbour
<1>10. CASE d = "N"
  BY <1>5, <1>6, <1>7, <1>9, <1>10 DEF Mesh
<1>11. CASE d = "S"
  BY <1>5, <1>6, <1>7, <1>9, <1>11 DEF Mesh
<1>12. CASE d = "E"
  <2>1. n = <<hx + 1, hy>>
    BY <1>9, <1>12
  <2>2. QED
    BY <1>5, <1>6, <1>7, <1>8, <1>12, <2>1 DEF Mesh
<1>13. CASE d = "W"
  <2>1. n = <<hx - 1, hy>>
    BY <1>9, <1>13
  <2>2. QED
    BY <1>6, <1>7, <2>1 DEF Mesh
<1>14. QED
  BY <1>5, <1>10, <1>11, <1>12, <1>13

\* A worker has been told its place, or none of its links is on.
LEMMA WorkerRegisters ==
  ASSUME IInv, NEW p \in Workers
  PROVE  /\ p \in Ports /\ IdOf(p) \in Identities /\ IdOf(p) # Bridge
         /\ \/ board[p[1]][p[2]].offset = <<>> /\ board[p[1]][p[2]].linkEn = {}
            \/ /\ board[p[1]][p[2]].offset = <<OffsetOf(p[1])>>
               /\ board[p[1]][p[2]].linkEn = LinkEn(IdOf(p), EdgesOf(p[1]))
<1>0. ChainOK /\ BoxesTypeOK /\ PortsOK
  BY DEF IInv, TypeOK
<1>1. /\ p \in Ports /\ p[1] \in Boxes /\ p[2] \in Links
      /\ IdOf(p) \in Identities /\ IdOf(p) # Bridge
  BY <1>0, IdTyped DEF Workers
<1>2. View(p) \in ViewType /\ View(p).bd = board[p[1]][p[2]]
  <2>1. View(p) \in ViewType
    BY <1>0, <1>1, ViewTyped
  <2>2. View(p).bd = board[p[1]][p[2]]
    BY DEF View
  <2>3. QED
    BY <2>1, <2>2
<1>3. \E e \in Nat : Registers(p[1], IdOf(p), View(p).bd, View(p).pr, e)
  <2>1. ~ Stale(p)
    BY <1>1 DEF Stale, Loose
  <2>2. QED
    BY <1>0, <1>1, <2>1, PortSound
<1>4. PICK e \in Nat : Registers(p[1], IdOf(p), View(p).bd, View(p).pr, e)
  BY <1>3
<1>5. /\ board[p[1]][p[2]].offset = IF e >= 1 THEN <<OffsetOf(p[1])>> ELSE <<>>
      /\ board[p[1]][p[2]].linkEn = IF e >= 1 THEN LinkEn(IdOf(p), EdgesOf(p[1])) ELSE {}
  BY <1>1, <1>2, <1>4 DEF Registers
<1>6. QED
  BY <1>1, <1>5

\* A worker told its place takes itself to be there: the offset of its box
\* fits the nibbles of the command.
LEMMA PlaceOfWorker ==
  ASSUME IInv, NEW p \in Workers, board[p[1]][p[2]].offset = <<OffsetOf(p[1])>>
  PROVE  BoardId(p) = Home(p)
<1> DEFINE x == p[1][1] * MeshXLenInBox
           y == p[1][2] * MeshYLenInBox
<1>1. p[1] \in Boxes /\ p[1][1] \in Nat /\ p[1][2] \in Nat /\ p[1][1] <= BoxMeshXLen - 1
  BY WorkerRegisters, BoxNumbers DEF Ports
<1>2. x \in Nat /\ y \in Nat /\ x < 16
  <2>1. /\ BoxMeshXLen \in Nat \ {0} /\ MeshXLenInBox \in Nat /\ MeshYLenInBox \in Nat
        /\ (BoxMeshXLen - 1) * MeshXLenInBox < 16
    BY Shape, LinkAssumption
  <2>2. \A i, j, k \in Nat : i <= j => i * k <= j * k
    OBVIOUS
  <2>3. BoxMeshXLen - 1 \in Nat /\ (BoxMeshXLen - 1) * MeshXLenInBox \in Nat
    BY <2>1
  <2>4. x <= (BoxMeshXLen - 1) * MeshXLenInBox
    BY <1>1, <2>1, <2>2, <2>3
  <2>5. x \in Nat /\ y \in Nat
    BY <1>1, <2>1
  <2>6. QED
    BY <2>1, <2>3, <2>4, <2>5
<1>3. OffsetOf(p[1]) = 16 * y + x
  BY DEF OffsetOf
<1> HIDE DEF x, y
<1>4. OffsetOf(p[1]) % 16 = x /\ OffsetOf(p[1]) \div 16 = y
  <2>1. \A i, j \in Nat : i < 16 => (16 * j + i) % 16 = i /\ (16 * j + i) \div 16 = j
    OBVIOUS
  <2>2. QED
    BY <1>2, <1>3, <2>1
<1>5. board[p[1]][p[2]].offset[1] = OffsetOf(p[1])
  OBVIOUS
<1>6. QED
  BY <1>4, <1>5 DEF BoardId, Home, Coords, IdOf, x, y

\* Once the program asks for temperatures, every worker has been told its
\* place; so too once the bridge of the master box has been told to detect
\* idleness.
LEMMA PlacesTold ==
  ASSUME IInv, link.st \in {"enabled", "askTemp", "getTemp", "setDest", "put", "poll"},
         NEW p \in Workers
  PROVE  board[p[1]][p[2]].offset = <<OffsetOf(p[1])>>
<1>0. ChainOK /\ BoxesTypeOK
  BY DEF IInv, TypeOK
<1>1. /\ p \in Ports /\ p[1] \in Boxes /\ p[2] \in Links
      /\ IdOf(p) \in {Bridge} \cup Identities /\ IdOf(p) # Bridge
  BY <1>0, WorkerRegisters, IdTyped
<1>2. View(p) \in ViewType /\ View(p).bd = board[p[1]][p[2]]
  <2>1. View(p) \in ViewType
    BY <1>0, <1>1, ViewTyped
  <2>2. View(p).bd = board[p[1]][p[2]]
    BY DEF View
  <2>3. QED
    BY <2>1, <2>2
<1>3. Linked(p)
  BY <1>1, AllServe DEF Asking
<1>4. PICK n \in Nat, g \in [Channels -> Nat] :
        Progress(p, n, g[Replies]) /\ Live(p[1], p[2], IdOf(p), View(p), n, g)
  BY <1>3 DEF Linked
<1>5. g[Replies] >= 1
  <2>1. Base(p) \in {1, 2}
    BY <1>0, <1>1, InOrder
  <2>2. /\ Before(TempRank(p), link.k) \in {0, 1} /\ Base(p) + 1 >= 1
        /\ Base(p) + Before(TempRank(p), link.k) >= 1
    BY <2>1 DEF Before
  <2>3. QED
    BY <1>4, <2>1, <2>2 DEF Progress
<1>6. PICK e \in Nat : g[Replies] <= e /\ Registers(p[1], IdOf(p), View(p).bd, View(p).pr, e)
  BY <1>1, <1>2, <1>4, LiveBounds
<1>7. g[Replies] \in Nat
  BY DEF Channels
<1>8. e >= 1
  BY <1>5, <1>6, <1>7
<1>9. QED
  BY <1>1, <1>2, <1>6, <1>8 DEF Registers

\* Idle detection is on at the master box only when the program, having heard
\* from every board, has told its bridge so.
LEMMA IdleLate ==
  ASSUME IInv, tcp[Master].client, server[Master] = "serve", NEW l \in Links,
         board[Master][l].idle
  PROVE  link.st \in {"enabled", "askTemp", "getTemp", "setDest", "put", "poll"}
<1> DEFINE p == <<Master, l>>
<1>0. ChainOK /\ BoxesTypeOK /\ ServerOK /\ PortsOK /\ link \in LinkType
  BY LinkTyped DEF IInv, TypeOK
<1>1. /\ p \in Ports /\ p[1] = Master /\ p[2] = l /\ Master \in Boxes
      /\ IdOf(p) \in {Bridge} \cup Identities
  <2>1. Master \in Boxes /\ p \in Ports
    BY Counts DEF Ports
  <2>2. QED
    BY <1>0, <2>1, IdTyped
<1>2. View(p) \in ViewType /\ View(p).bd = board[Master][l] /\ View(p).at = server[Master]
  <2>1. View(p) \in ViewType
    BY <1>0, <1>1, ViewTyped
  <2>2. View(p).bd = board[Master][l] /\ View(p).at = server[Master]
    BY DEF View
  <2>3. QED
    BY <2>1, <2>2
<1> HIDE DEF p
<1>3. Master \in link.conn
  BY <1>0, <1>1 DEF ServerOK
<1>a. ~ Loose(p)
  BY <1>1, <1>3 DEF Loose
<1>b. Linked(p)
  BY <1>0, <1>1, <1>3, <1>a, NotLoose
<1>4. PICK n \in Nat, g \in [Channels -> Nat] :
        Progress(p, n, g[Replies]) /\ Live(p[1], p[2], IdOf(p), View(p), n, g)
  BY <1>b DEF Linked
<1>5. PICK e \in Nat : /\ e <= n /\ Registers(p[1], IdOf(p), View(p).bd, View(p).pr, e)
                       /\ IdOf(p) = Bridge /\ p[1] = Master /\ View(p).at = "serve"
                            /\ View(p).bd.idle => e >= 2
  <2>1. /\ p[1] \in Boxes /\ p[2] \in Links /\ View(p) \in ViewType
        /\ IdOf(p) \in {Bridge} \cup Identities
    BY <1>1, <1>2
  <2>2. Live(p[1], p[2], IdOf(p), View(p), n, g)
    BY <1>4
  <2>3. \E e \in Nat :
          /\ g[Replies] <= e /\ e <= n /\ n <= Len(Commands(p[1], IdOf(p)))
          /\ Registers(p[1], IdOf(p), View(p).bd, View(p).pr, e)
          /\ \A c \in Cores : g[c] <= View(p).pr[c] /\ g[c] <= 2
          /\ IdOf(p) = Bridge /\ p[1] = Master /\ View(p).at = "serve" /\ View(p).bd.idle => e >= 2
    BY <2>1, <2>2, LiveBounds
  <2>4. QED
    BY <2>3
<1>6. IdOf(p) = Bridge
  <2>1. View(p).bd.idle = TRUE
    BY <1>2
  <2>2. QED
    BY <1>5, <2>1 DEF Registers
<1>7. n >= 2
  BY <1>1, <1>2, <1>5, <1>6
<1>8. link.st \notin {"off", "exit", "connect", "ready", "fail", "query", "response", "enable"}
  <2>1. Before(PortRank(p), link.k) \in {0, 1}
    BY DEF Before
  <2>2. QED
    BY <1>4, <1>7, <2>1 DEF Progress
<1>9. QED
  BY <1>0, <1>8 DEF LinkType, Stages

\* The invariant implies the first property.
LEMMA TopologyFollows ==
  ASSUME IInv
  PROVE  TopologySound
<1>0. ChainOK /\ BoxesTypeOK /\ TablesOK /\ link \in LinkType
  BY LinkTyped DEF IInv, TypeOK
<1>1. link.st # "abort"
  BY <1>0 DEF LinkType, Stages
<1>2. ASSUME Constructed
      PROVE  /\ \A b \in Boxes : chain[b][link.bridge[b][1]] = Bridge
             /\ \A p \in Workers : /\ link.boardOf[p] = BoardId(p)
                                    /\ link.portOf[BoardId(p)] = p
  <2>1. \A p \in Ports : Known(p)
    <3>1. link.st \in Asking \ {"query", "response"}
      BY <1>2 DEF Constructed, Asking
    <3>2. QED
      BY <1>0, <3>1 DEF TablesOK
  <2>2. ASSUME NEW b \in Boxes PROVE chain[b][link.bridge[b][1]] = Bridge
    <3>1. PICK l : l = link.bridge[b][1]
      OBVIOUS
    <3>2. IdOf(<<b, l>>) = Bridge
      BY <1>0, <2>1, <3>1, Tabled
    <3>3. QED
      BY <3>1, <3>2 DEF IdOf
  <2>3. ASSUME NEW p \in Workers
        PROVE  link.boardOf[p] = BoardId(p) /\ link.portOf[BoardId(p)] = p
    <3>1. p \in Ports /\ IdOf(p) # Bridge
      BY WorkerRegisters
    <3>2. BoardId(p) = Home(p)
      BY <1>2, PlacesTold, PlaceOfWorker DEF Constructed
    <3>3. link.portOf[Home(p)] = p /\ link.boardOf[p] = Home(p)
      BY <2>1, <3>1 DEF Known
    <3>4. QED
      BY <3>2, <3>3
  <2>4. QED
    BY <2>2, <2>3
<1>3. ASSUME NEW p \in Workers, NEW d \in board[p[1]][p[2]].linkEn
      PROVE  Inside(Neighbour(BoardId(p), d))
  <2>1. p \in Ports /\ IdOf(p) \in Identities
    BY WorkerRegisters
  <2>2. /\ board[p[1]][p[2]].offset = <<OffsetOf(p[1])>>
        /\ board[p[1]][p[2]].linkEn = LinkEn(IdOf(p), EdgesOf(p[1]))
    BY WorkerRegisters
  <2>3. BoardId(p) = Coords(p[1], IdOf(p))
    BY <2>2, PlaceOfWorker DEF Home
  <2>4. PICK n : n = Neighbour(Coords(p[1], IdOf(p)), d)
    OBVIOUS
  <2>5. p[1] \in Boxes
    BY <2>1 DEF Ports
  <2>6. n \in Mesh \/ n[1] = -1 \/ n[1] = ClusterXLen * MeshXLenInBox
    BY <2>1, <2>2, <2>4, <2>5, LinkLeads
  <2>7. QED
    BY <2>3, <2>4, <2>6 DEF Inside
<1>4. ASSUME tcp[Master].client, server[Master] = "serve", NEW l \in Links,
             board[Master][l].idle, NEW p \in Workers
      PROVE  board[p[1]][p[2]].offset # <<>>
  <2>1. board[p[1]][p[2]].offset = <<OffsetOf(p[1])>>
    BY <1>4, IdleLate, PlacesTold
  <2>2. QED
    BY <2>1
<1>5. QED
  BY <1>1, <1>2, <1>3, <1>4 DEF TopologySound, AssertionsHold

-----------------------------------------------------------------------------
(* What has been printed of a thread.                                      *)

\* Two numbers in a row, as one sequence.
LEMMA Pair ==
  ASSUME NEW x \in Int, NEW y \in Int
  PROVE  /\ Append(<<x>>, y) = <<x, y>> /\ <<x>> \o <<y>> = <<x, y>>
         /\ SubSeq(<<x, y>>, 1, 1) = <<x>>
<1>1. PICK q, r, s : q = <<x>> /\ r = <<y>> /\ s = <<x, y>>
  OBVIOUS
<1>2. /\ q \in Seq(Int) /\ r \in Seq(Int) /\ s \in Seq(Int) /\ Len(q) = 1 /\ Len(r) = 1
      /\ Len(s) = 2 /\ q[1] = x /\ r[1] = y /\ s[1] = x /\ s[2] = y
  BY <1>1
<1>3. Append(q, y) = s
  <2>0. q \in Seq(Int)
    BY <1>2
  <2>1. PICK z : z = Append(q, y)
    OBVIOUS
  <2>2. z \in Seq(Int) /\ Len(z) = Len(q) + 1
    BY <2>0, <2>1
  <2>3. \A i \in 1 .. Len(q) : z[i] = q[i]
    BY <2>0, <2>1, AppendProperties
  <2>4. z[Len(q) + 1] = y
    BY <2>0, <2>1, AppendProperties
  <2>5. z[1] = q[1] /\ z[2] = y
    BY <1>2, <2>3, <2>4
  <2>6. Len(z) = Len(s)
    BY <1>2, <2>2
  <2>7. \A i \in 1 .. Len(z) : z[i] = s[i]
    BY <1>2, <2>5, <2>6
  <2>8. z = s
    BY <1>2, <2>2, <2>6, <2>7, SeqEqual
  <2>9. QED
    BY <2>1, <2>8
<1>4. q \o r = s
  <2>0. q \in Seq(Int) /\ r \in Seq(Int)
    BY <1>2
  <2>1. PICK z : z = q \o r
    OBVIOUS
  <2>2. z \in Seq(Int) /\ Len(z) = Len(q) + Len(r)
    BY <2>0, <2>1
  <2>3. \A i \in 1 .. Len(q) + Len(r) : z[i] = IF i <= Len(q) THEN q[i] ELSE r[i - Len(q)]
    BY <2>0, <2>1, ConcatProperties
  <2>5. z[1] = q[1] /\ z[2] = r[1]
    BY <1>2, <2>3
  <2>6. Len(z) = Len(s)
    BY <1>2, <2>2
  <2>7. \A i \in 1 .. Len(z) : z[i] = s[i]
    BY <1>2, <2>5, <2>6
  <2>8. z = s
    BY <1>2, <2>2, <2>6, <2>7, SeqEqual
  <2>9. QED
    BY <2>1, <2>8
<1>5. SubSeq(s, 1, 1) = q
  <2>1. SubSeq(s, 1, 1) \in Seq(Int) /\ Len(SubSeq(s, 1, 1)) = 1 /\ SubSeq(s, 1, 1)[1] = x
    BY <1>2
  <2>2. QED
    BY <1>2, <2>1, SeqEqual
<1>6. QED
  BY <1>1, <1>3, <1>4, <1>5

\* A sequence of one sequence, flattened.
LEMMA FlattenOne ==
  ASSUME NEW s \in Seq(Int)
  PROVE  FlattenSeq(<<>>) = <<>> /\ FlattenSeq(<<s>>) = s
<1>1. FlattenSeq(<<>>) = <<>>
  BY DEF FlattenSeq
<1>2. FlattenSeq(<<s>>) = s
  <2> DEFINE q == <<s>>
             Flattens(h) == h = [i \in 1 .. Len(q) |-> IF i = 1 THEN q[i] ELSE h[i - 1] \o q[i]]
  <2>1. Len(q) = 1 /\ q[1] = s
    OBVIOUS
  <2>2. FlattenSeq(q) = (CHOOSE h : Flattens(h))[1]
    BY <2>1 DEF FlattenSeq
  <2>3. Flattens([i \in 1 .. 1 |-> s])
    <3> DEFINE w == [i \in 1 .. 1 |-> s]
    <3>1. \A i \in 1 .. 1 : w[i] = IF i = 1 THEN q[i] ELSE w[i - 1] \o q[i]
      BY <2>1
    <3> HIDE DEF q
    <3>2. w = [i \in 1 .. 1 |-> IF i = 1 THEN q[i] ELSE w[i - 1] \o q[i]]
      BY <3>1
    <3>3. QED
      BY <2>1, <3>2
  <2>4. PICK h : h = CHOOSE h0 : Flattens(h0)
    OBVIOUS
  <2>5. Flattens(h)
    <3> HIDE DEF Flattens
    <3>1. QED
      BY <2>3, <2>4
  <2>6. h[1] = q[1]
    BY <2>1, <2>5
  <2>7. FlattenSeq(q) = h[1]
    BY <2>2, <2>4
  <2>8. QED
    BY <2>1, <2>6, <2>7
<1>3. QED
  BY <1>1, <1>2

\* A thread's two characters: the first is a letter, the second ends the line
\* or is another letter.
LEMMA TextShape ==
  ASSUME NEW b \in Boxes, NEW l, NEW c \in Cores
  PROVE  /\ Text(b, l, c) = <<Text(b, l, c)[1], Text(b, l, c)[2]>>
         /\ Text(b, l, c)[1] \in Int /\ Text(b, l, c)[1] # NEWLINE
         /\ Text(b, l, c)[2] \in Int
<1>1. b[1] \in Nat /\ b[2] \in Nat /\ c \in Nat /\ NumCores \in Nat /\ BoxMeshXLen \in Nat
  BY BoxNumbers, Shape DEF Cores
<1>2. BoxMeshXLen * b[2] \in Nat
  BY <1>1
<1>3. NumCores * (b[1] + BoxMeshXLen * b[2]) \in Nat
  BY <1>1, <1>2
<1>4. PICK k \in Nat : k = NumCores * (b[1] + BoxMeshXLen * b[2])
  BY <1>3
<1>5. Text(b, l, c) = <<97 + c + k, IF b = <<0, 0>> THEN 33 ELSE NEWLINE>>
  BY <1>4 DEF Text
<1>6. 97 + c + k \in Int /\ 97 + c + k # NEWLINE
  BY <1>1, <1>4 DEF NEWLINE
<1>7. (IF b = <<0, 0>> THEN 33 ELSE NEWLINE) \in Int
  BY DEF NEWLINE
<1>8. QED
  BY <1>5, <1>6, <1>7

\* The line buffer after each character.
LEMMA TextLines ==
  ASSUME NEW b \in Boxes, NEW l, NEW c \in Cores, NEW t
  PROVE  LET x == Text(b, l, c)[1]
             y == Text(b, l, c)[2] IN
         /\ t = TextAfter(b, l, c, 0) => t.lines = <<>> /\ t.line = <<>>
         /\ t = TextAfter(b, l, c, 1) => t.lines = <<>> /\ t.line = <<x>>
         /\ t = TextAfter(b, l, c, 2) =>
              /\ y = NEWLINE => t.lines = <<<<x>>>> /\ t.line = <<>>
              /\ y # NEWLINE /\ MaxLineLen = 2 => t.lines = <<<<x>>>> /\ t.line = <<y>>
              /\ y # NEWLINE /\ MaxLineLen # 2 => t.lines = <<>> /\ t.line = <<x, y>>
<1> DEFINE x == Text(b, l, c)[1]
           y == Text(b, l, c)[2]
           t0 == [lines |-> <<>>, line |-> <<>>]
           t1 == [lines |-> <<>>, line |-> <<x>>]
<1>1. x \in Int /\ y \in Int /\ x # NEWLINE /\ MaxLineLen \in Nat /\ MaxLineLen > 1
  BY TextShape, LinkAssumption
<1>2. /\ TextAfter(b, l, c, 0) = t0 /\ TextAfter(b, l, c, 1) = Added(t0, x)
      /\ TextAfter(b, l, c, 2) = Added(Added(t0, x), y)
  BY DEF TextAfter
<1> HIDE DEF x, y
<1>3. Added(t0, x) = t1
  <2>1. Len(t0.line) = 0 /\ Append(t0.line, x) = <<x>> /\ t0.lines = <<>>
    OBVIOUS
  <2>2. Added(t0, x) = [t0 EXCEPT !.line = Append(@, x)]
    BY <1>1, <2>1 DEF Added
  <2>3. QED
    BY <2>1, <2>2
<1>4. /\ Len(t1.line) = 1 /\ t1.line = <<x>> /\ t1.lines = <<>>
      /\ Append(t1.lines, t1.line) = <<<<x>>>>
  OBVIOUS
<1>5. y = NEWLINE => Added(t1, y) = [lines |-> <<<<x>>>>, line |-> <<>>]
  BY <1>4 DEF Added
<1>6. y # NEWLINE /\ MaxLineLen = 2 => Added(t1, y) = [lines |-> <<<<x>>>>, line |-> <<y>>]
  <2> DEFINE u == [lines |-> <<<<x>>>>, line |-> <<>>]
  <2>1. y # NEWLINE /\ MaxLineLen = 2 => Added(t1, y) = [u EXCEPT !.line = Append(@, y)]
    BY <1>4 DEF Added
  <2>2. u.line = <<>> /\ u.lines = <<<<x>>>> /\ Append(u.line, y) = <<y>>
    OBVIOUS
  <2>3. QED
    BY <2>1, <2>2
<1>7. y # NEWLINE /\ MaxLineLen # 2 => Added(t1, y) = [lines |-> <<>>, line |-> <<x, y>>]
  <2>1. y # NEWLINE /\ MaxLineLen # 2 => Added(t1, y) = [t1 EXCEPT !.line = Append(@, y)]
    <3>1. MaxLineLen # 2 => Len(t1.line) # MaxLineLen - 1
      BY <1>1, <1>4
    <3> HIDE DEF t1
    <3>2. QED
      BY <3>1 DEF Added
  <2>2. Append(t1.line, y) = <<x, y>>
    <3>1. Append(<<x>>, y) = <<x, y>>
      BY <1>1, Pair
    <3>2. QED
      BY <1>4, <3>1
  <2>3. QED
    BY <1>4, <2>1, <2>2
<1>8. QED
  BY <1>2, <1>3, <1>5, <1>6, <1>7 DEF x, y

\* What is shown of a thread's characters is the beginning of its letters.
LEMMA TextShown ==
  ASSUME NEW p \in Ports, NEW c \in Cores, NEW n \in {0, 1, 2}, NEW t,
         t = TextAfter(p[1], p[2], c, n)
  PROVE  IsPrefix(FlattenSeq(t.lines) \o t.line, Letters(p, c)) /\ Len(t.line) < MaxLineLen
<1> DEFINE x == Text(p[1], p[2], c)[1]
           y == Text(p[1], p[2], c)[2]
           s == FlattenSeq(t.lines) \o t.line
           w == Letters(p, c)
<1>1. /\ p[1] \in Boxes /\ MaxLineLen \in Nat /\ MaxLineLen > 1
      /\ x \in Int /\ y \in Int /\ x # NEWLINE /\ Text(p[1], p[2], c) = <<x, y>>
  <2>1. p[1] \in Boxes
    BY DEF Ports
  <2>2. QED
    BY <2>1, TextShape, LinkAssumption
<1>2. w = IF y = NEWLINE THEN <<x>> ELSE <<x, y>>
  <2>1. PICK u : u = Text(p[1], p[2], c) /\ u = <<x, y>>
    BY <1>1
  <2>2. w = IF Last(u) = NEWLINE THEN Front(u) ELSE u
    BY <2>1 DEF Letters
  <2> HIDE DEF x, y
  <2>3. Len(u) = 2 /\ Last(u) = y
    BY <2>1 DEF Last
  <2>4. Front(u) = <<x>>
    <3>1. Front(u) = SubSeq(<<x, y>>, 1, 1)
      BY <2>1, <2>3 DEF Front
    <3>2. QED
      BY <1>1, <3>1, Pair
  <2>5. QED
    BY <2>1, <2>2, <2>3, <2>4
<1>3. /\ n = 0 => t.lines = <<>> /\ t.line = <<>>
      /\ n = 1 => t.lines = <<>> /\ t.line = <<x>>
      /\ n = 2 /\ y = NEWLINE => t.lines = <<<<x>>>> /\ t.line = <<>>
      /\ n = 2 /\ y # NEWLINE /\ MaxLineLen = 2 => t.lines = <<<<x>>>> /\ t.line = <<y>>
      /\ n = 2 /\ y # NEWLINE /\ MaxLineLen # 2 => t.lines = <<>> /\ t.line = <<x, y>>
  BY <1>1, TextLines
<1> HIDE DEF x, y
<1>4. /\ <<x>> \in Seq(Int) /\ FlattenSeq(<<>>) = <<>> /\ FlattenSeq(<<<<x>>>>) = <<x>>
      /\ <<x>> \o <<>> = <<x>> /\ <<x>> \o <<y>> = <<x, y>> /\ <<>> \o <<>> = <<>>
      /\ <<>> \o <<x>> = <<x>> /\ <<>> \o <<x, y>> = <<x, y>>
  <2>1. <<x>> \in Seq(Int) /\ <<y>> \in Seq(Int) /\ <<x, y>> \in Seq(Int) /\ <<>> \in Seq(Int)
    BY <1>1
  <2>2. FlattenSeq(<<>>) = <<>> /\ FlattenSeq(<<<<x>>>>) = <<x>>
    BY <2>1, FlattenOne
  <2>3. \A q \in Seq(Int) : q \o <<>> = q /\ <<>> \o q = q
    BY Joins
  <2>4. <<x>> \o <<y>> = <<x, y>>
    BY <1>1, Pair
  <2>5. QED
    BY <2>1, <2>2, <2>3, <2>4
<1>5. /\ n = 0 => s = <<>>
      /\ n = 1 => s = <<x>>
      /\ n = 2 /\ y = NEWLINE => s = <<x>>
      /\ n = 2 /\ y # NEWLINE => s = <<x, y>>
  BY <1>3, <1>4
<1>6. Len(t.line) < MaxLineLen
  <2>1. Len(<<>>) = 0 /\ Len(<<x>>) = 1 /\ Len(<<y>>) = 1 /\ Len(<<x, y>>) = 2
    OBVIOUS
  <2>2. Len(t.line) \in {0, 1} \/ (Len(t.line) = 2 /\ MaxLineLen # 2)
    <3>1. CASE n = 0 \/ n = 1
      BY <1>3, <2>1, <3>1
    <3>2. CASE n = 2
      BY <1>3, <2>1, <3>2
    <3>3. QED
      BY <3>1, <3>2
  <2>3. \A k \in {0, 1, 2} : k \in {0, 1} \/ MaxLineLen # 2 => k < MaxLineLen
    BY <1>1
  <2>4. Len(t.line) \in {0, 1, 2} /\ (Len(t.line) \in {0, 1} \/ MaxLineLen # 2)
    BY <2>2
  <2>5. QED
    BY <2>3, <2>4
<1>7. s = <<>> \/ s = <<x>> \/ s = w
  BY <1>2, <1>5
<1>8. IsPrefix(<<>>, w) /\ IsPrefix(<<x>>, w) /\ IsPrefix(w, w)
  <2>1. CASE y = NEWLINE
    <3>1. w = <<x>>
      BY <1>2, <2>1
    <3> HIDE DEF w
    <3>2. Len(<<>>) = 0 /\ Len(w) = 1 /\ Len(<<x>>) = 1
      BY <3>1
    <3>3. SubSeq(<<>>, 1, 0) = SubSeq(w, 1, 0)
      BY <1>1, <3>1
    <3>4. QED
      BY <3>1, <3>2, <3>3 DEF IsPrefix
  <2>2. CASE y # NEWLINE
    <3>1. w = <<x, y>>
      BY <1>2, <2>2
    <3> HIDE DEF w
    <3>2. Len(<<>>) = 0 /\ Len(w) = 2 /\ Len(<<x>>) = 1
      BY <3>1
    <3>3. SubSeq(<<>>, 1, 0) = SubSeq(w, 1, 0) /\ SubSeq(<<x>>, 1, 1) = SubSeq(w, 1, 1)
      BY <1>1, <3>1
    <3>4. QED
      BY <3>2, <3>3 DEF IsPrefix
  <2>3. QED
    BY <2>1, <2>2
<1>9. QED
  BY <1>6, <1>7, <1>8

\* The invariant implies the second property.
LEMMA OutputFollows ==
  ASSUME IInv
  PROVE  OutputIntact
<1>1. SUFFICES ASSUME Constructed, NEW p \in Workers, NEW c \in Cores
               PROVE  /\ IsPrefix(Shown(link.boardOf[p], c), Letters(p, c))
                      /\ Len(text[<<link.boardOf[p], c>>].line) < MaxLineLen
  BY DEF OutputIntact
<1>2. ChainOK /\ TablesOK /\ TurnOK /\ p \in Ports /\ IdOf(p) # Bridge /\ p[1] \in Boxes
  BY WorkerRegisters DEF IInv, TypeOK, Ports
<1>3. link.boardOf[p] = Home(p) /\ Home(p) \in Mesh
  <2>1. link.st \in Asking \ {"query", "response"}
    BY <1>1 DEF Constructed, Asking
  <2>2. Known(p)
    BY <1>2, <2>1 DEF TablesOK
  <2>3. QED
    BY <1>2, <2>2, HomeShape DEF Known
<1>4. PICK xy : xy = link.boardOf[p] /\ xy = Home(p) /\ xy \in Mesh
  BY <1>3
<1>5. PICK t : t = text[<<xy, c>>]
  OBVIOUS
<1>6. \E n \in {0, 1, 2} : t = TextAfter(p[1], p[2], c, n)
  <2>1. CASE link.st = "poll"
    <3>1. Linked(p)
      BY <1>2, <2>1, AllServe DEF Asking
    <3>2. PICK n \in Nat, g \in [Channels -> Nat] :
            Printed(p, g) /\ Live(p[1], p[2], IdOf(p), View(p), n, g)
      BY <3>1 DEF Linked
    <3>3. c \in Channels /\ g[c] \in Nat
      BY DEF Channels
    <3>4. g[c] <= 2
      BY <1>2, <3>2, Bounds
    <3>5. text[<<Home(p), c>>] = TextAfter(p[1], p[2], c, g[c])
      BY <1>2, <2>1, <3>2 DEF Printed
    <3>6. g[c] \in {0, 1, 2}
      BY <3>3, <3>4
    <3>7. QED
      BY <1>4, <1>5, <3>5, <3>6
  <2>2. CASE link.st # "poll"
    <3>1. text = NoText
      BY <1>2, <2>2 DEF TurnOK
    <3>2. <<xy, c>> \in Mesh \X Cores
      BY <1>4
    <3>3. t = [lines |-> <<>>, line |-> <<>>]
      BY <1>5, <3>1, <3>2 DEF NoText
    <3>4. TextAfter(p[1], p[2], c, 0) = [lines |-> <<>>, line |-> <<>>]
      BY DEF TextAfter
    <3>5. QED
      BY <3>3, <3>4
  <2>3. QED
    BY <2>1, <2>2
<1>7. IsPrefix(FlattenSeq(t.lines) \o t.line, Letters(p, c)) /\ Len(t.line) < MaxLineLen
  BY <1>2, <1>6, TextShown
<1>8. Shown(xy, c) = FlattenSeq(t.lines) \o t.line
  BY <1>5 DEF Shown
<1>9. QED
  BY <1>4, <1>5, <1>7, <1>8

-----------------------------------------------------------------------------
(* The theorems.                                                           *)

\* No bridge ever has anything of an earlier program when a program is served: every
\* program ends where no reply of a bridge is on its way, or the only box is
\* the master's, whose bridge is reset.
Undisturbed == CalmEnds \/ Boxes = {Master}

\* The inductive invariant holds throughout every behaviour, wherever programs are
\* killed, in which no box whose bridge still has something of an earlier
\* program is connected to.
THEOREM Invariance == CleanSpec => []IInv
<1>1. Init => IInv
  BY InitInvariant
<1>2. IInv /\ [Next /\ CleanStart]_vars => IInv'
  BY NextKeeps
<1>3. QED
  BY <1>1, <1>2, PTL DEF CleanSpec

\* It holds throughout every behaviour at all if there is no such bridge.
THEOREM UndisturbedInvariance == Undisturbed => (Spec => []IInv)
<1>1. Undisturbed /\ Init => Undisturbed /\ IInv
  BY InitInvariant
<1>2. Undisturbed /\ IInv /\ [Next]_vars => (Undisturbed /\ IInv)'
  <2>1. SUFFICES ASSUME Undisturbed, IInv, [Next]_vars
                 PROVE  (Undisturbed /\ IInv)'
    OBVIOUS
  <2>2. CalmEnds \/ CleanStart
    BY <2>1 DEF Undisturbed, CleanStart
  <2>3. IInv'
    BY <2>1, <2>2, NextKeeps
  <2>4. Undisturbed'
    BY <2>1 DEF Undisturbed, CalmEnds
  <2>5. QED
    BY <2>3, <2>4
<1>3. QED
  BY <1>1, <1>2, PTL DEF Spec

\* For any number of boxes, boards and cores, whichever way the boards hang on
\* their boxes and in whatever order they answer, and wherever earlier programs were
\* killed, if a box is connected to only when its bridge is at rest: no assertion of
\* the constructor fails, its tables are right, no worker's link leads out of the
\* program's part of the cluster, and idle detection comes on last.
THEOREM TopologyIsSound == CleanSpec => []TopologySound
<1>1. IInv => TopologySound
  BY TopologyFollows
<1>2. QED
  BY <1>1, Invariance, PTL

\* The same of every behaviour, when programs are not killed in the constructor or
\* between a temperature asked for and its answer, or the machine is a single box.
THEOREM UndisturbedTopology == Undisturbed => (Spec => []TopologySound)
<1>1. IInv => TopologySound
  BY TopologyFollows
<1>2. QED
  BY <1>1, UndisturbedInvariance, PTL

\* For any number of boxes, boards and cores, and any sizes of the buffers on
\* the way, if a box is connected to only when its bridge is at rest: what pollStdOut
\* has of every thread is the beginning of what that thread printed, and no
\* line overflows its buffer.
THEOREM OutputIsIntact == CleanSpec => []OutputIntact
<1>1. IInv => OutputIntact
  BY OutputFollows
<1>2. QED
  BY <1>1, Invariance, PTL

\* The same of every behaviour, when programs are not killed in the constructor or
\* between a temperature asked for and its answer, or the machine is a single box.
THEOREM UndisturbedOutput == Undisturbed => (Spec => []OutputIntact)
<1>1. IInv => OutputIntact
  BY OutputFollows
<1>2. QED
  BY <1>1, UndisturbedInvariance, PTL

=============================================================================
