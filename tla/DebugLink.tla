----------------------------- MODULE DebugLink ------------------------------
(* A client of the boxes (hostlink/DebugLink.cpp): the constructor, which   *)
(* finds out which board is on which link of which box, then the calls of a *)
(* host program: a temperature, the trigger of HostLink::go, and            *)
(* HostLink::pollStdOut, which sorts the characters of all threads into     *)
(* lines.  A program may be killed; another may follow.                     *)
EXTENDS BoardCtrl, SequencesExt

CONSTANTS
  MaxSessions,            \* bound on the programs run
  MaxConnectionAttempts,  \* max_connection_attempts
  MaxLineLen,             \* MaxLineLen of HostLink
  HotBoards,              \* the boards that may overheat: boxes and links
  KillAt                  \* bound on where a program is killed: stages

\* Boxes in a row of the cluster, TinselBoxMeshXLen.
ClusterXLen == 2

\* The program asks for no more boxes than a row has, the offsets of the boxes
\* fit their nibble (assertions of the constructor), and a line buffer takes
\* a character and the end of the line.
ASSUME LinkAssumption ==
  /\ BoxMeshXLen <= ClusterXLen
  /\ (BoxMeshXLen - 1) * MeshXLenInBox < 16
  /\ MaxLineLen \in Nat /\ MaxLineLen > 1
  /\ HotBoards \subseteq Boxes \X Links

VARIABLES
  link,  \* the DebugLink object: place in the constructor and its tables
  text   \* text[x, y, c]: the lines printed for a thread, and its line buffer

vars == <<boardVars, ctrlVars, link, text>>

MeshXLen == MeshXLenInBox * BoxMeshXLen
MeshYLen == MeshYLenInBox * BoxMeshYLen
Mesh == (0 .. MeshXLen - 1) \X (0 .. MeshYLen - 1)
Ports == Boxes \X Links
None == <<>>

\* The loops over the boxes go through the columns of a row.
BoxAt(k) == <<k % BoxMeshXLen, k \div BoxMeshXLen>>
NumBoxes == BoxMeshXLen * BoxMeshYLen
NumLinks == WorkersPerBox + 1

\* The loops over the boards in go.
BoardAt(k) == <<k \div MeshYLen, k % MeshYLen>>

NewLink == [st |-> "off", session |-> 0, k |-> 0, tries |-> 0,
            conn |-> {}, bridge |-> [b \in Boxes |-> None],
            portOf |-> [xy \in Mesh |-> None],
            boardOf |-> [p \in Ports |-> None], tryNext |-> 0]
NoText == [t \in Mesh \X Cores |-> [lines |-> <<>>, line |-> <<>>]]

Init ==
  /\ BoardsInit
  /\ CtrlInit
  /\ link = NewLink
  /\ text = NoText

\* After the k-th turn of a loop of n turns: the next turn, or the next stage.
Turn(lk, n, next) ==
  IF lk.k + 1 < n THEN [lk EXCEPT !.k = @ + 1]
  ELSE [lk EXCEPT !.k = 0, !.st = next]

-----------------------------------------------------------------------------
(* putPacket and getPacket *)

PutPacket(b, pkt) ==
  /\ Len(tcp[b].up) < TcpPackets
  /\ tcp' = [tcp EXCEPT ![b].up = Append(@, pkt)]
  /\ UNCHANGED <<server, buffer, boardVars>>

Arrived(b) == tcp[b].down /= <<>>
GetPacket(b) ==
  /\ Arrived(b)
  /\ tcp' = [tcp EXCEPT ![b].down = Tail(@)]
  /\ UNCHANGED <<server, buffer, boardVars>>

Received(b) == Head(tcp[b].down)

\* An assertion on the packet received: the program aborts if it is false.
Checked(b, cmd, lk) ==
  IF Received(b).bytes[1] = cmd THEN lk ELSE [lk EXCEPT !.st = "abort"]

-----------------------------------------------------------------------------
(* The constructor *)

Construct ==
  /\ link.st \in {"off", "exit"}
  /\ link.session < MaxSessions
  /\ link' = [NewLink EXCEPT !.st = "connect", !.session = link.session + 1]
  /\ UNCHANGED <<ctrlVars, boardVars, text>>

\* One turn of the connection loop: a box that is in use refuses.
AfterTurn(lk) ==
  IF lk.k + 1 < NumBoxes THEN [lk EXCEPT !.k = @ + 1]
  ELSE IF Cardinality(lk.conn) = NumBoxes THEN [lk EXCEPT !.st = "ready", !.k = 0, !.tries = 0]
  ELSE IF lk.tries < MaxConnectionAttempts THEN [lk EXCEPT !.tries = @ + 1, !.k = 0]
  ELSE [lk EXCEPT !.st = "fail"]

Connect ==
  LET b == BoxAt(link.k) IN
  /\ link.st = "connect"
  /\ IF b \notin link.conn /\ server[b] = "listen"
     THEN /\ Accept(b)
          /\ link' = AfterTurn([link EXCEPT !.conn = @ \cup {b}])
     ELSE /\ link' = AfterTurn(link)
          /\ UNCHANGED <<ctrlVars, boardVars>>
  /\ UNCHANGED text

GetReady ==
  LET b == BoxAt(link.k) IN
  /\ link.st = "ready"
  /\ GetPacket(b)
  /\ link' = Checked(b, READY, Turn(link, NumBoxes, "query"))
  /\ UNCHANGED text

\* The nibbles swapped.
OffsetSwapped(b) == 16 * (b[1] * MeshXLenInBox) + b[2] * MeshYLenInBox

\* The offset of a box's boards in the mesh, a nibble for each coordinate.
OffsetOf(b) == 16 * (b[2] * MeshYLenInBox) + b[1] * MeshXLenInBox

\* Which of the links around the sub-mesh are to be disabled.
EdgesOf(b) ==
  (IF b[2] = BoxMeshYLen - 1 THEN 1 ELSE 0) + (IF b[2] = 0 THEN 2 ELSE 0)
  + (IF BoxMeshXLen = 1 THEN 4 ELSE 0)

SendQuery ==
  LET b == BoxAt(link.k \div NumLinks)
      l == link.k % NumLinks IN
  /\ link.st = "query"
  /\ PutPacket(b, Packet(l, <<QUERY, OffsetOf(b), EdgesOf(b)>>))
  /\ link' = Turn(link, NumBoxes * NumLinks, "response")
  /\ UNCHANGED text

\* Coordinates in the whole mesh of the worker with the given identity in box b.
Coords(b, id) ==
  <<b[1] * MeshXLenInBox + (id % Columns),
    b[2] * MeshYLenInBox + (id \div Columns)>>

\* The tables with the reply of one board; its coordinates are asserted to be
\* in the box, and no other board's.
Recorded(lk, b, pkt) ==
  IF pkt.bytes[2] = 0 THEN [lk EXCEPT !.bridge[b] = <<pkt.link>>]
  ELSE IF pkt.bytes[2] - 1 \notin Identities THEN [lk EXCEPT !.st = "abort"]
  ELSE LET xy == Coords(b, pkt.bytes[2] - 1) IN
       [lk EXCEPT !.portOf[xy] = <<b, pkt.link>>, !.boardOf[<<b, pkt.link>>] = xy,
                  !.st = IF lk.portOf[xy] = None THEN @ ELSE "abort"]

\* Replies are awaited from one box only.
GetResponseOfOne ==
  LET b == BoxAt(link.k \div NumLinks) IN
  /\ link.st = "response"
  /\ GetPacket(b)
  /\ link' = Checked(b, QUERY, Recorded(Turn(link, NumLinks, "enable"), b, Received(b)))
  /\ UNCHANGED text

GetResponse ==
  LET b == BoxAt(link.k \div NumLinks) IN
  /\ link.st = "response"
  /\ GetPacket(b)
  /\ link' = Checked(b, QUERY,
       Recorded(Turn(link, NumBoxes * NumLinks, "enable"), b, Received(b)))
  /\ UNCHANGED text

\* Only now do all boards know their coordinates.
EnableIdle ==
  /\ link.st = "enable"
  /\ PutPacket(Master, Packet(link.bridge[Master][1],
                              <<EN_IDLE, 16 * MeshYLen + MeshXLen, 0>>))
  /\ link' = [link EXCEPT !.st = "enabled"]
  /\ UNCHANGED text

IdleEnabled ==
  /\ link.st = "enabled"
  /\ GetPacket(Master)
  /\ link' = Checked(Master, QUERY, [link EXCEPT !.st = "askTemp"])
  /\ UNCHANGED text

-----------------------------------------------------------------------------
(* The calls of the program *)

\* getBoardTemp of each board, then getBridgeTemp of each box, all before any
\* thread prints.
TempPort(k) ==
  IF k < Cardinality(Mesh) THEN link.portOf[BoardAt(k)]
  ELSE LET b == BoxAt(k - Cardinality(Mesh)) IN <<b, link.bridge[b][1]>>

\* The tables have the board of the k-th turn.
Found(k) ==
  IF k < Cardinality(Mesh) THEN link.portOf[BoardAt(k)] /= None
  ELSE link.bridge[BoxAt(k - Cardinality(Mesh))] /= None

\* The -1 of a table that was not filled is used as the coordinate of a box or
\* as a link: undefined, taken to be the end of the program.
NotFound ==
  /\ link.st = "askTemp"
  /\ ~Found(link.k)
  /\ link' = [link EXCEPT !.st = "abort"]
  /\ UNCHANGED <<ctrlVars, boardVars, text>>

AskTemp ==
  LET port == TempPort(link.k) IN
  /\ link.st = "askTemp"
  /\ Found(link.k)
  /\ PutPacket(port[1], Packet(port[2], <<TEMP>>))
  /\ link' = [link EXCEPT !.st = "getTemp"]
  /\ UNCHANGED text

GetTemp ==
  LET b == TempPort(link.k)[1] IN
  /\ link.st = "getTemp"
  /\ GetPacket(b)
  /\ link' = Checked(b, TEMP,
       Turn([link EXCEPT !.st = "askTemp"], Cardinality(Mesh) + NumBoxes, "setDest"))
  /\ UNCHANGED text

\* go, for each board: setBroadcastDest, then put.
SetBroadcastDest ==
  LET port == link.portOf[BoardAt(link.k)] IN
  /\ link.st = "setDest"
  /\ PutPacket(port[1], Packet(port[2], <<SET_DEST, 0, BROADCAST>>))
  /\ link' = [link EXCEPT !.st = "put"]
  /\ UNCHANGED text

Put ==
  LET port == link.portOf[BoardAt(link.k)] IN
  /\ link.st = "put"
  /\ PutPacket(port[1], Packet(port[2], <<STD, 0>>))
  /\ link' = Turn([link EXCEPT !.st = "setDest"], Cardinality(Mesh), "poll")
  /\ UNCHANGED text

\* A character of a thread: a newline ends the line, and so does a full
\* line buffer.
Added(t, ch) ==
  LET full == ch = NEWLINE \/ Len(t.line) = MaxLineLen - 1
      u == IF full THEN [lines |-> Append(t.lines, t.line), line |-> <<>>] ELSE t IN
  IF ch = NEWLINE THEN u ELSE [u EXCEPT !.line = Append(@, ch)]

\* get: the first box from tryNext on that has a packet.
NextBox ==
  CHOOSE k \in 0 .. NumBoxes - 1 :
    LET box(i) == BoxAt((link.tryNext + i) % NumBoxes) IN
    Arrived(box(k)) /\ \A i \in 0 .. k - 1 : ~Arrived(box(i))

\* The thread is looked up in the box where the search began.
ThreadOfFirst(at, pkt) == <<link.boardOf[<<BoxAt(link.tryNext), pkt.link>>], pkt.bytes[3]>>

\* The thread of a packet from the at-th box.
ThreadOf(at, pkt) == <<link.boardOf[<<BoxAt(at), pkt.link>>], pkt.bytes[3]>>

\* One turn of pollStdOut: canGet, get, and the line buffer.  The coordinates
\* of a link that is not in the tables are undefined.
PollStdOut ==
  /\ link.st = "poll"
  /\ \E b \in Boxes : Arrived(b)
  /\ LET at == (link.tryNext + NextBox) % NumBoxes
         pkt == Received(BoxAt(at)) IN
     /\ GetPacket(BoxAt(at))
     /\ IF pkt.bytes[1] /= STD \/ link.boardOf[<<BoxAt(at), pkt.link>>] = None
        THEN link' = [link EXCEPT !.st = "abort"] /\ UNCHANGED text
        ELSE /\ link' = [link EXCEPT !.tryNext = (at + 1) % NumBoxes]
             /\ text' = [text EXCEPT ![ThreadOf(at, pkt)] = Added(@, pkt.bytes[4])]

-----------------------------------------------------------------------------
\* The process ends: its connections are closed.
Gone ==
  /\ link' = [NewLink EXCEPT !.st = "exit", !.session = link.session]
  /\ text' = NoText
  /\ tcp' = [b \in Boxes |-> IF b \in link.conn
                             THEN [tcp[b] EXCEPT !.client = FALSE, !.down = <<>>]
                             ELSE tcp[b]]
  /\ UNCHANGED <<server, buffer, boardVars>>

Fail == link.st \in {"fail", "abort"} /\ Gone
Kill ==
  /\ link.st \in KillAt
  /\ link.session < MaxSessions
  /\ Gone

\* A box has closed the connection: a signal or an error of send or recv ends
\* the program, if recv does not return nothing for ever.
Disconnected ==
  /\ link.st \notin {"fail", "abort"}
  /\ \E b \in link.conn : ~tcp[b].client
  /\ Gone

LinkStep ==
  \/ Connect \/ GetReady \/ SendQuery \/ GetResponse \/ EnableIdle \/ IdleEnabled
  \/ AskTemp \/ NotFound \/ GetTemp \/ SetBroadcastDest \/ Put \/ PollStdOut \/ Fail

\* A worker gets too hot (bound: under the last program only).
Environment ==
  /\ link.session = MaxSessions
  /\ \E p \in HotBoards : Overheat(p[1], p[2])
  /\ UNCHANGED <<ctrlVars, link, text>>

Box(b) == BoxStep(b) /\ UNCHANGED <<link, text>>

Boards == \E b \in Boxes : Box(b)

Next == Construct \/ LinkStep \/ Kill \/ Disconnected \/ Environment \/ Boards

Fairness == WF_vars(LinkStep \/ Boards)

Spec == Init /\ [][Next]_vars /\ Fairness

\* Nothing that came before is left in a bridge or its UART.
AtRest(b, l) ==
  /\ board[b][l].recv = <<>> /\ board[b][l].respond = <<>> /\ board[b][l].send = <<>>
  /\ uart[b][l] = NewUart

\* Where no program is served by a box whose bridge still has something of an
\* earlier program: the bridges of all boxes but the master's are never reset.
CleanStart ==
  \A b \in Boxes \ {Master}, l \in Links :
    Accept(b) /\ IsBridge(b, l) => AtRest(b, l)

CleanSpec == Init /\ [][Next /\ CleanStart]_vars /\ Fairness

-----------------------------------------------------------------------------
(* Properties *)

Workers == {p \in Ports : ~IsBridge(p[1], p[2])}

\* Where a worker takes itself to be (setBoardId): the offset it was given
\* plus the coordinates in its identity.
BoardId(p) ==
  LET offset == board[p[1]][p[2]].offset[1]
      id == chain[p[1]][p[2]] IN
  <<(offset % 16) + (id % Columns), (offset \div 16) + (id \div Columns)>>

Neighbour(xy, d) ==
  CASE d = "N" -> <<xy[1], xy[2] + 1>> [] d = "S" -> <<xy[1], xy[2] - 1>>
    [] d = "E" -> <<xy[1] + 1, xy[2]>> [] d = "W" -> <<xy[1] - 1, xy[2]>>

\* A place of the program's part of the cluster, or where the cluster ends.
Inside(xy) == xy \in Mesh \/ xy[1] = -1 \/ xy[1] = ClusterXLen * MeshXLenInBox

Constructed == link.st \in {"askTemp", "getTemp", "setDest", "put", "poll"}

\* The assertions on the replies of the boxes (a READY, then one reply to each
\* query, then a temperature for each question) hold.
AssertionsHold == link.st /= "abort"

\* Neither an assertion of the constructor nor the check in get fails,
\* whatever the order in which the boards answer.  Once constructed, the
\* tables name the bridge of every box and, both ways, the worker at every
\* place of the mesh, where that worker takes itself to be.  A worker's link
\* leads out of the program's part of the cluster only where the cluster
\* ends.  Idle detection is never on before every worker knows its place.
TopologySound ==
  /\ AssertionsHold
  /\ Constructed =>
       /\ \A b \in Boxes : chain[b][link.bridge[b][1]] = Bridge
       /\ \A p \in Workers : /\ link.boardOf[p] = BoardId(p)
                              /\ link.portOf[BoardId(p)] = p
  /\ \A p \in Workers : \A d \in board[p[1]][p[2]].linkEn :
       Inside(Neighbour(BoardId(p), d))
  /\ tcp[Master].client /\ server[Master] = "serve" /\ (\E l \in Links : board[Master][l].idle)
       => \A p \in Workers : board[p[1]][p[2]].offset /= <<>>

\* Whatever an earlier program has left in the bridges, and wherever it was
\* killed: a worker in the tables of a program that still has the worker's box
\* is there with its own place, and its links lead nowhere else than in TopologySound.
WorkersInPlace ==
  \A p \in Workers :
    /\ link.boardOf[p] /= None /\ tcp[p[1]].client => link.boardOf[p] = BoardId(p)
    /\ \A d \in board[p[1]][p[2]].linkEn : Inside(Neighbour(BoardId(p), d))

\* What is on paper and in the line buffer of a thread.
Shown(xy, c) ==
  LET t == text[<<xy, c>>] IN FlattenSeq(t.lines) \o t.line
\* What a thread printed, without the newline at its end.
Letters(p, c) ==
  LET t == Text(p[1], p[2], c) IN IF Last(t) = NEWLINE THEN Front(t) ELSE t

\* The lines of every thread of a board in the tables, put together again, are
\* the beginning of what that thread printed: no character is lost, doubled, reordered or given to
\* another thread between the cores and pollStdOut, and no line overflows
\* its buffer.
OutputIntact ==
  Constructed =>
    \A p \in {q \in Workers : link.boardOf[q] /= None}, c \in Cores :
      /\ IsPrefix(Shown(link.boardOf[p], c), Letters(p, c))
      /\ Len(text[<<link.boardOf[p], c>>].line) < MaxLineLen

AllShown ==
  /\ link.st = "poll"
  /\ \A p \in Workers, c \in Cores : Shown(link.boardOf[p], c) = Letters(p, c)

\* Whatever is going on comes to its end: the last program connected prints
\* all the output of all threads and keeps its boxes, or has ended (killed, or
\* a box stayed in use) and then every box has been powered down and listens
\* for the next.
ClientsServed ==
  <>[](\/ AllShown
       \/ link.st \in {"off", "exit"} /\ \A b \in Boxes : server[b] = "listen")
=============================================================================
