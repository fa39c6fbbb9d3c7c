----------------------------- MODULE JtagBoards -----------------------------
(* The boards of every box as seen over their JTAG UARTs: the command       *)
(* interpreter of a worker board (rtl/DebugLink.bsv) and of a bridge board  *)
(* (rtl/DE5BridgeTop.bsv), with the bytes in the UARTs' FIFOs.  A board is  *)
(* named by its box and its link, its place on the box's JTAG chain.        *)
EXTENDS Integers, Sequences

CONSTANTS
  BoxMeshXLen, BoxMeshYLen,    \* boxes, as the program asks for them
  MeshXBits,                   \* bits of an identity that give the column
  MeshXLenInBox, MeshYLenInBox, \* columns and rows of workers in a box
  NumCores,                    \* cores of a worker; thread 0 of each prints
  UartBytes                    \* bytes in a UART's FIFO, each way

ASSUME BoardsAssumption ==
  /\ {BoxMeshXLen, BoxMeshYLen, MeshXLenInBox, MeshYLenInBox, NumCores, UartBytes}
       \subseteq Nat \ {0}
  /\ MeshXBits \in Nat
  /\ MeshXLenInBox <= 2 ^ MeshXBits

VARIABLES
  chain,  \* chain[b]: what hangs on each link of box b; fixed
  board,  \* board[b][l]: the registers of the command interpreter
  uart,   \* uart[b][l]: bytes on their way to and from the board
  printed \* printed[b][l][c]: characters core c has had sent

boardVars == <<chain, board, uart, printed>>

Boxes == (0 .. BoxMeshXLen - 1) \X (0 .. BoxMeshYLen - 1)
WorkersPerBox == MeshXLenInBox * MeshYLenInBox
Links == 0 .. WorkersPerBox
Columns == 2 ^ MeshXBits
Identities == {Columns * y + x : x \in 0 .. MeshXLenInBox - 1, y \in 0 .. MeshYLenInBox - 1}
Cores == 0 .. NumCores - 1

\* DebugLink commands.
QUERY == 0
SET_DEST == 1
STD == 2
EN_IDLE == 3
TEMP == 4
OVERHEAT == 5
READY == 255

NEWLINE == 10
BROADCAST == 128

toDebugLinkSize(cmd) ==
  CASE cmd \in {QUERY, EN_IDLE, SET_DEST} -> 3
    [] cmd = STD -> 2
    [] cmd = TEMP -> 1

fromDebugLinkSize(cmd) ==
  CASE cmd \in {QUERY, TEMP} -> 2
    [] cmd = STD -> 4
    [] cmd \in {OVERHEAT, READY} -> 1

\* A bridge is told from a worker by its identity.
Bridge == -1
IsBridge(b, l) == chain[b][l] = Bridge

\* What the threads print once started: a letter of their own, then a newline
\* or, from the box at the origin, another letter.
Text(b, l, c) == <<97 + c + NumCores * (b[1] + BoxMeshXLen * b[2]),
                   IF b = <<0, 0>> THEN 33 ELSE NEWLINE>>

\* A board out of reset.
NewBoard == [recv |-> <<>>, offset |-> <<>>, linkEn |-> {}, destCore |-> 0,
             respond |-> <<>>, send |-> <<>>, idle |-> FALSE, started |-> {}, hot |-> FALSE]
NewUart == [to |-> <<>>, from |-> <<>>]
NothingPrinted == [c \in Cores |-> 0]

BoardsInit ==
  /\ chain \in [Boxes -> {f \in [Links -> {Bridge} \cup Identities] :
                            \A l, m \in Links : f[l] = f[m] => l = m}]
  /\ board = [b \in Boxes |-> [l \in Links |-> NewBoard]]
  /\ uart = [b \in Boxes |-> [l \in Links |-> NewUart]]
  /\ printed = [b \in Boxes |-> [l \in Links |-> NothingPrinted]]

-----------------------------------------------------------------------------
\* The reply to a query carries the identity plus one, so a bridge's is 0.
QueryOut(b, l) == <<QUERY, 1 + chain[b][l]>>
Temperature == 160
TempOut == <<TEMP, Temperature>>

\* The links to neighbouring boards that stay enabled: bit i of edgeEn turns
\* off the i-th of north, south, east and west at that edge of the box.
Bit(n, i) == (n \div 2 ^ i) % 2
LinkEn(id, edgeEn) ==
  {"N", "S", "E", "W"}
    \ ((IF id \div Columns = MeshYLenInBox - 1 /\ Bit(edgeEn, 0) = 1 THEN {"N"} ELSE {})
       \cup (IF id \div Columns = 0 /\ Bit(edgeEn, 1) = 1 THEN {"S"} ELSE {})
       \cup (IF id % Columns = MeshXLenInBox - 1 /\ Bit(edgeEn, 2) = 1 THEN {"E"} ELSE {})
       \cup (IF id % Columns = 0 /\ Bit(edgeEn, 3) = 1 THEN {"W"} ELSE {}))

\* uartRecv on a worker, when the last byte of a command has come.
WorkerExec(b, l, bd, pkt) ==
  CASE pkt[1] = QUERY    -> [bd EXCEPT !.offset = <<pkt[2]>>, !.respond = QueryOut(b, l),
                                        !.linkEn = LinkEn(chain[b][l], pkt[3])]
    [] pkt[1] = SET_DEST -> [bd EXCEPT !.destCore = pkt[3]]
    [] pkt[1] = STD      -> [bd EXCEPT !.started =
                              @ \cup (IF bd.destCore >= BROADCAST THEN Cores
                                      ELSE {bd.destCore})]
    [] pkt[1] = TEMP     -> [bd EXCEPT !.respond = TempOut]

\* The same on a bridge: any command but a query enables idle detection.
BridgeExec(b, l, bd, pkt) ==
  IF pkt[1] = TEMP THEN [bd EXCEPT !.respond = TempOut]
  ELSE [bd EXCEPT !.respond = QueryOut(b, l), !.idle = @ \/ pkt[1] /= QUERY]

\* The bytes of a command, told from the first: a bridge takes three unless
\* it is asked for its temperature.
CommandSize(b, l, cmd) ==
  IF ~IsBridge(b, l) THEN toDebugLinkSize(cmd) ELSE IF cmd = TEMP THEN 1 ELSE 3

\* One byte of a command; none is taken while a reply is being sent.
UartRecv(b, l) ==
  LET bd == board[b][l]
      pkt == Append(bd.recv, Head(uart[b][l].to))
      done == [bd EXCEPT !.recv = <<>>] IN
  /\ uart[b][l].to /= <<>>
  /\ bd.respond = <<>>
  /\ board' = [board EXCEPT ![b][l] =
       IF Len(pkt) < CommandSize(b, l, pkt[1]) THEN [bd EXCEPT !.recv = pkt]
       ELSE IF IsBridge(b, l) THEN BridgeExec(b, l, done, pkt)
       ELSE WorkerExec(b, l, done, pkt)]
  /\ uart' = [uart EXCEPT ![b][l].to = Tail(@)]
  /\ UNCHANGED <<chain, printed>>

CanPut(b, l) == Len(uart[b][l].from) < UartBytes

\* A byte of a reply.  The interpreter shares its state with the sender of
\* standard output: a reply that finds a packet half sent is cut to its last
\* byte, and ends the packet.
SendReply(b, l) ==
  LET bd == board[b][l]
      whole == Len(bd.respond) = 2 /\ bd.send = <<>> IN
  /\ bd.respond /= <<>>
  /\ CanPut(b, l)
  /\ uart' = [uart EXCEPT ![b][l].from =
       Append(@, IF whole THEN bd.respond[1] ELSE bd.respond[Len(bd.respond)])]
  /\ board' = [board EXCEPT ![b][l] =
       IF whole THEN [bd EXCEPT !.respond = Tail(@)]
       ELSE [bd EXCEPT !.respond = <<>>, !.send = <<>>]]
  /\ UNCHANGED <<chain, printed>>

\* uartSendStdOut: begin the packet of the next character of some core.
BeginStdOut(b, l, c) ==
  LET bd == board[b][l]
      n == printed[b][l][c] IN
  /\ bd.respond = <<>>
  /\ bd.send = <<>>
  /\ CanPut(b, l)
  /\ c \in bd.started
  /\ n < Len(Text(b, l, c))
  /\ uart' = [uart EXCEPT ![b][l].from = Append(@, STD)]
  /\ board' = [board EXCEPT ![b][l].send = <<0, c, Text(b, l, c)[n + 1]>>]
  /\ printed' = [printed EXCEPT ![b][l][c] = @ + 1]
  /\ UNCHANGED chain

ContinueStdOut(b, l) ==
  LET bd == board[b][l] IN
  /\ bd.respond = <<>>
  /\ bd.send /= <<>>
  /\ CanPut(b, l)
  /\ uart' = [uart EXCEPT ![b][l].from = Append(@, Head(bd.send))]
  /\ board' = [board EXCEPT ![b][l].send = Tail(@)]
  /\ UNCHANGED <<chain, printed>>

\* The temperature of a worker passes the threshold: one message, ever.
Overheat(b, l) ==
  LET bd == board[b][l] IN
  /\ ~IsBridge(b, l)
  /\ bd.offset /= <<>>
  /\ ~bd.hot
  /\ bd.respond = <<>>
  /\ bd.send = <<>>
  /\ CanPut(b, l)
  /\ uart' = [uart EXCEPT ![b][l].from = Append(@, OVERHEAT)]
  /\ board' = [board EXCEPT ![b][l].hot = TRUE]
  /\ UNCHANGED <<chain, printed>>

BoardStep(b, l) ==
  \/ UartRecv(b, l) \/ SendReply(b, l) \/ ContinueStdOut(b, l)
  \/ \E c \in Cores : BeginStdOut(b, l, c)
=============================================================================
