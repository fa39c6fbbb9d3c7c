----------------------------- MODULE BoardCtrl ------------------------------
(* boardctrld, one per box: it accepts one client at a time, powers the     *)
(* box's worker boards up for it, and carries DebugLink packets between the *)
(* client's TCP connection and the UARTs of the boards.  Connections carry  *)
(* whole packets (both ends read and write exactly a packet); UARTs carry   *)
(* bytes, through a queue for each direction and link.                      *)
EXTENDS JtagBoards

CONSTANTS
  TcpPackets,      \* packets a connection holds, each way
  UartBufferBytes, \* UART_BUFFER_SIZE
  ServeBytes       \* the largest single read from a UART (128)

MaxPktBytes == 4   \* DEBUGLINK_MAX_PKT_BYTES

\* A packet can complete in a queue that takes ServeBytes more only while it
\* has room for them.
ASSUME BufferAssumption ==
  /\ TcpPackets \in Nat \ {0}
  /\ ServeBytes \in Nat \ {0}
  /\ UartBufferBytes >= ServeBytes + MaxPktBytes

VARIABLES
  tcp,     \* tcp[b]: the connection to box b and the packets in it
  server,  \* server[b]: boardctrld's place in main
  buffer   \* buffer[b][l]: the queues of a UARTBuffer

ctrlVars == <<tcp, server, buffer>>

Packet(l, bytes) == [link |-> l, bytes |-> bytes]
Closed == [client |-> FALSE, up |-> <<>>, down |-> <<>>]
NewBuffer == [in |-> <<>>, out |-> <<>>]

CtrlInit ==
  /\ tcp = [b \in Boxes |-> Closed]
  /\ server = [b \in Boxes |-> "listen"]
  /\ buffer = [b \in Boxes |-> [l \in Links |-> NewBuffer]]

Master == <<0, 0>>

Dropped(s, n) == SubSeq(s, n + 1, Len(s))

\* accept, and the listener is closed: no second client gets in.
Accept(b) ==
  /\ server[b] = "listen"
  /\ server' = [server EXCEPT ![b] = "power"]
  /\ tcp' = [tcp EXCEPT ![b] = [Closed EXCEPT !.client = TRUE]]
  /\ UNCHANGED <<buffer, boardVars>>

\* The boards come up and the client is told.  The bridge is not powered by
\* boardctrld; the master box's has been reset for the new client by then
\* (pciestreamd), the others keep their state.
Reset(b, l) == ~IsBridge(b, l) \/ b = Master

PowerUp(b) ==
  /\ server[b] = "power"
  /\ server' = [server EXCEPT ![b] = "serve"]
  /\ board' = [board EXCEPT ![b] =
       [l \in Links |-> IF Reset(b, l) THEN NewBoard ELSE board[b][l]]]
  /\ uart' = [uart EXCEPT ![b] =
       [l \in Links |-> IF Reset(b, l) THEN NewUart ELSE uart[b][l]]]
  /\ printed' = [printed EXCEPT ![b] = [l \in Links |-> NothingPrinted]]
  /\ buffer' = [buffer EXCEPT ![b] = [l \in Links |-> NewBuffer]]
  /\ tcp' = [tcp EXCEPT ![b].down = Append(@, Packet(0, <<READY>>))]
  /\ UNCHANGED chain

-----------------------------------------------------------------------------
(* The event loop *)

AllCanPut(b) ==
  \A l \in Links : Len(buffer[b][l].out) + MaxPktBytes <= UartBufferBytes

\* A packet from the client, cut to its command's size, to its UART's queue.
FromClient(b) ==
  /\ server[b] = "serve"
  /\ AllCanPut(b)
  /\ tcp[b].up /= <<>>
  /\ LET pkt == Head(tcp[b].up) IN
     buffer' = [buffer EXCEPT ![b][pkt.link].out =
                 @ \o SubSeq(pkt.bytes, 1, toDebugLinkSize(pkt.bytes[1]))]
  /\ tcp' = [tcp EXCEPT ![b].up = Tail(@)]
  /\ UNCHANGED <<server, boardVars>>

\* The first bytes a packet from a board can have.
FromBoard == {QUERY, STD, TEMP, OVERHEAT, READY}

\* The bytes at the head of a queue make up a packet.
WholePacket(bytes) ==
  /\ bytes /= <<>>
  /\ bytes[1] \in FromBoard
  /\ Len(bytes) >= fromDebugLinkSize(bytes[1])

\* The packet at the head of a UART's queue to the client, if it fits.
ToClient(b, l) ==
  LET in == buffer[b][l].in
      n == fromDebugLinkSize(in[1]) IN
  /\ server[b] = "serve"
  /\ WholePacket(in)
  /\ in[1] /= OVERHEAT
  /\ tcp[b].client
  /\ Len(tcp[b].down) < TcpPackets
  /\ tcp' = [tcp EXCEPT ![b].down = Append(@, Packet(l, [j \in 1 .. n |-> in[j]]))]
  /\ buffer' = [buffer EXCEPT ![b][l].in = Dropped(@, n)]
  /\ UNCHANGED <<server, boardVars>>

\* An overheat report is not forwarded: an email is sent.
ReportOverheat(b, l) ==
  /\ server[b] = "serve"
  /\ buffer[b][l].in /= <<>>
  /\ Head(buffer[b][l].in) = OVERHEAT
  /\ buffer' = [buffer EXCEPT ![b][l].in = Tail(@)]
  /\ UNCHANGED <<tcp, server, boardVars>>

\* A read is made only when the largest would fit.
ReadFits(b, l) == UartBufferBytes - Len(buffer[b][l].in) > ServeBytes

\* serve, of every link: the UART takes what it has room for, and what it has
\* is read if that fits.
Taken(b, l) ==
  LET room == UartBytes - Len(uart[b][l].to)
      out == buffer[b][l].out IN
  SubSeq(out, 1, IF room < Len(out) THEN room ELSE Len(out))

Read(b, l) ==
  LET from == uart[b][l].from IN
  IF ~ReadFits(b, l) THEN <<>>
  ELSE SubSeq(from, 1, IF ServeBytes < Len(from) THEN ServeBytes ELSE Len(from))

Serve(b) ==
  /\ server[b] = "serve"
  /\ \E l \in Links : Taken(b, l) /= <<>> \/ Read(b, l) /= <<>>
  /\ buffer' = [buffer EXCEPT ![b] = [l \in Links |->
       [in  |-> buffer[b][l].in \o Read(b, l),
        out |-> Dropped(buffer[b][l].out, Len(Taken(b, l)))]]]
  /\ uart' = [uart EXCEPT ![b] = [l \in Links |->
       [to   |-> uart[b][l].to \o Taken(b, l),
        from |-> Dropped(uart[b][l].from, Len(Read(b, l)))]]]
  /\ UNCHANGED <<tcp, server, chain, board, printed>>

\* The end of the client's stream is not looked at.
ClientGoneOnPut(b) ==
  /\ server[b] = "serve"
  /\ ~tcp[b].client
  /\ \E l \in Links : /\ WholePacket(buffer[b][l].in)
                       /\ buffer[b][l].in[1] /= OVERHEAT
  /\ server' = [server EXCEPT ![b] = "down"]
  /\ UNCHANGED <<tcp, buffer, boardVars>>

\* The client has gone: socketGet, once its packets are read, or socketPut
\* fails, and the server process ends.
ClientGone(b) ==
  /\ server[b] = "serve"
  /\ ~tcp[b].client
  /\ \/ AllCanPut(b) /\ tcp[b].up = <<>>
     \/ \E l \in Links : /\ WholePacket(buffer[b][l].in)
                         /\ buffer[b][l].in[1] /= OVERHEAT
  /\ server' = [server EXCEPT ![b] = "down"]
  /\ UNCHANGED <<tcp, buffer, boardVars>>

\* A byte no packet begins with: fromDebugLinkSize ends the server process.
ServerExits(b, l) ==
  /\ server[b] = "serve"
  /\ buffer[b][l].in /= <<>>
  /\ buffer[b][l].in[1] \notin FromBoard
  /\ server' = [server EXCEPT ![b] = "down"]
  /\ UNCHANGED <<tcp, buffer, boardVars>>

\* Close the connection, power the boards down, listen again.  A client that
\* has not gone still gets what was sent to it.
PowerDown(b) ==
  /\ server[b] = "down"
  /\ server' = [server EXCEPT ![b] = "listen"]
  /\ tcp' = [tcp EXCEPT ![b] = [Closed EXCEPT !.down = tcp[b].down]]
  /\ board' = [board EXCEPT ![b] =
       [l \in Links |-> IF IsBridge(b, l) THEN board[b][l] ELSE NewBoard]]
  /\ uart' = [uart EXCEPT ![b] =
       [l \in Links |-> IF IsBridge(b, l) THEN uart[b][l] ELSE NewUart]]
  /\ buffer' = [buffer EXCEPT ![b] = [l \in Links |-> NewBuffer]]
  /\ printed' = [printed EXCEPT ![b] = [l \in Links |-> NothingPrinted]]
  /\ UNCHANGED chain

\* What goes on in box b by itself.
BoxStep(b) ==
  \/ PowerUp(b) \/ FromClient(b) \/ Serve(b) \/ ClientGone(b) \/ PowerDown(b)
  \/ \E l \in Links :
       \/ ToClient(b, l) \/ ReportOverheat(b, l) \/ ServerExits(b, l)
       \/ BoardStep(b, l) /\ UNCHANGED ctrlVars
=============================================================================
