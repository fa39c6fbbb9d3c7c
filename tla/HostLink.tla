------------------------------ MODULE HostLink ------------------------------
(* A host program that boots the machine (hostlink/HostLink.cpp), composed  *)
(* with the PCIe stream and the cores: the constructor and its self test,   *)
(* buffered writes to memory, loadAll, startAll and go.  The program may be *)
(* killed at any point, and another one started after it.                   *)
EXTENDS PCIeStream, BootCores, SequencesExt

CONSTANTS
  NumSRAMs,         \* SRAMs of a slice, each tested at power-on (2)
  SendBufferFlits,  \* SEND_BUFFER_SIZE
  MaxFlitsPerMsg,   \* TinselMaxFlitsPerMsg: the flits of a padded reply
  Code, Data,       \* the two images: sequences of segments
  Heap              \* words stored through the send buffer before loadAll

ASSUME HostAssumption ==
  {NumSRAMs, SendBufferFlits, MaxFlitsPerMsg} \subseteq Nat \ {0}

VARIABLES
  host,     \* the program: session, place in the script, socket progress
  emitted   \* bytes of the replies the mesh has sent since it was powered up

vars == <<streamVars, coreVars, host, emitted>>

-----------------------------------------------------------------------------
(* The calls a program makes.  A call that sends a message has its          *)
(* destination core and request; every message here has one payload flit.   *)

Message(op, c, cmd, args, timed) ==
  [op |-> op, core |-> c, req |-> Req(cmd, args), timed |-> timed]

Send(c, cmd, args) == Message("send", c, cmd, args, FALSE)
Buffered(c, cmd, args) == Message("buffer", c, cmd, args, FALSE)

\* Calls without a message: flush the send buffer, take n replies (giving up
\* after a while if timed), trigger the cores.
Call(op, n, timed) == [op |-> op, n |-> n, timed |-> timed]

\* powerOnSelfTest: load a word of each SRAM through one core of each slice.
TestCore(slice) == slice * (NumCores \div 2)
SelfTest ==
  FlattenSeq([k \in 1 .. 2 * NumSRAMs |->
    LET c == TestCore((k - 1) \div NumSRAMs)
        ram == 1 + ((k - 1) % NumSRAMs) IN
    <<Send(c, "SetAddr", <<1000 * ram>>),
      Message("trySend", c, "Load", <<1>>, TRUE)>>])
  \o <<Call("take", 2 * NumSRAMs, TRUE)>>

\* MemFileReader: the words of an image, with their addresses.
Words(image) ==
  FlattenSeq([k \in 1 .. Len(image) |->
    [i \in 1 .. Len(image[k].words) |->
      [addr |-> image[k].addr + i - 1, word |-> image[k].words[i]]]])

\* One word to one core; the address is sent when it does not follow on.
LoadWord(words, i, c, cmd) ==
  (IF i > 1 /\ words[i].addr = words[i - 1].addr + 1 THEN <<>>
   ELSE <<Send(c, "SetAddr", <<words[i].addr>>)>>)
  \o <<Send(c, cmd, <<words[i].word>>)>>

LoadImage(image, cores, cmd) ==
  LET words == Words(image) IN
  FlattenSeq([i \in 1 .. Len(words) |->
    FlattenSeq([k \in 1 .. Len(cores) |-> LoadWord(words, i, cores[k], cmd)])])

\* loadAll: the code through every core, the data through one per memory.
LoadAll ==
  LoadImage(Code, [k \in 1 .. NumCores |-> k - 1], "WriteInstr")
  \o LoadImage(Data, [k \in 1 .. NumDRAMs |-> (k - 1) * CoresPerDRAM], "Store")

\* startAll: a start command to every core, then every response.
StartAll ==
  [k \in 1 .. NumCores |-> Message("trySend", k - 1, "Start", <<>>, FALSE)]
  \o <<Call("take", NumCores, FALSE)>>

\* PGraph::write: the words of the heap through the send buffer.
WriteHeapBuffered ==
  <<Buffered(0, "SetAddr", <<Heap.addr>>)>>
  \o [k \in 1 .. Len(Heap.words) |-> Buffered(0, "Store", <<Heap.words[k]>>)]
  \o <<Call("flush", 0, FALSE)>>

Script == SelfTest \o WriteHeapBuffered \o LoadAll \o StartAll
          \o <<Call("go", 0, FALSE)>>

\* The messages of the script, in the order of their bytes in the stream.
Messages == SelectSeq(Script, LAMBDA call : call.op \in {"send", "trySend", "buffer"})

-----------------------------------------------------------------------------
MsgBytes == 2 * FlitBytes
ReplyBytes == MaxFlitsPerMsg * FlitBytes

NewHost == [st |-> "off", session |-> 0, pc |-> 1, sent |-> 0, due |-> 0,
            buffered |-> 0, ok |-> TRUE, got |-> 0, recvd |-> 0, count |-> 0]

Init ==
  /\ StreamInit
  /\ Off
  /\ host = NewHost
  /\ emitted = 0

Current == Script[host.pc]
At(op) == host.st = "call" /\ Current.op = op
Link == sock[host.session]

-----------------------------------------------------------------------------
(* The constructor, and the end of the program *)

\* connectToPCIeStream: the daemon's listener queues the connection.
Connect ==
  /\ host.st \in {"off", "exit"}
  /\ host.session < MaxSessions
  /\ host' = [NewHost EXCEPT !.st = "connect", !.session = host.session + 1]
  /\ sock' = [sock EXCEPT ![host.session + 1].client = TRUE]
  /\ UNCHANGED <<daemon, dma, bridge, coreVars, emitted>>

\* The DebugLink constructor returns once boardctrld has powered up the
\* boards.  That takes seconds; by then the daemon has seen that the clients
\* before this one have gone.
BoardsReady ==
  /\ host.st = "connect"
  /\ \/ daemon.conn = host.session
     \/ daemon.conn = host.session - 1 /\ daemon.st = "listen"
  /\ PowerUp(host.session)
  /\ host' = [host EXCEPT !.st = "call"]
  /\ emitted' = 0
  /\ UNCHANGED <<streamVars>>

\* The sockets of a process that has gone are closed.
Gone ==
  /\ host' = [host EXCEPT !.st = "exit"]
  /\ sock' = [sock EXCEPT ![host.session].client = FALSE, ![host.session].down = <<>>]
  /\ UNCHANGED <<daemon, dma, bridge, coreVars, emitted>>

\* The self test gives up: a send that keeps failing, or a missing reply.
TimeOut ==
  /\ host.st = "call"
  /\ Current.timed
  /\ Current.op = "trySend" => ~host.ok
  /\ Gone

\* The program is killed, or ends after it has started the machine.  The
\* last client, which has no successor, is left to run.
Kill ==
  /\ host.st \notin {"off", "exit"}
  /\ host.session < MaxSessions
  /\ Gone

-----------------------------------------------------------------------------
(* Sending *)

\* The rule by which a buffered message makes room for itself.
MustFlush == host.buffered + 2 >= SendBufferFlits

Writing ==
  \/ At("send")
  \/ At("trySend")
  \/ At("flush") /\ host.buffered > 0
  \/ At("buffer") /\ host.buffered > 0 /\ MustFlush

\* How far into the stream the current call must have written.
Target == IF Current.op \in {"send", "trySend"} THEN host.due + MsgBytes ELSE host.due

\* The whole of it has been written.
Written(h) ==
  CASE Current.op = "send"    -> [h EXCEPT !.due = Target, !.pc = @ + 1]
    [] Current.op = "trySend" -> [h EXCEPT !.due = Target, !.st = "poll", !.ok = TRUE]
    [] OTHER                  -> [h EXCEPT !.buffered = 0]

\* socketBlockingPut, and socketPut once it has written a part: what fits goes.
Write ==
  /\ Writing
  /\ Room(Link.up) > 0
  /\ LET n == MinOf(Target - host.sent, Room(Link.up))
         h == [host EXCEPT !.sent = @ + n] IN
     /\ sock' = [sock EXCEPT ![host.session].up =
                  @ \o [i \in 1 .. n |-> Byte(host.session, host.sent + i)]]
     /\ host' = IF h.sent = Target THEN Written(h) ELSE h
  /\ UNCHANGED <<daemon, dma, bridge, coreVars, emitted>>

\* socketPut finds the socket full.
TryFails ==
  /\ At("trySend")
  /\ host.sent = host.due
  /\ Room(Link.up) = 0
  /\ host' = [host EXCEPT !.st = "poll", !.ok = FALSE]
  /\ UNCHANGED <<streamVars, coreVars, emitted>>

\* sendHelper into the send buffer.
BufferMessage ==
  /\ At("buffer")
  /\ ~(host.buffered > 0 /\ MustFlush)
  /\ host' = [host EXCEPT !.buffered = @ + 2, !.due = @ + MsgBytes, !.pc = @ + 1]
  /\ UNCHANGED <<streamVars, coreVars, emitted>>

FlushReturns ==
  /\ At("flush")
  /\ host.buffered = 0
  /\ host' = [host EXCEPT !.pc = @ + 1]
  /\ UNCHANGED <<streamVars, coreVars, emitted>>

-----------------------------------------------------------------------------
(* Receiving *)

\* A trySend call is over if it wrote its message, and is repeated if not.
AfterPoll(h) == [h EXCEPT !.st = "call", !.pc = IF h.ok THEN @ + 1 ELSE @]

\* canRecv after trySend: receive a reply first if there is one.
Poll ==
  /\ host.st = "poll"
  /\ host' = IF Link.down /= <<>> THEN [host EXCEPT !.st = "recv"]
             ELSE AfterPoll(host)
  /\ UNCHANGED <<streamVars, coreVars, emitted>>

\* The loops that take the remaining replies.
TakeNext ==
  /\ At("take")
  /\ host' = IF host.count >= Current.n
             THEN [host EXCEPT !.count = 0, !.pc = @ + 1]
             ELSE [host EXCEPT !.st = "recv"]
  /\ host.count < Current.n => Link.down /= <<>>
  /\ UNCHANGED <<streamVars, coreVars, emitted>>

\* recv: one padded reply, in as many pieces as the socket gives.
Recv ==
  /\ host.st = "recv"
  /\ Link.down /= <<>>
  /\ LET k == MinOf(ReplyBytes - host.got, Len(Link.down))
         h == [host EXCEPT !.recvd = @ + k, !.got = @ + k] IN
     /\ sock' = [sock EXCEPT ![host.session].down = Rest(@, k)]
     /\ host' = IF h.got < ReplyBytes THEN h
                ELSE LET r == [h EXCEPT !.got = 0, !.count = @ + 1] IN
                     IF Current.op = "trySend" THEN AfterPoll(r)
                     ELSE [r EXCEPT !.st = "call"]
  /\ UNCHANGED <<daemon, dma, bridge, coreVars, emitted>>

\* go: the trigger byte to thread 0 of every core, over the DebugLink.
Go ==
  /\ At("go")
  /\ uart' = [c \in Cores |-> TRUE]
  /\ host' = [host EXCEPT !.st = "up"]
  /\ UNCHANGED <<streamVars, power, core, dram, emitted>>

HostNext ==
  \/ Write \/ TryFails \/ BufferMessage \/ FlushReturns
  \/ Poll \/ TakeNext \/ Recv \/ Go

-----------------------------------------------------------------------------
(* The composition *)

\* A new client is accepted half a second after the board's reset; boardctrld
\* has powered the boards of the previous client down by then.
AcceptClient ==
  /\ daemon.conn < host.session
  /\ power \in {0, daemon.conn + 1}
  /\ Accept(daemon.conn + 1)
  /\ UNCHANGED <<coreVars, host, emitted>>

\* boardctrld sees that its client has gone.
PowerDownBoards ==
  /\ power /= 0 => ~sock[power].client
  /\ PowerDown
  /\ UNCHANGED <<streamVars, host, emitted>>

\* The bridge sends a message into the mesh, to the core its header names.
Inject ==
  /\ power /= 0
  /\ TakePayload
  /\ LET m == Messages[(bridge.header[1].n - 1) \div MsgBytes + 1] IN
     Arrive(m.core, m.req)
  /\ UNCHANGED <<host, emitted>>

\* A reply reaches the bridge, which pads it to the largest message.
Reply(c) ==
  /\ power /= 0
  /\ Depart(c)
  /\ FromLink([f \in 1 .. MaxFlitsPerMsg |->
                [i \in 1 .. FlitBytes |->
                  Byte(power, emitted + (f - 1) * FlitBytes + i)]])
  /\ emitted' = emitted + ReplyBytes
  /\ UNCHANGED <<host>>

Stream(A) == A /\ UNCHANGED <<coreVars, host, emitted>>
Mesh(c) == CoreStep(c) /\ UNCHANGED <<streamVars, host, emitted>>

Machine ==
  \/ Stream(StreamNext) \/ AcceptClient
  \/ PowerDownBoards \/ Inject
  \/ \E c \in Cores : Mesh(c) \/ Reply(c)

Next ==
  \/ Connect \/ TimeOut \/ Kill
  \/ BoardsReady \/ HostNext
  \/ Machine

\* The program goes on while it can, and so does what it runs on: some step
\* of the daemons and the hardware, which no other step of theirs can put off
\* for ever.  A program need not be started, killed or timed out.
Fairness == WF_vars(BoardsReady \/ HostNext) /\ WF_vars(Machine)

Spec == Init /\ [][Next]_vars /\ Fairness

-----------------------------------------------------------------------------
(* Properties *)

Consecutive(stream, s, n) ==
  stream = [i \in 1 .. Len(stream) |-> Byte(s, n + i)]

\* The bytes between the client and the bridge's message decoder, in order.
Upstream ==
  LET k == bridge.txRead
      len(b) == FlitBytes * bridge.lenTx[b + 1] IN
  SubSeq(dma.tx[k], FlitBytes * bridge.txCount + 1, len(k))
  \o SubSeq(dma.tx[Other(k)], 1, len(Other(k)))
  \o SubSeq(dma.tx[Tx.active], 1, Tx.pending)
  \o Conn.up

\* The bytes between the bridge's input from the mesh and the client.
Downstream ==
  Conn.down
  \o SubSeq(dma.rx[Rx.active], Rx.written + 1,
            FlitBytes * bridge.lenRx[Rx.active + 1])
  \o SubSeq(dma.rx[bridge.rxWrite], 1, FlitBytes * bridge.rxCount)
  \o FlattenSeq(bridge.in)

\* Through sockets, double buffers and registers, and over the change from
\* one client to the next, no byte is lost, repeated, reordered or given to
\* another client (pciestreamd tx and rx, the two resets around accept).
StreamIntact ==
  Serving =>
    /\ Consecutive(Upstream, daemon.conn, bridge.injected)
    /\ daemon.conn = host.session =>
         bridge.injected + Len(Upstream) = host.sent
    /\ daemon.conn = host.session /\ host.st /= "exit" =>
         Consecutive(Downstream, daemon.conn, host.recvd)
    /\ daemon.conn = host.session /\ host.st /= "exit" /\ power = daemon.conn =>
         host.recvd + Len(Downstream) = emitted

Holds(mem, words) ==
  \A k \in DOMAIN words : Read(mem, words[k].addr) = words[k].word

\* No core runs the application before every core has the whole code and every
\* memory has the whole data and heap: the responses the program counts are
\* those of the start commands and none of them comes before the write-backs
\* it stands for (HostLink::startAll, boot.c StartCmd).
LoadedBeforeRun ==
  (\E c \in Cores : core[c].st = "app") =>
    /\ \A c \in Cores : Holds(core[c].boot.instrs, Words(Code))
    /\ \A d \in DOMAIN dram : Holds(dram[d], Words(Data))
    /\ Holds(dram[0], Words(<<Heap>>))

\* A program that has connected gets every core to the application, unless it
\* is killed or its self test gives up: none of its calls, of which only the
\* self test's are timed, waits for ever (HostLink::powerOnSelfTest, startAll).
BootCompletes ==
  \A c \in Cores :
    host.st = "connect" ~> (core[c].st = "app" \/ host.st = "exit")
=============================================================================
