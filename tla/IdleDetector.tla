---------------------------- MODULE IdleDetector ----------------------------
(***************************************************************************)
(* Global termination detection and the barrier behind tinselIdle(): the   *)
(* idle detector of each board and the idle-detect master on the bridge    *)
(* board (rtl/IdleDetector.bsv), the idle logic of the mailbox client unit *)
(* of each core (rtl/Mailbox.bsv), the instructions of the core it gates   *)
(* (rtl/Core.bsv), the detection of inter-board activity (rtl/Network.bsv) *)
(* and the injection of host messages (rtl/DE5BridgeTop.bsv).              *)
(*                                                                         *)
(* The master probes all boards with a token, in rounds (Safra's algorithm *)
(* in a star).  A board answers when all its threads are in tinselIdle(),  *)
(* with its colour, its vote and the number of messages it sent minus the  *)
(* number it received.  When a round finds every board white and the sum   *)
(* zero, two more rounds follow: in the first every thread is woken while  *)
(* messaging is disabled, in the second messaging is enabled again.        *)
(*                                                                         *)
(* Messages are counted, not named: only where they are matters here.  A   *)
(* message goes to one thread or to the host.  The pipelines that sum the  *)
(* signals of the cores have equal depth for counts and activity, and are  *)
(* modelled as no delay.  Routing keys and the fetchers of the             *)
(* programmable router are not part of this module.                        *)
(***************************************************************************)
EXTENDS Integers, Sequences, FiniteSets

CONSTANTS
  NumBoards,     \* meshBoards: the worker boards
  Cores, Threads,
  BoardOf,       \* the board of each core
  CoreOf,        \* the core of each thread
  Host,          \* the host, as a source and a destination of messages
  Votes,         \* bound: the arguments tinselIdle is called with
  MaxMsgs        \* bound: most messages sent by threads and host together

Boards == 0 .. NumBoards - 1

ASSUME ShapeAssumption ==
  /\ NumBoards \in Nat \ {0}
  /\ BoardOf \in [Cores -> Boards]
  /\ CoreOf \in [Threads -> Cores]
  /\ \A b \in Boards : \E c \in Cores : BoardOf[c] = b
  /\ \A c \in Cores : \E t \in Threads : CoreOf[t] = c
  /\ IsFiniteSet(Cores) /\ IsFiniteSet(Threads)
  /\ Host \notin Boards /\ Host \notin Threads
  /\ Votes \subseteq BOOLEAN /\ MaxMsgs \in Nat

Home(t) == BoardOf[CoreOf[t]]
CoresOn(b) == {c \in Cores : BoardOf[c] = b}

VARIABLES
  \* threads and messages
  idle,         \* the thread is suspended in tinselIdle
  voted,        \* the argument of its last tinselIdle
  phase,        \* history: parity of the barriers it has come out of
  net,          \* net[s][d]: messages on their way from s to d
  mbox,         \* messages in the mailbox, not yet received by the thread
  held,         \* messages received and not yet freed by the thread
  freeing,      \* freed messages the free unit of the board has yet to count
  sent,         \* history: messages sent so far
  \* idle logic of each core
  idleStage1Reg, voteStage1Reg, idleDetected,
  \* idle detector of each board
  count, black, state, released, numAcks,
  \* tokens
  toBoard,      \* toBoard[b]: tokens from the master to b
  tokenIn,      \* tokenInQueue
  toMaster,     \* toMaster[b]: tokens from b to the master
  \* master
  mstate, board, probeSent, respCount, totalCount, anyBlack,
  localCount, localBlack, nextVote, currentVote, disableHostMsgsReg

thrVars == <<idle, voted, phase>>
msgVars == <<net, mbox, held, freeing, sent>>
coreVars == <<idleStage1Reg, voteStage1Reg, idleDetected>>
boardVars == <<count, black, state, released, numAcks>>
tokVars == <<toBoard, tokenIn, toMaster>>
probeVars == <<mstate, board, probeSent, respCount, totalCount, anyBlack,
               nextVote, currentVote, disableHostMsgsReg>>
localVars == <<localCount, localBlack>>
vars == <<thrVars, msgVars, coreVars, boardVars, tokVars, probeVars,
          localVars>>

Token == [done : BOOLEAN, stage1 : BOOLEAN, vote : BOOLEAN, black : BOOLEAN,
          count : Int]

-----------------------------------------------------------------------------

\* The threads have been started and are active, so every board is black.
Init ==
  /\ idle = [t \in Threads |-> FALSE]
  /\ voted = [t \in Threads |-> FALSE]
  /\ phase = [t \in Threads |-> FALSE]
  /\ net = [s \in Boards \cup {Host} |-> [d \in Threads \cup {Host} |-> 0]]
  /\ mbox = [t \in Threads |-> 0]
  /\ held = [t \in Threads |-> 0]
  /\ freeing = [b \in Boards |-> 0]
  /\ sent = 0
  /\ idleStage1Reg = [c \in Cores |-> FALSE]
  /\ voteStage1Reg = [c \in Cores |-> FALSE]
  /\ idleDetected = [c \in Cores |-> FALSE]
  /\ count = [b \in Boards |-> 0]
  /\ black = [b \in Boards |-> TRUE]
  /\ state = [b \in Boards |-> 0]
  /\ released = [b \in Boards |-> FALSE]
  /\ numAcks = [b \in Boards |-> 0]
  /\ toBoard = [b \in Boards |-> <<>>]
  /\ tokenIn = [b \in Boards |-> <<>>]
  /\ toMaster = [b \in Boards |-> <<>>]
  /\ mstate = 0 /\ board = 0 /\ probeSent = FALSE /\ respCount = 0
  /\ totalCount = 0 /\ anyBlack = FALSE
  /\ localCount = 0 /\ localBlack = FALSE
  /\ nextVote = FALSE /\ currentVote = TRUE
  /\ disableHostMsgsReg = FALSE

-----------------------------------------------------------------------------
(* Instructions of a running thread.  token.idleRelease is                 *)
(* idleReleaseInProgress: while it holds, send, receive and wait are       *)
(* retried.                                                                *)

Running(t) == ~ idle[t]

\* Send: one message to a thread or to the host.
Send(t, d) ==
  /\ Running(t)
  /\ ~ idleDetected[CoreOf[t]]
  /\ sent < MaxMsgs
  /\ net' = [net EXCEPT ![Home(t)][d] = @ + 1]
  /\ sent' = sent + 1
  /\ count' = [count EXCEPT ![Home(t)] = @ + 1]
  /\ UNCHANGED <<thrVars, mbox, held, freeing, coreVars, black, state,
                 released, numAcks, tokVars, probeVars, localVars>>

Recv(t) ==
  /\ Running(t)
  /\ ~ idleDetected[CoreOf[t]]
  /\ mbox[t] > 0
  /\ mbox' = [mbox EXCEPT ![t] = @ - 1]
  /\ held' = [held EXCEPT ![t] = @ + 1]
  /\ UNCHANGED <<thrVars, net, freeing, sent, coreVars, boardVars,
                 tokVars, probeVars, localVars>>

\* Free is not disabled during the release phase.
Free(t) ==
  /\ Running(t)
  /\ held[t] > 0
  /\ held' = [held EXCEPT ![t] = @ - 1]
  /\ freeing' = [freeing EXCEPT ![Home(t)] = @ + 1]
  /\ UNCHANGED <<thrVars, net, mbox, sent, coreVars, boardVars, tokVars,
                 probeVars, localVars>>

\* tinselIdle(vote): wait for a message or for global idleness.
Sleep(t, vote) ==
  /\ Running(t)
  /\ ~ idleDetected[CoreOf[t]]
  /\ idle' = [idle EXCEPT ![t] = TRUE]
  /\ voted' = [voted EXCEPT ![t] = vote]
  /\ UNCHANGED <<phase, msgVars, coreVars, boardVars, tokVars, probeVars,
                 localVars>>

-----------------------------------------------------------------------------
(* Mailbox client unit and free unit                                       *)

\* wakeup1: an event the thread waits for has come.  The board is active
\* from now on (updateColour).
Wake(t) ==
  /\ idle[t]
  /\ mbox[t] > 0 \/ idleStage1Reg[CoreOf[t]]
  /\ idle' = [idle EXCEPT ![t] = FALSE]
  /\ phase' = [phase EXCEPT ![t] = IF idleStage1Reg[CoreOf[t]] THEN ~ @ ELSE @]
  /\ black' = [black EXCEPT ![Home(t)] = TRUE]
  /\ UNCHANGED <<voted, msgVars, coreVars, count, state, released, numAcks,
                 tokVars, probeVars, localVars>>

\* The free unit drops the last reference and the board counts a receipt.
FreeDone(b) ==
  /\ freeing[b] > 0
  /\ freeing' = [freeing EXCEPT ![b] = @ - 1]
  /\ count' = [count EXCEPT ![b] = @ - 1]
  /\ UNCHANGED <<thrVars, net, mbox, held, sent, coreVars, black, state,
                 released, numAcks, tokVars, probeVars, localVars>>

NumIdleWaiters(c) == Cardinality({t \in Threads : CoreOf[t] = c /\ idle[t]})
ThreadsOn(c) == Cardinality({t \in Threads : CoreOf[t] = c})

\* numIdleWaiters.notFull of some core
Active(b) == \E c \in CoresOn(b) : NumIdleWaiters(c) # ThreadsOn(c)

\* Fault for the mutation check: one true vote is enough for the board.
VoteOfAny(b) == \E t \in Threads : Home(t) = b /\ idle[t] /\ voted[t]

\* All threads of the board voted true (idleVotes full on every core).
Vote(b) == \A t \in Threads : Home(t) = b => idle[t] /\ voted[t]

-----------------------------------------------------------------------------
(* The idle detector of a board                                            *)

\* Fault for the mutation check: the release is looked for in state 1.
ReleaseInState1(b, activity) ==
  LET rel == activity /\ state[b] = 1 /\ ~ released[b] IN
    /\ released' = [released EXCEPT ![b] = @ \/ rel]
    /\ idleDetected' = [c \in Cores |->
                          idleDetected[c] /\ ~ (rel /\ BoardOf[c] = b)]

\* doRelease: activity on an inter-board link, seen in state 2, enables
\* messaging on all cores of the board (detectedStage2).
Release(b, activity) ==
  LET rel == activity /\ state[b] = 2 /\ ~ released[b] IN
    /\ released' = [released EXCEPT ![b] = @ \/ rel]
    /\ idleDetected' = [c \in Cores |->
                          idleDetected[c] /\ ~ (rel /\ BoardOf[c] = b)]

\* Fault for the mutation check: stage-1 tokens count as activity too.
AnyToken(tok) == TRUE

\* A token that counts as inter-board activity on its way.
NotStage1(tok) == ~ tok.stage1

\* informIdleDetector: a flit that is not a stage-1 token arrives on a link
\* of the board.  Any flit between boards may pass through the board.
InterBoardActivity(b) ==
  /\ state[b] = 2 /\ ~ released[b]
  /\ \/ \E a \in Boards :
          \/ toBoard[a] # <<>> /\ NotStage1(Head(toBoard[a]))
          \/ toMaster[a] # <<>> /\ NotStage1(Head(toMaster[a]))
     \/ \E s \in Boards \cup {Host}, d \in Threads \cup {Host} :
          net[s][d] > 0 /\ (IF d = Host THEN TRUE ELSE s # Home(d))
  /\ Release(b, TRUE)
  /\ UNCHANGED <<thrVars, msgVars, idleStage1Reg, voteStage1Reg, count, black,
                 state, numAcks, tokVars, probeVars, localVars>>

\* A message arrives in a mailbox, over a link if it is from elsewhere.
Deliver(s, t) ==
  /\ net[s][t] > 0
  /\ net' = [net EXCEPT ![s][t] = @ - 1]
  /\ mbox' = [mbox EXCEPT ![t] = @ + 1]
  /\ Release(Home(t), s # Home(t))
  /\ UNCHANGED <<thrVars, held, freeing, sent, idleStage1Reg,
                 voteStage1Reg, count, black, state, numAcks, tokVars,
                 probeVars, localVars>>

\* forward: a token arrives over a link and enters tokenInQueue.
TokenArrives(b) ==
  /\ toBoard[b] # <<>>
  /\ toBoard' = [toBoard EXCEPT ![b] = Tail(@)]
  /\ tokenIn' = [tokenIn EXCEPT ![b] = Append(@, Head(toBoard[b]))]
  /\ Release(b, NotStage1(Head(toBoard[b])))
  /\ UNCHANGED <<thrVars, msgVars, idleStage1Reg, voteStage1Reg, count, black,
                 state, numAcks, toMaster, probeVars, localVars>>

\* The token is dequeued and the answer goes to the master.
Reply(b) ==
  LET in == Head(tokenIn[b]) IN
    /\ tokenIn' = [tokenIn EXCEPT ![b] = Tail(@)]
    /\ toMaster' = [toMaster EXCEPT ![b] =
         Append(@, [done |-> in.done, stage1 |-> in.stage1, vote |-> Vote(b),
                    black |-> black[b], count |-> count[b]])]

\* Fault for the mutation check: a black board stays black.
ColourKept(b) == black[b]

\* updateColour, when the token is forwarded.
ColourForwarded(b) == FALSE

\* sendToken, stage 0: answer the probe once all threads are idle.
ForwardToken(b) ==
  /\ tokenIn[b] # <<>> /\ ~ Head(tokenIn[b]).done
  /\ ~ Active(b)
  /\ Reply(b)
  /\ black' = [black EXCEPT ![b] = ColourForwarded(b)]
  /\ UNCHANGED <<thrVars, msgVars, coreVars, count, state, released, numAcks,
                 toBoard, probeVars, localVars>>

\* sendToken, state 0: termination is announced to the cores.
DetectedStage1(b) ==
  /\ tokenIn[b] # <<>> /\ Head(tokenIn[b]).done
  /\ state[b] = 0
  /\ state' = [state EXCEPT ![b] = 1]
  /\ idleDetected' = [c \in Cores |-> idleDetected[c] \/ BoardOf[c] = b]
  /\ idleStage1Reg' = [c \in Cores |-> idleStage1Reg[c] \/ BoardOf[c] = b]
  /\ voteStage1Reg' = [c \in Cores |-> IF BoardOf[c] = b
                                         THEN Head(tokenIn[b]).vote
                                         ELSE voteStage1Reg[c]]
  /\ UNCHANGED <<thrVars, msgVars, count, black, released, numAcks, tokVars,
                 probeVars, localVars>>

\* Fault for the mutation check: a core acknowledges before its threads have
\* left tinselIdle.
AcksAtOnce(c) == idleStage1Reg[c]

\* updateIdleStage: stage 1 is over for the core.
Acks(c) == idleStage1Reg[c] /\ NumIdleWaiters(c) = 0

\* updateIdleStage of core c and, one cycle long, stage1AckWire: with the last
\* acknowledgement the token is answered, if it is there (sendToken, state 1).
AckStage1(c) ==
  LET b == BoardOf[c]
      total == numAcks[b] + 1 IN
  /\ Acks(c)
  /\ idleStage1Reg' = [idleStage1Reg EXCEPT ![c] = FALSE]
  /\ \/ /\ total = Cardinality(CoresOn(b))
        /\ numAcks' = [numAcks EXCEPT ![b] = 0]
        /\ \/ /\ state[b] = 1 /\ tokenIn[b] # <<>> /\ Head(tokenIn[b]).done
              /\ Reply(b)
              /\ state' = [state EXCEPT ![b] = 2]
           \/ /\ ~ (state[b] = 1 /\ tokenIn[b] # <<>> /\ Head(tokenIn[b]).done)
              /\ UNCHANGED <<tokenIn, toMaster, state>>
     \/ /\ total # Cardinality(CoresOn(b))
        /\ numAcks' = [numAcks EXCEPT ![b] = total]
        /\ UNCHANGED <<tokenIn, toMaster, state>>
  /\ UNCHANGED <<thrVars, msgVars, voteStage1Reg, idleDetected, count, black,
                 released, toBoard, probeVars, localVars>>

\* sendToken, state 2: the second done token ends the barrier.
EndBarrier(b) ==
  /\ tokenIn[b] # <<>> /\ Head(tokenIn[b]).done
  /\ state[b] = 2
  /\ Reply(b)
  /\ state' = [state EXCEPT ![b] = 0]
  /\ released' = [released EXCEPT ![b] = FALSE]
  /\ UNCHANGED <<thrVars, msgVars, coreVars, count, black, numAcks, toBoard,
                 probeVars, localVars>>

-----------------------------------------------------------------------------
(* The bridge board: host messages and the idle-detect master              *)

\* probe, sending: one token to the next board of the round.
Probe ==
  /\ ~ probeSent
  /\ toBoard' = [toBoard EXCEPT ![board] =
       Append(@, [done |-> mstate # 0, stage1 |-> mstate = 1,
                  vote |-> currentVote, black |-> FALSE, count |-> 0])]
  /\ board' = IF board = NumBoards - 1 THEN 0 ELSE board + 1
  /\ probeSent' = (board = NumBoards - 1)
  /\ UNCHANGED <<thrVars, msgVars, coreVars, boardVars, tokenIn, toMaster,
                 mstate, respCount, totalCount, anyBlack, nextVote,
                 currentVote, disableHostMsgsReg, localVars>>

\* What the host injects and takes in one cycle: messages to the threads of
\* ins (at most one) and from the boards of outs (at most one).
HostTraffic(ins, outs) ==
  /\ \A s \in outs : net[s][Host] > 0
  /\ sent + Cardinality(ins) <= MaxMsgs
  /\ net' = [s \in Boards \cup {Host} |-> [d \in Threads \cup {Host} |->
               CASE s = Host /\ d \in ins -> net[s][d] + 1
                 [] s \in outs /\ d = Host -> net[s][d] - 1
                 [] OTHER -> net[s][d]]]
  /\ sent' = sent + Cardinality(ins)
  /\ localCount' = localCount + Cardinality(ins) - Cardinality(outs)
  /\ UNCHANGED <<mbox, held, freeing>>

\* Fault for the mutation check: the host is held off by the register only,
\* which is set at the end of the cycle.
NoDisableHostMsgsWire(lastResponse) == FALSE

\* disableHostMsgsWire: high in the cycle in which a probe round ends.
DisableHostMsgsWire(lastResponse) == lastResponse /\ mstate = 0

OneOrNone(S) == {{}} \cup {{x} : x \in S}

\* toLink1, fromLinkRule: host messages in a cycle without a response.
HostMsgs(ins, outs) ==
  /\ ins # {} \/ outs # {}
  /\ ins # {} => ~ disableHostMsgsReg
  /\ HostTraffic(ins, outs)
  /\ localBlack' = TRUE
  /\ UNCHANGED <<thrVars, coreVars, boardVars, tokVars, probeVars>>

\* Faults for the mutation check of IsLast: off by one in either direction.
IsLastEarly == respCount = NumBoards - 2
IsLastLate == respCount = NumBoards

\* All other boards have answered in this round.
IsLast == respCount = NumBoards - 1

\* probe, receiving: an answer that is not the last of the round.
Response(b, ins, outs) ==
  LET tok == Head(toMaster[b]) IN
  /\ toMaster[b] # <<>>
  /\ ~ IsLast
  /\ ins # {} => ~ (disableHostMsgsReg \/ DisableHostMsgsWire(FALSE))
  /\ HostTraffic(ins, outs)
  /\ localBlack' = (localBlack \/ ins # {} \/ outs # {})
  /\ toMaster' = [toMaster EXCEPT ![b] = Tail(@)]
  /\ respCount' = respCount + 1
  /\ IF mstate = 0
       THEN /\ totalCount' = totalCount + tok.count
            /\ nextVote' = (nextVote /\ tok.vote)
            /\ anyBlack' = (anyBlack \/ tok.black)
       ELSE UNCHANGED <<totalCount, nextVote, anyBlack>>
  /\ UNCHANGED <<thrVars, coreVars, boardVars, toBoard, tokenIn, mstate,
                 board, probeSent, currentVote, disableHostMsgsReg>>

\* The round just ended found the system idle.
Terminated(tok) ==
  /\ ~ tok.black /\ ~ localBlack /\ ~ anyBlack
  /\ totalCount + tok.count = 0

\* probe, receiving: the last answer of the round.
LastResponse(b, ins, outs) ==
  LET tok == Head(toMaster[b]) IN
  /\ toMaster[b] # <<>>
  /\ IsLast
  /\ ins # {} => ~ (disableHostMsgsReg \/ DisableHostMsgsWire(TRUE))
  /\ HostTraffic(ins, outs)
  /\ toMaster' = [toMaster EXCEPT ![b] = Tail(@)]
  /\ respCount' = 0
  /\ probeSent' = FALSE
  /\ \/ /\ mstate = 0
        /\ totalCount' = localCount
        /\ anyBlack' = FALSE
        /\ localBlack' = FALSE
        /\ currentVote' = (nextVote /\ tok.vote)
        /\ nextVote' = TRUE
        /\ mstate' = IF Terminated(tok) THEN 1 ELSE 0
        /\ disableHostMsgsReg' = (disableHostMsgsReg \/ Terminated(tok))
     \/ /\ mstate = 1
        /\ mstate' = 2
        /\ localBlack' = (localBlack \/ ins # {} \/ outs # {})
        /\ UNCHANGED <<totalCount, anyBlack, currentVote, nextVote,
                       disableHostMsgsReg>>
     \/ /\ mstate = 2
        /\ mstate' = 0
        /\ disableHostMsgsReg' = FALSE
        /\ localBlack' = (localBlack \/ ins # {} \/ outs # {})
        /\ UNCHANGED <<totalCount, anyBlack, currentVote, nextVote>>
  /\ UNCHANGED <<thrVars, coreVars, boardVars, toBoard, tokenIn, board>>

-----------------------------------------------------------------------------

ThreadStep(t) ==
  \/ \E d \in Threads \cup {Host} : Send(t, d)
  \/ Recv(t) \/ Free(t)
  \/ \E vote \in Votes : Sleep(t, vote)

BoardStep(b) ==
  \/ FreeDone(b) \/ InterBoardActivity(b) \/ TokenArrives(b)
  \/ ForwardToken(b) \/ DetectedStage1(b) \/ EndBarrier(b)

BridgeStep == \E ins \in OneOrNone(Threads), outs \in OneOrNone(Boards) :
  \/ HostMsgs(ins, outs)
  \/ \E b \in Boards : Response(b, ins, outs) \/ LastResponse(b, ins, outs)

Next ==
  \/ \E t \in Threads : ThreadStep(t) \/ Wake(t)
  \/ \E s \in Boards \cup {Host}, t \in Threads : Deliver(s, t)
  \/ \E c \in Cores : AckStage1(c)
  \/ \E b \in Boards : BoardStep(b)
  \/ Probe
  \/ BridgeStep

Spec == Init /\ [][Next]_vars

(***************************************************************************)
(* Fairness: the rules of the design fire whenever they can, the network   *)
(* delivers, and the sleep queue of a core is cycled for ever, so a thread *)
(* whose event has come is woken.  Nothing is assumed of the program or of *)
(* the host.                                                               *)
(***************************************************************************)
Fairness ==
  /\ \A t \in Threads : WF_vars(Wake(t))
  /\ \A s \in Boards \cup {Host}, t \in Threads : WF_vars(Deliver(s, t))
  /\ \A c \in Cores : WF_vars(AckStage1(c))
  /\ \A b \in Boards :
       /\ WF_vars(FreeDone(b)) /\ WF_vars(TokenArrives(b))
       /\ WF_vars(ForwardToken(b)) /\ WF_vars(DetectedStage1(b))
       /\ WF_vars(EndBarrier(b))
       /\ WF_vars(\E ins \in OneOrNone(Threads), outs \in OneOrNone(Boards) :
                    Response(b, ins, outs) \/ LastResponse(b, ins, outs))
  /\ WF_vars(Probe)

FairSpec == Spec /\ Fairness

-----------------------------------------------------------------------------
(* Properties                                                              *)

\* Every register has its type, and the history of messages is a number.
TypeOK ==
  /\ idle \in [Threads -> BOOLEAN] /\ voted \in [Threads -> BOOLEAN]
  /\ phase \in [Threads -> BOOLEAN]
  /\ net \in [Boards \cup {Host} -> [Threads \cup {Host} -> Nat]]
  /\ mbox \in [Threads -> Nat] /\ held \in [Threads -> Nat]
  /\ freeing \in [Boards -> Nat] /\ sent \in Nat
  /\ idleStage1Reg \in [Cores -> BOOLEAN]
  /\ voteStage1Reg \in [Cores -> BOOLEAN]
  /\ idleDetected \in [Cores -> BOOLEAN]
  /\ count \in [Boards -> Int] /\ black \in [Boards -> BOOLEAN]
  /\ state \in [Boards -> 0 .. 2] /\ released \in [Boards -> BOOLEAN]
  /\ numAcks \in [Boards -> Nat]
  /\ toBoard \in [Boards -> Seq(Token)] /\ tokenIn \in [Boards -> Seq(Token)]
  /\ toMaster \in [Boards -> Seq(Token)]
  /\ mstate \in 0 .. 2 /\ board \in Boards /\ probeSent \in BOOLEAN
  /\ respCount \in 0 .. NumBoards - 1
  /\ totalCount \in Int /\ anyBlack \in BOOLEAN
  /\ localCount \in Int /\ localBlack \in BOOLEAN
  /\ nextVote \in BOOLEAN /\ currentVote \in BOOLEAN
  /\ disableHostMsgsReg \in BOOLEAN

\* No message is anywhere, and every thread is in tinselIdle.
NoMessages ==
  /\ \A s \in Boards \cup {Host}, d \in Threads \cup {Host} : net[s][d] = 0
  /\ \A t \in Threads : mbox[t] = 0 /\ held[t] = 0
  /\ \A b \in Boards : freeing[b] = 0

Quiescent == NoMessages /\ \A t \in Threads : idle[t]

\* Termination is detected only when every thread is in tinselIdle and there
\* is no undelivered, unreceived or unfreed message (README of tinselIdle),
\* although the answers of one round are given at different times and the
\* host injects messages meanwhile.
DetectionSound == [][mstate = 0 /\ mstate' = 1 => Quiescent']_vars

\* The purpose of the second done round: a thread that can send has come out
\* of as many barriers as every other thread, so no message can reach a
\* thread that has yet to return from the same tinselIdle.
BarrierSafe == \A t \in Threads : Running(t) /\ ~ idleDetected[CoreOf[t]] =>
  \A u \in Threads : phase[u] = phase[t]

\* The vote a core passes to its threads is the conjunction of the votes of
\* all threads of the system, although votes are sampled board by board and
\* may change when a message wakes a thread.
VoteUnanimous == \A c \in Cores : idleStage1Reg[c] =>
  (voteStage1Reg[c] <=> \A t \in Threads : voted[t])

\* The assertions "Multiple idle tokens in flight" and "Unexpected idle done
\* token" of the idle detector never fail: at most one token is outstanding
\* per board, and a probe finds the board in state 0.
OneToken == \A b \in Boards :
  /\ Len(toBoard[b]) + Len(tokenIn[b]) + Len(toMaster[b]) <= 1
  /\ tokenIn[b] # <<>> /\ ~ Head(tokenIn[b]).done => state[b] = 0

\* A board is released only after every thread of the system has come out of
\* the barrier, and no core has an acknowledgement pending that would mask
\* the pulse of stage 2 (the order of the branches of updateIdleStage).
ReleaseSound == \A b \in Boards : released[b] =>
  /\ \A c \in Cores : ~ idleStage1Reg[c]
  /\ \A u, t \in Threads : phase[u] = phase[t]

\* A system that has become idle is not left in tinselIdle: termination is
\* detected, unless the host sends a message.
IdleDetected == Quiescent ~> ~ Quiescent

\* Every core that has seen stage 1 has its messaging enabled again.
EventuallyReleased == \A c \in Cores : idleDetected[c] ~> ~ idleDetected[c]
=============================================================================
