------------------------- MODULE IdleDetectorProofs -------------------------
(***************************************************************************)
(* Proofs about IdleDetector, for every number of boards, cores, threads   *)
(* and messages.                                                           *)
(***************************************************************************)
EXTENDS IdleDetector, CommonTheorems, SequenceTheorems, TLAPS

-----------------------------------------------------------------------------
(* The shape of the machine                                                *)

\* A thread is on a core of its board.
LEMMA HomeType ==
  ASSUME NEW t \in Threads
  PROVE  /\ Home(t) \in Boards /\ CoreOf[t] \in Cores
         /\ BoardOf[CoreOf[t]] = Home(t) /\ CoreOf[t] \in CoresOn(Home(t))
BY ShapeAssumption DEF Home, CoresOn

\* The boards are finitely many.
LEMMA BoardsFinite ==
  /\ NumBoards \in Nat \ {0}
  /\ IsFiniteSet(Boards) /\ Cardinality(Boards) = NumBoards
  /\ Boards \subseteq Nat /\ 0 \in Boards /\ NumBoards - 1 \in Boards
<1>1. NumBoards \in Nat \ {0}
  BY ShapeAssumption
<1>2. IsFiniteSet(Boards) /\ Cardinality(Boards) = NumBoards
  BY <1>1, FS_Interval DEF Boards
<1>3. QED
  BY <1>1, <1>2 DEF Boards

\* The host injects, and takes, at most one message in a cycle.
LEMMA OneOrNoneType ==
  ASSUME NEW S, NEW X \in OneOrNone(S)
  PROVE  /\ X \subseteq S /\ IsFiniteSet(X)
         /\ Cardinality(X) \in {0, 1}
         /\ X = {} \/ \E x \in S : X = {x}
         /\ X = {} => Cardinality(X) = 0
         /\ X # {} => Cardinality(X) = 1
<1>1. X = {} \/ \E x \in S : X = {x}
  BY DEF OneOrNone
<1>2. CASE X = {}
  BY <1>2, FS_EmptySet
<1>3. ASSUME NEW x \in S, X = {x}
      PROVE  /\ X \subseteq S /\ IsFiniteSet(X) /\ Cardinality(X) = 1 /\ X # {}
  BY <1>3, FS_Singleton
<1>4. QED
  BY <1>1, <1>2, <1>3

\* A token is a record of its fields.
LEMMA TokenType ==
  ASSUME NEW d \in BOOLEAN, NEW s \in BOOLEAN, NEW v \in BOOLEAN,
         NEW k \in BOOLEAN, NEW n \in Int
  PROVE  [done |-> d, stage1 |-> s, vote |-> v, black |-> k, count |-> n]
           \in Token
BY DEF Token

-----------------------------------------------------------------------------
(* Type correctness, one part of the state at a time                       *)

ThreadsOK ==
  /\ idle \in [Threads -> BOOLEAN] /\ voted \in [Threads -> BOOLEAN]
  /\ phase \in [Threads -> BOOLEAN]

NetOK == net \in [Boards \cup {Host} -> [Threads \cup {Host} -> Nat]]

MessagesOK ==
  /\ NetOK
  /\ mbox \in [Threads -> Nat] /\ held \in [Threads -> Nat]
  /\ freeing \in [Boards -> Nat] /\ sent \in Nat

CoresOK ==
  /\ idleStage1Reg \in [Cores -> BOOLEAN]
  /\ voteStage1Reg \in [Cores -> BOOLEAN]
  /\ idleDetected \in [Cores -> BOOLEAN]

BoardsOK ==
  /\ count \in [Boards -> Int] /\ black \in [Boards -> BOOLEAN]
  /\ state \in [Boards -> 0 .. 2] /\ released \in [Boards -> BOOLEAN]
  /\ numAcks \in [Boards -> Nat]

TokensOK ==
  /\ toBoard \in [Boards -> Seq(Token)] /\ tokenIn \in [Boards -> Seq(Token)]
  /\ toMaster \in [Boards -> Seq(Token)]

FlagsOK ==
  /\ probeSent \in BOOLEAN /\ anyBlack \in BOOLEAN
  /\ nextVote \in BOOLEAN /\ currentVote \in BOOLEAN
  /\ disableHostMsgsReg \in BOOLEAN

MasterOK ==
  /\ mstate \in 0 .. 2 /\ board \in Boards
  /\ respCount \in 0 .. NumBoards - 1 /\ totalCount \in Int
  /\ FlagsOK

LocalOK == localCount \in Int /\ localBlack \in BOOLEAN

\* The parts make up the type invariant.
LEMMA TypeParts ==
  /\ TypeOK <=> /\ ThreadsOK /\ MessagesOK /\ CoresOK /\ BoardsOK /\ TokensOK
                /\ MasterOK /\ LocalOK
  /\ TypeOK' <=> /\ ThreadsOK' /\ MessagesOK' /\ CoresOK' /\ BoardsOK'
                 /\ TokensOK' /\ MasterOK' /\ LocalOK'
BY DEF TypeOK, ThreadsOK, MessagesOK, CoresOK, BoardsOK, TokensOK, MasterOK,
       LocalOK, NetOK, FlagsOK

\* A part that a step leaves alone keeps its type.
LEMMA TypeFrame ==
  /\ ThreadsOK /\ UNCHANGED thrVars => ThreadsOK'
  /\ MessagesOK /\ UNCHANGED msgVars => MessagesOK'
  /\ CoresOK /\ UNCHANGED coreVars => CoresOK'
  /\ BoardsOK /\ UNCHANGED boardVars => BoardsOK'
  /\ TokensOK /\ UNCHANGED tokVars => TokensOK'
  /\ MasterOK /\ UNCHANGED probeVars => MasterOK'
  /\ LocalOK /\ UNCHANGED localVars => LocalOK'
<1>1. ThreadsOK /\ UNCHANGED thrVars => ThreadsOK'
  BY DEF ThreadsOK, thrVars
<1>2. MessagesOK /\ UNCHANGED msgVars => MessagesOK'
  BY DEF MessagesOK, NetOK, msgVars
<1>3. CoresOK /\ UNCHANGED coreVars => CoresOK'
  BY DEF CoresOK, coreVars
<1>4. BoardsOK /\ UNCHANGED boardVars => BoardsOK'
  BY DEF BoardsOK, boardVars
<1>5. TokensOK /\ UNCHANGED tokVars => TokensOK'
  BY DEF TokensOK, tokVars
<1>6. MasterOK /\ UNCHANGED probeVars => MasterOK'
  BY DEF MasterOK, FlagsOK, probeVars
<1>7. LocalOK /\ UNCHANGED localVars => LocalOK'
  BY DEF LocalOK, localVars
<1>8. QED
  BY <1>1, <1>2, <1>3, <1>4, <1>5, <1>6, <1>7

\* The number of messages on their way from s to d becomes v.
NetSet(s, d, v) == net' = [net EXCEPT ![s][d] = v]

LEMMA NetUpdate ==
  ASSUME NetOK, NEW s \in Boards \cup {Host}, NEW d \in Threads \cup {Host},
         NEW v \in Nat, NetSet(s, d, v)
  PROVE  /\ NetOK'
         /\ net[s][d] \in Nat /\ net'[s][d] = v
         /\ \A p \in Boards \cup {Host}, q \in Threads \cup {Host} :
              p # s \/ q # d => net'[p][q] = net[p][q]
<1>1. net[s] \in [Threads \cup {Host} -> Nat]
  BY DEF NetOK
<1>2. net' = [net EXCEPT ![s] = [net[s] EXCEPT ![d] = v]]
  BY DEF NetSet
<1>3. [net[s] EXCEPT ![d] = v] \in [Threads \cup {Host} -> Nat]
  BY <1>1
<1>4. NetOK'
  BY <1>2, <1>3 DEF NetOK
<1>5. net'[s] = [net[s] EXCEPT ![d] = v]
  BY <1>2 DEF NetOK
<1>6. \A p \in Boards \cup {Host} : p # s => net'[p] = net[p]
  BY <1>2 DEF NetOK
<1>7. QED
  BY <1>1, <1>4, <1>5, <1>6

\* An answer of a board is a token, and takes the place of the one it answers.
LEMMA ReplyType ==
  ASSUME TokensOK, BoardsOK, ThreadsOK, NEW b \in Boards, tokenIn[b] # <<>>,
         Reply(b), UNCHANGED toBoard
  PROVE  TokensOK'
<1> DEFINE in == Head(tokenIn[b])
           out == [done |-> in.done, stage1 |-> in.stage1, vote |-> Vote(b),
                   black |-> black[b], count |-> count[b]]
<1>1. in \in Token
  BY DEF TokensOK
<1>2. Vote(b) \in BOOLEAN
  BY DEF Vote
<1>3. black[b] \in BOOLEAN /\ count[b] \in Int
  BY DEF BoardsOK
<1>4. in.done \in BOOLEAN /\ in.stage1 \in BOOLEAN
  BY <1>1 DEF Token
<1>5. out \in Token
  BY <1>2, <1>3, <1>4, TokenType
<1>6. /\ tokenIn' = [tokenIn EXCEPT ![b] = Tail(@)]
      /\ toMaster' = [toMaster EXCEPT ![b] = Append(@, out)]
  BY DEF Reply
<1> HIDE DEF out
<1>7. /\ Tail(tokenIn[b]) \in Seq(Token) /\ Append(toMaster[b], out) \in Seq(Token)
  BY <1>5 DEF TokensOK
<1>8. QED
  BY <1>6, <1>7 DEF TokensOK

\* Host traffic changes the number of messages on their way by whole messages.
LEMMA HostTrafficType ==
  ASSUME MessagesOK, LocalOK, NEW ins \in OneOrNone(Threads),
         NEW outs \in OneOrNone(Boards), HostTraffic(ins, outs)
  PROVE  MessagesOK' /\ localCount' \in Int
<1>1. Cardinality(ins) \in {0, 1} /\ Cardinality(outs) \in {0, 1}
  BY OneOrNoneType
<1>2. ASSUME NEW s \in Boards \cup {Host}, NEW d \in Threads \cup {Host}
      PROVE  (CASE s = Host /\ d \in ins -> net[s][d] + 1
                [] s \in outs /\ d = Host -> net[s][d] - 1
                [] OTHER -> net[s][d]) \in Nat
  <2>1. net[s][d] \in Nat
    BY DEF MessagesOK, NetOK
  <2>2. CASE s = Host /\ d \in ins
    <3>1. ins \subseteq Threads /\ outs \subseteq Boards
      BY OneOrNoneType
    <3>2. ~ (s \in outs /\ d = Host)
      BY <2>2, <3>1, ShapeAssumption
    <3>3. QED
      BY <2>1, <2>2, <3>2
  <2>3. CASE ~ (s = Host /\ d \in ins) /\ s \in outs /\ d = Host
    <3>1. net[s][d] > 0
      BY <2>3 DEF HostTraffic
    <3>2. QED
      BY <2>1, <2>3, <3>1
  <2>4. CASE ~ (s = Host /\ d \in ins) /\ ~ (s \in outs /\ d = Host)
    BY <2>1, <2>4
  <2>5. QED
    BY <2>2, <2>3, <2>4
<1>3. net' \in [Boards \cup {Host} -> [Threads \cup {Host} -> Nat]]
  BY <1>2 DEF HostTraffic
<1>4. sent' \in Nat /\ localCount' \in Int
  BY <1>1 DEF HostTraffic, MessagesOK, LocalOK
<1>5. QED
  BY <1>3, <1>4 DEF HostTraffic, MessagesOK, NetOK

\* Every step preserves the type invariant.
LEMMA TypeStep == TypeOK /\ [Next]_vars => TypeOK'
<1> SUFFICES ASSUME TypeOK, [Next]_vars
             PROVE  TypeOK'
  OBVIOUS
<1>0. /\ ThreadsOK /\ MessagesOK /\ CoresOK /\ BoardsOK /\ TokensOK
      /\ MasterOK /\ LocalOK
  BY TypeParts
<1>1. ASSUME NEW t \in Threads, NEW d \in Threads \cup {Host}, Send(t, d)
      PROVE  TypeOK'
  <2>1. MessagesOK'
    <3>1. NetOK'
      <4>1. Home(t) \in Boards \cup {Host} /\ net[Home(t)][d] + 1 \in Nat
        BY <1>0, HomeType DEF MessagesOK, NetOK
      <4>2. net' = [net EXCEPT ![Home(t)][d] = net[Home(t)][d] + 1]
        BY <1>1 DEF Send
      <4>3. QED
        BY <4>1, <4>2, <1>0, NetUpdate DEF MessagesOK, NetSet
    <3>2. QED
      BY <3>1, <1>1, <1>0 DEF Send, MessagesOK
  <2>2. BoardsOK'
    BY <1>1, <1>0, HomeType DEF Send, BoardsOK
  <2>3. UNCHANGED <<thrVars, coreVars, tokVars, probeVars, localVars>>
    BY <1>1 DEF Send
  <2>4. QED
    BY <2>1, <2>2, <2>3, <1>0, TypeFrame, TypeParts
<1>2. ASSUME NEW t \in Threads, Recv(t)
      PROVE  TypeOK'
  <2>1. MessagesOK'
    <3>1. NetOK'
      BY <1>2, <1>0 DEF Recv, MessagesOK, NetOK
    <3>2. QED
      BY <3>1, <1>2, <1>0 DEF Recv, MessagesOK
  <2>2. UNCHANGED <<thrVars, coreVars, boardVars, tokVars, probeVars, localVars>>
    BY <1>2 DEF Recv
  <2>3. QED
    BY <2>1, <2>2, <1>0, TypeFrame, TypeParts
<1>3. ASSUME NEW t \in Threads, Free(t)
      PROVE  TypeOK'
  <2>1. MessagesOK'
    <3>1. NetOK'
      BY <1>3, <1>0 DEF Free, MessagesOK, NetOK
    <3>2. QED
      BY <3>1, <1>3, <1>0, HomeType DEF Free, MessagesOK
  <2>2. UNCHANGED <<thrVars, coreVars, boardVars, tokVars, probeVars, localVars>>
    BY <1>3 DEF Free
  <2>3. QED
    BY <2>1, <2>2, <1>0, TypeFrame, TypeParts
<1>4. ASSUME NEW t \in Threads, NEW vote \in Votes, Sleep(t, vote)
      PROVE  TypeOK'
  <2>1. ThreadsOK'
    BY <1>4, <1>0, ShapeAssumption DEF Sleep, ThreadsOK
  <2>2. UNCHANGED <<msgVars, coreVars, boardVars, tokVars, probeVars, localVars>>
    BY <1>4 DEF Sleep
  <2>3. QED
    BY <2>1, <2>2, <1>0, TypeFrame, TypeParts
<1>5. ASSUME NEW t \in Threads, Wake(t)
      PROVE  TypeOK'
  <2>1. ThreadsOK'
    BY <1>5, <1>0 DEF Wake, ThreadsOK
  <2>2. BoardsOK'
    BY <1>5, <1>0, HomeType DEF Wake, BoardsOK
  <2>3. UNCHANGED <<msgVars, coreVars, tokVars, probeVars, localVars>>
    BY <1>5 DEF Wake
  <2>4. QED
    BY <2>1, <2>2, <2>3, <1>0, TypeFrame, TypeParts
<1>6. ASSUME NEW s \in Boards \cup {Host}, NEW t \in Threads, Deliver(s, t)
      PROVE  TypeOK'
  <2>1. MessagesOK'
    <3>1. NetOK'
      <4>1. net[s][t] - 1 \in Nat
        <5>1. net[s][t] \in Nat
          BY <1>0 DEF MessagesOK, NetOK
        <5>2. QED
          BY <5>1, <1>6 DEF Deliver
      <4>2. net' = [net EXCEPT ![s][t] = net[s][t] - 1]
        BY <1>6 DEF Deliver
      <4>3. QED
        BY <4>1, <4>2, <1>0, NetUpdate DEF MessagesOK, NetSet
    <3>2. QED
      BY <3>1, <1>6, <1>0 DEF Deliver, MessagesOK
  <2>2. CoresOK'
    BY <1>6, <1>0 DEF Deliver, Release, CoresOK
  <2>3. BoardsOK'
    BY <1>6, <1>0, HomeType DEF Deliver, Release, BoardsOK
  <2>4. UNCHANGED <<thrVars, tokVars, probeVars, localVars>>
    BY <1>6 DEF Deliver
  <2>5. QED
    BY <2>1, <2>2, <2>3, <2>4, <1>0, TypeFrame, TypeParts
<1>7. ASSUME NEW c \in Cores, AckStage1(c)
      PROVE  TypeOK'
  <2>1. CoresOK'
    BY <1>7, <1>0 DEF AckStage1, CoresOK
  <2>2. BoardsOK'
    <3>1. BoardOf[c] \in Boards
      BY ShapeAssumption
    <3>2. numAcks[BoardOf[c]] + 1 \in Nat
      BY <3>1, <1>0 DEF BoardsOK
    <3>3. /\ numAcks' \in {[numAcks EXCEPT ![BoardOf[c]] = 0],
                         [numAcks EXCEPT ![BoardOf[c]] = numAcks[BoardOf[c]] + 1]}
          /\ state' \in {state, [state EXCEPT ![BoardOf[c]] = 2]}
          /\ UNCHANGED <<count, black, released>>
      BY <1>7 DEF AckStage1
    <3>4. QED
      BY <3>1, <3>2, <3>3, <1>0 DEF BoardsOK
  <2>3. TokensOK'
    <3>1. CASE UNCHANGED <<tokenIn, toMaster, state>>
      BY <3>1, <1>7, <1>0 DEF AckStage1, TokensOK
    <3>2. CASE /\ tokenIn[BoardOf[c]] # <<>>
               /\ Reply(BoardOf[c])
      <4>1. UNCHANGED toBoard /\ BoardOf[c] \in Boards
        BY <1>7, ShapeAssumption DEF AckStage1
      <4>2. QED
        BY <3>2, <4>1, <1>0, ReplyType
    <3>3. QED
      BY <3>1, <3>2, <1>7 DEF AckStage1
  <2>4. UNCHANGED <<thrVars, msgVars, probeVars, localVars>>
    BY <1>7 DEF AckStage1
  <2>5. QED
    BY <2>1, <2>2, <2>3, <2>4, <1>0, TypeFrame, TypeParts
<1>8. ASSUME NEW b \in Boards, FreeDone(b)
      PROVE  TypeOK'
  <2>1. MessagesOK'
    <3>1. NetOK'
      BY <1>8, <1>0 DEF FreeDone, MessagesOK, NetOK
    <3>2. QED
      BY <3>1, <1>8, <1>0 DEF FreeDone, MessagesOK
  <2>2. BoardsOK'
    BY <1>8, <1>0 DEF FreeDone, BoardsOK
  <2>3. UNCHANGED <<thrVars, coreVars, tokVars, probeVars, localVars>>
    BY <1>8 DEF FreeDone
  <2>4. QED
    BY <2>1, <2>2, <2>3, <1>0, TypeFrame, TypeParts
<1>9. ASSUME NEW b \in Boards, InterBoardActivity(b)
      PROVE  TypeOK'
  <2>1. CoresOK'
    BY <1>9, <1>0 DEF InterBoardActivity, Release, CoresOK
  <2>2. BoardsOK'
    BY <1>9, <1>0 DEF InterBoardActivity, Release, BoardsOK
  <2>3. UNCHANGED <<thrVars, msgVars, tokVars, probeVars, localVars>>
    BY <1>9 DEF InterBoardActivity
  <2>4. QED
    BY <2>1, <2>2, <2>3, <1>0, TypeFrame, TypeParts
<1>10. ASSUME NEW b \in Boards, TokenArrives(b)
      PROVE  TypeOK'
  <2>1. CoresOK'
    BY <1>10, <1>0 DEF TokenArrives, Release, CoresOK
  <2>2. BoardsOK'
    BY <1>10, <1>0 DEF TokenArrives, Release, NotStage1, BoardsOK
  <2>3. TokensOK'
    BY <1>10, <1>0 DEF TokenArrives, TokensOK
  <2>4. UNCHANGED <<thrVars, msgVars, probeVars, localVars>>
    BY <1>10 DEF TokenArrives
  <2>5. QED
    BY <2>1, <2>2, <2>3, <2>4, <1>0, TypeFrame, TypeParts
<1>11. ASSUME NEW b \in Boards, ForwardToken(b)
      PROVE  TypeOK'
  <2>1. BoardsOK'
    BY <1>11, <1>0 DEF ForwardToken, ColourForwarded, BoardsOK
  <2>2. TokensOK'
    BY <1>11, <1>0, ReplyType DEF ForwardToken
  <2>3. UNCHANGED <<thrVars, msgVars, coreVars, probeVars, localVars>>
    BY <1>11 DEF ForwardToken
  <2>4. QED
    BY <2>1, <2>2, <2>3, <1>0, TypeFrame, TypeParts
<1>12. ASSUME NEW b \in Boards, DetectedStage1(b)
      PROVE  TypeOK'
  <2>1. Head(tokenIn[b]).vote \in BOOLEAN
    <3>1. Head(tokenIn[b]) \in Token
      BY <1>12, <1>0 DEF DetectedStage1, TokensOK
    <3>2. QED
      BY <3>1 DEF Token
  <2>2. CoresOK'
    BY <1>12, <1>0, <2>1 DEF DetectedStage1, CoresOK
  <2>3. BoardsOK'
    BY <1>12, <1>0 DEF DetectedStage1, BoardsOK
  <2>4. UNCHANGED <<thrVars, msgVars, tokVars, probeVars, localVars>>
    BY <1>12 DEF DetectedStage1
  <2>5. QED
    BY <2>1, <2>2, <2>3, <2>4, <1>0, TypeFrame, TypeParts
<1>13. ASSUME NEW b \in Boards, EndBarrier(b)
      PROVE  TypeOK'
  <2>1. BoardsOK'
    BY <1>13, <1>0 DEF EndBarrier, BoardsOK
  <2>2. TokensOK'
    BY <1>13, <1>0, ReplyType DEF EndBarrier
  <2>3. UNCHANGED <<thrVars, msgVars, coreVars, probeVars, localVars>>
    BY <1>13 DEF EndBarrier
  <2>4. QED
    BY <2>1, <2>2, <2>3, <1>0, TypeFrame, TypeParts
<1>14. CASE Probe
  <2>1. TokensOK'
    <3> DEFINE tok == [done |-> mstate # 0, stage1 |-> mstate = 1,
                       vote |-> currentVote, black |-> FALSE, count |-> 0]
    <3>1. tok \in Token
      BY <1>0 DEF MasterOK, FlagsOK, Token
    <3>2. toBoard' = [toBoard EXCEPT ![board] = Append(@, tok)]
      BY <1>14 DEF Probe
    <3> HIDE DEF tok
    <3>3. QED
      BY <3>1, <3>2, <1>0, <1>14 DEF Probe, TokensOK, MasterOK
  <2>2. MasterOK'
    <3>1. FlagsOK'
      <4>1. FlagsOK
        BY <1>0 DEF MasterOK
      <4>2. QED
        BY <4>1, <1>14 DEF Probe, FlagsOK
    <3>2. board' \in Boards
      BY <1>14, <1>0, BoardsFinite DEF Probe, MasterOK, Boards
    <3>3. QED
      BY <3>1, <3>2, <1>14, <1>0 DEF Probe, MasterOK
  <2>3. UNCHANGED <<thrVars, msgVars, coreVars, boardVars, localVars>>
    BY <1>14 DEF Probe
  <2>4. QED
    BY <2>1, <2>2, <2>3, <1>0, TypeFrame, TypeParts
<1>15. ASSUME NEW ins \in OneOrNone(Threads), NEW outs \in OneOrNone(Boards),
               HostMsgs(ins, outs)
      PROVE  TypeOK'
  <2>1. MessagesOK' /\ localCount' \in Int
    BY <1>15, <1>0, HostTrafficType DEF HostMsgs
  <2>2. LocalOK'
    BY <1>15, <1>0, <2>1 DEF HostMsgs, LocalOK
  <2>3. UNCHANGED <<thrVars, coreVars, boardVars, tokVars, probeVars>>
    BY <1>15 DEF HostMsgs
  <2>4. QED
    BY <2>1, <2>2, <2>3, <1>0, TypeFrame, TypeParts
<1>16. ASSUME NEW ins \in OneOrNone(Threads), NEW outs \in OneOrNone(Boards),
               NEW b \in Boards, Response(b, ins, outs)
      PROVE  TypeOK'
  <2>1. Head(toMaster[b]).count \in Int /\ Head(toMaster[b]).vote \in BOOLEAN
          /\ Head(toMaster[b]).black \in BOOLEAN
    <3>1. Head(toMaster[b]) \in Token
      BY <1>16, <1>0 DEF Response, TokensOK
    <3>2. QED
      BY <3>1 DEF Token
  <2>2. MessagesOK' /\ localCount' \in Int
    BY <1>16, <1>0, HostTrafficType DEF Response
  <2>3. LocalOK'
    BY <1>16, <1>0, <2>2 DEF Response, LocalOK
  <2>4. TokensOK'
    BY <1>16, <1>0 DEF Response, TokensOK
  <2>5. MasterOK'
    <3>1. FlagsOK'
      <4>1. FlagsOK
        BY <1>0 DEF MasterOK
      <4>2. /\ UNCHANGED <<probeSent, currentVote, disableHostMsgsReg>>
            /\ \/ nextVote' = (nextVote /\ Head(toMaster[b]).vote)
               \/ nextVote' = nextVote
            /\ \/ anyBlack' = (anyBlack \/ Head(toMaster[b]).black)
               \/ anyBlack' = anyBlack
        BY <1>16, Zenon DEF Response
      <4>3. QED
        BY <2>1, <4>1, <4>2, Zenon DEF FlagsOK
    <3>2. /\ totalCount' \in Int /\ respCount' \in 0 .. NumBoards - 1
          /\ UNCHANGED <<mstate, board>>
      BY <1>16, <1>0, <2>1, BoardsFinite DEF Response, MasterOK, IsLast
    <3>3. QED
      BY <3>1, <3>2, <1>0 DEF MasterOK
  <2>6. UNCHANGED <<thrVars, coreVars, boardVars>>
    BY <1>16 DEF Response
  <2>7. QED
    BY <2>1, <2>2, <2>3, <2>4, <2>5, <2>6, <1>0, TypeFrame, TypeParts
<1>17. ASSUME NEW ins \in OneOrNone(Threads), NEW outs \in OneOrNone(Boards),
               NEW b \in Boards, LastResponse(b, ins, outs)
      PROVE  TypeOK'
  <2>1. Head(toMaster[b]).count \in Int /\ Head(toMaster[b]).vote \in BOOLEAN
          /\ Head(toMaster[b]).black \in BOOLEAN
    <3>1. Head(toMaster[b]) \in Token
      BY <1>17, <1>0 DEF LastResponse, TokensOK
    <3>2. QED
      BY <3>1 DEF Token
  <2>2. MessagesOK' /\ localCount' \in Int
    BY <1>17, <1>0, HostTrafficType DEF LastResponse
  <2>3. LocalOK'
    BY <1>17, <1>0, <2>2 DEF LastResponse, LocalOK
  <2>4. TokensOK'
    BY <1>17, <1>0 DEF LastResponse, TokensOK
  <2>5. MasterOK'
    <3>1. mstate' \in 0 .. 2 /\ totalCount' \in Int
      <4>1. CASE mstate = 0
        BY <4>1, <1>17, <1>0 DEF LastResponse, MasterOK, LocalOK
      <4>2. CASE mstate # 0
        BY <4>2, <1>17, <1>0 DEF LastResponse, MasterOK
      <4>3. QED
        BY <4>1, <4>2
    <3>2. respCount' = 0 /\ board' = board
      BY <1>17 DEF LastResponse
    <3>3. FlagsOK'
      <4>1. Terminated(Head(toMaster[b])) \in BOOLEAN
        BY DEF Terminated
      <4>2. /\ probeSent' = FALSE
            /\ anyBlack' = FALSE \/ anyBlack' = anyBlack
            /\ nextVote' = TRUE \/ nextVote' = nextVote
            /\ \/ currentVote' = (nextVote /\ Head(toMaster[b]).vote)
               \/ currentVote' = currentVote
            /\ \/ disableHostMsgsReg' =
                    (disableHostMsgsReg \/ Terminated(Head(toMaster[b])))
               \/ disableHostMsgsReg' = disableHostMsgsReg
               \/ disableHostMsgsReg' = FALSE
        BY <1>17, Zenon DEF LastResponse
      <4>3. FlagsOK
        BY <1>0 DEF MasterOK
      <4>4. QED
        BY <2>1, <4>1, <4>2, <4>3, Zenon DEF FlagsOK
    <3>4. QED
      BY <3>1, <3>2, <3>3, <1>0, BoardsFinite DEF MasterOK
  <2>6. UNCHANGED <<thrVars, coreVars, boardVars>>
    BY <1>17 DEF LastResponse
  <2>7. QED
    BY <2>1, <2>2, <2>3, <2>4, <2>5, <2>6, <1>0, TypeFrame, TypeParts
<1>18. CASE UNCHANGED vars
  BY <1>18, <1>0, TypeFrame, TypeParts DEF vars
<1>19. QED
  BY <1>1, <1>2, <1>3, <1>4, <1>5, <1>6, <1>7, <1>8, <1>9, <1>10, <1>11, <1>12, <1>13, <1>14, <1>15, <1>16, <1>17, <1>18
     DEF Next, ThreadStep, BoardStep, BridgeStep

\* The initial values have their types.
LEMMA InitType == Init => TypeOK
<1> SUFFICES ASSUME Init PROVE TypeOK
  OBVIOUS
<1>1. ThreadsOK /\ CoresOK
  BY DEF Init, ThreadsOK, CoresOK
<1>2. MessagesOK
  BY DEF Init, MessagesOK, NetOK
<1>3. BoardsOK /\ TokensOK
  BY DEF Init, BoardsOK, TokensOK
<1>4. MasterOK /\ LocalOK
  <2>1. 0 \in 0 .. NumBoards - 1 /\ 0 \in Boards /\ 0 \in 0 .. 2
    BY BoardsFinite
  <2>2. FlagsOK /\ localBlack \in BOOLEAN
    BY Zenon DEF Init, FlagsOK
  <2>3. QED
    BY <2>1, <2>2 DEF Init, MasterOK, LocalOK
<1>5. QED
  BY <1>1, <1>2, <1>3, <1>4, TypeParts

\* Every register of the boards and of the master keeps its type in every
\* behaviour; in particular no count of messages becomes negative and the
\* number of answers of a round stays below the number of boards.
THEOREM Typing == Spec => []TypeOK
BY InitType, TypeStep, PTL DEF Spec

-----------------------------------------------------------------------------
(* Rounds of the master.  Which boards have answered is not recorded       *)
(* anywhere: it follows from where the tokens are.                         *)

\* The master has sent the token of this round to b.
Probed(b) == probeSent \/ b < board

\* No token of b is on its way or at the board.
Quiet(b) == toBoard[b] = <<>> /\ tokenIn[b] = <<>> /\ toMaster[b] = <<>>

\* The master has taken the answer of b.
Counted(b) == Probed(b) /\ Quiet(b)

\* The board has answered.
Answered(b) == Counted(b) \/ toMaster[b] # <<>>

\* A token belongs to the stage the master is in.
Stage(tok) == (tok.done <=> mstate # 0) /\ (tok.stage1 <=> mstate = 1)

TokenInv(b) ==
  /\ ~ Probed(b) => Quiet(b)
  /\ Len(toBoard[b]) + Len(tokenIn[b]) + Len(toMaster[b]) <= 1
  /\ toBoard[b] # <<>> =>
       Stage(Head(toBoard[b])) /\ Head(toBoard[b]).vote = currentVote
  /\ tokenIn[b] # <<>> =>
       Stage(Head(tokenIn[b])) /\ Head(tokenIn[b]).vote = currentVote
  /\ toMaster[b] # <<>> => Stage(Head(toMaster[b]))

RoundInv ==
  /\ probeSent => board = 0
  /\ \A b \in Boards : TokenInv(b)
  /\ respCount = Cardinality({b \in Boards : Counted(b)})

\* At most one token: the queues of a board are empty but for one.
LEMMA QueueFacts ==
  ASSUME TokensOK, RoundInv, NEW b \in Boards
  PROVE  /\ toBoard[b] \in Seq(Token) /\ tokenIn[b] \in Seq(Token)
         /\ toMaster[b] \in Seq(Token)
         /\ toBoard[b] # <<>> => /\ tokenIn[b] = <<>> /\ toMaster[b] = <<>>
                                 /\ Tail(toBoard[b]) = <<>>
         /\ tokenIn[b] # <<>> => /\ toBoard[b] = <<>> /\ toMaster[b] = <<>>
                                 /\ Tail(tokenIn[b]) = <<>>
         /\ toMaster[b] # <<>> => /\ toBoard[b] = <<>> /\ tokenIn[b] = <<>>
                                  /\ Tail(toMaster[b]) = <<>>
<1>1. /\ toBoard[b] \in Seq(Token) /\ tokenIn[b] \in Seq(Token)
      /\ toMaster[b] \in Seq(Token)
  BY DEF TokensOK
<1>2. Len(toBoard[b]) + Len(tokenIn[b]) + Len(toMaster[b]) <= 1
  BY DEF RoundInv, TokenInv
<1>3. ASSUME NEW q \in Seq(Token)
      PROVE  /\ Len(q) \in Nat
             /\ q = <<>> <=> Len(q) = 0
             /\ Len(q) = 1 => Tail(q) = <<>>
  <2>1. Len(q) \in Nat /\ (q = <<>> <=> Len(q) = 0)
    BY EmptySeq
  <2>2. ASSUME Len(q) = 1 PROVE Tail(q) = <<>>
    <3>1. q # <<>>
      BY <2>1, <2>2
    <3>2. Tail(q) \in Seq(Token) /\ Len(Tail(q)) = 0
      BY <2>2, <3>1, HeadTailProperties
    <3>3. QED
      BY <3>2, EmptySeq
  <2>3. QED
    BY <2>1, <2>2
<1> DEFINE p == toBoard[b]
           q == tokenIn[b]
           r == toMaster[b]
<1>4. /\ Len(p) \in Nat /\ (p = <<>> <=> Len(p) = 0) /\ (Len(p) = 1 => Tail(p) = <<>>)
      /\ Len(q) \in Nat /\ (q = <<>> <=> Len(q) = 0) /\ (Len(q) = 1 => Tail(q) = <<>>)
      /\ Len(r) \in Nat /\ (r = <<>> <=> Len(r) = 0) /\ (Len(r) = 1 => Tail(r) = <<>>)
  BY <1>1, <1>3
<1>5. Len(p) + Len(q) + Len(r) <= 1
  BY <1>2
<1>6. /\ p # <<>> => q = <<>> /\ r = <<>> /\ Tail(p) = <<>>
      /\ q # <<>> => p = <<>> /\ r = <<>> /\ Tail(q) = <<>>
      /\ r # <<>> => p = <<>> /\ q = <<>> /\ Tail(r) = <<>>
  <2> HIDE DEF p, q, r
  <2>1. QED
    BY <1>4, <1>5
<1>7. QED
  BY <1>1, <1>6

\* What entering an empty queue does.
LEMMA AppendToEmpty ==
  ASSUME NEW S, NEW x \in S
  PROVE  /\ Append(<<>>, x) # <<>> /\ Head(Append(<<>>, x)) = x
         /\ Len(Append(<<>>, x)) = 1
OBVIOUS

\* A token arrives at a board: it changes queue.
LEMMA ArriveEffect ==
  ASSUME TokensOK, RoundInv, NEW b \in Boards, TokenArrives(b)
  PROVE  /\ toBoard[b] # <<>> /\ tokenIn[b] = <<>> /\ toMaster[b] = <<>>
         /\ toBoard'[b] = <<>> /\ tokenIn'[b] # <<>>
         /\ Head(tokenIn'[b]) = Head(toBoard[b]) /\ Len(tokenIn'[b]) = 1
         /\ toMaster' = toMaster
         /\ \A a \in Boards \ {b} : toBoard'[a] = toBoard[a] /\ tokenIn'[a] = tokenIn[a]
<1>1. /\ toBoard[b] # <<>> /\ tokenIn[b] = <<>> /\ toMaster[b] = <<>>
      /\ Tail(toBoard[b]) = <<>> /\ Head(toBoard[b]) \in Token
  BY QueueFacts DEF TokenArrives
<1>2. /\ toBoard' = [toBoard EXCEPT ![b] = Tail(toBoard[b])]
      /\ tokenIn' = [tokenIn EXCEPT ![b] = Append(tokenIn[b], Head(toBoard[b]))]
      /\ toMaster' = toMaster
  BY DEF TokenArrives
<1>3. tokenIn'[b] = Append(<<>>, Head(toBoard[b])) /\ toBoard'[b] = <<>>
  BY <1>1, <1>2 DEF TokensOK
<1>4. QED
  BY <1>1, <1>2, <1>3, AppendToEmpty DEF TokensOK

\* A board answers: its token becomes an answer with the fields it has now.
LEMMA ReplyEffect ==
  ASSUME TokensOK, BoardsOK, RoundInv, NEW b \in Boards, tokenIn[b] # <<>>,
         Reply(b), toBoard' = toBoard
  PROVE  /\ toBoard[b] = <<>> /\ toMaster[b] = <<>>
         /\ tokenIn'[b] = <<>> /\ toMaster'[b] # <<>> /\ Len(toMaster'[b]) = 1
         /\ Head(toMaster'[b]) =
              [done |-> Head(tokenIn[b]).done, stage1 |-> Head(tokenIn[b]).stage1,
               vote |-> Vote(b), black |-> black[b], count |-> count[b]]
         /\ \A a \in Boards \ {b} : toMaster'[a] = toMaster[a] /\ tokenIn'[a] = tokenIn[a]
<1> DEFINE out == [done |-> Head(tokenIn[b]).done, stage1 |-> Head(tokenIn[b]).stage1,
                   vote |-> Vote(b), black |-> black[b], count |-> count[b]]
<1>1. /\ toBoard[b] = <<>> /\ toMaster[b] = <<>> /\ Tail(tokenIn[b]) = <<>>
  BY QueueFacts
<1>2. /\ tokenIn' = [tokenIn EXCEPT ![b] = Tail(tokenIn[b])]
      /\ toMaster' = [toMaster EXCEPT ![b] = Append(toMaster[b], out)]
  BY DEF Reply
<1> HIDE DEF out
<1>3. toMaster'[b] = Append(<<>>, out) /\ tokenIn'[b] = <<>>
  BY <1>1, <1>2 DEF TokensOK
<1>4. toMaster'[b] # <<>> /\ Head(toMaster'[b]) = out /\ Len(toMaster'[b]) = 1
  BY <1>3, out \in {out}, AppendToEmpty
<1>5. \A a \in Boards \ {b} : toMaster'[a] = toMaster[a] /\ tokenIn'[a] = tokenIn[a]
  BY <1>2 DEF TokensOK
<1>6. QED
  BY <1>1, <1>3, <1>4, <1>5 DEF out

\* The master probes a board: its token is sent.
LEMMA ProbeEffect ==
  ASSUME TokensOK, MasterOK, RoundInv, Probe
  PROVE  /\ ~ probeSent /\ board \in Boards
         /\ Quiet(board)
         /\ toBoard'[board] # <<>> /\ Len(toBoard'[board]) = 1
         /\ Head(toBoard'[board]) =
              [done |-> mstate # 0, stage1 |-> mstate = 1,
               vote |-> currentVote, black |-> FALSE, count |-> 0]
         /\ \A a \in Boards \ {board} : toBoard'[a] = toBoard[a]
         /\ UNCHANGED <<tokenIn, toMaster>>
<1> DEFINE tok == [done |-> mstate # 0, stage1 |-> mstate = 1,
                   vote |-> currentVote, black |-> FALSE, count |-> 0]
<1>1. ~ probeSent /\ board \in Boards
  BY DEF Probe, MasterOK
<1>2. Quiet(board)
  <2>1. ~ Probed(board)
    BY <1>1, BoardsFinite DEF Probed
  <2>2. QED
    BY <1>1, <2>1 DEF RoundInv, TokenInv
<1>3. toBoard' = [toBoard EXCEPT ![board] = Append(toBoard[board], tok)]
  BY DEF Probe
<1> HIDE DEF tok
<1>4. toBoard'[board] = Append(<<>>, tok)
  BY <1>1, <1>2, <1>3 DEF TokensOK, Quiet
<1>5. toBoard'[board] # <<>> /\ Head(toBoard'[board]) = tok /\ Len(toBoard'[board]) = 1
  BY <1>4, tok \in {tok}, AppendToEmpty
<1>6. /\ \A a \in Boards \ {board} : toBoard'[a] = toBoard[a]
      /\ UNCHANGED <<tokenIn, toMaster>>
  BY <1>1, <1>3 DEF Probe, TokensOK
<1>7. QED
  BY <1>1, <1>2, <1>5, <1>6 DEF tok

\* The master takes an answer.
LEMMA TakeEffect ==
  ASSUME TokensOK, RoundInv, NEW b \in Boards, toMaster[b] # <<>>,
         toMaster' = [toMaster EXCEPT ![b] = Tail(@)],
         UNCHANGED <<toBoard, tokenIn>>
  PROVE  /\ toBoard[b] = <<>> /\ tokenIn[b] = <<>>
         /\ Quiet(b)' /\ ~ Quiet(b)
         /\ Probed(b)
         /\ \A a \in Boards \ {b} : toMaster'[a] = toMaster[a]
<1>1. toBoard[b] = <<>> /\ tokenIn[b] = <<>> /\ Tail(toMaster[b]) = <<>>
  BY QueueFacts
<1>2. Quiet(b)' /\ ~ Quiet(b)
  BY <1>1 DEF Quiet, TokensOK
<1>3. Probed(b)
  BY <1>2 DEF RoundInv, TokenInv
<1>4. QED
  BY <1>1, <1>2, <1>3 DEF TokensOK

\* The last answer of a round comes when every other board is counted.
LEMMA LastEffect ==
  ASSUME TokensOK, MasterOK, RoundInv, NEW b \in Boards, toMaster[b] # <<>>,
         IsLast
  PROVE  /\ \A a \in Boards \ {b} : Counted(a)
         /\ probeSent /\ board = 0
<1> DEFINE C == {a \in Boards : Counted(a)}
<1>1. b \notin C /\ Probed(b)
  BY DEF Counted, Quiet, RoundInv, TokenInv
<1>2. Cardinality(C) = NumBoards - 1
  BY DEF RoundInv, IsLast
<1>3. C \subseteq Boards \ {b}
  BY <1>1
<1>4. IsFiniteSet(Boards \ {b}) /\ Cardinality(Boards \ {b}) = NumBoards - 1
  BY BoardsFinite, FS_RemoveElement
<1>5. C = Boards \ {b}
  BY <1>2, <1>3, <1>4, FS_Subset
<1>6. \A a \in Boards : Probed(a)
  BY <1>1, <1>5 DEF Counted
<1>7. probeSent
  BY <1>6, BoardsFinite DEF Probed, MasterOK, Boards
<1>8. QED
  BY <1>5, <1>7 DEF RoundInv

\* A step that leaves the tokens and the master alone leaves the round alone.
LEMMA RoundFrame ==
  ASSUME UNCHANGED <<tokVars, probeVars>>
  PROVE  /\ RoundInv => RoundInv'
         /\ \A b \in Boards : /\ Counted(b)' <=> Counted(b)
                              /\ Answered(b)' <=> Answered(b)
BY DEF RoundInv, TokenInv, Stage, Counted, Answered, Probed, Quiet, tokVars,
       probeVars

\* When tokens move but no answer is given or taken, the same boards have
\* answered and the same boards have been counted.
LEMMA ArriveRound ==
  ASSUME TokensOK, RoundInv, NEW b \in Boards, TokenArrives(b)
  PROVE  /\ RoundInv'
         /\ \A a \in Boards : /\ Counted(a)' <=> Counted(a)
                              /\ Answered(a)' <=> Answered(a)
<1>1. /\ toBoard[b] # <<>> /\ tokenIn[b] = <<>> /\ toMaster[b] = <<>>
      /\ toBoard'[b] = <<>> /\ tokenIn'[b] # <<>>
      /\ Head(tokenIn'[b]) = Head(toBoard[b]) /\ Len(tokenIn'[b]) = 1
      /\ toMaster' = toMaster
      /\ \A a \in Boards \ {b} : toBoard'[a] = toBoard[a] /\ tokenIn'[a] = tokenIn[a]
  BY ArriveEffect
<1>2. UNCHANGED <<mstate, board, probeSent, respCount, currentVote>>
  BY DEF TokenArrives, probeVars
<1>3. \A a \in Boards : Probed(a)' <=> Probed(a)
  BY <1>2 DEF Probed
<1>4. \A a \in Boards : Counted(a)' <=> Counted(a)
  BY <1>1, <1>3 DEF Counted, Quiet
<1>5. \A a \in Boards : Answered(a)' <=> Answered(a)
  BY <1>1, <1>4 DEF Answered
<1>6. TokenInv(b)'
  <2>1. TokenInv(b)
    BY DEF RoundInv
  <2>2. Probed(b)
    BY <1>1, <2>1 DEF TokenInv, Quiet
  <2>3. Len(<<>>) = 0
    OBVIOUS
  <2>4. QED
    BY <1>1, <1>2, <1>3, <2>1, <2>2, <2>3 DEF TokenInv, Stage
<1>7. ASSUME NEW a \in Boards \ {b} PROVE TokenInv(a)'
  BY <1>1, <1>2, <1>3 DEF RoundInv, TokenInv, Stage, Quiet
<1>8. respCount' = Cardinality({a \in Boards : Counted(a)'})
  BY <1>2, <1>4 DEF RoundInv
<1>9. QED
  BY <1>2, <1>4, <1>5, <1>6, <1>7, <1>8 DEF RoundInv

\* An answer is given.
LEMMA ReplyRound ==
  ASSUME TokensOK, BoardsOK, RoundInv, NEW b \in Boards, tokenIn[b] # <<>>,
         Reply(b), UNCHANGED <<toBoard, probeVars>>
  PROVE  /\ RoundInv'
         /\ ~ Answered(b) /\ Answered(b)'
         /\ \A a \in Boards : Counted(a)' <=> Counted(a)
         /\ \A a \in Boards \ {b} : Answered(a)' <=> Answered(a)
<1>1. /\ toBoard[b] = <<>> /\ toMaster[b] = <<>>
      /\ tokenIn'[b] = <<>> /\ toMaster'[b] # <<>> /\ Len(toMaster'[b]) = 1
      /\ Head(toMaster'[b]) =
           [done |-> Head(tokenIn[b]).done, stage1 |-> Head(tokenIn[b]).stage1,
            vote |-> Vote(b), black |-> black[b], count |-> count[b]]
      /\ \A a \in Boards \ {b} : toMaster'[a] = toMaster[a] /\ tokenIn'[a] = tokenIn[a]
  BY ReplyEffect
<1>2. UNCHANGED <<mstate, board, probeSent, respCount, currentVote, toBoard>>
  BY DEF probeVars
<1>3. \A a \in Boards : Probed(a)' <=> Probed(a)
  BY <1>2 DEF Probed
<1>4. \A a \in Boards : Counted(a)' <=> Counted(a)
  BY <1>1, <1>2, <1>3 DEF Counted, Quiet
<1>5. ~ Answered(b) /\ Answered(b)' /\ \A a \in Boards \ {b} : Answered(a)' <=> Answered(a)
  BY <1>1, <1>4 DEF Answered, Counted, Quiet
<1>6. TokenInv(b)'
  <2>1. TokenInv(b)
    BY DEF RoundInv
  <2>2. Probed(b)
    BY <2>1 DEF TokenInv, Quiet
  <2>3. Len(<<>>) = 0
    OBVIOUS
  <2>4. Stage(Head(toMaster[b]))'
    BY <1>1, <1>2, <2>1 DEF TokenInv, Stage
  <2>5. QED
    BY <1>1, <1>2, <1>3, <2>2, <2>3, <2>4 DEF TokenInv
<1>7. ASSUME NEW a \in Boards \ {b} PROVE TokenInv(a)'
  BY <1>1, <1>2, <1>3 DEF RoundInv, TokenInv, Stage, Quiet
<1>8. respCount' = Cardinality({a \in Boards : Counted(a)'})
  BY <1>2, <1>4 DEF RoundInv
<1>9. QED
  BY <1>2, <1>4, <1>5, <1>6, <1>7, <1>8 DEF RoundInv

\* A board is probed.
LEMMA ProbeRound ==
  ASSUME TokensOK, MasterOK, RoundInv, Probe
  PROVE  /\ RoundInv'
         /\ \A a \in Boards : /\ Counted(a)' <=> Counted(a)
                              /\ Answered(a)' <=> Answered(a)
<1>0. PICK p \in Boards : p = board
  BY DEF MasterOK
<1>1. /\ ~ probeSent
      /\ Quiet(p)
      /\ toBoard'[p] # <<>> /\ Len(toBoard'[p]) = 1
      /\ Head(toBoard'[p]) =
           [done |-> mstate # 0, stage1 |-> mstate = 1,
            vote |-> currentVote, black |-> FALSE, count |-> 0]
      /\ \A a \in Boards \ {p} : toBoard'[a] = toBoard[a]
      /\ UNCHANGED <<tokenIn, toMaster>>
  BY <1>0, ProbeEffect
<1>2. /\ UNCHANGED <<mstate, respCount, currentVote>>
      /\ board' = IF p = NumBoards - 1 THEN 0 ELSE p + 1
      /\ probeSent' <=> p = NumBoards - 1
  BY <1>0 DEF Probe
<1>3. \A a \in Boards : Probed(a)' <=> Probed(a) \/ a = p
  BY <1>0, <1>1, <1>2, BoardsFinite DEF Probed, Boards
<1>4. /\ ~ Counted(p) /\ ~ Counted(p)'
      /\ ~ Answered(p) /\ ~ Answered(p)'
  <2>1. ~ Probed(p)
    BY <1>0, <1>1, BoardsFinite DEF Probed
  <2>2. QED
    BY <2>1, <1>1 DEF Counted, Quiet, Answered
<1>5. \A a \in Boards \ {p} : /\ Counted(a)' <=> Counted(a)
                              /\ Answered(a)' <=> Answered(a)
  BY <1>1, <1>3 DEF Counted, Quiet, Answered
<1>6. TokenInv(p)'
  <2>1. Probed(p)'
    BY <1>3
  <2>2. Len(<<>>) = 0
    OBVIOUS
  <2>3. Stage(Head(toBoard[p]))' /\ Head(toBoard'[p]).vote = currentVote'
    <3> DEFINE tok == Head(toBoard'[p])
    <3>1. tok.done = (mstate # 0) /\ tok.stage1 = (mstate = 1) /\ tok.vote = currentVote
      BY <1>1
    <3>2. (tok.done <=> mstate # 0) /\ (tok.stage1 <=> mstate = 1)
      BY <3>1, Zenon
    <3>3. QED
      BY <3>1, <3>2, <1>2 DEF Stage
  <2>4. toBoard'[p] # <<>> /\ Len(toBoard'[p]) = 1 /\ tokenIn'[p] = <<>> /\ toMaster'[p] = <<>>
    BY <1>1 DEF Quiet
  <2>5. QED
    BY <2>1, <2>2, <2>3, <2>4 DEF TokenInv
<1>7. ASSUME NEW a \in Boards \ {p} PROVE TokenInv(a)'
  BY <1>1, <1>2, <1>3 DEF RoundInv, TokenInv, Stage, Quiet
<1>8. respCount' = Cardinality({a \in Boards : Counted(a)'})
  <2>1. \A a \in Boards : Counted(a)' <=> Counted(a)
    BY <1>4, <1>5
  <2>2. QED
    BY <1>2, <2>1 DEF RoundInv
<1>9. probeSent' => board' = 0
  BY <1>2
<1>10. QED
  BY <1>4, <1>5, <1>6, <1>7, <1>8, <1>9 DEF RoundInv

\* An answer that is not the last of the round is counted.
LEMMA TakeRound ==
  ASSUME TokensOK, MasterOK, RoundInv, NEW b \in Boards, NEW ins, NEW outs,
         Response(b, ins, outs)
  PROVE  /\ RoundInv'
         /\ ~ Counted(b) /\ Counted(b)' /\ toMaster'[b] = <<>>
         /\ \A a \in Boards \ {b} : /\ Counted(a)' <=> Counted(a)
                                    /\ toMaster'[a] = toMaster[a]
         /\ \A a \in Boards : Answered(a)' <=> Answered(a)
<1>1. /\ toMaster[b] # <<>>
      /\ toMaster' = [toMaster EXCEPT ![b] = Tail(@)]
      /\ UNCHANGED <<toBoard, tokenIn, mstate, board, probeSent, currentVote>>
      /\ respCount' = respCount + 1
  BY DEF Response
<1>2. /\ Quiet(b)' /\ ~ Quiet(b) /\ Probed(b)
      /\ \A a \in Boards \ {b} : toMaster'[a] = toMaster[a]
  BY <1>1, TakeEffect
<1>3. \A a \in Boards : Probed(a)' <=> Probed(a)
  BY <1>1 DEF Probed
<1>4. /\ ~ Counted(b) /\ Counted(b)'
      /\ \A a \in Boards \ {b} : Counted(a)' <=> Counted(a)
  BY <1>1, <1>2, <1>3 DEF Counted, Quiet
<1>5. \A a \in Boards : Answered(a)' <=> Answered(a)
  BY <1>1, <1>2, <1>4 DEF Answered
<1>6. TokenInv(b)'
  <2>1. Len(<<>>) = 0
    OBVIOUS
  <2>2. QED
    BY <1>2, <1>3, <2>1 DEF TokenInv, Quiet
<1>7. ASSUME NEW a \in Boards \ {b} PROVE TokenInv(a)'
  BY <1>1, <1>2, <1>3 DEF RoundInv, TokenInv, Stage, Quiet
<1>8. respCount' = Cardinality({a \in Boards : Counted(a)'})
  <2> DEFINE C == {a \in Boards : Counted(a)}
  <2>1. {a \in Boards : Counted(a)'} = C \cup {b} /\ b \notin C
    BY <1>4
  <2>2. IsFiniteSet(C)
    BY BoardsFinite, FS_Subset
  <2>3. Cardinality(C \cup {b}) = Cardinality(C) + 1
    BY <2>1, <2>2, FS_AddElement
  <2>4. QED
    BY <1>1, <2>1, <2>3 DEF RoundInv
<1>9. QED
  BY <1>1, <1>2, <1>4, <1>5, <1>6, <1>7, <1>8 DEF RoundInv, Quiet

\* The last answer of a round: nothing is outstanding, and a round begins.
LEMMA LastRound ==
  ASSUME TokensOK, MasterOK, RoundInv, NEW b \in Boards, NEW ins, NEW outs,
         LastResponse(b, ins, outs)
  PROVE  /\ RoundInv'
         /\ \A a \in Boards \ {b} : Counted(a)
         /\ \A a \in Boards : /\ Answered(a)
                              /\ ~ Counted(a)' /\ ~ Answered(a)' /\ Quiet(a)'
<1>1. /\ toMaster[b] # <<>> /\ IsLast
      /\ toMaster' = [toMaster EXCEPT ![b] = Tail(@)]
      /\ UNCHANGED <<toBoard, tokenIn, board>>
      /\ probeSent' = FALSE /\ respCount' = 0
  BY DEF LastResponse
<1>2. /\ Quiet(b)' /\ ~ Quiet(b) /\ Probed(b)
      /\ \A a \in Boards \ {b} : toMaster'[a] = toMaster[a]
  BY <1>1, TakeEffect
<1>3. (\A a \in Boards \ {b} : Counted(a)) /\ board = 0
  BY <1>1, LastEffect
<1>4. \A a \in Boards : ~ Probed(a)' /\ Quiet(a)'
  BY <1>1, <1>2, <1>3, BoardsFinite DEF Probed, Quiet, Counted
<1>5. \A a \in Boards : /\ Answered(a)
                        /\ ~ Counted(a)' /\ ~ Answered(a)'
  BY <1>1, <1>3, <1>4 DEF Counted, Answered, Quiet
<1>6. ASSUME NEW a \in Boards PROVE TokenInv(a)'
  <2>1. Len(<<>>) = 0
    OBVIOUS
  <2>2. toBoard'[a] = <<>> /\ tokenIn'[a] = <<>> /\ toMaster'[a] = <<>>
    BY <1>4 DEF Quiet
  <2>3. QED
    BY <2>1, <2>2 DEF TokenInv, Quiet
<1>7. respCount' = Cardinality({a \in Boards : Counted(a)'})
  <2>1. {a \in Boards : Counted(a)'} = {}
    BY <1>5
  <2>2. QED
    BY <1>1, <2>1, FS_EmptySet
<1>8. QED
  BY <1>1, <1>3, <1>4, <1>5, <1>6, <1>7 DEF RoundInv

\* Before the first probe no board has been asked.
LEMMA RoundInit == Init => RoundInv /\ \A b \in Boards : ~ Answered(b)
<1> SUFFICES ASSUME Init PROVE RoundInv /\ \A b \in Boards : ~ Answered(b)
  OBVIOUS
<1>1. \A b \in Boards : ~ Probed(b) /\ Quiet(b)
  BY BoardsFinite DEF Init, Probed, Quiet
<1>2. Len(<<>>) = 0
  OBVIOUS
<1>3. ASSUME NEW b \in Boards
      PROVE  TokenInv(b) /\ ~ Counted(b) /\ ~ Answered(b)
  <2>1. toBoard[b] = <<>> /\ tokenIn[b] = <<>> /\ toMaster[b] = <<>> /\ ~ Probed(b)
    BY <1>1 DEF Quiet
  <2>2. QED
    BY <1>2, <2>1 DEF TokenInv, Counted, Quiet, Answered
<1>4. respCount = Cardinality({a \in Boards : Counted(a)})
  <2>1. {a \in Boards : Counted(a)} = {}
    BY <1>3
  <2>2. respCount = 0
    BY DEF Init
  <2>3. QED
    BY <2>1, <2>2, FS_EmptySet
<1>5. QED
  BY <1>3, <1>4 DEF RoundInv, Init
-----------------------------------------------------------------------------
(* The barrier.  In stage 1 of the master a board is in state 0 until the  *)
(* token is there, in state 1 until all its cores have acknowledged, and   *)
(* then in state 2; in stage 2 it returns to state 0.                      *)

BoardInv(b) ==
  /\ mstate = 0 => state[b] = 0
  /\ mstate = 1 /\ Answered(b) => state[b] = 2
  /\ mstate = 1 /\ ~ Answered(b) => state[b] = 0 \/ state[b] = 1
  /\ mstate = 2 /\ Answered(b) => state[b] = 0
  /\ mstate = 2 /\ ~ Answered(b) => state[b] = 2
  /\ state[b] = 1 => tokenIn[b] # <<>>
  /\ released[b] => mstate = 2 /\ state[b] = 2
  /\ mstate = 2 /\ tokenIn[b] # <<>> => released[b]

\* The cores of b that have acknowledged, when b is in state 1.
Acked(b) == {c \in CoresOn(b) : ~ idleStage1Reg[c]}

AckInv(b) ==
  /\ state[b] # 1 => numAcks[b] = 0
  /\ state[b] = 1 => /\ numAcks[b] = Cardinality(Acked(b))
                     /\ \E c \in CoresOn(b) : idleStage1Reg[c]

CoreInv(c) ==
  /\ idleStage1Reg[c] =>
       state[BoardOf[c]] = 1 /\ voteStage1Reg[c] = currentVote
  /\ idleDetected[c] <=>
       \/ state[BoardOf[c]] = 1
       \/ state[BoardOf[c]] = 2 /\ ~ released[BoardOf[c]]

StageInv ==
  /\ \A b \in Boards : BoardInv(b) /\ AckInv(b)
  /\ \A c \in Cores : CoreInv(c)

ThreadInv(t) ==
  /\ state[Home(t)] = 0 => idle[t]
  /\ state[Home(t)] = 2 => ~ idle[t]
  /\ state[Home(t)] = 1 /\ ~ idleStage1Reg[CoreOf[t]] => ~ idle[t]

\* In stage 1 nothing moves but the threads that come out of tinselIdle.
FrozenInv ==
  mstate = 1 =>
    /\ NoMessages
    /\ \A t \in Threads : ThreadInv(t)
    /\ \A t, u \in Threads : phase[t] = phase[u] <=> idle[t] = idle[u]
    /\ currentVote <=> \A t \in Threads : voted[t]

BarrierInv ==
  /\ mstate # 0 => disableHostMsgsReg
  /\ FrozenInv
  /\ mstate # 1 => \A t, u \in Threads : phase[t] = phase[u]

\* A board is white only while all its threads are in tinselIdle, and black
\* once they have come out of a barrier.
ColourInv ==
  /\ \A t \in Threads : ~ black[Home(t)] => idle[t]
  /\ mstate = 1 => \A b \in Boards : state[b] = 2 => black[b]
  /\ mstate = 2 => \A b \in Boards : black[b]

\* The cores of a board are finitely many, and there is one.
LEMMA CoresOnBoard ==
  ASSUME NEW b \in Boards
  PROVE  IsFiniteSet(CoresOn(b)) /\ \E c \in Cores : c \in CoresOn(b)
<1>1. CoresOn(b) \subseteq Cores /\ IsFiniteSet(Cores)
  BY ShapeAssumption DEF CoresOn
<1>2. PICK c \in Cores : BoardOf[c] = b
  BY ShapeAssumption
<1>3. QED
  BY <1>1, <1>2, FS_Subset DEF CoresOn

\* A core has acknowledged when none of its threads is in tinselIdle.
LEMMA NoneIdle ==
  ASSUME NEW c \in Cores, NumIdleWaiters(c) = 0
  PROVE  \A t \in Threads : CoreOf[t] = c => ~ idle[t]
<1> DEFINE W == {t \in Threads : CoreOf[t] = c /\ idle[t]}
<1>1. IsFiniteSet(W)
  BY ShapeAssumption, FS_Subset
<1>2. Cardinality(W) = 0
  BY DEF NumIdleWaiters
<1>3. W = {}
  BY <1>1, <1>2, FS_EmptySet
<1>4. QED
  BY <1>3

\* A board is inactive when all its threads are in tinselIdle.
LEMMA AllIdleOn ==
  ASSUME NEW b \in Boards, ~ Active(b)
  PROVE  \A t \in Threads : Home(t) = b => idle[t]
<1> SUFFICES ASSUME NEW t \in Threads, Home(t) = b PROVE idle[t]
  OBVIOUS
<1> DEFINE c == CoreOf[t]
           W == {u \in Threads : CoreOf[u] = c /\ idle[u]}
           A == {u \in Threads : CoreOf[u] = c}
<1>1. c \in CoresOn(b)
  BY HomeType
<1>2. Cardinality(W) = Cardinality(A)
  BY <1>1 DEF Active, NumIdleWaiters, ThreadsOn
<1>3. IsFiniteSet(A) /\ W \subseteq A
  BY ShapeAssumption, FS_Subset
<1>4. W = A
  BY <1>2, <1>3, FS_Subset
<1>5. QED
  BY <1>4

\* In stage 1 messaging is disabled for every thread that is running.
LEMMA Stage1Disabled ==
  ASSUME StageInv, BarrierInv, BoardsOK, mstate = 1, NEW t \in Threads, Running(t)
  PROVE  idleDetected[CoreOf[t]]
<1>1. /\ Home(t) \in Boards /\ CoreOf[t] \in Cores
      /\ BoardOf[CoreOf[t]] = Home(t)
  BY HomeType
<1>2. state[Home(t)] # 0
  BY DEF BarrierInv, FrozenInv, ThreadInv, Running
<1>3. ~ released[Home(t)]
  BY <1>1 DEF StageInv, BoardInv
<1>4. state[Home(t)] \in 0 .. 2
  BY <1>1 DEF BoardsOK
<1>5. QED
  BY <1>1, <1>2, <1>3, <1>4 DEF StageInv, CoreInv

\* In stage 1 no thread can send, receive, free or sleep, and the host
\* neither injects nor takes a message.
LEMMA Stage1Frozen ==
  ASSUME TypeOK, StageInv, BarrierInv, mstate = 1
  PROVE  /\ \A t \in Threads, d \in Threads \cup {Host} : ~ Send(t, d)
         /\ \A t \in Threads : ~ Recv(t) /\ ~ Free(t)
         /\ \A t \in Threads, vote \in Votes : ~ Sleep(t, vote)
         /\ \A s \in Boards \cup {Host}, t \in Threads : ~ Deliver(s, t)
         /\ \A b \in Boards : ~ FreeDone(b)
         /\ \A outs \in OneOrNone(Boards) : \A ins : HostTraffic(ins, outs) => outs = {}
         /\ disableHostMsgsReg
<1>0. BoardsOK
  BY TypeParts
<1>1. \A t \in Threads : Running(t) => idleDetected[CoreOf[t]]
  BY <1>0, Stage1Disabled
<1>2. NoMessages /\ disableHostMsgsReg
  BY DEF BarrierInv, FrozenInv
<1>3. \A t \in Threads, d \in Threads \cup {Host} : ~ Send(t, d)
  BY <1>1 DEF Send
<1>4. \A t \in Threads : ~ Recv(t) /\ ~ Free(t)
  BY <1>1, <1>2 DEF Recv, Free, NoMessages
<1>5. \A t \in Threads, vote \in Votes : ~ Sleep(t, vote)
  BY <1>1 DEF Sleep
<1>6. \A s \in Boards \cup {Host}, t \in Threads : ~ Deliver(s, t)
  BY <1>2 DEF Deliver, NoMessages
<1>7. \A b \in Boards : ~ FreeDone(b)
  BY <1>2 DEF FreeDone, NoMessages
<1>8. ASSUME NEW outs \in OneOrNone(Boards), NEW ins, HostTraffic(ins, outs)
      PROVE  outs = {}
  <2>1. outs \subseteq Boards
    BY OneOrNoneType
  <2>2. \A s \in outs : net[s][Host] > 0
    BY <1>8 DEF HostTraffic
  <2>3. \A s \in Boards : net[s][Host] = 0
    BY <1>2 DEF NoMessages
  <2>4. QED
    BY <2>1, <2>2, <2>3
<1>9. QED
  BY <1>2, <1>3, <1>4, <1>5, <1>6, <1>7, <1>8

-----------------------------------------------------------------------------
(* Every step preserves StageInv                                           *)

\* A step that leaves the cores, the states, the tokens and the master alone.
LEMMA StageFrame ==
  ASSUME StageInv,
         UNCHANGED <<coreVars, state, released, numAcks, tokVars, probeVars>>
  PROVE  StageInv'
<1>1. \A b \in Boards : Answered(b)' <=> Answered(b)
  BY RoundFrame
<1>2. ASSUME NEW b \in Boards PROVE BoardInv(b)' /\ AckInv(b)'
  <2>1. BoardInv(b)'
    BY <1>1 DEF StageInv, BoardInv, tokVars, probeVars
  <2>2. AckInv(b)'
    BY DEF StageInv, AckInv, Acked, coreVars
  <2>3. QED
    BY <2>1, <2>2
<1>3. ASSUME NEW c \in Cores PROVE CoreInv(c)'
  BY DEF StageInv, CoreInv, coreVars, probeVars
<1>4. QED
  BY <1>2, <1>3 DEF StageInv

\* Inter-board activity: it cannot come in stage 1, and where it comes in
\* stage 2 it only releases.
LEMMA ReleaseStage ==
  ASSUME StageInv, CoresOK, BoardsOK, MasterOK, NEW b \in Boards,
         NEW activity \in BOOLEAN,
         Release(b, activity), activity => mstate # 1,
         UNCHANGED <<idleStage1Reg, voteStage1Reg, state, numAcks, mstate, currentVote>>
  PROVE  /\ \A c \in Cores : CoreInv(c)'
         /\ \A a \in Boards : AckInv(a)'
         /\ \A a \in Boards : released'[a] => mstate = 2 /\ state[a] = 2
         /\ \A a \in Boards : released[a] => released'[a]
         /\ activity /\ state[b] = 2 => released'[b]
<1> DEFINE rel == activity /\ state[b] = 2 /\ ~ released[b]
<1>1. /\ released' = [released EXCEPT ![b] = @ \/ rel]
      /\ idleDetected' = [c \in Cores |->
                            idleDetected[c] /\ ~ (rel /\ BoardOf[c] = b)]
  BY DEF Release
<1>2. /\ \A a \in Boards \ {b} : released'[a] = released[a]
      /\ released'[b] <=> released[b] \/ rel
  BY <1>1 DEF BoardsOK
<1>3. rel => mstate = 2
  BY DEF StageInv, BoardInv, MasterOK
<1>4. \A a \in Boards : released'[a] => mstate = 2 /\ state[a] = 2
  BY <1>2, <1>3 DEF StageInv, BoardInv
<1>5. \A a \in Boards : released[a] => released'[a]
  BY <1>2
<1>6. activity /\ state[b] = 2 => released'[b]
  BY <1>2
<1>7. \A a \in Boards : AckInv(a)'
  BY DEF StageInv, AckInv, Acked
<1>8. ASSUME NEW c \in Cores PROVE CoreInv(c)'
  <2>1. BoardOf[c] \in Boards
    BY ShapeAssumption
  <2>2. idleDetected'[c] <=> idleDetected[c] /\ ~ (rel /\ BoardOf[c] = b)
    BY <1>1
  <2>3. CoreInv(c)
    BY DEF StageInv
  <2>4. CASE BoardOf[c] = b
    BY <1>2, <2>1, <2>2, <2>3, <2>4 DEF CoreInv
  <2>5. CASE BoardOf[c] # b
    BY <1>2, <2>1, <2>2, <2>3, <2>5 DEF CoreInv
  <2>6. QED
    BY <2>4, <2>5
<1>9. QED
  BY <1>4, <1>5, <1>6, <1>7, <1>8

\* Deliver and InterBoardActivity release a board, and no more.
LEMMA ReleaseOnlyStage ==
  ASSUME StageInv, CoresOK, BoardsOK, MasterOK, NEW b \in Boards,
         NEW activity \in BOOLEAN,
         Release(b, activity), activity => mstate # 1,
         UNCHANGED <<idleStage1Reg, voteStage1Reg, state, numAcks, tokVars, probeVars>>
  PROVE  StageInv'
<1>0. UNCHANGED <<mstate, currentVote>>
  BY DEF probeVars
<1>1. /\ \A c \in Cores : CoreInv(c)'
      /\ \A a \in Boards : AckInv(a)'
      /\ \A a \in Boards : released'[a] => mstate = 2 /\ state[a] = 2
      /\ \A a \in Boards : released[a] => released'[a]
  BY <1>0, ReleaseStage
<1>2. \A a \in Boards : Answered(a)' <=> Answered(a)
  BY RoundFrame
<1>3. ASSUME NEW a \in Boards PROVE BoardInv(a)'
  BY <1>0, <1>1, <1>2 DEF StageInv, BoardInv, tokVars
<1>4. QED
  BY <1>1, <1>3 DEF StageInv

LEMMA ActivityStage ==
  ASSUME TokensOK, RoundInv, StageInv, BarrierInv, CoresOK, BoardsOK, MasterOK,
         NEW b \in Boards, InterBoardActivity(b)
  PROVE  StageInv'
<1>1. mstate # 1
  <2> SUFFICES ASSUME mstate = 1 PROVE FALSE
    OBVIOUS
  <2>1. NoMessages
    BY DEF BarrierInv, FrozenInv
  <2>2. \A s \in Boards \cup {Host}, d \in Threads \cup {Host} : ~ (net[s][d] > 0)
    BY <2>1 DEF NoMessages
  <2>3. \A a \in Boards : /\ toBoard[a] # <<>> => ~ NotStage1(Head(toBoard[a]))
                          /\ toMaster[a] # <<>> => ~ NotStage1(Head(toMaster[a]))
    BY DEF RoundInv, TokenInv, Stage, NotStage1
  <2>4. QED
    BY <2>2, <2>3 DEF InterBoardActivity
<1>2. QED
  BY <1>1, ReleaseOnlyStage DEF InterBoardActivity

LEMMA DeliverStage ==
  ASSUME TypeOK, StageInv, BarrierInv, NEW s \in Boards \cup {Host},
         NEW t \in Threads, Deliver(s, t)
  PROVE  StageInv'
<1>1. mstate # 1
  BY Stage1Frozen
<1>2. Home(t) \in Boards /\ (s # Home(t)) \in BOOLEAN
  BY HomeType
<1>3. CoresOK /\ BoardsOK /\ MasterOK
  BY TypeParts
<1>4. /\ Release(Home(t), s # Home(t))
      /\ UNCHANGED <<idleStage1Reg, voteStage1Reg, state, numAcks, tokVars, probeVars>>
  BY DEF Deliver
<1>5. QED
  BY <1>1, <1>2, <1>3, <1>4, ReleaseOnlyStage

LEMMA ArriveStage ==
  ASSUME TokensOK, RoundInv, StageInv, CoresOK, BoardsOK, MasterOK,
         NEW b \in Boards, TokenArrives(b)
  PROVE  StageInv'
<1> DEFINE act == NotStage1(Head(toBoard[b]))
<1>1. /\ toBoard[b] # <<>> /\ tokenIn[b] = <<>> /\ toMaster[b] = <<>>
      /\ \A a \in Boards \ {b} : tokenIn'[a] = tokenIn[a]
  BY ArriveEffect
<1>2. \A a \in Boards : Answered(a)' <=> Answered(a)
  BY ArriveRound
<1>3. /\ Release(b, act)
      /\ UNCHANGED <<idleStage1Reg, voteStage1Reg, state, numAcks, mstate, currentVote>>
  BY DEF TokenArrives, probeVars
<1>4. act <=> mstate # 1
  BY <1>1 DEF RoundInv, TokenInv, Stage, NotStage1
<1>5. act \in BOOLEAN
  BY DEF NotStage1
<1> HIDE DEF act
<1>6. /\ \A c \in Cores : CoreInv(c)'
      /\ \A a \in Boards : AckInv(a)'
      /\ \A a \in Boards : released'[a] => mstate = 2 /\ state[a] = 2
      /\ \A a \in Boards : released[a] => released'[a]
      /\ act /\ state[b] = 2 => released'[b]
  BY <1>3, <1>4, <1>5, ReleaseStage
<1>7. BoardInv(b)'
  <2>1. ~ Answered(b) /\ BoardInv(b)
    BY <1>1 DEF Answered, Counted, Quiet, StageInv
  <2>2. tokenIn'[b] # <<>>
    BY ArriveEffect
  <2>3. mstate = 2 => released'[b]
    BY <1>4, <1>6, <2>1 DEF BoardInv
  <2>4. QED
    BY <1>2, <1>3, <1>6, <2>1, <2>2, <2>3 DEF BoardInv
<1>8. ASSUME NEW a \in Boards \ {b} PROVE BoardInv(a)'
  BY <1>1, <1>2, <1>3, <1>6 DEF StageInv, BoardInv
<1>9. QED
  BY <1>6, <1>7, <1>8 DEF StageInv

LEMMA ForwardStage ==
  ASSUME TokensOK, BoardsOK, RoundInv, StageInv, NEW b \in Boards, ForwardToken(b)
  PROVE  StageInv' /\ mstate = 0
<1>1. /\ tokenIn[b] # <<>> /\ ~ Head(tokenIn[b]).done /\ Reply(b)
      /\ UNCHANGED <<coreVars, state, released, numAcks, toBoard, probeVars>>
  BY DEF ForwardToken
<1>2. mstate = 0
  BY <1>1 DEF RoundInv, TokenInv, Stage
<1>3. UNCHANGED <<mstate, currentVote, idleStage1Reg, idleDetected, voteStage1Reg>>
  BY <1>1 DEF probeVars, coreVars
<1>4. \A a \in Boards \ {b} : tokenIn'[a] = tokenIn[a]
  BY <1>1, ReplyEffect
<1>5. ASSUME NEW a \in Boards PROVE BoardInv(a)' /\ AckInv(a)'
  <2>1. state[a] = 0
    BY <1>2 DEF StageInv, BoardInv
  <2>2. BoardInv(a)'
    BY <1>1, <1>2, <1>3, <2>1 DEF StageInv, BoardInv
  <2>3. AckInv(a)'
    BY <1>1, <2>1 DEF StageInv, AckInv
  <2>4. QED
    BY <2>2, <2>3
<1>6. ASSUME NEW c \in Cores PROVE CoreInv(c)'
  BY <1>1, <1>3 DEF StageInv, CoreInv
<1>7. QED
  BY <1>2, <1>5, <1>6 DEF StageInv

LEMMA DetectedStage ==
  ASSUME TokensOK, BoardsOK, CoresOK, MasterOK, RoundInv, StageInv, NEW b \in Boards,
         DetectedStage1(b)
  PROVE  /\ StageInv' /\ mstate = 1 /\ state[b] = 0 /\ state'[b] = 1
         /\ \A c \in CoresOn(b) : idleStage1Reg'[c]
         /\ \A a \in Boards \ {b} : state'[a] = state[a]
         /\ \A c \in Cores : BoardOf[c] # b => idleStage1Reg'[c] = idleStage1Reg[c]
<1>1. /\ tokenIn[b] # <<>> /\ Head(tokenIn[b]).done /\ state[b] = 0
      /\ UNCHANGED <<released, numAcks, tokVars, probeVars>>
  BY DEF DetectedStage1
<1>2. toMaster[b] = <<>> /\ toBoard[b] = <<>>
  BY <1>1, QueueFacts
<1>3. ~ Answered(b) /\ mstate # 0
  BY <1>1, <1>2 DEF Answered, Counted, Quiet, RoundInv, TokenInv, Stage
<1>4. mstate = 1
  BY <1>1, <1>3 DEF StageInv, BoardInv, MasterOK
<1>5. Head(tokenIn[b]).vote = currentVote
  BY <1>1 DEF RoundInv, TokenInv
<1>6. /\ state'[b] = 1 /\ \A a \in Boards \ {b} : state'[a] = state[a]
  BY DEF DetectedStage1, BoardsOK
<1>7. \A c \in Cores :
        /\ idleDetected'[c] <=> idleDetected[c] \/ BoardOf[c] = b
        /\ idleStage1Reg'[c] <=> idleStage1Reg[c] \/ BoardOf[c] = b
        /\ BoardOf[c] = b => voteStage1Reg'[c] = Head(tokenIn[b]).vote
        /\ BoardOf[c] # b => voteStage1Reg'[c] = voteStage1Reg[c]
  BY DEF DetectedStage1
<1>8. \A a \in Boards : Answered(a)' <=> Answered(a)
  BY <1>1, RoundFrame
<1>9. UNCHANGED <<mstate, currentVote, tokenIn>>
  BY <1>1 DEF probeVars, tokVars
<1>10. BoardInv(b)'
  BY <1>1, <1>3, <1>4, <1>6, <1>8, <1>9 DEF StageInv, BoardInv
<1>11. ASSUME NEW a \in Boards \ {b} PROVE BoardInv(a)' /\ AckInv(a)'
  <2>1. BoardInv(a)'
    BY <1>1, <1>6, <1>8, <1>9 DEF StageInv, BoardInv
  <2>2. Acked(a)' = Acked(a) /\ \A c \in CoresOn(a) : idleStage1Reg'[c] <=> idleStage1Reg[c]
    BY <1>7 DEF Acked, CoresOn
  <2>3. AckInv(a)
    BY DEF StageInv
  <2>4. QED
    BY <1>1, <1>6, <2>1, <2>2, <2>3 DEF AckInv
<1>12. AckInv(b)'
  <2>1. numAcks'[b] = 0
    BY <1>1 DEF StageInv, AckInv
  <2>2. \A c \in CoresOn(b) : c \in Cores /\ idleStage1Reg'[c]
    BY <1>7 DEF CoresOn
  <2>3. Acked(b)' = {}
    BY <2>2 DEF Acked
  <2>4. QED
    BY <1>6, <2>1, <2>2, <2>3, FS_EmptySet, CoresOnBoard DEF AckInv
<1>13. ASSUME NEW c \in Cores PROVE CoreInv(c)'
  <2>1. CoreInv(c) /\ BoardOf[c] \in Boards
    BY ShapeAssumption DEF StageInv
  <2>2. CASE BoardOf[c] = b
    BY <1>1, <1>5, <1>6, <1>7, <1>9, <2>1, <2>2 DEF CoreInv
  <2>3. CASE BoardOf[c] # b
    BY <1>1, <1>6, <1>7, <1>9, <2>1, <2>3 DEF CoreInv
  <2>4. QED
    BY <2>2, <2>3
<1>14. \A c \in CoresOn(b) : idleStage1Reg'[c]
  BY <1>7 DEF CoresOn
<1>15. \A c \in Cores : BoardOf[c] # b => idleStage1Reg'[c] = idleStage1Reg[c]
  BY DEF DetectedStage1, CoresOK
<1>16. QED
  BY <1>1, <1>4, <1>6, <1>10, <1>11, <1>12, <1>13, <1>14, <1>15 DEF StageInv

\* An acknowledgement: the board stays in state 1 until all its cores have
\* acknowledged, and then answers at once, because the token is there.
LEMMA AckEffect ==
  ASSUME TokensOK, BoardsOK, CoresOK, MasterOK, RoundInv, StageInv,
         NEW c \in Cores, AckStage1(c)
  PROVE  /\ mstate = 1 /\ state[BoardOf[c]] = 1 /\ BoardOf[c] \in Boards
         /\ idleStage1Reg' = [idleStage1Reg EXCEPT ![c] = FALSE]
         /\ UNCHANGED <<mstate, currentVote, released, idleDetected, voteStage1Reg>>
         /\ \/ /\ \A d \in CoresOn(BoardOf[c]) : ~ idleStage1Reg'[d]
               /\ numAcks' = [numAcks EXCEPT ![BoardOf[c]] = 0]
               /\ state' = [state EXCEPT ![BoardOf[c]] = 2]
               /\ tokenIn[BoardOf[c]] # <<>> /\ Reply(BoardOf[c])
            \/ /\ \E d \in CoresOn(BoardOf[c]) : idleStage1Reg'[d]
               /\ numAcks' = [numAcks EXCEPT ![BoardOf[c]] =
                                Cardinality(Acked(BoardOf[c])')]
               /\ UNCHANGED <<state, tokVars>>
<1> DEFINE b == BoardOf[c]
           total == numAcks[b] + 1
<1>1. b \in Boards /\ c \in CoresOn(b)
  BY ShapeAssumption DEF CoresOn
<1>2. /\ idleStage1Reg[c]
      /\ idleStage1Reg' = [idleStage1Reg EXCEPT ![c] = FALSE]
      /\ UNCHANGED <<released, idleDetected, voteStage1Reg, toBoard, probeVars>>
  BY DEF AckStage1, Acks
<1>3. state[b] = 1
  BY <1>2 DEF StageInv, CoreInv
<1>4. mstate = 1
  BY <1>1, <1>3 DEF StageInv, BoardInv, MasterOK
<1>5. tokenIn[b] # <<>> /\ Head(tokenIn[b]).done
  <2>1. BoardInv(b) /\ TokenInv(b)
    BY <1>1 DEF StageInv, RoundInv
  <2>2. tokenIn[b] # <<>>
    BY <1>3, <2>1 DEF BoardInv
  <2>3. Stage(Head(tokenIn[b]))
    BY <2>1, <2>2 DEF TokenInv
  <2>4. QED
    BY <1>4, <2>2, <2>3 DEF Stage
<1>6. Acked(b)' = Acked(b) \cup {c} /\ c \notin Acked(b)
  BY <1>1, <1>2 DEF Acked, CoresOn, CoresOK
<1>7. IsFiniteSet(CoresOn(b)) /\ Acked(b) \subseteq CoresOn(b) /\ Acked(b)' \subseteq CoresOn(b)
  BY <1>1, CoresOnBoard DEF Acked
<1>8. IsFiniteSet(Acked(b)) /\ IsFiniteSet(Acked(b)')
  BY <1>7, FS_Subset
<1>9. total = Cardinality(Acked(b)')
  <2>1. Cardinality(Acked(b) \cup {c}) = Cardinality(Acked(b)) + 1
    BY <1>6, <1>8, FS_AddElement
  <2>2. numAcks[b] = Cardinality(Acked(b))
    BY <1>1, <1>3 DEF StageInv, AckInv
  <2>3. QED
    BY <1>6, <2>1, <2>2
<1>10. UNCHANGED <<mstate, currentVote>>
  BY <1>2 DEF probeVars
<1>11. CASE total = Cardinality(CoresOn(b))
  <2>1. Acked(b)' = CoresOn(b)
    BY <1>7, <1>8, <1>9, <1>11, FS_Subset
  <2>2. \A d \in CoresOn(b) : ~ idleStage1Reg'[d]
    BY <2>1 DEF Acked
  <2>3. /\ numAcks' = [numAcks EXCEPT ![b] = 0]
        /\ state' = [state EXCEPT ![b] = 2] /\ Reply(b)
    BY <1>3, <1>5, <1>11 DEF AckStage1
  <2>4. QED
    BY <1>1, <1>2, <1>3, <1>4, <1>5, <1>10, <2>2, <2>3
<1>12. CASE total # Cardinality(CoresOn(b))
  <2>1. \E d \in CoresOn(b) : idleStage1Reg'[d]
    <3>1. Acked(b)' # CoresOn(b)
      BY <1>9, <1>12
    <3>2. PICK d \in CoresOn(b) : d \notin Acked(b)'
      BY <3>1, <1>7
    <3>3. QED
      BY <3>2 DEF Acked, CoresOn
  <2>2. /\ numAcks' = [numAcks EXCEPT ![b] = total]
        /\ UNCHANGED <<tokenIn, toMaster, state>>
    BY <1>12 DEF AckStage1
  <2>3. QED
    BY <1>1, <1>2, <1>3, <1>4, <1>9, <1>10, <2>1, <2>2 DEF tokVars
<1>13. QED
  BY <1>11, <1>12

LEMMA AckStage ==
  ASSUME TokensOK, BoardsOK, CoresOK, MasterOK, RoundInv, StageInv,
         NEW c \in Cores, AckStage1(c)
  PROVE  StageInv'
<1>1. PICK b \in Boards : b = BoardOf[c]
  BY ShapeAssumption
<1>2. /\ mstate = 1 /\ state[b] = 1
      /\ idleStage1Reg' = [idleStage1Reg EXCEPT ![c] = FALSE]
      /\ UNCHANGED <<mstate, currentVote, released, idleDetected, voteStage1Reg>>
  BY <1>1, AckEffect
<1>3. \A d \in Cores : idleStage1Reg'[d] <=> idleStage1Reg[d] /\ d # c
  BY <1>2 DEF CoresOK
<1>4. \A a \in Boards \ {b} : Acked(a)' = Acked(a)
  BY <1>1, <1>3 DEF Acked, CoresOn
<1>5. ~ released[b] /\ \A d \in Cores : BoardOf[d] = b => idleDetected[d]
  BY <1>2 DEF StageInv, BoardInv, CoreInv
<1>6. c \in CoresOn(b) /\ UNCHANGED <<toBoard, probeVars>>
  BY <1>1 DEF CoresOn, AckStage1
<1>7. CASE /\ \A d \in CoresOn(b) : ~ idleStage1Reg'[d]
           /\ numAcks' = [numAcks EXCEPT ![b] = 0]
           /\ state' = [state EXCEPT ![b] = 2]
           /\ tokenIn[b] # <<>> /\ Reply(b)
  <2>1. /\ tokenIn'[b] = <<>>
        /\ \A a \in Boards \ {b} : toMaster'[a] = toMaster[a] /\ tokenIn'[a] = tokenIn[a]
    BY <1>6, <1>7, ReplyEffect
  <2>2. /\ Answered(b)'
        /\ \A a \in Boards \ {b} : Answered(a)' <=> Answered(a)
    BY <1>6, <1>7, ReplyRound
  <2>3. /\ state'[b] = 2 /\ numAcks'[b] = 0
        /\ \A a \in Boards \ {b} : state'[a] = state[a] /\ numAcks'[a] = numAcks[a]
    BY <1>7 DEF BoardsOK
  <2>4. BoardInv(b)' /\ AckInv(b)'
    BY <1>2, <1>5, <2>2, <2>3 DEF BoardInv, AckInv
  <2>5. ASSUME NEW a \in Boards \ {b} PROVE BoardInv(a)' /\ AckInv(a)'
    <3>1. BoardInv(a)'
      BY <1>2, <2>1, <2>2, <2>3 DEF StageInv, BoardInv
    <3>2. \A d \in CoresOn(a) : idleStage1Reg'[d] <=> idleStage1Reg[d]
      BY <1>1, <1>3 DEF CoresOn
    <3>3. AckInv(a)
      BY DEF StageInv
    <3>4. QED
      BY <1>4, <2>3, <3>1, <3>2, <3>3 DEF AckInv
  <2>6. ASSUME NEW d \in Cores PROVE CoreInv(d)'
    <3>1. BoardOf[d] \in Boards /\ CoreInv(d)
      BY ShapeAssumption DEF StageInv
    <3>2. CASE BoardOf[d] = b
      BY <1>2, <1>5, <1>7, <2>3, <3>1, <3>2 DEF CoreInv, CoresOn
    <3>3. CASE BoardOf[d] # b
      BY <1>2, <1>3, <2>3, <3>1, <3>3 DEF CoreInv
    <3>4. QED
      BY <3>2, <3>3
  <2>7. QED
    BY <2>4, <2>5, <2>6 DEF StageInv
<1>8. CASE /\ \E d \in CoresOn(b) : idleStage1Reg'[d]
           /\ numAcks' = [numAcks EXCEPT ![b] = Cardinality(Acked(b)')]
           /\ UNCHANGED <<state, tokVars>>
  <2>1. \A a \in Boards : Answered(a)' <=> Answered(a)
    BY <1>6, <1>8, RoundFrame
  <2>2. /\ numAcks'[b] = Cardinality(Acked(b)')
        /\ \A a \in Boards \ {b} : numAcks'[a] = numAcks[a]
    BY <1>8 DEF BoardsOK
  <2>3. \A a \in Boards : BoardInv(a)'
    BY <1>2, <1>8, <2>1 DEF StageInv, BoardInv, tokVars
  <2>4. AckInv(b)'
    BY <1>2, <1>8, <2>2 DEF AckInv
  <2>5. ASSUME NEW a \in Boards \ {b} PROVE AckInv(a)'
    <3>2. \A d \in CoresOn(a) : idleStage1Reg'[d] <=> idleStage1Reg[d]
      BY <1>1, <1>3 DEF CoresOn
    <3>3. AckInv(a)
      BY DEF StageInv
    <3>4. QED
      BY <1>4, <1>8, <2>2, <3>2, <3>3 DEF AckInv
  <2>6. ASSUME NEW d \in Cores PROVE CoreInv(d)'
    BY <1>2, <1>3, <1>8 DEF StageInv, CoreInv
  <2>7. QED
    BY <2>3, <2>4, <2>5, <2>6 DEF StageInv
<1>9. QED
  BY <1>1, <1>7, <1>8, AckEffect

LEMMA EndStage ==
  ASSUME TokensOK, BoardsOK, MasterOK, RoundInv, StageInv, NEW b \in Boards,
         EndBarrier(b)
  PROVE  StageInv' /\ mstate = 2
<1>1. /\ tokenIn[b] # <<>> /\ Head(tokenIn[b]).done /\ state[b] = 2 /\ Reply(b)
      /\ state' = [state EXCEPT ![b] = 0]
      /\ released' = [released EXCEPT ![b] = FALSE]
      /\ UNCHANGED <<coreVars, numAcks, toBoard, probeVars>>
  BY DEF EndBarrier
<1>2. /\ tokenIn'[b] = <<>>
      /\ \A a \in Boards \ {b} : toMaster'[a] = toMaster[a] /\ tokenIn'[a] = tokenIn[a]
  BY <1>1, ReplyEffect
<1>3. /\ ~ Answered(b) /\ Answered(b)'
      /\ \A a \in Boards \ {b} : Answered(a)' <=> Answered(a)
  BY <1>1, ReplyRound
<1>4. mstate = 2
  BY <1>1, <1>3 DEF StageInv, BoardInv, MasterOK
<1>5. released[b]
  BY <1>1, <1>4 DEF StageInv, BoardInv
<1>6. /\ state'[b] = 0 /\ ~ released'[b]
      /\ \A a \in Boards \ {b} : state'[a] = state[a] /\ released'[a] = released[a]
  BY <1>1 DEF BoardsOK
<1>7. UNCHANGED <<mstate, currentVote, idleDetected, idleStage1Reg, voteStage1Reg, numAcks>>
  BY <1>1 DEF probeVars, coreVars
<1>8. BoardInv(b)' /\ AckInv(b)'
  <2>1. BoardInv(b)'
    BY <1>2, <1>3, <1>4, <1>6, <1>7 DEF BoardInv
  <2>2. AckInv(b)
    BY DEF StageInv
  <2>3. AckInv(b)'
    BY <1>1, <1>6, <1>7, <2>2 DEF AckInv
  <2>4. QED
    BY <2>1, <2>3
<1>9. ASSUME NEW a \in Boards \ {b} PROVE BoardInv(a)' /\ AckInv(a)'
  <2>1. BoardInv(a)'
    BY <1>2, <1>3, <1>6, <1>7 DEF StageInv, BoardInv
  <2>2. AckInv(a)'
    BY <1>6, <1>7 DEF StageInv, AckInv, Acked
  <2>3. QED
    BY <2>1, <2>2
<1>10. ASSUME NEW c \in Cores PROVE CoreInv(c)'
  <2>1. BoardOf[c] \in Boards /\ CoreInv(c)
    BY ShapeAssumption DEF StageInv
  <2>2. QED
    BY <1>1, <1>5, <1>6, <1>7, <2>1 DEF CoreInv
<1>11. QED
  BY <1>4, <1>8, <1>9, <1>10 DEF StageInv

\* Probing a board, and counting its answer, leave the stages alone.
LEMMA ProbeStage ==
  ASSUME StageInv, UNCHANGED <<coreVars, state, released, numAcks, tokenIn, mstate, currentVote>>,
         \A a \in Boards : Answered(a)' <=> Answered(a)
  PROVE  StageInv'
<1>1. ASSUME NEW a \in Boards PROVE BoardInv(a)' /\ AckInv(a)'
  <2>1. BoardInv(a)'
    BY DEF StageInv, BoardInv
  <2>2. AckInv(a)'
    BY DEF StageInv, AckInv, Acked, coreVars
  <2>3. QED
    BY <2>1, <2>2
<1>2. ASSUME NEW c \in Cores PROVE CoreInv(c)'
  BY DEF StageInv, CoreInv, coreVars
<1>3. QED
  BY <1>1, <1>2 DEF StageInv

\* The last answer of a round: every board is where the next stage finds it.
LEMMA LastStage ==
  ASSUME TokensOK, BoardsOK, MasterOK, RoundInv, StageInv, NEW b \in Boards,
         NEW ins, NEW outs, LastResponse(b, ins, outs)
  PROVE  /\ StageInv'
         /\ \A a \in Boards : state'[a] = state[a]
         /\ \A a \in Boards : state[a] = IF mstate = 1 THEN 2 ELSE 0
         /\ \A c \in Cores : ~ idleStage1Reg[c]
         /\ mstate' = CASE mstate = 0 -> (IF Terminated(Head(toMaster[b])) THEN 1 ELSE 0)
                        [] mstate = 1 -> 2
                        [] mstate = 2 -> 0
<1>1. \A a \in Boards : /\ Answered(a)
                        /\ ~ Answered(a)' /\ Quiet(a)'
  BY LastRound
<1>2. \A a \in Boards : state[a] = IF mstate = 1 THEN 2 ELSE 0
  BY <1>1 DEF StageInv, BoardInv, MasterOK
<1>3. UNCHANGED <<coreVars, boardVars, tokenIn>>
  BY DEF LastResponse
<1>4. mstate' = CASE mstate = 0 -> (IF Terminated(Head(toMaster[b])) THEN 1 ELSE 0)
                  [] mstate = 1 -> 2
                  [] mstate = 2 -> 0
  <2>1. CASE mstate = 0
    BY <2>1 DEF LastResponse
  <2>2. CASE mstate = 1
    BY <2>2 DEF LastResponse
  <2>3. CASE mstate = 2
    BY <2>3 DEF LastResponse
  <2>4. QED
    BY <2>1, <2>2, <2>3 DEF MasterOK
<1>5. \A c \in Cores : ~ idleStage1Reg[c]
  BY <1>2, ShapeAssumption DEF StageInv, CoreInv
<1>6. \A a \in Boards : ~ released[a]
  <2>1. ASSUME NEW a \in Boards, released[a] PROVE FALSE
    BY <1>2, <2>1 DEF StageInv, BoardInv
  <2>2. QED
    BY <2>1
<1>7. ASSUME NEW a \in Boards PROVE BoardInv(a)' /\ AckInv(a)'
  <2>1. tokenIn'[a] = <<>>
    BY <1>1 DEF Quiet
  <2>2. mstate' = 0 \/ mstate' = 1 => state[a] = 0
    BY <1>2, <1>4 DEF MasterOK
  <2>3. mstate' = 2 => state[a] = 2
    BY <1>2, <1>4 DEF MasterOK
  <2>4. state[a] # 1
    BY <1>2
  <2>5. BoardInv(a)'
    BY <1>1, <1>3, <1>6, <2>1, <2>2, <2>3, <2>4 DEF BoardInv, boardVars
  <2>6. AckInv(a)'
    BY <1>3, <2>4 DEF StageInv, AckInv, boardVars
  <2>7. QED
    BY <2>5, <2>6
<1>8. ASSUME NEW c \in Cores PROVE CoreInv(c)'
  BY <1>3, <1>5 DEF StageInv, CoreInv, coreVars, boardVars
<1>9. QED
  BY <1>2, <1>3, <1>4, <1>5, <1>7, <1>8 DEF StageInv, boardVars

-----------------------------------------------------------------------------
(* Every step preserves BarrierInv                                         *)

\* A step outside stage 1 that leaves the threads and the master alone.
LEMMA BarrierFrame ==
  ASSUME BarrierInv, mstate # 1, UNCHANGED <<mstate, disableHostMsgsReg, phase>>
  PROVE  BarrierInv'
BY DEF BarrierInv, FrozenInv

\* A step in stage 1 that moves no message and no thread.
LEMMA BarrierQuiet ==
  ASSUME BarrierInv, mstate = 1,
         UNCHANGED <<mstate, disableHostMsgsReg, currentVote, thrVars, net, mbox,
                     held, freeing>>,
         \A t \in Threads : ThreadInv(t)'
  PROVE  BarrierInv'
<1>1. NoMessages'
  BY DEF BarrierInv, FrozenInv, NoMessages
<1>2. /\ \A t, u \in Threads : phase'[t] = phase'[u] <=> idle'[t] = idle'[u]
      /\ currentVote' <=> \A t \in Threads : voted'[t]
  BY DEF BarrierInv, FrozenInv, thrVars
<1>3. disableHostMsgsReg'
  BY DEF BarrierInv
<1>4. QED
  BY <1>1, <1>2, <1>3 DEF BarrierInv, FrozenInv

LEMMA WakeBarrier ==
  ASSUME TypeOK, StageInv, BarrierInv, NEW t \in Threads, Wake(t)
  PROVE  BarrierInv'
<1>0. ThreadsOK /\ Home(t) \in Boards /\ CoreOf[t] \in Cores /\ BoardOf[CoreOf[t]] = Home(t)
  BY TypeParts, HomeType
<1>1. /\ idle[t] /\ idle' = [idle EXCEPT ![t] = FALSE]
      /\ UNCHANGED <<voted, msgVars, coreVars, state, probeVars>>
  BY DEF Wake
<1>2. CASE mstate = 1
  <2>1. idleStage1Reg[CoreOf[t]]
    BY <1>2 DEF Wake, BarrierInv, FrozenInv, NoMessages
  <2>2. phase' = [phase EXCEPT ![t] = ~ phase[t]]
    BY <2>1 DEF Wake
  <2>3. /\ idle'[t] = FALSE /\ \A u \in Threads \ {t} : idle'[u] = idle[u]
        /\ phase'[t] = ~ phase[t] /\ \A u \in Threads \ {t} : phase'[u] = phase[u]
    BY <1>0, <1>1, <2>2 DEF ThreadsOK
  <2>4. state[Home(t)] = 1
    BY <1>0, <2>1 DEF StageInv, CoreInv
  <2>5. \A u \in Threads : ThreadInv(u)
    BY <1>2 DEF BarrierInv, FrozenInv
  <2>6. ThreadInv(t)'
    BY <1>1, <2>3, <2>4 DEF ThreadInv
  <2>7. ASSUME NEW u \in Threads \ {t} PROVE ThreadInv(u)'
    BY <1>1, <2>3, <2>5 DEF ThreadInv, coreVars
  <2>8. \A u, v \in Threads : phase[u] = phase[v] <=> idle[u] = idle[v]
    BY <1>2 DEF BarrierInv, FrozenInv
  <2>9. ASSUME NEW u \in Threads, NEW v \in Threads
        PROVE  phase'[u] = phase'[v] <=> idle'[u] = idle'[v]
    <3>1. /\ phase[t] \in BOOLEAN /\ phase[u] \in BOOLEAN /\ phase[v] \in BOOLEAN
          /\ idle[t] \in BOOLEAN /\ idle[u] \in BOOLEAN /\ idle[v] \in BOOLEAN
      BY <1>0 DEF ThreadsOK
    <3>2. /\ phase[u] = phase[v] <=> idle[u] = idle[v]
          /\ phase[t] = phase[v] <=> idle[t] = idle[v]
          /\ phase[u] = phase[t] <=> idle[u] = idle[t]
      BY <2>8
    <3>3. CASE u = t /\ v = t
      BY <3>3
    <3>4. CASE u = t /\ v # t
      BY <1>1, <2>3, <3>1, <3>2, <3>4
    <3>5. CASE u # t /\ v = t
      BY <1>1, <2>3, <3>1, <3>2, <3>5
    <3>6. CASE u # t /\ v # t
      BY <2>3, <3>2, <3>6
    <3>7. QED
      BY <3>3, <3>4, <3>5, <3>6
  <2>10. NoMessages'
    BY <1>1, <1>2 DEF BarrierInv, FrozenInv, NoMessages, msgVars
  <2>11. (currentVote' <=> \A u \in Threads : voted'[u]) /\ mstate' = 1 /\ disableHostMsgsReg'
    BY <1>1, <1>2 DEF BarrierInv, FrozenInv, probeVars
  <2>12. QED
    BY <2>6, <2>7, <2>9, <2>10, <2>11 DEF BarrierInv, FrozenInv
<1>3. CASE mstate # 1
  <2>1. ~ idleStage1Reg[CoreOf[t]]
    <3>1. MasterOK /\ CoreInv(CoreOf[t]) /\ BoardInv(Home(t))
      BY <1>0, TypeParts DEF StageInv
    <3>2. QED
      BY <1>0, <1>3, <3>1 DEF CoreInv, BoardInv, MasterOK
  <2>2. phase' = [phase EXCEPT ![t] = phase[t]]
    BY <2>1 DEF Wake
  <2>3. phase' = phase
    BY <1>0, <2>2 DEF ThreadsOK
  <2>4. QED
    BY <1>1, <1>3, <2>3, BarrierFrame DEF probeVars
<1>4. QED
  BY <1>2, <1>3

LEMMA DetectedBarrier ==
  ASSUME TypeOK, RoundInv, StageInv, BarrierInv, NEW b \in Boards, DetectedStage1(b)
  PROVE  BarrierInv'
<1>0. TokensOK /\ BoardsOK /\ CoresOK /\ MasterOK
  BY TypeParts
<1>1. /\ mstate = 1 /\ state[b] = 0 /\ state'[b] = 1
      /\ \A c \in CoresOn(b) : idleStage1Reg'[c]
      /\ \A a \in Boards \ {b} : state'[a] = state[a]
      /\ \A c \in Cores : BoardOf[c] # b => idleStage1Reg'[c] = idleStage1Reg[c]
  BY <1>0, DetectedStage
<1>2. /\ UNCHANGED <<thrVars, msgVars, probeVars>>
  BY DEF DetectedStage1
<1>3. ASSUME NEW t \in Threads PROVE ThreadInv(t)'
  <2>1. /\ Home(t) \in Boards /\ CoreOf[t] \in Cores /\ BoardOf[CoreOf[t]] = Home(t)
        /\ CoreOf[t] \in CoresOn(Home(t))
    BY HomeType
  <2>2. ThreadInv(t) /\ idle' = idle
    BY <1>1, <1>2 DEF BarrierInv, FrozenInv, thrVars
  <2>3. CASE Home(t) = b
    BY <1>1, <2>1, <2>2, <2>3 DEF ThreadInv
  <2>4. CASE Home(t) # b
    BY <1>1, <2>1, <2>2, <2>4 DEF ThreadInv
  <2>5. QED
    BY <2>3, <2>4
<1>4. QED
  BY <1>1, <1>2, <1>3, BarrierQuiet DEF probeVars, msgVars

LEMMA AckBarrier ==
  ASSUME TypeOK, RoundInv, StageInv, BarrierInv, NEW c \in Cores, AckStage1(c)
  PROVE  BarrierInv'
<1>0. TokensOK /\ BoardsOK /\ CoresOK /\ MasterOK
  BY TypeParts
<1>1. PICK b \in Boards : b = BoardOf[c]
  BY ShapeAssumption
<1>2. /\ mstate = 1 /\ state[b] = 1
      /\ idleStage1Reg' = [idleStage1Reg EXCEPT ![c] = FALSE]
      /\ \/ /\ \A d \in CoresOn(b) : ~ idleStage1Reg'[d]
            /\ state' = [state EXCEPT ![b] = 2]
         \/ UNCHANGED state
  BY <1>0, <1>1, AckEffect
<1>3. /\ UNCHANGED <<thrVars, msgVars, probeVars>> /\ NumIdleWaiters(c) = 0
  BY DEF AckStage1, Acks
<1>4. \A t \in Threads : CoreOf[t] = c => ~ idle[t]
  BY <1>3, NoneIdle
<1>5. \A d \in Cores : idleStage1Reg'[d] <=> idleStage1Reg[d] /\ d # c
  BY <1>0, <1>2 DEF CoresOK
<1>6. ASSUME NEW t \in Threads PROVE ThreadInv(t)'
  <2>1. /\ Home(t) \in Boards /\ CoreOf[t] \in Cores /\ BoardOf[CoreOf[t]] = Home(t)
        /\ CoreOf[t] \in CoresOn(Home(t))
    BY HomeType
  <2>2. ThreadInv(t) /\ idle' = idle
    BY <1>2, <1>3 DEF BarrierInv, FrozenInv, thrVars
  <2>3. CASE UNCHANGED state
    BY <1>4, <1>5, <2>1, <2>2, <2>3 DEF ThreadInv
  <2>4. CASE /\ \A d \in CoresOn(b) : ~ idleStage1Reg'[d]
             /\ state' = [state EXCEPT ![b] = 2]
    <3>1. state'[b] = 2 /\ \A a \in Boards \ {b} : state'[a] = state[a]
      BY <1>0, <2>4 DEF BoardsOK
    <3>2. CASE Home(t) = b
      <4>1. ~ idle[t]
        <5>1. ~ idleStage1Reg[CoreOf[t]] \/ CoreOf[t] = c
          BY <1>5, <2>1, <2>4, <3>2
        <5>2. QED
          BY <1>2, <1>4, <2>2, <3>2, <5>1 DEF ThreadInv
      <4>2. QED
        BY <2>2, <3>1, <3>2, <4>1 DEF ThreadInv
    <3>3. CASE Home(t) # b
      <4>1. CoreOf[t] # c
        BY <1>1, <2>1, <3>3
      <4>2. QED
        BY <1>5, <2>1, <2>2, <3>1, <3>3, <4>1 DEF ThreadInv
    <3>4. QED
      BY <3>2, <3>3
  <2>5. QED
    BY <1>2, <2>3, <2>4
<1>7. QED
  BY <1>2, <1>3, <1>6, BarrierQuiet DEF probeVars, msgVars

\* Host traffic, and an answer that is not the last, in any stage.
LEMMA TrafficBarrier ==
  ASSUME TypeOK, StageInv, BarrierInv,
         NEW ins \in OneOrNone(Threads), NEW outs \in OneOrNone(Boards),
         HostTraffic(ins, outs), ins # {} => ~ disableHostMsgsReg,
         UNCHANGED <<mstate, disableHostMsgsReg, currentVote, thrVars, coreVars, boardVars>>
  PROVE  BarrierInv'
<1>1. CASE mstate = 1
  <2>1. outs = {} /\ ins = {}
    BY <1>1, Stage1Frozen
  <2>2. NoMessages'
    <3>1. NoMessages
      BY <1>1 DEF BarrierInv, FrozenInv
    <3>2. /\ net' = [s \in Boards \cup {Host} |-> [d \in Threads \cup {Host} |-> net[s][d]]]
          /\ UNCHANGED <<mbox, held, freeing>>
      BY <2>1 DEF HostTraffic
    <3>3. QED
      BY <3>1, <3>2 DEF NoMessages
  <2>3. \A t \in Threads : ThreadInv(t)'
    BY <1>1 DEF BarrierInv, FrozenInv, ThreadInv, thrVars, coreVars, boardVars
  <2>4. QED
    BY <1>1, <2>2, <2>3 DEF BarrierInv, FrozenInv, thrVars
<1>2. CASE mstate # 1
  BY <1>2, BarrierFrame DEF thrVars
<1>3. QED
  BY <1>1, <1>2

\* What the detection of termination is about: nothing moves any more, and the
\* vote the master has gathered is that of all threads.
Detection ==
  /\ Quiescent'
  /\ currentVote' <=> \A t \in Threads : voted[t]

LEMMA LastBarrier ==
  ASSUME TypeOK, RoundInv, StageInv, BarrierInv,
         NEW ins \in OneOrNone(Threads), NEW outs \in OneOrNone(Boards),
         NEW b \in Boards, LastResponse(b, ins, outs),
         mstate = 0 /\ mstate' = 1 => Detection
  PROVE  BarrierInv'
<1>0. TokensOK /\ BoardsOK /\ CoresOK /\ MasterOK
  BY TypeParts
<1>1. /\ \A a \in Boards : state'[a] = state[a]
      /\ \A a \in Boards : state[a] = IF mstate = 1 THEN 2 ELSE 0
      /\ mstate' = CASE mstate = 0 -> (IF Terminated(Head(toMaster[b])) THEN 1 ELSE 0)
                     [] mstate = 1 -> 2
                     [] mstate = 2 -> 0
  BY <1>0, LastStage
<1>2. UNCHANGED <<thrVars, coreVars>>
  BY DEF LastResponse
<1>3. CASE mstate = 0
  <2>1. \A t, u \in Threads : phase[t] = phase[u]
    BY <1>3 DEF BarrierInv
  <2>2. mstate' # 0 => disableHostMsgsReg'
    BY <1>3 DEF LastResponse
  <2>3. CASE mstate' = 1
    <3>1. Quiescent' /\ (currentVote' <=> \A t \in Threads : voted[t])
      BY <1>3, <2>3 DEF Detection
    <3>2. ASSUME NEW t \in Threads PROVE ThreadInv(t)'
      BY <1>1, <1>3, <3>1, HomeType DEF ThreadInv, Quiescent
    <3>3. \A t, u \in Threads : phase'[t] = phase'[u] <=> idle'[t] = idle'[u]
      <4>1. \A t \in Threads : idle'[t]
        BY <3>1 DEF Quiescent
      <4>2. ThreadsOK /\ idle' = idle /\ phase' = phase
        BY <1>2, TypeParts DEF thrVars
      <4>3. \A t \in Threads : idle'[t] = TRUE
        BY <4>1, <4>2 DEF ThreadsOK
      <4>4. QED
        BY <2>1, <4>2, <4>3
    <3>4. NoMessages' /\ voted' = voted
      BY <1>2, <3>1 DEF Quiescent, thrVars
    <3>5. QED
      BY <2>2, <2>3, <3>1, <3>2, <3>3, <3>4 DEF BarrierInv, FrozenInv
  <2>4. CASE mstate' # 1
    BY <1>2, <2>1, <2>2, <2>4 DEF BarrierInv, FrozenInv, thrVars
  <2>5. QED
    BY <2>3, <2>4
<1>4. CASE mstate = 1
  <2>1. mstate' = 2 /\ disableHostMsgsReg' = disableHostMsgsReg
    BY <1>4 DEF LastResponse
  <2>2. \A t \in Threads : ~ idle[t]
    BY <1>1, <1>4, HomeType DEF BarrierInv, FrozenInv, ThreadInv
  <2>3. \A t, u \in Threads : phase[t] = phase[u]
    <3>1. ThreadsOK
      BY TypeParts
    <3>2. \A t \in Threads : idle[t] = FALSE
      BY <2>2, <3>1 DEF ThreadsOK
    <3>3. QED
      BY <1>4, <3>2 DEF BarrierInv, FrozenInv
  <2>4. QED
    BY <1>2, <1>4, <2>1, <2>3 DEF BarrierInv, FrozenInv, thrVars
<1>5. CASE mstate = 2
  BY <1>1, <1>2, <1>5 DEF BarrierInv, FrozenInv, thrVars
<1>6. QED
  BY <1>0, <1>3, <1>4, <1>5 DEF MasterOK

-----------------------------------------------------------------------------
(* Every step preserves ColourInv                                          *)

\* No thread goes to sleep and no board turns white.
LEMMA ColourFrame ==
  ASSUME ColourInv, UNCHANGED <<idle, black, state, mstate>>
  PROVE  ColourInv'
BY DEF ColourInv

LEMMA SleepColour ==
  ASSUME ThreadsOK, ColourInv, NEW t \in Threads, NEW vote \in Votes, Sleep(t, vote)
  PROVE  ColourInv'
<1>1. \A u \in Threads : idle[u] => idle'[u]
  BY DEF Sleep, ThreadsOK
<1>2. UNCHANGED <<black, state, mstate>>
  BY DEF Sleep, boardVars, probeVars
<1>3. QED
  BY <1>1, <1>2 DEF ColourInv

LEMMA WakeColour ==
  ASSUME ThreadsOK, BoardsOK, ColourInv, NEW t \in Threads, Wake(t)
  PROVE  ColourInv'
<1>1. /\ \A u \in Threads \ {t} : idle'[u] = idle[u]
      /\ black'[Home(t)] /\ \A a \in Boards \ {Home(t)} : black'[a] = black[a]
      /\ UNCHANGED <<state, mstate>>
  BY HomeType DEF Wake, ThreadsOK, BoardsOK, probeVars
<1>2. \A a \in Boards : black[a] => black'[a]
  BY <1>1, HomeType
<1>3. \A u \in Threads : ~ black'[Home(u)] => idle'[u]
  BY <1>1, <1>2, HomeType DEF ColourInv
<1>4. QED
  BY <1>1, <1>2, <1>3 DEF ColourInv

LEMMA ForwardColour ==
  ASSUME BoardsOK, ColourInv, mstate = 0, NEW b \in Boards, ForwardToken(b)
  PROVE  ColourInv'
<1>1. /\ \A t \in Threads : Home(t) = b => idle[t]
  BY AllIdleOn DEF ForwardToken
<1>2. /\ \A a \in Boards \ {b} : black'[a] = black[a]
      /\ UNCHANGED <<idle, mstate>>
  BY DEF ForwardToken, BoardsOK, thrVars, probeVars
<1>3. \A t \in Threads : ~ black'[Home(t)] => idle'[t]
  BY <1>1, <1>2, HomeType DEF ColourInv
<1>4. QED
  BY <1>2, <1>3 DEF ColourInv

\* A board whose last core acknowledges has a thread that is running.
LEMMA AckColour ==
  ASSUME TypeOK, RoundInv, StageInv, BarrierInv, ColourInv, NEW c \in Cores,
         AckStage1(c)
  PROVE  ColourInv'
<1>0. TokensOK /\ BoardsOK /\ CoresOK /\ MasterOK
  BY TypeParts
<1>1. PICK b \in Boards : b = BoardOf[c]
  BY ShapeAssumption
<1>2. /\ mstate = 1
      /\ state' = [state EXCEPT ![b] = 2] \/ UNCHANGED state
  BY <1>0, <1>1, AckEffect
<1>3. NumIdleWaiters(c) = 0 /\ UNCHANGED <<idle, black, mstate>>
  BY DEF AckStage1, Acks, thrVars, probeVars
<1>4. PICK t \in Threads : CoreOf[t] = c
  BY ShapeAssumption
<1>5. ~ idle[t] /\ Home(t) = b
  BY <1>1, <1>3, <1>4, NoneIdle DEF Home
<1>6. black[b]
  BY <1>5 DEF ColourInv
<1>7. \A a \in Boards : state'[a] = 2 => a = b \/ state[a] = 2
  BY <1>0, <1>2 DEF BoardsOK
<1>8. QED
  BY <1>2, <1>3, <1>6, <1>7 DEF ColourInv

LEMMA LastColour ==
  ASSUME TypeOK, RoundInv, StageInv, ColourInv, NEW b \in Boards, NEW ins, NEW outs,
         LastResponse(b, ins, outs)
  PROVE  ColourInv'
<1>0. TokensOK /\ BoardsOK /\ CoresOK /\ MasterOK
  BY TypeParts
<1>1. /\ \A a \in Boards : state'[a] = state[a]
      /\ \A a \in Boards : state[a] = IF mstate = 1 THEN 2 ELSE 0
      /\ mstate' = CASE mstate = 0 -> (IF Terminated(Head(toMaster[b])) THEN 1 ELSE 0)
                     [] mstate = 1 -> 2
                     [] mstate = 2 -> 0
  BY <1>0, LastStage
<1>2. UNCHANGED <<idle, black>>
  BY DEF LastResponse, thrVars, boardVars
<1>3. mstate' = 1 => mstate = 0
  BY <1>0, <1>1 DEF MasterOK
<1>4. mstate' = 2 => mstate = 1
  BY <1>0, <1>1 DEF MasterOK
<1>5. mstate' = 1 => \A a \in Boards : state'[a] # 2
  BY <1>1, <1>3
<1>6. mstate' = 2 => \A a \in Boards : black[a]
  BY <1>1, <1>4 DEF ColourInv
<1>7. QED
  BY <1>2, <1>5, <1>6 DEF ColourInv

-----------------------------------------------------------------------------
(* Conservation of messages: what has been sent and not yet counted as     *)
(* received is on its way, in a mailbox, held or about to be freed.        *)

Cells == (Boards \cup {Host}) \X (Threads \cup {Host})
NetType == [Boards \cup {Host} -> [Threads \cup {Host} -> Nat]]

\* The messages of n, a state of the network.
NetSum(n) == Sum([p \in Cells |-> n[p[1]][p[2]]], Cells)

\* What the boards have sent and not received, those being freed left out.
DueSum(cnt, fr) == Sum([b \in Boards |-> cnt[b] - fr[b]], Boards)

\* Messages that have not been freed by their receiver.
Traffic == NetSum(net) + Sum(mbox, Threads) + Sum(held, Threads)

Conservation == localCount + DueSum(count, freeing) = Traffic

NoTraffic ==
  /\ \A s \in Boards \cup {Host}, d \in Threads \cup {Host} : net[s][d] = 0
  /\ \A t \in Threads : mbox[t] = 0 /\ held[t] = 0

LEMMA FiniteShape ==
  IsFiniteSet(Cells) /\ IsFiniteSet(Threads) /\ IsFiniteSet(Boards)
<1>1. IsFiniteSet(Boards \cup {Host}) /\ IsFiniteSet(Threads \cup {Host})
  BY BoardsFinite, ShapeAssumption, FS_AddElement
<1>2. QED
  BY <1>1, BoardsFinite, ShapeAssumption, FS_Product DEF Cells

\* One cell of the network changed.
LEMMA NetSumUpdate ==
  ASSUME NEW n \in NetType, NEW m \in NetType,
         NEW s \in Boards \cup {Host}, NEW d \in Threads \cup {Host},
         \A p \in Boards \cup {Host}, q \in Threads \cup {Host} :
           p # s \/ q # d => m[p][q] = n[p][q]
  PROVE  NetSum(m) = NetSum(n) + m[s][d] - n[s][d]
<1> DEFINE f == [p \in Cells |-> n[p[1]][p[2]]]
           g == [p \in Cells |-> m[p[1]][p[2]]]
           x == <<s, d>>
<1>1. x \in Cells /\ f[x] = n[s][d] /\ g[x] = m[s][d]
  BY DEF Cells
<1>2. f \in [Cells -> Int] /\ g \in [Cells -> Int]
  BY DEF Cells, NetType
<1>3. \A y \in Cells \ {x} : g[y] = f[y]
  <2> SUFFICES ASSUME NEW y \in Cells \ {x} PROVE g[y] = f[y]
    OBVIOUS
  <2>1. PICK p \in Boards \cup {Host}, q \in Threads \cup {Host} : y = <<p, q>>
    BY DEF Cells
  <2>2. p # s \/ q # d
    BY <2>1
  <2>3. m[p][q] = n[p][q]
    BY <2>2
  <2>4. QED
    BY <2>1, <2>3 DEF Cells
<1> HIDE DEF f, g, x
<1>4. Sum(g, Cells) = Sum(f, Cells) + g[x] - f[x]
  BY <1>1, <1>2, <1>3, FiniteShape, SumUpdate
<1>5. QED
  BY <1>1, <1>4 DEF NetSum, f, g

\* The number of messages on their way, and when it is zero.
LEMMA NetSumNumber ==
  ASSUME NEW n \in NetType
  PROVE  /\ NetSum(n) \in Nat
         /\ NetSum(n) = 0 => \A s \in Boards \cup {Host}, d \in Threads \cup {Host} :
                               n[s][d] = 0
<1> DEFINE f == [p \in Cells |-> n[p[1]][p[2]]]
<1>1. f \in [Cells -> Nat]
  BY DEF Cells, NetType
<1>2. ASSUME NEW s \in Boards \cup {Host}, NEW d \in Threads \cup {Host}
      PROVE  <<s, d>> \in Cells /\ f[<<s, d>>] = n[s][d]
  BY DEF Cells
<1> HIDE DEF f
<1>3. Sum(f, Cells) \in Nat /\ (Sum(f, Cells) = 0 => \A x \in Cells : f[x] = 0)
  BY <1>1, FiniteShape, SumOfNumbers
<1>4. QED
  BY <1>2, <1>3 DEF NetSum, f

\* The account of one board changed.
LEMMA DueSumUpdate ==
  ASSUME NEW c1 \in [Boards -> Int], NEW f1 \in [Boards -> Int],
         NEW c2 \in [Boards -> Int], NEW f2 \in [Boards -> Int], NEW b \in Boards,
         \A a \in Boards \ {b} : c1[a] = c2[a] /\ f1[a] = f2[a]
  PROVE  /\ DueSum(c1, f1) \in Int
         /\ DueSum(c2, f2) = DueSum(c1, f1) + (c2[b] - f2[b]) - (c1[b] - f1[b])
<1> DEFINE f == [a \in Boards |-> c1[a] - f1[a]]
           g == [a \in Boards |-> c2[a] - f2[a]]
<1>1. f \in [Boards -> Int] /\ g \in [Boards -> Int]
  OBVIOUS
<1>2. \A a \in Boards \ {b} : g[a] = f[a]
  OBVIOUS
<1>3. f[b] = c1[b] - f1[b] /\ g[b] = c2[b] - f2[b]
  OBVIOUS
<1> HIDE DEF f, g
<1>4. Sum(f, Boards) \in Int /\ Sum(g, Boards) = Sum(f, Boards) + g[b] - f[b]
  BY <1>1, <1>2, FiniteShape, SumUpdate, SumType
<1>5. QED
  BY <1>3, <1>4 DEF DueSum, f, g

\* The sums are numbers, and there is no traffic when they are zero.
LEMMA TrafficNumber ==
  ASSUME MessagesOK
  PROVE  /\ net \in NetType
         /\ NetSum(net) \in Nat /\ Sum(mbox, Threads) \in Nat
         /\ Sum(held, Threads) \in Nat /\ Traffic \in Nat
         /\ Traffic = 0 => NoTraffic
<1>1. net \in NetType /\ mbox \in [Threads -> Nat] /\ held \in [Threads -> Nat]
  BY DEF MessagesOK, NetOK, NetType
<1>2. /\ NetSum(net) \in Nat
      /\ NetSum(net) = 0 => \A s \in Boards \cup {Host}, d \in Threads \cup {Host} :
                              net[s][d] = 0
  BY <1>1, NetSumNumber
<1>3. /\ Sum(mbox, Threads) \in Nat
      /\ Sum(mbox, Threads) = 0 => \A t \in Threads : mbox[t] = 0
  BY <1>1, FiniteShape, SumOfNumbers
<1>4. /\ Sum(held, Threads) \in Nat
      /\ Sum(held, Threads) = 0 => \A t \in Threads : held[t] = 0
  BY <1>1, FiniteShape, SumOfNumbers
<1>5. QED
  BY <1>1, <1>2, <1>3, <1>4 DEF Traffic, NoTraffic

\* A function on threads changed at one thread.
LEMMA ThreadSumUpdate ==
  ASSUME NEW f \in [Threads -> Nat], NEW t \in Threads, NEW v \in Nat,
         NEW g, g = [f EXCEPT ![t] = v]
  PROVE  Sum(f, Threads) \in Int /\ Sum(g, Threads) = Sum(f, Threads) + v - f[t]
<1>1. f \in [Threads -> Int] /\ g \in [Threads -> Int] /\ g[t] = v
  OBVIOUS
<1>2. \A u \in Threads \ {t} : g[u] = f[u]
  OBVIOUS
<1>3. IsFiniteSet(Threads)
  BY FiniteShape
<1>4. Sum(f, Threads) \in Int
  BY <1>1, <1>3, SumType
<1>5. Sum(g, Threads) = Sum(f, Threads) + g[t] - f[t]
  <2>1. \A h \in [Threads -> Int] :
          (\A y \in Threads \ {t} : h[y] = f[y]) =>
             Sum(h, Threads) = Sum(f, Threads) + h[t] - f[t]
    BY <1>1, <1>3, SumUpdate
  <2>2. QED
    BY <1>1, <1>2, <2>1
<1>6. QED
  BY <1>1, <1>4, <1>5

\* Host traffic keeps the balance.
LEMMA HostTrafficSum ==
  ASSUME MessagesOK, LocalOK,
         NEW ins \in OneOrNone(Threads), NEW outs \in OneOrNone(Boards),
         HostTraffic(ins, outs)
  PROVE  /\ NetSum(net') = NetSum(net) + Cardinality(ins) - Cardinality(outs)
         /\ UNCHANGED <<mbox, held, freeing>>
         /\ localCount' = localCount + Cardinality(ins) - Cardinality(outs)
         /\ ins = {} /\ outs = {} =>
              \A s \in Boards \cup {Host}, d \in Threads \cup {Host} :
                net'[s][d] = net[s][d]
<1> DEFINE mid == [s \in Boards \cup {Host} |-> [d \in Threads \cup {Host} |->
                     IF s = Host /\ d \in ins THEN net[s][d] + 1 ELSE net[s][d]]]
<1>1. net \in NetType /\ NetSum(net) \in Nat
  BY TrafficNumber
<1>2. net' \in NetType
  BY HostTrafficType DEF MessagesOK, NetOK, NetType
<1>3. \A s \in Boards \cup {Host}, d \in Threads \cup {Host} :
        net'[s][d] = CASE s = Host /\ d \in ins -> net[s][d] + 1
                       [] s \in outs /\ d = Host -> net[s][d] - 1
                       [] OTHER -> net[s][d]
  BY DEF HostTraffic
<1>4. /\ ins = {} \/ \E t \in Threads : ins = {t}
      /\ outs = {} \/ \E b \in Boards : outs = {b}
      /\ ins = {} => Cardinality(ins) = 0
      /\ ins # {} => Cardinality(ins) = 1
      /\ outs = {} => Cardinality(outs) = 0
      /\ outs # {} => Cardinality(outs) = 1
  BY OneOrNoneType
<1>5. mid \in NetType
  <2>1. ASSUME NEW s \in Boards \cup {Host}, NEW d \in Threads \cup {Host}
        PROVE  (IF s = Host /\ d \in ins THEN net[s][d] + 1 ELSE net[s][d]) \in Nat
    BY <1>1 DEF NetType
  <2>2. QED
    BY <2>1 DEF NetType
<1>6. NetSum(mid) = NetSum(net) + Cardinality(ins)
  <2>1. CASE ins = {}
    <3>1. \A s \in Boards \cup {Host}, d \in Threads \cup {Host} : mid[s][d] = net[s][d]
      BY <2>1
    <3> HIDE DEF mid
    <3>2. 0 \in Boards /\ Host \in Threads \cup {Host}
      BY BoardsFinite
    <3>3. NetSum(mid) = NetSum(net) + mid[0][Host] - net[0][Host]
      BY <1>1, <1>5, <3>1, <3>2, NetSumUpdate
    <3>4. mid[0][Host] = net[0][Host] /\ net[0][Host] \in Nat
      BY <1>1, <3>1, <3>2 DEF NetType
    <3>5. QED
      BY <1>1, <1>4, <2>1, <3>3, <3>4
  <2>2. ASSUME NEW t \in Threads, ins = {t}
        PROVE  NetSum(mid) = NetSum(net) + Cardinality(ins)
    <3>1. /\ \A p \in Boards \cup {Host}, q \in Threads \cup {Host} :
               p # Host \/ q # t => mid[p][q] = net[p][q]
          /\ mid[Host][t] = net[Host][t] + 1 /\ net[Host][t] \in Nat
      BY <1>1, <2>2 DEF NetType
    <3> HIDE DEF mid
    <3>2. NetSum(mid) = NetSum(net) + mid[Host][t] - net[Host][t]
      BY <1>1, <1>5, <3>1, NetSumUpdate
    <3>3. Cardinality(ins) = 1
      BY <1>4, <2>2
    <3>4. QED
      BY <1>1, <3>1, <3>2, <3>3
  <2>3. QED
    BY <1>4, <2>1, <2>2
<1>7. \A s \in Boards \cup {Host}, d \in Threads \cup {Host} :
        net'[s][d] = IF s \in outs /\ d = Host THEN mid[s][d] - 1 ELSE mid[s][d]
  <2>1. ASSUME NEW s \in Boards \cup {Host}, NEW d \in Threads \cup {Host}
        PROVE  ~ (s = Host /\ d \in ins /\ s \in outs /\ d = Host)
    BY <1>4, ShapeAssumption
  <2>2. QED
    BY <1>3, <2>1
<1> HIDE DEF mid
<1>8. NetSum(net') = NetSum(mid) - Cardinality(outs)
  <2>1. CASE outs = {}
    <3>1. \A s \in Boards \cup {Host}, d \in Threads \cup {Host} : net'[s][d] = mid[s][d]
      BY <1>7, <2>1
    <3>2. 0 \in Boards /\ Host \in Threads \cup {Host}
      BY BoardsFinite
    <3>3. NetSum(net') = NetSum(mid) + net'[0][Host] - mid[0][Host]
      BY <1>2, <1>5, <3>1, <3>2, NetSumUpdate
    <3>4. mid[0][Host] = net'[0][Host] /\ mid[0][Host] \in Nat
      BY <1>5, <3>1, <3>2 DEF NetType
    <3>5. QED
      BY <1>1, <1>4, <1>5, <1>6, <2>1, <3>3, <3>4, NetSumNumber
  <2>2. ASSUME NEW b \in Boards, outs = {b}
        PROVE  NetSum(net') = NetSum(mid) - Cardinality(outs)
    <3>1. /\ \A p \in Boards \cup {Host}, q \in Threads \cup {Host} :
               p # b \/ q # Host => net'[p][q] = mid[p][q]
          /\ net'[b][Host] = mid[b][Host] - 1 /\ mid[b][Host] \in Nat
      BY <1>5, <1>7, <2>2 DEF NetType
    <3>2. NetSum(net') = NetSum(mid) + net'[b][Host] - mid[b][Host]
      BY <1>2, <1>5, <3>1, NetSumUpdate
    <3>3. Cardinality(outs) = 1 /\ NetSum(mid) \in Nat
      BY <1>4, <1>5, <2>2, NetSumNumber
    <3>4. QED
      BY <3>1, <3>2, <3>3
  <2>3. QED
    BY <1>4, <2>1, <2>2
<1>9. NetSum(net') = NetSum(net) + Cardinality(ins) - Cardinality(outs)
  BY <1>1, <1>4, <1>6, <1>8
<1>10. QED
  BY <1>3, <1>9 DEF HostTraffic

\* Every step preserves the balance.
LEMMA ConservationStep ==
  ASSUME TypeOK, TypeOK', Conservation, [Next]_vars
  PROVE  Conservation'
<1>0. /\ MessagesOK /\ BoardsOK /\ LocalOK
      /\ MessagesOK' /\ BoardsOK' /\ LocalOK'
  BY TypeParts
<1>1. /\ net \in NetType /\ net' \in NetType
      /\ NetSum(net) \in Nat /\ Sum(mbox, Threads) \in Nat /\ Sum(held, Threads) \in Nat
  BY <1>0, TrafficNumber DEF MessagesOK, NetOK, NetType
<1>2. /\ count \in [Boards -> Int] /\ count' \in [Boards -> Int]
      /\ freeing \in [Boards -> Nat] /\ freeing' \in [Boards -> Nat]
      /\ mbox \in [Threads -> Nat] /\ held \in [Threads -> Nat]
      /\ localCount \in Int
  BY <1>0 DEF BoardsOK, MessagesOK, LocalOK
<1>3. freeing \in [Boards -> Int] /\ freeing' \in [Boards -> Int]
  BY <1>2
<1>4. DueSum(count, freeing) \in Int
  BY <1>2, <1>3, BoardsFinite, DueSumUpdate
<1>5. localCount + DueSum(count, freeing)
        = NetSum(net) + Sum(mbox, Threads) + Sum(held, Threads)
  BY DEF Conservation, Traffic
<1>6. SUFFICES localCount' + DueSum(count', freeing')
                 = NetSum(net') + Sum(mbox', Threads) + Sum(held', Threads)
  BY DEF Conservation, Traffic
<1>7. ASSUME NEW b \in Boards,
              \A a \in Boards \ {b} : count[a] = count'[a] /\ freeing[a] = freeing'[a]
      PROVE  DueSum(count', freeing') = DueSum(count, freeing)
               + (count'[b] - freeing'[b]) - (count[b] - freeing[b])
  <2> DEFINE c1 == count
             c2 == count'
             f1 == freeing
             f2 == freeing'
  <2>1. /\ c1 \in [Boards -> Int] /\ c2 \in [Boards -> Int]
        /\ f1 \in [Boards -> Int] /\ f2 \in [Boards -> Int]
        /\ \A a \in Boards \ {b} : c1[a] = c2[a] /\ f1[a] = f2[a]
    BY <1>2, <1>3, <1>7
  <2> HIDE DEF c1, c2, f1, f2
  <2>2. DueSum(c2, f2) = DueSum(c1, f1) + (c2[b] - f2[b]) - (c1[b] - f1[b])
    BY <2>1, DueSumUpdate
  <2>3. QED
    BY <2>2 DEF c1, c2, f1, f2
<1>8. CASE UNCHANGED <<net, mbox, held, freeing, count, localCount>>
  BY <1>5, <1>8
<1>9. ASSUME NEW t \in Threads, NEW d \in Threads \cup {Host}, Send(t, d)
      PROVE  <1>6!1
  <2>1. Home(t) \in Boards
    BY HomeType
  <2>2. /\ net' = [net EXCEPT ![Home(t)][d] = net[Home(t)][d] + 1]
        /\ count' = [count EXCEPT ![Home(t)] = count[Home(t)] + 1]
        /\ UNCHANGED <<mbox, held, freeing, localCount>>
    BY <1>9 DEF Send, localVars
  <2>3. /\ net[Home(t)][d] \in Nat /\ net'[Home(t)][d] = net[Home(t)][d] + 1
        /\ \A p \in Boards \cup {Host}, q \in Threads \cup {Host} :
             p # Home(t) \/ q # d => net'[p][q] = net[p][q]
    <3>1. NetOK /\ Home(t) \in Boards \cup {Host}
      BY <1>0, <2>1 DEF MessagesOK
    <3> DEFINE s == Home(t)
               v == net[s][d] + 1
    <3>2. v \in Nat
      BY <3>1 DEF NetOK
    <3>3. s \in Boards \cup {Host} /\ NetSet(s, d, v)
      BY <2>2, <3>1 DEF NetSet
    <3> HIDE DEF v, s
    <3>4. /\ net[s][d] \in Nat /\ net'[s][d] = v
          /\ \A p \in Boards \cup {Host}, q \in Threads \cup {Host} :
               p # s \/ q # d => net'[p][q] = net[p][q]
      BY <3>1, <3>2, <3>3, NetUpdate
    <3>5. QED
      BY <3>4 DEF s, v
  <2>4. NetSum(net') = NetSum(net) + net'[Home(t)][d] - net[Home(t)][d]
    BY <1>1, <2>1, <2>3, NetSumUpdate
  <2>5. /\ count'[Home(t)] = count[Home(t)] + 1 /\ count[Home(t)] \in Int
        /\ freeing[Home(t)] \in Int
        /\ freeing'[Home(t)] = freeing[Home(t)]
        /\ \A a \in Boards \ {Home(t)} :
             count[a] = count'[a] /\ freeing[a] = freeing'[a]
    BY <1>2, <1>3, <2>1, <2>2
  <2>6. DueSum(count', freeing') = DueSum(count, freeing)
          + (count'[Home(t)] - freeing'[Home(t)]) - (count[Home(t)] - freeing[Home(t)])
    BY <1>7, <2>1, <2>5
  <2>7. DueSum(count', freeing') = DueSum(count, freeing) + 1
    BY <1>4, <2>5, <2>6
  <2>8. NetSum(net') = NetSum(net) + 1
    BY <1>1, <2>3, <2>4
  <2>9. localCount' = localCount /\ mbox' = mbox /\ held' = held
    BY <2>2
  <2>10. QED
    BY <1>1, <1>2, <1>4, <1>5, <2>7, <2>8, <2>9
<1>10. ASSUME NEW t \in Threads, Recv(t)
      PROVE  <1>6!1
  <2>1. /\ mbox' = [mbox EXCEPT ![t] = mbox[t] - 1] /\ mbox[t] > 0
        /\ held' = [held EXCEPT ![t] = held[t] + 1]
        /\ UNCHANGED <<net, freeing, count, localCount>>
    BY <1>10 DEF Recv, boardVars, localVars
  <2>2. mbox[t] - 1 \in Nat /\ held[t] + 1 \in Nat /\ mbox[t] \in Nat /\ held[t] \in Nat
    BY <1>2, <2>1
  <2>3. Sum(mbox', Threads) = Sum(mbox, Threads) + (mbox[t] - 1) - mbox[t]
    BY <1>2, <2>1, <2>2, ThreadSumUpdate
  <2>4. Sum(held', Threads) = Sum(held, Threads) + (held[t] + 1) - held[t]
    BY <1>2, <2>1, <2>2, ThreadSumUpdate
  <2>5. QED
    BY <1>1, <1>4, <1>5, <2>1, <2>2, <2>3, <2>4
<1>11. ASSUME NEW t \in Threads, Free(t)
       PROVE  <1>6!1
  <2>1. Home(t) \in Boards
    BY HomeType
  <2>2. /\ held' = [held EXCEPT ![t] = held[t] - 1] /\ held[t] > 0
        /\ freeing' = [freeing EXCEPT ![Home(t)] = freeing[Home(t)] + 1]
        /\ UNCHANGED <<net, mbox, count, localCount>>
    BY <1>11 DEF Free, boardVars, localVars
  <2>3. held[t] - 1 \in Nat /\ held[t] \in Nat
    BY <1>2, <2>2
  <2>4. Sum(held', Threads) = Sum(held, Threads) + (held[t] - 1) - held[t]
    BY <1>2, <2>2, <2>3, ThreadSumUpdate
  <2>5. /\ freeing'[Home(t)] = freeing[Home(t)] + 1 /\ count[Home(t)] \in Int
        /\ freeing[Home(t)] \in Int
        /\ count'[Home(t)] = count[Home(t)]
        /\ \A a \in Boards \ {Home(t)} :
             count[a] = count'[a] /\ freeing[a] = freeing'[a]
    BY <1>2, <1>3, <2>1, <2>2
  <2>6. DueSum(count', freeing') = DueSum(count, freeing)
          + (count'[Home(t)] - freeing'[Home(t)]) - (count[Home(t)] - freeing[Home(t)])
    BY <1>7, <2>1, <2>5
  <2>7. DueSum(count', freeing') = DueSum(count, freeing) - 1
    BY <1>4, <2>5, <2>6
  <2>8. Sum(held', Threads) = Sum(held, Threads) - 1
    BY <1>1, <2>3, <2>4
  <2>9. localCount' = localCount /\ mbox' = mbox /\ net' = net
    BY <2>2
  <2>10. QED
    BY <1>1, <1>2, <1>4, <1>5, <2>7, <2>8, <2>9
<1>12. ASSUME NEW s \in Boards \cup {Host}, NEW t \in Threads, Deliver(s, t)
       PROVE  <1>6!1
  <2>1. /\ net' = [net EXCEPT ![s][t] = net[s][t] - 1] /\ net[s][t] > 0
        /\ mbox' = [mbox EXCEPT ![t] = mbox[t] + 1]
        /\ UNCHANGED <<held, freeing, count, localCount>>
    BY <1>12 DEF Deliver, localVars
  <2>2. net[s][t] - 1 \in Nat /\ net[s][t] \in Nat /\ mbox[t] + 1 \in Nat /\ mbox[t] \in Nat
    <3>1. net[s][t] \in Nat /\ mbox[t] \in Nat
      BY <1>1, <1>2 DEF NetType
    <3>2. QED
      BY <2>1, <3>1
  <2>3. /\ net'[s][t] = net[s][t] - 1
        /\ \A p \in Boards \cup {Host}, q \in Threads \cup {Host} :
             p # s \/ q # t => net'[p][q] = net[p][q]
    <3> DEFINE v == net[s][t] - 1
    <3>1. NetOK /\ t \in Threads \cup {Host} /\ v \in Nat
          /\ NetSet(s, t, v)
      BY <1>0, <2>1, <2>2 DEF MessagesOK, NetSet
    <3> HIDE DEF v
    <3>2. /\ net'[s][t] = v
          /\ \A p \in Boards \cup {Host}, q \in Threads \cup {Host} :
               p # s \/ q # t => net'[p][q] = net[p][q]
      BY <3>1, NetUpdate
    <3>3. QED
      BY <3>2 DEF v
  <2>4. NetSum(net') = NetSum(net) + net'[s][t] - net[s][t]
    BY <1>1, <2>3, NetSumUpdate
  <2>5. Sum(mbox', Threads) = Sum(mbox, Threads) + (mbox[t] + 1) - mbox[t]
    BY <1>2, <2>1, <2>2, ThreadSumUpdate
  <2>6. QED
    BY <1>1, <1>4, <1>5, <2>1, <2>2, <2>3, <2>4, <2>5
<1>13. ASSUME NEW b \in Boards, FreeDone(b)
       PROVE  <1>6!1
  <2>1. /\ freeing' = [freeing EXCEPT ![b] = freeing[b] - 1]
        /\ count' = [count EXCEPT ![b] = count[b] - 1]
        /\ UNCHANGED <<net, mbox, held, localCount>>
    BY <1>13 DEF FreeDone, localVars
  <2>2. /\ freeing'[b] = freeing[b] - 1 /\ count'[b] = count[b] - 1
        /\ count[b] \in Int /\ freeing[b] \in Int
        /\ \A a \in Boards \ {b} :
             count[a] = count'[a] /\ freeing[a] = freeing'[a]
    BY <1>2, <1>3, <2>1
  <2>3. DueSum(count', freeing') = DueSum(count, freeing)
          + (count'[b] - freeing'[b]) - (count[b] - freeing[b])
    BY <1>7, <2>2
  <2>4. QED
    BY <1>1, <1>4, <1>5, <2>1, <2>2, <2>3
<1>14. ASSUME NEW ins \in OneOrNone(Threads), NEW outs \in OneOrNone(Boards),
              HostTraffic(ins, outs), UNCHANGED count
       PROVE  <1>6!1
  <2>1. /\ NetSum(net') = NetSum(net) + Cardinality(ins) - Cardinality(outs)
        /\ UNCHANGED <<mbox, held, freeing>>
        /\ localCount' = localCount + Cardinality(ins) - Cardinality(outs)
    BY <1>0, <1>14, HostTrafficSum
  <2>2. Cardinality(ins) \in Int /\ Cardinality(outs) \in Int
    BY OneOrNoneType
  <2>3. QED
    BY <1>1, <1>2, <1>4, <1>5, <1>14, <2>1, <2>2
<1>15. ASSUME NEW t \in Threads, ThreadStep(t) \/ Wake(t)
       PROVE  <1>6!1
  BY <1>8, <1>9, <1>10, <1>11, <1>15 DEF ThreadStep, Sleep, Wake, msgVars, boardVars, localVars
<1>16. ASSUME NEW b \in Boards, BoardStep(b)
       PROVE  <1>6!1
  BY <1>8, <1>13, <1>16 DEF BoardStep, InterBoardActivity, TokenArrives, ForwardToken,
     DetectedStage1, EndBarrier, msgVars, localVars
<1>17. CASE BridgeStep
  BY <1>14, <1>17 DEF BridgeStep, HostMsgs, Response, LastResponse, boardVars
<1>18. ASSUME NEW c \in Cores, AckStage1(c)
       PROVE  <1>6!1
  BY <1>8, <1>18 DEF AckStage1, msgVars, localVars
<1>19. CASE Probe
  BY <1>8, <1>19 DEF Probe, msgVars, boardVars, localVars
<1>20. CASE UNCHANGED vars
  BY <1>8, <1>20 DEF vars, msgVars, boardVars, localVars
<1>21. QED
  BY <1>12, <1>15, <1>16, <1>17, <1>18, <1>19, <1>20 DEF Next

-----------------------------------------------------------------------------
(* What a round of probes can conclude.  While everything the round has    *)
(* seen is white, the count it is heading for is positive, or it is zero   *)
(* and the system is idle but for receipts that boards still have to       *)
(* count before they answer.                                               *)

\* The answer of b in this round is white, or would be now.
WhiteAt(b) ==
  IF toMaster[b] # <<>> THEN ~ Head(toMaster[b]).black
                        ELSE Counted(b) \/ ~ black[b]

White == ~ anyBlack /\ ~ localBlack /\ \A b \in Boards : WhiteAt(b)

\* What b has yet to add to the count of this round.
Due(b) ==
  IF toMaster[b] # <<>> THEN Head(toMaster[b]).count
                        ELSE IF Counted(b) THEN 0 ELSE count[b] - freeing[b]

Dues == [b \in Boards |-> Due(b)]

\* The count the round is heading for.
Estimate == totalCount + Sum(Dues, Boards)

Clean ==
  /\ \A t \in Threads : idle[t]
  /\ NoTraffic
  /\ \A b \in Boards : Answered(b) => freeing[b] = 0
  /\ \A b \in Boards : toMaster[b] # <<>> => (Head(toMaster[b]).vote <=> Vote(b))
  /\ nextVote <=> \A b \in Boards : Counted(b) => Vote(b)

SafraInv == mstate = 0 /\ White => Estimate >= 1 \/ (Estimate = 0 /\ Clean)

\* What a board owes is a number.
LEMMA DueType ==
  ASSUME TokensOK, BoardsOK, MessagesOK
  PROVE  Dues \in [Boards -> Int]
<1>1. ASSUME NEW b \in Boards PROVE Due(b) \in Int
  <2>1. count[b] \in Int /\ freeing[b] \in Nat
    BY DEF BoardsOK, MessagesOK
  <2>2. toMaster[b] # <<>> => Head(toMaster[b]).count \in Int
    <3>1. toMaster[b] # <<>> => Head(toMaster[b]) \in Token
      BY DEF TokensOK
    <3>2. QED
      BY <3>1 DEF Token
  <2>3. QED
    BY <2>1, <2>2 DEF Due
<1>2. QED
  BY <1>1 DEF Dues

LEMMA EstimateType ==
  ASSUME TypeOK
  PROVE  Dues \in [Boards -> Int] /\ Sum(Dues, Boards) \in Int /\ Estimate \in Int
<1>1. Dues \in [Boards -> Int]
  BY TypeParts, DueType
<1>2. Sum(Dues, Boards) \in Int
  BY <1>1, FiniteShape, SumType
<1>3. totalCount \in Int
  BY TypeParts DEF MasterOK
<1>4. QED
  BY <1>1, <1>2, <1>3 DEF Estimate

\* A step that only makes the view of the round blacker, or changes nothing
\* in it, preserves the invariant if it keeps a clean system clean.
LEMMA SafraSame ==
  ASSUME SafraInv, mstate' = 0 => mstate = 0,
         White' => White /\ totalCount' = totalCount /\ Dues' = Dues /\ (Clean => Clean')
  PROVE  SafraInv'
BY DEF SafraInv, Estimate

\* Nothing in the view of the round changes.
LEMMA SafraFrame ==
  ASSUME SafraInv,
         \A a \in Boards : (Counted(a)' <=> Counted(a)) /\ (Answered(a)' <=> Answered(a)),
         UNCHANGED <<idle, voted, net, mbox, held, freeing, count, black, toMaster,
                     localBlack, mstate, totalCount, anyBlack, nextVote>>
  PROVE  SafraInv'
<1>1. \A a \in Boards : (WhiteAt(a)' <=> WhiteAt(a)) /\ Due(a)' = Due(a)
  BY DEF WhiteAt, Due
<1>2. White' <=> White
  BY <1>1 DEF White
<1>3. Dues' = Dues
  BY <1>1 DEF Dues
<1>4. \A a \in Boards : Vote(a)' <=> Vote(a)
  BY DEF Vote
<1>5. NoTraffic' <=> NoTraffic
  BY DEF NoTraffic
<1>6. Clean => Clean'
  BY <1>4, <1>5 DEF Clean
<1>7. QED
  BY <1>2, <1>3, <1>6, SafraSame

\* A step of a running thread: its board is black, and unless it has answered
\* the round will not be white.
LEMMA RunningSafra ==
  ASSUME SafraInv, ColourInv, BoardsOK, NEW t \in Threads, ~ idle[t],
         UNCHANGED <<tokVars, probeVars, localVars, black>>,
         \A a \in Boards \ {Home(t)} : count'[a] = count[a] /\ freeing'[a] = freeing[a]
  PROVE  SafraInv'
<1>1. UNCHANGED <<toMaster, mstate, totalCount, anyBlack, localBlack>>
  BY DEF tokVars, probeVars, localVars
<1>2. \A a \in Boards : Counted(a)' <=> Counted(a)
  BY RoundFrame
<1>3. \A a \in Boards : WhiteAt(a)' <=> WhiteAt(a)
  BY <1>1, <1>2 DEF WhiteAt
<1>4. White' <=> White
  BY <1>1, <1>3 DEF White
<1>5. ~ Clean
  BY DEF Clean
<1>6. ASSUME White, NEW a \in Boards PROVE Due(a)' = Due(a)
  <2>1. CASE a = Home(t)
    <3>1. black[a]
      BY <2>1 DEF ColourInv
    <3>2. toMaster[a] # <<>> \/ Counted(a)
      BY <1>6, <3>1 DEF White, WhiteAt
    <3>3. QED
      BY <1>1, <1>2, <3>2 DEF Due
  <2>2. CASE a # Home(t)
    BY <1>1, <1>2, <2>2 DEF Due
  <2>3. QED
    BY <2>1, <2>2
<1>7. White => Dues' = Dues
  BY <1>6 DEF Dues
<1>8. QED
  BY <1>1, <1>4, <1>5, <1>7, SafraSame

\* A thread wakes: outside a barrier there is a message for it.
LEMMA WakeSafra ==
  ASSUME TypeOK, StageInv, SafraInv, NEW t \in Threads, Wake(t)
  PROVE  SafraInv'
<1>1. UNCHANGED <<toMaster, mstate, totalCount, anyBlack, localBlack, count, freeing>>
  BY DEF Wake, tokVars, probeVars, localVars, msgVars
<1>2. \A a \in Boards : Counted(a)' <=> Counted(a)
  <2>1. UNCHANGED <<tokVars, probeVars>>
    BY DEF Wake
  <2>2. QED
    BY <2>1, RoundFrame
<1>3. \A a \in Boards : black[a] => black'[a]
  BY TypeParts DEF Wake, BoardsOK
<1>4. White' => White
  BY <1>1, <1>2, <1>3 DEF White, WhiteAt
<1>5. Dues' = Dues
  BY <1>1, <1>2 DEF Dues, Due
<1>6. mstate = 0 => ~ Clean
  <2>1. mstate = 0 => ~ idleStage1Reg[CoreOf[t]]
    BY HomeType DEF StageInv, BoardInv, CoreInv
  <2>2. mstate = 0 => mbox[t] > 0
    BY <2>1 DEF Wake
  <2>3. mbox[t] > 0 => ~ (mbox[t] = 0)
    OBVIOUS
  <2>4. QED
    BY <2>2, <2>3 DEF Clean, NoTraffic
<1>7. CASE mstate = 0
  BY <1>1, <1>4, <1>5, <1>6, <1>7, SafraSame
<1>8. CASE mstate # 0
  BY <1>1, <1>8 DEF SafraInv
<1>9. QED
  BY <1>7, <1>8

\* A message on its way is delivered.
LEMMA DeliverSafra ==
  ASSUME SafraInv, NEW s \in Boards \cup {Host}, NEW t \in Threads, Deliver(s, t)
  PROVE  SafraInv'
<1>1. UNCHANGED <<toMaster, mstate, totalCount, anyBlack, localBlack, count, freeing,
                  black>>
  BY DEF Deliver, tokVars, probeVars, localVars
<1>2. \A a \in Boards : Counted(a)' <=> Counted(a)
  <2>1. UNCHANGED <<tokVars, probeVars>>
    BY DEF Deliver
  <2>2. QED
    BY <2>1, RoundFrame
<1>3. White' => White
  BY <1>1, <1>2 DEF White, WhiteAt
<1>4. Dues' = Dues
  BY <1>1, <1>2 DEF Dues, Due
<1>5. ~ Clean
  <2>1. net[s][t] > 0
    BY DEF Deliver
  <2>2. net[s][t] # 0
    BY <2>1
  <2>3. QED
    BY <2>2 DEF Clean, NoTraffic
<1>6. QED
  BY <1>1, <1>3, <1>4, <1>5, SafraSame

\* A receipt is counted: what the board owes stays the same.
LEMMA FreeDoneSafra ==
  ASSUME TypeOK, SafraInv, NEW b \in Boards, FreeDone(b)
  PROVE  SafraInv'
<1>1. UNCHANGED <<toMaster, mstate, totalCount, anyBlack, localBlack, black, idle,
                  voted, net, mbox, held, nextVote>>
  BY DEF FreeDone, tokVars, probeVars, localVars, thrVars
<1>2. \A a \in Boards : (Counted(a)' <=> Counted(a)) /\ (Answered(a)' <=> Answered(a))
  <2>1. UNCHANGED <<tokVars, probeVars>>
    BY DEF FreeDone
  <2>2. QED
    BY <2>1, RoundFrame
<1>3. White' => White
  BY <1>1, <1>2 DEF White, WhiteAt
<1>4. count \in [Boards -> Int] /\ freeing \in [Boards -> Nat]
  BY TypeParts DEF BoardsOK, MessagesOK
<1>5. /\ count'[b] = count[b] - 1 /\ freeing'[b] = freeing[b] - 1 /\ freeing[b] > 0
      /\ \A a \in Boards \ {b} : count'[a] = count[a] /\ freeing'[a] = freeing[a]
  BY <1>4 DEF FreeDone
<1>6. \A a \in Boards : count'[a] - freeing'[a] = count[a] - freeing[a]
  BY <1>4, <1>5
<1>7. Dues' = Dues
  BY <1>1, <1>2, <1>6 DEF Dues, Due
<1>8. Clean => Clean'
  <2> SUFFICES ASSUME Clean PROVE Clean'
    OBVIOUS
  <2>1. ~ Answered(b)
    <3>1. freeing[b] # 0
      BY <1>5
    <3>2. QED
      BY <3>1 DEF Clean
  <2>2. \A a \in Boards : Answered(a)' => freeing'[a] = 0
    BY <1>2, <1>5, <2>1 DEF Clean
  <2>3. \A a \in Boards : Vote(a)' <=> Vote(a)
    BY <1>1 DEF Vote
  <2>4. NoTraffic'
    BY <1>1 DEF Clean, NoTraffic
  <2>5. QED
    BY <1>1, <1>2, <2>2, <2>3, <2>4 DEF Clean
<1>9. QED
  BY <1>1, <1>3, <1>7, <1>8, SafraSame

\* One board owes something else.
LEMMA DueUpdate ==
  ASSUME TypeOK, TypeOK', NEW b \in Boards,
         \A a \in Boards \ {b} : Due(a)' = Due(a)
  PROVE  Sum(Dues', Boards) = Sum(Dues, Boards) + Due(b)' - Due(b)
<1> DEFINE f == Dues
           g == Dues'
<1>1. f \in [Boards -> Int]
  BY EstimateType
<1>2. g \in [Boards -> Int]
  <2>1. TokensOK' /\ BoardsOK' /\ MessagesOK'
    BY TypeParts
  <2>2. ASSUME NEW a \in Boards PROVE Due(a)' \in Int
    <3>1. count'[a] \in Int /\ freeing'[a] \in Nat
      BY <2>1 DEF BoardsOK, MessagesOK
    <3>2. toMaster'[a] # <<>> => Head(toMaster'[a]).count \in Int
      <4>1. toMaster'[a] # <<>> => Head(toMaster'[a]) \in Token
        BY <2>1 DEF TokensOK
      <4>2. QED
        BY <4>1 DEF Token
    <3>3. QED
      BY <3>1, <3>2 DEF Due
  <2>3. QED
    BY <2>2 DEF Dues
<1>3. \A a \in Boards \ {b} : g[a] = f[a]
  BY DEF Dues
<1>4. f[b] = Due(b) /\ g[b] = Due(b)'
  BY DEF Dues
<1>5. IsFiniteSet(Boards)
  BY FiniteShape
<1> HIDE DEF f, g
<1>6. Sum(g, Boards) = Sum(f, Boards) + g[b] - f[b]
  BY <1>1, <1>2, <1>3, <1>5, SumUpdate
<1>7. QED
  BY <1>4, <1>6 DEF f, g

\* A board answers: it reports its count, which still includes the receipts
\* it has to count.
LEMMA ForwardSafra ==
  ASSUME TypeOK, TypeOK', RoundInv, SafraInv, mstate = 0,
         NEW b \in Boards, ForwardToken(b)
  PROVE  SafraInv'
<1>0. TokensOK /\ BoardsOK /\ MessagesOK
  BY TypeParts
<1>1. /\ tokenIn[b] # <<>> /\ Reply(b) /\ UNCHANGED <<toBoard, probeVars>>
      /\ UNCHANGED <<mstate, totalCount, anyBlack, localBlack, idle, voted, net, mbox,
                     held, freeing, count, nextVote>>
      /\ black' = [black EXCEPT ![b] = FALSE]
  BY DEF ForwardToken, ColourForwarded, probeVars, localVars, thrVars, msgVars
<1>2. /\ toMaster[b] = <<>> /\ toMaster'[b] # <<>>
      /\ Head(toMaster'[b]).vote = Vote(b) /\ Head(toMaster'[b]).black = black[b]
      /\ Head(toMaster'[b]).count = count[b]
      /\ \A a \in Boards \ {b} : toMaster'[a] = toMaster[a]
  <2>1. toBoard' = toBoard
    BY <1>1
  <2>2. /\ toMaster[b] = <<>> /\ toMaster'[b] # <<>>
        /\ Head(toMaster'[b]) =
             [done |-> Head(tokenIn[b]).done, stage1 |-> Head(tokenIn[b]).stage1,
              vote |-> Vote(b), black |-> black[b], count |-> count[b]]
        /\ \A a \in Boards \ {b} : toMaster'[a] = toMaster[a]
    BY <1>0, <1>1, <2>1, ReplyEffect
  <2>3. QED
    BY <2>2
<1>3. /\ ~ Answered(b) /\ Answered(b)'
      /\ \A a \in Boards : Counted(a)' <=> Counted(a)
      /\ \A a \in Boards \ {b} : Answered(a)' <=> Answered(a)
  BY <1>0, <1>1, ReplyRound
<1>4. \A a \in Boards \ {b} : black'[a] = black[a]
  BY <1>0, <1>1 DEF BoardsOK
<1>5. White' => White
  <2> SUFFICES ASSUME White' PROVE White
    OBVIOUS
  <2>1. \A a \in Boards : WhiteAt(a)'
    BY DEF White
  <2>2. ASSUME NEW a \in Boards PROVE WhiteAt(a)
    <3>1. WhiteAt(a)'
      BY <2>1
    <3>2. CASE a = b
      BY <1>2, <3>1, <3>2 DEF WhiteAt
    <3>3. CASE a # b
      BY <1>2, <1>3, <1>4, <3>1, <3>3 DEF WhiteAt
    <3>4. QED
      BY <3>2, <3>3
  <2>3. QED
    BY <1>1, <2>2 DEF White
<1>6. Due(b) = count[b] - freeing[b] /\ Due(b)' = count[b]
  BY <1>2, <1>3 DEF Due, Answered
<1>7. \A a \in Boards \ {b} : Due(a)' = Due(a)
  BY <1>1, <1>2, <1>3 DEF Due
<1>8. Estimate' = Estimate + freeing[b]
  <2>1. Sum(Dues', Boards) = Sum(Dues, Boards) + count[b] - (count[b] - freeing[b])
    BY <1>6, <1>7, DueUpdate
  <2>2. count[b] \in Int /\ freeing[b] \in Int
    BY <1>0 DEF BoardsOK, MessagesOK
  <2>3. Sum(Dues, Boards) \in Int /\ totalCount \in Int
    BY EstimateType, TypeParts DEF MasterOK
  <2>4. Estimate' = totalCount + Sum(Dues', Boards)
    BY <1>1 DEF Estimate
  <2>5. QED
    BY <2>1, <2>2, <2>3, <2>4 DEF Estimate
<1>9. Estimate \in Int /\ freeing[b] \in Nat
  BY <1>0, EstimateType DEF MessagesOK
<1>10. Clean /\ freeing[b] = 0 => Clean'
  <2> SUFFICES ASSUME Clean, freeing[b] = 0 PROVE Clean'
    OBVIOUS
  <2>1. \A a \in Boards : Vote(a)' <=> Vote(a)
    BY <1>1 DEF Vote
  <2>2. NoTraffic'
    BY <1>1 DEF Clean, NoTraffic
  <2>3. \A a \in Boards : Answered(a)' => freeing'[a] = 0
    BY <1>1, <1>3 DEF Clean
  <2>4. \A a \in Boards : toMaster'[a] # <<>> => (Head(toMaster'[a]).vote <=> Vote(a))
    BY <1>2 DEF Clean
  <2>5. nextVote' <=> \A a \in Boards : Counted(a)' => Vote(a)
    BY <1>1, <1>3 DEF Clean
  <2>6. \A t \in Threads : idle'[t]
    BY <1>1 DEF Clean
  <2>7. QED
    BY <2>1, <2>2, <2>3, <2>4, <2>5, <2>6 DEF Clean
<1>11. SUFFICES ASSUME White' PROVE Estimate' >= 1 \/ (Estimate' = 0 /\ Clean')
  BY DEF SafraInv
<1>12. Estimate >= 1 \/ (Estimate = 0 /\ Clean)
  BY <1>5, <1>11 DEF SafraInv
<1>13. CASE Estimate >= 1 \/ freeing[b] # 0
  <2>1. Estimate >= 0
    BY <1>9, <1>12
  <2>2. QED
    BY <1>8, <1>9, <1>13, <2>1
<1>14. CASE Estimate = 0 /\ Clean /\ freeing[b] = 0
  BY <1>8, <1>10, <1>14
<1>15. QED
  BY <1>12, <1>13, <1>14

\* The master counts an answer that is not the last of the round.
LEMMA ResponseSafra ==
  ASSUME TypeOK, TypeOK', RoundInv, SafraInv, NEW b \in Boards,
         NEW ins \in OneOrNone(Threads), NEW outs \in OneOrNone(Boards),
         Response(b, ins, outs)
  PROVE  SafraInv'
<1>0. /\ TokensOK /\ BoardsOK /\ MessagesOK /\ MasterOK /\ LocalOK
  BY TypeParts
<1>1. SUFFICES ASSUME mstate = 0, White' PROVE Estimate' >= 1 \/ (Estimate' = 0 /\ Clean')
  BY DEF SafraInv, Response
<1> DEFINE tok == Head(toMaster[b])
<1>2. /\ toMaster[b] # <<>> /\ HostTraffic(ins, outs)
      /\ UNCHANGED <<idle, voted, count, black, mstate>>
      /\ totalCount' = totalCount + tok.count
      /\ nextVote' = (nextVote /\ tok.vote)
      /\ anyBlack' = (anyBlack \/ tok.black)
      /\ localBlack' = (localBlack \/ ins # {} \/ outs # {})
  BY <1>1 DEF Response, thrVars, boardVars
<1>3. /\ ~ Counted(b) /\ Counted(b)' /\ toMaster'[b] = <<>>
      /\ \A a \in Boards \ {b} : /\ Counted(a)' <=> Counted(a)
                                 /\ toMaster'[a] = toMaster[a]
      /\ \A a \in Boards : Answered(a)' <=> Answered(a)
  BY <1>0, TakeRound
<1>4. ~ anyBlack /\ ~ tok.black /\ ~ localBlack /\ ins = {} /\ outs = {}
  <2>1. ~ anyBlack' /\ ~ localBlack'
    BY <1>1 DEF White
  <2>2. QED
    BY <1>2, <2>1, Zenon
<1>5. /\ UNCHANGED <<mbox, held, freeing>>
      /\ \A s \in Boards \cup {Host}, d \in Threads \cup {Host} : net'[s][d] = net[s][d]
  BY <1>0, <1>2, <1>4, HostTrafficSum
<1>6. White
  <2>1. ASSUME NEW a \in Boards PROVE WhiteAt(a)
    <3>1. CASE a = b
      BY <1>2, <1>4, <3>1 DEF WhiteAt
    <3>2. CASE a # b
      <4>1. WhiteAt(a)'
        BY <1>1 DEF White
      <4>2. QED
        BY <1>2, <1>3, <3>2, <4>1 DEF WhiteAt
    <3>3. QED
      BY <3>1, <3>2
  <2>2. QED
    BY <1>4, <2>1 DEF White
<1>7. Due(b) = tok.count /\ Due(b)' = 0
  BY <1>2, <1>3 DEF Due
<1>8. \A a \in Boards \ {b} : Due(a)' = Due(a)
  BY <1>2, <1>3, <1>5 DEF Due
<1>9. tok.count \in Int
  <2>1. tok \in Token
    BY <1>0, <1>2 DEF TokensOK
  <2>2. QED
    BY <2>1 DEF Token
<1> HIDE DEF tok
<1>10. Estimate' = Estimate
  <2>1. Sum(Dues', Boards) = Sum(Dues, Boards) + 0 - tok.count
    BY <1>7, <1>8, DueUpdate
  <2>2. Sum(Dues, Boards) \in Int /\ totalCount \in Int
    BY <1>0, EstimateType DEF MasterOK
  <2>3. Estimate' = totalCount + tok.count + Sum(Dues', Boards)
    BY <1>2 DEF Estimate
  <2>4. QED
    BY <1>9, <2>1, <2>2, <2>3 DEF Estimate
<1>11. Clean => Clean'
  <2> SUFFICES ASSUME Clean PROVE Clean'
    OBVIOUS
  <2>1. \A a \in Boards : Vote(a)' <=> Vote(a)
    BY <1>2 DEF Vote
  <2>2. NoTraffic'
    BY <1>5 DEF Clean, NoTraffic
  <2>3. \A a \in Boards : Answered(a)' => freeing'[a] = 0
    BY <1>3, <1>5 DEF Clean
  <2>4. \A a \in Boards : toMaster'[a] # <<>> => (Head(toMaster'[a]).vote <=> Vote(a))
    BY <1>3 DEF Clean
  <2>5. nextVote' <=> \A a \in Boards : Counted(a)' => Vote(a)
    <3>1. nextVote' <=> (nextVote /\ tok.vote)
      BY <1>2, Zenon
    <3>2. tok.vote <=> Vote(b)
      BY <1>2 DEF Clean, tok
    <3>3. nextVote <=> \A a \in Boards : Counted(a) => Vote(a)
      BY DEF Clean
    <3>4. \A a \in Boards : Counted(a)' <=> Counted(a) \/ a = b
      BY <1>3
    <3>5. QED
      BY <3>1, <3>2, <3>3, <3>4, Zenon
  <2>6. \A t \in Threads : idle'[t]
    BY <1>2 DEF Clean
  <2>7. QED
    BY <2>1, <2>2, <2>3, <2>4, <2>5, <2>6 DEF Clean
<1>12. Estimate >= 1 \/ (Estimate = 0 /\ Clean)
  BY <1>1, <1>6 DEF SafraInv
<1>13. QED
  BY <1>10, <1>11, <1>12

\* A round that does not end in termination is followed by one that counts
\* everything anew: what it can find is the traffic there is.
LEMMA LastSafra ==
  ASSUME TypeOK, TypeOK', RoundInv, StageInv, ColourInv, Conservation, NEW b \in Boards,
         NEW ins \in OneOrNone(Threads), NEW outs \in OneOrNone(Boards),
         LastResponse(b, ins, outs)
  PROVE  SafraInv'
<1>0. /\ TokensOK /\ BoardsOK /\ MessagesOK /\ MasterOK /\ LocalOK
  BY TypeParts
<1>1. SUFFICES ASSUME mstate' = 0, White' PROVE Estimate' >= 1 \/ (Estimate' = 0 /\ Clean')
  BY DEF SafraInv
<1>2. /\ HostTraffic(ins, outs)
      /\ UNCHANGED <<idle, voted, count, black>>
  BY DEF LastResponse, thrVars, boardVars
<1>3. /\ UNCHANGED <<mbox, held, freeing>>
      /\ ins = {} /\ outs = {} =>
           \A s \in Boards \cup {Host}, d \in Threads \cup {Host} :
             net'[s][d] = net[s][d]
  BY <1>0, <1>2, HostTrafficSum
<1>4. \A a \in Boards : ~ Counted(a)' /\ ~ Answered(a)' /\ toMaster'[a] = <<>>
  BY <1>0, LastRound DEF Quiet
<1>5. \A a \in Boards : ~ black[a]
  <2>1. \A a \in Boards : WhiteAt(a)'
    BY <1>1 DEF White
  <2>2. QED
    BY <1>2, <1>4, <2>1 DEF WhiteAt
<1>6. mstate = 0
  <2>1. mstate # 2
    BY <1>5, BoardsFinite DEF ColourInv
  <2>2. mstate # 1
    BY <1>1 DEF LastResponse
  <2>3. QED
    BY <1>0, <2>1, <2>2 DEF MasterOK
<1>7. totalCount' = localCount /\ nextVote' = TRUE
  BY <1>6 DEF LastResponse
<1>8. ins = {}
  BY <1>6 DEF LastResponse, DisableHostMsgsWire
<1>9. Estimate' = localCount + DueSum(count, freeing)
  <2>1. \A a \in Boards : Due(a)' = count[a] - freeing[a]
    BY <1>2, <1>3, <1>4 DEF Due
  <2>2. Dues' = [a \in Boards |-> count[a] - freeing[a]]
    BY <2>1 DEF Dues
  <2>3. QED
    BY <1>7, <2>2 DEF Estimate, DueSum
<1>10. Estimate' = Traffic
  BY <1>9 DEF Conservation
<1>11. Traffic \in Nat /\ (Traffic = 0 => NoTraffic)
  BY <1>0, TrafficNumber
<1>12. NoTraffic => Clean'
  <2> SUFFICES ASSUME NoTraffic PROVE Clean'
    OBVIOUS
  <2>1. outs = {}
    <3>1. \A s \in outs : net[s][Host] > 0
      BY <1>2 DEF HostTraffic
    <3>2. outs \subseteq Boards
      BY OneOrNoneType
    <3>3. \A s \in Boards : ~ (net[s][Host] > 0)
      BY DEF NoTraffic
    <3>4. QED
      BY <3>1, <3>2, <3>3
  <2>2. NoTraffic'
    BY <1>3, <1>8, <2>1 DEF NoTraffic
  <2>3. \A t \in Threads : idle'[t]
    BY <1>2, <1>5, HomeType DEF ColourInv
  <2>4. QED
    BY <1>4, <1>7, <2>2, <2>3 DEF Clean
<1>13. QED
  BY <1>10, <1>11, <1>12

\* Termination is detected only of an idle system, with the vote of all.
LEMMA DetectionStep ==
  ASSUME TypeOK, RoundInv, SafraInv, NEW b \in Boards,
         NEW ins \in OneOrNone(Threads), NEW outs \in OneOrNone(Boards),
         LastResponse(b, ins, outs), mstate = 0, mstate' = 1
  PROVE  Detection
<1>0. /\ TokensOK /\ BoardsOK /\ MessagesOK /\ MasterOK /\ LocalOK
  BY TypeParts
<1> DEFINE tok == Head(toMaster[b])
<1>1. /\ toMaster[b] # <<>> /\ HostTraffic(ins, outs) /\ IsLast
      /\ UNCHANGED <<idle, voted>>
      /\ Terminated(tok)
      /\ currentVote' = (nextVote /\ tok.vote)
  BY DEF LastResponse, thrVars
<1>2. /\ ~ tok.black /\ ~ localBlack /\ ~ anyBlack
      /\ totalCount + tok.count = 0
  BY <1>1 DEF Terminated
<1>3. \A a \in Boards \ {b} : Counted(a) /\ toMaster[a] = <<>>
  BY <1>0, LastRound DEF Counted, Quiet
<1>4. White
  BY <1>1, <1>2, <1>3 DEF White, WhiteAt
<1>5. Due(b) = tok.count /\ \A a \in Boards \ {b} : Due(a) = 0
  BY <1>1, <1>3 DEF Due
<1>6. Estimate = 0
  <2> DEFINE z == [a \in Boards |-> 0]
             f == Dues
  <2>1. z \in [Boards -> Int] /\ f \in [Boards -> Int] /\ IsFiniteSet(Boards)
    BY EstimateType, FiniteShape
  <2>2. \A a \in Boards : z[a] = 0
    OBVIOUS
  <2>3. f[b] = tok.count /\ \A a \in Boards \ {b} : f[a] = 0
    BY <1>5 DEF Dues
  <2>4. totalCount \in Int
    BY <1>0 DEF MasterOK
  <2> HIDE DEF z, f
  <2>5. Sum(z, Boards) = 0
    BY <2>1, <2>2, SumZero
  <2>6. \A a \in Boards \ {b} : f[a] = z[a]
    BY <2>2, <2>3
  <2>7. Sum(f, Boards) = Sum(z, Boards) + f[b] - z[b]
    BY <2>1, <2>6, SumUpdate
  <2>8. Sum(f, Boards) = tok.count
    <3>1. f[b] \in Int /\ z[b] = 0
      BY <2>1, <2>2
    <3>2. QED
      BY <2>3, <2>5, <2>7, <3>1
  <2>9. QED
    BY <1>2, <2>8 DEF Estimate, f
<1>7. Clean
  BY <1>4, <1>6 DEF SafraInv
<1>8. ins = {} /\ outs = {}
  <2>1. ins = {}
    BY DEF LastResponse, DisableHostMsgsWire
  <2>2. \A s \in outs : net[s][Host] > 0
    BY <1>1 DEF HostTraffic
  <2>3. outs \subseteq Boards
    BY OneOrNoneType
  <2>4. \A s \in Boards : ~ (net[s][Host] > 0)
    BY <1>7 DEF Clean, NoTraffic
  <2>5. QED
    BY <2>1, <2>2, <2>3, <2>4
<1>9. /\ UNCHANGED <<mbox, held, freeing>>
      /\ \A s \in Boards \cup {Host}, d \in Threads \cup {Host} : net'[s][d] = net[s][d]
  BY <1>0, <1>1, <1>8, HostTrafficSum
<1>10. \A a \in Boards : freeing[a] = 0
  BY <1>1, <1>3, <1>7 DEF Clean, Answered
<1>11. Quiescent'
  BY <1>1, <1>7, <1>9, <1>10 DEF Clean, NoTraffic, Quiescent, NoMessages
<1>12. currentVote' <=> \A t \in Threads : voted[t]
  <2>1. currentVote' <=> nextVote /\ tok.vote
    BY <1>1, Zenon
  <2>2. tok.vote <=> Vote(b)
    BY <1>1, <1>7 DEF Clean
  <2>3. nextVote <=> \A a \in Boards : Counted(a) => Vote(a)
    BY <1>7 DEF Clean
  <2>4. \A a \in Boards : Counted(a) <=> a # b
    BY <1>1, <1>3 DEF Counted, Quiet
  <2>5. currentVote' <=> \A a \in Boards : Vote(a)
    BY <2>1, <2>2, <2>3, <2>4, Zenon
  <2>6. (\A a \in Boards : Vote(a)) <=> \A t \in Threads : voted[t]
    <3>1. \A t \in Threads : idle[t] /\ Home(t) \in Boards
      BY <1>7, HomeType DEF Clean
    <3>2. QED
      BY <3>1 DEF Vote
  <2>7. QED
    BY <2>5, <2>6
<1>13. QED
  BY <1>11, <1>12 DEF Detection

-----------------------------------------------------------------------------
(* The inductive invariant.  Each part is about one mechanism and needs    *)
(* the ones before it: where the tokens are, the stages of a barrier, what *)
(* is frozen during a barrier, the colours, the balance of the counts and  *)
(* what a round can conclude from them.                                    *)

IInv ==
  /\ TypeOK /\ RoundInv /\ StageInv /\ BarrierInv /\ ColourInv
  /\ Conservation /\ SafraInv

\* A step that moves no thread and no message and leaves the stages alone.
LEMMA BarrierStill ==
  ASSUME BarrierInv,
         UNCHANGED <<mstate, disableHostMsgsReg, currentVote, thrVars, net, mbox, held,
                     freeing, state, idleStage1Reg>>
  PROVE  BarrierInv'
<1>1. CASE mstate = 1
  <2>1. \A t \in Threads : ThreadInv(t)'
    BY <1>1 DEF BarrierInv, FrozenInv, ThreadInv, thrVars
  <2>2. QED
    BY <1>1, <2>1, BarrierQuiet
<1>2. CASE mstate # 1
  BY <1>2, BarrierFrame DEF thrVars
<1>3. QED
  BY <1>1, <1>2

\* The invariant holds when the threads have been started.
LEMMA IInvInit == Init => IInv
<1> SUFFICES ASSUME Init PROVE IInv
  OBVIOUS
<1>1. TypeOK
  BY InitType
<1>2. RoundInv /\ \A b \in Boards : ~ Answered(b)
  BY RoundInit
<1>3. StageInv
  <2>1. ASSUME NEW b \in Boards PROVE BoardInv(b) /\ AckInv(b)
    BY DEF Init, BoardInv, AckInv
  <2>2. ASSUME NEW c \in Cores PROVE CoreInv(c)
    <3>1. BoardOf[c] \in Boards
      BY ShapeAssumption
    <3>2. QED
      BY <3>1 DEF Init, CoreInv
  <2>3. QED
    BY <2>1, <2>2 DEF StageInv
<1>4. BarrierInv
  BY DEF Init, BarrierInv, FrozenInv
<1>5. ColourInv
  BY HomeType DEF Init, ColourInv
<1>6. Conservation
  <2>1. MessagesOK /\ net \in NetType
    BY <1>1, TypeParts, TrafficNumber
  <2>2. NetSum(net) = 0
    <3> DEFINE f == [p \in Cells |-> net[p[1]][p[2]]]
    <3>1. f \in [Cells -> Int] /\ \A p \in Cells : f[p] = 0
      BY DEF Init, Cells
    <3> HIDE DEF f
    <3>2. Sum(f, Cells) = 0
      BY <3>1, FiniteShape, SumZero
    <3>3. QED
      BY <3>2 DEF NetSum, f
  <2>3. Sum(mbox, Threads) = 0 /\ Sum(held, Threads) = 0
    <3>1. /\ mbox \in [Threads -> Int] /\ held \in [Threads -> Int]
          /\ \A t \in Threads : mbox[t] = 0 /\ held[t] = 0
      BY DEF Init
    <3>2. IsFiniteSet(Threads)
      BY FiniteShape
    <3>3. QED
      BY <3>1, <3>2, SumZero
  <2>4. DueSum(count, freeing) = 0
    <3> DEFINE f == [b \in Boards |-> count[b] - freeing[b]]
    <3>1. f \in [Boards -> Int] /\ \A b \in Boards : f[b] = 0
      BY DEF Init
    <3>2. IsFiniteSet(Boards)
      BY FiniteShape
    <3> HIDE DEF f
    <3>3. Sum(f, Boards) = 0
      BY <3>1, <3>2, SumZero
    <3>4. QED
      BY <3>3 DEF DueSum, f
  <2>5. localCount = 0
    BY DEF Init
  <2>6. QED
    BY <2>2, <2>3, <2>4, <2>5 DEF Conservation, Traffic
<1>7. SafraInv
  <2>1. 0 \in Boards /\ toMaster[0] = <<>> /\ black[0]
    BY BoardsFinite DEF Init
  <2>2. ~ WhiteAt(0)
    BY <1>2, <2>1 DEF WhiteAt, Answered
  <2>3. QED
    BY <2>1, <2>2 DEF SafraInv, White
<1>8. QED
  BY <1>1, <1>2, <1>3, <1>4, <1>5, <1>6, <1>7 DEF IInv

\* A step of a running thread: no thread can run freely during a barrier.
LEMMA RunningStep ==
  ASSUME TypeOK, RoundInv, StageInv, BarrierInv, ColourInv, SafraInv, NEW t \in Threads,
         ThreadStep(t)
  PROVE  RoundInv' /\ StageInv' /\ BarrierInv' /\ ColourInv' /\ SafraInv'
<1>0. /\ ThreadsOK /\ BoardsOK /\ MessagesOK /\ Home(t) \in Boards
  BY TypeParts, HomeType
<1>1. /\ UNCHANGED <<coreVars, state, released, numAcks, tokVars, probeVars, localVars,
                     phase, black>>
      /\ ~ idle[t]
  BY DEF ThreadStep, Send, Recv, Free, Sleep, Running, thrVars, boardVars
<1>2. mstate # 1
  BY Stage1Frozen DEF ThreadStep
<1>3. RoundInv'
  BY <1>1, RoundFrame
<1>4. StageInv'
  BY <1>1, StageFrame
<1>5. UNCHANGED <<mstate, disableHostMsgsReg>>
  BY <1>1 DEF probeVars
<1>6. BarrierInv'
  BY <1>1, <1>2, <1>5, BarrierFrame
<1>7. ColourInv'
  <2>1. ASSUME UNCHANGED idle PROVE ColourInv'
    BY <1>1, <1>5, <2>1, ColourFrame
  <2>2. QED
    BY <1>0, <2>1, SleepColour DEF ThreadStep, Send, Recv, Free, thrVars
<1>8. \A a \in Boards \ {Home(t)} : count'[a] = count[a] /\ freeing'[a] = freeing[a]
  <2>1. /\ count' = count \/ count' = [count EXCEPT ![Home(t)] = count[Home(t)] + 1]
        /\ freeing' = freeing \/ freeing' = [freeing EXCEPT ![Home(t)] = freeing[Home(t)] + 1]
    BY DEF ThreadStep, Send, Recv, Free, Sleep, msgVars, boardVars
  <2>2. count \in [Boards -> Int] /\ freeing \in [Boards -> Nat]
    BY <1>0 DEF BoardsOK, MessagesOK
  <2>3. QED
    BY <1>0, <2>1, <2>2
<1>9. SafraInv'
  BY <1>0, <1>1, <1>8, RunningSafra
<1>10. QED
  BY <1>3, <1>4, <1>6, <1>7, <1>9

\* The invariant but for its first and its sixth part, which every step
\* preserves whatever the rest.
Control == RoundInv /\ StageInv /\ BarrierInv /\ ColourInv /\ SafraInv

\* The steps of the mailboxes.
LEMMA MailboxStep ==
  ASSUME IInv, TypeOK',
         \/ \E t \in Threads : Wake(t)
         \/ \E s \in Boards \cup {Host}, t \in Threads : Deliver(s, t)
         \/ \E b \in Boards : FreeDone(b)
  PROVE  Control'
<1>0. /\ TypeOK /\ RoundInv /\ StageInv /\ BarrierInv /\ ColourInv /\ SafraInv
      /\ ThreadsOK /\ BoardsOK
  BY TypeParts DEF IInv
<1>1. ASSUME NEW t \in Threads, Wake(t) PROVE Control'
  <2>1. UNCHANGED <<coreVars, state, released, numAcks, tokVars, probeVars>>
    BY <1>1 DEF Wake
  <2>2. RoundInv' /\ StageInv'
    BY <1>0, <2>1, RoundFrame, StageFrame
  <2>3. BarrierInv' /\ ColourInv' /\ SafraInv'
    BY <1>0, <1>1, WakeBarrier, WakeColour, WakeSafra
  <2>4. QED
    BY <2>2, <2>3 DEF Control
<1>2. ASSUME NEW s \in Boards \cup {Host}, NEW t \in Threads, Deliver(s, t)
      PROVE  Control'
  <2>1. UNCHANGED <<tokVars, probeVars, thrVars, state, black>>
    BY <1>2 DEF Deliver
  <2>2. RoundInv' /\ StageInv'
    BY <1>0, <1>2, <2>1, RoundFrame, DeliverStage
  <2>3. mstate # 1
    BY <1>0, <1>2, Stage1Frozen
  <2>4. UNCHANGED <<mstate, disableHostMsgsReg, phase, idle>>
    BY <2>1 DEF probeVars, thrVars
  <2>5. BarrierInv' /\ ColourInv'
    BY <1>0, <2>1, <2>3, <2>4, BarrierFrame, ColourFrame
  <2>6. SafraInv'
    BY <1>0, <1>2, DeliverSafra
  <2>7. QED
    BY <2>2, <2>5, <2>6 DEF Control
<1>3. ASSUME NEW b \in Boards, FreeDone(b) PROVE Control'
  <2>1. UNCHANGED <<coreVars, state, released, numAcks, tokVars, probeVars, thrVars, black>>
    BY <1>3 DEF FreeDone
  <2>2. RoundInv' /\ StageInv'
    BY <1>0, <2>1, RoundFrame, StageFrame
  <2>3. mstate # 1
    BY <1>0, <1>3, Stage1Frozen
  <2>4. UNCHANGED <<mstate, disableHostMsgsReg, phase, idle>>
    BY <2>1 DEF probeVars, thrVars
  <2>5. BarrierInv' /\ ColourInv'
    BY <1>0, <2>1, <2>3, <2>4, BarrierFrame, ColourFrame
  <2>6. SafraInv'
    BY <1>0, <1>3, FreeDoneSafra
  <2>7. QED
    BY <2>2, <2>5, <2>6 DEF Control
<1>4. QED
  BY <1>1, <1>2, <1>3

\* The steps of an idle detector that move a token or see one pass.
LEMMA TokenStep ==
  ASSUME IInv, TypeOK',
         \/ \E b \in Boards : \/ InterBoardActivity(b) \/ TokenArrives(b)
                              \/ ForwardToken(b)
         \/ Probe
  PROVE  Control'
<1>0. /\ TypeOK /\ RoundInv /\ StageInv /\ BarrierInv /\ ColourInv /\ SafraInv
      /\ TokensOK /\ CoresOK /\ BoardsOK /\ MasterOK
  BY TypeParts DEF IInv
<1>1. ASSUME RoundInv', StageInv',
             \A a \in Boards : (Counted(a)' <=> Counted(a)) /\ (Answered(a)' <=> Answered(a)),
             UNCHANGED <<thrVars, msgVars, count, black, state, idleStage1Reg, toMaster,
                         localVars, mstate, totalCount, anyBlack, nextVote, currentVote,
                         disableHostMsgsReg>>
      PROVE  Control'
  <2>1. BarrierInv'
    BY <1>0, <1>1, BarrierStill DEF msgVars
  <2>2. ColourInv'
    BY <1>0, <1>1, ColourFrame DEF thrVars
  <2>3. SafraInv'
    BY <1>0, <1>1, SafraFrame DEF thrVars, msgVars, localVars
  <2>4. QED
    BY <1>1, <2>1, <2>2, <2>3 DEF Control
<1>2. ASSUME NEW b \in Boards, InterBoardActivity(b) PROVE Control'
  <2>1. UNCHANGED <<tokVars, probeVars>>
    BY <1>2 DEF InterBoardActivity
  <2>2. /\ RoundInv'
        /\ \A a \in Boards : (Counted(a)' <=> Counted(a)) /\ (Answered(a)' <=> Answered(a))
    BY <1>0, <2>1, RoundFrame
  <2>3. StageInv'
    BY <1>0, <1>2, ActivityStage
  <2>4. QED
    BY <1>1, <1>2, <2>2, <2>3 DEF InterBoardActivity, tokVars, probeVars
<1>3. ASSUME NEW b \in Boards, TokenArrives(b) PROVE Control'
  <2>1. /\ RoundInv'
        /\ \A a \in Boards : (Counted(a)' <=> Counted(a)) /\ (Answered(a)' <=> Answered(a))
    BY <1>0, <1>3, ArriveRound
  <2>2. StageInv'
    BY <1>0, <1>3, ArriveStage
  <2>3. QED
    BY <1>1, <1>3, <2>1, <2>2 DEF TokenArrives, probeVars
<1>4. ASSUME NEW b \in Boards, ForwardToken(b) PROVE Control'
  <2>1. StageInv' /\ mstate = 0
    BY <1>0, <1>4, ForwardStage
  <2>2. RoundInv'
    BY <1>0, <1>4, ReplyRound DEF ForwardToken
  <2>3. UNCHANGED <<mstate, disableHostMsgsReg, phase>>
    BY <1>4 DEF ForwardToken, probeVars, thrVars
  <2>4. BarrierInv'
    BY <1>0, <2>1, <2>3, BarrierFrame
  <2>5. ColourInv' /\ SafraInv'
    BY <1>0, <1>4, <2>1, ForwardColour, ForwardSafra
  <2>6. QED
    BY <2>1, <2>2, <2>4, <2>5 DEF Control
<1>5. CASE Probe
  <2>1. /\ RoundInv'
        /\ \A a \in Boards : (Counted(a)' <=> Counted(a)) /\ (Answered(a)' <=> Answered(a))
    BY <1>0, <1>5, ProbeRound
  <2>2. UNCHANGED <<coreVars, state, released, numAcks, tokenIn, mstate, currentVote>>
    BY <1>5 DEF Probe, boardVars
  <2>3. StageInv'
    BY <1>0, <2>1, <2>2, ProbeStage
  <2>4. QED
    BY <1>1, <1>5, <2>1, <2>3 DEF Probe, boardVars, coreVars
<1>6. QED
  BY <1>2, <1>3, <1>4, <1>5

\* The steps of a barrier.
LEMMA BarrierStep ==
  ASSUME IInv, TypeOK',
         \/ \E c \in Cores : AckStage1(c)
         \/ \E b \in Boards : DetectedStage1(b) \/ EndBarrier(b)
  PROVE  Control'
<1>0. /\ TypeOK /\ RoundInv /\ StageInv /\ BarrierInv /\ ColourInv /\ SafraInv
      /\ TokensOK /\ CoresOK /\ BoardsOK /\ MasterOK
  BY TypeParts DEF IInv
<1>1. ASSUME NEW c \in Cores, AckStage1(c) PROVE Control'
  <2>1. StageInv' /\ BarrierInv' /\ ColourInv'
    BY <1>0, <1>1, AckStage, AckBarrier, AckColour
  <2>2. BoardOf[c] \in Boards /\ mstate = 1 /\ mstate' = 1
    BY <1>0, <1>1, AckEffect
  <2>3. UNCHANGED <<toBoard, probeVars>>
    BY <1>1 DEF AckStage1
  <2>4. \/ tokenIn[BoardOf[c]] # <<>> /\ Reply(BoardOf[c])
        \/ UNCHANGED tokVars
    BY <1>0, <1>1, AckEffect
  <2>5. RoundInv'
    <3>1. CASE UNCHANGED tokVars
      BY <1>0, <2>3, <3>1, RoundFrame
    <3>2. CASE tokenIn[BoardOf[c]] # <<>> /\ Reply(BoardOf[c])
      BY <1>0, <2>2, <2>3, <3>2, ReplyRound
    <3>3. QED
      BY <2>4, <3>1, <3>2
  <2>6. SafraInv'
    BY <2>2 DEF SafraInv
  <2>7. QED
    BY <2>1, <2>5, <2>6 DEF Control
<1>2. ASSUME NEW b \in Boards, DetectedStage1(b) PROVE Control'
  <2>1. /\ StageInv' /\ mstate = 1 /\ state'[b] = 1
        /\ \A a \in Boards \ {b} : state'[a] = state[a]
    BY <1>0, <1>2, DetectedStage
  <2>2. BarrierInv'
    BY <1>0, <1>2, DetectedBarrier
  <2>3. UNCHANGED <<tokVars, probeVars, idle, black>>
    BY <1>2 DEF DetectedStage1, thrVars
  <2>4. RoundInv'
    BY <1>0, <2>3, RoundFrame
  <2>5. mstate' = 1
    BY <2>1, <2>3 DEF probeVars
  <2>6. ColourInv'
    BY <1>0, <2>1, <2>3, <2>5 DEF ColourInv
  <2>7. SafraInv'
    BY <2>5 DEF SafraInv
  <2>8. QED
    BY <2>1, <2>2, <2>4, <2>6, <2>7 DEF Control
<1>3. ASSUME NEW b \in Boards, EndBarrier(b) PROVE Control'
  <2>1. StageInv' /\ mstate = 2
    BY <1>0, <1>3, EndStage
  <2>2. RoundInv'
    BY <1>0, <1>3, ReplyRound DEF EndBarrier
  <2>3. UNCHANGED <<mstate, disableHostMsgsReg, phase, idle, black>>
    BY <1>3 DEF EndBarrier, probeVars, thrVars
  <2>4. BarrierInv'
    BY <1>0, <2>1, <2>3, BarrierFrame
  <2>5. ColourInv'
    BY <1>0, <2>1, <2>3 DEF ColourInv
  <2>6. SafraInv'
    BY <2>1, <2>3 DEF SafraInv
  <2>7. QED
    BY <2>1, <2>2, <2>4, <2>5, <2>6 DEF Control
<1>4. QED
  BY <1>1, <1>2, <1>3

\* The steps of the bridge board but for the last answer of a round.
LEMMA HostStep ==
  ASSUME IInv, TypeOK', NEW ins \in OneOrNone(Threads), NEW outs \in OneOrNone(Boards),
         HostMsgs(ins, outs) \/ \E b \in Boards : Response(b, ins, outs)
  PROVE  Control'
<1>0. /\ TypeOK /\ RoundInv /\ StageInv /\ BarrierInv /\ ColourInv /\ SafraInv
      /\ TokensOK /\ MasterOK
  BY TypeParts DEF IInv
<1>1. ASSUME HostTraffic(ins, outs), ins # {} => ~ disableHostMsgsReg,
             UNCHANGED <<mstate, disableHostMsgsReg, currentVote, thrVars, coreVars,
                         boardVars>>
      PROVE  BarrierInv' /\ ColourInv'
  <2>1. BarrierInv'
    BY <1>0, <1>1, TrafficBarrier
  <2>2. ColourInv'
    BY <1>0, <1>1, ColourFrame DEF thrVars, boardVars
  <2>3. QED
    BY <2>1, <2>2
<1>2. CASE HostMsgs(ins, outs)
  <2>1. /\ HostTraffic(ins, outs)
        /\ ins # {} => ~ disableHostMsgsReg
        /\ UNCHANGED <<tokVars, probeVars, thrVars, coreVars, boardVars>>
    BY <1>2 DEF HostMsgs
  <2>2. RoundInv'
    BY <1>0, <2>1, RoundFrame
  <2>3. StageInv'
    BY <1>0, <2>1, StageFrame DEF boardVars
  <2>4. BarrierInv' /\ ColourInv'
    BY <1>1, <2>1 DEF probeVars
  <2>5. SafraInv'
    <3>1. localBlack' = TRUE
      BY <1>2 DEF HostMsgs
    <3>2. QED
      BY <3>1 DEF SafraInv, White
  <2>6. QED
    BY <2>2, <2>3, <2>4, <2>5 DEF Control
<1>3. ASSUME NEW b \in Boards, Response(b, ins, outs) PROVE Control'
  <2>1. /\ HostTraffic(ins, outs)
        /\ ins # {} => ~ disableHostMsgsReg
        /\ UNCHANGED <<mstate, disableHostMsgsReg, currentVote, thrVars, coreVars,
                       boardVars, tokenIn>>
    BY <1>3 DEF Response
  <2>2. RoundInv' /\ \A a \in Boards : Answered(a)' <=> Answered(a)
    BY <1>0, <1>3, TakeRound
  <2>3. StageInv'
    BY <1>0, <2>1, <2>2, ProbeStage DEF boardVars
  <2>4. BarrierInv' /\ ColourInv'
    BY <1>1, <2>1
  <2>5. SafraInv'
    BY <1>0, <1>3, ResponseSafra
  <2>6. QED
    BY <2>2, <2>3, <2>4, <2>5 DEF Control
<1>4. QED
  BY <1>2, <1>3

\* The last answer of a round.
LEMMA LastStep ==
  ASSUME IInv, TypeOK', NEW ins \in OneOrNone(Threads), NEW outs \in OneOrNone(Boards),
         NEW b \in Boards, LastResponse(b, ins, outs)
  PROVE  Control' /\ (mstate = 0 /\ mstate' = 1 => Detection)
<1>0. /\ TypeOK /\ RoundInv /\ StageInv /\ BarrierInv /\ ColourInv /\ SafraInv
      /\ Conservation /\ TokensOK /\ BoardsOK /\ MasterOK
  BY TypeParts DEF IInv
<1>1. mstate = 0 /\ mstate' = 1 => Detection
  BY <1>0, DetectionStep
<1>2. RoundInv'
  BY <1>0, LastRound
<1>3. StageInv'
  BY <1>0, LastStage
<1>4. BarrierInv'
  BY <1>0, <1>1, LastBarrier
<1>5. ColourInv'
  BY <1>0, LastColour
<1>6. SafraInv'
  BY <1>0, LastSafra
<1>7. QED
  BY <1>1, <1>2, <1>3, <1>4, <1>5, <1>6 DEF Control

\* Nothing happens.
LEMMA StutterStep ==
  ASSUME IInv, UNCHANGED vars
  PROVE  Control'
<1>0. RoundInv /\ StageInv /\ BarrierInv /\ ColourInv /\ SafraInv
  BY DEF IInv
<1>1. UNCHANGED <<thrVars, msgVars, coreVars, boardVars, tokVars, probeVars, localVars>>
  BY DEF vars
<1>2. UNCHANGED <<idle, voted, net, mbox, held, freeing, count, black, toMaster, state,
                  localBlack, mstate, totalCount, anyBlack, nextVote, currentVote,
                  disableHostMsgsReg, idleStage1Reg, released, numAcks>>
  BY <1>1 DEF thrVars, msgVars, coreVars, boardVars, tokVars, probeVars, localVars
<1>3. /\ RoundInv'
      /\ \A a \in Boards : (Counted(a)' <=> Counted(a)) /\ (Answered(a)' <=> Answered(a))
  BY <1>0, <1>1, RoundFrame
<1>4. StageInv' /\ BarrierInv' /\ ColourInv'
  BY <1>0, <1>1, <1>2, StageFrame, BarrierStill, ColourFrame
<1>5. SafraInv'
  BY <1>0, <1>2, <1>3, SafraFrame
<1>6. QED
  BY <1>3, <1>4, <1>5 DEF Control

\* Every step preserves the invariant, and detects only what is so.
LEMMA IInvStep ==
  ASSUME IInv, [Next]_vars
  PROVE  IInv' /\ (mstate = 0 /\ mstate' = 1 => Quiescent')
<1>0. /\ TypeOK /\ RoundInv /\ StageInv /\ BarrierInv /\ ColourInv /\ SafraInv
      /\ Conservation
  BY DEF IInv
<1>1. TypeOK'
  BY <1>0, TypeStep
<1>2. Conservation'
  BY <1>0, <1>1, ConservationStep
<1>3. SUFFICES Control' /\ (mstate = 0 /\ mstate' = 1 => Quiescent')
  BY <1>1, <1>2 DEF Control, IInv
<1>4. ASSUME NEW t \in Threads, ThreadStep(t) \/ Wake(t)
      PROVE  Control' /\ mstate' = mstate
  <2>1. ThreadStep(t) => Control'
    BY <1>0, RunningStep DEF Control
  <2>2. Wake(t) => Control'
    BY <1>1, MailboxStep
  <2>3. mstate' = mstate
    BY <1>4 DEF ThreadStep, Send, Recv, Free, Sleep, Wake, probeVars
  <2>4. QED
    BY <1>4, <2>1, <2>2, <2>3
<1>5. ASSUME NEW s \in Boards \cup {Host}, NEW t \in Threads, Deliver(s, t)
      PROVE  Control' /\ mstate' = mstate
  BY <1>1, <1>5, MailboxStep DEF Deliver, probeVars
<1>6. ASSUME NEW c \in Cores, AckStage1(c)
      PROVE  Control' /\ mstate' = mstate
  BY <1>1, <1>6, BarrierStep DEF AckStage1, probeVars
<1>7. ASSUME NEW b \in Boards, BoardStep(b)
      PROVE  Control' /\ mstate' = mstate
  <2>1. Control'
    BY <1>1, <1>7, MailboxStep, TokenStep, BarrierStep DEF BoardStep
  <2>2. mstate' = mstate
    BY <1>7 DEF BoardStep, FreeDone, InterBoardActivity, TokenArrives, ForwardToken,
       DetectedStage1, EndBarrier, probeVars
  <2>3. QED
    BY <2>1, <2>2
<1>8. CASE Probe
  BY <1>1, <1>8, TokenStep DEF Probe
<1>9. ASSUME NEW ins \in OneOrNone(Threads), NEW outs \in OneOrNone(Boards),
             HostMsgs(ins, outs) \/ \E b \in Boards : Response(b, ins, outs)
      PROVE  Control' /\ mstate' = mstate
  <2>1. Control'
    BY <1>1, <1>9, HostStep
  <2>2. mstate' = mstate
    BY <1>9 DEF HostMsgs, Response, probeVars
  <2>3. QED
    BY <2>1, <2>2
<1>10. ASSUME NEW ins \in OneOrNone(Threads), NEW outs \in OneOrNone(Boards),
              NEW b \in Boards, LastResponse(b, ins, outs)
       PROVE  Control' /\ (mstate = 0 /\ mstate' = 1 => Quiescent')
  BY <1>1, <1>10, LastStep DEF Detection
<1>11. CASE UNCHANGED vars
  BY <1>11, StutterStep DEF vars, probeVars
<1>12. CASE BridgeStep
  <2>1. PICK ins \in OneOrNone(Threads), outs \in OneOrNone(Boards) :
          \/ HostMsgs(ins, outs)
          \/ \E b \in Boards : Response(b, ins, outs) \/ LastResponse(b, ins, outs)
    BY <1>12 DEF BridgeStep
  <2>2. CASE HostMsgs(ins, outs) \/ \E b \in Boards : Response(b, ins, outs)
    BY <1>9, <2>2
  <2>3. CASE \E b \in Boards : LastResponse(b, ins, outs)
    BY <1>10, <2>3
  <2>4. QED
    BY <2>1, <2>2, <2>3
<1>13. QED
  BY <1>4, <1>5, <1>6, <1>7, <1>8, <1>11, <1>12 DEF Next

-----------------------------------------------------------------------------
(* The theorems                                                            *)

\* The invariant, for any number of boards, cores and threads, any placement
\* and any number of messages.
THEOREM Invariance == Spec => []IInv
<1>1. Init => IInv
  BY IInvInit
<1>2. IInv /\ [Next]_vars => IInv'
  BY IInvStep
<1>3. QED
  BY <1>1, <1>2, PTL DEF Spec

\* Termination is detected only when every thread is in tinselIdle and no
\* message is undelivered, unreceived or unfreed: the test of the master on
\* the last answer of a round.
THEOREM Detects == Spec => DetectionSound
<1>1. IInv /\ [Next]_vars => [mstate = 0 /\ mstate' = 1 => Quiescent']_vars
  BY IInvStep
<1>2. QED
  BY <1>1, Invariance, PTL DEF Spec, DetectionSound

\* The assertions of the idle detector hold: one token per board, and a probe
\* finds the board in state 0.
THEOREM Tokens == Spec => []OneToken
<1>1. IInv => OneToken
  <2> SUFFICES ASSUME IInv, NEW b \in Boards
               PROVE  /\ Len(toBoard[b]) + Len(tokenIn[b]) + Len(toMaster[b]) <= 1
                      /\ tokenIn[b] # <<>> /\ ~ Head(tokenIn[b]).done => state[b] = 0
    BY DEF OneToken
  <2>1. TokenInv(b)
    BY DEF IInv, RoundInv
  <2>2. BoardInv(b)
    BY DEF IInv, StageInv
  <2>3. tokenIn[b] # <<>> /\ ~ Head(tokenIn[b]).done => mstate = 0
    BY <2>1 DEF TokenInv, Stage
  <2>4. QED
    BY <2>1, <2>2, <2>3 DEF TokenInv, BoardInv
<1>2. QED
  BY <1>1, Invariance, PTL

\* A thread that may send has come out of as many barriers as every other.
THEOREM Barriers == Spec => []BarrierSafe
<1>1. IInv => BarrierSafe
  <2> SUFFICES ASSUME IInv, NEW t \in Threads, Running(t), ~ idleDetected[CoreOf[t]],
                      NEW u \in Threads
               PROVE  phase[u] = phase[t]
    BY DEF BarrierSafe
  <2>1. StageInv /\ BarrierInv /\ BoardsOK
    BY TypeParts DEF IInv
  <2>2. mstate # 1
    BY <2>1, Stage1Disabled
  <2>3. QED
    BY <2>1, <2>2 DEF BarrierInv
<1>2. QED
  BY <1>1, Invariance, PTL

\* A board enables messaging again only after every thread of the system has
\* come out of the barrier, when no core has an acknowledgement pending.
THEOREM Releases == Spec => []ReleaseSound
<1>1. IInv => ReleaseSound
  <2> SUFFICES ASSUME IInv, NEW b \in Boards, released[b]
               PROVE  /\ \A c \in Cores : ~ idleStage1Reg[c]
                      /\ \A u, t \in Threads : phase[u] = phase[t]
    BY DEF ReleaseSound
  <2>1. mstate = 2
    BY DEF IInv, StageInv, BoardInv
  <2>2. ASSUME NEW c \in Cores PROVE ~ idleStage1Reg[c]
    <3>1. BoardOf[c] \in Boards
      BY ShapeAssumption
    <3>2. state[BoardOf[c]] # 1
      BY <2>1, <3>1 DEF IInv, StageInv, BoardInv
    <3>3. QED
      BY <3>2 DEF IInv, StageInv, CoreInv
  <2>3. QED
    BY <2>1, <2>2 DEF IInv, BarrierInv
<1>2. QED
  BY <1>1, Invariance, PTL

\* The vote a core passes to its threads is the conjunction of all votes.
THEOREM Unanimity == Spec => []VoteUnanimous
<1>1. IInv => VoteUnanimous
  <2> SUFFICES ASSUME IInv, NEW c \in Cores, idleStage1Reg[c]
               PROVE  voteStage1Reg[c] <=> \A t \in Threads : voted[t]
    BY DEF VoteUnanimous
  <2>1. BoardOf[c] \in Boards /\ state[BoardOf[c]] = 1 /\ voteStage1Reg[c] = currentVote
    BY ShapeAssumption DEF IInv, StageInv, CoreInv
  <2>2. mstate = 1
    <3>1. mstate \in 0 .. 2
      BY TypeParts DEF IInv, MasterOK
    <3>2. QED
      BY <2>1, <3>1 DEF IInv, StageInv, BoardInv
  <2>3. currentVote <=> \A t \in Threads : voted[t]
    BY <2>2 DEF IInv, BarrierInv, FrozenInv
  <2>4. QED
    BY <2>1, <2>3
<1>2. QED
  BY <1>1, Invariance, PTL

=============================================================================
