---------------------------- MODULE MailboxProofs ----------------------------
(***************************************************************************)
(* Proofs about Mailbox, for every number of cores, threads, slots, flits  *)
(* and messages, and every size of the queues: its invariants, and then    *)
(* that it implements LocalMulticast, every thread receiving the messages  *)
(* for it, each once and in order of arrival.                              *)
(***************************************************************************)
EXTENDS Mailbox, CommonTheorems

-----------------------------------------------------------------------------
(* The shape of the machine                                                *)

\* Threads are numbered core by core.
LEMMA ThreadShape ==
  /\ NumCores * ThreadsPerCore \in Nat
  /\ IsFiniteSet(Threads) /\ Cardinality(Threads) = NumCores * ThreadsPerCore
  /\ 0 \in Threads
  /\ \A t \in Threads : t \in Nat /\ CoreOf(t) \in Cores /\ t \in ThreadsOn(CoreOf(t))
  /\ \A c \in Cores : \A t \in ThreadsOn(c) : t \in Threads /\ CoreOf(t) = c
<1>1. NumCores \in Nat \ {0} /\ ThreadsPerCore \in Nat \ {0}
  BY MailboxAssumption
<1>2. NumCores * ThreadsPerCore \in Nat \ {0}
  BY <1>1
<1>3. \A t \in Threads : t \in Nat /\ CoreOf(t) \in Cores
  BY <1>1 DEF Threads, Cores, CoreOf
<1>4. IsFiniteSet(Threads) /\ Cardinality(Threads) = NumCores * ThreadsPerCore
  <2> DEFINE N == NumCores * ThreadsPerCore
  <2>1. N \in Nat /\ Threads = 0 .. N - 1
    BY <1>2 DEF Threads
  <2> HIDE DEF N
  <2>2. IsFiniteSet(Threads) /\ Cardinality(Threads) = N
    BY <2>1, FS_Interval
  <2>3. QED
    BY <2>2 DEF N
<1>5. 0 \in Threads
  BY <1>2 DEF Threads
<1>6. QED
  BY <1>2, <1>3, <1>4, <1>5 DEF ThreadsOn

LEMMA SlotShape == Stale \in Slots /\ Slots \subseteq Nat /\ IsFiniteSet(Slots)
<1>1. NumSendSlots \in Nat /\ NumSlots \in Nat /\ NumSendSlots < NumSlots
  BY MailboxAssumption
<1>2. IsFiniteSet(Slots)
  BY <1>1, FS_Interval DEF Slots
<1>3. QED
  BY <1>1, <1>2 DEF Slots, Stale

-----------------------------------------------------------------------------
(* Type correctness, one part of the state at a time                       *)

Held == [slot : Slots, flits : [0 .. MaxFlits - 1 -> Nat]]
Entry == [dests : SUBSET Threads, slot : Slots]
Answer == [status : SleepStatus, data : Slots]

ThreadsOK ==
  /\ suspended \in [Threads -> BOOLEAN] /\ sure \in [Threads -> BOOLEAN]
  /\ canSend \in [Threads -> BOOLEAN]

HeldOK == held \in [Threads -> SUBSET Held]

SlotsOK ==
  /\ initNext \in NumSendSlots .. NumSlots
  /\ freeSlots \in Seq(Slots)
  /\ recvFlitCount \in 0 .. MaxFlits - 1

ScratchOK == scratchpad \in [Slots -> [0 .. MaxFlits - 1 -> Nat]]

CountsOK == refCount \in [Slots -> 0 .. NumCores * ThreadsPerCore]

McastOK ==
  /\ mcastBuffer \in [Cores -> Seq(Entry)]
  /\ mcastState \in [Cores -> 0 .. 2]
  /\ mcastDests \in [Cores -> SUBSET Threads]
  /\ mcastSlot \in [Cores -> Slots] /\ mcastDest \in [Cores -> Threads]

EnqOK == enqStage2 \in [Cores -> {<<>>} \cup (Threads \X Slots)]

RamOK ==
  /\ ramFront \in [Threads -> 0 .. QueueSize - 1]
  /\ ramBack \in [Threads -> 0 .. QueueSize - 1]
  /\ ramData \in [Threads -> [0 .. QueueSize - 1 -> Slots]]

ServeOK ==
  /\ rxReq \in [Cores -> Seq(SleepStatus)]
  /\ serveState \in [Cores -> 0 .. 2] /\ canDeq \in [Cores -> BOOLEAN]
  /\ itemOut \in [Cores -> Slots]
  /\ recvResp \in [Cores -> Seq(Answer)]

FreeOK ==
  /\ freeReq \in Seq(Slots) /\ freeState \in 0 .. 1
  /\ refCountOut \in 0 .. NumCores * ThreadsPerCore

SleepOK == sleepQueue \in [Cores -> Seq(SleepStatus)]

HistoryOK == arrived \in Seq(SUBSET Threads) /\ got \in [Threads -> Seq(Nat)]

\* The parts make up the type invariant.
LEMMA TypeParts ==
  TypeOK <=> /\ ThreadsOK /\ HeldOK /\ SlotsOK /\ ScratchOK /\ CountsOK
             /\ McastOK /\ EnqOK /\ RamOK /\ ServeOK /\ FreeOK /\ SleepOK
             /\ HistoryOK
BY DEF TypeOK, ThreadsOK, HeldOK, SlotsOK, ScratchOK, CountsOK, McastOK, EnqOK, RamOK,
       ServeOK, FreeOK, SleepOK, HistoryOK, Held, Entry, Answer

\* A part that a step leaves alone keeps its type.
LEMMA TypeFrame ==
  /\ ThreadsOK /\ UNCHANGED <<suspended, sure, canSend>> => ThreadsOK'
  /\ HeldOK /\ UNCHANGED held => HeldOK'
  /\ SlotsOK /\ UNCHANGED <<initNext, freeSlots, recvFlitCount>> => SlotsOK'
  /\ ScratchOK /\ UNCHANGED scratchpad => ScratchOK'
  /\ CountsOK /\ UNCHANGED refCount => CountsOK'
  /\ McastOK /\ UNCHANGED mcastVars => McastOK'
  /\ EnqOK /\ UNCHANGED enqStage2 => EnqOK'
  /\ RamOK /\ UNCHANGED <<ramFront, ramBack, ramData>> => RamOK'
  /\ ServeOK /\ UNCHANGED serveVars => ServeOK'
  /\ FreeOK /\ UNCHANGED freeVars => FreeOK'
  /\ SleepOK /\ UNCHANGED sleepQueue => SleepOK'
  /\ HistoryOK /\ UNCHANGED <<arrived, got>> => HistoryOK'
<1>1. /\ ThreadsOK /\ UNCHANGED <<suspended, sure, canSend>> => ThreadsOK'
      /\ HeldOK /\ UNCHANGED held => HeldOK'
      /\ SlotsOK /\ UNCHANGED <<initNext, freeSlots, recvFlitCount>> => SlotsOK'
      /\ ScratchOK /\ UNCHANGED scratchpad => ScratchOK'
      /\ CountsOK /\ UNCHANGED refCount => CountsOK'
  BY DEF ThreadsOK, HeldOK, SlotsOK, ScratchOK, CountsOK
<1>2. /\ McastOK /\ UNCHANGED mcastVars => McastOK'
      /\ EnqOK /\ UNCHANGED enqStage2 => EnqOK'
      /\ RamOK /\ UNCHANGED <<ramFront, ramBack, ramData>> => RamOK'
  BY DEF McastOK, EnqOK, RamOK, mcastVars
<1>3. /\ ServeOK /\ UNCHANGED serveVars => ServeOK'
      /\ FreeOK /\ UNCHANGED freeVars => FreeOK'
  BY DEF ServeOK, FreeOK, serveVars, freeVars
<1>4. /\ SleepOK /\ UNCHANGED sleepQueue => SleepOK'
      /\ HistoryOK /\ UNCHANGED <<arrived, got>> => HistoryOK'
  BY DEF SleepOK, HistoryOK
<1>5. QED
  BY <1>1, <1>2, <1>3, <1>4

-----------------------------------------------------------------------------
(* Where a suspended thread waits                                          *)

Ind(p) == IF p THEN 1 ELSE 0

StatusOf(t) == {st \in SleepStatus : st.id = t}
AnswerOf(t) == {r \in Answer : r.status.id = t}

\* The places of thread t, as counts of elements.
PlaceSum(t) ==
  Hits(sleepQueue[CoreOf(t)], StatusOf(t)) + Hits(rxReq[CoreOf(t)], StatusOf(t))
  + Hits(recvResp[CoreOf(t)], AnswerOf(t))

PlaceInv == \A t \in Threads : PlaceSum(t) = Ind(suspended[t])

LEMMA PlacesAreHits ==
  ASSUME SleepOK, ServeOK, NEW t \in Threads
  PROVE  Places(t) = PlaceSum(t)
<1> DEFINE c == CoreOf(t)
<1>1. c \in Cores
  BY ThreadShape
<1> HIDE DEF c
<1>2. /\ sleepQueue[c] \in Seq(SleepStatus) /\ rxReq[c] \in Seq(SleepStatus)
      /\ recvResp[c] \in Seq(Answer)
  BY <1>1 DEF SleepOK, ServeOK
<1>3. ASSUME NEW q \in Seq(SleepStatus)
      PROVE  {i \in 1 .. Len(q) : q[i].id = t} = {i \in 1 .. Len(q) : q[i] \in StatusOf(t)}
  BY DEF StatusOf
<1>4. ASSUME NEW q \in Seq(Answer)
      PROVE  {i \in 1 .. Len(q) : q[i].status.id = t}
               = {i \in 1 .. Len(q) : q[i] \in AnswerOf(t)}
  BY DEF AnswerOf
<1>5. QED
  BY <1>2, <1>3, <1>4 DEF Places, PlaceSum, Hits, c

\* One queue of threads: the counts of its elements.
LEMMA StatusCount ==
  ASSUME NEW q \in Seq(SleepStatus), NEW t \in Threads
  PROVE  /\ Hits(q, StatusOf(t)) \in Nat
         /\ Hits(q, StatusOf(t)) = 0 <=> \A st \in Range(q) : st.id # t
         /\ q # <<>> =>
              /\ Head(q) \in SleepStatus /\ Tail(q) \in Seq(SleepStatus)
              /\ Range(q) = Range(Tail(q)) \cup {Head(q)}
              /\ Hits(q, StatusOf(t)) = Hits(Tail(q), StatusOf(t)) + Ind(Head(q).id = t)
         /\ \A st \in SleepStatus :
              /\ Append(q, st) \in Seq(SleepStatus)
              /\ Range(Append(q, st)) = Range(q) \cup {st}
              /\ Hits(Append(q, st), StatusOf(t)) = Hits(q, StatusOf(t)) + Ind(st.id = t)
<1>1. \A st \in SleepStatus : st \in StatusOf(t) <=> st.id = t
  BY DEF StatusOf
<1>2. Range(q) \subseteq SleepStatus
  BY RangeType
<1>3. /\ Hits(q, StatusOf(t)) \in Nat
      /\ Hits(q, StatusOf(t)) = 0 <=> \A st \in Range(q) : st \notin StatusOf(t)
  BY HitsRange
<1>4. ASSUME q # <<>>
      PROVE  /\ Head(q) \in SleepStatus /\ Tail(q) \in Seq(SleepStatus)
             /\ Range(q) = Range(Tail(q)) \cup {Head(q)}
             /\ Hits(q, StatusOf(t)) = Hits(Tail(q), StatusOf(t)) + Ind(Head(q).id = t)
  <2>1. /\ Head(q) \in SleepStatus /\ Tail(q) \in Seq(SleepStatus)
        /\ Range(q) = Range(Tail(q)) \cup {Head(q)}
    BY <1>4, RangeTail
  <2>2. Hits(q, StatusOf(t)) = Hits(Tail(q), StatusOf(t))
                                 + (IF Head(q) \in StatusOf(t) THEN 1 ELSE 0)
    BY <1>4, HitsTail
  <2>3. QED
    BY <1>1, <2>1, <2>2 DEF Ind
<1>5. ASSUME NEW st \in SleepStatus
      PROVE  /\ Append(q, st) \in Seq(SleepStatus)
             /\ Range(Append(q, st)) = Range(q) \cup {st}
             /\ Hits(Append(q, st), StatusOf(t)) = Hits(q, StatusOf(t)) + Ind(st.id = t)
  <2>1. /\ Append(q, st) \in Seq(SleepStatus)
        /\ Range(Append(q, st)) = Range(q) \cup {st}
    BY RangeAppend
  <2>2. Hits(Append(q, st), StatusOf(t)) = Hits(q, StatusOf(t))
                                 + (IF st \in StatusOf(t) THEN 1 ELSE 0)
    BY HitsAppend
  <2>3. QED
    BY <1>1, <2>1, <2>2 DEF Ind
<1>6. QED
  BY <1>1, <1>2, <1>3, <1>4, <1>5

\* The same for answers.
LEMMA AnswerCount ==
  ASSUME NEW q \in Seq(Answer), NEW t \in Threads
  PROVE  /\ Hits(q, AnswerOf(t)) \in Nat
         /\ Hits(q, AnswerOf(t)) = 0 <=> \A r \in Range(q) : r.status.id # t
         /\ q # <<>> =>
              /\ Head(q) \in Answer /\ Tail(q) \in Seq(Answer)
              /\ Range(q) = Range(Tail(q)) \cup {Head(q)}
              /\ Hits(q, AnswerOf(t))
                   = Hits(Tail(q), AnswerOf(t)) + Ind(Head(q).status.id = t)
         /\ \A r \in Answer :
              /\ Append(q, r) \in Seq(Answer)
              /\ Range(Append(q, r)) = Range(q) \cup {r}
              /\ Hits(Append(q, r), AnswerOf(t))
                   = Hits(q, AnswerOf(t)) + Ind(r.status.id = t)
<1>1. \A r \in Answer : r \in AnswerOf(t) <=> r.status.id = t
  BY DEF AnswerOf
<1>2. Range(q) \subseteq Answer
  BY RangeType
<1>3. /\ Hits(q, AnswerOf(t)) \in Nat
      /\ Hits(q, AnswerOf(t)) = 0 <=> \A r \in Range(q) : r \notin AnswerOf(t)
  BY HitsRange
<1>4. ASSUME q # <<>>
      PROVE  /\ Head(q) \in Answer /\ Tail(q) \in Seq(Answer)
             /\ Range(q) = Range(Tail(q)) \cup {Head(q)}
             /\ Hits(q, AnswerOf(t))
                  = Hits(Tail(q), AnswerOf(t)) + Ind(Head(q).status.id = t)
  <2>1. /\ Head(q) \in Answer /\ Tail(q) \in Seq(Answer)
        /\ Range(q) = Range(Tail(q)) \cup {Head(q)}
    BY <1>4, RangeTail
  <2>2. Hits(q, AnswerOf(t)) = Hits(Tail(q), AnswerOf(t))
                                 + (IF Head(q) \in AnswerOf(t) THEN 1 ELSE 0)
    BY <1>4, HitsTail
  <2>3. QED
    BY <1>1, <2>1, <2>2 DEF Ind
<1>5. ASSUME NEW r \in Answer
      PROVE  /\ Append(q, r) \in Seq(Answer)
             /\ Range(Append(q, r)) = Range(q) \cup {r}
             /\ Hits(Append(q, r), AnswerOf(t))
                  = Hits(q, AnswerOf(t)) + Ind(r.status.id = t)
  <2>1. Append(q, r) \in Seq(Answer) /\ Range(Append(q, r)) = Range(q) \cup {r}
    BY RangeAppend
  <2>2. Hits(Append(q, r), AnswerOf(t)) = Hits(q, AnswerOf(t))
                                 + (IF r \in AnswerOf(t) THEN 1 ELSE 0)
    BY HitsAppend
  <2>3. QED
    BY <1>1, <2>1, <2>2 DEF Ind
<1>6. QED
  BY <1>1, <1>2, <1>3, <1>4, <1>5

-----------------------------------------------------------------------------
(* The invariant of waiting                                                *)

Nonempty(t) == ramFront[t] # ramBack[t]

\* The item of thread t has left its queue and not yet reached an answer.
Serving(c, t) ==
  serveState[c] = 2 /\ Head(rxReq[c]).op = "Recv" /\ Head(rxReq[c]).id = t

Answered(c, t) ==
  \E r \in Range(recvResp[c]) : r.status.op = "Recv" /\ r.status.id = t

\* A queue of a core holds statuses of the threads of that core; a thread
\* asks to receive only if it is sure; and where the status says that the
\* thread can receive, there is something in its queue.
AskInv(c) ==
  /\ \A st \in Range(sleepQueue[c]) :
       /\ CoreOf(st.id) = c
       /\ st.op = "Recv" => sure[st.id]
       /\ st.canRecv => Nonempty(st.id)
  /\ \A st \in Range(rxReq[c]) :
       /\ CoreOf(st.id) = c
       /\ st.op = "Recv" => sure[st.id]
  /\ \A r \in Range(recvResp[c]) :
       /\ CoreOf(r.status.id) = c
       /\ r.status.op # "Recv" /\ r.status.canRecv => Nonempty(r.status.id)

\* What the receive unit found out about the thread it serves is still true.
ServeInv(c) ==
  /\ serveState[c] # 0 => rxReq[c] # <<>>
  /\ serveState[c] = 1 => Head(rxReq[c]).op = "Recv" /\ canDeq[c]
  /\ serveState[c] = 2 /\ Head(rxReq[c]).op # "Recv" /\ canDeq[c]
       => Nonempty(Head(rxReq[c]).id)

\* A thread that was told that it can receive will find something.
SureInv == \A t \in Threads :
  sure[t] => Nonempty(t) \/ Serving(CoreOf(t), t) \/ Answered(CoreOf(t), t)

WaitInv ==
  /\ PlaceInv
  /\ \A c \in Cores : AskInv(c)
  /\ \A c \in Cores : ServeInv(c)
  /\ SureInv

WaitTypes == ThreadsOK /\ RamOK /\ ServeOK /\ SleepOK

\* The waits concern only these variables.
LEMMA WaitFrame ==
  ASSUME WaitInv,
         UNCHANGED <<suspended, sure, rxReq, serveState, canDeq, recvResp,
                     sleepQueue, ramFront, ramBack>>
  PROVE  WaitInv'
<1>1. PlaceInv'
  BY DEF WaitInv, PlaceInv, PlaceSum
<1>2. \A c \in Cores : AskInv(c)'
  BY DEF WaitInv, AskInv, Nonempty
<1>3. \A c \in Cores : ServeInv(c)'
  BY DEF WaitInv, ServeInv, Nonempty
<1>4. SureInv'
  BY DEF WaitInv, SureInv, Nonempty, Serving, Answered
<1>5. QED
  BY <1>1, <1>2, <1>3, <1>4 DEF WaitInv

\* A thread is in one place, once.
LEMMA Alone ==
  ASSUME WaitTypes, PlaceInv, NEW t \in Threads, NEW c, c = CoreOf(t)
  PROVE  /\ c \in Cores
         /\ ~ suspended[t] =>
              /\ \A st \in Range(sleepQueue[c]) : st.id # t
              /\ \A st \in Range(rxReq[c]) : st.id # t
              /\ \A r \in Range(recvResp[c]) : r.status.id # t
         /\ sleepQueue[c] # <<>> /\ Head(sleepQueue[c]).id = t =>
              /\ suspended[t]
              /\ \A st \in Range(Tail(sleepQueue[c])) : st.id # t
              /\ \A st \in Range(rxReq[c]) : st.id # t
              /\ \A r \in Range(recvResp[c]) : r.status.id # t
         /\ rxReq[c] # <<>> /\ Head(rxReq[c]).id = t =>
              /\ suspended[t]
              /\ \A st \in Range(sleepQueue[c]) : st.id # t
              /\ \A st \in Range(Tail(rxReq[c])) : st.id # t
              /\ \A r \in Range(recvResp[c]) : r.status.id # t
         /\ recvResp[c] # <<>> /\ Head(recvResp[c]).status.id = t =>
              /\ suspended[t]
              /\ \A st \in Range(sleepQueue[c]) : st.id # t
              /\ \A st \in Range(rxReq[c]) : st.id # t
              /\ \A r \in Range(Tail(recvResp[c])) : r.status.id # t
<1>1. c \in Cores
  BY ThreadShape
<1>2. /\ sleepQueue[c] \in Seq(SleepStatus) /\ rxReq[c] \in Seq(SleepStatus)
      /\ recvResp[c] \in Seq(Answer) /\ suspended[t] \in BOOLEAN
  BY <1>1 DEF WaitTypes, SleepOK, ServeOK, ThreadsOK
<1>3. Hits(sleepQueue[c], StatusOf(t)) + Hits(rxReq[c], StatusOf(t))
        + Hits(recvResp[c], AnswerOf(t)) = Ind(suspended[t])
  BY DEF PlaceInv, PlaceSum
<1> DEFINE a == Hits(sleepQueue[c], StatusOf(t))
           b == Hits(rxReq[c], StatusOf(t))
           d == Hits(recvResp[c], AnswerOf(t))
<1>4. /\ a \in Nat /\ b \in Nat /\ d \in Nat
      /\ a = 0 <=> \A st \in Range(sleepQueue[c]) : st.id # t
      /\ b = 0 <=> \A st \in Range(rxReq[c]) : st.id # t
      /\ d = 0 <=> \A r \in Range(recvResp[c]) : r.status.id # t
  BY <1>2, StatusCount, AnswerCount
<1>5. sleepQueue[c] # <<>> /\ Head(sleepQueue[c]).id = t =>
        a >= 1 /\ (a = 1 => \A st \in Range(Tail(sleepQueue[c])) : st.id # t)
  <2> SUFFICES ASSUME sleepQueue[c] # <<>>, Head(sleepQueue[c]).id = t
               PROVE  a >= 1 /\ (a = 1 => \A st \in Range(Tail(sleepQueue[c])) : st.id # t)
    OBVIOUS
  <2> DEFINE q == Tail(sleepQueue[c])
             k == Hits(q, StatusOf(t))
  <2>1. q \in Seq(SleepStatus) /\ a = k + 1
    BY <1>2, StatusCount DEF Ind
  <2> HIDE DEF q
  <2>2. k \in Nat /\ (k = 0 <=> \A st \in Range(q) : st.id # t)
    BY <2>1, StatusCount
  <2> HIDE DEF a, k, q
  <2>3. a >= 1 /\ (a = 1 => \A st \in Range(q) : st.id # t)
    BY <2>1, <2>2
  <2>4. QED
    BY <2>3 DEF q
<1>6. rxReq[c] # <<>> /\ Head(rxReq[c]).id = t =>
        b >= 1 /\ (b = 1 => \A st \in Range(Tail(rxReq[c])) : st.id # t)
  <2> SUFFICES ASSUME rxReq[c] # <<>>, Head(rxReq[c]).id = t
               PROVE  b >= 1 /\ (b = 1 => \A st \in Range(Tail(rxReq[c])) : st.id # t)
    OBVIOUS
  <2> DEFINE q == Tail(rxReq[c])
             k == Hits(q, StatusOf(t))
  <2>1. q \in Seq(SleepStatus) /\ b = k + 1
    BY <1>2, StatusCount DEF Ind
  <2> HIDE DEF q
  <2>2. k \in Nat /\ (k = 0 <=> \A st \in Range(q) : st.id # t)
    BY <2>1, StatusCount
  <2> HIDE DEF b, k, q
  <2>3. b >= 1 /\ (b = 1 => \A st \in Range(q) : st.id # t)
    BY <2>1, <2>2
  <2>4. QED
    BY <2>3 DEF q
<1>7. recvResp[c] # <<>> /\ Head(recvResp[c]).status.id = t =>
        d >= 1 /\ (d = 1 => \A r \in Range(Tail(recvResp[c])) : r.status.id # t)
  <2> SUFFICES ASSUME recvResp[c] # <<>>, Head(recvResp[c]).status.id = t
               PROVE  d >= 1 /\ (d = 1 => \A r \in Range(Tail(recvResp[c])) : r.status.id # t)
    OBVIOUS
  <2> DEFINE q == Tail(recvResp[c])
             k == Hits(q, AnswerOf(t))
  <2>1. q \in Seq(Answer) /\ d = k + 1
    BY <1>2, AnswerCount DEF Ind
  <2> HIDE DEF q
  <2>2. k \in Nat /\ (k = 0 <=> \A r \in Range(q) : r.status.id # t)
    BY <2>1, AnswerCount
  <2> HIDE DEF d, k, q
  <2>3. d >= 1 /\ (d = 1 => \A r \in Range(q) : r.status.id # t)
    BY <2>1, <2>2
  <2>4. QED
    BY <2>3 DEF q
<1> HIDE DEF a, b, d
<1>8. a + b + d = Ind(suspended[t])
  BY <1>3 DEF a, b, d
<1>9. /\ ~ suspended[t] => a = 0 /\ b = 0 /\ d = 0
      /\ a >= 1 => suspended[t] /\ a = 1 /\ b = 0 /\ d = 0
      /\ b >= 1 => suspended[t] /\ a = 0 /\ b = 1 /\ d = 0
      /\ d >= 1 => suspended[t] /\ a = 0 /\ b = 0 /\ d = 1
  <2>1. CASE suspended[t]
    <3>1. a + b + d = 1
      BY <1>8, <2>1 DEF Ind
    <3>2. /\ a >= 1 => a = 1 /\ b = 0 /\ d = 0
          /\ b >= 1 => a = 0 /\ b = 1 /\ d = 0
          /\ d >= 1 => a = 0 /\ b = 0 /\ d = 1
      BY <1>4, <3>1
    <3>3. QED
      BY <2>1, <3>2
  <2>2. CASE ~ suspended[t]
    <3>1. a + b + d = 0
      BY <1>8, <2>2 DEF Ind
    <3>2. a = 0 /\ b = 0 /\ d = 0 /\ ~ (a >= 1) /\ ~ (b >= 1) /\ ~ (d >= 1)
      BY <1>4, <3>1
    <3>3. QED
      BY <2>2, <3>2
  <2>3. QED
    BY <2>1, <2>2
<1>10. QED
  BY <1>1, <1>4, <1>5, <1>6, <1>7, <1>9, Zenon

\* A queue of statuses, one step on.
LEMMA QueueShape ==
  ASSUME WaitTypes, NEW c \in Cores
  PROVE  /\ sleepQueue[c] \in Seq(SleepStatus) /\ rxReq[c] \in Seq(SleepStatus)
         /\ recvResp[c] \in Seq(Answer)
         /\ Range(sleepQueue[c]) \subseteq SleepStatus
         /\ Range(rxReq[c]) \subseteq SleepStatus
         /\ Range(recvResp[c]) \subseteq Answer
         /\ \A st \in SleepStatus :
              st.id \in Threads /\ st.op \in {"CanRecv", "Recv", "WaitUntil"}
              /\ st.canRecv \in BOOLEAN
         /\ \A r \in Answer : r.status \in SleepStatus /\ r.data \in Slots
         /\ sleepQueue[c] # <<>> =>
              /\ Head(sleepQueue[c]) \in SleepStatus
              /\ Tail(sleepQueue[c]) \in Seq(SleepStatus)
              /\ Range(sleepQueue[c]) = Range(Tail(sleepQueue[c])) \cup {Head(sleepQueue[c])}
         /\ rxReq[c] # <<>> =>
              /\ Head(rxReq[c]) \in SleepStatus
              /\ Tail(rxReq[c]) \in Seq(SleepStatus)
              /\ Range(rxReq[c]) = Range(Tail(rxReq[c])) \cup {Head(rxReq[c])}
         /\ recvResp[c] # <<>> =>
              /\ Head(recvResp[c]) \in Answer
              /\ Tail(recvResp[c]) \in Seq(Answer)
              /\ Range(recvResp[c]) = Range(Tail(recvResp[c])) \cup {Head(recvResp[c])}
<1>1. /\ sleepQueue[c] \in Seq(SleepStatus) /\ rxReq[c] \in Seq(SleepStatus)
      /\ recvResp[c] \in Seq(Answer)
  BY DEF WaitTypes, SleepOK, ServeOK
<1>2. /\ Range(sleepQueue[c]) \subseteq SleepStatus
      /\ Range(rxReq[c]) \subseteq SleepStatus
      /\ Range(recvResp[c]) \subseteq Answer
  BY <1>1, RangeType
<1>3. /\ \A st \in SleepStatus :
           st.id \in Threads /\ st.op \in {"CanRecv", "Recv", "WaitUntil"}
           /\ st.canRecv \in BOOLEAN
      /\ \A r \in Answer : r.status \in SleepStatus /\ r.data \in Slots
  BY DEF SleepStatus, Answer
<1>4. /\ sleepQueue[c] # <<>> =>
           /\ Head(sleepQueue[c]) \in SleepStatus
           /\ Tail(sleepQueue[c]) \in Seq(SleepStatus)
           /\ Range(sleepQueue[c]) = Range(Tail(sleepQueue[c])) \cup {Head(sleepQueue[c])}
  BY <1>1, RangeTail
<1>5. /\ rxReq[c] # <<>> =>
           /\ Head(rxReq[c]) \in SleepStatus
           /\ Tail(rxReq[c]) \in Seq(SleepStatus)
           /\ Range(rxReq[c]) = Range(Tail(rxReq[c])) \cup {Head(rxReq[c])}
  BY <1>1, RangeTail
<1>6. /\ recvResp[c] # <<>> =>
           /\ Head(recvResp[c]) \in Answer
           /\ Tail(recvResp[c]) \in Seq(Answer)
           /\ Range(recvResp[c]) = Range(Tail(recvResp[c])) \cup {Head(recvResp[c])}
  BY <1>1, RangeTail
<1>7. QED
  BY <1>1, <1>2, <1>3, <1>4, <1>5, <1>6

\* A thread that asks to receive finds something in its queue.
LEMMA AskedThenNonempty ==
  ASSUME WaitTypes, WaitInv, NEW c \in Cores, rxReq[c] # <<>>,
         Head(rxReq[c]).op = "Recv", serveState[c] # 2
  PROVE  Nonempty(Head(rxReq[c]).id)
<1> DEFINE t == Head(rxReq[c]).id
<1>1. Head(rxReq[c]) \in Range(rxReq[c]) /\ t \in Threads
  BY QueueShape
<1>2. CoreOf(t) = c /\ sure[t]
  BY <1>1 DEF WaitInv, AskInv
<1> HIDE DEF t
<1>3. Nonempty(t) \/ Serving(c, t) \/ Answered(c, t)
  BY <1>1, <1>2 DEF WaitInv, SureInv
<1>4. ~ Serving(c, t)
  BY DEF Serving
<1>5. ~ Answered(c, t)
  <2>1. Head(rxReq[c]).id = t /\ PlaceInv
    BY DEF t, WaitInv
  <2>2. \A r \in Range(recvResp[c]) : r.status.id # t
    BY <1>1, <1>2, <2>1, Alone
  <2>3. QED
    BY <2>2 DEF Answered
<1>6. QED
  BY <1>3, <1>4, <1>5 DEF t

LEMMA WaitEnqStage2 ==
  ASSUME WaitTypes, EnqOK, WaitInv, NEW c \in Cores, EnqStage2(c)
  PROVE  WaitInv'
<1> DEFINE t == enqStage2[c][1]
<1>1. /\ enqStage2[c] # <<>> /\ ~ Full(t)
      /\ ramBack' = [ramBack EXCEPT ![t] = Inc(@)]
      /\ UNCHANGED <<suspended, sure, rxReq, serveState, canDeq, recvResp,
                     sleepQueue, ramFront>>
  BY DEF EnqStage2, thrVars, serveVars
<1>2. t \in Threads
  BY <1>1 DEF EnqOK
<1> HIDE DEF t
<1>3. \A u \in Threads : Nonempty(u) => Nonempty(u)'
  <2>1. ramBack' = [ramBack EXCEPT ![t] = Inc(ramBack[t])] /\ Inc(ramBack[t]) # ramFront[t]
    BY <1>1 DEF Full
  <2>2. ramBack \in [Threads -> 0 .. QueueSize - 1]
    BY DEF WaitTypes, RamOK
  <2>3. \A u \in Threads : ramBack'[u] = IF u = t THEN Inc(ramBack[t]) ELSE ramBack[u]
    BY <1>2, <2>1, <2>2, Zenon
  <2>4. QED
    BY <1>1, <2>1, <2>3 DEF Nonempty
<1>4. PlaceInv'
  BY <1>1 DEF WaitInv, PlaceInv, PlaceSum
<1>5. ASSUME NEW d \in Cores PROVE AskInv(d)'
  <2>1. AskInv(d)
    BY DEF WaitInv
  <2>2. /\ \A st \in Range(sleepQueue[d]) : st.id \in Threads
        /\ \A r \in Range(recvResp[d]) : r.status.id \in Threads
    BY QueueShape
  <2>3. QED
    BY <1>1, <1>3, <2>1, <2>2 DEF AskInv
<1>6. ASSUME NEW d \in Cores PROVE ServeInv(d)'
  <2>1. ServeInv(d)
    BY DEF WaitInv
  <2>2. rxReq[d] # <<>> => Head(rxReq[d]).id \in Threads
    BY QueueShape
  <2>3. QED
    BY <1>1, <1>3, <2>1, <2>2 DEF ServeInv
<1>7. SureInv'
  BY <1>1, <1>3 DEF WaitInv, SureInv, Serving, Answered
<1>8. QED
  BY <1>4, <1>5, <1>6, <1>7 DEF WaitInv

LEMMA WaitServe0 ==
  ASSUME WaitTypes, WaitInv, NEW c \in Cores, Serve0(c)
  PROVE  WaitInv'
<1> DEFINE t == Head(rxReq[c]).id
<1>1. /\ rxReq[c] # <<>> /\ serveState[c] = 0
      /\ canDeq' = [canDeq EXCEPT ![c] = ramFront[t] # ramBack[t]]
      /\ serveState' = [serveState EXCEPT ![c] =
                          IF Head(rxReq[c]).op = "Recv" THEN 1 ELSE 2]
      /\ UNCHANGED <<suspended, sure, rxReq, recvResp, sleepQueue, ramFront, ramBack>>
  BY DEF Serve0, thrVars, queueVars
<1>2. canDeq \in [Cores -> BOOLEAN] /\ serveState \in [Cores -> 0 .. 2]
  BY DEF WaitTypes, ServeOK
<1>3. PlaceInv'
  BY <1>1 DEF WaitInv, PlaceInv, PlaceSum
<1>4. ASSUME NEW d \in Cores PROVE AskInv(d)'
  BY <1>1 DEF WaitInv, AskInv, Nonempty
<1>5. ASSUME NEW d \in Cores PROVE ServeInv(d)'
  <2>1. CASE d = c
    <3>1. canDeq'[c] = Nonempty(t)
      BY <1>1, <1>2, Zenon DEF Nonempty
    <3>2. serveState'[c] = IF Head(rxReq[c]).op = "Recv" THEN 1 ELSE 2
      BY <1>1, <1>2
    <3>3. Head(rxReq[c]).op = "Recv" => Nonempty(t)
      BY <1>1, AskedThenNonempty
    <3>4. Nonempty(t)' = Nonempty(t)
      BY <1>1 DEF Nonempty
    <3>5. QED
      BY <1>1, <2>1, <3>1, <3>2, <3>3, <3>4 DEF ServeInv
  <2>2. CASE d # c
    <3>1. canDeq'[d] = canDeq[d] /\ serveState'[d] = serveState[d]
      BY <1>1, <1>2, <2>2
    <3>2. QED
      BY <1>1, <3>1 DEF WaitInv, ServeInv, Nonempty
  <2>3. QED
    BY <2>1, <2>2
<1>6. SureInv'
  <2>1. ASSUME NEW d \in Cores, NEW u \in Threads, Serving(d, u) PROVE Serving(d, u)'
    <3>1. d # c
      BY <1>1, <2>1 DEF Serving
    <3>2. serveState'[d] = serveState[d]
      BY <1>1, <1>2, <3>1
    <3>3. QED
      BY <1>1, <2>1, <3>2 DEF Serving
  <2>2. \A u \in Threads : CoreOf(u) \in Cores
    BY ThreadShape
  <2>3. QED
    BY <1>1, <2>1, <2>2 DEF WaitInv, SureInv, Nonempty, Answered
<1>7. QED
  BY <1>3, <1>4, <1>5, <1>6 DEF WaitInv

LEMMA WaitServe1 ==
  ASSUME WaitTypes, WaitInv, NEW c \in Cores, Serve1(c)
  PROVE  WaitInv'
<1>1. /\ serveState[c] = 1
      /\ ramFront' = [ramFront EXCEPT ![Head(rxReq[c]).id] = Inc(@)]
      /\ canDeq' = [canDeq EXCEPT ![c] = FALSE]
      /\ serveState' = [serveState EXCEPT ![c] = 2]
      /\ UNCHANGED <<suspended, sure, rxReq, recvResp, sleepQueue, ramBack>>
  BY DEF Serve1, thrVars
<1>2. /\ canDeq \in [Cores -> BOOLEAN] /\ serveState \in [Cores -> 0 .. 2]
      /\ ramFront \in [Threads -> 0 .. QueueSize - 1]
  BY DEF WaitTypes, ServeOK, RamOK
<1>3. rxReq[c] # <<>> /\ Head(rxReq[c]).op = "Recv"
  BY <1>1 DEF WaitInv, ServeInv
<1>4. Head(rxReq[c]) \in Range(rxReq[c]) /\ Head(rxReq[c]).id \in Threads
  BY <1>3, QueueShape
<1>t. PICK t \in Threads : t = Head(rxReq[c]).id
  BY <1>4
<1>5. CoreOf(t) = c /\ PlaceInv
  BY <1>4, <1>t DEF WaitInv, AskInv
<1>6. /\ \A st \in Range(sleepQueue[c]) : st.id # t
      /\ \A r \in Range(recvResp[c]) : r.status.id # t
  BY <1>3, <1>t, <1>5, Alone
<1>7. \A u \in Threads : u # t => Nonempty(u)' = Nonempty(u)
  <2>1. \A u \in Threads : u # t => ramFront'[u] = ramFront[u]
    BY <1>1, <1>2, <1>t
  <2>2. QED
    BY <1>1, <2>1 DEF Nonempty
<1>8. PlaceInv'
  BY <1>1 DEF WaitInv, PlaceInv, PlaceSum
<1>9. ASSUME NEW d \in Cores PROVE AskInv(d)'
  <2>1. AskInv(d)
    BY DEF WaitInv
  <2>2. /\ \A st \in Range(sleepQueue[d]) : st.id \in Threads /\ st.id # t
        /\ \A r \in Range(recvResp[d]) : r.status.id \in Threads /\ r.status.id # t
    BY <1>5, <1>6, <2>1, QueueShape DEF AskInv
  <2>3. QED
    BY <1>1, <1>7, <2>1, <2>2 DEF AskInv
<1>10. ASSUME NEW d \in Cores PROVE ServeInv(d)'
  <2>1. CASE d = c
    BY <1>1, <1>2, <1>3, <2>1 DEF ServeInv
  <2>2. CASE d # c
    <3>1. canDeq'[d] = canDeq[d] /\ serveState'[d] = serveState[d]
      BY <1>1, <1>2, <2>2
    <3>2. ServeInv(d) /\ AskInv(d)
      BY DEF WaitInv
    <3>3. rxReq[d] # <<>> =>
            /\ Head(rxReq[d]) \in Range(rxReq[d])
            /\ Head(rxReq[d]).id \in Threads
      BY QueueShape
    <3>4. rxReq[d] # <<>> => Head(rxReq[d]).id # t
      BY <1>5, <2>2, <3>2, <3>3 DEF AskInv
    <3>5. rxReq[d] # <<>> => ramFront'[Head(rxReq[d]).id] = ramFront[Head(rxReq[d]).id]
      BY <1>1, <1>2, <1>t, <3>3, <3>4
    <3>6. rxReq'[d] = rxReq[d] /\ ramBack' = ramBack
      BY <1>1
    <3>7. serveState[d] = 2 /\ Head(rxReq[d]).op # "Recv" /\ canDeq[d]
            => ramFront'[Head(rxReq[d]).id] # ramBack'[Head(rxReq[d]).id]
      <4>1. serveState[d] = 2 => rxReq[d] # <<>>
        BY <3>2 DEF ServeInv
      <4>2. serveState[d] = 2 /\ Head(rxReq[d]).op # "Recv" /\ canDeq[d]
            => ramFront[Head(rxReq[d]).id] # ramBack[Head(rxReq[d]).id]
        BY <3>2 DEF ServeInv, Nonempty
      <4>3. QED
        BY <3>5, <3>6, <4>1, <4>2
    <3>8. QED
      BY <3>1, <3>2, <3>6, <3>7 DEF ServeInv, Nonempty
  <2>3. QED
    BY <2>1, <2>2
<1>11. SureInv'
  <2>1. ASSUME NEW d \in Cores, NEW u \in Threads, Serving(d, u) PROVE Serving(d, u)'
    <3>1. d # c
      BY <1>1, <2>1 DEF Serving
    <3>2. serveState'[d] = serveState[d]
      BY <1>1, <1>2, <3>1
    <3>3. QED
      BY <1>1, <2>1, <3>2 DEF Serving
  <2>2. Serving(c, t)'
    BY <1>1, <1>2, <1>3, <1>t DEF Serving
  <2>3. ASSUME NEW u \in Threads, sure'[u]
        PROVE  Nonempty(u)' \/ Serving(CoreOf(u), u)' \/ Answered(CoreOf(u), u)'
    <3>1. CASE u = t
      BY <1>5, <2>2, <3>1
    <3>2. CASE u # t
      <4>1. CoreOf(u) \in Cores
        BY ThreadShape
      <4>2. Nonempty(u) \/ Serving(CoreOf(u), u) \/ Answered(CoreOf(u), u)
        BY <1>1, <2>3 DEF WaitInv, SureInv
      <4>3. Answered(CoreOf(u), u) => Answered(CoreOf(u), u)'
        BY <1>1 DEF Answered
      <4>4. QED
        BY <1>7, <2>1, <3>2, <4>1, <4>2, <4>3
    <3>3. QED
      BY <3>1, <3>2
  <2>4. QED
    BY <2>3 DEF SureInv
<1>12. QED
  BY <1>8, <1>9, <1>10, <1>11 DEF WaitInv

LEMMA WaitServe2 ==
  ASSUME WaitTypes, WaitInv, NEW c \in Cores, Serve2(c)
  PROVE  WaitInv'
<1>1. /\ serveState[c] = 2
      /\ recvResp' = [recvResp EXCEPT ![c] = Append(@,
           [status |-> [Head(rxReq[c]) EXCEPT !.canRecv = canDeq[c]],
            data   |-> itemOut[c]])]
      /\ rxReq' = [rxReq EXCEPT ![c] = Tail(@)]
      /\ canDeq' = [canDeq EXCEPT ![c] = FALSE]
      /\ serveState' = [serveState EXCEPT ![c] = 0]
      /\ UNCHANGED <<suspended, sure, sleepQueue, ramFront, ramBack>>
  BY DEF Serve2, thrVars, queueVars
<1>2. /\ canDeq \in [Cores -> BOOLEAN] /\ serveState \in [Cores -> 0 .. 2]
      /\ rxReq \in [Cores -> Seq(SleepStatus)] /\ recvResp \in [Cores -> Seq(Answer)]
      /\ itemOut \in [Cores -> Slots]
  BY DEF WaitTypes, ServeOK
<1>3. rxReq[c] # <<>>
  BY <1>1 DEF WaitInv, ServeInv
<1>4. /\ Head(rxReq[c]) \in SleepStatus /\ Tail(rxReq[c]) \in Seq(SleepStatus)
      /\ Range(rxReq[c]) = Range(Tail(rxReq[c])) \cup {Head(rxReq[c])}
  BY <1>3, QueueShape
<1>5. PICK st \in SleepStatus : st = Head(rxReq[c])
  BY <1>4
<1>6. PICK r : r = [status |-> [st EXCEPT !.canRecv = canDeq[c]], data |-> itemOut[c]]
  OBVIOUS
<1>7. /\ r \in Answer /\ r.status.id = st.id /\ r.status.op = st.op
      /\ r.status.canRecv = canDeq[c]
  BY <1>2, <1>6 DEF SleepStatus, Answer
<1>8. /\ recvResp'[c] = Append(recvResp[c], r) /\ rxReq'[c] = Tail(rxReq[c])
      /\ serveState'[c] = 0 /\ canDeq'[c] = FALSE
      /\ \A d \in Cores : d # c =>
           /\ recvResp'[d] = recvResp[d] /\ rxReq'[d] = rxReq[d]
           /\ serveState'[d] = serveState[d] /\ canDeq'[d] = canDeq[d]
  BY <1>1, <1>2, <1>5, <1>6
<1>9. Range(recvResp'[c]) = Range(recvResp[c]) \cup {r}
  BY <1>2, <1>7, <1>8, RangeAppend
<1>10. PlaceInv'
  <2> SUFFICES ASSUME NEW t \in Threads PROVE PlaceSum(t)' = Ind(suspended'[t])
    BY DEF PlaceInv, Ind
  <2>1. PlaceSum(t) = Ind(suspended[t]) /\ CoreOf(t) \in Cores
    BY ThreadShape DEF WaitInv, PlaceInv
  <2>2. CASE CoreOf(t) = c
    <3>1. Hits(rxReq[c], StatusOf(t)) = Hits(rxReq'[c], StatusOf(t)) + Ind(st.id = t)
      BY <1>2, <1>3, <1>5, <1>8, StatusCount
    <3>2. Hits(recvResp'[c], AnswerOf(t)) = Hits(recvResp[c], AnswerOf(t)) + Ind(st.id = t)
      BY <1>2, <1>7, <1>8, AnswerCount
    <3>3. /\ Hits(rxReq'[c], StatusOf(t)) \in Nat /\ Hits(recvResp[c], AnswerOf(t)) \in Nat
          /\ Hits(sleepQueue[c], StatusOf(t)) \in Nat /\ Ind(st.id = t) \in Nat
      BY <1>2, <1>4, <1>8, StatusCount, AnswerCount, QueueShape DEF Ind
    <3>4. PlaceSum(t)' = Hits(sleepQueue[c], StatusOf(t)) + Hits(rxReq'[c], StatusOf(t))
                           + Hits(recvResp'[c], AnswerOf(t))
      BY <1>1, <2>2 DEF PlaceSum
    <3>5. PlaceSum(t) = Hits(sleepQueue[c], StatusOf(t)) + Hits(rxReq[c], StatusOf(t))
                           + Hits(recvResp[c], AnswerOf(t))
      BY <2>2 DEF PlaceSum
    <3>6. PlaceSum(t)' = PlaceSum(t)
      BY <3>1, <3>2, <3>3, <3>4, <3>5
    <3>7. QED
      BY <1>1, <2>1, <3>6
  <2>3. CASE CoreOf(t) # c
    BY <1>1, <1>8, <2>1, <2>3 DEF PlaceSum
  <2>4. QED
    BY <2>2, <2>3
<1>11. ASSUME NEW d \in Cores PROVE AskInv(d)'
  <2>1. AskInv(d) /\ ServeInv(c) /\ AskInv(c)
    BY DEF WaitInv
  <2>2. CASE d = c
    <3>1. CoreOf(st.id) = c /\ (st.op # "Recv" /\ canDeq[c] => Nonempty(st.id))
      BY <1>1, <1>3, <1>4, <1>5, <2>1 DEF AskInv, ServeInv
    <3>2. \A q \in Range(rxReq'[c]) : q \in Range(rxReq[c])
      BY <1>4, <1>8
    <3>3. QED
      BY <1>1, <1>7, <1>9, <2>1, <2>2, <3>1, <3>2, ZenonT(30) DEF AskInv, Nonempty
  <2>3. CASE d # c
    BY <1>1, <1>8, <2>1, <2>3 DEF AskInv, Nonempty
  <2>4. QED
    BY <2>2, <2>3
<1>12. ASSUME NEW d \in Cores PROVE ServeInv(d)'
  <2>1. CASE d = c
    BY <1>8, <2>1 DEF ServeInv
  <2>2. CASE d # c
    BY <1>1, <1>8, <2>2 DEF WaitInv, ServeInv, Nonempty
  <2>3. QED
    BY <2>1, <2>2
<1>13. SureInv'
  <2>1. ASSUME NEW u \in Threads, sure'[u]
        PROVE  Nonempty(u)' \/ Serving(CoreOf(u), u)' \/ Answered(CoreOf(u), u)'
    <3>1. CoreOf(u) \in Cores
      BY ThreadShape
    <3>2. Nonempty(u) \/ Serving(CoreOf(u), u) \/ Answered(CoreOf(u), u)
      BY <1>1, <2>1 DEF WaitInv, SureInv
    <3>3. Nonempty(u) => Nonempty(u)'
      BY <1>1 DEF Nonempty
    <3>4. Answered(CoreOf(u), u) => Answered(CoreOf(u), u)'
      BY <1>8, <1>9, <3>1 DEF Answered
    <3>5. Serving(CoreOf(u), u) => Serving(CoreOf(u), u)' \/ Answered(CoreOf(u), u)'
      <4>1. CASE CoreOf(u) = c
        BY <1>5, <1>7, <1>9, <4>1 DEF Serving, Answered
      <4>2. CASE CoreOf(u) # c
        BY <1>8, <3>1, <4>2 DEF Serving
      <4>3. QED
        BY <4>1, <4>2
    <3>6. QED
      BY <3>2, <3>3, <3>4, <3>5
  <2>2. QED
    BY <2>1 DEF SureInv
<1>14. QED
  BY <1>10, <1>11, <1>12, <1>13 DEF WaitInv

LEMMA WaitRespond ==
  ASSUME WaitTypes, WaitInv, NEW c \in Cores, Respond(c)
  PROVE  WaitInv'
<1>1. recvResp[c] # <<>>
  BY DEF Respond
<1>2. /\ Head(recvResp[c]) \in Answer /\ Tail(recvResp[c]) \in Seq(Answer)
      /\ Range(recvResp[c]) = Range(Tail(recvResp[c])) \cup {Head(recvResp[c])}
  BY <1>1, QueueShape
<1>3. PICK r \in Answer : r = Head(recvResp[c])
  BY <1>2
<1>4. PICK t \in Threads : t = r.status.id
  BY <1>3, QueueShape
<1>5. CoreOf(t) = c /\ PlaceInv
      /\ (r.status.op # "Recv" /\ r.status.canRecv => Nonempty(t))
  BY <1>2, <1>3, <1>4 DEF WaitInv, AskInv
<1>6. /\ suspended' = [suspended EXCEPT ![t] = FALSE]
      /\ \/ /\ r.status.op = "CanRecv"
            /\ sure' = [sure EXCEPT ![t] = r.status.canRecv]
         \/ /\ r.status.op = "Recv"
            /\ sure' = [sure EXCEPT ![t] = FALSE]
      /\ recvResp' = [recvResp EXCEPT ![c] = Tail(@)]
      /\ UNCHANGED <<rxReq, serveState, canDeq, sleepQueue, ramFront, ramBack>>
  BY <1>3, <1>4 DEF Respond, queueVars
<1>7. /\ suspended \in [Threads -> BOOLEAN] /\ sure \in [Threads -> BOOLEAN]
      /\ recvResp \in [Cores -> Seq(Answer)] /\ rxReq \in [Cores -> Seq(SleepStatus)]
      /\ r.status.canRecv \in BOOLEAN
  BY QueueShape DEF WaitTypes, ThreadsOK, ServeOK
<1>8. /\ recvResp'[c] = Tail(recvResp[c])
      /\ \A d \in Cores : d # c => recvResp'[d] = recvResp[d]
      /\ \A u \in Threads : u # t => suspended'[u] = suspended[u] /\ sure'[u] = sure[u]
  BY <1>6, <1>7
<1>9. ~ suspended'[t] /\ suspended[t]
  <2>1. ~ suspended'[t]
    BY <1>6, <1>7
  <2>2. suspended[t]
    BY <1>1, <1>3, <1>4, <1>5, Alone
  <2>3. QED
    BY <2>1, <2>2
<1>10. /\ \A st \in Range(sleepQueue[c]) : st.id # t
       /\ \A st \in Range(rxReq[c]) : st.id # t
       /\ \A q \in Range(recvResp'[c]) : q.status.id # t
  BY <1>1, <1>3, <1>4, <1>5, <1>8, Alone
<1>11. sure'[t] => Nonempty(t)
  <2>1. sure'[t] => r.status.op # "Recv" /\ r.status.canRecv
    <3>1. CASE /\ r.status.op = "CanRecv"
               /\ sure' = [sure EXCEPT ![t] = r.status.canRecv]
      BY <1>7, <3>1, Zenon
    <3>2. CASE sure' = [sure EXCEPT ![t] = FALSE]
      BY <1>7, <3>2
    <3>3. QED
      BY <1>6, <3>1, <3>2
  <2>2. QED
    BY <1>5, <2>1
<1>12. PlaceInv'
  <2> SUFFICES ASSUME NEW u \in Threads PROVE PlaceSum(u)' = Ind(suspended'[u])
    BY DEF PlaceInv, Ind
  <2>1. PlaceSum(u) = Ind(suspended[u]) /\ CoreOf(u) \in Cores
    BY ThreadShape DEF WaitInv, PlaceInv
  <2>2. CASE CoreOf(u) = c
    <3>1. Hits(recvResp[c], AnswerOf(u)) = Hits(recvResp'[c], AnswerOf(u)) + Ind(t = u)
      BY <1>1, <1>3, <1>4, <1>7, <1>8, AnswerCount
    <3>2. /\ Hits(rxReq[c], StatusOf(u)) \in Nat /\ Hits(recvResp'[c], AnswerOf(u)) \in Nat
          /\ Hits(sleepQueue[c], StatusOf(u)) \in Nat
      BY <1>2, <1>7, <1>8, StatusCount, AnswerCount, QueueShape
    <3>3. PlaceSum(u)' = Hits(sleepQueue[c], StatusOf(u)) + Hits(rxReq[c], StatusOf(u))
                           + Hits(recvResp'[c], AnswerOf(u))
      BY <1>6, <2>2 DEF PlaceSum
    <3>4. PlaceSum(u) = Hits(sleepQueue[c], StatusOf(u)) + Hits(rxReq[c], StatusOf(u))
                           + Hits(recvResp[c], AnswerOf(u))
      BY <2>2 DEF PlaceSum
    <3>5. Ind(suspended[u]) = Ind(suspended'[u]) + Ind(t = u)
      <4>1. CASE u = t
        BY <1>9, <4>1 DEF Ind
      <4>2. CASE u # t
        <5>1. Ind(suspended'[u]) = Ind(suspended[u]) /\ Ind(t = u) = 0
          BY <1>8, <4>2 DEF Ind
        <5>2. Ind(suspended[u]) \in Nat
          BY DEF Ind
        <5>3. QED
          BY <5>1, <5>2
      <4>3. QED
        BY <4>1, <4>2
    <3>6. Ind(t = u) \in Nat /\ Ind(suspended'[u]) \in Nat
      BY DEF Ind
    <3>7. PlaceSum(u) = PlaceSum(u)' + Ind(t = u) /\ PlaceSum(u)' \in Nat
      BY <3>1, <3>2, <3>3, <3>4, <3>6
    <3>8. PlaceSum(u)' + Ind(t = u) = Ind(suspended'[u]) + Ind(t = u)
      BY <2>1, <3>5, <3>7
    <3>9. QED
      BY <3>6, <3>7, <3>8
  <2>3. CASE CoreOf(u) # c
    <3>1. u # t
      BY <1>5, <2>3
    <3>2. PlaceSum(u)' = PlaceSum(u)
      BY <1>6, <1>8, <2>1, <2>3 DEF PlaceSum
    <3>3. Ind(suspended'[u]) = Ind(suspended[u])
      BY <1>8, <3>1 DEF Ind
    <3>4. QED
      BY <2>1, <3>2, <3>3
  <2>4. QED
    BY <2>2, <2>3
<1>13. ASSUME NEW d \in Cores PROVE AskInv(d)'
  <2>1. AskInv(d)
    BY DEF WaitInv
  <2>2. /\ \A st \in Range(sleepQueue[d]) : st.id \in Threads /\ st.id # t
        /\ \A st \in Range(rxReq[d]) : st.id \in Threads /\ st.id # t
    BY <1>5, <1>10, <2>1, QueueShape DEF AskInv
  <2>3. \A q \in Range(recvResp'[d]) : q \in Range(recvResp[d])
    BY <1>2, <1>8
  <2>4. QED
    BY <1>6, <1>8, <2>1, <2>2, <2>3 DEF AskInv, Nonempty
<1>14. ASSUME NEW d \in Cores PROVE ServeInv(d)'
  BY <1>6 DEF WaitInv, ServeInv, Nonempty
<1>15. SureInv'
  <2>1. ASSUME NEW u \in Threads, sure'[u]
        PROVE  Nonempty(u)' \/ Serving(CoreOf(u), u)' \/ Answered(CoreOf(u), u)'
    <3>1. CoreOf(u) \in Cores
      BY ThreadShape
    <3>2. Nonempty(u) => Nonempty(u)'
      BY <1>6 DEF Nonempty
    <3>3. CASE u = t
      BY <1>11, <2>1, <3>2, <3>3
    <3>4. CASE u # t
      <4>1. Nonempty(u) \/ Serving(CoreOf(u), u) \/ Answered(CoreOf(u), u)
        BY <1>8, <2>1, <3>4 DEF WaitInv, SureInv
      <4>2. Serving(CoreOf(u), u) => Serving(CoreOf(u), u)'
        BY <1>6 DEF Serving
      <4>3. Answered(CoreOf(u), u) => Answered(CoreOf(u), u)'
        BY <1>2, <1>3, <1>4, <1>8, <3>1, <3>4 DEF Answered
      <4>4. QED
        BY <3>2, <4>1, <4>2, <4>3
    <3>5. QED
      BY <3>3, <3>4
  <2>2. QED
    BY <2>1 DEF SureInv
<1>16. QED
  BY <1>12, <1>13, <1>14, <1>15 DEF WaitInv

LEMMA WaitWakeup2 ==
  ASSUME WaitTypes, WaitInv, NEW c \in Cores, Wakeup2(c)
  PROVE  WaitInv'
<1>1. recvResp[c] # <<>>
  BY DEF Wakeup2
<1>2. /\ Head(recvResp[c]) \in Answer /\ Tail(recvResp[c]) \in Seq(Answer)
      /\ Range(recvResp[c]) = Range(Tail(recvResp[c])) \cup {Head(recvResp[c])}
  BY <1>1, QueueShape
<1>3. PICK r \in Answer : r = Head(recvResp[c])
  BY <1>2
<1>4. r.status \in SleepStatus
  BY QueueShape
<1>5. CoreOf(r.status.id) = c /\ (r.status.op # "Recv" /\ r.status.canRecv => Nonempty(r.status.id))
  BY <1>2, <1>3 DEF WaitInv, AskInv
<1>6. /\ r.status.op = "WaitUntil"
      /\ recvResp' = [recvResp EXCEPT ![c] = Tail(@)]
      /\ sleepQueue' = [sleepQueue EXCEPT ![c] = Append(@, r.status)]
      /\ UNCHANGED <<suspended, sure, rxReq, serveState, canDeq, ramFront, ramBack>>
  BY <1>3 DEF Wakeup2, queueVars, thrVars
<1>7. /\ recvResp \in [Cores -> Seq(Answer)] /\ rxReq \in [Cores -> Seq(SleepStatus)]
      /\ sleepQueue \in [Cores -> Seq(SleepStatus)]
  BY DEF WaitTypes, SleepOK, ServeOK
<1>8. /\ recvResp'[c] = Tail(recvResp[c])
      /\ sleepQueue'[c] = Append(sleepQueue[c], r.status)
      /\ \A d \in Cores : d # c => recvResp'[d] = recvResp[d] /\ sleepQueue'[d] = sleepQueue[d]
  BY <1>6, <1>7
<1>9. Range(sleepQueue'[c]) = Range(sleepQueue[c]) \cup {r.status}
  BY <1>4, <1>7, <1>8, RangeAppend
<1>10. PlaceInv'
  <2> SUFFICES ASSUME NEW u \in Threads PROVE PlaceSum(u)' = Ind(suspended'[u])
    BY DEF PlaceInv, Ind
  <2>1. PlaceSum(u) = Ind(suspended[u]) /\ CoreOf(u) \in Cores
    BY ThreadShape DEF WaitInv, PlaceInv
  <2>2. CASE CoreOf(u) = c
    <3>1. Hits(recvResp[c], AnswerOf(u)) = Hits(recvResp'[c], AnswerOf(u)) + Ind(r.status.id = u)
      BY <1>1, <1>3, <1>7, <1>8, AnswerCount
    <3>2. Hits(sleepQueue'[c], StatusOf(u)) = Hits(sleepQueue[c], StatusOf(u)) + Ind(r.status.id = u)
      BY <1>4, <1>7, <1>8, StatusCount
    <3>3. /\ Hits(rxReq[c], StatusOf(u)) \in Nat /\ Hits(recvResp'[c], AnswerOf(u)) \in Nat
          /\ Hits(sleepQueue[c], StatusOf(u)) \in Nat /\ Ind(r.status.id = u) \in Nat
      BY <1>2, <1>7, <1>8, StatusCount, AnswerCount, QueueShape DEF Ind
    <3>4. PlaceSum(u)' = Hits(sleepQueue'[c], StatusOf(u)) + Hits(rxReq[c], StatusOf(u))
                           + Hits(recvResp'[c], AnswerOf(u))
      BY <1>6, <2>2 DEF PlaceSum
    <3>5. PlaceSum(u) = Hits(sleepQueue[c], StatusOf(u)) + Hits(rxReq[c], StatusOf(u))
                           + Hits(recvResp[c], AnswerOf(u))
      BY <2>2 DEF PlaceSum
    <3>6. PlaceSum(u)' = PlaceSum(u)
      BY <3>1, <3>2, <3>3, <3>4, <3>5
    <3>7. QED
      BY <1>6, <2>1, <3>6
  <2>3. CASE CoreOf(u) # c
    BY <1>6, <1>8, <2>1, <2>3 DEF PlaceSum
  <2>4. QED
    BY <2>2, <2>3
<1>11. ASSUME NEW d \in Cores PROVE AskInv(d)'
  <2>1. AskInv(d) /\ AskInv(c)
    BY DEF WaitInv
  <2>2. CASE d = c
    <3>1. \A q \in Range(recvResp'[c]) : q \in Range(recvResp[c])
      BY <1>2, <1>8
    <3>2. QED
      BY <1>5, <1>6, <1>9, <2>1, <2>2, <3>1 DEF AskInv, Nonempty
  <2>3. CASE d # c
    BY <1>6, <1>8, <2>1, <2>3 DEF AskInv, Nonempty
  <2>4. QED
    BY <2>2, <2>3
<1>12. ASSUME NEW d \in Cores PROVE ServeInv(d)'
  BY <1>6 DEF WaitInv, ServeInv, Nonempty
<1>13. SureInv'
  <2>1. ASSUME NEW u \in Threads, sure'[u]
        PROVE  Nonempty(u)' \/ Serving(CoreOf(u), u)' \/ Answered(CoreOf(u), u)'
    <3>1. CoreOf(u) \in Cores
      BY ThreadShape
    <3>2. Nonempty(u) \/ Serving(CoreOf(u), u) \/ Answered(CoreOf(u), u)
      BY <1>6, <2>1 DEF WaitInv, SureInv
    <3>3. Nonempty(u) => Nonempty(u)'
      BY <1>6 DEF Nonempty
    <3>4. Serving(CoreOf(u), u) => Serving(CoreOf(u), u)'
      BY <1>6 DEF Serving
    <3>5. Answered(CoreOf(u), u) => Answered(CoreOf(u), u)'
      BY <1>2, <1>3, <1>6, <1>8, <3>1 DEF Answered
    <3>6. QED
      BY <3>2, <3>3, <3>4, <3>5
  <2>2. QED
    BY <2>1 DEF SureInv
<1>14. QED
  BY <1>10, <1>11, <1>12, <1>13 DEF WaitInv

\* wakeup1: ask, wake or try again.
LEMMA WaitWakeup1 ==
  ASSUME WaitTypes, WaitInv, NEW c \in Cores, Wakeup1(c)
  PROVE  WaitInv'
<1>1. sleepQueue[c] # <<>>
  BY DEF Wakeup1
<1>2. /\ Head(sleepQueue[c]) \in SleepStatus /\ Tail(sleepQueue[c]) \in Seq(SleepStatus)
      /\ Range(sleepQueue[c]) = Range(Tail(sleepQueue[c])) \cup {Head(sleepQueue[c])}
  BY <1>1, QueueShape
<1>3. PICK st \in SleepStatus : st = Head(sleepQueue[c])
  BY <1>2
<1>4. PICK t \in Threads : t = st.id
  BY <1>3, QueueShape
<1>5. /\ CoreOf(t) = c /\ PlaceInv
      /\ st.op = "Recv" => sure[t]
      /\ st.canRecv => Nonempty(t)
  BY <1>2, <1>3, <1>4 DEF WaitInv, AskInv
<1>6. UNCHANGED <<serveState, canDeq, recvResp, ramFront, ramBack>>
  BY DEF Wakeup1, queueVars
<1>7. /\ suspended \in [Threads -> BOOLEAN] /\ sure \in [Threads -> BOOLEAN]
      /\ rxReq \in [Cores -> Seq(SleepStatus)]
      /\ sleepQueue \in [Cores -> Seq(SleepStatus)]
  BY DEF WaitTypes, ThreadsOK, ServeOK, SleepOK
<1>8. \/ /\ rxReq' = [rxReq EXCEPT ![c] = Append(@, st)]
         /\ sleepQueue' = [sleepQueue EXCEPT ![c] = Tail(@)]
         /\ UNCHANGED <<suspended, sure>>
      \/ /\ suspended' = [suspended EXCEPT ![t] = FALSE]
         /\ sure' = [sure EXCEPT ![t] = @ \/ "recv" \in EventMatch(st)]
         /\ sleepQueue' = [sleepQueue EXCEPT ![c] = Tail(@)]
         /\ UNCHANGED rxReq
      \/ /\ sleepQueue' = [sleepQueue EXCEPT ![c] = Requeue(@)]
         /\ UNCHANGED <<suspended, sure, rxReq>>
  BY <1>3, <1>4 DEF Wakeup1
<1>q. \A u \in Threads :
        /\ Hits(sleepQueue[c], StatusOf(u)) = Hits(Tail(sleepQueue[c]), StatusOf(u)) + Ind(t = u)
        /\ Hits(Tail(sleepQueue[c]), StatusOf(u)) \in Nat
        /\ Hits(rxReq[c], StatusOf(u)) \in Nat /\ Hits(recvResp[c], AnswerOf(u)) \in Nat
        /\ Ind(t = u) \in Nat
  <2> TAKE u \in Threads
  <2>1. Hits(sleepQueue[c], StatusOf(u)) = Hits(Tail(sleepQueue[c]), StatusOf(u)) + Ind(t = u)
    BY <1>1, <1>3, <1>4, <1>7, StatusCount
  <2>2. Hits(Tail(sleepQueue[c]), StatusOf(u)) \in Nat
    BY <1>2, StatusCount
  <2>3. Hits(rxReq[c], StatusOf(u)) \in Nat /\ Hits(recvResp[c], AnswerOf(u)) \in Nat
    BY StatusCount, AnswerCount, QueueShape
  <2>4. Ind(t = u) \in Nat
    BY DEF Ind
  <2>5. QED
    BY <2>1, <2>2, <2>3, <2>4
<1>p. \A u \in Threads : PlaceSum(u) = Ind(suspended[u]) /\ CoreOf(u) \in Cores
  BY ThreadShape DEF WaitInv, PlaceInv
\* The request goes to the receive unit.
<1>9. CASE /\ rxReq' = [rxReq EXCEPT ![c] = Append(@, st)]
           /\ sleepQueue' = [sleepQueue EXCEPT ![c] = Tail(@)]
           /\ UNCHANGED <<suspended, sure>>
  <2>1. /\ rxReq'[c] = Append(rxReq[c], st) /\ sleepQueue'[c] = Tail(sleepQueue[c])
        /\ \A d \in Cores : d # c => rxReq'[d] = rxReq[d] /\ sleepQueue'[d] = sleepQueue[d]
    BY <1>7, <1>9
  <2>2. Range(rxReq'[c]) = Range(rxReq[c]) \cup {st}
    BY <1>7, <2>1, RangeAppend
  <2>3. PlaceInv'
    <3> SUFFICES ASSUME NEW u \in Threads PROVE PlaceSum(u)' = Ind(suspended'[u])
      BY DEF PlaceInv, Ind
    <3>1. CASE CoreOf(u) = c
      <4>1. Hits(rxReq'[c], StatusOf(u)) = Hits(rxReq[c], StatusOf(u)) + Ind(t = u)
        BY <1>4, <1>7, <2>1, StatusCount
      <4>2. PlaceSum(u)' = Hits(sleepQueue'[c], StatusOf(u)) + Hits(rxReq'[c], StatusOf(u))
                             + Hits(recvResp[c], AnswerOf(u))
        BY <1>6, <3>1 DEF PlaceSum
      <4>3. PlaceSum(u) = Hits(sleepQueue[c], StatusOf(u)) + Hits(rxReq[c], StatusOf(u))
                             + Hits(recvResp[c], AnswerOf(u))
        BY <3>1 DEF PlaceSum
      <4>4. PlaceSum(u)' = PlaceSum(u)
        BY <1>q, <2>1, <4>1, <4>2, <4>3
      <4>5. QED
        BY <1>9, <1>p, <4>4
    <3>2. CASE CoreOf(u) # c
      BY <1>6, <1>9, <1>p, <2>1, <3>2 DEF PlaceSum
    <3>3. QED
      BY <3>1, <3>2
  <2>4. ASSUME NEW d \in Cores PROVE AskInv(d)'
    <3>1. AskInv(d)
      BY DEF WaitInv
    <3>2. CASE d = c
      <4>1. \A q \in Range(sleepQueue'[c]) : q \in Range(sleepQueue[c])
        BY <1>2, <2>1
      <4>2. QED
        BY <1>4, <1>5, <1>6, <1>9, <2>2, <3>1, <3>2, <4>1 DEF AskInv, Nonempty
    <3>3. CASE d # c
      BY <1>6, <1>9, <2>1, <3>1, <3>3 DEF AskInv, Nonempty
    <3>4. QED
      BY <3>2, <3>3
  <2>5. \A d \in Cores : rxReq[d] # <<>> => rxReq'[d] # <<>> /\ Head(rxReq'[d]) = Head(rxReq[d])
    <3>1. rxReq[c] # <<>> => Append(rxReq[c], st) # <<>> /\ Head(Append(rxReq[c], st)) = Head(rxReq[c])
      BY <1>7, AppendProperties
    <3>2. QED
      BY <2>1, <3>1
  <2>6. ASSUME NEW d \in Cores PROVE ServeInv(d)'
    BY <1>6, <2>5 DEF WaitInv, ServeInv, Nonempty
  <2>7. SureInv'
    <3>1. ASSUME NEW u \in Threads PROVE Serving(CoreOf(u), u) => Serving(CoreOf(u), u)'
      <4>1. ServeInv(CoreOf(u))
        BY <1>p DEF WaitInv
      <4>2. QED
        BY <1>6, <1>p, <2>5, <4>1 DEF Serving, ServeInv
    <3>2. QED
      BY <1>6, <1>9, <3>1 DEF WaitInv, SureInv, Nonempty, Answered
  <2>8. QED
    BY <2>3, <2>4, <2>6, <2>7 DEF WaitInv
\* The thread wakes up.
<1>10. CASE /\ suspended' = [suspended EXCEPT ![t] = FALSE]
            /\ sure' = [sure EXCEPT ![t] = @ \/ "recv" \in EventMatch(st)]
            /\ sleepQueue' = [sleepQueue EXCEPT ![c] = Tail(@)]
            /\ UNCHANGED rxReq
  <2>1. /\ sleepQueue'[c] = Tail(sleepQueue[c])
        /\ \A d \in Cores : d # c => sleepQueue'[d] = sleepQueue[d]
        /\ \A u \in Threads : u # t => suspended'[u] = suspended[u] /\ sure'[u] = sure[u]
    BY <1>7, <1>10
  <2>2. suspended[t] /\ ~ suspended'[t]
    <3>1. suspended[t]
      BY <1>1, <1>3, <1>4, <1>5, Alone
    <3>2. ~ suspended'[t]
      BY <1>7, <1>10
    <3>3. QED
      BY <3>1, <3>2
  <2>3. sure[t] => sure'[t]
    <3>1. sure'[t] = (sure[t] \/ "recv" \in EventMatch(st))
      BY <1>7, <1>10, Zenon
    <3>2. QED
      BY <3>1
  <2>4. sure'[t] => sure[t] \/ Nonempty(t)
    <3>1. sure'[t] = (sure[t] \/ "recv" \in EventMatch(st))
      BY <1>7, <1>10, Zenon
    <3>2. "recv" \in EventMatch(st) => st.canRecv
      BY DEF EventMatch
    <3>3. QED
      BY <1>5, <3>1, <3>2
  <2>5. PlaceInv'
    <3> SUFFICES ASSUME NEW u \in Threads PROVE PlaceSum(u)' = Ind(suspended'[u])
      BY DEF PlaceInv, Ind
    <3>1. CASE CoreOf(u) = c
      <4>2. PlaceSum(u)' = Hits(sleepQueue'[c], StatusOf(u)) + Hits(rxReq[c], StatusOf(u))
                             + Hits(recvResp[c], AnswerOf(u))
        BY <1>6, <1>10, <3>1 DEF PlaceSum
      <4>3. PlaceSum(u) = Hits(sleepQueue[c], StatusOf(u)) + Hits(rxReq[c], StatusOf(u))
                             + Hits(recvResp[c], AnswerOf(u))
        BY <3>1 DEF PlaceSum
      <4>4. PlaceSum(u) = PlaceSum(u)' + Ind(t = u) /\ PlaceSum(u)' \in Nat
        BY <1>q, <2>1, <4>2, <4>3
      <4>5. Ind(suspended[u]) = Ind(suspended'[u]) + Ind(t = u)
        <5>1. CASE u = t
          BY <2>2, <5>1 DEF Ind
        <5>2. CASE u # t
          <6>1. Ind(suspended'[u]) = Ind(suspended[u]) /\ Ind(t = u) = 0
            BY <2>1, <5>2 DEF Ind
          <6>2. Ind(suspended[u]) \in Nat
            BY DEF Ind
          <6>3. QED
            BY <6>1, <6>2
        <5>3. QED
          BY <5>1, <5>2
      <4>6. Ind(suspended'[u]) \in Nat /\ Ind(t = u) \in Nat
        BY DEF Ind
      <4>7. PlaceSum(u)' + Ind(t = u) = Ind(suspended'[u]) + Ind(t = u)
        BY <1>p, <4>4, <4>5
      <4>8. QED
        BY <4>4, <4>6, <4>7
    <3>2. CASE CoreOf(u) # c
      <4>1. u # t
        BY <1>5, <3>2
      <4>2. PlaceSum(u)' = PlaceSum(u)
        BY <1>6, <1>10, <1>p, <2>1, <3>2 DEF PlaceSum
      <4>3. Ind(suspended'[u]) = Ind(suspended[u])
        BY <2>1, <4>1 DEF Ind
      <4>4. QED
        BY <1>p, <4>2, <4>3
    <3>3. QED
      BY <3>1, <3>2
  <2>6. ASSUME NEW d \in Cores PROVE AskInv(d)'
    <3>1. AskInv(d)
      BY DEF WaitInv
    <3>2. \A q \in Range(sleepQueue'[d]) : q \in Range(sleepQueue[d])
      BY <1>2, <2>1
    <3>3. \A q \in Range(sleepQueue[d]) \cup Range(rxReq[d]) : q.id \in Threads
      BY QueueShape
    <3>4. \A u \in Threads : sure[u] => sure'[u]
      BY <2>1, <2>3
    <3>5. QED
      BY <1>6, <1>10, <3>1, <3>2, <3>3, <3>4 DEF AskInv, Nonempty
  <2>7. ASSUME NEW d \in Cores PROVE ServeInv(d)'
    BY <1>6, <1>10 DEF WaitInv, ServeInv, Nonempty
  <2>8. SureInv'
    <3>1. ASSUME NEW u \in Threads, sure'[u]
          PROVE  Nonempty(u)' \/ Serving(CoreOf(u), u)' \/ Answered(CoreOf(u), u)'
      <4>1. sure[u] \/ Nonempty(u)
        BY <2>1, <2>4, <3>1
      <4>2. Nonempty(u) \/ Serving(CoreOf(u), u) \/ Answered(CoreOf(u), u)
        BY <4>1 DEF WaitInv, SureInv
      <4>3. QED
        BY <1>6, <1>10, <4>2 DEF Nonempty, Serving, Answered
    <3>2. QED
      BY <3>1 DEF SureInv
  <2>9. QED
    BY <2>5, <2>6, <2>7, <2>8 DEF WaitInv
\* The status goes to the back of the queue.
<1>11. CASE /\ sleepQueue' = [sleepQueue EXCEPT ![c] = Requeue(@)]
            /\ UNCHANGED <<suspended, sure, rxReq>>
  <2>1. /\ sleepQueue'[c] = Append(Tail(sleepQueue[c]), st)
        /\ \A d \in Cores : d # c => sleepQueue'[d] = sleepQueue[d]
    BY <1>3, <1>7, <1>11 DEF Requeue
  <2> DEFINE q == Tail(sleepQueue[c])
  <2>q. q \in Seq(SleepStatus) /\ sleepQueue'[c] = Append(q, st)
    BY <1>2, <2>1
  <2> HIDE DEF q
  <2>2. Range(sleepQueue'[c]) = Range(sleepQueue[c])
    <3>1. Range(sleepQueue'[c]) = Range(q) \cup {st}
      BY <2>q, RangeAppend
    <3>2. QED
      BY <1>2, <1>3, <3>1 DEF q
  <2>3. PlaceInv'
    <3> SUFFICES ASSUME NEW u \in Threads PROVE PlaceSum(u)' = Ind(suspended'[u])
      BY DEF PlaceInv, Ind
    <3>1. CASE CoreOf(u) = c
      <4>1. Hits(sleepQueue'[c], StatusOf(u)) = Hits(Tail(sleepQueue[c]), StatusOf(u)) + Ind(t = u)
        <5>1. Hits(sleepQueue'[c], StatusOf(u)) = Hits(q, StatusOf(u)) + Ind(st.id = u)
          BY <2>q, StatusCount
        <5>2. QED
          BY <1>4, <5>1 DEF q
      <4>2. Hits(sleepQueue'[c], StatusOf(u)) = Hits(sleepQueue[c], StatusOf(u))
        BY <1>q, <4>1
      <4>3. PlaceSum(u)' = PlaceSum(u)
        BY <1>6, <1>11, <3>1, <4>2 DEF PlaceSum
      <4>4. QED
        BY <1>11, <1>p, <4>3
    <3>2. CASE CoreOf(u) # c
      BY <1>6, <1>11, <1>p, <2>1, <3>2 DEF PlaceSum
    <3>3. QED
      BY <3>1, <3>2
  <2>4. ASSUME NEW d \in Cores PROVE AskInv(d)'
    <3>1. AskInv(d) /\ Range(sleepQueue'[d]) = Range(sleepQueue[d])
      BY <2>1, <2>2 DEF WaitInv
    <3>2. QED
      BY <1>6, <1>11, <3>1 DEF AskInv, Nonempty
  <2>5. ASSUME NEW d \in Cores PROVE ServeInv(d)'
    BY <1>6, <1>11 DEF WaitInv, ServeInv, Nonempty
  <2>6. SureInv'
    BY <1>6, <1>11 DEF WaitInv, SureInv, Nonempty, Serving, Answered
  <2>7. QED
    BY <2>3, <2>4, <2>5, <2>6 DEF WaitInv
<1>12. QED
  BY <1>8, <1>9, <1>10, <1>11

LEMMA WaitSleep ==
  ASSUME WaitTypes, WaitInv, NEW t \in Threads,
         NEW op \in {"CanRecv", "Recv", "WaitUntil"}, NEW e \in SUBSET Events,
         Sleep(t, op, e)
  PROVE  WaitInv'
<1>1. /\ ~ suspended[t] /\ (op = "Recv" => sure[t])
      /\ suspended' = [suspended EXCEPT ![t] = TRUE]
      /\ sleepQueue' = [sleepQueue EXCEPT ![CoreOf(t)] = Append(@, Status(t, op, e))]
      /\ UNCHANGED <<sure, rxReq, serveState, canDeq, recvResp, ramFront, ramBack>>
  BY DEF Sleep, queueVars, serveVars
<1>2. PICK c \in Cores : c = CoreOf(t)
  BY ThreadShape
<1>3. PICK st : st = Status(t, op, e)
  OBVIOUS
<1>4. st \in SleepStatus /\ st.id = t /\ st.op = op /\ ~ st.canRecv
  BY <1>3 DEF Status, SleepStatus
<1>5. /\ suspended \in [Threads -> BOOLEAN]
      /\ rxReq \in [Cores -> Seq(SleepStatus)]
      /\ sleepQueue \in [Cores -> Seq(SleepStatus)]
  BY DEF WaitTypes, ThreadsOK, ServeOK, SleepOK
<1>6. /\ sleepQueue'[c] = Append(sleepQueue[c], st)
      /\ \A d \in Cores : d # c => sleepQueue'[d] = sleepQueue[d]
      /\ \A u \in Threads : u # t => suspended'[u] = suspended[u]
  BY <1>1, <1>2, <1>3, <1>5
<1>7. suspended'[t] = TRUE
  BY <1>1, <1>5
<1>8. Range(sleepQueue'[c]) = Range(sleepQueue[c]) \cup {st}
  BY <1>4, <1>5, <1>6, RangeAppend
<1>9. PlaceInv'
  <2> SUFFICES ASSUME NEW u \in Threads PROVE PlaceSum(u)' = Ind(suspended'[u])
    BY DEF PlaceInv, Ind
  <2>1. PlaceSum(u) = Ind(suspended[u]) /\ CoreOf(u) \in Cores
    BY ThreadShape DEF WaitInv, PlaceInv
  <2>2. CASE CoreOf(u) = c
    <3>1. Hits(sleepQueue'[c], StatusOf(u)) = Hits(sleepQueue[c], StatusOf(u)) + Ind(t = u)
      BY <1>4, <1>5, <1>6, StatusCount
    <3>2. /\ Hits(rxReq[c], StatusOf(u)) \in Nat /\ Hits(recvResp[c], AnswerOf(u)) \in Nat
          /\ Hits(sleepQueue[c], StatusOf(u)) \in Nat /\ Ind(t = u) \in Nat
      BY <1>5, StatusCount, AnswerCount, QueueShape DEF Ind
    <3>3. PlaceSum(u)' = Hits(sleepQueue'[c], StatusOf(u)) + Hits(rxReq[c], StatusOf(u))
                           + Hits(recvResp[c], AnswerOf(u))
      BY <1>1, <2>2 DEF PlaceSum
    <3>4. PlaceSum(u) = Hits(sleepQueue[c], StatusOf(u)) + Hits(rxReq[c], StatusOf(u))
                           + Hits(recvResp[c], AnswerOf(u))
      BY <2>2 DEF PlaceSum
    <3>5. PlaceSum(u)' = PlaceSum(u) + Ind(t = u)
      BY <3>1, <3>2, <3>3, <3>4
    <3>6. Ind(suspended'[u]) = Ind(suspended[u]) + Ind(t = u)
      <4>1. CASE u = t
        BY <1>1, <1>7, <4>1 DEF Ind
      <4>2. CASE u # t
        <5>1. Ind(suspended'[u]) = Ind(suspended[u]) /\ Ind(t = u) = 0
          BY <1>6, <4>2 DEF Ind
        <5>2. Ind(suspended[u]) \in Nat
          BY DEF Ind
        <5>3. QED
          BY <5>1, <5>2
      <4>3. QED
        BY <4>1, <4>2
    <3>7. QED
      BY <2>1, <3>5, <3>6
  <2>3. CASE CoreOf(u) # c
    <3>1. u # t
      BY <1>2, <2>3
    <3>2. PlaceSum(u)' = PlaceSum(u)
      BY <1>1, <1>6, <2>1, <2>3 DEF PlaceSum
    <3>3. Ind(suspended'[u]) = Ind(suspended[u])
      BY <1>6, <3>1 DEF Ind
    <3>4. QED
      BY <2>1, <3>2, <3>3
  <2>4. QED
    BY <2>2, <2>3
<1>10. ASSUME NEW d \in Cores PROVE AskInv(d)'
  <2>1. AskInv(d)
    BY DEF WaitInv
  <2>2. CASE d = c
    BY <1>1, <1>2, <1>4, <1>8, <2>1, <2>2 DEF AskInv, Nonempty
  <2>3. CASE d # c
    BY <1>1, <1>6, <2>1, <2>3 DEF AskInv, Nonempty
  <2>4. QED
    BY <2>2, <2>3
<1>11. ASSUME NEW d \in Cores PROVE ServeInv(d)'
  BY <1>1 DEF WaitInv, ServeInv, Nonempty
<1>12. SureInv'
  BY <1>1 DEF WaitInv, SureInv, Nonempty, Serving, Answered
<1>13. QED
  BY <1>9, <1>10, <1>11, <1>12 DEF WaitInv

-----------------------------------------------------------------------------
(* The invariant of multicast                                              *)

\* Every core multicasts only to its own threads, and never to nobody.
McastInv == \A c \in Cores :
  /\ \A m \in Range(mcastBuffer[c]) : m.dests # {} /\ m.dests \subseteq ThreadsOn(c)
  /\ mcastState[c] # 0 => mcastDests[c] \subseteq ThreadsOn(c)
  /\ mcastState[c] = 1 => mcastDests[c] # {}
  /\ mcastState[c] = 2 => mcastDest[c] \in ThreadsOn(c)
  /\ enqStage2[c] # <<>> => enqStage2[c][1] \in ThreadsOn(c)

\* The lowest thread is one of the threads.
LEMMA FirstHotType ==
  ASSUME NEW S \in SUBSET Threads, S # {}
  PROVE  FirstHot(S) \in S
<1>1. S \in SUBSET Nat
  BY ThreadShape
<1>2. \E t \in S : \A u \in S : t <= u
  BY <1>1, LeastNumber
<1>3. QED
  BY <1>2 DEF FirstHot

LEMMA McastFrame ==
  ASSUME McastInv, UNCHANGED <<mcastBuffer, mcastState, mcastDests, mcastDest, enqStage2>>
  PROVE  McastInv'
BY DEF McastInv

\* The new entries of the buffers.
LEMMA BufferAppend ==
  ASSUME McastOK, NEW dests \in SUBSET Threads, ReceiveFinalFlit(dests),
         Head(freeSlots) \in Slots, NEW c \in Cores
  PROVE  /\ dests \cap ThreadsOn(c) = {} => mcastBuffer'[c] = mcastBuffer[c]
         /\ dests \cap ThreadsOn(c) # {} =>
              /\ [dests |-> dests \cap ThreadsOn(c), slot |-> Head(freeSlots)] \in Entry
              /\ mcastBuffer'[c] = Append(mcastBuffer[c],
                   [dests |-> dests \cap ThreadsOn(c), slot |-> Head(freeSlots)])
              /\ Range(mcastBuffer'[c]) = Range(mcastBuffer[c]) \cup
                   {[dests |-> dests \cap ThreadsOn(c), slot |-> Head(freeSlots)]}
         /\ mcastBuffer'[c] \in Seq(Entry)
<1>1. PICK m : m = [dests |-> dests \cap ThreadsOn(c), slot |-> Head(freeSlots)]
  OBVIOUS
<1>2. m \in Entry
  BY <1>1 DEF Entry
<1>3. mcastBuffer[c] \in Seq(Entry)
  BY DEF McastOK
<1>4. mcastBuffer'[c] = IF dests \cap ThreadsOn(c) = {} THEN mcastBuffer[c]
                        ELSE Append(mcastBuffer[c], m)
  BY <1>1 DEF ReceiveFinalFlit
<1>5. /\ Append(mcastBuffer[c], m) \in Seq(Entry)
      /\ Range(Append(mcastBuffer[c], m)) = Range(mcastBuffer[c]) \cup {m}
  BY <1>2, <1>3, RangeAppend
<1>6. QED
  BY <1>1, <1>2, <1>3, <1>4, <1>5

LEMMA McastReceiveFinalFlit ==
  ASSUME McastOK, McastInv, NEW dests \in SUBSET Threads, ReceiveFinalFlit(dests),
         Head(freeSlots) \in Slots
  PROVE  McastInv'
<1>1. UNCHANGED <<mcastState, mcastDests, mcastDest, enqStage2>>
  BY DEF ReceiveFinalFlit, queueVars
<1>2. ASSUME NEW c \in Cores, NEW m \in Range(mcastBuffer'[c])
      PROVE  m.dests # {} /\ m.dests \subseteq ThreadsOn(c)
  <2>1. m \in Range(mcastBuffer[c]) \/
          /\ dests \cap ThreadsOn(c) # {}
          /\ m = [dests |-> dests \cap ThreadsOn(c), slot |-> Head(freeSlots)]
    BY <1>2, BufferAppend, ZenonT(30)
  <2>2. QED
    BY <2>1 DEF McastInv
<1>3. QED
  BY <1>1, <1>2 DEF McastInv

LEMMA McastMcast0 ==
  ASSUME McastOK, McastInv, NEW c \in Cores, Mcast0(c)
  PROVE  McastInv'
<1>1. /\ mcastBuffer[c] # <<>>
      /\ mcastBuffer' = [mcastBuffer EXCEPT ![c] = Tail(@)]
      /\ mcastDests' = [mcastDests EXCEPT ![c] = Head(mcastBuffer[c]).dests]
      /\ mcastState' = [mcastState EXCEPT ![c] = 1]
      /\ UNCHANGED <<mcastDest, enqStage2>>
  BY DEF Mcast0, queueVars
<1>2. /\ mcastBuffer \in [Cores -> Seq(Entry)] /\ mcastDests \in [Cores -> SUBSET Threads]
      /\ mcastState \in [Cores -> 0 .. 2]
  BY DEF McastOK
<1>3. Range(mcastBuffer[c]) = Range(Tail(mcastBuffer[c])) \cup {Head(mcastBuffer[c])}
  BY <1>1, <1>2, RangeTail
<1>4. ASSUME NEW d \in Cores
      PROVE  /\ \A m \in Range(mcastBuffer'[d]) : m.dests # {} /\ m.dests \subseteq ThreadsOn(d)
             /\ mcastState'[d] # 0 => mcastDests'[d] \subseteq ThreadsOn(d)
             /\ mcastState'[d] = 1 => mcastDests'[d] # {}
             /\ mcastState'[d] = 2 => mcastDest'[d] \in ThreadsOn(d)
             /\ enqStage2'[d] # <<>> => enqStage2'[d][1] \in ThreadsOn(d)
  <2>1. CASE d = c
    BY <1>1, <1>2, <1>3, <2>1 DEF McastInv
  <2>2. CASE d # c
    BY <1>1, <1>2, <2>2 DEF McastInv
  <2>3. QED
    BY <2>1, <2>2
<1>5. QED
  BY <1>4 DEF McastInv

LEMMA McastMcast1 ==
  ASSUME McastOK, McastInv, NEW c \in Cores, Mcast1(c)
  PROVE  McastInv' /\ FirstHot(mcastDests[c]) \in mcastDests[c]
<1>1. /\ mcastState[c] = 1
      /\ mcastDest' = [mcastDest EXCEPT ![c] = FirstHot(mcastDests[c])]
      /\ mcastDests' = [mcastDests EXCEPT ![c] = @ \ {FirstHot(@)}]
      /\ mcastState' = [mcastState EXCEPT ![c] = 2]
      /\ UNCHANGED <<mcastBuffer, enqStage2>>
  BY DEF Mcast1, queueVars
<1>2. /\ mcastDest \in [Cores -> Threads] /\ mcastDests \in [Cores -> SUBSET Threads]
      /\ mcastState \in [Cores -> 0 .. 2]
  BY DEF McastOK
<1>3. mcastDests[c] # {} /\ mcastDests[c] \subseteq ThreadsOn(c)
  BY <1>1 DEF McastInv
<1>4. FirstHot(mcastDests[c]) \in mcastDests[c]
  BY <1>2, <1>3, FirstHotType
<1>5. ASSUME NEW d \in Cores
      PROVE  /\ \A m \in Range(mcastBuffer'[d]) : m.dests # {} /\ m.dests \subseteq ThreadsOn(d)
             /\ mcastState'[d] # 0 => mcastDests'[d] \subseteq ThreadsOn(d)
             /\ mcastState'[d] = 1 => mcastDests'[d] # {}
             /\ mcastState'[d] = 2 => mcastDest'[d] \in ThreadsOn(d)
             /\ enqStage2'[d] # <<>> => enqStage2'[d][1] \in ThreadsOn(d)
  <2>1. CASE d = c
    BY <1>1, <1>2, <1>3, <1>4, <2>1 DEF McastInv
  <2>2. CASE d # c
    BY <1>1, <1>2, <2>2 DEF McastInv
  <2>3. QED
    BY <2>1, <2>2
<1>6. QED
  BY <1>4, <1>5 DEF McastInv

LEMMA McastMcast2 ==
  ASSUME McastOK, EnqOK, McastInv, NEW c \in Cores, Mcast2(c)
  PROVE  McastInv'
<1>1. /\ mcastState[c] = 2
      /\ enqStage2' = [enqStage2 EXCEPT ![c] = <<mcastDest[c], mcastSlot[c]>>]
      /\ mcastState' = [mcastState EXCEPT ![c] = AfterMcast(mcastDests[c])]
      /\ mcastDest' = [mcastDest EXCEPT ![c] = 0]
      /\ UNCHANGED <<mcastBuffer, mcastDests>>
  BY DEF Mcast2
<1>2. /\ mcastDest \in [Cores -> Threads] /\ mcastState \in [Cores -> 0 .. 2]
      /\ enqStage2 \in [Cores -> {<<>>} \cup (Threads \X Slots)]
  BY DEF McastOK, EnqOK
<1>3. /\ mcastState'[c] = AfterMcast(mcastDests[c])
      /\ enqStage2'[c] = <<mcastDest[c], mcastSlot[c]>>
      /\ \A d \in Cores : d # c => /\ mcastState'[d] = mcastState[d]
                                   /\ enqStage2'[d] = enqStage2[d]
                                   /\ mcastDest'[d] = mcastDest[d]
  BY <1>1, <1>2
<1>4. ASSUME NEW d \in Cores
      PROVE  /\ \A m \in Range(mcastBuffer'[d]) : m.dests # {} /\ m.dests \subseteq ThreadsOn(d)
             /\ mcastState'[d] # 0 => mcastDests'[d] \subseteq ThreadsOn(d)
             /\ mcastState'[d] = 1 => mcastDests'[d] # {}
             /\ mcastState'[d] = 2 => mcastDest'[d] \in ThreadsOn(d)
             /\ enqStage2'[d] # <<>> => enqStage2'[d][1] \in ThreadsOn(d)
  <2>1. CASE d = c
    BY <1>1, <1>3, <2>1 DEF McastInv, AfterMcast
  <2>2. CASE d # c
    BY <1>1, <1>3, <2>2 DEF McastInv
  <2>3. QED
    BY <2>1, <2>2
<1>5. QED
  BY <1>4 DEF McastInv

LEMMA McastEnqStage2 ==
  ASSUME EnqOK, McastInv, NEW c \in Cores, EnqStage2(c)
  PROVE  McastInv'
<1>1. /\ enqStage2' = [enqStage2 EXCEPT ![c] = <<>>]
      /\ UNCHANGED <<mcastBuffer, mcastState, mcastDests, mcastDest>>
  BY DEF EnqStage2, mcastVars
<1>2. enqStage2 \in [Cores -> {<<>>} \cup (Threads \X Slots)]
  BY DEF EnqOK
<1>3. \A d \in Cores : enqStage2'[d] # <<>> => enqStage2'[d] = enqStage2[d]
  BY <1>1, <1>2
<1>4. QED
  BY <1>1, <1>3 DEF McastInv

-----------------------------------------------------------------------------
(* Type correctness of a step                                              *)

LEMMA TypeInit == Init => TypeOK
<1> SUFFICES ASSUME Init PROVE TypeOK
  OBVIOUS
<1>1. /\ 0 \in Threads /\ NumCores * ThreadsPerCore \in Nat /\ Stale \in Slots
      /\ MaxFlits \in Nat \ {0} /\ QueueSize \in Nat /\ QueueSize > 1
      /\ NumSendSlots \in NumSendSlots .. NumSlots
  BY ThreadShape, SlotShape, MailboxAssumption
<1>2. ThreadsOK /\ HeldOK /\ SlotsOK
  BY <1>1 DEF Init, ThreadsOK, HeldOK, SlotsOK
<1>3. ScratchOK /\ CountsOK
  BY <1>1 DEF Init, ScratchOK, CountsOK
<1>4. McastOK /\ EnqOK
  BY <1>1 DEF Init, McastOK, EnqOK
<1>5. RamOK
  BY <1>1 DEF Init, RamOK
<1>6. ServeOK /\ FreeOK /\ SleepOK /\ HistoryOK
  BY <1>1 DEF Init, ServeOK, FreeOK, SleepOK, HistoryOK
<1>7. QED
  BY <1>2, <1>3, <1>4, <1>5, <1>6, TypeParts

LEMMA TypePartsNext ==
  ASSUME ThreadsOK', HeldOK', SlotsOK', ScratchOK', CountsOK', McastOK', EnqOK',
         RamOK', ServeOK', FreeOK', SleepOK', HistoryOK'
  PROVE  TypeOK'
BY DEF TypeOK, ThreadsOK, HeldOK, SlotsOK, ScratchOK, CountsOK, McastOK, EnqOK, RamOK,
       ServeOK, FreeOK, SleepOK, HistoryOK, Held, Entry, Answer

\* Arrival of messages.
LEMMA TypeInitFreeSlots ==
  ASSUME TypeOK, InitFreeSlots
  PROVE  TypeOK'
<1>1. SlotsOK'
  <2>1. initNext \in NumSendSlots .. NumSlots /\ initNext # NumSlots /\ freeSlots \in Seq(Slots)
        /\ recvFlitCount \in 0 .. MaxFlits - 1
    BY TypeParts DEF SlotsOK, InitFreeSlots, FreeSlotsInitDone
  <2>2. NumSendSlots \in Nat /\ NumSlots \in Nat
    BY MailboxAssumption
  <2>3. initNext \in Slots /\ initNext + 1 \in NumSendSlots .. NumSlots
    BY <2>1, <2>2 DEF Slots
  <2>4. QED
    BY <2>1, <2>3, RangeAppend DEF SlotsOK, InitFreeSlots, recvVars
<1>2. QED
  BY <1>1, TypeParts, TypeFrame, TypePartsNext
     DEF InitFreeSlots, thrVars, recvVars, queueVars

LEMMA FlitTypes ==
  ASSUME TypeOK, freeSlots # <<>>
  PROVE  /\ Msg \in Nat /\ Head(freeSlots) \in Slots /\ Tail(freeSlots) \in Seq(Slots)
         /\ [scratchpad EXCEPT ![Head(freeSlots)][recvFlitCount] = Msg]
              \in [Slots -> [0 .. MaxFlits - 1 -> Nat]]
<1>1. freeSlots \in Seq(Slots) /\ recvFlitCount \in 0 .. MaxFlits - 1
      /\ arrived \in Seq(SUBSET Threads)
      /\ scratchpad \in [Slots -> [0 .. MaxFlits - 1 -> Nat]]
  BY TypeParts DEF SlotsOK, ScratchOK, HistoryOK
<1>2. Head(freeSlots) \in Slots /\ Tail(freeSlots) \in Seq(Slots)
  BY <1>1, RangeTail
<1>3. Msg \in Nat
  BY <1>1 DEF Msg
<1>4. QED
  BY <1>1, <1>2, <1>3

LEMMA TypeReceiveFlit ==
  ASSUME TypeOK, ReceiveFlit
  PROVE  TypeOK'
<1>1. ScratchOK'
  BY FlitTypes DEF ReceiveFlit, CanRecv, ScratchOK
<1>2. SlotsOK'
  <2>1. recvFlitCount \in 0 .. MaxFlits - 1 /\ initNext \in NumSendSlots .. NumSlots
        /\ freeSlots \in Seq(Slots)
    BY TypeParts DEF SlotsOK
  <2>2. \A len \in Lengths : len \in 1 .. MaxFlits
    BY MailboxAssumption
  <2>3. MaxFlits \in Nat
    BY MailboxAssumption
  <2>4. recvFlitCount + 1 \in 0 .. MaxFlits - 1
    BY <2>1, <2>2, <2>3 DEF ReceiveFlit
  <2>5. QED
    BY <2>1, <2>4 DEF SlotsOK, ReceiveFlit
<1>3. QED
  BY <1>1, <1>2, TypeParts, TypeFrame, TypePartsNext
     DEF ReceiveFlit, thrVars, queueVars

LEMMA TypeReceiveFinalFlit ==
  ASSUME TypeOK, NEW dests \in DestSets, ReceiveFinalFlit(dests)
  PROVE  TypeOK'
<1>1. dests \in SUBSET Threads
  BY MailboxAssumption
<1>2. freeSlots # <<>>
  BY DEF ReceiveFinalFlit, CanRecv
<1>3. ScratchOK'
  BY <1>2, FlitTypes DEF ReceiveFinalFlit, ScratchOK
<1>4. SlotsOK'
  <2>1. initNext \in NumSendSlots .. NumSlots
    BY TypeParts DEF SlotsOK
  <2>2. MaxFlits \in Nat \ {0}
    BY MailboxAssumption
  <2>3. QED
    BY <1>2, <2>1, <2>2, FlitTypes DEF SlotsOK, ReceiveFinalFlit
<1>5. CountsOK'
  <2>1. RefCount(dests) \in 0 .. NumCores * ThreadsPerCore
    <3>1. IsFiniteSet(Threads) /\ Cardinality(Threads) = NumCores * ThreadsPerCore
      BY ThreadShape
    <3>2. Cardinality(dests) \in Nat /\ Cardinality(dests) <= Cardinality(Threads)
      BY <1>1, <3>1, FS_Subset, FS_CardinalityType
    <3>3. QED
      BY <3>1, <3>2, ThreadShape DEF RefCount
  <2>2. refCount \in [Slots -> 0 .. NumCores * ThreadsPerCore]
    BY TypeParts DEF CountsOK
  <2>3. refCount' = [refCount EXCEPT ![Head(freeSlots)] = RefCount(dests)]
    BY DEF ReceiveFinalFlit
  <2>4. QED
    BY <2>1, <2>2, <2>3 DEF CountsOK
<1>6. McastOK'
  <2>1. McastOK /\ Head(freeSlots) \in Slots
    BY <1>2, TypeParts, FlitTypes
  <2>2. \A c \in Cores : mcastBuffer'[c] \in Seq(Entry)
    BY <1>1, <2>1, BufferAppend
  <2>3. mcastBuffer' = [c \in Cores |-> mcastBuffer'[c]]
    BY DEF ReceiveFinalFlit
  <2>4. mcastBuffer' \in [Cores -> Seq(Entry)]
    BY <2>2, <2>3
  <2>5. QED
    BY <2>1, <2>4 DEF McastOK, ReceiveFinalFlit
<1>7. HistoryOK'
  BY <1>1, TypeParts, RangeAppend DEF HistoryOK, ReceiveFinalFlit
<1>8. QED
  BY <1>3, <1>4, <1>5, <1>6, <1>7, TypeParts, TypeFrame, TypePartsNext
     DEF ReceiveFinalFlit, thrVars, queueVars

\* Multicast.
LEMMA TypeMcast0 ==
  ASSUME TypeOK, NEW c \in Cores, Mcast0(c)
  PROVE  TypeOK'
<1>1. McastOK'
  <2>1. McastOK
    BY TypeParts
  <2>2. Head(mcastBuffer[c]) \in Entry /\ Tail(mcastBuffer[c]) \in Seq(Entry)
    BY <2>1, RangeTail DEF McastOK, Mcast0
  <2>3. Head(mcastBuffer[c]).dests \in SUBSET Threads /\ Head(mcastBuffer[c]).slot \in Slots
    BY <2>2 DEF Entry
  <2>4. QED
    BY <2>1, <2>2, <2>3 DEF McastOK, Mcast0
<1>2. QED
  BY <1>1, TypeParts, TypeFrame, TypePartsNext DEF Mcast0, thrVars, recvVars, queueVars

LEMMA TypeMcast1 ==
  ASSUME TypeOK, McastInv, NEW c \in Cores, Mcast1(c)
  PROVE  TypeOK'
<1>1. McastOK'
  <2>1. McastOK
    BY TypeParts
  <2>2. FirstHot(mcastDests[c]) \in Threads
    BY <2>1, McastMcast1 DEF McastOK
  <2>3. QED
    BY <2>1, <2>2 DEF McastOK, Mcast1
<1>2. QED
  BY <1>1, TypeParts, TypeFrame, TypePartsNext DEF Mcast1, thrVars, recvVars, queueVars

LEMMA TypeMcast2 ==
  ASSUME TypeOK, NEW c \in Cores, Mcast2(c)
  PROVE  TypeOK'
<1>1. McastOK /\ EnqOK
  BY TypeParts
<1>2. McastOK'
  <2>1. AfterMcast(mcastDests[c]) \in 0 .. 2 /\ 0 \in Threads /\ Stale \in Slots
    BY ThreadShape, SlotShape DEF AfterMcast
  <2>2. (IF AfterMcast(mcastDests[c]) = 0 THEN Stale ELSE mcastSlot[c]) \in Slots
    BY <1>1, <2>1 DEF McastOK
  <2>3. /\ mcastState' = [mcastState EXCEPT ![c] = AfterMcast(mcastDests[c])]
        /\ mcastSlot' = [mcastSlot EXCEPT ![c] =
                           IF AfterMcast(mcastDests[c]) = 0 THEN Stale ELSE mcastSlot[c]]
        /\ mcastDest' = [mcastDest EXCEPT ![c] = 0]
        /\ UNCHANGED <<mcastBuffer, mcastDests>>
    BY DEF Mcast2
  <2> HIDE DEF Mcast2
  <2>4. QED
    BY <1>1, <2>1, <2>2, <2>3 DEF McastOK
<1>3. EnqOK'
  <2>1. <<mcastDest[c], mcastSlot[c]>> \in Threads \X Slots
    BY <1>1 DEF McastOK
  <2>2. QED
    BY <1>1, <2>1 DEF EnqOK, Mcast2
<1>4. QED
  BY <1>2, <1>3, TypeParts, TypeFrame, TypePartsNext DEF Mcast2, thrVars, recvVars

LEMMA IncType ==
  ASSUME NEW p \in 0 .. QueueSize - 1
  PROVE  Inc(p) \in 0 .. QueueSize - 1 /\ Inc(p) = IF p = QueueSize - 1 THEN 0 ELSE p + 1
<1>1. QueueSize \in Nat /\ QueueSize > 1
  BY MailboxAssumption
<1>2. QED
  BY <1>1 DEF Inc

LEMMA TypeEnqStage2 ==
  ASSUME TypeOK, NEW c \in Cores, EnqStage2(c)
  PROVE  TypeOK'
<1>1. RamOK /\ EnqOK
  BY TypeParts
<1>2. enqStage2[c] \in Threads \X Slots
  BY <1>1 DEF EnqOK, EnqStage2
<1>3. PICK t \in Threads, s \in Slots : enqStage2[c] = <<t, s>>
  BY <1>2
<1>4. RamOK'
  <2>1. /\ ramData' = [ramData EXCEPT ![t][ramBack[t]] = s]
        /\ ramBack' = [ramBack EXCEPT ![t] = Inc(ramBack[t])]
        /\ ramFront' = ramFront
    BY <1>3 DEF EnqStage2
  <2>2. Inc(ramBack[t]) \in 0 .. QueueSize - 1
    BY <1>1, IncType DEF RamOK
  <2>3. QED
    BY <1>1, <2>1, <2>2 DEF RamOK
<1>5. EnqOK'
  BY <1>1 DEF EnqOK, EnqStage2
<1>6. QED
  BY <1>4, <1>5, TypeParts, TypeFrame, TypePartsNext DEF EnqStage2, thrVars, recvVars

\* The receive unit.
LEMMA TypeWait == TypeOK => WaitTypes
BY TypeParts DEF WaitTypes

LEMMA TypeServe0 ==
  ASSUME TypeOK, NEW c \in Cores, Serve0(c)
  PROVE  TypeOK'
<1>1. ServeOK'
  <2>1. ServeOK
    BY TypeParts
  <2>2. (ramFront[Head(rxReq[c]).id] # ramBack[Head(rxReq[c]).id]) \in BOOLEAN
    OBVIOUS
  <2>3. canDeq' \in [Cores -> BOOLEAN]
    <3>1. canDeq \in [Cores -> BOOLEAN]
      BY <2>1 DEF ServeOK
    <3>2. canDeq' = [canDeq EXCEPT ![c] =
             ramFront[Head(rxReq[c]).id] # ramBack[Head(rxReq[c]).id]]
      BY DEF Serve0
    <3>3. QED
      BY <2>2, <3>1, <3>2, Zenon
  <2>4. serveState' \in [Cores -> 0 .. 2]
    BY <2>1 DEF ServeOK, Serve0
  <2>5. QED
    BY <2>1, <2>3, <2>4 DEF ServeOK, Serve0
<1>2. QED
  BY <1>1, TypeParts, TypeFrame, TypePartsNext DEF Serve0, thrVars, recvVars, queueVars

LEMMA TypeServe1 ==
  ASSUME TypeOK, WaitInv, NEW c \in Cores, Serve1(c)
  PROVE  TypeOK'
<1>1. ServeOK /\ RamOK
  BY TypeParts
<1>2. PICK t \in Threads : t = Head(rxReq[c]).id
  <2>1. rxReq[c] # <<>>
    BY DEF WaitInv, ServeInv, Serve1
  <2>2. QED
    BY <2>1, TypeWait, QueueShape
<1>3. /\ itemOut' = [itemOut EXCEPT ![c] = ramData[t][ramFront[t]]]
      /\ ramData' = [ramData EXCEPT ![t][ramFront[t]] = Stale]
      /\ ramFront' = [ramFront EXCEPT ![t] = Inc(ramFront[t])]
      /\ canDeq' = [canDeq EXCEPT ![c] = FALSE]
      /\ serveState' = [serveState EXCEPT ![c] = 2]
      /\ UNCHANGED <<ramBack, rxReq, recvResp>>
  BY <1>2 DEF Serve1
<1>4. Stale \in Slots /\ Inc(ramFront[t]) \in 0 .. QueueSize - 1
  BY <1>1, SlotShape, IncType DEF RamOK
<1>5. RamOK'
  BY <1>1, <1>3, <1>4 DEF RamOK
<1>6. ServeOK'
  <2>1. ramData[t][ramFront[t]] \in Slots
    BY <1>1 DEF RamOK
  <2>2. QED
    BY <1>1, <1>3, <2>1 DEF ServeOK
<1>7. QED
  BY <1>5, <1>6, TypeParts, TypeFrame, TypePartsNext DEF Serve1, thrVars, recvVars

LEMMA TypeServe2 ==
  ASSUME TypeOK, WaitInv, NEW c \in Cores, Serve2(c)
  PROVE  TypeOK'
<1>1. ServeOK
  BY TypeParts
<1>2. rxReq[c] # <<>>
  BY DEF WaitInv, ServeInv, Serve2
<1>3. Head(rxReq[c]) \in SleepStatus /\ Tail(rxReq[c]) \in Seq(SleepStatus)
  BY <1>2, TypeWait, QueueShape
<1>4. [status |-> [Head(rxReq[c]) EXCEPT !.canRecv = canDeq[c]], data |-> itemOut[c]] \in Answer
  BY <1>1, <1>3 DEF ServeOK, SleepStatus, Answer
<1>5. Append(recvResp[c], [status |-> [Head(rxReq[c]) EXCEPT !.canRecv = canDeq[c]],
                           data |-> itemOut[c]]) \in Seq(Answer)
  BY <1>1, <1>4, RangeAppend DEF ServeOK
<1>6. Stale \in Slots
  BY SlotShape
<1>7. ServeOK'
  BY <1>1, <1>3, <1>5, <1>6 DEF ServeOK, Serve2
<1>8. QED
  BY <1>7, TypeParts, TypeFrame, TypePartsNext DEF Serve2, thrVars, recvVars, queueVars

\* The client unit.
LEMMA TypeRespond ==
  ASSUME TypeOK, NEW c \in Cores, Respond(c)
  PROVE  TypeOK'
<1>1. ServeOK /\ ThreadsOK /\ HeldOK /\ ScratchOK /\ HistoryOK
  BY TypeParts
<1>2. /\ recvResp[c] # <<>> /\ Head(recvResp[c]) \in Answer
      /\ Tail(recvResp[c]) \in Seq(Answer)
  BY TypeWait, QueueShape DEF Respond
<1>3. PICK r \in Answer : r = Head(recvResp[c])
  BY <1>2
<1>4. PICK t \in Threads, s \in Slots : t = r.status.id /\ s = r.data
  BY <1>3, TypeWait, QueueShape
<1>5. r.status.canRecv \in BOOLEAN
  BY DEF Answer, SleepStatus
<1>6. /\ suspended' = [suspended EXCEPT ![t] = FALSE]
      /\ recvResp' = [recvResp EXCEPT ![c] = Tail(@)]
      /\ UNCHANGED <<canSend, rxReq, serveState, canDeq, itemOut, arrived>>
      /\ \/ /\ sure' = [sure EXCEPT ![t] = r.status.canRecv]
            /\ UNCHANGED <<held, got>>
         \/ /\ sure' = [sure EXCEPT ![t] = FALSE]
            /\ held' = [held EXCEPT ![t] = @ \cup {[slot |-> s, flits |-> scratchpad[s]]}]
            /\ got' = [got EXCEPT ![t] = Append(@, scratchpad[s][0])]
  BY <1>3, <1>4 DEF Respond
<1>7. ThreadsOK'
  <2>1. sure \in [Threads -> BOOLEAN]
    BY <1>1 DEF ThreadsOK
  <2>2. sure' \in [Threads -> BOOLEAN]
    <3>1. CASE sure' = [sure EXCEPT ![t] = r.status.canRecv]
      BY <1>5, <2>1, <3>1, Zenon
    <3>2. CASE sure' = [sure EXCEPT ![t] = FALSE]
      BY <2>1, <3>2
    <3>3. QED
      BY <1>6, <3>1, <3>2
  <2>3. QED
    BY <1>1, <1>6, <2>2 DEF ThreadsOK
<1>8. ServeOK'
  BY <1>1, <1>2, <1>6 DEF ServeOK
<1>9. HeldOK'
  <2>1. [slot |-> s, flits |-> scratchpad[s]] \in Held
    BY <1>1 DEF ScratchOK, Held
  <2>2. QED
    BY <1>1, <1>6, <2>1 DEF HeldOK
<1>10. HistoryOK'
  <2>1. scratchpad[s][0] \in Nat
    <3>1. 0 \in 0 .. MaxFlits - 1
      BY MailboxAssumption
    <3>2. QED
      BY <1>1, <3>1 DEF ScratchOK
  <2>2. got \in [Threads -> Seq(Nat)]
    BY <1>1 DEF HistoryOK
  <2>3. Append(got[t], scratchpad[s][0]) \in Seq(Nat)
    BY <2>1, <2>2, RangeAppend
  <2>4. QED
    BY <1>1, <1>6, <2>2, <2>3 DEF HistoryOK
<1>11. QED
  BY <1>7, <1>8, <1>9, <1>10, TypeParts, TypeFrame, TypePartsNext DEF Respond, recvVars, queueVars

LEMMA TypeWakeup2 ==
  ASSUME TypeOK, NEW c \in Cores, Wakeup2(c)
  PROVE  TypeOK'
<1>1. ServeOK /\ SleepOK
  BY TypeParts
<1>2. /\ recvResp[c] # <<>> /\ Head(recvResp[c]).status \in SleepStatus
      /\ Tail(recvResp[c]) \in Seq(Answer)
  BY TypeWait, QueueShape DEF Wakeup2
<1>3. Append(sleepQueue[c], Head(recvResp[c]).status) \in Seq(SleepStatus)
  BY <1>1, <1>2, RangeAppend DEF SleepOK
<1>4. ServeOK'
  BY <1>1, <1>2 DEF ServeOK, Wakeup2
<1>5. SleepOK'
  BY <1>1, <1>3 DEF SleepOK, Wakeup2
<1>6. QED
  BY <1>4, <1>5, TypeParts, TypeFrame, TypePartsNext DEF Wakeup2, thrVars, recvVars, queueVars

LEMMA TypeWakeup1 ==
  ASSUME TypeOK, NEW c \in Cores, Wakeup1(c)
  PROVE  TypeOK'
<1>1. ServeOK /\ SleepOK /\ ThreadsOK
  BY TypeParts
<1>2. /\ sleepQueue[c] # <<>> /\ Head(sleepQueue[c]) \in SleepStatus
      /\ Tail(sleepQueue[c]) \in Seq(SleepStatus) /\ rxReq[c] \in Seq(SleepStatus)
  BY TypeWait, QueueShape DEF Wakeup1
<1>3. PICK st \in SleepStatus : st = Head(sleepQueue[c])
  BY <1>2
<1>4. PICK t \in Threads : t = st.id
  BY <1>3, TypeWait, QueueShape
<1>5. /\ Append(rxReq[c], st) \in Seq(SleepStatus)
      /\ Requeue(sleepQueue[c]) \in Seq(SleepStatus)
  BY <1>2, <1>3, RangeAppend DEF Requeue
<1>6. /\ \/ rxReq' = [rxReq EXCEPT ![c] = Append(@, st)]
         \/ UNCHANGED rxReq
      /\ \/ sleepQueue' = [sleepQueue EXCEPT ![c] = Tail(@)]
         \/ sleepQueue' = [sleepQueue EXCEPT ![c] = Requeue(@)]
      /\ \/ UNCHANGED <<suspended, sure>>
         \/ /\ suspended' = [suspended EXCEPT ![t] = FALSE]
            /\ sure' = [sure EXCEPT ![t] = @ \/ "recv" \in EventMatch(st)]
      /\ UNCHANGED <<canSend, serveState, canDeq, itemOut, recvResp>>
  BY <1>3, <1>4 DEF Wakeup1
<1>7. ServeOK'
  BY <1>1, <1>5, <1>6 DEF ServeOK
<1>8. SleepOK'
  BY <1>1, <1>2, <1>5, <1>6 DEF SleepOK
<1>9. ThreadsOK'
  <2>1. sure \in [Threads -> BOOLEAN] /\ suspended \in [Threads -> BOOLEAN]
        /\ canSend \in [Threads -> BOOLEAN]
    BY <1>1 DEF ThreadsOK
  <2>2. CASE UNCHANGED <<suspended, sure>>
    BY <1>6, <2>1, <2>2 DEF ThreadsOK
  <2>3. CASE /\ suspended' = [suspended EXCEPT ![t] = FALSE]
             /\ sure' = [sure EXCEPT ![t] = @ \/ "recv" \in EventMatch(st)]
    <3>1. sure' \in [Threads -> BOOLEAN]
      <4>1. (sure[t] \/ "recv" \in EventMatch(st)) \in BOOLEAN
        OBVIOUS
      <4>2. QED
        BY <2>1, <2>3, <4>1, Zenon
    <3>2. suspended' \in [Threads -> BOOLEAN]
      BY <2>1, <2>3
    <3>3. QED
      BY <1>6, <2>1, <3>1, <3>2 DEF ThreadsOK
  <2>4. QED
    BY <1>6, <2>2, <2>3
<1>10. QED
  BY <1>7, <1>8, <1>9, TypeParts, TypeFrame, TypePartsNext DEF Wakeup1, recvVars, queueVars

\* The threads.
LEMMA TypeSleep ==
  ASSUME TypeOK, NEW t \in Threads, NEW op \in {"CanRecv", "Recv", "WaitUntil"},
         NEW e \in SUBSET Events, Sleep(t, op, e)
  PROVE  TypeOK'
<1>1. SleepOK /\ ThreadsOK
  BY TypeParts
<1>2. PICK c \in Cores : c = CoreOf(t)
  BY ThreadShape
<1>3. Status(t, op, e) \in SleepStatus
  BY DEF Status, SleepStatus
<1>4. Append(sleepQueue[c], Status(t, op, e)) \in Seq(SleepStatus)
  BY <1>1, <1>3, RangeAppend DEF SleepOK
<1>5. SleepOK'
  BY <1>1, <1>2, <1>4 DEF SleepOK, Sleep
<1>6. ThreadsOK'
  BY <1>1 DEF ThreadsOK, Sleep
<1>7. QED
  BY <1>5, <1>6, TypeParts, TypeFrame, TypePartsNext DEF Sleep, recvVars, queueVars

LEMMA TypeFree ==
  ASSUME TypeOK, NEW t \in Threads, NEW h \in held[t], Free(t, h)
  PROVE  TypeOK'
<1>1. HeldOK /\ FreeOK
  BY TypeParts
<1>2. h.slot \in Slots
  BY <1>1 DEF HeldOK, Held
<1>3. HeldOK'
  BY <1>1 DEF HeldOK, Free
<1>4. FreeOK'
  BY <1>1, <1>2, RangeAppend DEF FreeOK, Free
<1>5. QED
  BY <1>3, <1>4, TypeParts, TypeFrame, TypePartsNext DEF Free, recvVars, queueVars

LEMMA TypeSend ==
  ASSUME TypeOK, NEW t \in Threads, Send(t) \/ TransmitResponse(t)
  PROVE  TypeOK'
<1>1. ThreadsOK
  BY TypeParts
<1>2. /\ canSend' = [canSend EXCEPT ![t] = FALSE] \/ canSend' = [canSend EXCEPT ![t] = TRUE]
      /\ UNCHANGED <<suspended, sure, held, initNext, recvVars, mcastVars, queueVars, serveVars,
                     freeVars, sleepQueue, arrived, got>>
  BY DEF Send, TransmitResponse
<1>3. ThreadsOK'
  BY <1>1, <1>2 DEF ThreadsOK
<1>4. QED
  BY <1>2, <1>3, TypeParts, TypeFrame, TypePartsNext DEF recvVars, queueVars

\* The free unit.
LEMMA TypeFreeRead ==
  ASSUME TypeOK, FreeRead
  PROVE  TypeOK'
<1>1. FreeOK /\ CountsOK
  BY TypeParts
<1>2. Head(freeReq) \in Slots
  BY <1>1, RangeTail DEF FreeOK, FreeRead
<1>3. FreeOK'
  BY <1>1, <1>2 DEF FreeOK, CountsOK, FreeRead
<1>4. QED
  BY <1>3, TypeParts, TypeFrame, TypePartsNext DEF FreeRead, thrVars, recvVars, queueVars

LEMMA TypeFreeWrite ==
  ASSUME TypeOK, refCountOut # 0, FreeWrite
  PROVE  TypeOK'
<1>1. FreeOK /\ CountsOK /\ SlotsOK
  BY TypeParts
<1>2. Head(freeReq) \in Slots /\ Tail(freeReq) \in Seq(Slots)
  BY <1>1, RangeTail DEF FreeOK, FreeWrite
<1>3. refCountOut - 1 \in 0 .. NumCores * ThreadsPerCore
  BY <1>1, ThreadShape DEF FreeOK
<1>4. CountsOK'
  BY <1>1, <1>2, <1>3 DEF CountsOK, FreeWrite
<1>5. FreeOK'
  BY <1>2, ThreadShape DEF FreeOK, FreeWrite
<1>6. SlotsOK'
  <2>1. Append(freeSlots, Head(freeReq)) \in Seq(Slots)
    BY <1>1, <1>2, RangeAppend DEF SlotsOK
  <2>2. QED
    BY <1>1, <2>1 DEF SlotsOK, FreeWrite
<1>7. QED
  BY <1>4, <1>5, <1>6, TypeParts, TypeFrame, TypePartsNext DEF FreeWrite, thrVars, queueVars

-----------------------------------------------------------------------------
(* References to a slot, by where they are                                 *)

EntriesFor(t, s) == {m \in Entry : m.slot = s /\ t \in m.dests}
AnswersWith(t, s) ==
  {r \in Answer : r.status.op = "Recv" /\ r.status.id = t /\ r.data = s}

McastRefs(t, s) ==
  Hits(mcastBuffer[CoreOf(t)], EntriesFor(t, s))
  + Ind(mcastState[CoreOf(t)] # 0 /\ mcastSlot[CoreOf(t)] = s /\ t \in mcastDests[CoreOf(t)])
  + Ind(mcastState[CoreOf(t)] = 2 /\ mcastSlot[CoreOf(t)] = s /\ t = mcastDest[CoreOf(t)])
EnqRefs(t, s) == Ind(enqStage2[CoreOf(t)] = <<t, s>>)
QueueRefs(t, s) == Cardinality({i \in Queued(t) : ramData[t][i] = s})
ServeRefs(t, s) == Ind(Serving(CoreOf(t), t) /\ itemOut[CoreOf(t)] = s)
AnswerRefs(t, s) == Hits(recvResp[CoreOf(t)], AnswersWith(t, s))
HeldRefs(t, s) == Ind(\E h \in held[t] : h.slot = s)

Refs(t, s) == McastRefs(t, s) + EnqRefs(t, s) + QueueRefs(t, s)
              + ServeRefs(t, s) + AnswerRefs(t, s) + HeldRefs(t, s)

\* A thread has, or will have, at most one reference to a slot.
RefInv == \A t \in Threads : \A s \in Slots : Refs(t, s) <= 1

\* Slots not made free yet are in no use, and the free unit holds the count
\* of the slot that it recycles.
FreeInv ==
  /\ \A s \in Slots : initNext <= s => refCount[s] = 0
  /\ freeState = 1 => freeReq # <<>> /\ refCountOut = refCount[Head(freeReq)]

LEMMA IndType == \A p : Ind(p) \in Nat /\ (Ind(p) = 0 <=> ~ p) /\ Ind(p) <= 1
BY DEF Ind

LEMMA QueuedType ==
  ASSUME RamOK, NEW t \in Threads, NEW s
  PROVE  /\ IsFiniteSet(Queued(t)) /\ IsFiniteSet({i \in Queued(t) : ramData[t][i] = s})
         /\ QueueRefs(t, s) \in Nat
         /\ QueueRefs(t, s) = 0 <=> ~ \E i \in Queued(t) : ramData[t][i] = s
<1>1. QueueSize \in Nat
  BY MailboxAssumption
<1>2. IsFiniteSet(0 .. QueueSize - 1)
  BY <1>1, FS_Interval
<1>3. IsFiniteSet(Queued(t))
  BY <1>2, FS_Subset DEF Queued
<1> DEFINE I == {i \in Queued(t) : ramData[t][i] = s}
<1>4. IsFiniteSet(I)
  BY <1>3, FS_Subset
<1>5. Cardinality(I) \in Nat /\ (Cardinality(I) = 0 <=> I = {})
  BY <1>4, FS_CardinalityType, FS_EmptySet
<1>6. QED
  BY <1>3, <1>4, <1>5 DEF QueueRefs

\* The counts are numbers.
LEMMA RefTypes ==
  TypeOK => \A t \in Threads : \A s \in Slots :
    /\ McastRefs(t, s) \in Nat /\ EnqRefs(t, s) \in Nat /\ QueueRefs(t, s) \in Nat
    /\ ServeRefs(t, s) \in Nat /\ AnswerRefs(t, s) \in Nat /\ HeldRefs(t, s) \in Nat
    /\ Refs(t, s) \in Nat
<1> SUFFICES ASSUME TypeOK, NEW t \in Threads, NEW s \in Slots
             PROVE  /\ McastRefs(t, s) \in Nat /\ EnqRefs(t, s) \in Nat
                    /\ QueueRefs(t, s) \in Nat /\ ServeRefs(t, s) \in Nat
                    /\ AnswerRefs(t, s) \in Nat /\ HeldRefs(t, s) \in Nat
                    /\ Refs(t, s) \in Nat
  OBVIOUS
<1>1. CoreOf(t) \in Cores
  BY ThreadShape
<1>2. mcastBuffer[CoreOf(t)] \in Seq(Entry) /\ recvResp[CoreOf(t)] \in Seq(Answer)
  BY <1>1, TypeParts DEF McastOK, ServeOK
<1>3. McastRefs(t, s) \in Nat
  <2>1. Hits(mcastBuffer[CoreOf(t)], EntriesFor(t, s)) \in Nat
    BY <1>2, HitsType
  <2>2. /\ Ind(mcastState[CoreOf(t)] # 0 /\ mcastSlot[CoreOf(t)] = s
               /\ t \in mcastDests[CoreOf(t)]) \in Nat
        /\ Ind(mcastState[CoreOf(t)] = 2 /\ mcastSlot[CoreOf(t)] = s
               /\ t = mcastDest[CoreOf(t)]) \in Nat
    BY DEF Ind
  <2>3. QED
    BY <2>1, <2>2 DEF McastRefs
<1>4. AnswerRefs(t, s) \in Nat
  BY <1>2, HitsType DEF AnswerRefs
<1>5. QueueRefs(t, s) \in Nat
  BY TypeParts, QueuedType
<1>6. EnqRefs(t, s) \in Nat /\ ServeRefs(t, s) \in Nat /\ HeldRefs(t, s) \in Nat
  BY DEF EnqRefs, ServeRefs, HeldRefs, Ind
<1>7. QED
  BY <1>3, <1>4, <1>5, <1>6 DEF Refs

LEMMA RefTypesNext ==
  TypeOK' => (\A t \in Threads : \A s \in Slots :
    /\ McastRefs(t, s) \in Nat /\ EnqRefs(t, s) \in Nat /\ QueueRefs(t, s) \in Nat
    /\ ServeRefs(t, s) \in Nat /\ AnswerRefs(t, s) \in Nat /\ HeldRefs(t, s) \in Nat
    /\ Refs(t, s) \in Nat)'
BY RefTypes, PTL

\* The counts say which threads refer to a slot.
LEMMA ReferringIsRefs ==
  TypeOK => \A s \in Slots : Referring(s) = {t \in Threads : Refs(t, s) # 0}
<1> SUFFICES ASSUME TypeOK, NEW s \in Slots, NEW t \in Threads
             PROVE  t \in Referring(s) <=> Refs(t, s) # 0
  BY DEF Referring
<1>1. PICK c \in Cores : c = CoreOf(t)
  BY ThreadShape
<1>2. mcastBuffer[c] \in Seq(Entry) /\ recvResp[c] \in Seq(Answer)
  BY <1>1, TypeParts DEF McastOK, ServeOK
<1> DEFINE b1 == \E i \in 1 .. Len(mcastBuffer[c]) :
                   mcastBuffer[c][i].slot = s /\ t \in mcastBuffer[c][i].dests
           b2 == mcastState[c] # 0 /\ mcastSlot[c] = s /\ t \in mcastDests[c]
           b3 == mcastState[c] = 2 /\ mcastSlot[c] = s /\ t = mcastDest[c]
           b4 == enqStage2[c] = <<t, s>>
           b5 == \E i \in Queued(t) : ramData[t][i] = s
           b6 == s \in Taken(c) /\ Head(rxReq[c]).id = t
           b7 == \E i \in 1 .. Len(recvResp[c]) :
                   /\ recvResp[c][i].status.op = "Recv" /\ recvResp[c][i].status.id = t
                   /\ recvResp[c][i].data = s
           b8 == \E h \in held[t] : h.slot = s
<1>3. t \in Referring(s) <=> b1 \/ b2 \/ b3 \/ b4 \/ b5 \/ b6 \/ b7 \/ b8
  BY <1>1 DEF Referring
<1>4. Hits(mcastBuffer[c], EntriesFor(t, s)) \in Nat
      /\ (Hits(mcastBuffer[c], EntriesFor(t, s)) # 0 <=> b1)
  <2>1. /\ Hits(mcastBuffer[c], EntriesFor(t, s)) \in Nat
        /\ Hits(mcastBuffer[c], EntriesFor(t, s)) = 0 <=>
             \A i \in 1 .. Len(mcastBuffer[c]) : mcastBuffer[c][i] \notin EntriesFor(t, s)
    BY <1>2, HitsType
  <2>2. \A i \in 1 .. Len(mcastBuffer[c]) : mcastBuffer[c][i] \in Entry
    BY <1>2
  <2>3. QED
    BY <2>1, <2>2 DEF EntriesFor
<1>5. AnswerRefs(t, s) # 0 <=> b7
  <2>1. Hits(recvResp[c], AnswersWith(t, s)) = 0 <=>
             \A i \in 1 .. Len(recvResp[c]) : recvResp[c][i] \notin AnswersWith(t, s)
    BY <1>2, HitsType
  <2>2. \A i \in 1 .. Len(recvResp[c]) : recvResp[c][i] \in Answer
    BY <1>2
  <2>3. QED
    BY <1>1, <2>1, <2>2 DEF AnswersWith, AnswerRefs
<1>6. QueueRefs(t, s) # 0 <=> b5
  BY TypeParts, QueuedType
<1>7. /\ EnqRefs(t, s) # 0 <=> b4
      /\ HeldRefs(t, s) # 0 <=> b8
  BY <1>1 DEF EnqRefs, HeldRefs, Ind
<1>8. ServeRefs(t, s) # 0 <=> b6
  BY <1>1 DEF ServeRefs, Ind, Serving, Taken
<1>9. McastRefs(t, s) # 0 <=> b1 \/ b2 \/ b3
  <2>1. McastRefs(t, s) = Hits(mcastBuffer[c], EntriesFor(t, s)) + Ind(b2) + Ind(b3)
    BY <1>1 DEF McastRefs
  <2>2. /\ Ind(b2) \in Nat /\ (Ind(b2) # 0 <=> b2)
        /\ Ind(b3) \in Nat /\ (Ind(b3) # 0 <=> b3)
    BY DEF Ind
  <2> HIDE DEF b1, b2, b3
  <2>3. QED
    BY <1>4, <2>1, <2>2
<1> HIDE DEF b1, b2, b3, b4, b5, b6, b7, b8
<1>10. Refs(t, s) # 0 <=> \/ McastRefs(t, s) # 0 \/ EnqRefs(t, s) # 0 \/ QueueRefs(t, s) # 0
                          \/ ServeRefs(t, s) # 0 \/ AnswerRefs(t, s) # 0 \/ HeldRefs(t, s) # 0
  BY RefTypes DEF Refs
<1>11. QED
  BY <1>3, <1>5, <1>6, <1>7, <1>8, <1>9, <1>10

LEMMA ReferringIsRefsNext ==
  TypeOK' => (\A s \in Slots : Referring(s) = {t \in Threads : Refs(t, s) # 0})'
BY ReferringIsRefs, PTL

\* References stay where no step disturbs them.
LEMMA RefsFrame ==
  ASSUME NEW t \in Threads, NEW s \in Slots
  PROVE  /\ UNCHANGED <<mcastBuffer, mcastState, mcastDests, mcastSlot, mcastDest>>
              => McastRefs(t, s)' = McastRefs(t, s)
         /\ UNCHANGED enqStage2 => EnqRefs(t, s)' = EnqRefs(t, s)
         /\ UNCHANGED <<ramFront, ramBack, ramData>> => QueueRefs(t, s)' = QueueRefs(t, s)
         /\ UNCHANGED <<serveState, rxReq, itemOut>> => ServeRefs(t, s)' = ServeRefs(t, s)
         /\ UNCHANGED recvResp => AnswerRefs(t, s)' = AnswerRefs(t, s)
         /\ UNCHANGED held => HeldRefs(t, s)' = HeldRefs(t, s)
<1>1. UNCHANGED <<mcastBuffer, mcastState, mcastDests, mcastSlot, mcastDest>>
        => McastRefs(t, s)' = McastRefs(t, s)
  BY DEF McastRefs
<1>2. UNCHANGED enqStage2 => EnqRefs(t, s)' = EnqRefs(t, s)
  BY DEF EnqRefs
<1>3. UNCHANGED <<ramFront, ramBack, ramData>> => QueueRefs(t, s)' = QueueRefs(t, s)
  BY DEF QueueRefs, Queued
<1>4. UNCHANGED <<serveState, rxReq, itemOut>> => ServeRefs(t, s)' = ServeRefs(t, s)
  BY DEF ServeRefs, Serving
<1>5. UNCHANGED recvResp => AnswerRefs(t, s)' = AnswerRefs(t, s)
  BY DEF AnswerRefs
<1>6. UNCHANGED held => HeldRefs(t, s)' = HeldRefs(t, s)
  BY DEF HeldRefs
<1>7. QED
  BY <1>1, <1>2, <1>3, <1>4, <1>5, <1>6

-----------------------------------------------------------------------------
(* Steps that hand references on                                           *)

\* Every reference is still there, wherever it went.
RefsKept == \A t \in Threads : \A s \in Slots : Refs(t, s)' = Refs(t, s)

LEMMA KeptThenAccounted ==
  ASSUME TypeOK, TypeOK', RefInv, FreeInv, SlotsAccounted, RefsKept,
         UNCHANGED <<initNext, freeSlots, refCount, freeReq, freeState, refCountOut>>
  PROVE  RefInv' /\ FreeInv' /\ SlotsAccounted'
<1>1. RefInv'
  BY DEF RefInv, RefsKept
<1>2. FreeInv'
  BY DEF FreeInv
<1>3. ASSUME NEW s \in Slots PROVE Referring(s)' = Referring(s)
  <2>1. Referring(s) = {t \in Threads : Refs(t, s) # 0}
    BY ReferringIsRefs
  <2>2. Referring(s)' = {t \in Threads : Refs(t, s)' # 0}
    BY ReferringIsRefsNext
  <2>3. \A t \in Threads : Refs(t, s)' = Refs(t, s)
    BY DEF RefsKept
  <2>4. QED
    BY <2>1, <2>2, <2>3
<1>4. \A s \in Slots : Occurrences(freeReq, s)' = Occurrences(freeReq, s)
                       /\ Occurrences(freeSlots, s)' = Occurrences(freeSlots, s)
  BY DEF Occurrences
<1>5. ASSUME NEW s \in Slots
      PROVE  /\ refCount'[s] = Cardinality(Referring(s)') + Occurrences(freeReq, s)'
             /\ Occurrences(freeSlots, s)' = IF s < initNext' /\ refCount'[s] = 0 THEN 1 ELSE 0
  BY <1>3, <1>4 DEF SlotsAccounted
<1>6. SlotsAccounted'
  BY <1>5 DEF SlotsAccounted
<1>7. QED
  BY <1>1, <1>2, <1>6

\* No part of the references is touched.
LEMMA RefsUntouched ==
  ASSUME UNCHANGED <<mcastBuffer, mcastState, mcastDests, mcastSlot, mcastDest, enqStage2,
                     ramFront, ramBack, ramData, serveState, rxReq, itemOut, recvResp, held>>
  PROVE  RefsKept
BY RefsFrame DEF RefsKept, Refs

LEMMA KeptMcast0 ==
  ASSUME TypeOK, TypeOK', NEW c \in Cores, Mcast0(c)
  PROVE  RefsKept
<1>1. /\ mcastState[c] = 0 /\ mcastBuffer[c] # <<>>
      /\ mcastBuffer' = [mcastBuffer EXCEPT ![c] = Tail(@)]
      /\ mcastDests' = [mcastDests EXCEPT ![c] = Head(mcastBuffer[c]).dests]
      /\ mcastSlot' = [mcastSlot EXCEPT ![c] = Head(mcastBuffer[c]).slot]
      /\ mcastState' = [mcastState EXCEPT ![c] = 1]
      /\ UNCHANGED <<mcastDest, enqStage2, ramFront, ramBack, ramData, serveState, rxReq,
                     itemOut, recvResp, held>>
  BY DEF Mcast0, thrVars, queueVars, serveVars
<1>2. /\ mcastBuffer \in [Cores -> Seq(Entry)] /\ mcastDests \in [Cores -> SUBSET Threads]
      /\ mcastSlot \in [Cores -> Slots] /\ mcastState \in [Cores -> 0 .. 2]
  BY TypeParts DEF McastOK
<1>3. PICK m \in Entry : m = Head(mcastBuffer[c])
  BY <1>1, <1>2, RangeTail
<1>4. /\ mcastBuffer'[c] = Tail(mcastBuffer[c]) /\ mcastDests'[c] = m.dests
      /\ mcastSlot'[c] = m.slot /\ mcastState'[c] = 1
      /\ \A d \in Cores : d # c =>
           /\ mcastBuffer'[d] = mcastBuffer[d] /\ mcastDests'[d] = mcastDests[d]
           /\ mcastSlot'[d] = mcastSlot[d] /\ mcastState'[d] = mcastState[d]
  BY <1>1, <1>2, <1>3
<1>5. ASSUME NEW t \in Threads, NEW s \in Slots
      PROVE  McastRefs(t, s)' = McastRefs(t, s)
  <2>1. CoreOf(t) \in Cores
    BY ThreadShape
  <2>2. CASE CoreOf(t) = c
    <3> DEFINE n == Hits(mcastBuffer'[c], EntriesFor(t, s))
    <3>1. Hits(mcastBuffer[c], EntriesFor(t, s)) = n + (IF m \in EntriesFor(t, s) THEN 1 ELSE 0)
      BY <1>1, <1>2, <1>3, <1>4, HitsTail
    <3>2. n \in Nat
      <4>1. mcastBuffer'[c] \in Seq(Entry)
        BY <1>1, <1>2, <1>4, RangeTail
      <4>2. QED
        BY <4>1, HitsType
    <3>3. McastRefs(t, s) = Hits(mcastBuffer[c], EntriesFor(t, s)) + 0 + 0
      BY <1>1, <2>2 DEF McastRefs, Ind
    <3>4. McastRefs(t, s)' = n + Ind(m.slot = s /\ t \in m.dests) + 0
      BY <1>1, <1>4, <2>2 DEF McastRefs, Ind
    <3> HIDE DEF n
    <3>5. (IF m \in EntriesFor(t, s) THEN 1 ELSE 0) = Ind(m.slot = s /\ t \in m.dests)
      BY DEF EntriesFor, Ind
    <3>6. QED
      BY <3>1, <3>2, <3>3, <3>4, <3>5, IndType
  <2>3. CASE CoreOf(t) # c
    BY <1>1, <1>4, <2>1, <2>3 DEF McastRefs
  <2>4. QED
    BY <2>2, <2>3
<1>6. QED
  BY <1>1, <1>5, RefsFrame DEF RefsKept, Refs

LEMMA KeptMcast1 ==
  ASSUME TypeOK, McastInv, NEW c \in Cores, Mcast1(c)
  PROVE  RefsKept
<1> DEFINE u == FirstHot(mcastDests[c])
<1>1. /\ mcastState[c] = 1
      /\ mcastDest' = [mcastDest EXCEPT ![c] = u]
      /\ mcastDests' = [mcastDests EXCEPT ![c] = @ \ {u}]
      /\ mcastState' = [mcastState EXCEPT ![c] = 2]
      /\ UNCHANGED <<mcastBuffer, mcastSlot, enqStage2, ramFront, ramBack, ramData, serveState,
                     rxReq, itemOut, recvResp, held>>
  BY DEF Mcast1, thrVars, queueVars, serveVars
<1>2. /\ mcastDests \in [Cores -> SUBSET Threads] /\ mcastDest \in [Cores -> Threads]
      /\ mcastState \in [Cores -> 0 .. 2]
  BY TypeParts DEF McastOK
<1>3. u \in mcastDests[c]
  BY TypeParts, McastMcast1
<1> HIDE DEF u
<1>4. /\ mcastDests'[c] = mcastDests[c] \ {u} /\ mcastDest'[c] = u /\ mcastState'[c] = 2
      /\ \A d \in Cores : d # c =>
           /\ mcastDests'[d] = mcastDests[d] /\ mcastDest'[d] = mcastDest[d]
           /\ mcastState'[d] = mcastState[d]
  BY <1>1, <1>2
<1>5. ASSUME NEW t \in Threads, NEW s \in Slots
      PROVE  McastRefs(t, s)' = McastRefs(t, s)
  <2>1. CoreOf(t) \in Cores
    BY ThreadShape
  <2>2. CASE CoreOf(t) = c
    <3> DEFINE n == Hits(mcastBuffer[c], EntriesFor(t, s))
               x == Ind(mcastSlot[c] = s /\ t \in mcastDests[c])
               y == Ind(mcastSlot[c] = s /\ t \in mcastDests[c] \ {u})
               z == Ind(mcastSlot[c] = s /\ t = u)
    <3>1. McastRefs(t, s) = n + x + 0
      BY <1>1, <2>2 DEF McastRefs, Ind
    <3>2. McastRefs(t, s)' = n + y + z
      BY <1>1, <1>4, <2>2 DEF McastRefs
    <3>3. n \in Nat /\ x \in Nat /\ y \in Nat /\ z \in Nat
      BY TypeParts, HitsType, IndType DEF McastOK
    <3>4. x = y + z
      BY <1>3 DEF Ind
    <3> HIDE DEF n, x, y, z
    <3>5. QED
      BY <3>1, <3>2, <3>3, <3>4
  <2>3. CASE CoreOf(t) # c
    BY <1>1, <1>4, <2>1, <2>3 DEF McastRefs
  <2>4. QED
    BY <2>2, <2>3
<1>6. QED
  BY <1>1, <1>5, RefsFrame DEF RefsKept, Refs

LEMMA KeptMcast2 ==
  ASSUME TypeOK, NEW c \in Cores, Mcast2(c)
  PROVE  RefsKept
<1>1. /\ mcastState[c] = 2 /\ enqStage2[c] = <<>>
      /\ enqStage2' = [enqStage2 EXCEPT ![c] = <<mcastDest[c], mcastSlot[c]>>]
      /\ mcastState' = [mcastState EXCEPT ![c] = AfterMcast(mcastDests[c])]
      /\ mcastSlot' = [mcastSlot EXCEPT ![c] =
                         IF AfterMcast(mcastDests[c]) = 0 THEN Stale ELSE mcastSlot[c]]
      /\ mcastDest' = [mcastDest EXCEPT ![c] = 0]
      /\ UNCHANGED <<mcastBuffer, mcastDests, ramFront, ramBack, ramData, serveState,
                     rxReq, itemOut, recvResp, held>>
  BY DEF Mcast2, thrVars, serveVars
<1>2. /\ mcastSlot \in [Cores -> Slots] /\ mcastDest \in [Cores -> Threads]
      /\ mcastState \in [Cores -> 0 .. 2]
      /\ enqStage2 \in [Cores -> {<<>>} \cup (Threads \X Slots)]
  BY TypeParts DEF McastOK, EnqOK
<1>3. /\ enqStage2'[c] = <<mcastDest[c], mcastSlot[c]>>
      /\ mcastState'[c] = AfterMcast(mcastDests[c])
      /\ mcastSlot'[c] = IF AfterMcast(mcastDests[c]) = 0 THEN Stale ELSE mcastSlot[c]
      /\ \A d \in Cores : d # c =>
           /\ mcastSlot'[d] = mcastSlot[d] /\ mcastDest'[d] = mcastDest[d]
           /\ mcastState'[d] = mcastState[d] /\ enqStage2'[d] = enqStage2[d]
  BY <1>1, <1>2
<1>4. ASSUME NEW t \in Threads, NEW s \in Slots
      PROVE  McastRefs(t, s)' + EnqRefs(t, s)' = McastRefs(t, s) + EnqRefs(t, s)
  <2>1. CoreOf(t) \in Cores
    BY ThreadShape
  <2>2. CASE CoreOf(t) = c
    <3> DEFINE n == Hits(mcastBuffer[c], EntriesFor(t, s))
               b == mcastSlot[c] = s
               x == Ind(b /\ t \in mcastDests[c])
               y == Ind(b /\ t = mcastDest[c])
    <3>1. McastRefs(t, s) = n + x + y
      BY <1>1, <2>2 DEF McastRefs
    <3>2. EnqRefs(t, s) = 0
      BY <1>1, <2>2 DEF EnqRefs, Ind
    <3>3. McastRefs(t, s)' = n + x + 0
      <4>1. mcastState'[c] # 2
        BY <1>3 DEF AfterMcast
      <4>2. Ind(mcastState'[c] = 2 /\ mcastSlot'[c] = s /\ t = mcastDest'[c]) = 0
        BY <4>1 DEF Ind
      <4>3. (mcastState'[c] # 0 /\ mcastSlot'[c] = s /\ t \in mcastDests[c])
              <=> (b /\ t \in mcastDests[c])
        BY <1>3 DEF AfterMcast
      <4>4. Ind(mcastState'[c] # 0 /\ mcastSlot'[c] = s /\ t \in mcastDests[c]) = x
        BY <4>3 DEF Ind
      <4>5. QED
        BY <1>1, <2>2, <4>2, <4>4 DEF McastRefs
    <3>4. EnqRefs(t, s)' = y
      BY <1>3, <2>2 DEF EnqRefs, Ind
    <3>5. n \in Nat /\ x \in Nat /\ y \in Nat
      BY TypeParts, HitsType, IndType DEF McastOK
    <3> HIDE DEF n, x, y, b
    <3>6. QED
      BY <3>1, <3>2, <3>3, <3>4, <3>5
  <2>3. CASE CoreOf(t) # c
    BY <1>1, <1>3, <2>1, <2>3 DEF McastRefs, EnqRefs
  <2>4. QED
    BY <2>2, <2>3
<1>5. QED
  BY <1>1, <1>4, RefsFrame DEF RefsKept, Refs

\* The places of a queue when an item enters it.
LEMMA QueuedPush ==
  ASSUME RamOK, NEW t \in Threads, Inc(ramBack[t]) # ramFront[t],
         ramFront'[t] = ramFront[t], ramBack'[t] = Inc(ramBack[t])
  PROVE  Queued(t)' = Queued(t) \cup {ramBack[t]} /\ ramBack[t] \notin Queued(t)
<1> DEFINE Q == QueueSize
           f == ramFront[t]
           b == ramBack[t]
           g == (b + 1) % Q
<1>1. Q \in Nat /\ Q > 1 /\ f \in 0 .. Q - 1 /\ b \in 0 .. Q - 1
  BY MailboxAssumption DEF RamOK
<1>2. ramFront'[t] = f /\ ramBack'[t] = g /\ g # f
  BY DEF Inc
<1>3. \A i \in 0 .. Q - 1 : (i - f) % Q = IF i >= f THEN i - f ELSE i - f + Q
  BY <1>1
<1>4. (b + 1) % Q = IF b = Q - 1 THEN 0 ELSE b + 1
  BY <1>1
<1>5. /\ Queued(t) = {i \in 0 .. Q - 1 : (i - f) % Q < (b - f) % Q}
      /\ Queued(t)' = {i \in 0 .. Q - 1 : (i - f) % Q < (g - f) % Q}
  BY <1>2 DEF Queued
<1>6. g \in 0 .. Q - 1 /\ g # f /\ g = IF b = Q - 1 THEN 0 ELSE b + 1
  BY <1>1, <1>2, <1>4
<1>7. /\ (b - f) % Q = IF b >= f THEN b - f ELSE b - f + Q
      /\ (g - f) % Q = IF g >= f THEN g - f ELSE g - f + Q
  BY <1>1, <1>3, <1>6
<1> HIDE DEF g, Q, f, b
<1>8. \A i \in 0 .. Q - 1 : (i - f) % Q < (g - f) % Q <=> (i - f) % Q < (b - f) % Q \/ i = b
  <2> TAKE i \in 0 .. Q - 1
  <2> DEFINE x == (i - f) % Q
             y == (b - f) % Q
             z == (g - f) % Q
  <2>1. x = IF i >= f THEN i - f ELSE i - f + Q
    BY <1>3
  <2>2. y = (IF b >= f THEN b - f ELSE b - f + Q) /\ z = (IF g >= f THEN g - f ELSE g - f + Q)
    BY <1>7
  <2> HIDE DEF x, y, z
  <2>3. x < z <=> x < y \/ i = b
    BY <1>1, <1>6, <2>1, <2>2
  <2>4. QED
    BY <2>3 DEF x, y, z
<1>9. ~ ((b - f) % Q < (b - f) % Q)
  BY <1>1, <1>7
<1>10. Queued(t)' = Queued(t) \cup {b} /\ b \notin Queued(t)
  BY <1>1, <1>5, <1>8, <1>9
<1>11. QED
  BY <1>10 DEF b

\* An item enters the queue of a thread.
LEMMA QueuePush ==
  ASSUME RamOK, NEW t \in Threads, NEW v \in Slots, NEW s \in Slots,
         Inc(ramBack[t]) # ramFront[t], ramFront'[t] = ramFront[t],
         ramBack'[t] = Inc(ramBack[t]), ramData'[t][ramBack[t]] = v,
         \A i \in 0 .. QueueSize - 1 : i # ramBack[t] => ramData'[t][i] = ramData[t][i]
  PROVE  QueueRefs(t, s)' = QueueRefs(t, s) + Ind(v = s)
<1> DEFINE b == ramBack[t]
           I == {i \in Queued(t) : ramData[t][i] = s}
<1>1. Queued(t)' = Queued(t) \cup {b} /\ b \notin Queued(t)
  BY QueuedPush
<1>2. ramData'[t][b] = v /\ \A i \in 0 .. QueueSize - 1 : i # b => ramData'[t][i] = ramData[t][i]
  OBVIOUS
<1>3. IsFiniteSet(I)
  BY QueuedType
<1>4. Queued(t) \subseteq 0 .. QueueSize - 1
  BY DEF Queued
<1>5. {i \in Queued(t)' : ramData'[t][i] = s} = IF v = s THEN I \cup {b} ELSE I
  BY <1>1, <1>2, <1>4
<1>6. QueueRefs(t, s)' = Cardinality(IF v = s THEN I \cup {b} ELSE I)
  BY <1>5 DEF QueueRefs
<1>7. QueueRefs(t, s) = Cardinality(I) /\ Cardinality(I) \in Nat /\ b \notin I
  BY <1>1, <1>3, FS_CardinalityType DEF QueueRefs
<1> HIDE DEF I, b
<1>8. Cardinality(I \cup {b}) = Cardinality(I) + 1
  BY <1>3, <1>7, FS_AddElement
<1>9. QED
  BY <1>6, <1>7, <1>8 DEF Ind

\* The places of a queue when the oldest item leaves it.
LEMMA QueuedPop ==
  ASSUME RamOK, NEW t \in Threads, Nonempty(t),
         ramBack'[t] = ramBack[t], ramFront'[t] = Inc(ramFront[t])
  PROVE  /\ Queued(t) = Queued(t)' \cup {ramFront[t]} /\ ramFront[t] \notin Queued(t)'
         /\ (ramFront[t] - ramFront[t]) % QueueSize = 0
         /\ \A i \in Queued(t)' :
              (i - ramFront'[t]) % QueueSize = ((i - ramFront[t]) % QueueSize) - 1
<1> DEFINE Q == QueueSize
           f == ramFront[t]
           b == ramBack[t]
           g == (f + 1) % Q
<1>1. Q \in Nat /\ Q > 1 /\ f \in 0 .. Q - 1 /\ b \in 0 .. Q - 1 /\ f # b
  BY MailboxAssumption DEF RamOK, Nonempty
<1>2. ramBack'[t] = b /\ ramFront'[t] = g
  BY <1>1 DEF RamOK, Inc
<1>3. /\ \A i \in 0 .. Q - 1 : (i - f) % Q = IF i >= f THEN i - f ELSE i - f + Q
      /\ (f + 1) % Q \in 0 .. Q - 1
      /\ (f + 1) % Q = IF f = Q - 1 THEN 0 ELSE f + 1
  BY <1>1
<1>4. /\ Queued(t) = {i \in 0 .. Q - 1 : (i - f) % Q < (b - f) % Q}
      /\ Queued(t)' = {i \in 0 .. Q - 1 : (i - g) % Q < (b - g) % Q}
  BY <1>2 DEF Queued
<1>5. g \in 0 .. Q - 1 /\ g = IF f = Q - 1 THEN 0 ELSE f + 1
  BY <1>3
<1> HIDE DEF g
<1>6. \A i \in 0 .. Q - 1 : (i - g) % Q = IF i >= g THEN i - g ELSE i - g + Q
  BY <1>1, <1>5
<1> HIDE DEF Q, f, b
<1>7. /\ (b - f) % Q = IF b >= f THEN b - f ELSE b - f + Q
      /\ (b - g) % Q = IF b >= g THEN b - g ELSE b - g + Q
      /\ (f - f) % Q = 0
      /\ (f - g) % Q = IF f >= g THEN f - g ELSE f - g + Q
  BY <1>1, <1>3, <1>6
<1>8. \A i \in 0 .. Q - 1 :
        /\ (i - f) % Q < (b - f) % Q <=> (i - g) % Q < (b - g) % Q \/ i = f
        /\ i # f => (i - g) % Q = ((i - f) % Q) - 1
  <2> TAKE i \in 0 .. Q - 1
  <2> DEFINE x == (i - f) % Q
             y == (b - f) % Q
             x1 == (i - g) % Q
             y1 == (b - g) % Q
  <2>1. x = (IF i >= f THEN i - f ELSE i - f + Q) /\ x1 = (IF i >= g THEN i - g ELSE i - g + Q)
    BY <1>3, <1>6
  <2>2. y = (IF b >= f THEN b - f ELSE b - f + Q) /\ y1 = (IF b >= g THEN b - g ELSE b - g + Q)
    BY <1>7
  <2> HIDE DEF x, y, x1, y1
  <2>3. (x < y <=> x1 < y1 \/ i = f) /\ (i # f => x1 = x - 1)
    BY <1>1, <1>5, <2>1, <2>2
  <2>4. QED
    BY <2>3 DEF x, y, x1, y1
<1>9. ~ ((f - g) % Q < (b - g) % Q)
  BY <1>1, <1>5, <1>7
<1>10. /\ Queued(t) = Queued(t)' \cup {f} /\ f \notin Queued(t)'
       /\ \A i \in Queued(t)' : (i - g) % Q = ((i - f) % Q) - 1
  BY <1>1, <1>4, <1>8, <1>9
<1>11. QED
  BY <1>2, <1>7, <1>10 DEF f, Q

\* The oldest item leaves the queue of a thread.
LEMMA QueuePop ==
  ASSUME RamOK, NEW t \in Threads, NEW s \in Slots, Nonempty(t),
         ramBack' = ramBack,
         ramFront' = [ramFront EXCEPT ![t] = Inc(ramFront[t])],
         ramData' = [ramData EXCEPT ![t][ramFront[t]] = Stale]
  PROVE  QueueRefs(t, s) = QueueRefs(t, s)' + Ind(ramData[t][ramFront[t]] = s)
<1> DEFINE f == ramFront[t]
           v == ramData[t][f]
           J == {i \in Queued(t)' : ramData'[t][i] = s}
<1>1. ramBack'[t] = ramBack[t] /\ ramFront'[t] = Inc(ramFront[t])
  BY DEF RamOK
<1>2. \A i \in 0 .. QueueSize - 1 : i # f => ramData'[t][i] = ramData[t][i]
  BY DEF RamOK
<1>3. Queued(t) = Queued(t)' \cup {f} /\ f \notin Queued(t)'
  BY <1>1, QueuedPop
<1>4. IsFiniteSet(J)
  <2>1. IsFiniteSet(Queued(t))
    BY QueuedType
  <2>2. QED
    BY <1>3, <2>1, FS_Subset
<1>5. Queued(t) \subseteq 0 .. QueueSize - 1
  BY DEF Queued
<1>6. {i \in Queued(t) : ramData[t][i] = s} = IF v = s THEN J \cup {f} ELSE J
  BY <1>2, <1>3, <1>5
<1>7. QueueRefs(t, s) = Cardinality(IF v = s THEN J \cup {f} ELSE J)
  BY <1>6 DEF QueueRefs
<1>8. QueueRefs(t, s)' = Cardinality(J) /\ Cardinality(J) \in Nat /\ f \notin J
  BY <1>3, <1>4, FS_CardinalityType DEF QueueRefs
<1> HIDE DEF J, f
<1>9. Cardinality(J \cup {f}) = Cardinality(J) + 1
  BY <1>4, <1>8, FS_AddElement
<1>10. QueueRefs(t, s) = QueueRefs(t, s)' + Ind(v = s)
  BY <1>7, <1>8, <1>9 DEF Ind
<1>11. QED
  BY <1>10 DEF f

LEMMA KeptEnqStage2 ==
  ASSUME TypeOK, TypeOK', McastInv, NEW c \in Cores, EnqStage2(c)
  PROVE  RefsKept
<1>1. enqStage2[c] # <<>> /\ enqStage2 \in [Cores -> {<<>>} \cup (Threads \X Slots)] /\ RamOK
  BY TypeParts DEF EnqOK, EnqStage2
<1>2. PICK u \in Threads, v \in Slots : enqStage2[c] = <<u, v>>
  BY <1>1
<1>3. CoreOf(u) = c
  BY <1>1, <1>2 DEF McastInv, ThreadsOn
<1>4. /\ ~ Full(u)
      /\ ramData' = [ramData EXCEPT ![u][ramBack[u]] = v]
      /\ ramBack' = [ramBack EXCEPT ![u] = Inc(ramBack[u])]
      /\ ramFront' = ramFront
      /\ enqStage2' = [enqStage2 EXCEPT ![c] = <<>>]
      /\ UNCHANGED <<mcastBuffer, mcastState, mcastDests, mcastSlot, mcastDest, serveState,
                     rxReq, itemOut, recvResp, held>>
  BY <1>2 DEF EnqStage2, thrVars, mcastVars, serveVars
<1>5. /\ enqStage2'[c] = <<>>
      /\ \A d \in Cores : d # c => enqStage2'[d] = enqStage2[d]
  BY <1>1, <1>4
<1>6. ASSUME NEW t \in Threads, NEW s \in Slots
      PROVE  EnqRefs(t, s)' + QueueRefs(t, s)' = EnqRefs(t, s) + QueueRefs(t, s)
  <2>1. CoreOf(t) \in Cores
    BY ThreadShape
  <2>2. CASE t = u
    <3>1. QueueRefs(t, s)' = QueueRefs(t, s) + Ind(v = s)
      <4>1. QueueRefs(u, s)' = QueueRefs(u, s) + Ind(v = s)
        <5>1. RamOK /\ Inc(ramBack[u]) # ramFront[u] /\ ramFront' = ramFront
          BY <1>1, <1>4 DEF Full
        <5>2. ramBack'[u] = Inc(ramBack[u]) /\ ramData'[u][ramBack[u]] = v
          BY <1>1, <1>4 DEF RamOK
        <5>3. \A i \in 0 .. QueueSize - 1 : i # ramBack[u] => ramData'[u][i] = ramData[u][i]
          BY <1>1, <1>4 DEF RamOK
        <5>4. ramFront'[u] = ramFront[u]
          BY <5>1
        <5>5. QED
          BY <5>1, <5>2, <5>3, <5>4, QueuePush
      <4>2. QED
        BY <2>2, <4>1
    <3>2. EnqRefs(t, s) = Ind(v = s)
      BY <1>2, <1>3, <2>2 DEF EnqRefs, Ind
    <3>3. EnqRefs(t, s)' = 0
      <4>1. <<>> # <<t, s>>
        OBVIOUS
      <4>2. enqStage2'[CoreOf(t)] # <<t, s>>
        BY <1>3, <1>5, <2>2, <4>1
      <4>3. QED
        BY <4>2 DEF EnqRefs, Ind
    <3>4. QueueRefs(t, s) \in Nat /\ Ind(v = s) \in Nat
      BY RefTypes, IndType
    <3>5. QED
      BY <3>1, <3>2, <3>3, <3>4
  <2>3. CASE t # u
    <3>1. ramData'[t] = ramData[t] /\ ramBack'[t] = ramBack[t] /\ ramFront'[t] = ramFront[t]
      BY <1>1, <1>4, <2>3 DEF RamOK
    <3>2. QueueRefs(t, s)' = QueueRefs(t, s)
      BY <3>1 DEF QueueRefs, Queued
    <3>3. EnqRefs(t, s)' = EnqRefs(t, s)
      <4>1. CASE CoreOf(t) = c
        BY <1>2, <1>5, <2>3, <4>1 DEF EnqRefs, Ind
      <4>2. CASE CoreOf(t) # c
        BY <1>5, <2>1, <4>2 DEF EnqRefs
      <4>3. QED
        BY <4>1, <4>2
    <3>4. QED
      BY <3>2, <3>3
  <2>4. QED
    BY <2>2, <2>3
<1>7. ASSUME NEW t \in Threads, NEW s \in Slots PROVE Refs(t, s)' = Refs(t, s)
  <2>1. /\ McastRefs(t, s)' = McastRefs(t, s) /\ ServeRefs(t, s)' = ServeRefs(t, s)
        /\ AnswerRefs(t, s)' = AnswerRefs(t, s) /\ HeldRefs(t, s)' = HeldRefs(t, s)
    BY <1>4, RefsFrame
  <2>2. /\ EnqRefs(t, s)' \in Nat /\ QueueRefs(t, s)' \in Nat
    BY RefTypesNext
  <2>3. /\ McastRefs(t, s) \in Nat /\ EnqRefs(t, s) \in Nat /\ QueueRefs(t, s) \in Nat
    BY RefTypes
  <2>4. QED
    BY <1>6, <2>1, <2>2, <2>3 DEF Refs
<1>8. QED
  BY <1>7 DEF RefsKept

LEMMA KeptServe1 ==
  ASSUME TypeOK, TypeOK', WaitInv, NEW c \in Cores, Serve1(c)
  PROVE  RefsKept
<1>1. serveState[c] = 1 /\ rxReq[c] # <<>> /\ Head(rxReq[c]).op = "Recv"
  BY DEF Serve1, WaitInv, ServeInv
<1>2. Head(rxReq[c]) \in Range(rxReq[c]) /\ Head(rxReq[c]).id \in Threads
  BY <1>1, TypeWait, QueueShape
<1>3. PICK u \in Threads : u = Head(rxReq[c]).id
  BY <1>2
<1>4. CoreOf(u) = c
  BY <1>2, <1>3 DEF WaitInv, AskInv
<1>5. Nonempty(u)
  BY <1>1, <1>3, TypeWait, AskedThenNonempty
<1>6. PICK v \in Slots : v = ramData[u][ramFront[u]]
  BY TypeParts DEF RamOK
<1>7. /\ itemOut' = [itemOut EXCEPT ![c] = v]
      /\ ramData' = [ramData EXCEPT ![u][ramFront[u]] = Stale]
      /\ ramFront' = [ramFront EXCEPT ![u] = Inc(ramFront[u])]
      /\ ramBack' = ramBack
      /\ serveState' = [serveState EXCEPT ![c] = 2]
      /\ UNCHANGED <<mcastBuffer, mcastState, mcastDests, mcastSlot, mcastDest, enqStage2,
                     rxReq, recvResp, held>>
  BY <1>3, <1>6 DEF Serve1, thrVars, mcastVars
<1>8. /\ itemOut'[c] = v /\ serveState'[c] = 2
      /\ \A d \in Cores : d # c => itemOut'[d] = itemOut[d] /\ serveState'[d] = serveState[d]
  BY <1>7, TypeParts DEF ServeOK
<1>9. ASSUME NEW t \in Threads, NEW s \in Slots
      PROVE  QueueRefs(t, s)' + ServeRefs(t, s)' = QueueRefs(t, s) + ServeRefs(t, s)
  <2>1. CoreOf(t) \in Cores
    BY ThreadShape
  <2>2. CASE t = u
    <3>1. QueueRefs(t, s) = QueueRefs(t, s)' + Ind(v = s)
      BY <1>5, <1>6, <1>7, <2>2, TypeParts, QueuePop
    <3>2. ServeRefs(t, s) = 0
      BY <1>1, <1>4, <2>2 DEF ServeRefs, Serving, Ind
    <3>3. ServeRefs(t, s)' = Ind(v = s)
      BY <1>1, <1>3, <1>4, <1>7, <1>8, <2>2 DEF ServeRefs, Serving, Ind
    <3>4. QueueRefs(t, s)' \in Nat /\ Ind(v = s) \in Nat
      BY RefTypesNext, IndType
    <3>5. QED
      BY <3>1, <3>2, <3>3, <3>4
  <2>3. CASE t # u
    <3>1. ramData'[t] = ramData[t] /\ ramBack'[t] = ramBack[t] /\ ramFront'[t] = ramFront[t]
      BY <1>7, <2>3, TypeParts DEF RamOK
    <3>2. QueueRefs(t, s)' = QueueRefs(t, s)
      BY <3>1 DEF QueueRefs, Queued
    <3>3. ServeRefs(t, s)' = ServeRefs(t, s)
      <4>1. CASE CoreOf(t) = c
        BY <1>3, <1>7, <2>3, <4>1 DEF ServeRefs, Serving, Ind
      <4>2. CASE CoreOf(t) # c
        BY <1>7, <1>8, <2>1, <4>2 DEF ServeRefs, Serving
      <4>3. QED
        BY <4>1, <4>2
    <3>4. QED
      BY <3>2, <3>3
  <2>4. QED
    BY <2>2, <2>3
<1>10. ASSUME NEW t \in Threads, NEW s \in Slots PROVE Refs(t, s)' = Refs(t, s)
  <2>1. /\ McastRefs(t, s)' = McastRefs(t, s) /\ EnqRefs(t, s)' = EnqRefs(t, s)
        /\ AnswerRefs(t, s)' = AnswerRefs(t, s) /\ HeldRefs(t, s)' = HeldRefs(t, s)
    BY <1>7, RefsFrame
  <2>2. QueueRefs(t, s)' \in Nat /\ ServeRefs(t, s)' \in Nat
    BY RefTypesNext
  <2>3. /\ McastRefs(t, s) \in Nat /\ EnqRefs(t, s) \in Nat /\ QueueRefs(t, s) \in Nat
        /\ ServeRefs(t, s) \in Nat
    BY RefTypes
  <2>4. QED
    BY <1>9, <2>1, <2>2, <2>3 DEF Refs
<1>11. QED
  BY <1>10 DEF RefsKept

LEMMA KeptServe0 ==
  ASSUME TypeOK, NEW c \in Cores, Serve0(c)
  PROVE  RefsKept
<1>1. /\ serveState[c] = 0
      /\ serveState' = [serveState EXCEPT ![c] = IF Head(rxReq[c]).op = "Recv" THEN 1 ELSE 2]
      /\ UNCHANGED <<mcastBuffer, mcastState, mcastDests, mcastSlot, mcastDest, enqStage2,
                     ramFront, ramBack, ramData, rxReq, itemOut, recvResp, held>>
  BY DEF Serve0, thrVars, mcastVars, queueVars
<1>2. /\ serveState'[c] = IF Head(rxReq[c]).op = "Recv" THEN 1 ELSE 2
      /\ \A d \in Cores : d # c => serveState'[d] = serveState[d]
  BY <1>1, TypeParts DEF ServeOK
<1>3. ASSUME NEW t \in Threads, NEW s \in Slots PROVE ServeRefs(t, s)' = ServeRefs(t, s)
  <2>1. CoreOf(t) \in Cores
    BY ThreadShape
  <2>2. CASE CoreOf(t) = c
    BY <1>1, <1>2, <2>2 DEF ServeRefs, Serving, Ind
  <2>3. CASE CoreOf(t) # c
    BY <1>1, <1>2, <2>1, <2>3 DEF ServeRefs, Serving
  <2>4. QED
    BY <2>2, <2>3
<1>4. QED
  BY <1>1, <1>3, RefsFrame DEF RefsKept, Refs

LEMMA KeptServe2 ==
  ASSUME TypeOK, TypeOK', WaitInv, NEW c \in Cores, Serve2(c)
  PROVE  RefsKept
<1>1. serveState[c] = 2 /\ rxReq[c] # <<>>
  BY DEF Serve2, WaitInv, ServeInv
<1>2. Head(rxReq[c]) \in SleepStatus /\ itemOut[c] \in Slots /\ canDeq[c] \in BOOLEAN
  BY <1>1, TypeWait, QueueShape, TypeParts DEF ServeOK
<1>3. PICK st \in SleepStatus : st = Head(rxReq[c])
  BY <1>2
<1>4. PICK r : r = [status |-> [st EXCEPT !.canRecv = canDeq[c]], data |-> itemOut[c]]
  OBVIOUS
<1>5. /\ r \in Answer /\ r.status.id = st.id /\ r.status.op = st.op /\ r.data = itemOut[c]
  BY <1>2, <1>4 DEF SleepStatus, Answer
<1>6. /\ recvResp' = [recvResp EXCEPT ![c] = Append(@, r)]
      /\ rxReq' = [rxReq EXCEPT ![c] = Tail(@)]
      /\ itemOut' = [itemOut EXCEPT ![c] = Stale]
      /\ serveState' = [serveState EXCEPT ![c] = 0]
      /\ UNCHANGED <<mcastBuffer, mcastState, mcastDests, mcastSlot, mcastDest, enqStage2,
                     ramFront, ramBack, ramData, held>>
  BY <1>3, <1>4 DEF Serve2, thrVars, mcastVars, queueVars
<1>7. /\ recvResp \in [Cores -> Seq(Answer)] /\ rxReq \in [Cores -> Seq(SleepStatus)]
      /\ itemOut \in [Cores -> Slots] /\ serveState \in [Cores -> 0 .. 2]
  BY TypeParts DEF ServeOK
<1>8. /\ recvResp'[c] = Append(recvResp[c], r) /\ serveState'[c] = 0
      /\ \A d \in Cores : d # c =>
           /\ recvResp'[d] = recvResp[d] /\ serveState'[d] = serveState[d]
           /\ rxReq'[d] = rxReq[d] /\ itemOut'[d] = itemOut[d]
  BY <1>6, <1>7
<1>9. ASSUME NEW t \in Threads, NEW s \in Slots
      PROVE  ServeRefs(t, s)' + AnswerRefs(t, s)' = ServeRefs(t, s) + AnswerRefs(t, s)
  <2>1. CoreOf(t) \in Cores
    BY ThreadShape
  <2>2. CASE CoreOf(t) = c
    <3> DEFINE x == IF r \in AnswersWith(t, s) THEN 1 ELSE 0
    <3>1. AnswerRefs(t, s)' = AnswerRefs(t, s) + x
      <4>1. recvResp[c] \in Seq(Answer)
        BY <1>7
      <4>2. Hits(Append(recvResp[c], r), AnswersWith(t, s)) = Hits(recvResp[c], AnswersWith(t, s)) + x
        BY <1>5, <4>1, HitsAppend
      <4>3. QED
        BY <1>8, <2>2, <4>2 DEF AnswerRefs
    <3>2. ServeRefs(t, s)' = 0
      BY <1>8, <2>2 DEF ServeRefs, Serving, Ind
    <3>3. ServeRefs(t, s) = x
      BY <1>1, <1>3, <1>5, <2>2 DEF ServeRefs, Serving, Ind, AnswersWith
    <3>4. AnswerRefs(t, s) \in Nat /\ x \in Nat
      BY RefTypes
    <3> HIDE DEF x
    <3>5. QED
      BY <3>1, <3>2, <3>3, <3>4
  <2>3. CASE CoreOf(t) # c
    BY <1>8, <2>1, <2>3 DEF ServeRefs, Serving, AnswerRefs
  <2>4. QED
    BY <2>2, <2>3
<1>10. ASSUME NEW t \in Threads, NEW s \in Slots PROVE Refs(t, s)' = Refs(t, s)
  <2>1. /\ McastRefs(t, s)' = McastRefs(t, s) /\ EnqRefs(t, s)' = EnqRefs(t, s)
        /\ QueueRefs(t, s)' = QueueRefs(t, s) /\ HeldRefs(t, s)' = HeldRefs(t, s)
    BY <1>6, RefsFrame
  <2>2. ServeRefs(t, s)' \in Nat /\ AnswerRefs(t, s)' \in Nat
    BY RefTypesNext
  <2>3. /\ McastRefs(t, s) \in Nat /\ EnqRefs(t, s) \in Nat /\ QueueRefs(t, s) \in Nat
        /\ ServeRefs(t, s) \in Nat /\ AnswerRefs(t, s) \in Nat /\ HeldRefs(t, s) \in Nat
    BY RefTypes
  <2>4. QED
    BY <1>9, <2>1, <2>2, <2>3 DEF Refs
<1>11. QED
  BY <1>10 DEF RefsKept

\* What is on its way in an answer is not held yet.
LEMMA AnsweredNotHeld ==
  ASSUME TypeOK, RefInv, NEW t \in Threads, NEW s \in Slots, AnswerRefs(t, s) # 0
  PROVE  HeldRefs(t, s) = 0
<1>1. ASSUME NEW a \in Nat, NEW b \in Nat, NEW c \in Nat, NEW d \in Nat, NEW e \in Nat \ {0},
             NEW f \in Nat, a + b + c + d + e + f <= 1
      PROVE  f = 0
  BY <1>1
<1>2. /\ McastRefs(t, s) \in Nat /\ EnqRefs(t, s) \in Nat /\ QueueRefs(t, s) \in Nat
      /\ ServeRefs(t, s) \in Nat /\ AnswerRefs(t, s) \in Nat \ {0} /\ HeldRefs(t, s) \in Nat
  BY RefTypes
<1>3. McastRefs(t, s) + EnqRefs(t, s) + QueueRefs(t, s) + ServeRefs(t, s) + AnswerRefs(t, s)
        + HeldRefs(t, s) <= 1
  BY DEF RefInv, Refs
<1>4. QED
  BY <1>1, <1>2, <1>3

LEMMA KeptRespond ==
  ASSUME TypeOK, TypeOK', WaitInv, RefInv, NEW c \in Cores, Respond(c)
  PROVE  RefsKept
<1>1. recvResp[c] # <<>> /\ recvResp \in [Cores -> Seq(Answer)] /\ held \in [Threads -> SUBSET Held]
  BY TypeParts DEF Respond, ServeOK, HeldOK
<1>2. /\ Head(recvResp[c]) \in Answer /\ Head(recvResp[c]) \in Range(recvResp[c])
      /\ Tail(recvResp[c]) \in Seq(Answer)
  BY <1>1, TypeWait, QueueShape
<1>3. PICK r \in Answer : r = Head(recvResp[c])
  BY <1>2
<1>4. PICK u \in Threads, v \in Slots : u = r.status.id /\ v = r.data
  BY <1>3, TypeWait, QueueShape
<1>5. CoreOf(u) = c
  BY <1>2, <1>3, <1>4 DEF WaitInv, AskInv
<1>6. /\ recvResp' = [recvResp EXCEPT ![c] = Tail(@)]
      /\ UNCHANGED <<mcastBuffer, mcastState, mcastDests, mcastSlot, mcastDest, enqStage2,
                     ramFront, ramBack, ramData, serveState, rxReq, itemOut>>
      /\ \/ r.status.op = "CanRecv" /\ held' = held
         \/ /\ r.status.op = "Recv"
            /\ held' = [held EXCEPT ![u] = @ \cup {[slot |-> v, flits |-> scratchpad[v]]}]
  BY <1>3, <1>4 DEF Respond, mcastVars, queueVars
<1>7. /\ recvResp'[c] = Tail(recvResp[c])
      /\ \A d \in Cores : d # c => recvResp'[d] = recvResp[d]
  BY <1>1, <1>6
<1>8. ASSUME NEW t \in Threads, NEW s \in Slots
      PROVE  AnswerRefs(t, s)' + HeldRefs(t, s)' = AnswerRefs(t, s) + HeldRefs(t, s)
  <2>1. CoreOf(t) \in Cores
    BY ThreadShape
  <2> DEFINE x == IF r \in AnswersWith(t, s) THEN 1 ELSE 0
  <2>2. CASE CoreOf(t) = c
    <3>1. AnswerRefs(t, s) = AnswerRefs(t, s)' + x
      <4>1. recvResp[c] \in Seq(Answer)
        BY <1>1
      <4>2. Hits(recvResp[c], AnswersWith(t, s)) = Hits(Tail(recvResp[c]), AnswersWith(t, s)) + x
        BY <1>1, <1>3, <4>1, HitsTail
      <4>3. QED
        BY <1>7, <2>2, <4>2 DEF AnswerRefs
    <3>2. AnswerRefs(t, s)' \in Nat /\ HeldRefs(t, s) \in Nat /\ x \in Nat
      BY RefTypes, RefTypesNext
    <3>3. HeldRefs(t, s)' = HeldRefs(t, s) + x
      <4>1. CASE r \in AnswersWith(t, s)
        <5>1. r.status.op = "Recv" /\ t = u /\ s = v
          BY <1>4, <4>1 DEF AnswersWith
        <5>2. held'[t] = held[t] \cup {[slot |-> v, flits |-> scratchpad[v]]}
          BY <1>1, <1>6, <5>1
        <5>3. HeldRefs(t, s)' = 1
          <6>1. [slot |-> v, flits |-> scratchpad[v]].slot = s
            BY <5>1
          <6>2. \E h \in held'[t] : h.slot = s
            BY <5>2, <6>1
          <6>3. QED
            BY <6>2 DEF HeldRefs, Ind
        <5>4. HeldRefs(t, s) = 0
          <6>1. AnswerRefs(t, s) # 0
            BY <3>1, <3>2, <4>1
          <6>2. QED
            BY <6>1, AnsweredNotHeld
        <5>5. QED
          BY <4>1, <5>3, <5>4
      <4>2. CASE r \notin AnswersWith(t, s)
        <5>1. ~ (r.status.op = "Recv" /\ u = t /\ v = s)
          BY <1>4, <4>2 DEF AnswersWith
        <5>2. (\E h \in held'[t] : h.slot = s) <=> (\E h \in held[t] : h.slot = s)
          <6>1. CASE held' = held
            BY <6>1
          <6>2. CASE /\ r.status.op = "Recv"
                     /\ held' = [held EXCEPT ![u] =
                                   @ \cup {[slot |-> v, flits |-> scratchpad[v]]}]
            <7>1. CASE t = u
              <8>1. held'[t] = held[t] \cup {[slot |-> v, flits |-> scratchpad[v]]} /\ v # s
                BY <1>1, <5>1, <6>2, <7>1
              <8>2. QED
                BY <8>1
            <7>2. CASE t # u
              BY <1>1, <6>2, <7>2
            <7>3. QED
              BY <7>1, <7>2
          <6>3. QED
            BY <1>6, <6>1, <6>2
        <5>3. HeldRefs(t, s)' = HeldRefs(t, s)
          BY <5>2 DEF HeldRefs, Ind
        <5>4. QED
          BY <3>2, <4>2, <5>3
      <4>3. QED
        BY <4>1, <4>2
    <3> HIDE DEF x
    <3>4. QED
      BY <3>1, <3>2, <3>3
  <2>3. CASE CoreOf(t) # c
    <3>1. AnswerRefs(t, s)' = AnswerRefs(t, s)
      BY <1>7, <2>1, <2>3 DEF AnswerRefs
    <3>2. held'[t] = held[t]
      BY <1>1, <1>5, <1>6, <2>3
    <3>3. QED
      BY <3>1, <3>2 DEF HeldRefs
  <2>4. QED
    BY <2>2, <2>3
<1>9. ASSUME NEW t \in Threads, NEW s \in Slots PROVE Refs(t, s)' = Refs(t, s)
  <2>1. /\ McastRefs(t, s)' = McastRefs(t, s) /\ EnqRefs(t, s)' = EnqRefs(t, s)
        /\ QueueRefs(t, s)' = QueueRefs(t, s) /\ ServeRefs(t, s)' = ServeRefs(t, s)
    BY <1>6, RefsFrame
  <2>2. AnswerRefs(t, s)' \in Nat /\ HeldRefs(t, s)' \in Nat
    BY RefTypesNext
  <2>3. /\ McastRefs(t, s) \in Nat /\ EnqRefs(t, s) \in Nat /\ QueueRefs(t, s) \in Nat
        /\ ServeRefs(t, s) \in Nat /\ AnswerRefs(t, s) \in Nat /\ HeldRefs(t, s) \in Nat
    BY RefTypes
  <2> DEFINE k == McastRefs(t, s) + EnqRefs(t, s) + QueueRefs(t, s) + ServeRefs(t, s)
  <2>4. k \in Nat /\ Refs(t, s) = k + AnswerRefs(t, s) + HeldRefs(t, s)
    BY <2>3 DEF Refs
  <2>5. Refs(t, s)' = k + AnswerRefs(t, s)' + HeldRefs(t, s)'
    BY <2>1 DEF Refs
  <2> HIDE DEF k
  <2>6. AnswerRefs(t, s)' + HeldRefs(t, s)' = AnswerRefs(t, s) + HeldRefs(t, s)
    BY <1>8
  <2>7. QED
    BY <2>2, <2>3, <2>4, <2>5, <2>6
<1>10. QED
  BY <1>9 DEF RefsKept

LEMMA KeptWakeup2 ==
  ASSUME TypeOK, TypeOK', NEW c \in Cores, Wakeup2(c)
  PROVE  RefsKept
<1>1. recvResp[c] # <<>> /\ recvResp \in [Cores -> Seq(Answer)]
  BY TypeParts DEF Wakeup2, ServeOK
<1>2. /\ Head(recvResp[c]).status.op = "WaitUntil"
      /\ recvResp' = [recvResp EXCEPT ![c] = Tail(@)]
      /\ UNCHANGED <<mcastBuffer, mcastState, mcastDests, mcastSlot, mcastDest, enqStage2,
                     ramFront, ramBack, ramData, serveState, rxReq, itemOut, held>>
  BY DEF Wakeup2, mcastVars, queueVars, thrVars
<1>3. /\ recvResp'[c] = Tail(recvResp[c])
      /\ \A d \in Cores : d # c => recvResp'[d] = recvResp[d]
  BY <1>1, <1>2
<1>4. ASSUME NEW t \in Threads, NEW s \in Slots PROVE AnswerRefs(t, s)' = AnswerRefs(t, s)
  <2>1. CoreOf(t) \in Cores
    BY ThreadShape
  <2>2. CASE CoreOf(t) = c
    <3>1. recvResp[c] \in Seq(Answer)
      BY <1>1
    <3>2. Head(recvResp[c]) \notin AnswersWith(t, s)
      BY <1>2 DEF AnswersWith
    <3>3. Hits(recvResp[c], AnswersWith(t, s)) = Hits(Tail(recvResp[c]), AnswersWith(t, s)) + 0
      BY <1>1, <3>1, <3>2, HitsTail
    <3>4. AnswerRefs(t, s) = AnswerRefs(t, s)' + 0
      BY <1>3, <2>2, <3>3 DEF AnswerRefs
    <3>5. QED
      BY <3>4, RefTypesNext
  <2>3. CASE CoreOf(t) # c
    BY <1>3, <2>1, <2>3 DEF AnswerRefs
  <2>4. QED
    BY <2>2, <2>3
<1>5. QED
  BY <1>2, <1>4, RefsFrame DEF RefsKept, Refs

LEMMA KeptWakeup1 ==
  ASSUME TypeOK, WaitInv, NEW c \in Cores, Wakeup1(c)
  PROVE  RefsKept
<1>1. /\ rxReq \in [Cores -> Seq(SleepStatus)] /\ Head(sleepQueue[c]) \in SleepStatus
  BY TypeParts, TypeWait, QueueShape DEF Wakeup1, ServeOK
<1>2. PICK st \in SleepStatus : st = Head(sleepQueue[c])
  BY <1>1
<1>3. /\ rxReq' = [rxReq EXCEPT ![c] = Append(@, st)] \/ rxReq' = rxReq
      /\ UNCHANGED <<mcastBuffer, mcastState, mcastDests, mcastSlot, mcastDest, enqStage2,
                     ramFront, ramBack, ramData, serveState, itemOut, recvResp, held>>
  BY <1>2 DEF Wakeup1, mcastVars, queueVars
<1>4. \A d \in Cores : rxReq[d] # <<>> => Head(rxReq'[d]) = Head(rxReq[d])
  <2>1. CASE rxReq' = rxReq
    BY <2>1
  <2>2. CASE rxReq' = [rxReq EXCEPT ![c] = Append(@, st)]
    <3>1. rxReq[c] # <<>> => Head(Append(rxReq[c], st)) = Head(rxReq[c])
      BY <1>1, AppendProperties
    <3>2. QED
      BY <1>1, <2>2, <3>1
  <2>3. QED
    BY <1>3, <2>1, <2>2
<1>5. ASSUME NEW t \in Threads, NEW s \in Slots PROVE ServeRefs(t, s)' = ServeRefs(t, s)
  <2>1. CoreOf(t) \in Cores
    BY ThreadShape
  <2>2. serveState[CoreOf(t)] = 2 => rxReq[CoreOf(t)] # <<>>
    BY <2>1 DEF WaitInv, ServeInv
  <2>3. Serving(CoreOf(t), t) <=> Serving(CoreOf(t), t)'
    BY <1>3, <1>4, <2>1, <2>2 DEF Serving
  <2>4. QED
    BY <1>3, <2>3 DEF ServeRefs, Ind
<1>6. QED
  BY <1>3, <1>5, RefsFrame DEF RefsKept, Refs

-----------------------------------------------------------------------------
(* Steps that make, drop or recycle references                             *)

LEMMA OccurrencesAreHits ==
  \A q : \A s : Occurrences(q, s) = Hits(q, {s})
<1> SUFFICES ASSUME NEW q, NEW s PROVE Occurrences(q, s) = Hits(q, {s})
  OBVIOUS
<1>1. {i \in 1 .. Len(q) : q[i] = s} = {i \in 1 .. Len(q) : q[i] \in {s}}
  OBVIOUS
<1>2. QED
  BY <1>1 DEF Occurrences, Hits

LEMMA OccurrencesStep ==
  ASSUME NEW q \in Seq(Slots), NEW s \in Slots
  PROVE  /\ Occurrences(q, s) \in Nat
         /\ \A v \in Slots : Occurrences(Append(q, v), s) = Occurrences(q, s) + Ind(v = s)
         /\ q # <<>> => Occurrences(q, s) = Occurrences(Tail(q), s) + Ind(Head(q) = s)
         /\ q # <<>> => Occurrences(Tail(q), s) \in Nat
<1>1. /\ Occurrences(q, s) = Hits(q, {s})
      /\ Occurrences(Tail(q), s) = Hits(Tail(q), {s})
      /\ \A v : Occurrences(Append(q, v), s) = Hits(Append(q, v), {s})
  BY OccurrencesAreHits
<1>2. Hits(q, {s}) \in Nat
  BY HitsType
<1>3. ASSUME NEW v \in Slots PROVE Hits(Append(q, v), {s}) = Hits(q, {s}) + Ind(v = s)
  <2>1. Hits(Append(q, v), {s}) = Hits(q, {s}) + (IF v \in {s} THEN 1 ELSE 0)
    BY HitsAppend
  <2>2. QED
    BY <2>1 DEF Ind
<1>4. ASSUME q # <<>>
      PROVE  Hits(q, {s}) = Hits(Tail(q), {s}) + Ind(Head(q) = s) /\ Hits(Tail(q), {s}) \in Nat
  <2>1. Hits(q, {s}) = Hits(Tail(q), {s}) + (IF Head(q) \in {s} THEN 1 ELSE 0)
    BY <1>4, HitsTail
  <2>2. Tail(q) \in Seq(Slots)
    BY <1>4, RangeTail
  <2>3. Hits(Tail(q), {s}) \in Nat
    BY <2>2, HitsType
  <2>4. QED
    BY <2>1, <2>3 DEF Ind
<1>5. QED
  BY <1>1, <1>2, <1>3, <1>4

\* The number of threads that refer to a slot.
LEMMA ReferringType ==
  ASSUME NEW s \in Slots
  PROVE  /\ IsFiniteSet(Referring(s)) /\ Cardinality(Referring(s)) \in Nat
         /\ Referring(s) \subseteq Threads
         /\ Cardinality(Referring(s)) = 0 => Referring(s) = {}
<1>1. Referring(s) \subseteq Threads
  BY DEF Referring
<1>2. IsFiniteSet(Referring(s))
  BY <1>1, ThreadShape, FS_Subset
<1>3. QED
  BY <1>1, <1>2, FS_CardinalityType, FS_EmptySet

\* The slot at the front of the free list is in no use whatever.
LEMMA FrontSlot ==
  ASSUME TypeOK, SlotsAccounted, freeSlots # <<>>
  PROVE  /\ Head(freeSlots) \in Slots /\ refCount[Head(freeSlots)] = 0
         /\ Head(freeSlots) < initNext
         /\ Occurrences(freeSlots, Head(freeSlots)) = 1
         /\ Occurrences(freeReq, Head(freeSlots)) = 0
         /\ \A t \in Threads : Refs(t, Head(freeSlots)) = 0
<1>1. freeSlots \in Seq(Slots) /\ freeReq \in Seq(Slots)
      /\ refCount \in [Slots -> 0 .. NumCores * ThreadsPerCore]
  BY TypeParts DEF SlotsOK, FreeOK, CountsOK
<1>2. PICK s \in Slots : s = Head(freeSlots)
  BY <1>1, RangeTail
<1>3. Occurrences(freeSlots, s) # 0
  <2>1. Occurrences(freeSlots, s) = Occurrences(Tail(freeSlots), s) + Ind(Head(freeSlots) = s)
        /\ Occurrences(Tail(freeSlots), s) \in Nat
    BY <1>1, OccurrencesStep
  <2>2. QED
    BY <1>2, <2>1 DEF Ind
<1>4. Occurrences(freeSlots, s) = 1 /\ s < initNext /\ refCount[s] = 0
  BY <1>3 DEF SlotsAccounted
<1>5. refCount[s] = Cardinality(Referring(s)) + Occurrences(freeReq, s)
  BY DEF SlotsAccounted
<1>6. Cardinality(Referring(s)) = 0 /\ Occurrences(freeReq, s) = 0
  BY <1>1, <1>4, <1>5, ReferringType, OccurrencesStep
<1>7. \A t \in Threads : Refs(t, s) = 0
  BY <1>6, ReferringType, ReferringIsRefs
<1>8. QED
  BY <1>2, <1>4, <1>6, <1>7

LEMMA AccountInitFreeSlots ==
  ASSUME TypeOK, TypeOK', RefInv, FreeInv, SlotsAccounted, InitFreeSlots
  PROVE  RefInv' /\ FreeInv' /\ SlotsAccounted'
<1>1. /\ initNext # NumSlots /\ freeSlots' = Append(freeSlots, initNext) /\ initNext' = initNext + 1
      /\ UNCHANGED <<refCount, freeReq, freeState, refCountOut>>
      /\ UNCHANGED <<mcastBuffer, mcastState, mcastDests, mcastSlot, mcastDest, enqStage2,
                     ramFront, ramBack, ramData, serveState, rxReq, itemOut, recvResp, held>>
  BY DEF InitFreeSlots, FreeSlotsInitDone, thrVars, mcastVars, queueVars, serveVars, freeVars
<1>2. freeSlots \in Seq(Slots) /\ initNext \in Slots /\ Slots \subseteq Nat
  <2>1. initNext \in NumSendSlots .. NumSlots /\ freeSlots \in Seq(Slots)
    BY TypeParts DEF SlotsOK
  <2>2. QED
    BY <1>1, <2>1, MailboxAssumption, SlotShape DEF Slots
<1>3. RefsKept
  BY <1>1, RefsUntouched
<1>4. RefInv'
  BY <1>3 DEF RefInv, RefsKept
<1>5. FreeInv'
  <2>1. \A s \in Slots : initNext + 1 <= s => initNext <= s
    BY <1>2
  <2>2. QED
    BY <1>1, <2>1 DEF FreeInv
<1>6. ASSUME NEW s \in Slots
      PROVE  /\ refCount'[s] = Cardinality(Referring(s)') + Occurrences(freeReq, s)'
             /\ Occurrences(freeSlots, s)' = IF s < initNext' /\ refCount'[s] = 0 THEN 1 ELSE 0
  <2>1. Referring(s)' = Referring(s)
    <3>1. Referring(s)' = {t \in Threads : Refs(t, s)' # 0}
      BY ReferringIsRefsNext
    <3>2. Referring(s) = {t \in Threads : Refs(t, s) # 0}
      BY ReferringIsRefs
    <3>3. QED
      BY <1>3, <3>1, <3>2 DEF RefsKept
  <2>2. Occurrences(freeReq, s)' = Occurrences(freeReq, s)
    BY <1>1 DEF Occurrences
  <2>3. Occurrences(freeSlots, s)' = Occurrences(freeSlots, s) + Ind(initNext = s)
    <3>1. Occurrences(freeSlots, s)' = Occurrences(Append(freeSlots, initNext), s)
      BY <1>1 DEF Occurrences
    <3>2. QED
      BY <1>2, <3>1, OccurrencesStep
  <2>4. Occurrences(freeSlots, s) = IF s < initNext /\ refCount[s] = 0 THEN 1 ELSE 0
    BY DEF SlotsAccounted
  <2>5. refCount[s] = Cardinality(Referring(s)) + Occurrences(freeReq, s)
    BY DEF SlotsAccounted
  <2>6. CASE s = initNext
    <3>1. refCount[s] = 0
      BY <1>2, <2>6 DEF FreeInv
    <3>2. Occurrences(freeSlots, s)' = 1
      BY <1>2, <2>3, <2>4, <2>6 DEF Ind
    <3>3. QED
      BY <1>1, <1>2, <2>1, <2>2, <2>5, <2>6, <3>1, <3>2
  <2>7. CASE s # initNext
    <3>1. s < initNext <=> s < initNext + 1
      BY <1>2, <2>7
    <3>2. Occurrences(freeSlots, s)' = Occurrences(freeSlots, s)
      BY <2>3, <2>4, <2>7 DEF Ind
    <3>3. QED
      BY <1>1, <2>1, <2>2, <2>4, <2>5, <3>1, <3>2
  <2>8. QED
    BY <2>6, <2>7
<1>7. SlotsAccounted'
  BY <1>6 DEF SlotsAccounted
<1>8. QED
  BY <1>4, <1>5, <1>7

LEMMA AccountFreeRead ==
  ASSUME TypeOK, TypeOK', RefInv, FreeInv, SlotsAccounted, FreeRead
  PROVE  RefInv' /\ FreeInv' /\ SlotsAccounted'
<1>1. /\ freeReq # <<>> /\ refCountOut' = refCount[Head(freeReq)]
      /\ UNCHANGED <<initNext, freeSlots, refCount, freeReq>>
      /\ UNCHANGED <<mcastBuffer, mcastState, mcastDests, mcastSlot, mcastDest, enqStage2,
                     ramFront, ramBack, ramData, serveState, rxReq, itemOut, recvResp, held>>
  BY DEF FreeRead, thrVars, recvVars, mcastVars, queueVars, serveVars
<1>2. RefsKept
  BY <1>1, RefsUntouched
<1>3. RefInv'
  BY <1>2 DEF RefInv, RefsKept
<1>4. FreeInv'
  BY <1>1 DEF FreeInv
<1>5. ASSUME NEW s \in Slots
      PROVE  /\ refCount'[s] = Cardinality(Referring(s)') + Occurrences(freeReq, s)'
             /\ Occurrences(freeSlots, s)' = IF s < initNext' /\ refCount'[s] = 0 THEN 1 ELSE 0
  <2>1. Referring(s)' = Referring(s)
    <3>1. Referring(s)' = {t \in Threads : Refs(t, s)' # 0}
      BY ReferringIsRefsNext
    <3>2. Referring(s) = {t \in Threads : Refs(t, s) # 0}
      BY ReferringIsRefs
    <3>3. QED
      BY <1>2, <3>1, <3>2 DEF RefsKept
  <2>2. Occurrences(freeReq, s)' = Occurrences(freeReq, s)
        /\ Occurrences(freeSlots, s)' = Occurrences(freeSlots, s)
    BY <1>1 DEF Occurrences
  <2>3. QED
    BY <1>1, <2>1, <2>2 DEF SlotsAccounted
<1>6. SlotsAccounted'
  BY <1>5 DEF SlotsAccounted
<1>7. QED
  BY <1>3, <1>4, <1>6

\* A request to free a slot counts in its reference count.
LEMMA FreeRequested ==
  ASSUME TypeOK, FreeInv, SlotsAccounted, freeReq # <<>>
  PROVE  /\ Head(freeReq) \in Slots /\ refCount[Head(freeReq)] # 0
         /\ ~ (initNext <= Head(freeReq))
<1>1. freeReq \in Seq(Slots) /\ refCount \in [Slots -> 0 .. NumCores * ThreadsPerCore]
  BY TypeParts DEF FreeOK, CountsOK
<1>2. PICK s \in Slots : s = Head(freeReq)
  BY <1>1, RangeTail
<1>3. Occurrences(freeReq, s) = Occurrences(Tail(freeReq), s) + 1
      /\ Occurrences(Tail(freeReq), s) \in Nat
  <2>1. Occurrences(freeReq, s) = Occurrences(Tail(freeReq), s) + Ind(Head(freeReq) = s)
        /\ Occurrences(Tail(freeReq), s) \in Nat
    BY <1>1, OccurrencesStep
  <2>2. QED
    BY <1>2, <2>1 DEF Ind
<1>4. refCount[s] = Cardinality(Referring(s)) + Occurrences(freeReq, s)
  BY DEF SlotsAccounted
<1>5. refCount[s] # 0
  BY <1>3, <1>4, ReferringType
<1>6. QED
  BY <1>2, <1>5 DEF FreeInv

LEMMA AccountFreeWrite ==
  ASSUME TypeOK, TypeOK', RefInv, FreeInv, SlotsAccounted, FreeWrite
  PROVE  RefInv' /\ FreeInv' /\ SlotsAccounted'
<1>1. /\ freeReq # <<>> /\ freeState = 1
      /\ refCount' = [refCount EXCEPT ![Head(freeReq)] = refCountOut - 1]
      /\ freeSlots' = IF LastRef(refCountOut) THEN Append(freeSlots, Head(freeReq)) ELSE freeSlots
      /\ freeReq' = Tail(freeReq) /\ freeState' = 0 /\ initNext' = initNext
      /\ UNCHANGED <<mcastBuffer, mcastState, mcastDests, mcastSlot, mcastDest, enqStage2,
                     ramFront, ramBack, ramData, serveState, rxReq, itemOut, recvResp, held>>
  BY DEF FreeWrite, thrVars, mcastVars, queueVars, serveVars
<1>2. /\ freeReq \in Seq(Slots) /\ freeSlots \in Seq(Slots)
      /\ refCount \in [Slots -> 0 .. NumCores * ThreadsPerCore] /\ Slots \subseteq Nat
      /\ initNext \in Nat
  <2>1. initNext \in NumSendSlots .. NumSlots
    BY TypeParts DEF SlotsOK
  <2>2. initNext \in Nat
    BY <2>1, MailboxAssumption
  <2>3. QED
    BY <2>2, TypeParts, SlotShape DEF FreeOK, SlotsOK, CountsOK
<1>3. PICK v \in Slots : v = Head(freeReq)
  BY <1>1, FreeRequested
<1>4. refCountOut = refCount[v] /\ refCount[v] # 0 /\ ~ (initNext <= v)
  BY <1>1, <1>3, FreeRequested DEF FreeInv
<1>5. refCount'[v] = refCount[v] - 1 /\ \A s \in Slots : s # v => refCount'[s] = refCount[s]
  BY <1>1, <1>2, <1>3, <1>4
<1>6. RefsKept
  BY <1>1, RefsUntouched
<1>7. RefInv'
  BY <1>6 DEF RefInv, RefsKept
<1>8. FreeInv'
  BY <1>1, <1>4, <1>5 DEF FreeInv
<1>9. ASSUME NEW s \in Slots
      PROVE  /\ refCount'[s] = Cardinality(Referring(s)') + Occurrences(freeReq, s)'
             /\ Occurrences(freeSlots, s)' = IF s < initNext' /\ refCount'[s] = 0 THEN 1 ELSE 0
  <2>1. Referring(s)' = Referring(s)
    <3>1. Referring(s)' = {t \in Threads : Refs(t, s)' # 0}
      BY ReferringIsRefsNext
    <3>2. Referring(s) = {t \in Threads : Refs(t, s) # 0}
      BY ReferringIsRefs
    <3>3. QED
      BY <1>6, <3>1, <3>2 DEF RefsKept
  <2> DEFINE k == Cardinality(Referring(s))
             m == Occurrences(Tail(freeReq), s)
  <2>2. k \in Nat /\ m \in Nat /\ Occurrences(freeReq, s) = m + Ind(v = s)
    BY <1>1, <1>2, <1>3, ReferringType, OccurrencesStep
  <2>3. Occurrences(freeReq, s)' = m
    BY <1>1 DEF Occurrences
  <2>4. refCount[s] = k + Occurrences(freeReq, s)
        /\ Occurrences(freeSlots, s) = IF s < initNext /\ refCount[s] = 0 THEN 1 ELSE 0
    BY DEF SlotsAccounted
  <2>5. Occurrences(freeSlots, s)'
          = IF LastRef(refCountOut) THEN Occurrences(freeSlots, s) + Ind(v = s)
            ELSE Occurrences(freeSlots, s)
    <3>1. CASE LastRef(refCountOut)
      <4>1. Occurrences(freeSlots, s)' = Occurrences(Append(freeSlots, v), s)
        BY <1>1, <1>3, <3>1 DEF Occurrences
      <4>2. QED
        BY <1>2, <3>1, <4>1, OccurrencesStep
    <3>2. CASE ~ LastRef(refCountOut)
      BY <1>1, <3>2 DEF Occurrences
    <3>3. QED
      BY <3>1, <3>2
  <2> HIDE DEF k, m
  <2>6. refCount[s] \in Nat
    BY <1>2, ThreadShape
  <2>7. CASE s = v
    <3>1. refCount'[s] = k + m
      BY <1>5, <2>2, <2>4, <2>6, <2>7 DEF Ind
    <3>2. Occurrences(freeSlots, s) = 0
      BY <1>4, <2>4, <2>7
    <3>3. s < initNext
      BY <1>2, <1>4, <2>7
    <3>4. refCount'[s] = 0 <=> LastRef(refCountOut)
      BY <1>4, <1>5, <2>6, <2>7 DEF LastRef
    <3>5. Occurrences(freeSlots, s)' = IF refCount'[s] = 0 THEN 1 ELSE 0
      BY <2>5, <2>7, <3>2, <3>4 DEF Ind
    <3>6. QED
      BY <1>1, <2>1, <2>3, <3>1, <3>3, <3>5 DEF k
  <2>8. CASE s # v
    <3>1. refCount'[s] = refCount[s] /\ refCount[s] = k + m
      BY <1>5, <2>2, <2>4, <2>8 DEF Ind
    <3>2. Occurrences(freeSlots, s)' = Occurrences(freeSlots, s)
      BY <2>4, <2>5, <2>8 DEF Ind
    <3>3. QED
      BY <1>1, <2>1, <2>3, <2>4, <3>1, <3>2 DEF k
  <2>9. QED
    BY <2>7, <2>8
<1>10. SlotsAccounted'
  BY <1>9 DEF SlotsAccounted
<1>11. QED
  BY <1>7, <1>8, <1>10

\* A message arrives: the threads it is for now refer to its slot.
LEMMA AccountReceiveFinalFlit ==
  ASSUME TypeOK, TypeOK', RefInv, FreeInv, SlotsAccounted, NEW dests \in DestSets,
         ReceiveFinalFlit(dests)
  PROVE  RefInv' /\ FreeInv' /\ SlotsAccounted'
<1>1. dests \in SUBSET Threads /\ dests # {}
  BY MailboxAssumption
<1>2. freeSlots # <<>>
  BY DEF ReceiveFinalFlit, CanRecv
<1>3. PICK v \in Slots : v = Head(freeSlots)
  BY <1>2, FrontSlot
<1>4. /\ refCount[v] = 0 /\ v < initNext /\ Occurrences(freeSlots, v) = 1
      /\ Occurrences(freeReq, v) = 0 /\ \A t \in Threads : Refs(t, v) = 0
  BY <1>2, <1>3, FrontSlot
<1>5. /\ freeSlots' = Tail(freeSlots)
      /\ refCount' = [refCount EXCEPT ![v] = Cardinality(dests)]
      /\ UNCHANGED <<initNext, freeReq, freeState, refCountOut>>
      /\ UNCHANGED <<mcastState, mcastDests, mcastSlot, mcastDest, enqStage2,
                     ramFront, ramBack, ramData, serveState, rxReq, itemOut, recvResp, held>>
  BY <1>3 DEF ReceiveFinalFlit, RefCount, thrVars, queueVars, serveVars, freeVars
<1>6. /\ freeSlots \in Seq(Slots) /\ freeReq \in Seq(Slots) /\ initNext \in Nat
      /\ refCount \in [Slots -> 0 .. NumCores * ThreadsPerCore] /\ Slots \subseteq Nat
  <2>1. initNext \in NumSendSlots .. NumSlots
    BY TypeParts DEF SlotsOK
  <2>2. initNext \in Nat
    BY <2>1, MailboxAssumption
  <2>3. QED
    BY <2>2, TypeParts, SlotShape DEF SlotsOK, FreeOK, CountsOK
<1>7. refCount'[v] = Cardinality(dests) /\ \A s \in Slots : s # v => refCount'[s] = refCount[s]
  BY <1>5, <1>6
<1>8. ASSUME NEW t \in Threads, NEW s \in Slots
      PROVE  McastRefs(t, s)' = McastRefs(t, s) + Ind(t \in dests /\ s = v)
  <2>1. PICK c \in Cores : c = CoreOf(t)
    BY ThreadShape
  <2>2. mcastBuffer[c] \in Seq(Entry) /\ McastOK
    BY TypeParts DEF McastOK
  <2> DEFINE m == [dests |-> dests \cap ThreadsOn(c), slot |-> v]
             E == EntriesFor(t, s)
             n == Hits(mcastBuffer[c], E)
             x == Ind(mcastState[c] # 0 /\ mcastSlot[c] = s /\ t \in mcastDests[c])
             y == Ind(mcastState[c] = 2 /\ mcastSlot[c] = s /\ t = mcastDest[c])
  <2>3. t \in ThreadsOn(c)
    BY <2>1, ThreadShape
  <2>4. Hits(mcastBuffer'[c], E) = n + Ind(t \in dests /\ s = v)
    <3>1. CASE dests \cap ThreadsOn(c) = {}
      <4>1. mcastBuffer'[c] = mcastBuffer[c]
        BY <1>1, <1>3, <2>2, <3>1, BufferAppend
      <4>2. t \notin dests
        BY <2>3, <3>1
      <4>3. n \in Nat /\ Ind(t \in dests /\ s = v) = 0
        BY <2>2, <4>2, HitsType DEF Ind
      <4> HIDE DEF E
      <4>4. QED
        BY <4>1, <4>3
    <3>2. CASE dests \cap ThreadsOn(c) # {}
      <4>1. m \in Entry /\ mcastBuffer'[c] = Append(mcastBuffer[c], m)
        BY <1>1, <1>3, <2>2, <3>2, BufferAppend
      <4>2. m \in E <=> t \in dests /\ s = v
        BY <2>3, <4>1 DEF EntriesFor
      <4> HIDE DEF m, E
      <4>3. Hits(Append(mcastBuffer[c], m), E) = n + (IF m \in E THEN 1 ELSE 0)
        BY <2>2, <4>1, HitsAppend
      <4>4. QED
        BY <4>1, <4>2, <4>3 DEF Ind
    <3>3. QED
      BY <3>1, <3>2
  <2>5. McastRefs(t, s) = n + x + y
    BY <2>1 DEF McastRefs
  <2>6. McastRefs(t, s)' = Hits(mcastBuffer'[c], E) + x + y
    BY <1>5, <2>1 DEF McastRefs
  <2>7. n \in Nat /\ x \in Nat /\ y \in Nat /\ Ind(t \in dests /\ s = v) \in Nat
    BY <2>2, HitsType, IndType
  <2> HIDE DEF n, x, y, E
  <2>8. QED
    BY <2>4, <2>5, <2>6, <2>7
<1>9. ASSUME NEW t \in Threads, NEW s \in Slots
      PROVE  Refs(t, s)' = Refs(t, s) + Ind(t \in dests /\ s = v)
  <2> DEFINE k == EnqRefs(t, s) + QueueRefs(t, s) + ServeRefs(t, s) + AnswerRefs(t, s) + HeldRefs(t, s)
  <2>1. /\ EnqRefs(t, s)' = EnqRefs(t, s) /\ QueueRefs(t, s)' = QueueRefs(t, s)
        /\ ServeRefs(t, s)' = ServeRefs(t, s) /\ AnswerRefs(t, s)' = AnswerRefs(t, s)
        /\ HeldRefs(t, s)' = HeldRefs(t, s)
    BY <1>5, RefsFrame
  <2>2. /\ EnqRefs(t, s) \in Nat /\ QueueRefs(t, s) \in Nat /\ ServeRefs(t, s) \in Nat
        /\ AnswerRefs(t, s) \in Nat /\ HeldRefs(t, s) \in Nat /\ McastRefs(t, s) \in Nat
    BY RefTypes
  <2>3. k \in Nat /\ Refs(t, s) = McastRefs(t, s) + k
    BY <2>2 DEF Refs
  <2>4. Refs(t, s)' = McastRefs(t, s)' + k
    BY <1>8, <2>1, <2>2, IndType DEF Refs
  <2> HIDE DEF k
  <2>5. QED
    BY <1>8, <2>2, <2>3, <2>4, IndType
<1>10. \A t \in Threads : \A s \in Slots : s # v => Refs(t, s)' = Refs(t, s)
  <2>1. \A t \in Threads : \A s \in Slots : s # v => Ind(t \in dests /\ s = v) = 0
    BY DEF Ind
  <2>2. QED
    BY <1>9, <2>1, RefTypes
<1>11. \A t \in Threads : Refs(t, v)' = Ind(t \in dests)
  <2>1. \A t \in Threads : Ind(t \in dests /\ v = v) = Ind(t \in dests)
    BY DEF Ind
  <2>2. QED
    BY <1>4, <1>9, <2>1, IndType
<1>12. RefInv'
  <2>1. ASSUME NEW t \in Threads, NEW s \in Slots PROVE Refs(t, s)' <= 1
    <3>1. CASE s = v
      BY <1>11, <3>1, IndType
    <3>2. CASE s # v
      BY <1>10, <3>2 DEF RefInv
    <3>3. QED
      BY <3>1, <3>2
  <2>2. QED
    BY <2>1 DEF RefInv
<1>13. IsFiniteSet(dests) /\ Cardinality(dests) \in Nat /\ Cardinality(dests) # 0
  BY <1>1, ThreadShape, FS_Subset, FS_CardinalityType, FS_EmptySet
<1>14. FreeInv'
  <2>1. ASSUME NEW s \in Slots, initNext' <= s PROVE refCount'[s] = 0
    <3>1. s # v
      BY <1>4, <1>5, <1>6, <2>1
    <3>2. QED
      BY <1>5, <1>7, <2>1, <3>1 DEF FreeInv
  <2>2. ASSUME freeState' = 1 PROVE freeReq' # <<>> /\ refCountOut' = refCount'[Head(freeReq')]
    <3>1. freeReq # <<>> /\ refCountOut = refCount[Head(freeReq)]
      BY <1>5, <2>2 DEF FreeInv
    <3>2. Head(freeReq) \in Slots /\ refCount[Head(freeReq)] # 0
      BY <3>1, FreeRequested
    <3>3. Head(freeReq) # v
      BY <1>4, <3>2
    <3>4. QED
      BY <1>5, <1>7, <3>1, <3>2, <3>3
  <2>3. QED
    BY <2>1, <2>2 DEF FreeInv
<1>15. ASSUME NEW s \in Slots
      PROVE  /\ refCount'[s] = Cardinality(Referring(s)') + Occurrences(freeReq, s)'
             /\ Occurrences(freeSlots, s)' = IF s < initNext' /\ refCount'[s] = 0 THEN 1 ELSE 0
  <2>1. Referring(s)' = {t \in Threads : Refs(t, s)' # 0}
    BY ReferringIsRefsNext
  <2>2. Occurrences(freeReq, s)' = Occurrences(freeReq, s)
    BY <1>5 DEF Occurrences
  <2>3. Occurrences(freeSlots, s) = Occurrences(freeSlots, s)' + Ind(v = s)
        /\ Occurrences(freeSlots, s)' \in Nat
    <3>1. Occurrences(freeSlots, s)' = Occurrences(Tail(freeSlots), s)
      BY <1>5 DEF Occurrences
    <3>2. QED
      BY <1>2, <1>3, <1>6, <3>1, OccurrencesStep
  <2>4. refCount[s] = Cardinality(Referring(s)) + Occurrences(freeReq, s)
        /\ Occurrences(freeSlots, s) = IF s < initNext /\ refCount[s] = 0 THEN 1 ELSE 0
    BY DEF SlotsAccounted
  <2>5. CASE s = v
    <3>1. Referring(s)' = dests
      BY <1>1, <1>11, <2>1, <2>5 DEF Ind
    <3>2. refCount'[s] = Cardinality(Referring(s)') + Occurrences(freeReq, s)'
      BY <1>4, <1>7, <1>13, <2>2, <2>5, <3>1
    <3>3. Occurrences(freeSlots, s)' = 0
      BY <1>4, <2>3, <2>5 DEF Ind
    <3>4. refCount'[s] # 0
      BY <1>7, <1>13, <2>5
    <3>5. QED
      BY <3>2, <3>3, <3>4
  <2>6. CASE s # v
    <3>1. Referring(s)' = Referring(s)
      <4>1. Referring(s) = {t \in Threads : Refs(t, s) # 0}
        BY ReferringIsRefs
      <4>2. QED
        BY <1>10, <2>1, <2>6, <4>1
    <3>2. Occurrences(freeSlots, s)' = Occurrences(freeSlots, s)
      BY <2>3, <2>6 DEF Ind
    <3>3. QED
      BY <1>5, <1>7, <2>2, <2>4, <2>6, <3>1, <3>2
  <2>7. QED
    BY <2>5, <2>6
<1>16. SlotsAccounted'
  BY <1>15 DEF SlotsAccounted
<1>17. QED
  BY <1>12, <1>14, <1>16

\* A thread holds a message once, and nothing else in its slot.
LEMMA HeldOnce ==
  ASSUME HeldIntact, TypeOK, NEW t \in Threads, NEW g \in held[t], NEW h \in held[t],
         g.slot = h.slot
  PROVE  g = h
<1>1. g \in Held /\ h \in Held
  BY TypeParts DEF HeldOK
<1>2. g.flits = scratchpad[g.slot] /\ h.flits = scratchpad[h.slot]
  BY DEF HeldIntact
<1>3. g = [slot |-> g.slot, flits |-> g.flits] /\ h = [slot |-> h.slot, flits |-> h.flits]
  BY <1>1 DEF Held
<1>4. QED
  BY <1>2, <1>3

\* A thread frees a slot: its reference becomes a request.
LEMMA AccountFree ==
  ASSUME TypeOK, TypeOK', HeldIntact, RefInv, FreeInv, SlotsAccounted,
         NEW u \in Threads, NEW h \in held[u], Free(u, h)
  PROVE  RefInv' /\ FreeInv' /\ SlotsAccounted'
<1>1. held \in [Threads -> SUBSET Held] /\ freeReq \in Seq(Slots) /\ h \in Held
  BY TypeParts DEF HeldOK, FreeOK
<1>2. PICK v \in Slots : v = h.slot
  BY <1>1 DEF Held
<1>3. /\ held' = [held EXCEPT ![u] = @ \ {h}]
      /\ freeReq' = Append(freeReq, v)
      /\ UNCHANGED <<initNext, freeSlots, refCount, freeState, refCountOut>>
      /\ UNCHANGED <<mcastBuffer, mcastState, mcastDests, mcastSlot, mcastDest, enqStage2,
                     ramFront, ramBack, ramData, serveState, rxReq, itemOut, recvResp>>
  BY <1>2 DEF Free, recvVars, mcastVars, queueVars, serveVars
<1>4. ASSUME NEW t \in Threads, NEW s \in Slots
      PROVE  HeldRefs(t, s) = HeldRefs(t, s)' + Ind(t = u /\ s = v)
  <2>1. CASE t = u /\ s = v
    <3>1. HeldRefs(t, s) = 1
      BY <1>2, <2>1 DEF HeldRefs, Ind
    <3>2. held'[t] = held[t] \ {h}
      BY <1>1, <1>3, <2>1
    <3>3. \A g \in held'[t] : g.slot # s
      BY <1>2, <2>1, <3>2, HeldOnce
    <3>4. HeldRefs(t, s)' = 0
      BY <3>3 DEF HeldRefs, Ind
    <3>5. QED
      BY <2>1, <3>1, <3>4 DEF Ind
  <2>2. CASE ~ (t = u /\ s = v)
    <3>1. (\E g \in held[t] : g.slot = s) <=> (\E g \in held'[t] : g.slot = s)
      <4>1. CASE t = u
        <5>1. held'[t] = held[t] \ {h} /\ h.slot # s
          BY <1>1, <1>2, <1>3, <2>2, <4>1
        <5>2. QED
          BY <5>1
      <4>2. CASE t # u
        BY <1>1, <1>3, <4>2
      <4>3. QED
        BY <4>1, <4>2
    <3>2. HeldRefs(t, s)' = HeldRefs(t, s) /\ Ind(t = u /\ s = v) = 0
      BY <2>2, <3>1 DEF HeldRefs, Ind
    <3>3. QED
      BY <3>2, RefTypes
  <2>3. QED
    BY <2>1, <2>2
<1>5. ASSUME NEW t \in Threads, NEW s \in Slots
      PROVE  Refs(t, s) = Refs(t, s)' + Ind(t = u /\ s = v)
  <2> DEFINE k == McastRefs(t, s) + EnqRefs(t, s) + QueueRefs(t, s) + ServeRefs(t, s) + AnswerRefs(t, s)
  <2>1. /\ EnqRefs(t, s)' = EnqRefs(t, s) /\ QueueRefs(t, s)' = QueueRefs(t, s)
        /\ ServeRefs(t, s)' = ServeRefs(t, s) /\ AnswerRefs(t, s)' = AnswerRefs(t, s)
        /\ McastRefs(t, s)' = McastRefs(t, s)
    BY <1>3, RefsFrame
  <2>2. /\ EnqRefs(t, s) \in Nat /\ QueueRefs(t, s) \in Nat /\ ServeRefs(t, s) \in Nat
        /\ AnswerRefs(t, s) \in Nat /\ McastRefs(t, s) \in Nat
    BY RefTypes
  <2>3. k \in Nat /\ Refs(t, s) = k + HeldRefs(t, s)
    BY <2>2 DEF Refs
  <2>4. Refs(t, s)' = k + HeldRefs(t, s)' /\ HeldRefs(t, s)' \in Nat
    BY <2>1, RefTypesNext DEF Refs
  <2> HIDE DEF k
  <2>5. HeldRefs(t, s) = HeldRefs(t, s)' + Ind(t = u /\ s = v) /\ Ind(t = u /\ s = v) \in Nat
    BY <1>4, IndType
  <2>6. QED
    BY <2>3, <2>4, <2>5
<1>6. \A t \in Threads : \A s \in Slots :
        Refs(t, s)' \in Nat /\ (~ (t = u /\ s = v) => Refs(t, s)' = Refs(t, s))
  <2> SUFFICES ASSUME NEW t \in Threads, NEW s \in Slots
               PROVE  Refs(t, s)' \in Nat /\ (~ (t = u /\ s = v) => Refs(t, s)' = Refs(t, s))
    OBVIOUS
  <2>1. Refs(t, s)' \in Nat
    BY RefTypesNext
  <2>2. ~ (t = u /\ s = v) => Ind(t = u /\ s = v) = 0
    BY DEF Ind
  <2>3. QED
    BY <1>5, <2>1, <2>2
<1>7. Refs(u, v) = 1 /\ Refs(u, v)' = 0
  <2>1. Refs(u, v) = Refs(u, v)' + Ind(u = u /\ v = v)
    BY <1>5
  <2>2. Ind(u = u /\ v = v) = 1
    BY DEF Ind
  <2>3. Refs(u, v) <= 1
    BY DEF RefInv
  <2>4. QED
    BY <1>6, <2>1, <2>2, <2>3
<1>8. RefInv'
  <2>1. ASSUME NEW t \in Threads, NEW s \in Slots PROVE Refs(t, s)' <= 1
    <3>1. CASE t = u /\ s = v
      BY <1>7, <3>1
    <3>2. CASE ~ (t = u /\ s = v)
      BY <1>6, <3>2 DEF RefInv
    <3>3. QED
      BY <3>1, <3>2
  <2>2. QED
    BY <2>1 DEF RefInv
<1>9. FreeInv'
  <2>1. freeReq # <<>> => Append(freeReq, v) # <<>> /\ Head(Append(freeReq, v)) = Head(freeReq)
    BY <1>1, AppendProperties
  <2>2. QED
    BY <1>3, <2>1 DEF FreeInv
<1>10. ASSUME NEW s \in Slots
      PROVE  /\ refCount'[s] = Cardinality(Referring(s)') + Occurrences(freeReq, s)'
             /\ Occurrences(freeSlots, s)' = IF s < initNext' /\ refCount'[s] = 0 THEN 1 ELSE 0
  <2>1. /\ Referring(s)' = {t \in Threads : Refs(t, s)' # 0}
        /\ Referring(s) = {t \in Threads : Refs(t, s) # 0}
    BY ReferringIsRefs, ReferringIsRefsNext
  <2>2. Occurrences(freeSlots, s)' = Occurrences(freeSlots, s)
    BY <1>3 DEF Occurrences
  <2>3. Occurrences(freeReq, s)' = Occurrences(freeReq, s) + Ind(v = s)
        /\ Occurrences(freeReq, s) \in Nat
    <3>1. Occurrences(freeReq, s)' = Occurrences(Append(freeReq, v), s)
      BY <1>3 DEF Occurrences
    <3>2. QED
      BY <1>1, <3>1, OccurrencesStep
  <2>4. refCount[s] = Cardinality(Referring(s)) + Occurrences(freeReq, s)
        /\ Occurrences(freeSlots, s) = IF s < initNext /\ refCount[s] = 0 THEN 1 ELSE 0
    BY DEF SlotsAccounted
  <2>5. CASE s = v
    <3>1. Referring(s)' = Referring(s) \ {u} /\ u \in Referring(s)
      BY <1>6, <1>7, <2>1, <2>5
    <3>2. Cardinality(Referring(s)') = Cardinality(Referring(s)) - 1
      BY <3>1, ReferringType, FS_RemoveElement
    <3>3. Occurrences(freeReq, s)' = Occurrences(freeReq, s) + 1
      BY <2>3, <2>5 DEF Ind
    <3>4. Cardinality(Referring(s)) \in Nat
      BY ReferringType
    <3>5. refCount[s] = Cardinality(Referring(s)') + Occurrences(freeReq, s)'
      BY <2>3, <2>4, <3>2, <3>3, <3>4
    <3>6. QED
      BY <1>3, <2>2, <2>4, <3>5
  <2>6. CASE s # v
    <3>1. Referring(s)' = Referring(s)
      BY <1>6, <2>1, <2>6
    <3>2. Occurrences(freeReq, s)' = Occurrences(freeReq, s)
      BY <2>3, <2>6 DEF Ind
    <3>3. QED
      BY <1>3, <2>2, <2>4, <3>1, <3>2
  <2>7. QED
    BY <2>5, <2>6
<1>11. SlotsAccounted'
  BY <1>10 DEF SlotsAccounted
<1>12. QED
  BY <1>8, <1>9, <1>11


-----------------------------------------------------------------------------
(* What a thread holds does not change                                     *)

\* The flits of a slot change only while it is the first of the free slots.
LEMMA IntactFlit ==
  ASSUME TypeOK, SlotsAccounted, HeldIntact, freeSlots # <<>>, UNCHANGED held,
         \A s \in Slots : s # Head(freeSlots) => scratchpad'[s] = scratchpad[s]
  PROVE  HeldIntact'
<1> SUFFICES ASSUME NEW t \in Threads, NEW h \in held[t]
             PROVE  scratchpad'[h.slot] = h.flits
  BY DEF HeldIntact
<1>1. scratchpad[h.slot] = h.flits
  BY DEF HeldIntact
<1>2. h.slot \in Slots
  BY TypeParts DEF HeldOK, Held
<1>3. h.slot # Head(freeSlots)
  <2>1. SUFFICES ASSUME h.slot = Head(freeSlots)
                 PROVE  FALSE
    OBVIOUS
  <2>2. Refs(t, h.slot) = 0
    BY <2>1, FrontSlot
  <2>3. /\ McastRefs(t, h.slot) \in Nat /\ EnqRefs(t, h.slot) \in Nat
        /\ QueueRefs(t, h.slot) \in Nat /\ ServeRefs(t, h.slot) \in Nat
        /\ AnswerRefs(t, h.slot) \in Nat /\ HeldRefs(t, h.slot) \in Nat
    BY <1>2, RefTypes
  <2>4. HeldRefs(t, h.slot) = 0
    BY <2>2, <2>3 DEF Refs
  <2>5. HeldRefs(t, h.slot) = 1
    BY DEF HeldRefs, Ind
  <2>6. QED
    BY <2>4, <2>5
<1>4. QED
  BY <1>1, <1>2, <1>3

LEMMA IntactReceiveFlit ==
  ASSUME TypeOK, SlotsAccounted, HeldIntact, ReceiveFlit
  PROVE  HeldIntact'
<1>1. freeSlots # <<>> /\ UNCHANGED held
  BY DEF ReceiveFlit, CanRecv, thrVars
<1>2. scratchpad \in [Slots -> [0 .. MaxFlits - 1 -> Nat]]
  BY TypeParts DEF ScratchOK
<1>3. \A s \in Slots : s # Head(freeSlots) => scratchpad'[s] = scratchpad[s]
  BY <1>2 DEF ReceiveFlit
<1>4. QED
  BY <1>1, <1>3, IntactFlit

LEMMA IntactReceiveFinalFlit ==
  ASSUME TypeOK, SlotsAccounted, HeldIntact, NEW dests, ReceiveFinalFlit(dests)
  PROVE  HeldIntact'
<1>1. freeSlots # <<>> /\ UNCHANGED held
  BY DEF ReceiveFinalFlit, CanRecv, thrVars
<1>2. scratchpad \in [Slots -> [0 .. MaxFlits - 1 -> Nat]]
  BY TypeParts DEF ScratchOK
<1>3. \A s \in Slots : s # Head(freeSlots) => scratchpad'[s] = scratchpad[s]
  BY <1>2 DEF ReceiveFinalFlit
<1>4. QED
  BY <1>1, <1>3, IntactFlit

LEMMA IntactFrame ==
  ASSUME HeldIntact, UNCHANGED <<held, scratchpad>>
  PROVE  HeldIntact'
BY DEF HeldIntact

\* A thread gets the message that is in the slot.
LEMMA IntactRespond ==
  ASSUME TypeOK, HeldIntact, NEW c \in Cores, Respond(c)
  PROVE  HeldIntact'
<1> DEFINE new == [slot |-> Head(recvResp[c]).data,
                   flits |-> scratchpad[Head(recvResp[c]).data]]
           u == Head(recvResp[c]).status.id
<1>1. UNCHANGED scratchpad
  BY DEF Respond, recvVars
<1>2. new.flits = scratchpad[new.slot]
  OBVIOUS
<1>3. held' = held \/ held' = [held EXCEPT ![u] = @ \cup {new}]
  BY DEF Respond
<1> HIDE DEF new, u
<1>4. SUFFICES ASSUME NEW t \in Threads, NEW h \in held'[t]
               PROVE  scratchpad[h.slot] = h.flits
  BY <1>1 DEF HeldIntact
<1>5. h \in held[t] \/ h = new
  <2>1. held \in [Threads -> SUBSET Held]
    BY TypeParts DEF HeldOK
  <2>2. QED
    BY <1>3, <1>4, <2>1
<1>6. QED
  BY <1>2, <1>5 DEF HeldIntact

LEMMA IntactFree ==
  ASSUME TypeOK, HeldIntact, NEW u \in Threads, NEW g \in held[u], Free(u, g)
  PROVE  HeldIntact'
<1>1. UNCHANGED scratchpad
  BY DEF Free, recvVars
<1>2. held \in [Threads -> SUBSET Held]
  BY TypeParts DEF HeldOK
<1>3. \A t \in Threads : held'[t] \subseteq held[t]
  BY <1>2 DEF Free
<1>4. QED
  BY <1>1, <1>3 DEF HeldIntact

-----------------------------------------------------------------------------
(* The inductive invariant                                                 *)

IInv == /\ TypeOK
        /\ WaitInv
        /\ McastInv
        /\ RefInv
        /\ FreeInv
        /\ SlotsAccounted
        /\ HeldIntact

LEMMA InitWait == Init => WaitInv
<1> SUFFICES ASSUME Init
             PROVE  WaitInv
  OBVIOUS
<1>1. \A t \in Threads : CoreOf(t) \in Cores
  BY ThreadShape
<1>2. PlaceInv
  BY <1>1, HitsEmpty DEF Init, PlaceInv, PlaceSum, Ind
<1>3. Range(<<>>) = {}
  <2>1. <<>> \in Seq({})
    OBVIOUS
  <2>2. QED
    BY <2>1, RangeType
<1>4. ASSUME NEW c \in Cores
      PROVE  AskInv(c) /\ ServeInv(c)
  BY <1>3 DEF Init, AskInv, ServeInv
<1>5. SureInv
  BY DEF Init, SureInv
<1>6. QED
  BY <1>2, <1>4, <1>5 DEF WaitInv

LEMMA InitMcast == Init => McastInv
<1>1. Range(<<>>) = {}
  <2>1. <<>> \in Seq({})
    OBVIOUS
  <2>2. QED
    BY <2>1, RangeType
<1>2. QED
  BY <1>1 DEF Init, McastInv

LEMMA InitRefs ==
  ASSUME Init, NEW t \in Threads, NEW s
  PROVE  Refs(t, s) = 0
<1> DEFINE c == CoreOf(t)
<1>1. c \in Cores
  BY ThreadShape
<1> HIDE DEF c
<1>2. McastRefs(t, s) = 0
  <2>1. mcastBuffer[c] = <<>> /\ mcastState[c] = 0
    BY <1>1 DEF Init
  <2>2. Hits(mcastBuffer[c], EntriesFor(t, s)) = 0
    BY <2>1, HitsEmpty
  <2>3. QED
    BY <2>1, <2>2 DEF McastRefs, Ind, c
<1>3. EnqRefs(t, s) = 0
  BY <1>1 DEF Init, EnqRefs, Ind, c
<1>4. QueueRefs(t, s) = 0
  <2>1. ramFront[t] = 0 /\ ramBack[t] = 0
    BY DEF Init
  <2>2. QueueSize \in Nat /\ QueueSize > 1
    BY MailboxAssumption
  <2>3. Queued(t) = {}
    <3>1. SUFFICES ASSUME NEW i \in 0 .. QueueSize - 1,
                          (i - 0) % QueueSize < (0 - 0) % QueueSize
                   PROVE  FALSE
      BY <2>1 DEF Queued
    <3>2. (i - 0) % QueueSize = i /\ (0 - 0) % QueueSize = 0
      BY <2>2
    <3>3. QED
      BY <3>1, <3>2
  <2>4. QED
    BY <2>3, FS_EmptySet DEF QueueRefs
<1>5. ServeRefs(t, s) = 0
  BY <1>1 DEF Init, ServeRefs, Serving, Ind, c
<1>6. AnswerRefs(t, s) = 0
  <2>1. recvResp[c] = <<>>
    BY <1>1 DEF Init
  <2>2. QED
    BY <2>1, HitsEmpty DEF AnswerRefs, c
<1>7. HeldRefs(t, s) = 0
  BY DEF Init, HeldRefs, Ind
<1>8. QED
  BY <1>2, <1>3, <1>4, <1>5, <1>6, <1>7 DEF Refs

LEMMA InitAccount == Init => RefInv /\ FreeInv /\ SlotsAccounted /\ HeldIntact
<1> SUFFICES ASSUME Init
             PROVE  RefInv /\ FreeInv /\ SlotsAccounted /\ HeldIntact
  OBVIOUS
<1>1. RefInv
  BY InitRefs DEF RefInv
<1>2. FreeInv
  BY DEF Init, FreeInv
<1>3. HeldIntact
  BY DEF Init, HeldIntact
<1>4. SlotsAccounted
  <2>1. ASSUME NEW s \in Slots
        PROVE  /\ refCount[s] = 0 /\ Cardinality(Referring(s)) = 0
               /\ Occurrences(freeReq, s) = 0 /\ Occurrences(freeSlots, s) = 0
               /\ ~ (s < initNext)
    <3>1. Referring(s) = {}
      BY TypeInit, ReferringIsRefs, InitRefs
    <3>2. Cardinality(Referring(s)) = 0
      BY <3>1, FS_EmptySet
    <3>3. Occurrences(<<>>, s) = 0
      BY OccurrencesAreHits, HitsEmpty
    <3>4. ~ (s < NumSendSlots)
      BY MailboxAssumption DEF Slots
    <3>5. QED
      BY <3>2, <3>3, <3>4 DEF Init
  <2>2. QED
    BY <2>1 DEF SlotsAccounted
<1>5. QED
  BY <1>1, <1>2, <1>3, <1>4


\* A step of one core that only moves references about.
LEMMA CoreKeeps ==
  ASSUME IInv, TypeOK', RefsKept, WaitInv', McastInv',
         UNCHANGED <<initNext, freeSlots, refCount, freeReq, freeState, refCountOut>>,
         HeldIntact'
  PROVE  IInv'
BY KeptThenAccounted DEF IInv

LEMMA NextCore ==
  ASSUME IInv, NEW c \in Cores, CoreStep(c)
  PROVE  IInv'
<1> USE DEF recvVars, mcastVars, queueVars, serveVars, freeVars, thrVars
<1>1. TypeOK /\ WaitInv /\ McastInv /\ RefInv /\ FreeInv /\ SlotsAccounted /\ HeldIntact
  BY DEF IInv
<1>2. WaitTypes /\ McastOK /\ EnqOK
  BY <1>1, TypeWait, TypeParts
<1>3. UNCHANGED <<initNext, freeSlots, refCount, freeReq, freeState, refCountOut>>
  BY DEF CoreStep, Mcast0, Mcast1, Mcast2, EnqStage2, Serve0, Serve1, Serve2,
         Respond, Wakeup1, Wakeup2
<1>4. CASE Mcast0(c)
  <2>1. TypeOK'
    BY <1>1, <1>4, TypeMcast0
  <2>2. RefsKept
    BY <1>1, <1>4, <2>1, KeptMcast0
  <2>3. WaitInv' /\ HeldIntact'
    BY <1>1, <1>4, WaitFrame, IntactFrame DEF Mcast0
  <2>4. McastInv'
    BY <1>1, <1>2, <1>4, McastMcast0
  <2>5. QED
    BY <1>3, <2>1, <2>2, <2>3, <2>4, CoreKeeps
<1>5. CASE Mcast1(c)
  <2>1. TypeOK'
    BY <1>1, <1>5, TypeMcast1
  <2>2. RefsKept
    BY <1>1, <1>5, KeptMcast1
  <2>3. WaitInv' /\ HeldIntact'
    BY <1>1, <1>5, WaitFrame, IntactFrame DEF Mcast1
  <2>4. McastInv'
    BY <1>1, <1>2, <1>5, McastMcast1
  <2>5. QED
    BY <1>3, <2>1, <2>2, <2>3, <2>4, CoreKeeps
<1>6. CASE Mcast2(c)
  <2>1. TypeOK'
    BY <1>1, <1>6, TypeMcast2
  <2>2. RefsKept
    BY <1>1, <1>6, KeptMcast2
  <2>3. WaitInv' /\ HeldIntact'
    BY <1>1, <1>6, WaitFrame, IntactFrame DEF Mcast2
  <2>4. McastInv'
    BY <1>1, <1>2, <1>6, McastMcast2
  <2>5. QED
    BY <1>3, <2>1, <2>2, <2>3, <2>4, CoreKeeps
<1>7. CASE EnqStage2(c)
  <2>1. TypeOK'
    BY <1>1, <1>7, TypeEnqStage2
  <2>2. RefsKept
    BY <1>1, <1>7, <2>1, KeptEnqStage2
  <2>3. WaitInv'
    BY <1>1, <1>2, <1>7, WaitEnqStage2
  <2>4. HeldIntact'
    BY <1>1, <1>7, IntactFrame DEF EnqStage2
  <2>5. McastInv'
    BY <1>1, <1>2, <1>7, McastEnqStage2
  <2>6. QED
    BY <1>3, <2>1, <2>2, <2>3, <2>4, <2>5, CoreKeeps
<1>8. CASE Serve0(c)
  <2>1. TypeOK'
    BY <1>1, <1>8, TypeServe0
  <2>2. RefsKept
    BY <1>1, <1>8, KeptServe0
  <2>3. WaitInv'
    BY <1>1, <1>2, <1>8, WaitServe0
  <2>4. HeldIntact' /\ McastInv'
    BY <1>1, <1>8, IntactFrame, McastFrame DEF Serve0
  <2>5. QED
    BY <1>3, <2>1, <2>2, <2>3, <2>4, CoreKeeps
<1>9. CASE Serve1(c)
  <2>1. TypeOK'
    BY <1>1, <1>9, TypeServe1
  <2>2. RefsKept
    BY <1>1, <1>9, <2>1, KeptServe1
  <2>3. WaitInv'
    BY <1>1, <1>2, <1>9, WaitServe1
  <2>4. HeldIntact' /\ McastInv'
    BY <1>1, <1>9, IntactFrame, McastFrame DEF Serve1
  <2>5. QED
    BY <1>3, <2>1, <2>2, <2>3, <2>4, CoreKeeps
<1>10. CASE Serve2(c)
  <2>1. TypeOK'
    BY <1>1, <1>10, TypeServe2
  <2>2. RefsKept
    BY <1>1, <1>10, <2>1, KeptServe2
  <2>3. WaitInv'
    BY <1>1, <1>2, <1>10, WaitServe2
  <2>4. HeldIntact' /\ McastInv'
    BY <1>1, <1>10, IntactFrame, McastFrame DEF Serve2
  <2>5. QED
    BY <1>3, <2>1, <2>2, <2>3, <2>4, CoreKeeps
<1>11. CASE Respond(c)
  <2>1. TypeOK'
    BY <1>1, <1>11, TypeRespond
  <2>2. RefsKept
    BY <1>1, <1>11, <2>1, KeptRespond
  <2>3. WaitInv'
    BY <1>1, <1>2, <1>11, WaitRespond
  <2>4. HeldIntact'
    BY <1>1, <1>11, IntactRespond
  <2>5. McastInv'
    BY <1>1, <1>11, McastFrame DEF Respond
  <2>6. QED
    BY <1>3, <2>1, <2>2, <2>3, <2>4, <2>5, CoreKeeps
<1>12. CASE Wakeup1(c)
  <2>1. TypeOK'
    BY <1>1, <1>12, TypeWakeup1
  <2>2. RefsKept
    BY <1>1, <1>12, KeptWakeup1
  <2>3. WaitInv'
    BY <1>1, <1>2, <1>12, WaitWakeup1
  <2>4. HeldIntact' /\ McastInv'
    BY <1>1, <1>12, IntactFrame, McastFrame DEF Wakeup1
  <2>5. QED
    BY <1>3, <2>1, <2>2, <2>3, <2>4, CoreKeeps
<1>13. CASE Wakeup2(c)
  <2>1. TypeOK'
    BY <1>1, <1>13, TypeWakeup2
  <2>2. RefsKept
    BY <1>1, <1>13, <2>1, KeptWakeup2
  <2>3. WaitInv'
    BY <1>1, <1>2, <1>13, WaitWakeup2
  <2>4. HeldIntact' /\ McastInv'
    BY <1>1, <1>13, IntactFrame, McastFrame DEF Wakeup2
  <2>5. QED
    BY <1>3, <2>1, <2>2, <2>3, <2>4, CoreKeeps
<1>14. QED
  BY <1>4, <1>5, <1>6, <1>7, <1>8, <1>9, <1>10, <1>11, <1>12, <1>13 DEF CoreStep

LEMMA NextSleep ==
  ASSUME IInv, NEW t \in Threads, NEW op \in {"CanRecv", "Recv", "WaitUntil"},
         NEW e \in SUBSET Events, Sleep(t, op, e)
  PROVE  IInv'
<1> USE DEF recvVars, mcastVars, queueVars, serveVars, freeVars
<1>1. TypeOK /\ WaitInv /\ McastInv /\ HeldIntact /\ WaitTypes
  BY TypeWait DEF IInv
<1>2. TypeOK'
  BY <1>1, TypeSleep
<1>3. WaitInv'
  BY <1>1, WaitSleep
<1>4. McastInv' /\ HeldIntact'
  BY <1>1, McastFrame, IntactFrame DEF Sleep
<1>5. RefsKept
  BY RefsUntouched DEF Sleep
<1>6. UNCHANGED <<initNext, freeSlots, refCount, freeReq, freeState, refCountOut>>
  BY DEF Sleep
<1>7. QED
  BY <1>2, <1>3, <1>4, <1>5, <1>6, CoreKeeps

LEMMA NextThread ==
  ASSUME IInv, NEW t \in Threads, ThreadStep(t)
  PROVE  IInv'
<1> USE DEF recvVars, mcastVars, queueVars, serveVars, freeVars
<1>1. TypeOK /\ WaitInv /\ McastInv /\ RefInv /\ FreeInv /\ SlotsAccounted /\ HeldIntact
  BY DEF IInv
<1>2. CASE \E op \in {"CanRecv", "Recv", "WaitUntil"} : \E e \in SUBSET Events :
             Sleep(t, op, e)
  BY <1>2, NextSleep
<1>3. CASE \E h \in held[t] : Free(t, h)
  <2>1. PICK h \in held[t] : Free(t, h)
    BY <1>3
  <2>2. TypeOK'
    BY <1>1, <2>1, TypeFree
  <2>3. RefInv' /\ FreeInv' /\ SlotsAccounted'
    BY <1>1, <2>1, <2>2, AccountFree
  <2>4. HeldIntact'
    BY <1>1, <2>1, IntactFree
  <2>5. WaitInv' /\ McastInv'
    BY <1>1, <2>1, WaitFrame, McastFrame DEF Free
  <2>6. QED
    BY <2>2, <2>3, <2>4, <2>5 DEF IInv
<1>4. CASE Send(t) \/ TransmitResponse(t)
  <2>1. TypeOK'
    BY <1>1, <1>4, TypeSend
  <2>2. WaitInv' /\ McastInv' /\ HeldIntact'
    BY <1>1, <1>4, WaitFrame, McastFrame, IntactFrame DEF Send, TransmitResponse
  <2>3. RefsKept
    BY <1>4, RefsUntouched DEF Send, TransmitResponse
  <2>4. UNCHANGED <<initNext, freeSlots, refCount, freeReq, freeState, refCountOut>>
    BY <1>4 DEF Send, TransmitResponse
  <2>5. QED
    BY <2>1, <2>2, <2>3, <2>4, CoreKeeps
<1>5. {} \in SUBSET Events /\ {"recv"} \in SUBSET Events /\ {"send"} \in SUBSET Events
      /\ Events \in SUBSET Events
  BY DEF Events
<1>6. QED
  BY <1>2, <1>3, <1>4, <1>5 DEF ThreadStep, Poll

\* The invariant is inductive.
LEMMA NextInductive == IInv /\ [Next]_vars => IInv'
<1> SUFFICES ASSUME IInv, [Next]_vars
             PROVE  IInv'
  OBVIOUS
<1> USE DEF thrVars, recvVars, mcastVars, queueVars, serveVars, freeVars
<1>1. TypeOK /\ WaitInv /\ McastInv /\ RefInv /\ FreeInv /\ SlotsAccounted /\ HeldIntact
  BY DEF IInv
<1>2. CASE InitFreeSlots
  <2>1. TypeOK'
    BY <1>1, <1>2, TypeInitFreeSlots
  <2>2. RefInv' /\ FreeInv' /\ SlotsAccounted'
    BY <1>1, <1>2, <2>1, AccountInitFreeSlots
  <2>3. WaitInv' /\ McastInv' /\ HeldIntact'
    BY <1>1, <1>2, WaitFrame, McastFrame, IntactFrame DEF InitFreeSlots
  <2>4. QED
    BY <2>1, <2>2, <2>3 DEF IInv
<1>3. CASE ReceiveFlit
  <2>1. TypeOK'
    BY <1>1, <1>3, TypeReceiveFlit
  <2>2. RefsKept
    BY <1>3, RefsUntouched DEF ReceiveFlit
  <2>3. WaitInv' /\ McastInv'
    BY <1>1, <1>3, WaitFrame, McastFrame DEF ReceiveFlit
  <2>4. HeldIntact'
    BY <1>1, <1>3, IntactReceiveFlit
  <2>5. UNCHANGED <<initNext, freeSlots, refCount, freeReq, freeState, refCountOut>>
    BY <1>3 DEF ReceiveFlit
  <2>6. QED
    BY <2>1, <2>2, <2>3, <2>4, <2>5, CoreKeeps
<1>4. ASSUME NEW dests \in DestSets, ReceiveFinalFlit(dests)
      PROVE  IInv'
  <2>1. TypeOK'
    BY <1>1, <1>4, TypeReceiveFinalFlit
  <2>2. RefInv' /\ FreeInv' /\ SlotsAccounted'
    BY <1>1, <1>4, <2>1, AccountReceiveFinalFlit
  <2>3. McastInv'
    <3>1. dests \in SUBSET Threads
      BY MailboxAssumption
    <3>2. Head(freeSlots) \in Slots
      BY <1>1, <1>4, FrontSlot DEF ReceiveFinalFlit, CanRecv
    <3>3. McastOK
      BY <1>1, TypeParts
    <3>4. QED
      BY <1>1, <1>4, <3>1, <3>2, <3>3, McastReceiveFinalFlit
  <2>4. WaitInv'
    BY <1>1, <1>4, WaitFrame DEF ReceiveFinalFlit
  <2>5. HeldIntact'
    BY <1>1, <1>4, IntactReceiveFinalFlit
  <2>6. QED
    BY <2>1, <2>2, <2>3, <2>4, <2>5 DEF IInv
<1>5. CASE FreeRead
  <2>1. TypeOK'
    BY <1>1, <1>5, TypeFreeRead
  <2>2. RefInv' /\ FreeInv' /\ SlotsAccounted'
    BY <1>1, <1>5, <2>1, AccountFreeRead
  <2>3. WaitInv' /\ McastInv' /\ HeldIntact'
    BY <1>1, <1>5, WaitFrame, McastFrame, IntactFrame DEF FreeRead
  <2>4. QED
    BY <2>1, <2>2, <2>3 DEF IInv
<1>6. CASE FreeWrite
  <2>1. refCountOut # 0
    <3>1. freeReq # <<>> /\ freeState = 1
      BY <1>6 DEF FreeWrite
    <3>2. QED
      BY <1>1, <3>1, FreeRequested DEF FreeInv
  <2>2. TypeOK'
    BY <1>1, <1>6, <2>1, TypeFreeWrite
  <2>3. RefInv' /\ FreeInv' /\ SlotsAccounted'
    BY <1>1, <1>6, <2>2, AccountFreeWrite
  <2>4. WaitInv' /\ McastInv' /\ HeldIntact'
    BY <1>1, <1>6, WaitFrame, McastFrame, IntactFrame DEF FreeWrite
  <2>5. QED
    BY <2>2, <2>3, <2>4 DEF IInv
<1>7. CASE UNCHANGED vars
  <2>1. TypeOK'
    BY <1>1, <1>7, TypeParts, TypePartsNext, TypeFrame DEF vars
  <2>2. RefsKept
    BY <1>7, RefsUntouched DEF vars
  <2>3. WaitInv' /\ McastInv' /\ HeldIntact'
    BY <1>1, <1>7, WaitFrame, McastFrame, IntactFrame DEF vars
  <2>4. UNCHANGED <<initNext, freeSlots, refCount, freeReq, freeState, refCountOut>>
    BY <1>7 DEF vars
  <2>5. QED
    BY <2>1, <2>2, <2>3, <2>4, CoreKeeps
<1>8. QED
  BY <1>2, <1>3, <1>4, <1>5, <1>6, <1>7, NextCore, NextThread DEF Next


-----------------------------------------------------------------------------
(* What follows                                                            *)

\* The conjunction of everything said above of the registers of the mailbox
\* and its client units holds in every state that they can reach.
THEOREM Invariance == Spec => []IInv
<1>1. Init => IInv
  BY TypeInit, InitWait, InitMcast, InitAccount DEF IInv
<1>2. QED
  BY <1>1, NextInductive, PTL DEF Spec

\* Every register of the mailbox and of its client units keeps its type; in
\* particular no reference count goes below zero or above the number of
\* threads, and no message is enqueued for nobody.
THEOREM Typing == Spec => []TypeOK
<1>1. IInv => TypeOK
  BY DEF IInv
<1>2. QED
  BY <1>1, Invariance, PTL

\* A suspended thread is in exactly one of the sleep queue, a request to the
\* receive unit and a response of it, and a running thread in none: wakeup1,
\* wakeup2 and respond neither lose a thread nor wake one twice.
THEOREM Whereabouts == Spec => []OnePlace
<1>1. IInv => OnePlace
  <2> SUFFICES ASSUME IInv, NEW t \in Threads
               PROVE  Places(t) = IF suspended[t] THEN 1 ELSE 0
    BY DEF OnePlace
  <2>1. Places(t) = PlaceSum(t)
    BY TypeParts, PlacesAreHits DEF IInv
  <2>2. PlaceSum(t) = Ind(suspended[t])
    BY DEF IInv, WaitInv, PlaceInv
  <2>3. QED
    BY <2>1, <2>2 DEF Ind
<1>2. QED
  BY <1>1, Invariance, PTL

\* When the receive unit takes an item out of the queue of a thread, in state
\* 1 of serveReceive, there is one: the assertion "Receiving when not ready"
\* does not fail.
THEOREM Readiness == Spec => []ReceiveReady
<1>1. IInv => ReceiveReady
  BY DEF IInv, WaitInv, ServeInv, ReceiveReady
<1>2. QED
  BY <1>1, Invariance, PTL

\* The reference count that updateRefCount writes and rule free counts down is
\* the number of references there are, and a slot is in the free list, once,
\* exactly while there are none.
THEOREM Accounting == Spec => []SlotsAccounted
<1>1. IInv => SlotsAccounted
  BY DEF IInv
<1>2. QED
  BY <1>1, Invariance, PTL

\* receive0 never writes into a slot that a thread holds.
THEOREM Integrity == Spec => []HeldIntact
<1>1. IInv => HeldIntact
  BY DEF IInv
<1>2. QED
  BY <1>1, Invariance, PTL

\* A set with at most one element.
LEMMA AtMostOne ==
  ASSUME NEW n \in Nat, NEW P \in SUBSET (1 .. n), Cardinality(P) <= 1,
         NEW i \in P, NEW j \in P
  PROVE  i = j
<1>1. IsFiniteSet(1 .. n)
  BY FS_Interval
<1>2. IsFiniteSet(P)
  BY <1>1, FS_Subset
<1>3. Cardinality(P) \in Nat
  BY <1>2, FS_CardinalityType
<1>4. P # {}
  OBVIOUS
<1>5. Cardinality(P) # 0
  BY <1>2, <1>4, FS_EmptySet
<1>6. Cardinality(P) = 1
  BY <1>3, <1>5
<1>7. PICK x : P = {x}
  BY <1>2, <1>6, FS_Singleton
<1>8. QED
  BY <1>7

\* A queue in which nothing occurs twice is no longer than what may occur in it
\* is large.
LEMMA DistinctFit ==
  ASSUME NEW n \in Nat, NEW S, IsFiniteSet(S), NEW f \in [1 .. n -> S],
         \A i, j \in 1 .. n : f[i] = f[j] => i = j
  PROVE  n <= Cardinality(S)
<1>1. f \in Injection(1 .. n, S)
  BY DEF Injection, IsInjective
<1>2. Cardinality(1 .. n) <= Cardinality(S)
  BY <1>1, FS_Injection
<1>3. Cardinality(1 .. n) = n
  BY FS_Interval
<1>4. QED
  BY <1>2, <1>3

\* No sleep queue holds more threads than the core has, and the list of free
\* slots never holds a slot twice: these are the sizes that the code gives the
\* two queues, whose enqueues it does not guard.
QueuesFit ==
  /\ \A c \in Cores : Len(sleepQueue[c]) <= Cardinality(ThreadsOn(c))
  /\ Len(freeSlots) <= Cardinality(Slots)

\* A step that adds to the sleep queue of a core or to freeSlots, which rules
\* sleepUnit, initFreeSlots1 and free do without waiting for room, leaves no
\* more there than there are threads of the core and slots to hand out: what the
\* assertions "sleep violation" and "freeSlots full" rest on.
THEOREM Capacity == Spec => []QueuesFit
<1>1. IInv => \A c \in Cores : Len(sleepQueue[c]) <= Cardinality(ThreadsOn(c))
  <2> SUFFICES ASSUME IInv, NEW c \in Cores
               PROVE  Len(sleepQueue[c]) <= Cardinality(ThreadsOn(c))
    OBVIOUS
  <2> DEFINE q == sleepQueue[c]
             n == Len(q)
             f == [i \in 1 .. n |-> q[i].id]
  <2>1. WaitTypes /\ PlaceInv /\ AskInv(c)
    BY TypeWait DEF IInv, WaitInv
  <2>2. q \in Seq(SleepStatus) /\ n \in Nat
    BY <2>1 DEF WaitTypes, SleepOK
  <2>3. \A i \in 1 .. n : q[i] \in Range(q) /\ q[i].id \in ThreadsOn(c)
    <3>1. ASSUME NEW i \in 1 .. n
          PROVE  q[i] \in Range(q) /\ q[i].id \in Threads
      <4>1. q[i] \in SleepStatus
        BY <2>2
      <4>2. QED
        BY <2>2, <4>1, RangeType DEF SleepStatus
    <3>2. QED
      BY <2>1, <3>1 DEF AskInv, ThreadsOn
  <2>4. ASSUME NEW i \in 1 .. n, NEW j \in 1 .. n, q[i].id = q[j].id
        PROVE  i = j
    <3>1. PICK t \in Threads : t = q[i].id /\ CoreOf(t) = c
      BY <2>3, ThreadShape
    <3> DEFINE P == {k \in 1 .. n : q[k] \in StatusOf(t)}
    <3>2. Hits(q, StatusOf(t)) <= 1
      <4>1. PlaceSum(t) <= 1
        BY <2>1, IndType DEF PlaceInv
      <4>2. rxReq[c] \in Seq(SleepStatus) /\ recvResp[c] \in Seq(Answer)
        BY <2>1 DEF WaitTypes, ServeOK
      <4>3. Hits(q, StatusOf(t)) \in Nat /\ Hits(rxReq[c], StatusOf(t)) \in Nat
            /\ Hits(recvResp[c], AnswerOf(t)) \in Nat
        BY <2>2, <4>2, HitsType
      <4>4. QED
        BY <3>1, <4>1, <4>3 DEF PlaceSum
    <3>3. i \in P /\ j \in P
      BY <2>2, <2>4, <3>1 DEF StatusOf
    <3>4. Cardinality(P) <= 1
      BY <3>2 DEF Hits
    <3>5. P \in SUBSET (1 .. n)
      OBVIOUS
    <3> HIDE DEF P, n
    <3>6. QED
      BY <2>2, <3>3, <3>4, <3>5, AtMostOne
  <2>5. f \in [1 .. n -> ThreadsOn(c)] /\ \A i, j \in 1 .. n : f[i] = f[j] => i = j
    BY <2>3, <2>4
  <2>6. IsFiniteSet(ThreadsOn(c))
    BY ThreadShape, FS_Subset DEF ThreadsOn
  <2> HIDE DEF f
  <2>7. n <= Cardinality(ThreadsOn(c))
    BY <2>2, <2>5, <2>6, DistinctFit
  <2>8. QED
    BY <2>7
<1>2. IInv => Len(freeSlots) <= Cardinality(Slots)
  <2> SUFFICES ASSUME IInv
               PROVE  Len(freeSlots) <= Cardinality(Slots)
    OBVIOUS
  <2> DEFINE n == Len(freeSlots)
  <2>1. SlotsAccounted /\ freeSlots \in Seq(Slots) /\ n \in Nat
    BY TypeParts DEF IInv, SlotsOK
  <2>2. freeSlots \in [1 .. n -> Slots]
    BY <2>1
  <2>3. ASSUME NEW i \in 1 .. n, NEW j \in 1 .. n, freeSlots[i] = freeSlots[j]
        PROVE  i = j
    <3>1. PICK s \in Slots : s = freeSlots[i]
      BY <2>2
    <3> DEFINE P == {k \in 1 .. n : freeSlots[k] = s}
    <3>2. Cardinality(P) <= 1
      <4>1. Occurrences(freeSlots, s) <= 1
        BY <2>1 DEF SlotsAccounted
      <4>2. QED
        BY <4>1 DEF Occurrences
    <3>3. i \in P /\ j \in P /\ P \in SUBSET (1 .. n)
      BY <2>3, <3>1
    <3> HIDE DEF P
    <3>4. QED
      BY <2>1, <3>2, <3>3, AtMostOne
  <2>4. QED
    BY <2>1, <2>2, <2>3, SlotShape, DistinctFit
<1>3. IInv => QueuesFit
  BY <1>1, <1>2 DEF QueuesFit
<1>4. QED
  BY <1>3, Invariance, PTL

-----------------------------------------------------------------------------
(* The way of a message to a thread, as places in the order in which they  *)
(* are passed: the multicast buffer of the core, the entry being served,   *)
(* the item being enqueued, the queue, and the receive unit.               *)

\* The slot is in the receive unit, or in its answer.
AtUnit(t, s) ==
  \/ Serving(CoreOf(t), t) /\ itemOut[CoreOf(t)] = s
  \/ \E r \in Range(recvResp[CoreOf(t)]) : r \in AnswersWith(t, s)

\* The slot is in the queue, with so many items before it.
AtQueue(t, n, s) ==
  \E i \in Queued(t) : n = (i - ramFront[t]) % QueueSize /\ ramData[t][i] = s

AtEnq(t, s) == enqStage2[CoreOf(t)] = <<t, s>>

AtMcast(t, s) ==
  LET c == CoreOf(t) IN
  /\ mcastSlot[c] = s
  /\ \/ mcastState[c] # 0 /\ t \in mcastDests[c]
     \/ mcastState[c] = 2 /\ t = mcastDest[c]

AtBuffer(t, n, s) ==
  /\ n \in 1 .. Len(mcastBuffer[CoreOf(t)])
  /\ mcastBuffer[CoreOf(t)][n] \in EntriesFor(t, s)

\* Slot s is on its way to thread t, at place p.
At(t, p, s) ==
  \/ p = 0 /\ AtUnit(t, s)
  \/ AtQueue(t, p - 1, s)
  \/ p = QueueSize /\ AtEnq(t, s)
  \/ p = QueueSize + 1 /\ AtMcast(t, s)
  \/ AtBuffer(t, p - QueueSize - 1, s)

\* The message in a slot, once its first flit is there.
Number(s) == scratchpad[s][0]

\* The slots with messages on their way to t.
Coming(t) == {s \in Slots : \E p \in Nat : At(t, p, s)}

-----------------------------------------------------------------------------
(* The invariant                                                           *)

\* Messages are on their way in order of arrival, one at a place.
OrderInv(t) == \A p, q \in Nat : \A r, s \in Slots :
  At(t, p, r) /\ At(t, q, s) =>
    /\ p = q => r = s
    /\ p < q => Number(r) < Number(s)

\* What a thread has yet to receive is on its way, and later than what it has.
DueInv(t) ==
  /\ LM!Due(t) = {Number(s) : s \in Coming(t)}
  /\ \A m \in Range(got[t]) : \A s \in Coming(t) : m < Number(s)

\* The message that is arriving is in the slot at the front.
FlitInv == recvFlitCount # 0 =>
  freeSlots # <<>> /\ Number(Head(freeSlots)) = Len(arrived) + 1

\* What was received has arrived.
GotInv == \A t \in Threads : Range(got[t]) \subseteq 1 .. Len(arrived)

WayInv == (\A t \in Threads : OrderInv(t) /\ DueInv(t)) /\ FlitInv /\ GotInv

-----------------------------------------------------------------------------
(* Steps that only move things on                                          *)

\* The places of the slots for t now, from their places before the step.
LEMMA Moved ==
  ASSUME NEW t \in Threads, OrderInv(t), DueInv(t), NEW f, \A p \in Nat : f[p] \in Nat,
         UNCHANGED arrived, got'[t] = got[t],
         \A p \in Nat : \A s \in Slots :
           At(t, p, s)' => At(t, f[p], s) /\ Number(s)' = Number(s),
         \A p \in Nat : \A s \in Slots : At(t, p, s) => \E q \in Nat : At(t, q, s)',
         \A p, q \in Nat : \A r, s \in Slots :
           p < q /\ At(t, p, r)' /\ At(t, q, s)' => f[p] < f[q]
  PROVE  OrderInv(t)' /\ DueInv(t)'
<1>1. OrderInv(t)'
  <2> SUFFICES ASSUME NEW p \in Nat, NEW q \in Nat, NEW r \in Slots, NEW s \in Slots,
                      At(t, p, r)', At(t, q, s)'
               PROVE  /\ p = q => r = s
                      /\ p < q => Number(r)' < Number(s)'
    BY DEF OrderInv
  <2>1. f[p] \in Nat /\ f[q] \in Nat /\ At(t, f[p], r) /\ At(t, f[q], s)
    OBVIOUS
  <2>2. Number(r)' = Number(r) /\ Number(s)' = Number(s)
    OBVIOUS
  <2>3. p < q => f[p] < f[q]
    OBVIOUS
  <2>4. QED
    BY <2>1, <2>2, <2>3 DEF OrderInv
<1>2. Coming(t)' = Coming(t)
  BY DEF Coming
<1>3. \A s \in Coming(t) : Number(s)' = Number(s)
  BY <1>2 DEF Coming
<1>4. {Number(s) : s \in Coming(t)}' = {Number(s) : s \in Coming(t)}
  BY <1>2, <1>3
<1>5. LM!Due(t)' = LM!Due(t)
  BY DEF LM!Due, LM!For
<1>6. QED
  BY <1>1, <1>2, <1>3, <1>4, <1>5 DEF DueInv

\* Nothing is moved.
LEMMA Still ==
  ASSUME NEW t \in Threads, OrderInv(t), DueInv(t), UNCHANGED <<arrived, got>>,
         \A p \in Nat : \A s \in Slots : At(t, p, s)' <=> At(t, p, s),
         \A s \in Coming(t) : Number(s)' = Number(s)
  PROVE  OrderInv(t)' /\ DueInv(t)'
<1> DEFINE f == [p \in Nat |-> p]
<1>1. /\ \A p \in Nat : f[p] = p
      /\ \A p \in Nat : \A s \in Slots :
           At(t, p, s)' => At(t, p, s) /\ Number(s)' = Number(s)
  BY DEF Coming
<1> HIDE DEF f
<1>2. QED
  BY <1>1, Moved

\* The parts of the way that a step leaves alone.
LEMMA AtFrame ==
  ASSUME NEW t \in Threads
  PROVE  /\ UNCHANGED <<serveState, rxReq, itemOut, recvResp>> =>
              \A s \in Slots : AtUnit(t, s)' <=> AtUnit(t, s)
         /\ UNCHANGED <<ramFront, ramBack, ramData>> =>
              \A n : \A s \in Slots : AtQueue(t, n, s)' <=> AtQueue(t, n, s)
         /\ UNCHANGED enqStage2 => \A s \in Slots : AtEnq(t, s)' <=> AtEnq(t, s)
         /\ UNCHANGED <<mcastState, mcastDests, mcastSlot, mcastDest>> =>
              \A s \in Slots : AtMcast(t, s)' <=> AtMcast(t, s)
         /\ UNCHANGED mcastBuffer =>
              \A n : \A s \in Slots : AtBuffer(t, n, s)' <=> AtBuffer(t, n, s)
<1>1. UNCHANGED <<serveState, rxReq, itemOut, recvResp>> =>
        \A s \in Slots : AtUnit(t, s)' <=> AtUnit(t, s)
  BY DEF AtUnit, Serving
<1>2. UNCHANGED <<ramFront, ramBack, ramData>> =>
        \A n : \A s \in Slots : AtQueue(t, n, s)' <=> AtQueue(t, n, s)
  BY DEF AtQueue, Queued
<1>3. UNCHANGED enqStage2 => \A s \in Slots : AtEnq(t, s)' <=> AtEnq(t, s)
  BY DEF AtEnq
<1>4. UNCHANGED <<mcastState, mcastDests, mcastSlot, mcastDest>> =>
        \A s \in Slots : AtMcast(t, s)' <=> AtMcast(t, s)
  BY DEF AtMcast
<1>5. UNCHANGED mcastBuffer =>
        \A n : \A s \in Slots : AtBuffer(t, n, s)' <=> AtBuffer(t, n, s)
  BY DEF AtBuffer
<1>6. QED
  BY <1>1, <1>2, <1>3, <1>4, <1>5

\* A step that has nothing to do with messages on their way.
LEMMA Untouched ==
  ASSUME WayInv,
         UNCHANGED <<mcastBuffer, mcastState, mcastDests, mcastSlot, mcastDest, enqStage2,
                     ramFront, ramBack, ramData, serveState, rxReq, itemOut, recvResp,
                     scratchpad, arrived, got>>
  PROVE  \A t \in Threads : OrderInv(t)' /\ DueInv(t)'
<1> SUFFICES ASSUME NEW t \in Threads
             PROVE  OrderInv(t)' /\ DueInv(t)'
  OBVIOUS
<1>1. \A p \in Nat : \A s \in Slots : At(t, p, s)' <=> At(t, p, s)
  BY AtFrame DEF At
<1>2. \A s \in Coming(t) : Number(s)' = Number(s)
  BY DEF Number
<1>3. QED
  BY <1>1, <1>2, Still DEF WayInv

\* The same for the receive unit of a core, that is, up to what it is busy with.
LEMMA UnitStill ==
  ASSUME WayInv,
         UNCHANGED <<mcastBuffer, mcastState, mcastDests, mcastSlot, mcastDest, enqStage2,
                     ramFront, ramBack, ramData, scratchpad, arrived, got>>,
         \A t \in Threads : \A s \in Slots : AtUnit(t, s)' <=> AtUnit(t, s)
  PROVE  \A t \in Threads : OrderInv(t)' /\ DueInv(t)'
<1> SUFFICES ASSUME NEW t \in Threads
             PROVE  OrderInv(t)' /\ DueInv(t)'
  OBVIOUS
<1>1. \A p \in Nat : \A s \in Slots : At(t, p, s)' <=> At(t, p, s)
  BY AtFrame DEF At
<1>2. \A s \in Coming(t) : Number(s)' = Number(s)
  BY DEF Number
<1>3. QED
  BY <1>1, <1>2, Still DEF WayInv

-----------------------------------------------------------------------------
(* The receive unit                                                        *)

LEMMA WayServe0 ==
  ASSUME TypeOK, WayInv, NEW c \in Cores, Serve0(c)
  PROVE  \A t \in Threads : OrderInv(t)' /\ DueInv(t)'
<1>1. /\ serveState[c] = 0
      /\ serveState' = [serveState EXCEPT ![c] = IF Head(rxReq[c]).op = "Recv" THEN 1 ELSE 2]
      /\ UNCHANGED <<mcastBuffer, mcastState, mcastDests, mcastSlot, mcastDest, enqStage2,
                     ramFront, ramBack, ramData, rxReq, itemOut, recvResp,
                     scratchpad, arrived, got>>
  BY DEF Serve0, recvVars, mcastVars, queueVars
<1>2. /\ serveState'[c] = IF Head(rxReq[c]).op = "Recv" THEN 1 ELSE 2
      /\ \A d \in Cores : d # c => serveState'[d] = serveState[d]
  BY <1>1, TypeParts DEF ServeOK
<1>3. ASSUME NEW t \in Threads, NEW s \in Slots PROVE AtUnit(t, s)' <=> AtUnit(t, s)
  <2>1. CoreOf(t) \in Cores
    BY ThreadShape
  <2>2. CASE CoreOf(t) = c
    BY <1>1, <1>2, <2>2 DEF AtUnit, Serving
  <2>3. CASE CoreOf(t) # c
    BY <1>1, <1>2, <2>1, <2>3 DEF AtUnit, Serving
  <2>4. QED
    BY <2>2, <2>3
<1>4. QED
  BY <1>1, <1>3, UnitStill

LEMMA WayServe2 ==
  ASSUME TypeOK, WaitInv, WayInv, NEW c \in Cores, Serve2(c)
  PROVE  \A t \in Threads : OrderInv(t)' /\ DueInv(t)'
<1>1. serveState[c] = 2 /\ rxReq[c] # <<>>
  BY DEF Serve2, WaitInv, ServeInv
<1>2. Head(rxReq[c]) \in SleepStatus /\ itemOut[c] \in Slots /\ canDeq[c] \in BOOLEAN
  BY <1>1, TypeWait, QueueShape, TypeParts DEF ServeOK
<1>3. PICK st \in SleepStatus : st = Head(rxReq[c])
  BY <1>2
<1>4. PICK r : r = [status |-> [st EXCEPT !.canRecv = canDeq[c]], data |-> itemOut[c]]
  OBVIOUS
<1>5. r \in Answer /\ r.status.id = st.id /\ r.status.op = st.op /\ r.data = itemOut[c]
  BY <1>2, <1>4 DEF SleepStatus, Answer
<1>6. /\ recvResp' = [recvResp EXCEPT ![c] = Append(@, r)]
      /\ rxReq' = [rxReq EXCEPT ![c] = Tail(@)]
      /\ itemOut' = [itemOut EXCEPT ![c] = Stale]
      /\ serveState' = [serveState EXCEPT ![c] = 0]
      /\ UNCHANGED <<mcastBuffer, mcastState, mcastDests, mcastSlot, mcastDest, enqStage2,
                     ramFront, ramBack, ramData, scratchpad, arrived, got>>
  BY <1>3, <1>4 DEF Serve2, recvVars, mcastVars, queueVars
<1>7. /\ recvResp \in [Cores -> Seq(Answer)] /\ rxReq \in [Cores -> Seq(SleepStatus)]
      /\ itemOut \in [Cores -> Slots] /\ serveState \in [Cores -> 0 .. 2]
  BY TypeParts DEF ServeOK
<1>8. /\ recvResp'[c] = Append(recvResp[c], r) /\ serveState'[c] = 0
      /\ \A d \in Cores : d # c =>
           /\ recvResp'[d] = recvResp[d] /\ serveState'[d] = serveState[d]
           /\ rxReq'[d] = rxReq[d] /\ itemOut'[d] = itemOut[d]
  BY <1>6, <1>7
<1>9. Range(recvResp'[c]) = Range(recvResp[c]) \cup {r}
  BY <1>5, <1>7, <1>8, RangeAppend
<1>10. ASSUME NEW t \in Threads, NEW s \in Slots PROVE AtUnit(t, s)' <=> AtUnit(t, s)
  <2>1. CoreOf(t) \in Cores
    BY ThreadShape
  <2>2. CASE CoreOf(t) = c
    <3>1. r \in AnswersWith(t, s) <=> Serving(c, t) /\ itemOut[c] = s
      BY <1>1, <1>3, <1>5 DEF AnswersWith, Serving
    <3>2. ~ Serving(c, t)'
      BY <1>8 DEF Serving
    <3>3. (\E q \in Range(recvResp'[c]) : q \in AnswersWith(t, s))
            <=> (\E q \in Range(recvResp[c]) : q \in AnswersWith(t, s)) \/ r \in AnswersWith(t, s)
      BY <1>9
    <3>4. QED
      BY <2>2, <3>1, <3>2, <3>3 DEF AtUnit
  <2>3. CASE CoreOf(t) # c
    BY <1>8, <2>1, <2>3 DEF AtUnit, Serving
  <2>4. QED
    BY <2>2, <2>3
<1>11. QED
  BY <1>6, <1>10, UnitStill

\* An answer that carries no message is taken.
LEMMA AnswerTaken ==
  ASSUME TypeOK, WayInv, NEW c \in Cores, recvResp[c] # <<>>,
         Head(recvResp[c]).status.op # "Recv",
         recvResp' = [recvResp EXCEPT ![c] = Tail(@)],
         UNCHANGED <<mcastBuffer, mcastState, mcastDests, mcastSlot, mcastDest, enqStage2,
                     ramFront, ramBack, ramData, serveState, rxReq, itemOut,
                     scratchpad, arrived, got>>
  PROVE  \A t \in Threads : OrderInv(t)' /\ DueInv(t)'
<1>1. recvResp'[c] = Tail(recvResp[c]) /\ \A d \in Cores : d # c => recvResp'[d] = recvResp[d]
  BY TypeParts DEF ServeOK
<1>2. Range(recvResp[c]) = Range(recvResp'[c]) \cup {Head(recvResp[c])}
  BY <1>1, TypeWait, QueueShape
<1>3. ASSUME NEW t \in Threads, NEW s \in Slots PROVE AtUnit(t, s)' <=> AtUnit(t, s)
  <2>1. CoreOf(t) \in Cores
    BY ThreadShape
  <2>2. Head(recvResp[c]) \notin AnswersWith(t, s)
    BY DEF AnswersWith
  <2>3. CASE CoreOf(t) = c
    BY <1>2, <2>2, <2>3 DEF AtUnit, Serving
  <2>4. CASE CoreOf(t) # c
    BY <1>1, <2>1, <2>4 DEF AtUnit, Serving
  <2>5. QED
    BY <2>3, <2>4
<1>4. QED
  BY <1>3, UnitStill

LEMMA WayWakeup2 ==
  ASSUME TypeOK, WayInv, NEW c \in Cores, Wakeup2(c)
  PROVE  \A t \in Threads : OrderInv(t)' /\ DueInv(t)'
<1>1. /\ recvResp[c] # <<>> /\ Head(recvResp[c]).status.op = "WaitUntil"
      /\ recvResp' = [recvResp EXCEPT ![c] = Tail(@)]
      /\ UNCHANGED <<mcastBuffer, mcastState, mcastDests, mcastSlot, mcastDest, enqStage2,
                     ramFront, ramBack, ramData, serveState, rxReq, itemOut,
                     scratchpad, arrived, got>>
  BY DEF Wakeup2, recvVars, mcastVars, queueVars
<1>2. Head(recvResp[c]).status.op # "Recv"
  BY <1>1
<1>3. QED
  BY <1>1, <1>2, AnswerTaken

\* A request more does not change what the receive unit is busy with.
LEMMA WayWakeup1 ==
  ASSUME TypeOK, WaitInv, WayInv, NEW c \in Cores, Wakeup1(c)
  PROVE  \A t \in Threads : OrderInv(t)' /\ DueInv(t)'
<1>1. /\ \/ rxReq' = [rxReq EXCEPT ![c] = Append(@, Head(sleepQueue[c]))]
         \/ rxReq' = rxReq
      /\ sleepQueue[c] # <<>>
      /\ UNCHANGED <<mcastBuffer, mcastState, mcastDests, mcastSlot, mcastDest, enqStage2,
                     ramFront, ramBack, ramData, serveState, itemOut, recvResp,
                     scratchpad, arrived, got>>
  BY DEF Wakeup1, recvVars, mcastVars, queueVars
<1>2. rxReq \in [Cores -> Seq(SleepStatus)] /\ Head(sleepQueue[c]) \in SleepStatus
  BY <1>1, TypeWait, QueueShape, TypeParts DEF ServeOK
<1>3. ASSUME NEW d \in Cores, rxReq[d] # <<>> PROVE Head(rxReq'[d]) = Head(rxReq[d])
  <2>1. CASE rxReq' = rxReq
    BY <2>1
  <2>2. CASE rxReq' = [rxReq EXCEPT ![c] = Append(@, Head(sleepQueue[c]))]
    <3>1. rxReq'[d] = rxReq[d] \/ rxReq'[d] = Append(rxReq[d], Head(sleepQueue[c]))
      BY <1>2, <2>2
    <3>2. rxReq[d] \in Seq(SleepStatus)
      BY <1>2
    <3>3. Head(Append(rxReq[d], Head(sleepQueue[c]))) = Head(rxReq[d])
      BY <1>2, <1>3, <3>2
    <3>4. QED
      BY <3>1, <3>3
  <2>3. QED
    BY <1>1, <2>1, <2>2
<1>4. ASSUME NEW t \in Threads, NEW s \in Slots PROVE AtUnit(t, s)' <=> AtUnit(t, s)
  <2>1. CoreOf(t) \in Cores
    BY ThreadShape
  <2>2. serveState[CoreOf(t)] = 2 => rxReq[CoreOf(t)] # <<>>
    BY <2>1 DEF WaitInv, ServeInv
  <2>3. QED
    BY <1>1, <1>3, <2>1, <2>2 DEF AtUnit, Serving
<1>5. QED
  BY <1>1, <1>4, UnitStill

-----------------------------------------------------------------------------
(* The queues                                                              *)

\* The places of a queue, and of what is not in it.
LEMMA QueuePlaces ==
  ASSUME RamOK, NEW t \in Threads
  PROVE  /\ QueueSize \in Nat /\ QueueSize > 1
         /\ \A n : \A s \in Slots : AtQueue(t, n, s) =>
              n \in 0 .. QueueSize - 2 /\ n < (ramBack[t] - ramFront[t]) % QueueSize
         /\ (ramBack[t] - ramFront[t]) % QueueSize \in 0 .. QueueSize - 1
         /\ \A n : \A s \in Slots : AtBuffer(t, n, s) => n \in Nat \ {0}
<1>1. QueueSize \in Nat /\ QueueSize > 1
  BY MailboxAssumption
<1>2. ramFront[t] \in 0 .. QueueSize - 1 /\ ramBack[t] \in 0 .. QueueSize - 1
  BY DEF RamOK
<1>3. \A i \in 0 .. QueueSize - 1 : (i - ramFront[t]) % QueueSize \in 0 .. QueueSize - 1
  BY <1>1, <1>2
<1>4. ASSUME NEW n, NEW s \in Slots, AtQueue(t, n, s)
      PROVE  n \in 0 .. QueueSize - 2 /\ n < (ramBack[t] - ramFront[t]) % QueueSize
  <2> DEFINE z == (ramBack[t] - ramFront[t]) % QueueSize
  <2>1. PICK i \in Queued(t) : n = (i - ramFront[t]) % QueueSize
    BY <1>4 DEF AtQueue
  <2>2. n < z /\ n \in 0 .. QueueSize - 1
    BY <1>3, <2>1 DEF Queued
  <2>3. z \in 0 .. QueueSize - 1
    BY <1>2, <1>3
  <2> HIDE DEF z
  <2>4. n \in 0 .. QueueSize - 2 /\ n < z
    BY <1>1, <2>2, <2>3
  <2>5. QED
    BY <2>4 DEF z
<1>5. (ramBack[t] - ramFront[t]) % QueueSize \in 0 .. QueueSize - 1
  BY <1>2, <1>3
<1>6. ASSUME NEW n, NEW s \in Slots, AtBuffer(t, n, s) PROVE n \in Nat \ {0}
  <2>1. n \in 1 .. Len(mcastBuffer[CoreOf(t)])
    BY <1>6 DEF AtBuffer
  <2>2. QED
    BY <2>1
<1>7. QED
  BY <1>1, <1>4, <1>5, <1>6

LEMMA AllQueuePlaces ==
  RamOK => \A t \in Threads :
    /\ \A n : \A s \in Slots : AtQueue(t, n, s) =>
         n \in 0 .. QueueSize - 2 /\ n < (ramBack[t] - ramFront[t]) % QueueSize
    /\ (ramBack[t] - ramFront[t]) % QueueSize \in 0 .. QueueSize - 1
    /\ \A n : \A s \in Slots : AtBuffer(t, n, s) => n \in Nat \ {0}
BY QueuePlaces

LEMMA QueuePlacesNext ==
  RamOK' => (\A t \in Threads :
    /\ \A n : \A s \in Slots : AtQueue(t, n, s) =>
         n \in 0 .. QueueSize - 2 /\ n < (ramBack[t] - ramFront[t]) % QueueSize
    /\ (ramBack[t] - ramFront[t]) % QueueSize \in 0 .. QueueSize - 1
    /\ \A n : \A s \in Slots : AtBuffer(t, n, s) => n \in Nat \ {0})'
BY AllQueuePlaces, PTL

\* What an item that enters or leaves the queue of t changes.
LEMMA AtPush ==
  ASSUME RamOK, NEW t \in Threads, NEW v \in Slots,
         Inc(ramBack[t]) # ramFront[t], ramFront'[t] = ramFront[t],
         ramBack'[t] = Inc(ramBack[t]), ramData'[t][ramBack[t]] = v,
         \A i \in 0 .. QueueSize - 1 : i # ramBack[t] => ramData'[t][i] = ramData[t][i]
  PROVE  \A n : \A s \in Slots :
           AtQueue(t, n, s)' <=> AtQueue(t, n, s)
                  \/ (n = (ramBack[t] - ramFront[t]) % QueueSize /\ s = v)
<1>1. Queued(t)' = Queued(t) \cup {ramBack[t]} /\ ramBack[t] \notin Queued(t)
  BY QueuedPush
<1>2. Queued(t) \subseteq 0 .. QueueSize - 1
  BY DEF Queued
<1>3. \A i \in Queued(t) : ramData'[t][i] = ramData[t][i]
  BY <1>1, <1>2
<1>4. ASSUME NEW n, NEW s \in Slots
      PROVE  AtQueue(t, n, s)' <=> AtQueue(t, n, s)
                    \/ (n = (ramBack[t] - ramFront[t]) % QueueSize /\ s = v)
  <2> DEFINE place(i) == (i - ramFront[t]) % QueueSize
  <2>1. AtQueue(t, n, s)' <=> \E i \in Queued(t)' : n = place(i) /\ ramData'[t][i] = s
    BY DEF AtQueue
  <2>2. AtQueue(t, n, s) <=> \E i \in Queued(t) : n = place(i) /\ ramData[t][i] = s
    BY DEF AtQueue
  <2> HIDE DEF place
  <2>3. ASSUME NEW i \in Queued(t)'
        PROVE  \/ i \in Queued(t) /\ ramData'[t][i] = ramData[t][i]
               \/ i = ramBack[t] /\ ramData'[t][i] = v
    BY <1>1, <1>3
  <2>4. AtQueue(t, n, s)' => AtQueue(t, n, s) \/ (n = place(ramBack[t]) /\ s = v)
    <3>1. SUFFICES ASSUME NEW i \in Queued(t)', n = place(i), ramData'[t][i] = s
                   PROVE  AtQueue(t, n, s) \/ (n = place(ramBack[t]) /\ s = v)
      BY <2>1
    <3>2. CASE i \in Queued(t) /\ ramData'[t][i] = ramData[t][i]
      BY <2>2, <3>1, <3>2
    <3>3. CASE i = ramBack[t] /\ ramData'[t][i] = v
      BY <3>1, <3>3
    <3>4. QED
      BY <2>3, <3>2, <3>3
  <2>5. AtQueue(t, n, s) => AtQueue(t, n, s)'
    BY <1>1, <1>3, <2>1, <2>2
  <2>6. n = place(ramBack[t]) /\ s = v => AtQueue(t, n, s)'
    BY <1>1, <2>1
  <2>7. QED
    BY <2>4, <2>5, <2>6 DEF place
<1>5. QED
  BY <1>4

LEMMA AtPop ==
  ASSUME RamOK, NEW t \in Threads, Nonempty(t), ramBack'[t] = ramBack[t],
         ramFront'[t] = Inc(ramFront[t]),
         \A i \in 0 .. QueueSize - 1 : i # ramFront[t] => ramData'[t][i] = ramData[t][i]
  PROVE  /\ AtQueue(t, 0, ramData[t][ramFront[t]])
         /\ \A n \in Int : \A s \in Slots : AtQueue(t, n, s)' => AtQueue(t, n + 1, s)
         /\ \A n \in Int : \A s \in Slots :
              AtQueue(t, n, s) => AtQueue(t, n - 1, s)' \/ s = ramData[t][ramFront[t]]
<1>1. /\ Queued(t) = Queued(t)' \cup {ramFront[t]} /\ ramFront[t] \notin Queued(t)'
      /\ (ramFront[t] - ramFront[t]) % QueueSize = 0
      /\ \A i \in Queued(t)' :
           (i - ramFront'[t]) % QueueSize = ((i - ramFront[t]) % QueueSize) - 1
  BY QueuedPop
<1>2. Queued(t) \subseteq 0 .. QueueSize - 1
  BY DEF Queued
<1>3. \A i \in Queued(t)' : ramData'[t][i] = ramData[t][i]
  BY <1>1, <1>2
<1>4. AtQueue(t, 0, ramData[t][ramFront[t]])
  BY <1>1 DEF AtQueue
<1>5. \A i \in Queued(t) : (i - ramFront[t]) % QueueSize \in Int
  <2>1. \A i \in 0 .. QueueSize - 1 : (i - ramFront[t]) % QueueSize \in Int
    BY MailboxAssumption DEF RamOK
  <2>2. QED
    BY <1>2, <2>1
<1>6. ASSUME NEW n \in Int, NEW s \in Slots, AtQueue(t, n, s)'
      PROVE  AtQueue(t, n + 1, s)
  <2>1. PICK i \in Queued(t)' : n = (i - ramFront'[t]) % QueueSize /\ ramData'[t][i] = s
    BY <1>6 DEF AtQueue
  <2>2. i \in Queued(t) /\ ramData[t][i] = s /\ n = ((i - ramFront[t]) % QueueSize) - 1
    BY <1>1, <1>3, <2>1
  <2>3. n + 1 = (i - ramFront[t]) % QueueSize
    BY <1>5, <2>2
  <2>4. QED
    BY <2>2, <2>3 DEF AtQueue
<1>7. ASSUME NEW n \in Int, NEW s \in Slots, AtQueue(t, n, s), s # ramData[t][ramFront[t]]
      PROVE  AtQueue(t, n - 1, s)'
  <2>1. PICK i \in Queued(t) : n = (i - ramFront[t]) % QueueSize /\ ramData[t][i] = s
    BY <1>7 DEF AtQueue
  <2>2. i \in Queued(t)'
    BY <1>1, <1>7, <2>1
  <2>3. n - 1 = (i - ramFront'[t]) % QueueSize /\ ramData'[t][i] = s
    BY <1>1, <1>3, <2>1, <2>2
  <2>4. QED
    BY <2>2, <2>3 DEF AtQueue
<1>8. QED
  BY <1>4, <1>6, <1>7

\* The receive unit takes the first item of the queue.
LEMMA WayServe1 ==
  ASSUME TypeOK, TypeOK', WaitInv, WayInv, NEW c \in Cores, Serve1(c)
  PROVE  \A t \in Threads : OrderInv(t)' /\ DueInv(t)'
<1>1. serveState[c] = 1 /\ rxReq[c] # <<>> /\ Head(rxReq[c]).op = "Recv"
  BY DEF Serve1, WaitInv, ServeInv
<1>2. Head(rxReq[c]) \in Range(rxReq[c]) /\ Head(rxReq[c]).id \in Threads
  BY <1>1, TypeWait, QueueShape
<1>3. PICK u \in Threads : u = Head(rxReq[c]).id
  BY <1>2
<1>4. CoreOf(u) = c
  BY <1>2, <1>3 DEF WaitInv, AskInv
<1>5. Nonempty(u)
  BY <1>1, <1>3, TypeWait, AskedThenNonempty
<1>6. PICK v \in Slots : v = ramData[u][ramFront[u]]
  BY TypeParts DEF RamOK
<1>7. /\ itemOut' = [itemOut EXCEPT ![c] = v]
      /\ ramData' = [ramData EXCEPT ![u][ramFront[u]] = Stale]
      /\ ramFront' = [ramFront EXCEPT ![u] = Inc(ramFront[u])]
      /\ ramBack' = ramBack
      /\ serveState' = [serveState EXCEPT ![c] = 2]
      /\ UNCHANGED <<mcastBuffer, mcastState, mcastDests, mcastSlot, mcastDest, enqStage2,
                     rxReq, recvResp, scratchpad, arrived, got>>
  BY <1>3, <1>6 DEF Serve1, recvVars, mcastVars
<1>8. /\ itemOut'[c] = v /\ serveState'[c] = 2
      /\ \A d \in Cores : d # c => itemOut'[d] = itemOut[d] /\ serveState'[d] = serveState[d]
  BY <1>7, TypeParts DEF ServeOK
<1>9. RamOK /\ RamOK'
  BY DEF TypeOK, RamOK
<1>10. /\ ramFront'[u] = Inc(ramFront[u]) /\ ramBack'[u] = ramBack[u]
       /\ \A i \in 0 .. QueueSize - 1 : i # ramFront[u] => ramData'[u][i] = ramData[u][i]
       /\ \A t \in Threads \ {u} :
            ramFront'[t] = ramFront[t] /\ ramBack'[t] = ramBack[t] /\ ramData'[t] = ramData[t]
  BY <1>7, <1>9 DEF RamOK
<1>11. ASSUME NEW t \in Threads, t # u PROVE OrderInv(t)' /\ DueInv(t)'
  <2>1. CoreOf(t) \in Cores
    BY ThreadShape
  <2>2. \A s \in Slots : AtUnit(t, s)' <=> AtUnit(t, s)
    <3>1. CASE CoreOf(t) = c
      BY <1>1, <1>3, <1>7, <1>11, <3>1 DEF AtUnit, Serving
    <3>2. CASE CoreOf(t) # c
      BY <1>7, <1>8, <2>1, <3>2 DEF AtUnit, Serving
    <3>3. QED
      BY <3>1, <3>2
  <2>3. \A n : \A s \in Slots : AtQueue(t, n, s)' <=> AtQueue(t, n, s)
    BY <1>10, <1>11 DEF AtQueue, Queued
  <2>4. \A p \in Nat : \A s \in Slots : At(t, p, s)' <=> At(t, p, s)
    BY <1>7, <2>2, <2>3, AtFrame DEF At
  <2>5. \A s \in Coming(t) : Number(s)' = Number(s)
    BY <1>7 DEF Number
  <2>6. QED
    BY <1>7, <2>4, <2>5, Still DEF WayInv
<1>12. OrderInv(u)' /\ DueInv(u)'
  <2> DEFINE Q == QueueSize
             f == [p \in Nat |-> IF p < Q - 1 THEN p + 1 ELSE p]
  <2>1. Q \in Nat /\ Q > 1
    BY <1>9, QueuePlaces
  <2>2. \A p \in Nat : f[p] \in Nat /\ f[p] = IF p < Q - 1 THEN p + 1 ELSE p
    BY <2>1
  <2> HIDE DEF f
  <2>3. \A s \in Slots : ~ AtUnit(u, s)
    <3>1. \A r \in Range(recvResp[c]) : r.status.id # u
      BY <1>1, <1>3, <1>4, TypeWait, Alone DEF WaitInv
    <3>2. QED
      BY <1>1, <1>4, <3>1 DEF AtUnit, Serving, AnswersWith
  <2>4. \A s \in Slots : AtUnit(u, s)' <=> s = v
    <3>1. \A s \in Slots : ~ \E r \in Range(recvResp[c]) : r \in AnswersWith(u, s)
      BY <1>4, <2>3 DEF AtUnit
    <3>2. \A s \in Slots : AtUnit(u, s)' <=>
            (Serving(c, u)' /\ itemOut'[c] = s) \/ \E r \in Range(recvResp[c]) : r \in AnswersWith(u, s)
      BY <1>4, <1>7 DEF AtUnit
    <3>3. Serving(c, u)'
      BY <1>1, <1>3, <1>7, <1>8 DEF Serving
    <3>4. QED
      BY <1>8, <3>1, <3>2, <3>3
  <2>5. /\ AtQueue(u, 0, v)
        /\ \A n \in Int : \A s \in Slots : AtQueue(u, n, s)' => AtQueue(u, n + 1, s)
        /\ \A n \in Int : \A s \in Slots : AtQueue(u, n, s) => AtQueue(u, n - 1, s)' \/ s = v
    BY <1>5, <1>6, <1>9, <1>10, AtPop
  <2>6. \A n : \A s \in Slots :
          /\ AtEnq(u, s)' <=> AtEnq(u, s)
          /\ AtMcast(u, s)' <=> AtMcast(u, s)
          /\ AtBuffer(u, n, s)' <=> AtBuffer(u, n, s)
    BY <1>7, AtFrame
  <2>7. \A n : \A s \in Slots :
          /\ AtQueue(u, n, s) => n \in 0 .. Q - 2
          /\ AtQueue(u, n, s)' => n \in 0 .. Q - 2
          /\ AtBuffer(u, n, s) => n \in Nat \ {0}
    BY <1>9, QueuePlaces, QueuePlacesNext
  <2> HIDE DEF Q
  <2>8. ASSUME NEW p \in Nat, NEW s \in Slots, At(u, p, s)'
        PROVE  At(u, f[p], s) /\ (p < Q - 1 \/ p >= Q)
    <3>1. CASE p = 0 /\ AtUnit(u, s)'
      BY <2>1, <2>2, <2>4, <2>5, <3>1 DEF At
    <3>2. CASE AtQueue(u, p - 1, s)'
      <4>1. AtQueue(u, p, s)
        <5>1. AtQueue(u, (p - 1) + 1, s) /\ (p - 1) + 1 = p
          BY <2>5, <3>2
        <5>2. QED
          BY <5>1
      <4>2. p < Q - 1 /\ f[p] = p + 1 /\ (p + 1) - 1 = p
        BY <2>1, <2>2, <2>7, <4>1
      <4>3. QED
        BY <4>1, <4>2 DEF At
    <3>3. CASE p >= Q /\ At(u, p, s)
      BY <2>1, <2>2, <3>3
    <3>4. At(u, p, s)' => \/ p = 0 /\ AtUnit(u, s)'
                          \/ AtQueue(u, p - 1, s)'
                          \/ p = QueueSize /\ AtEnq(u, s)
                          \/ p = QueueSize + 1 /\ AtMcast(u, s)
                          \/ AtBuffer(u, p - QueueSize - 1, s)
      BY <2>6 DEF At
    <3>5. AtBuffer(u, p - QueueSize - 1, s) => p >= Q
      BY <2>1, <2>7 DEF Q
    <3>6. QED
      BY <2>1, <2>8, <3>1, <3>2, <3>3, <3>4, <3>5 DEF At, Q
  <2>9. ASSUME NEW p \in Nat, NEW s \in Slots, At(u, p, s)
        PROVE  \E q \in Nat : At(u, q, s)'
    <3>1. CASE AtQueue(u, p - 1, s)
      <4>1. s = v => At(u, 0, s)'
        BY <2>4 DEF At
      <4>2. s # v => AtQueue(u, (p - 1) - 1, s)'
        BY <2>5, <3>1
      <4>3. s # v => p - 1 \in Nat /\ At(u, p - 1, s)'
        BY <2>7, <3>1, <4>2 DEF At
      <4>4. QED
        BY <4>1, <4>3
    <3>2. CASE ~ AtQueue(u, p - 1, s)
      <4>1. At(u, p, s)'
        BY <2>3, <2>6, <2>9, <3>2 DEF At
      <4>2. QED
        BY <4>1
    <3>3. QED
      BY <3>1, <3>2
  <2>10. ASSUME NEW p \in Nat, NEW q \in Nat, NEW r \in Slots, NEW s \in Slots,
                p < q, At(u, p, r)', At(u, q, s)'
         PROVE  f[p] < f[q]
    <3>1. (p < Q - 1 \/ p >= Q) /\ (q < Q - 1 \/ q >= Q)
      BY <2>8, <2>10
    <3>2. QED
      BY <2>1, <2>2, <2>10, <3>1
  <2>11. \A s : Number(s)' = Number(s)
    BY <1>7 DEF Number
  <2>12. QED
    BY <1>7, <2>2, <2>8, <2>9, <2>10, <2>11, Moved DEF WayInv
<1>13. QED
  BY <1>11, <1>12

-----------------------------------------------------------------------------
(* The multicast unit                                                      *)

\* An item enters the queue.
LEMMA WayEnqStage2 ==
  ASSUME TypeOK, TypeOK', McastInv, WayInv, NEW c \in Cores, EnqStage2(c)
  PROVE  \A t \in Threads : OrderInv(t)' /\ DueInv(t)'
<1>1. enqStage2[c] # <<>> /\ enqStage2 \in [Cores -> {<<>>} \cup (Threads \X Slots)]
  BY TypeParts DEF EnqOK, EnqStage2
<1>2. PICK u \in Threads, v \in Slots : enqStage2[c] = <<u, v>>
  BY <1>1
<1>3. CoreOf(u) = c
  BY <1>1, <1>2 DEF McastInv, ThreadsOn
<1>4. /\ ~ Full(u)
      /\ ramData' = [ramData EXCEPT ![u][ramBack[u]] = v]
      /\ ramBack' = [ramBack EXCEPT ![u] = Inc(ramBack[u])]
      /\ ramFront' = ramFront
      /\ enqStage2' = [enqStage2 EXCEPT ![c] = <<>>]
      /\ UNCHANGED <<mcastBuffer, mcastState, mcastDests, mcastSlot, mcastDest, serveState,
                     rxReq, itemOut, recvResp, scratchpad, arrived, got>>
  BY <1>2 DEF EnqStage2, recvVars, mcastVars, serveVars
<1>5. /\ enqStage2'[c] = <<>>
      /\ \A d \in Cores : d # c => enqStage2'[d] = enqStage2[d]
  BY <1>1, <1>4
<1>6. RamOK /\ RamOK'
  BY DEF TypeOK, RamOK
<1>7. /\ ramFront'[u] = ramFront[u] /\ ramBack'[u] = Inc(ramBack[u])
      /\ ramData'[u][ramBack[u]] = v
      /\ \A i \in 0 .. QueueSize - 1 : i # ramBack[u] => ramData'[u][i] = ramData[u][i]
      /\ \A t \in Threads \ {u} :
           ramFront'[t] = ramFront[t] /\ ramBack'[t] = ramBack[t] /\ ramData'[t] = ramData[t]
  BY <1>4, <1>6 DEF RamOK
<1>8. ASSUME NEW t \in Threads, t # u PROVE OrderInv(t)' /\ DueInv(t)'
  <2>1. CoreOf(t) \in Cores
    BY ThreadShape
  <2>2. \A s \in Slots : AtEnq(t, s)' <=> AtEnq(t, s)
    BY <1>2, <1>5, <1>8, <2>1 DEF AtEnq
  <2>3. \A n : \A s \in Slots : AtQueue(t, n, s)' <=> AtQueue(t, n, s)
    BY <1>7, <1>8 DEF AtQueue, Queued
  <2>4. \A p \in Nat : \A s \in Slots : At(t, p, s)' <=> At(t, p, s)
    BY <1>4, <2>2, <2>3, AtFrame DEF At
  <2>5. \A s \in Coming(t) : Number(s)' = Number(s)
    BY <1>4 DEF Number
  <2>6. QED
    BY <1>4, <2>4, <2>5, Still DEF WayInv
<1>9. OrderInv(u)' /\ DueInv(u)'
  <2> DEFINE Q == QueueSize
  <2>0. PICK n \in Nat : n = (ramBack[u] - ramFront[u]) % QueueSize
    BY <1>6, QueuePlaces
  <2> DEFINE f == [p \in Nat |-> IF p = n + 1 THEN Q ELSE p]
  <2>1. Q \in Nat /\ Q > 1 /\ n \in Nat
    BY <1>6, QueuePlaces
  <2>2. \A k : \A s \in Slots : AtQueue(u, k, s)' <=> AtQueue(u, k, s) \/ (k = n /\ s = v)
    BY <1>4, <1>6, <1>7, <2>0, AtPush DEF Full
  <2>3. n \in 0 .. Q - 2
    <3>1. AtQueue(u, n, v)'
      BY <2>2
    <3>2. QED
      BY <1>6, <3>1, QueuePlacesNext
  <2>4. \A k : \A s \in Slots : AtQueue(u, k, s) => k \in 0 .. Q - 2 /\ k < n
    BY <1>6, <2>0, QueuePlaces
  <2>5. \A k : \A s \in Slots : AtBuffer(u, k, s) => k \in Nat \ {0}
    BY <1>6, QueuePlaces
  <2>6. \A k : \A s \in Slots :
          /\ AtUnit(u, s)' <=> AtUnit(u, s)
          /\ AtMcast(u, s)' <=> AtMcast(u, s)
          /\ AtBuffer(u, k, s)' <=> AtBuffer(u, k, s)
    BY <1>4, AtFrame
  <2>7. \A s \in Slots : (AtEnq(u, s) <=> s = v) /\ ~ AtEnq(u, s)'
    BY <1>2, <1>3, <1>5 DEF AtEnq
  <2>8. \A p \in Nat : f[p] \in Nat /\ f[p] = IF p = n + 1 THEN Q ELSE p
    BY <2>1
  <2> HIDE DEF f, Q
  <2>9. ASSUME NEW p \in Nat, NEW s \in Slots, At(u, p, s)'
        PROVE  At(u, f[p], s) /\ (p <= n + 1 \/ p > Q)
    <3>1. CASE AtQueue(u, p - 1, s)'
      <4>1. CASE AtQueue(u, p - 1, s)
        <5>1. f[p] = p /\ p <= n + 1
          BY <2>1, <2>4, <2>8, <4>1
        <5>2. QED
          BY <4>1, <5>1 DEF At
      <4>2. CASE p - 1 = n /\ s = v
        <5>1. f[p] = QueueSize /\ p <= n + 1
          BY <2>1, <2>8, <4>2 DEF Q
        <5>2. QED
          BY <2>7, <4>2, <5>1 DEF At
      <4>3. QED
        BY <2>2, <3>1, <4>1, <4>2
    <3>2. CASE p = 0 /\ AtUnit(u, s)'
      <4>1. f[p] = p /\ p <= n + 1
        BY <2>1, <2>8, <3>2
      <4>2. QED
        BY <2>6, <3>2, <4>1 DEF At
    <3>3. CASE p = QueueSize + 1 /\ AtMcast(u, s)'
      <4>1. f[p] = p /\ p > Q
        BY <2>1, <2>3, <2>8, <3>3 DEF Q
      <4>2. QED
        BY <2>6, <3>3, <4>1 DEF At
    <3>4. CASE AtBuffer(u, p - QueueSize - 1, s)'
      <4>1. p - QueueSize - 1 \in Nat \ {0}
        BY <2>5, <2>6, <3>4
      <4>2. f[p] = p /\ p > Q
        BY <2>1, <2>3, <2>8, <4>1 DEF Q
      <4>3. QED
        BY <2>6, <3>4, <4>2 DEF At
    <3>5. QED
      BY <2>7, <2>9, <3>1, <3>2, <3>3, <3>4 DEF At
  <2>10. ASSUME NEW p \in Nat, NEW s \in Slots, At(u, p, s)
         PROVE  \E q \in Nat : At(u, q, s)'
    <3>1. CASE AtEnq(u, s)
      <4>1. AtQueue(u, n, s)' /\ (n + 1) - 1 = n /\ n + 1 \in Nat
        BY <2>1, <2>2, <2>7, <3>1
      <4>2. At(u, n + 1, s)'
        BY <4>1 DEF At
      <4>3. QED
        BY <4>1, <4>2
    <3>2. CASE ~ AtEnq(u, s)
      <4>1. At(u, p, s)'
        BY <2>2, <2>6, <2>10, <3>2 DEF At
      <4>2. QED
        BY <4>1
    <3>3. QED
      BY <3>1, <3>2
  <2>11. ASSUME NEW p \in Nat, NEW q \in Nat, NEW r \in Slots, NEW s \in Slots,
                p < q, At(u, p, r)', At(u, q, s)'
         PROVE  f[p] < f[q]
    <3>1. (p <= n + 1 \/ p > Q) /\ (q <= n + 1 \/ q > Q)
      BY <2>9, <2>11
    <3>2. QED
      BY <2>1, <2>3, <2>8, <2>11, <3>1
  <2>12. \A s : Number(s)' = Number(s)
    BY <1>4 DEF Number
  <2>13. QED
    BY <1>4, <2>8, <2>9, <2>10, <2>11, <2>12, Moved DEF WayInv
<1>10. QED
  BY <1>8, <1>9

\* An entry of the buffer begins to be served.
LEMMA WayMcast0 ==
  ASSUME TypeOK, TypeOK', WayInv, NEW c \in Cores, Mcast0(c)
  PROVE  \A t \in Threads : OrderInv(t)' /\ DueInv(t)'
<1>1. /\ mcastState[c] = 0 /\ mcastBuffer[c] # <<>>
      /\ mcastBuffer' = [mcastBuffer EXCEPT ![c] = Tail(@)]
      /\ mcastDests' = [mcastDests EXCEPT ![c] = Head(mcastBuffer[c]).dests]
      /\ mcastSlot' = [mcastSlot EXCEPT ![c] = Head(mcastBuffer[c]).slot]
      /\ mcastState' = [mcastState EXCEPT ![c] = 1]
      /\ UNCHANGED <<mcastDest, enqStage2, ramFront, ramBack, ramData, serveState, rxReq,
                     itemOut, recvResp, scratchpad, arrived, got>>
  BY DEF Mcast0, recvVars, queueVars, serveVars
<1>2. /\ mcastBuffer \in [Cores -> Seq(Entry)] /\ mcastDests \in [Cores -> SUBSET Threads]
      /\ mcastSlot \in [Cores -> Slots] /\ mcastState \in [Cores -> 0 .. 2]
  BY TypeParts DEF McastOK
<1>3. PICK m \in Entry : m = Head(mcastBuffer[c])
  BY <1>1, <1>2, RangeTail
<1>4. /\ mcastBuffer'[c] = Tail(mcastBuffer[c]) /\ mcastDests'[c] = m.dests
      /\ mcastSlot'[c] = m.slot /\ mcastState'[c] = 1
      /\ \A d \in Cores : d # c =>
           /\ mcastBuffer'[d] = mcastBuffer[d] /\ mcastDests'[d] = mcastDests[d]
           /\ mcastSlot'[d] = mcastSlot[d] /\ mcastState'[d] = mcastState[d]
  BY <1>1, <1>2, <1>3
<1>5. /\ Len(mcastBuffer[c]) \in Nat \ {0} /\ Len(mcastBuffer'[c]) = Len(mcastBuffer[c]) - 1
      /\ mcastBuffer[c][1] = m
      /\ \A i \in 1 .. Len(mcastBuffer[c]) - 1 : mcastBuffer'[c][i] = mcastBuffer[c][i + 1]
  <2>1. mcastBuffer[c] \in Seq(Entry) /\ mcastBuffer[c] # <<>>
    BY <1>1, <1>2
  <2>2. QED
    BY <1>3, <1>4, <2>1, HeadTailProperties
<1>6. RamOK /\ RamOK'
  BY DEF TypeOK, RamOK
<1>7. ASSUME NEW t \in Threads, CoreOf(t) # c PROVE OrderInv(t)' /\ DueInv(t)'
  <2>1. CoreOf(t) \in Cores
    BY ThreadShape
  <2>2. \A n : \A s \in Slots :
          (AtMcast(t, s)' <=> AtMcast(t, s)) /\ (AtBuffer(t, n, s)' <=> AtBuffer(t, n, s))
    BY <1>1, <1>4, <1>7, <2>1 DEF AtMcast, AtBuffer
  <2>3. \A p \in Nat : \A s \in Slots : At(t, p, s)' <=> At(t, p, s)
    BY <1>1, <2>2, AtFrame DEF At
  <2>4. \A s \in Coming(t) : Number(s)' = Number(s)
    BY <1>1 DEF Number
  <2>5. QED
    BY <1>1, <2>3, <2>4, Still DEF WayInv
<1>8. ASSUME NEW t \in Threads, CoreOf(t) = c PROVE OrderInv(t)' /\ DueInv(t)'
  <2> DEFINE Q == QueueSize
             f == [p \in Nat |-> IF p <= Q THEN p ELSE p + 1]
  <2>1. Q \in Nat /\ Q > 1
    BY <1>6, QueuePlaces
  <2>2. \A p \in Nat : f[p] \in Nat /\ f[p] = IF p <= Q THEN p ELSE p + 1
    BY <2>1
  <2> HIDE DEF f
  <2>3. \A s \in Slots : ~ AtMcast(t, s)
    BY <1>1, <1>8 DEF AtMcast
  <2>4. \A s \in Slots : AtMcast(t, s)' <=> AtBuffer(t, 1, s)
    BY <1>4, <1>5, <1>8 DEF AtMcast, AtBuffer, EntriesFor
  <2>5. \A n \in Int : \A s \in Slots : n # 0 => (AtBuffer(t, n, s)' <=> AtBuffer(t, n + 1, s))
    BY <1>5, <1>8 DEF AtBuffer
  <2>6. \A n : \A s \in Slots :
          /\ AtUnit(t, s)' <=> AtUnit(t, s)
          /\ AtQueue(t, n, s)' <=> AtQueue(t, n, s)
          /\ AtEnq(t, s)' <=> AtEnq(t, s)
    BY <1>1, AtFrame
  <2>7. \A n : \A s \in Slots :
          /\ AtQueue(t, n, s) => n \in 0 .. Q - 2
          /\ AtBuffer(t, n, s) => n \in Nat \ {0}
          /\ AtBuffer(t, n, s)' => n \in Nat \ {0}
    BY <1>6, QueuePlaces, QueuePlacesNext
  <2>8. ASSUME NEW p \in Nat, NEW s \in Slots, At(t, p, s)'
        PROVE  At(t, f[p], s)
    <3>1. CASE \/ p = 0 /\ AtUnit(t, s)
               \/ AtQueue(t, p - 1, s)
               \/ p = QueueSize /\ AtEnq(t, s)
      <4>1. p <= Q
        BY <2>1, <2>7, <3>1
      <4>2. f[p] = p
        BY <2>2, <4>1
      <4>3. QED
        BY <3>1, <4>2 DEF At
    <3>2. CASE p = QueueSize + 1 /\ AtBuffer(t, 1, s)
      <4>1. f[p] - QueueSize - 1 = 1
        BY <2>1, <2>2, <3>2
      <4>2. QED
        BY <3>2, <4>1 DEF At
    <3>3. CASE AtBuffer(t, p - QueueSize - 1, s)'
      <4>1. p - QueueSize - 1 \in Nat \ {0}
        BY <2>7, <3>3
      <4>2. PICK k \in Int : k = p - QueueSize - 1 /\ k # 0
        BY <2>1, <4>1
      <4>3. AtBuffer(t, k + 1, s)
        BY <2>5, <3>3, <4>2
      <4>4. f[p] - QueueSize - 1 = k + 1
        BY <2>1, <2>2, <4>1, <4>2
      <4>5. QED
        BY <4>3, <4>4 DEF At
    <3>4. QED
      BY <2>4, <2>6, <2>8, <3>1, <3>2, <3>3 DEF At
  <2>9. ASSUME NEW p \in Nat, NEW s \in Slots, At(t, p, s)
        PROVE  \E q \in Nat : At(t, q, s)'
    <3>1. CASE AtBuffer(t, p - QueueSize - 1, s)
      <4>1. p - QueueSize - 1 \in Nat \ {0}
        BY <2>7, <3>1
      <4>2. CASE p - QueueSize - 1 = 1
        <5>1. At(t, QueueSize + 1, s)' /\ QueueSize + 1 \in Nat
          BY <2>1, <2>4, <3>1, <4>2 DEF At
        <5>2. QED
          BY <5>1
      <4>3. CASE p - QueueSize - 1 # 1
        <5>1. p - 1 \in Nat /\ (p - 1) - QueueSize - 1 \in Int \ {0}
              /\ ((p - 1) - QueueSize - 1) + 1 = p - QueueSize - 1
          BY <2>1, <4>1, <4>3
        <5>2. AtBuffer(t, (p - 1) - QueueSize - 1, s)'
          BY <2>5, <3>1, <5>1
        <5>3. QED
          BY <5>1, <5>2 DEF At
      <4>4. QED
        BY <4>2, <4>3
    <3>2. CASE ~ AtBuffer(t, p - QueueSize - 1, s)
      <4>1. At(t, p, s)'
        BY <2>3, <2>6, <2>9, <3>2 DEF At
      <4>2. QED
        BY <4>1
    <3>3. QED
      BY <3>1, <3>2
  <2>10. \A p, q \in Nat : p < q => f[p] < f[q]
    BY <2>1, <2>2
  <2>11. \A s : Number(s)' = Number(s)
    BY <1>1 DEF Number
  <2>12. QED
    BY <1>1, <2>2, <2>8, <2>9, <2>10, <2>11, Moved DEF WayInv
<1>9. QED
  BY <1>7, <1>8

\* The next thread of an entry is chosen.
LEMMA WayMcast1 ==
  ASSUME TypeOK, McastInv, WayInv, NEW c \in Cores, Mcast1(c)
  PROVE  \A t \in Threads : OrderInv(t)' /\ DueInv(t)'
<1>1. PICK u : u = FirstHot(mcastDests[c])
  OBVIOUS
<1>2. /\ mcastDests[c] \subseteq Threads /\ mcastState[c] = 1 /\ mcastDests[c] # {}
      /\ mcastDests \in [Cores -> SUBSET Threads] /\ mcastState \in [Cores -> 0 .. 2]
      /\ mcastDest \in [Cores -> Threads]
  BY TypeParts DEF McastOK, McastInv, Mcast1
<1>3. u \in mcastDests[c]
  BY <1>1, <1>2, FirstHotType
<1>4. /\ mcastDest' = [mcastDest EXCEPT ![c] = u]
      /\ mcastDests' = [mcastDests EXCEPT ![c] = mcastDests[c] \ {u}]
      /\ mcastState' = [mcastState EXCEPT ![c] = 2]
      /\ UNCHANGED <<mcastBuffer, mcastSlot, enqStage2, ramFront, ramBack, ramData, serveState,
                     rxReq, itemOut, recvResp, scratchpad, arrived, got>>
  BY <1>1 DEF Mcast1, recvVars, queueVars, serveVars
<1>5. /\ mcastDest'[c] = u /\ mcastDests'[c] = mcastDests[c] \ {u} /\ mcastState'[c] = 2
      /\ \A d \in Cores : d # c =>
           /\ mcastDest'[d] = mcastDest[d] /\ mcastDests'[d] = mcastDests[d]
           /\ mcastState'[d] = mcastState[d]
  BY <1>2, <1>4
<1>6. ASSUME NEW t \in Threads PROVE OrderInv(t)' /\ DueInv(t)'
  <2>1. CoreOf(t) \in Cores
    BY ThreadShape
  <2>2. \A s \in Slots : AtMcast(t, s)' <=> AtMcast(t, s)
    <3>1. CASE CoreOf(t) = c
      BY <1>2, <1>3, <1>4, <1>5, <3>1 DEF AtMcast
    <3>2. CASE CoreOf(t) # c
      BY <1>4, <1>5, <2>1, <3>2 DEF AtMcast
    <3>3. QED
      BY <3>1, <3>2
  <2>3. \A p \in Nat : \A s \in Slots : At(t, p, s)' <=> At(t, p, s)
    BY <1>4, <2>2, AtFrame DEF At
  <2>4. \A s \in Coming(t) : Number(s)' = Number(s)
    BY <1>4 DEF Number
  <2>5. QED
    BY <1>4, <2>3, <2>4, Still DEF WayInv
<1>7. QED
  BY <1>6

\* The slot goes to the queue of the thread.
LEMMA WayMcast2 ==
  ASSUME TypeOK, TypeOK', McastInv, RefInv, WayInv, NEW c \in Cores, Mcast2(c)
  PROVE  \A t \in Threads : OrderInv(t)' /\ DueInv(t)'
<1>1. /\ mcastSlot \in [Cores -> Slots] /\ mcastDest \in [Cores -> Threads]
      /\ mcastDests \in [Cores -> SUBSET Threads] /\ mcastState \in [Cores -> 0 .. 2]
      /\ enqStage2 \in [Cores -> {<<>>} \cup (Threads \X Slots)]
  BY TypeParts DEF McastOK, EnqOK
<1>2. PICK u \in Threads, v \in Slots : u = mcastDest[c] /\ v = mcastSlot[c]
  BY <1>1
<1>3. mcastState[c] = 2 /\ enqStage2[c] = <<>> /\ CoreOf(u) = c
  BY <1>2 DEF Mcast2, McastInv, ThreadsOn
<1>4. /\ enqStage2' = [enqStage2 EXCEPT ![c] = <<u, v>>]
      /\ mcastState' = [mcastState EXCEPT ![c] = AfterMcast(mcastDests[c])]
      /\ mcastSlot' = [mcastSlot EXCEPT ![c] =
                         IF AfterMcast(mcastDests[c]) = 0 THEN Stale ELSE mcastSlot[c]]
      /\ mcastDest' = [mcastDest EXCEPT ![c] = 0]
      /\ UNCHANGED <<mcastBuffer, mcastDests, ramFront, ramBack, ramData, serveState, rxReq,
                     itemOut, recvResp, scratchpad, arrived, got>>
  BY <1>2 DEF Mcast2, recvVars, serveVars
<1>5. /\ enqStage2'[c] = <<u, v>>
      /\ mcastDests[c] = {} => mcastState'[c] = 0
      /\ mcastDests[c] # {} => mcastState'[c] = 1 /\ mcastSlot'[c] = v
      /\ \A d \in Cores : d # c =>
           /\ mcastDest'[d] = mcastDest[d] /\ mcastSlot'[d] = mcastSlot[d]
           /\ mcastState'[d] = mcastState[d] /\ enqStage2'[d] = enqStage2[d]
  BY <1>1, <1>2, <1>4 DEF AfterMcast
<1>6. u \notin mcastDests[c]
  <2> DEFINE h == Hits(mcastBuffer[c], EntriesFor(u, v))
  <2>1. /\ McastRefs(u, v) \in Nat /\ EnqRefs(u, v) \in Nat /\ QueueRefs(u, v) \in Nat
        /\ ServeRefs(u, v) \in Nat /\ AnswerRefs(u, v) \in Nat /\ HeldRefs(u, v) \in Nat
        /\ Refs(u, v) <= 1
    BY RefTypes DEF RefInv
  <2>2. McastRefs(u, v) <= 1
    BY <2>1 DEF Refs
  <2>3. h \in Nat
    <3>1. mcastBuffer[c] \in Seq(Entry)
      BY TypeParts DEF McastOK
    <3>2. QED
      BY <3>1, HitsType
  <2>4. McastRefs(u, v) = h + Ind(u \in mcastDests[c]) + 1
    BY <1>2, <1>3 DEF McastRefs, Ind
  <2> HIDE DEF h
  <2>5. Ind(u \in mcastDests[c]) = 0
    BY <2>2, <2>3, <2>4, IndType
  <2>6. QED
    BY <2>5 DEF Ind
<1>7. ASSUME NEW t \in Threads, t # u PROVE OrderInv(t)' /\ DueInv(t)'
  <2>1. CoreOf(t) \in Cores
    BY ThreadShape
  <2>2. \A s \in Slots : AtMcast(t, s)' <=> AtMcast(t, s)
    <3>1. CASE CoreOf(t) = c
      BY <1>2, <1>3, <1>4, <1>5, <1>7, <3>1 DEF AtMcast
    <3>2. CASE CoreOf(t) # c
      BY <1>4, <1>5, <2>1, <3>2 DEF AtMcast
    <3>3. QED
      BY <3>1, <3>2
  <2>3. \A s \in Slots : AtEnq(t, s)' <=> AtEnq(t, s)
    <3>1. CASE CoreOf(t) = c
      BY <1>3, <1>5, <1>7, <3>1 DEF AtEnq
    <3>2. CASE CoreOf(t) # c
      BY <1>5, <2>1, <3>2 DEF AtEnq
    <3>3. QED
      BY <3>1, <3>2
  <2>4. \A p \in Nat : \A s \in Slots : At(t, p, s)' <=> At(t, p, s)
    BY <1>4, <2>2, <2>3, AtFrame DEF At
  <2>5. \A s \in Coming(t) : Number(s)' = Number(s)
    BY <1>4 DEF Number
  <2>6. QED
    BY <1>4, <2>4, <2>5, Still DEF WayInv
<1>8. OrderInv(u)' /\ DueInv(u)'
  <2> DEFINE Q == QueueSize
             f == [p \in Nat |-> IF p = Q THEN Q + 1 ELSE p]
  <2>1. Q \in Nat /\ Q > 1 /\ RamOK /\ RamOK'
    BY QueuePlaces DEF TypeOK, RamOK
  <2>2. \A p \in Nat : f[p] \in Nat /\ f[p] = IF p = Q THEN Q + 1 ELSE p
    BY <2>1
  <2> HIDE DEF f, Q
  <2>3. \A s \in Slots : (AtMcast(u, s) <=> s = v) /\ ~ AtMcast(u, s)'
    BY <1>2, <1>3, <1>4, <1>5, <1>6 DEF AtMcast
  <2>4. \A s \in Slots : (AtEnq(u, s)' <=> s = v) /\ ~ AtEnq(u, s)
    BY <1>3, <1>5 DEF AtEnq
  <2>5. \A k : \A s \in Slots :
          /\ AtUnit(u, s)' <=> AtUnit(u, s)
          /\ AtQueue(u, k, s)' <=> AtQueue(u, k, s)
          /\ AtBuffer(u, k, s)' <=> AtBuffer(u, k, s)
    BY <1>4, AtFrame
  <2>6. \A k : \A s \in Slots :
          /\ AtQueue(u, k, s) => k \in 0 .. Q - 2
          /\ AtBuffer(u, k, s) => k \in Nat \ {0}
    BY <2>1, QueuePlaces DEF Q
  <2>7. ASSUME NEW p \in Nat, NEW s \in Slots, At(u, p, s)'
        PROVE  At(u, f[p], s) /\ p # Q + 1
    <3>1. CASE p = QueueSize /\ AtEnq(u, s)'
      <4>1. f[p] = QueueSize + 1 /\ p # Q + 1
        BY <2>1, <2>2, <3>1 DEF Q
      <4>2. QED
        BY <2>3, <2>4, <3>1, <4>1 DEF At
    <3>2. CASE \/ p = 0 /\ AtUnit(u, s)'
               \/ AtQueue(u, p - 1, s)'
      <4>1. p < Q
        BY <2>1, <2>5, <2>6, <3>2
      <4>2. f[p] = p /\ p # Q + 1
        BY <2>1, <2>2, <4>1
      <4>3. QED
        BY <2>5, <3>2, <4>2 DEF At
    <3>3. CASE AtBuffer(u, p - QueueSize - 1, s)'
      <4>1. p - QueueSize - 1 \in Nat \ {0}
        BY <2>5, <2>6, <3>3
      <4>2. f[p] = p /\ p # Q + 1
        BY <2>1, <2>2, <4>1 DEF Q
      <4>3. QED
        BY <2>5, <3>3, <4>2 DEF At
    <3>4. QED
      BY <2>3, <2>7, <3>1, <3>2, <3>3 DEF At
  <2>8. ASSUME NEW p \in Nat, NEW s \in Slots, At(u, p, s)
        PROVE  \E q \in Nat : At(u, q, s)'
    <3>1. CASE AtMcast(u, s)
      <4>1. At(u, QueueSize, s)' /\ QueueSize \in Nat
        BY <2>1, <2>3, <2>4, <3>1 DEF At, Q
      <4>2. QED
        BY <4>1
    <3>2. CASE ~ AtMcast(u, s)
      <4>1. At(u, p, s)'
        BY <2>4, <2>5, <2>8, <3>2 DEF At
      <4>2. QED
        BY <4>1
    <3>3. QED
      BY <3>1, <3>2
  <2>9. ASSUME NEW p \in Nat, NEW q \in Nat, NEW r \in Slots, NEW s \in Slots,
               p < q, At(u, p, r)', At(u, q, s)'
        PROVE  f[p] < f[q]
    <3>1. q # Q + 1
      BY <2>7, <2>9
    <3>2. QED
      BY <2>1, <2>2, <2>9, <3>1
  <2>10. \A s : Number(s)' = Number(s)
    BY <1>4 DEF Number
  <2>11. QED
    BY <1>4, <2>2, <2>7, <2>8, <2>9, <2>10, Moved DEF WayInv
<1>9. QED
  BY <1>7, <1>8

-----------------------------------------------------------------------------
(* Messages that are received                                              *)

\* The first place of the way is the receive unit.
LEMMA FirstPlace ==
  ASSUME RamOK, NEW t \in Threads, NEW s \in Slots
  PROVE  At(t, 0, s) <=> AtUnit(t, s)
<1>1. QueueSize \in Nat /\ QueueSize > 1
  BY QueuePlaces
<1>2. ~ AtQueue(t, 0 - 1, s)
  BY <1>1, QueuePlaces
<1>3. ~ AtBuffer(t, 0 - QueueSize - 1, s)
  <2>1. 0 - QueueSize - 1 \notin Nat
    BY <1>1
  <2>2. QED
    BY <2>1, QueuePlaces
<1>4. QED
  BY <1>1, <1>2, <1>3 DEF At

\* What is in the receive unit is the next message due.
LEMMA UnitIsNext ==
  ASSUME TypeOK, WayInv, NEW t \in Threads, NEW v \in Slots, AtUnit(t, v)
  PROVE  /\ v \in Coming(t) /\ Number(v) \in LM!Due(t)
         /\ \A s \in Coming(t) : s # v => Number(v) < Number(s)
         /\ \A n \in LM!Due(t) : Number(v) <= n
         /\ \A p \in Nat : At(t, p, v) => p = 0
<1>1. RamOK /\ OrderInv(t) /\ DueInv(t)
  BY TypeParts DEF WayInv
<1>2. At(t, 0, v)
  BY <1>1, FirstPlace
<1>3. v \in Coming(t)
  BY <1>2 DEF Coming
<1>4. \A s \in Slots : Number(s) \in Nat
  BY TypeParts, MailboxAssumption DEF ScratchOK, Number
<1>5. ASSUME NEW s \in Coming(t), s # v PROVE Number(v) < Number(s)
  <2>1. PICK p \in Nat : At(t, p, s)
    BY DEF Coming
  <2>2. s \in Slots
    BY DEF Coming
  <2>3. p # 0
    BY <1>1, <1>2, <1>5, <2>1, <2>2 DEF OrderInv
  <2>4. QED
    BY <1>1, <1>2, <2>1, <2>2, <2>3 DEF OrderInv
<1>6. \A s \in Coming(t) : Number(v) <= Number(s)
  <2>1. Number(v) <= Number(v)
    BY <1>4
  <2>2. \A s \in Coming(t) : s \in Slots
    BY DEF Coming
  <2>3. QED
    BY <1>4, <1>5, <2>1, <2>2
<1>7. ASSUME NEW p \in Nat, At(t, p, v) PROVE p = 0
  <2>1. ~ (Number(v) < Number(v))
    BY <1>4
  <2>2. QED
    BY <1>1, <1>2, <1>7, <2>1 DEF OrderInv
<1>8. QED
  BY <1>1, <1>3, <1>5, <1>6, <1>7 DEF DueInv

\* The receive unit hands a message over, or an answer without one.
LEMMA RespondTakes ==
  ASSUME TypeOK, WaitInv, NEW c \in Cores, Respond(c)
  PROVE  \/ /\ recvResp[c] # <<>> /\ Head(recvResp[c]).status.op # "Recv"
            /\ got' = got
         \/ \E u \in Threads, v \in Slots :
              /\ CoreOf(u) = c
              /\ got' = [got EXCEPT ![u] = Append(@, Number(v))]
              /\ \A s \in Slots : (AtUnit(u, s) <=> s = v) /\ ~ AtUnit(u, s)'
              /\ \A t \in Threads \ {u} : \A s \in Slots : AtUnit(t, s)' <=> AtUnit(t, s)
<1>1. recvResp[c] # <<>> /\ recvResp \in [Cores -> Seq(Answer)]
  BY TypeParts DEF Respond, ServeOK
<1>2. /\ Head(recvResp[c]) \in Answer /\ Head(recvResp[c]) \in Range(recvResp[c])
      /\ Tail(recvResp[c]) \in Seq(Answer)
      /\ Range(recvResp[c]) = Range(Tail(recvResp[c])) \cup {Head(recvResp[c])}
  BY <1>1, TypeWait, QueueShape
<1>3. PICK r \in Answer : r = Head(recvResp[c])
  BY <1>2
<1>4. PICK u \in Threads, v \in Slots : u = r.status.id /\ v = r.data
  BY <1>3, TypeWait, QueueShape
<1>5. CoreOf(u) = c
  BY <1>2, <1>3, <1>4 DEF WaitInv, AskInv
<1>6. /\ recvResp' = [recvResp EXCEPT ![c] = Tail(@)]
      /\ UNCHANGED <<serveState, rxReq, itemOut>>
      /\ \/ r.status.op = "CanRecv" /\ got' = got
         \/ /\ r.status.op = "Recv"
            /\ got' = [got EXCEPT ![u] = Append(@, scratchpad[v][0])]
  BY <1>3, <1>4 DEF Respond
<1>7. /\ recvResp'[c] = Tail(recvResp[c])
      /\ \A d \in Cores : d # c => recvResp'[d] = recvResp[d]
  BY <1>1, <1>6
<1>8. ASSUME r.status.op = "Recv"
      PROVE  /\ \A s \in Slots : (AtUnit(u, s) <=> s = v) /\ ~ AtUnit(u, s)'
             /\ \A t \in Threads \ {u} : \A s \in Slots : AtUnit(t, s)' <=> AtUnit(t, s)
  <2>1. /\ \A st \in Range(rxReq[c]) : st.id # u
        /\ \A q \in Range(recvResp'[c]) : q.status.id # u
    BY <1>1, <1>3, <1>4, <1>5, <1>7, TypeWait, Alone DEF WaitInv
  <2>2. ~ Serving(c, u)
    <3>1. SUFFICES ASSUME serveState[c] = 2 PROVE Head(rxReq[c]).id # u
      BY DEF Serving
    <3>2. rxReq[c] # <<>>
      BY <3>1 DEF WaitInv, ServeInv
    <3>3. Head(rxReq[c]) \in Range(rxReq[c])
      BY <3>2, TypeWait, QueueShape
    <3>4. QED
      BY <2>1, <3>3
  <2>3. Serving(c, u)' <=> Serving(c, u)
    BY <1>6 DEF Serving
  <2>4. \A s \in Slots : \A q \in Range(recvResp'[c]) : q \notin AnswersWith(u, s)
    BY <2>1 DEF AnswersWith
  <2>5. \A s \in Slots : r \in AnswersWith(u, s) <=> s = v
    BY <1>4, <1>8 DEF AnswersWith
  <2>6. \A s \in Slots : (AtUnit(u, s) <=> s = v) /\ ~ AtUnit(u, s)'
    BY <1>2, <1>3, <1>5, <1>7, <2>2, <2>3, <2>4, <2>5 DEF AtUnit
  <2>7. ASSUME NEW t \in Threads \ {u}, NEW s \in Slots PROVE AtUnit(t, s)' <=> AtUnit(t, s)
    <3>1. CoreOf(t) \in Cores
      BY ThreadShape
    <3>2. r \notin AnswersWith(t, s)
      BY <1>4 DEF AnswersWith
    <3>3. CASE CoreOf(t) = c
      BY <1>2, <1>3, <1>6, <1>7, <3>2, <3>3 DEF AtUnit, Serving
    <3>4. CASE CoreOf(t) # c
      BY <1>6, <1>7, <3>1, <3>4 DEF AtUnit, Serving
    <3>5. QED
      BY <3>3, <3>4
  <2>8. QED
    BY <2>6, <2>7
<1>9. QED
  BY <1>1, <1>3, <1>5, <1>6, <1>8 DEF Number

\* A thread has received one message more.
LEMMA GotAppend ==
  ASSUME HistoryOK, NEW u \in Threads, NEW n \in Nat,
         got' = [got EXCEPT ![u] = Append(@, n)], arrived' = arrived
  PROVE  /\ Range(got'[u]) = Range(got[u]) \cup {n} /\ LM!Due(u)' = LM!Due(u) \ {n}
         /\ \A t \in Threads \ {u} : got'[t] = got[t]
<1>1. got \in [Threads -> Seq(Nat)] /\ got[u] \in Seq(Nat)
  BY DEF HistoryOK
<1>2. got'[u] = Append(got[u], n) /\ \A t \in Threads \ {u} : got'[t] = got[t]
  BY <1>1
<1>3. Range(got'[u]) = Range(got[u]) \cup {n}
  BY <1>1, <1>2, RangeAppend
<1>4. LM!Due(u) = LM!For(u) \ Range(got[u]) /\ LM!Due(u)' = LM!For(u)' \ Range(got'[u])
  BY DEF LM!Due, Range
<1>5. LM!For(u)' = LM!For(u)
  BY DEF LM!For
<1>6. QED
  BY <1>2, <1>3, <1>4, <1>5

LEMMA WayRespond ==
  ASSUME TypeOK, TypeOK', WaitInv, WayInv, NEW c \in Cores, Respond(c)
  PROVE  \A t \in Threads : OrderInv(t)' /\ DueInv(t)'
<1>1. /\ recvResp' = [recvResp EXCEPT ![c] = Tail(@)]
      /\ UNCHANGED <<mcastBuffer, mcastState, mcastDests, mcastSlot, mcastDest, enqStage2,
                     ramFront, ramBack, ramData, serveState, rxReq, itemOut,
                     scratchpad, arrived>>
  BY DEF Respond, recvVars, mcastVars, queueVars
<1>2. CASE /\ recvResp[c] # <<>> /\ Head(recvResp[c]).status.op # "Recv"
           /\ got' = got
  BY <1>1, <1>2, AnswerTaken
<1>3. CASE \E u \in Threads, v \in Slots :
             /\ CoreOf(u) = c
             /\ got' = [got EXCEPT ![u] = Append(@, Number(v))]
             /\ \A s \in Slots : (AtUnit(u, s) <=> s = v) /\ ~ AtUnit(u, s)'
             /\ \A t \in Threads \ {u} : \A s \in Slots : AtUnit(t, s)' <=> AtUnit(t, s)
  <2>1. PICK u \in Threads, v \in Slots :
             /\ CoreOf(u) = c
             /\ got' = [got EXCEPT ![u] = Append(@, Number(v))]
             /\ \A s \in Slots : (AtUnit(u, s) <=> s = v) /\ ~ AtUnit(u, s)'
             /\ \A t \in Threads \ {u} : \A s \in Slots : AtUnit(t, s)' <=> AtUnit(t, s)
    BY <1>3
  <2>2. \A s \in Slots : Number(s) \in Nat
    BY TypeParts, MailboxAssumption DEF ScratchOK, Number
  <2>3. /\ Range(got'[u]) = Range(got[u]) \cup {Number(v)}
        /\ LM!Due(u)' = LM!Due(u) \ {Number(v)}
        /\ \A t \in Threads \ {u} : got'[t] = got[t]
    BY <1>1, <2>1, <2>2, TypeParts, GotAppend
  <2>4. \A s : Number(s)' = Number(s)
    BY <1>1 DEF Number
  <2>5. ASSUME NEW t \in Threads, t # u PROVE OrderInv(t)' /\ DueInv(t)'
    <3> DEFINE f == [p \in Nat |-> p]
    <3>1. \A p \in Nat : \A s \in Slots : At(t, p, s)' <=> At(t, p, s)
      BY <1>1, <2>1, <2>5, AtFrame DEF At
    <3>2. \A p \in Nat : f[p] = p
      OBVIOUS
    <3> HIDE DEF f
    <3>3. QED
      BY <1>1, <2>3, <2>4, <2>5, <3>1, <3>2, Moved DEF WayInv
  <2>6. OrderInv(u)' /\ DueInv(u)'
    <3>1. RamOK /\ RamOK' /\ OrderInv(u) /\ DueInv(u)
      BY DEF TypeOK, RamOK, WayInv
    <3>2. /\ v \in Coming(u) /\ Number(v) \in LM!Due(u)
          /\ \A s \in Coming(u) : s # v => Number(v) < Number(s)
          /\ \A p \in Nat : At(u, p, v) => p = 0
      BY <2>1, UnitIsNext
    <3>3. ASSUME NEW p \in Nat, NEW s \in Slots
          PROVE  At(u, p, s)' <=> At(u, p, s) /\ s # v
      <4>1. At(u, p, s)' <=> At(u, p, s) /\ ~ (p = 0 /\ s = v)
        <5>1. AtUnit(u, s) <=> s = v
          BY <2>1
        <5>2. CASE p = 0
          <6>1. ~ AtQueue(u, p - 1, s)
            BY <3>1, <5>2, QueuePlaces
          <6>2. QueueSize \in Nat /\ QueueSize > 1
            BY <3>1, QueuePlaces
          <6>3. ~ AtBuffer(u, p - QueueSize - 1, s)
            <7>1. p - QueueSize - 1 \notin Nat
              BY <5>2, <6>2
            <7>2. QED
              BY <3>1, <7>1, QueuePlaces
          <6>4. /\ AtQueue(u, p - 1, s)' <=> AtQueue(u, p - 1, s)
                /\ AtBuffer(u, p - QueueSize - 1, s)' <=> AtBuffer(u, p - QueueSize - 1, s)
            BY <1>1, AtFrame
          <6>5. ~ At(u, p, s)'
            BY <2>1, <5>2, <6>1, <6>2, <6>3, <6>4 DEF At
          <6>6. At(u, p, s) => s = v
            BY <5>1, <5>2, <6>1, <6>2, <6>3 DEF At
          <6>7. QED
            BY <5>2, <6>5, <6>6
        <5>3. CASE p # 0
          BY <1>1, <5>3, AtFrame DEF At
        <5>4. QED
          BY <5>2, <5>3
      <4>2. QED
        BY <3>2, <4>1
    <3>4. Coming(u)' = Coming(u) \ {v}
      BY <3>3 DEF Coming
    <3>5. OrderInv(u)'
      BY <2>4, <3>1, <3>3 DEF OrderInv
    <3>6. {Number(s) : s \in Coming(u)}' = {Number(s) : s \in Coming(u)} \ {Number(v)}
      <4>1. {Number(s) : s \in Coming(u)}' = {Number(s) : s \in Coming(u) \ {v}}
        BY <2>4, <3>4
      <4>2. \A s \in Coming(u) : s # v => Number(s) # Number(v)
        BY <2>2, <3>2
      <4>3. QED
        BY <4>1, <4>2
    <3>7. \A m \in Range(got'[u]) : \A s \in Coming(u) \ {v} : m < Number(s)
      BY <2>3, <3>1, <3>2 DEF DueInv
    <3>8. DueInv(u)'
      BY <2>3, <2>4, <3>1, <3>4, <3>6, <3>7 DEF DueInv
    <3>9. QED
      BY <3>5, <3>8
  <2>7. QED
    BY <2>5, <2>6
<1>4. QED
  BY <1>2, <1>3, RespondTakes

-----------------------------------------------------------------------------
(* Messages that arrive                                                    *)

\* A slot on its way is in use.
LEMMA ComingInUse ==
  ASSUME TypeOK, NEW t \in Threads, NEW p \in Nat, NEW s \in Slots, At(t, p, s)
  PROVE  Refs(t, s) # 0
<1> DEFINE c == CoreOf(t)
<1>1. c \in Cores
  BY ThreadShape
<1>2. mcastBuffer[c] \in Seq(Entry) /\ recvResp[c] \in Seq(Answer) /\ RamOK
  BY <1>1, TypeParts DEF McastOK, ServeOK
<1> HIDE DEF c
<1>3. /\ McastRefs(t, s) \in Nat /\ EnqRefs(t, s) \in Nat /\ QueueRefs(t, s) \in Nat
      /\ ServeRefs(t, s) \in Nat /\ AnswerRefs(t, s) \in Nat /\ HeldRefs(t, s) \in Nat
  BY RefTypes
<1>4. Refs(t, s) = 0 =>
        /\ McastRefs(t, s) = 0 /\ EnqRefs(t, s) = 0 /\ QueueRefs(t, s) = 0
        /\ ServeRefs(t, s) = 0 /\ AnswerRefs(t, s) = 0
  <2> DEFINE k == McastRefs(t, s)   l == EnqRefs(t, s)   m == QueueRefs(t, s)
             n == ServeRefs(t, s)   x == AnswerRefs(t, s)   y == HeldRefs(t, s)
  <2>1. /\ k \in Nat /\ l \in Nat /\ m \in Nat /\ n \in Nat /\ x \in Nat /\ y \in Nat
        /\ Refs(t, s) = k + l + m + n + x + y
    BY <1>3 DEF Refs
  <2> HIDE DEF k, l, m, n, x, y
  <2>2. Refs(t, s) = 0 => k = 0 /\ l = 0 /\ m = 0 /\ n = 0 /\ x = 0
    BY <2>1
  <2>3. QED
    BY <2>2 DEF k, l, m, n, x
<1>5. CASE AtUnit(t, s)
  <2>1. (\E r \in Range(recvResp[c]) : r \in AnswersWith(t, s)) => AnswerRefs(t, s) # 0
    BY <1>2, HitsRange DEF AnswerRefs, c
  <2>2. QED
    BY <1>4, <1>5, <2>1 DEF AtUnit, ServeRefs, Ind, c
<1>6. CASE AtQueue(t, p - 1, s)
  BY <1>4, <1>2, <1>6, QueuedType DEF AtQueue
<1>7. CASE AtEnq(t, s)
  BY <1>4, <1>7 DEF AtEnq, EnqRefs, Ind
<1> DEFINE h == Hits(mcastBuffer[c], EntriesFor(t, s))
           i == Ind(mcastState[c] # 0 /\ mcastSlot[c] = s /\ t \in mcastDests[c])
           j == Ind(mcastState[c] = 2 /\ mcastSlot[c] = s /\ t = mcastDest[c])
<1>8. McastRefs(t, s) = h + i + j /\ h \in Nat /\ i \in Nat /\ j \in Nat
  BY <1>2, HitsType, IndType DEF McastRefs, c
<1>9. CASE AtMcast(t, s)
  <2>1. i = 1 \/ j = 1
    BY <1>9 DEF AtMcast, Ind, c
  <2> HIDE DEF h, i, j
  <2>2. QED
    BY <1>4, <1>8, <2>1
<1>10. CASE AtBuffer(t, p - QueueSize - 1, s)
  <2>1. h # 0
    BY <1>2, <1>10, HitsType DEF AtBuffer, c
  <2> HIDE DEF h, i, j
  <2>2. QED
    BY <1>4, <1>8, <2>1
<1>11. QED
  BY <1>5, <1>6, <1>7, <1>9, <1>10 DEF At

\* A flit is written into the slot that is not on its way to anyone yet.
LEMMA FlitWritten ==
  ASSUME TypeOK, SlotsAccounted, WayInv, freeSlots # <<>>,
         scratchpad' = [scratchpad EXCEPT ![Head(freeSlots)][recvFlitCount] = Msg]
  PROVE  /\ Head(freeSlots) \in Slots
         /\ scratchpad'[Head(freeSlots)][0] = Len(arrived) + 1
         /\ \A t \in Threads : Head(freeSlots) \notin Coming(t)
         /\ \A t \in Threads : \A s \in Coming(t) : Number(s)' = Number(s)
<1>1. PICK v \in Slots : v = Head(freeSlots)
  BY FrontSlot
<1>2. \A t \in Threads : v \notin Coming(t)
  BY <1>1, FrontSlot, ComingInUse DEF Coming
<1>3. /\ scratchpad \in [Slots -> [0 .. MaxFlits - 1 -> Nat]] /\ MaxFlits \in Nat \ {0}
      /\ recvFlitCount \in 0 .. MaxFlits - 1 /\ scratchpad[v] \in [0 .. MaxFlits - 1 -> Nat]
  BY TypeParts, MailboxAssumption DEF ScratchOK, SlotsOK
<1>4. scratchpad' = [scratchpad EXCEPT ![v] = [scratchpad[v] EXCEPT ![recvFlitCount] = Msg]]
  BY <1>1
<1>5. /\ scratchpad'[v] = [scratchpad[v] EXCEPT ![recvFlitCount] = Msg]
      /\ \A s \in Slots : s # v => scratchpad'[s] = scratchpad[s]
  BY <1>3, <1>4
<1>6. scratchpad'[v][0] = Len(arrived) + 1
  <2>1. CASE recvFlitCount = 0
    BY <1>3, <1>5, <2>1 DEF Msg
  <2>2. CASE recvFlitCount # 0
    <3>1. scratchpad[v][0] = Len(arrived) + 1
      BY <1>1, <2>2 DEF WayInv, FlitInv, Number
    <3>2. 0 \in 0 .. MaxFlits - 1
      BY <1>3
    <3>3. QED
      BY <1>3, <1>5, <2>2, <3>1, <3>2
  <2>3. QED
    BY <2>1, <2>2
<1>7. ASSUME NEW t \in Threads, NEW s \in Coming(t) PROVE Number(s)' = Number(s)
  <2>1. s \in Slots /\ s # v
    BY <1>2 DEF Coming
  <2>2. QED
    BY <1>5, <2>1 DEF Number
<1>8. QED
  BY <1>1, <1>2, <1>6, <1>7

LEMMA WayReceiveFlit ==
  ASSUME TypeOK, SlotsAccounted, WayInv, ReceiveFlit
  PROVE  WayInv'
<1>1. /\ freeSlots # <<>>
      /\ scratchpad' = [scratchpad EXCEPT ![Head(freeSlots)][recvFlitCount] = Msg]
      /\ UNCHANGED <<freeSlots, mcastBuffer, mcastState, mcastDests, mcastSlot, mcastDest,
                     enqStage2, ramFront, ramBack, ramData, serveState, rxReq, itemOut,
                     recvResp, arrived, got>>
  BY DEF ReceiveFlit, CanRecv, mcastVars, queueVars, serveVars
<1>2. /\ scratchpad'[Head(freeSlots)][0] = Len(arrived) + 1
      /\ \A t \in Threads : \A s \in Coming(t) : Number(s)' = Number(s)
  BY <1>1, FlitWritten
<1>3. FlitInv'
  BY <1>1, <1>2 DEF FlitInv, Number
<1>4. GotInv'
  BY <1>1 DEF WayInv, GotInv
<1>5. ASSUME NEW t \in Threads PROVE OrderInv(t)' /\ DueInv(t)'
  <2>1. \A p \in Nat : \A s \in Slots : At(t, p, s)' <=> At(t, p, s)
    BY <1>1, AtFrame DEF At
  <2>2. QED
    BY <1>1, <1>2, <2>1, Still DEF WayInv
<1>6. QED
  BY <1>3, <1>4, <1>5 DEF WayInv

\* The last place of the way, and the new one behind it.
LEMMA FinalFlitPlaces ==
  ASSUME TypeOK, NEW dests \in SUBSET Threads, ReceiveFinalFlit(dests),
         NEW v \in Slots, v = Head(freeSlots), NEW t \in Threads,
         NEW k, k = QueueSize + Len(mcastBuffer[CoreOf(t)]) + 2
  PROVE  /\ k \in Nat
         /\ \A p \in Nat : \A s \in Slots : At(t, p, s) => p < k
         /\ \A p \in Nat : \A s \in Slots :
              At(t, p, s)' <=> At(t, p, s) \/ (t \in dests /\ p = k /\ s = v)
<1>1. PICK c \in Cores : c = CoreOf(t)
  BY ThreadShape
<1>2. mcastBuffer[c] \in Seq(Entry) /\ McastOK /\ RamOK
  BY TypeParts DEF McastOK
<1>3. PICK n \in Nat : n = Len(mcastBuffer[c])
  BY <1>2
<1>4. k \in Nat /\ k = QueueSize + n + 2
  BY <1>1, <1>2, <1>3, QueuePlaces
<1>5. UNCHANGED <<mcastState, mcastDests, mcastSlot, mcastDest, enqStage2, ramFront, ramBack,
                  ramData, serveState, rxReq, itemOut, recvResp>>
  BY DEF ReceiveFinalFlit, queueVars, serveVars
<1>6. ASSUME NEW p \in Nat, NEW s \in Slots, At(t, p, s) PROVE p < k
  <2>1. AtQueue(t, p - 1, s) => p - 1 < QueueSize
    BY <1>2, QueuePlaces
  <2>2. AtBuffer(t, p - QueueSize - 1, s) => p - QueueSize - 1 <= n
    BY <1>1, <1>3 DEF AtBuffer
  <2>3. QueueSize \in Nat
    BY <1>2, QueuePlaces
  <2>4. QED
    BY <1>4, <1>6, <2>1, <2>2, <2>3 DEF At
<1>7. ASSUME NEW i \in Int, NEW s \in Slots
      PROVE  AtBuffer(t, i, s)' <=> AtBuffer(t, i, s) \/ (t \in dests /\ i = n + 1 /\ s = v)
  <2>1. t \in dests => t \in dests \cap ThreadsOn(c)
    BY <1>1, ThreadShape
  <2>2. CASE dests \cap ThreadsOn(c) = {}
    <3>1. mcastBuffer'[c] = mcastBuffer[c]
      BY <1>2, <2>2, BufferAppend
    <3>2. QED
      BY <1>1, <2>1, <2>2, <3>1 DEF AtBuffer
  <2>3. CASE dests \cap ThreadsOn(c) # {}
    <3>1. PICK m : m = [dests |-> dests \cap ThreadsOn(c), slot |-> v]
      OBVIOUS
    <3>2. m \in Entry /\ mcastBuffer'[c] = Append(mcastBuffer[c], m)
      BY <1>2, <2>3, <3>1, BufferAppend
    <3>3. m \in EntriesFor(t, s) <=> t \in dests /\ s = v
      BY <2>1, <3>1, <3>2 DEF EntriesFor
    <3>4. /\ Len(mcastBuffer'[c]) = n + 1 /\ mcastBuffer'[c][n + 1] = m
          /\ \A j \in 1 .. n : mcastBuffer'[c][j] = mcastBuffer[c][j]
      BY <1>2, <1>3, <3>2
    <3>5. i \in 1 .. n + 1 <=> i \in 1 .. n \/ i = n + 1
      BY <1>3
    <3>6. AtBuffer(t, i, s)' <=> i \in 1 .. n + 1 /\ mcastBuffer'[c][i] \in EntriesFor(t, s)
      BY <1>1, <3>4 DEF AtBuffer
    <3>7. AtBuffer(t, i, s) <=> i \in 1 .. n /\ mcastBuffer[c][i] \in EntriesFor(t, s)
      BY <1>1, <1>3 DEF AtBuffer
    <3>8. QED
      BY <3>3, <3>4, <3>5, <3>6, <3>7
  <2>4. QED
    BY <2>2, <2>3
<1>8. ASSUME NEW p \in Nat, NEW s \in Slots
      PROVE  At(t, p, s)' <=> At(t, p, s) \/ (t \in dests /\ p = k /\ s = v)
  <2>1. PICK i \in Int : i = p - QueueSize - 1
    BY <1>2, QueuePlaces
  <2>2. i = n + 1 <=> p = k
    <3>1. QueueSize \in Nat
      BY <1>2, QueuePlaces
    <3>2. QED
      BY <1>3, <1>4, <2>1, <3>1
  <2>3. /\ AtUnit(t, s)' <=> AtUnit(t, s)
        /\ AtQueue(t, p - 1, s)' <=> AtQueue(t, p - 1, s)
        /\ AtEnq(t, s)' <=> AtEnq(t, s)
        /\ AtMcast(t, s)' <=> AtMcast(t, s)
    BY <1>5, AtFrame
  <2>4. AtBuffer(t, i, s)' <=> AtBuffer(t, i, s) \/ (t \in dests /\ i = n + 1 /\ s = v)
    BY <1>7
  <2>5. QED
    BY <2>1, <2>2, <2>3, <2>4 DEF At
<1>9. QED
  BY <1>4, <1>6, <1>8

\* A message more is due to the threads it is for.
LEMMA FinalFlitDue ==
  ASSUME HistoryOK, GotInv, NEW dests \in SUBSET Threads, arrived' = Append(arrived, dests),
         got' = got, NEW t \in Threads, NEW n, n = Len(arrived) + 1
  PROVE  /\ LM!Due(t)' = LM!Due(t) \cup (IF t \in dests THEN {n} ELSE {})
         /\ n \in Nat /\ \A m \in LM!Due(t) \cup Range(got[t]) : m \in Nat /\ m < n
<1>1. Len(arrived) \in Nat /\ arrived \in Seq(SUBSET Threads)
  BY DEF HistoryOK
<1>2. /\ Len(arrived') = n /\ arrived'[n] = dests /\ 1 .. n = 1 .. Len(arrived) \cup {n}
      /\ \A m \in 1 .. Len(arrived) : arrived'[m] = arrived[m]
  BY <1>1
<1>3. LM!For(t) = {m \in 1 .. Len(arrived) : t \in arrived[m]}
  BY DEF LM!For
<1>4. LM!For(t)' = {m \in 1 .. n : t \in arrived'[m]}
  BY <1>2 DEF LM!For
<1>5. LM!For(t)' = LM!For(t) \cup (IF t \in dests THEN {n} ELSE {})
  BY <1>2, <1>3, <1>4
<1>6. LM!Due(t) = LM!For(t) \ Range(got[t]) /\ LM!Due(t)' = LM!For(t)' \ Range(got[t])
  BY DEF LM!Due, Range
<1>7. Range(got[t]) \subseteq 1 .. Len(arrived)
  BY DEF GotInv
<1>8. LM!Due(t) \subseteq 1 .. Len(arrived)
  BY <1>3, <1>6
<1>9. n \notin 1 .. Len(arrived) /\ n \in Nat
  BY <1>1
<1>10. n \notin Range(got[t])
  BY <1>7, <1>9
<1>11. \A m \in 1 .. Len(arrived) : m \in Nat /\ m < n
  BY <1>1
<1>12. QED
  BY <1>5, <1>6, <1>7, <1>8, <1>9, <1>10, <1>11

LEMMA WayReceiveFinalFlit ==
  ASSUME TypeOK, SlotsAccounted, WayInv, NEW dests \in SUBSET Threads, ReceiveFinalFlit(dests)
  PROVE  WayInv'
<1>1. /\ freeSlots # <<>> /\ recvFlitCount' = 0
      /\ scratchpad' = [scratchpad EXCEPT ![Head(freeSlots)][recvFlitCount] = Msg]
      /\ arrived' = Append(arrived, dests) /\ got' = got
  BY DEF ReceiveFinalFlit, CanRecv
<1>2. PICK v \in Slots : v = Head(freeSlots)
  BY <1>1, FrontSlot
<1>3. PICK n : n = Len(arrived) + 1
  OBVIOUS
<1>4. /\ Number(v)' = n
      /\ \A t \in Threads : v \notin Coming(t)
      /\ \A t \in Threads : \A s \in Coming(t) : Number(s)' = Number(s)
  <2>1. scratchpad'[v][0] = n
    BY <1>1, <1>2, <1>3, FlitWritten
  <2>2. QED
    BY <1>1, <1>2, <2>1, FlitWritten DEF Number
<1>5. ASSUME NEW t \in Threads
      PROVE  /\ LM!Due(t)' = LM!Due(t) \cup (IF t \in dests THEN {n} ELSE {})
             /\ n \in Nat /\ \A m \in LM!Due(t) \cup Range(got[t]) : m \in Nat /\ m < n
  BY <1>1, <1>3, TypeParts, FinalFlitDue DEF WayInv
<1>6. FlitInv'
  BY <1>1 DEF FlitInv
<1>7. GotInv'
  <2>1. Len(arrived) \in Nat /\ Len(arrived') = Len(arrived) + 1
    BY <1>1, TypeParts DEF HistoryOK
  <2>2. 1 .. Len(arrived) \subseteq 1 .. Len(arrived')
    BY <2>1
  <2>3. QED
    BY <1>1, <2>2 DEF WayInv, GotInv
<1>8. ASSUME NEW t \in Threads PROVE OrderInv(t)' /\ DueInv(t)'
  <2>0. PICK k : k = QueueSize + Len(mcastBuffer[CoreOf(t)]) + 2
    OBVIOUS
  <2>1. /\ k \in Nat
        /\ \A p \in Nat : \A s \in Slots : At(t, p, s) => p < k
        /\ \A p \in Nat : \A s \in Slots :
             At(t, p, s)' <=> At(t, p, s) \/ (t \in dests /\ p = k /\ s = v)
    BY <1>2, <2>0, FinalFlitPlaces
  <2>2. OrderInv(t) /\ DueInv(t)
    BY DEF WayInv
  <2>3. \A s \in Coming(t) : Number(s)' = Number(s) /\ Number(s) < n /\ s # v
    <3>1. \A s \in Coming(t) : Number(s) \in LM!Due(t)
      BY <2>2 DEF DueInv
    <3>2. QED
      BY <1>4, <1>5, <3>1
  <2>4. \A p \in Nat : \A s \in Slots : At(t, p, s) => s \in Coming(t)
    BY DEF Coming
  <2>5. OrderInv(t)'
    <3> SUFFICES ASSUME NEW p \in Nat, NEW q \in Nat, NEW r \in Slots, NEW s \in Slots,
                        At(t, p, r)', At(t, q, s)'
                 PROVE  /\ p = q => r = s
                        /\ p < q => Number(r)' < Number(s)'
      BY DEF OrderInv
    <3>1. CASE At(t, p, r) /\ At(t, q, s)
      <4>1. Number(r)' = Number(r) /\ Number(s)' = Number(s)
        BY <2>3, <2>4, <3>1
      <4>2. QED
        BY <2>2, <3>1, <4>1 DEF OrderInv
    <3>2. CASE At(t, p, r) /\ q = k /\ s = v
      <4>1. Number(r)' < Number(s)' /\ p < q
        BY <1>4, <2>1, <2>3, <2>4, <3>2
      <4>2. QED
        BY <4>1
    <3>3. CASE p = k /\ r = v /\ At(t, q, s)
      <4>1. q < p
        BY <2>1, <3>3
      <4>2. QED
        BY <4>1
    <3>4. CASE p = k /\ r = v /\ q = k /\ s = v
      BY <3>4
    <3>5. QED
      BY <2>1, <3>1, <3>2, <3>3, <3>4
  <2>6. Coming(t)' = Coming(t) \cup (IF t \in dests THEN {v} ELSE {})
    <3>1. CASE t \in dests
      <4>1. At(t, k, v)'
        BY <2>1, <3>1
      <4>2. QED
        BY <2>1, <3>1, <4>1 DEF Coming
    <3>2. CASE t \notin dests
      BY <2>1, <3>2 DEF Coming
    <3>3. QED
      BY <3>1, <3>2
  <2>7. {Number(s) : s \in Coming(t)}' = {Number(s) : s \in Coming(t)}
                                          \cup (IF t \in dests THEN {n} ELSE {})
    <3>1. \A s \in Coming(t)' : Number(s)' = IF s = v THEN n ELSE Number(s)
      BY <1>4, <2>3, <2>6
    <3>2. {Number(s) : s \in Coming(t)}' = {IF s = v THEN n ELSE Number(s) : s \in Coming(t)'}
      BY <3>1
    <3>3. \A s \in Coming(t) : s # v
      BY <2>3
    <3>4. QED
      BY <2>6, <3>2, <3>3
  <2>8. \A m \in Range(got[t]) : \A s \in Coming(t)' : m < Number(s)'
    <3>1. SUFFICES ASSUME NEW m \in Range(got[t]), NEW s \in Coming(t)'
                   PROVE  m < Number(s)'
      OBVIOUS
    <3>2. CASE s \in Coming(t)
      BY <2>2, <2>3, <3>2 DEF DueInv
    <3>3. CASE s = v
      BY <1>4, <1>5, <3>3
    <3>4. QED
      BY <2>6, <3>2, <3>3
  <2>9. QED
    BY <1>1, <1>5, <2>2, <2>5, <2>7, <2>8 DEF DueInv
<1>9. QED
  BY <1>6, <1>7, <1>8 DEF WayInv

-----------------------------------------------------------------------------
(* The invariant is inductive                                              *)

\* The slot that a message arrives in stays at the front.
LEMMA FlitKept ==
  ASSUME FlitInv, freeSlots \in Seq(Slots),
         \/ freeSlots' = freeSlots
         \/ \E s \in Slots : freeSlots' = Append(freeSlots, s),
         UNCHANGED <<scratchpad, recvFlitCount, arrived>>
  PROVE  FlitInv'
<1> SUFFICES ASSUME recvFlitCount # 0
             PROVE  freeSlots' # <<>> /\ scratchpad[Head(freeSlots')][0] = Len(arrived) + 1
  BY DEF FlitInv, Number
<1>1. freeSlots # <<>> /\ scratchpad[Head(freeSlots)][0] = Len(arrived) + 1
  BY DEF FlitInv, Number
<1>2. freeSlots' # <<>> /\ Head(freeSlots') = Head(freeSlots)
  BY <1>1
<1>3. QED
  BY <1>1, <1>2

\* A step of one core.
LEMMA WayCore ==
  ASSUME IInv, TypeOK', WayInv, NEW c \in Cores, CoreStep(c)
  PROVE  WayInv'
<1>1. TypeOK /\ WaitInv /\ McastInv /\ RefInv
  BY DEF IInv
<1>2. \A t \in Threads : OrderInv(t)' /\ DueInv(t)'
  BY <1>1, WayMcast0, WayMcast1, WayMcast2, WayEnqStage2, WayServe0, WayServe1, WayServe2,
     WayRespond, WayWakeup1, WayWakeup2 DEF CoreStep
<1>3. UNCHANGED <<freeSlots, scratchpad, recvFlitCount, arrived>>
  BY DEF CoreStep, Mcast0, Mcast1, Mcast2, EnqStage2, Serve0, Serve1, Serve2, Respond, Wakeup1,
         Wakeup2, recvVars
<1>4. FlitInv'
  BY <1>1, <1>3, TypeParts, FlitKept DEF SlotsOK, WayInv
<1>5. GotInv'
  <2>1. CASE Respond(c) /\ got' # got
    <3>1. PICK u \in Threads, v \in Slots :
             /\ got' = [got EXCEPT ![u] = Append(@, Number(v))]
             /\ AtUnit(u, v)
      BY <1>1, <2>1, RespondTakes
    <3>2. Number(v) \in LM!Due(u) /\ Number(v) \in Nat
      BY <1>1, <3>1, UnitIsNext, TypeParts, MailboxAssumption DEF ScratchOK, Number
    <3>3. Number(v) \in 1 .. Len(arrived)
      BY <3>2 DEF LM!Due, LM!For
    <3>4. /\ Range(got'[u]) = Range(got[u]) \cup {Number(v)}
          /\ \A t \in Threads \ {u} : got'[t] = got[t]
      BY <1>1, <1>3, <3>1, <3>2, TypeParts, GotAppend
    <3>5. QED
      BY <1>3, <3>3, <3>4 DEF WayInv, GotInv
  <2>2. CASE got' = got
    BY <1>3, <2>2 DEF WayInv, GotInv
  <2>3. Respond(c) \/ got' = got
    BY DEF CoreStep, Mcast0, Mcast1, Mcast2, EnqStage2, Serve0, Serve1, Serve2, Wakeup1, Wakeup2
  <2>4. QED
    BY <2>1, <2>2, <2>3
<1>6. QED
  BY <1>2, <1>4, <1>5 DEF WayInv

LEMMA NextWay ==
  ASSUME IInv, TypeOK', WayInv, [Next]_vars
  PROVE  WayInv'
<1>1. TypeOK /\ SlotsAccounted /\ freeSlots \in Seq(Slots)
  BY TypeParts DEF IInv, SlotsOK
<1>2. CASE \E c \in Cores : CoreStep(c)
  BY <1>2, WayCore
<1>3. CASE ReceiveFlit
  BY <1>1, <1>3, WayReceiveFlit
<1>4. CASE \E dests \in DestSets : ReceiveFinalFlit(dests)
  <2>1. PICK dests \in DestSets : ReceiveFinalFlit(dests)
    BY <1>4
  <2>2. dests \in SUBSET Threads
    BY MailboxAssumption
  <2>3. QED
    BY <1>1, <2>1, <2>2, WayReceiveFinalFlit
<1>5. CASE /\ UNCHANGED <<mcastBuffer, mcastState, mcastDests, mcastSlot, mcastDest, enqStage2,
                          ramFront, ramBack, ramData, serveState, rxReq, itemOut, recvResp,
                          scratchpad, arrived, got>>
           /\ recvFlitCount' = recvFlitCount
           /\ \/ freeSlots' = freeSlots
              \/ \E s \in Slots : freeSlots' = Append(freeSlots, s)
  <2>1. \A t \in Threads : OrderInv(t)' /\ DueInv(t)'
    BY <1>5, Untouched
  <2>2. FlitInv'
    BY <1>1, <1>5, FlitKept DEF WayInv
  <2>3. GotInv'
    BY <1>5 DEF WayInv, GotInv
  <2>4. QED
    BY <2>1, <2>2, <2>3 DEF WayInv
<1> USE DEF recvVars, mcastVars, queueVars, serveVars, freeVars, thrVars
<1>6. CASE InitFreeSlots
  <2>1. initNext \in Slots
    BY <1>1, <1>6, TypeParts, MailboxAssumption
       DEF InitFreeSlots, FreeSlotsInitDone, SlotsOK, Slots
  <2>2. QED
    BY <1>5, <1>6, <2>1 DEF InitFreeSlots
<1>7. CASE FreeWrite
  <2>1. Head(freeReq) \in Slots
    BY <1>1, <1>7, TypeParts, RangeTail DEF FreeWrite, FreeOK
  <2>2. QED
    BY <1>5, <1>7, <2>1 DEF FreeWrite
<1>8. CASE FreeRead
  BY <1>5, <1>8 DEF FreeRead
<1>9. CASE \E t \in Threads : ThreadStep(t)
  BY <1>5, <1>9 DEF ThreadStep, Poll, Sleep, Free, Send, TransmitResponse
<1>10. CASE UNCHANGED vars
  BY <1>5, <1>10 DEF vars
<1>11. QED
  BY <1>2, <1>3, <1>4, <1>6, <1>7, <1>8, <1>9, <1>10 DEF Next

LEMMA InitWay == Init => WayInv
<1> SUFFICES ASSUME Init
             PROVE  WayInv
  OBVIOUS
<1>1. ASSUME NEW t \in Threads, NEW p \in Nat, NEW s \in Slots PROVE ~ At(t, p, s)
  BY <1>1, TypeInit, InitRefs, ComingInUse
<1>2. \A t \in Threads : Coming(t) = {}
  BY <1>1 DEF Coming
<1>3. ASSUME NEW t \in Threads PROVE LM!Due(t) = {} /\ Range(got[t]) = {}
  <2>1. arrived = <<>> /\ got[t] = <<>>
    BY DEF Init
  <2>2. LM!For(t) = {}
    BY <2>1 DEF LM!For
  <2>3. <<>> \in Seq({})
    OBVIOUS
  <2>4. Range(<<>>) = {}
    BY <2>3, RangeType
  <2>5. QED
    BY <2>1, <2>2, <2>4 DEF LM!Due
<1>4. FlitInv
  BY DEF Init, FlitInv
<1>5. QED
  BY <1>1, <1>2, <1>3, <1>4 DEF WayInv, OrderInv, DueInv, GotInv

\* What a thread has yet to receive is at its places on the way, in order of
\* arrival: in the buffer of its core, with the multicast unit, in its queue
\* and in the receive unit, whatever is written to other slots meanwhile.
THEOREM OnTheWay == Spec => []WayInv
<1>1. Init => IInv /\ WayInv
  BY InitWay, TypeInit, InitWait, InitMcast, InitAccount DEF IInv
<1>2. IInv /\ WayInv /\ [Next]_vars => (IInv /\ WayInv)'
  <2>1. SUFFICES ASSUME IInv, WayInv, [Next]_vars
                 PROVE  IInv' /\ WayInv'
    OBVIOUS
  <2>2. IInv'
    BY <2>1, NextInductive
  <2>3. TypeOK'
    BY <2>2 DEF IInv
  <2>4. QED
    BY <2>1, <2>2, <2>3, NextWay
<1>3. QED
  BY <1>1, <1>2, PTL DEF Spec

-----------------------------------------------------------------------------

\* The mailbox implements local multicast: receive0 is the arrival of a message
\* and respond its receipt, and every thread receives the messages for it, each
\* once and in order of arrival.
THEOREM ImplementsMulticast == Spec => Multicast
<1>1. Init => LM!Init
  BY DEF Init, LM!Init
<1>2. IInv /\ WayInv /\ [Next]_vars => [LM!Next]_(LM!vars)
  <2> SUFFICES ASSUME IInv, WayInv, [Next]_vars
               PROVE  [LM!Next]_(LM!vars)
    OBVIOUS
  <2> USE DEF thrVars, recvVars, mcastVars, queueVars, serveVars, freeVars
  <2>1. CASE UNCHANGED <<arrived, got>>
    BY <2>1 DEF LM!vars
  <2>2. CASE \E dests \in DestSets : ReceiveFinalFlit(dests)
    <3>1. PICK dests \in DestSets : ReceiveFinalFlit(dests)
      BY <2>2
    <3>2. dests \in SUBSET Threads
      BY MailboxAssumption
    <3>3. LM!Arrive(dests)
      BY <3>1 DEF ReceiveFinalFlit, LM!Arrive
    <3>4. QED
      BY <3>2, <3>3 DEF LM!Next
  <2>3. ASSUME NEW c \in Cores, Respond(c), got' # got
        PROVE  LM!Next
    <3>1. TypeOK /\ WaitInv
      BY DEF IInv
    <3>2. PICK u \in Threads, v \in Slots :
            /\ got' = [got EXCEPT ![u] = Append(@, Number(v))]
            /\ AtUnit(u, v)
      BY <2>3, <3>1, RespondTakes
    <3>3. Number(v) \in LM!Due(u) /\ \A n \in LM!Due(u) : Number(v) <= n
      BY <3>1, <3>2, UnitIsNext
    <3>4. arrived' = arrived
      BY <2>3 DEF Respond
    <3>5. LM!Receive(u)
      BY <3>2, <3>3, <3>4 DEF LM!Receive
    <3>6. QED
      BY <3>5 DEF LM!Next
  <2>4. \/ UNCHANGED <<arrived, got>>
        \/ \E dests \in DestSets : ReceiveFinalFlit(dests)
        \/ \E c \in Cores : Respond(c) /\ got' # got
    <3>1. CASE UNCHANGED vars
      BY <3>1 DEF vars
    <3>2. CASE InitFreeSlots \/ ReceiveFlit \/ FreeRead \/ FreeWrite
      BY <3>2 DEF InitFreeSlots, ReceiveFlit, FreeRead, FreeWrite
    <3>3. ASSUME NEW c \in Cores, CoreStep(c)
          PROVE  UNCHANGED <<arrived, got>> \/ (Respond(c) /\ got' # got)
      <4>1. CASE Mcast0(c) \/ Mcast1(c) \/ Mcast2(c) \/ EnqStage2(c)
        BY <4>1 DEF Mcast0, Mcast1, Mcast2, EnqStage2
      <4>2. CASE Serve0(c) \/ Serve1(c) \/ Serve2(c)
        BY <4>2 DEF Serve0, Serve1, Serve2
      <4>3. CASE Wakeup1(c) \/ Wakeup2(c)
        BY <4>3 DEF Wakeup1, Wakeup2
      <4>4. CASE Respond(c)
        <5>1. arrived' = arrived
          BY <4>4 DEF Respond
        <5>2. QED
          BY <4>4, <5>1
      <4>5. QED
        BY <3>3, <4>1, <4>2, <4>3, <4>4 DEF CoreStep
    <3>4. ASSUME NEW t \in Threads, ThreadStep(t)
          PROVE  UNCHANGED <<arrived, got>>
      BY <3>4 DEF ThreadStep, Poll, Sleep, Free, Send, TransmitResponse
    <3>5. QED
      BY <3>1, <3>2, <3>3, <3>4 DEF Next
  <2>5. QED
    BY <2>1, <2>2, <2>3, <2>4
<1>3. QED
  BY <1>1, <1>2, Invariance, OnTheWay, PTL DEF Spec, Multicast, LM!Spec

=============================================================================
