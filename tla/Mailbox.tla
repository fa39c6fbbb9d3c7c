------------------------------ MODULE Mailbox ------------------------------
(***************************************************************************)
(* The receiving side of a mailbox and of the client units of its cores    *)
(* (rtl/Mailbox.bsv, rtl/QueueArray.bsv): message slots with reference     *)
(* counts, multicast to the queues of the threads, the receive and free    *)
(* units, and the sleep queue in which threads wait for events.            *)
(*                                                                         *)
(* The threads run programs that follow the rules of the API: a thread     *)
(* receives only after it was told that it can, and frees every message    *)
(* once.  The n-th message to arrive is the number n, and every flit of it *)
(* holds n.  Of the transmit unit only its effect on a thread, to make it  *)
(* able to send again, is part of this module; waiting for idleness is in  *)
(* IdleDetector.  Requests to free wait in one queue, in order of issue.   *)
(***************************************************************************)
EXTENDS Integers, Sequences, FiniteSets

CONSTANTS
  NumCores, ThreadsPerCore,
  NumSlots,          \* 2^LogMsgsPerMailbox
  NumSendSlots,      \* slots reserved for sending, the first ones
  QueueSize,         \* 2^LogMsgPtrQueueSize
  McastBufferSize,   \* 2^LogMulticastBufferSize
  MaxFlits,          \* MaxFlitsPerMsg
  MaxMsgs,           \* bound: messages that arrive in all
  Lengths,           \* bound: the numbers of flits that messages have
  DestSets,          \* bound: the sets of threads that messages go to
  Senders            \* bound: the threads whose programs send

Cores == 0 .. NumCores - 1
Threads == 0 .. NumCores * ThreadsPerCore - 1
CoreOf(t) == t \div ThreadsPerCore
ThreadsOn(c) == {t \in Threads : CoreOf(t) = c}
Slots == NumSendSlots .. NumSlots - 1

ASSUME MailboxAssumption ==
  /\ NumCores \in Nat \ {0} /\ ThreadsPerCore \in Nat \ {0}
  /\ NumSendSlots \in Nat /\ NumSlots \in Nat /\ NumSendSlots < NumSlots
  /\ QueueSize \in Nat /\ QueueSize > 1
  /\ McastBufferSize \in Nat \ {0}
  /\ MaxFlits \in Nat \ {0} /\ MaxMsgs \in Nat
  /\ Lengths \subseteq 1 .. MaxFlits
  /\ DestSets \subseteq ((SUBSET Threads) \ {{}}) /\ Senders \subseteq Threads

VARIABLES
  \* threads
  suspended,    \* the thread waits for an answer of the mailbox
  sure,         \* the thread was told that it can receive
  canSend,      \* canThreadSend
  held,         \* slots received and not freed, with the message found there
  \* mailbox
  initNext,     \* freeSlotsInitNext
  freeSlots,
  scratchpad,   \* flits of each slot
  recvFlitCount, refCount,
  mcastBuffer, mcastState, mcastDests, mcastSlot, mcastDest,
  enqStage2,    \* the item an enqueue of the queue array is busy with
  ramFront, ramBack, ramData,
  rxReq, serveState, canDeq, itemOut, recvResp,
  freeReq, freeState, refCountOut,
  \* client units
  sleepQueue,
  \* history, see LocalMulticast
  arrived, got

thrVars == <<suspended, sure, canSend, held>>
recvVars == <<freeSlots, scratchpad, recvFlitCount, refCount>>
mcastVars == <<mcastBuffer, mcastState, mcastDests, mcastSlot, mcastDest>>
queueVars == <<enqStage2, ramFront, ramBack, ramData>>
serveVars == <<rxReq, serveState, canDeq, itemOut, recvResp>>
freeVars == <<freeReq, freeState, refCountOut>>
vars == <<thrVars, initNext, recvVars, mcastVars, queueVars, serveVars,
          freeVars, sleepQueue, arrived, got>>

\* Stands for the contents of a register or RAM entry that will be written
\* before it is read again: what is left there is forgotten.
Stale == NumSendSlots

\* SleepStatus
Status(t, op, e) == [id |-> t, op |-> op, wakeEvent |-> e, canRecv |-> FALSE]
Events == {"send", "recv"}

Init ==
  /\ suspended = [t \in Threads |-> FALSE]
  /\ sure = [t \in Threads |-> FALSE]
  /\ canSend = [t \in Threads |-> TRUE]
  /\ held = [t \in Threads |-> {}]
  /\ initNext = NumSendSlots
  /\ freeSlots = <<>>
  /\ scratchpad = [s \in Slots |-> [i \in 0 .. MaxFlits - 1 |-> 0]]
  /\ recvFlitCount = 0
  /\ refCount = [s \in Slots |-> 0]
  /\ mcastBuffer = [c \in Cores |-> <<>>]
  /\ mcastState = [c \in Cores |-> 0]
  /\ mcastDests = [c \in Cores |-> {}]
  /\ mcastSlot = [c \in Cores |-> Stale]
  /\ mcastDest = [c \in Cores |-> 0]
  /\ enqStage2 = [c \in Cores |-> <<>>]
  /\ ramFront = [t \in Threads |-> 0]
  /\ ramBack = [t \in Threads |-> 0]
  /\ ramData = [t \in Threads |-> [i \in 0 .. QueueSize - 1 |-> Stale]]
  /\ rxReq = [c \in Cores |-> <<>>]
  /\ serveState = [c \in Cores |-> 0]
  /\ canDeq = [c \in Cores |-> FALSE]
  /\ itemOut = [c \in Cores |-> Stale]
  /\ recvResp = [c \in Cores |-> <<>>]
  /\ freeReq = <<>> /\ freeState = 0 /\ refCountOut = 0
  /\ sleepQueue = [c \in Cores |-> <<>>]
  /\ arrived = <<>>
  /\ got = [t \in Threads |-> <<>>]

-----------------------------------------------------------------------------
(* Arrival of messages                                                     *)

FreeSlotsInitDone == initNext = NumSlots

\* initFreeSlots1: the slots not reserved for sending are made free.
InitFreeSlots ==
  /\ ~ FreeSlotsInitDone
  /\ freeSlots' = Append(freeSlots, initNext)
  /\ initNext' = initNext + 1
  /\ UNCHANGED <<thrVars, scratchpad, recvFlitCount, refCount, mcastVars,
                 queueVars, serveVars, freeVars, sleepQueue, arrived, got>>

\* receive0: every multicast buffer has room and there is a free slot.
CanRecv == /\ \A c \in Cores : Len(mcastBuffer[c]) < McastBufferSize
           /\ freeSlots # <<>>

\* The message that is arriving.
Msg == Len(arrived) + 1

\* receive0, a flit that is not the final one.
ReceiveFlit ==
  /\ Len(arrived) < MaxMsgs
  /\ CanRecv
  /\ \E len \in Lengths : recvFlitCount + 1 < len
  /\ scratchpad' = [scratchpad EXCEPT ![Head(freeSlots)][recvFlitCount] = Msg]
  /\ recvFlitCount' = recvFlitCount + 1
  /\ UNCHANGED <<thrVars, initNext, freeSlots, refCount, mcastVars, queueVars,
                 serveVars, freeVars, sleepQueue, arrived, got>>

\* Fault for the mutation check: the reference count of a unicast message.
RefCountUnicast(dests) == 1

\* countOnes(destThreads)
RefCount(dests) == Cardinality(dests)

\* receive0, the final flit, and updateRefCount in the next cycle, long
\* before any thread can see the message.
ReceiveFinalFlit(dests) ==
  LET slot == Head(freeSlots) IN
  /\ Len(arrived) < MaxMsgs
  /\ CanRecv
  /\ recvFlitCount + 1 \in Lengths
  /\ scratchpad' = [scratchpad EXCEPT ![slot][recvFlitCount] = Msg]
  /\ recvFlitCount' = 0
  /\ freeSlots' = Tail(freeSlots)
  /\ mcastBuffer' = [c \in Cores |->
       IF dests \cap ThreadsOn(c) = {} THEN mcastBuffer[c]
       ELSE Append(mcastBuffer[c],
                   [dests |-> dests \cap ThreadsOn(c), slot |-> slot])]
  /\ refCount' = [refCount EXCEPT ![slot] = RefCount(dests)]
  /\ arrived' = Append(arrived, dests)
  /\ UNCHANGED <<thrVars, initNext, mcastState, mcastDests, mcastSlot,
                 mcastDest, queueVars, serveVars, freeVars, sleepQueue, got>>

-----------------------------------------------------------------------------
(* Multicast: from the buffer of a core to the queues of its threads       *)

Mcast0(c) ==
  /\ mcastState[c] = 0
  /\ mcastBuffer[c] # <<>>
  /\ mcastBuffer' = [mcastBuffer EXCEPT ![c] = Tail(@)]
  /\ mcastDests' = [mcastDests EXCEPT ![c] = Head(mcastBuffer[c]).dests]
  /\ mcastSlot' = [mcastSlot EXCEPT ![c] = Head(mcastBuffer[c]).slot]
  /\ mcastState' = [mcastState EXCEPT ![c] = 1]
  /\ UNCHANGED <<thrVars, initNext, recvVars, mcastDest, queueVars, serveVars,
                 freeVars, sleepQueue, arrived, got>>

\* The lowest thread of those still to be served.
FirstHot(dests) == CHOOSE t \in dests : \A u \in dests : t <= u

Mcast1(c) ==
  /\ mcastState[c] = 1
  /\ mcastDest' = [mcastDest EXCEPT ![c] = FirstHot(mcastDests[c])]
  /\ mcastDests' = [mcastDests EXCEPT ![c] = @ \ {FirstHot(@)}]
  /\ mcastState' = [mcastState EXCEPT ![c] = 2]
  /\ UNCHANGED <<thrVars, initNext, recvVars, mcastBuffer, mcastSlot,
                 queueVars, serveVars, freeVars, sleepQueue, arrived, got>>

\* Fault for the mutation check: the buffer entry is done after one thread.
AfterMcastFirstOnly(dests) == 0

AfterMcast(dests) == IF dests = {} THEN 0 ELSE 1

\* mcast2 and, in the queue array, enqStage1.
Mcast2(c) ==
  /\ mcastState[c] = 2
  /\ enqStage2[c] = <<>>
  /\ enqStage2' = [enqStage2 EXCEPT ![c] = <<mcastDest[c], mcastSlot[c]>>]
  /\ mcastState' = [mcastState EXCEPT ![c] = AfterMcast(mcastDests[c])]
  /\ mcastSlot' = [mcastSlot EXCEPT ![c] =
                     IF AfterMcast(mcastDests[c]) = 0 THEN Stale ELSE @]
  /\ mcastDest' = [mcastDest EXCEPT ![c] = 0]
  /\ UNCHANGED <<thrVars, initNext, recvVars, mcastBuffer, mcastDests,
                 ramFront, ramBack, ramData, serveVars,
                 freeVars, sleepQueue, arrived, got>>

Inc(ptr) == (ptr + 1) % QueueSize

\* Fault for the mutation check: a queue is never full.
NeverFull(t) == FALSE

Full(t) == Inc(ramBack[t]) = ramFront[t]

\* enqStage2, once the queue has room; until then it tries again.
EnqStage2(c) ==
  /\ enqStage2[c] # <<>>
  /\ LET t == enqStage2[c][1] IN
     /\ ~ Full(t)
     /\ ramData' = [ramData EXCEPT ![t][ramBack[t]] = enqStage2[c][2]]
     /\ ramBack' = [ramBack EXCEPT ![t] = Inc(@)]
  /\ enqStage2' = [enqStage2 EXCEPT ![c] = <<>>]
  /\ UNCHANGED <<thrVars, initNext, recvVars, mcastVars, ramFront, serveVars,
                 freeVars, sleepQueue, arrived, got>>

-----------------------------------------------------------------------------
(* Receive unit: one request of a core at a time                           *)

\* The queues that connect a client unit with the mailbox (mkUGQueue).
PortDepth == 2

\* serveReceive, state 0: read the pointers of the thread's queue (tryDeq).
Serve0(c) ==
  /\ rxReq[c] # <<>> /\ Len(recvResp[c]) < PortDepth
  /\ serveState[c] = 0
  /\ LET t == Head(rxReq[c]).id IN
       canDeq' = [canDeq EXCEPT ![c] = ramFront[t] # ramBack[t]]
  /\ serveState' = [serveState EXCEPT ![c] =
                      IF Head(rxReq[c]).op = "Recv" THEN 1 ELSE 2]
  /\ UNCHANGED <<thrVars, initNext, recvVars, mcastVars, queueVars, rxReq,
                 itemOut, recvResp, freeVars, sleepQueue, arrived, got>>

\* state 1: take the item (doDeq).  canDeq is valid for one cycle only.
Serve1(c) ==
  /\ serveState[c] = 1
  /\ LET t == Head(rxReq[c]).id IN
     /\ itemOut' = [itemOut EXCEPT ![c] = ramData[t][ramFront[t]]]
     /\ ramData' = [ramData EXCEPT ![t][ramFront[t]] = Stale]
     /\ ramFront' = [ramFront EXCEPT ![t] = Inc(@)]
  /\ canDeq' = [canDeq EXCEPT ![c] = FALSE]
  /\ serveState' = [serveState EXCEPT ![c] = 2]
  /\ UNCHANGED <<thrVars, initNext, recvVars, mcastVars, enqStage2, ramBack,
                 rxReq, recvResp, freeVars, sleepQueue, arrived, got>>

\* state 2: answer.  The data of an answer to anything but Recv is not used.
Serve2(c) ==
  /\ serveState[c] = 2
  /\ recvResp' = [recvResp EXCEPT ![c] = Append(@,
       [status |-> [Head(rxReq[c]) EXCEPT !.canRecv = canDeq[c]],
        data   |-> itemOut[c]])]
  /\ rxReq' = [rxReq EXCEPT ![c] = Tail(@)]
  /\ canDeq' = [canDeq EXCEPT ![c] = FALSE]
  /\ itemOut' = [itemOut EXCEPT ![c] = Stale]
  /\ serveState' = [serveState EXCEPT ![c] = 0]
  /\ UNCHANGED <<thrVars, initNext, recvVars, mcastVars, queueVars, freeVars,
                 sleepQueue, arrived, got>>

-----------------------------------------------------------------------------
(* Client unit                                                             *)

\* respond: the answer to a receive or can-receive instruction resumes the
\* thread.
Respond(c) ==
  /\ recvResp[c] # <<>>
  /\ LET st == Head(recvResp[c]).status
         t == st.id
         slot == Head(recvResp[c]).data IN
     /\ st.op # "WaitUntil"
     /\ suspended' = [suspended EXCEPT ![t] = FALSE]
     /\ \/ /\ st.op = "CanRecv"
           /\ sure' = [sure EXCEPT ![t] = st.canRecv]
           /\ UNCHANGED <<held, got>>
        \/ /\ st.op = "Recv"
           /\ sure' = [sure EXCEPT ![t] = FALSE]
           /\ held' = [held EXCEPT ![t] =
                         @ \cup {[slot |-> slot, flits |-> scratchpad[slot]]}]
           /\ got' = [got EXCEPT ![t] = Append(@, scratchpad[slot][0])]
  /\ recvResp' = [recvResp EXCEPT ![c] = Tail(@)]
  /\ UNCHANGED <<canSend, initNext, recvVars, mcastVars, queueVars, rxReq,
                 serveState, canDeq, itemOut, freeVars, sleepQueue, arrived>>

\* wakeup2: the answer to a request of the wakeup unit.
Wakeup2(c) ==
  /\ recvResp[c] # <<>>
  /\ Head(recvResp[c]).status.op = "WaitUntil"
  /\ sleepQueue' = [sleepQueue EXCEPT ![c] =
                      Append(@, Head(recvResp[c]).status)]
  /\ recvResp' = [recvResp EXCEPT ![c] = Tail(@)]
  /\ UNCHANGED <<thrVars, initNext, recvVars, mcastVars, queueVars, rxReq,
                 serveState, canDeq, itemOut, freeVars, arrived, got>>

\* Fault for the mutation check: a woken thread is told all events it waits
\* for, not only those that have come.
EventMatchUnmasked(st) ==
  IF \E e \in st.wakeEvent : IF e = "send" THEN canSend[st.id] ELSE st.canRecv
  THEN st.wakeEvent ELSE {}

\* The events the sleeping thread waits for that have come.
EventMatch(st) ==
  {e \in st.wakeEvent : IF e = "send" THEN canSend[st.id] ELSE st.canRecv}

\* Fault for the mutation check: only one look at the queue of the thread.
MustAskOnce(st) == st.op # "WaitUntil"

\* The receive unit has to be asked on behalf of the sleeping thread.
MustAsk(st) ==
  \/ st.op # "WaitUntil"
  \/ EventMatch(st) = {} /\ ~ st.canRecv /\ "recv" \in st.wakeEvent

\* Fault for the mutation check: a thread that cannot be woken yet is dropped.
RequeueDropped(queue) == Tail(queue)

\* Retry later.
Requeue(queue) == Append(Tail(queue), Head(queue))

\* wakeup1: the thread at the front of the sleep queue.
Wakeup1(c) ==
  /\ sleepQueue[c] # <<>>
  /\ LET st == Head(sleepQueue[c]) IN
     \/ /\ MustAsk(st)
        /\ Len(rxReq[c]) < PortDepth
        /\ rxReq' = [rxReq EXCEPT ![c] = Append(@, st)]
        /\ sleepQueue' = [sleepQueue EXCEPT ![c] = Tail(@)]
        /\ UNCHANGED <<suspended, sure>>
     \/ /\ st.op = "WaitUntil" /\ EventMatch(st) # {}
        /\ suspended' = [suspended EXCEPT ![st.id] = FALSE]
        /\ sure' = [sure EXCEPT ![st.id] = @ \/ "recv" \in EventMatch(st)]
        /\ sleepQueue' = [sleepQueue EXCEPT ![c] = Tail(@)]
        /\ UNCHANGED rxReq
     \/ /\ st.op = "WaitUntil" /\ EventMatch(st) = {} /\ ~ MustAsk(st)
        /\ sleepQueue' = [sleepQueue EXCEPT ![c] = Requeue(@)]
        /\ UNCHANGED <<suspended, sure, rxReq>>
  /\ UNCHANGED <<canSend, held, initNext, recvVars, mcastVars, queueVars,
                 serveState, canDeq, itemOut, recvResp, freeVars, arrived,
                 got>>

-----------------------------------------------------------------------------
(* Instructions of a running thread                                        *)

\* WaitUntil, CanRecv and Recv suspend the thread (method sleep).
Sleep(t, op, e) ==
  /\ ~ suspended[t]
  /\ op = "Recv" => sure[t]
  /\ suspended' = [suspended EXCEPT ![t] = TRUE]
  /\ sleepQueue' = [sleepQueue EXCEPT ![CoreOf(t)] =
                      Append(@, Status(t, op, e))]
  /\ UNCHANGED <<sure, canSend, held, initNext, recvVars, mcastVars,
                 queueVars, serveVars, freeVars, arrived, got>>

Free(t, h) ==
  /\ ~ suspended[t]
  /\ h \in held[t]
  /\ held' = [held EXCEPT ![t] = @ \ {h}]
  /\ freeReq' = Append(freeReq, h.slot)
  /\ UNCHANGED <<suspended, sure, canSend, initNext, recvVars, mcastVars,
                 queueVars, serveVars, freeState, refCountOut, sleepQueue,
                 arrived, got>>

\* method send: the thread cannot send again for now.
Send(t) ==
  /\ ~ suspended[t]
  /\ t \in Senders
  /\ canSend[t]
  /\ canSend' = [canSend EXCEPT ![t] = FALSE]
  /\ UNCHANGED <<suspended, sure, held, initNext, recvVars, mcastVars,
                 queueVars, serveVars, freeVars, sleepQueue, arrived, got>>

\* rule transmit, a response of the transmit unit.
TransmitResponse(t) ==
  /\ ~ canSend[t]
  /\ canSend' = [canSend EXCEPT ![t] = TRUE]
  /\ UNCHANGED <<suspended, sure, held, initNext, recvVars, mcastVars,
                 queueVars, serveVars, freeVars, sleepQueue, arrived, got>>

-----------------------------------------------------------------------------
(* Free unit                                                               *)

\* rule free, state 0: read the reference count.
FreeRead ==
  /\ freeReq # <<>> /\ FreeSlotsInitDone
  /\ freeState = 0
  /\ refCountOut' = refCount[Head(freeReq)]
  /\ freeState' = 1
  /\ UNCHANGED <<thrVars, initNext, recvVars, mcastVars, queueVars, serveVars,
                 freeReq, sleepQueue, arrived, got>>

\* Fault for the mutation check: the slot is free one reference too early.
LastRefEarly(count) == count <= 2

LastRef(count) == count = 1

\* rule free, state 1: write it back and recycle the slot.
FreeWrite ==
  /\ freeReq # <<>>
  /\ freeState = 1
  /\ refCount' = [refCount EXCEPT ![Head(freeReq)] = refCountOut - 1]
  /\ freeSlots' = IF LastRef(refCountOut)
                    THEN Append(freeSlots, Head(freeReq)) ELSE freeSlots
  /\ freeReq' = Tail(freeReq)
  /\ freeState' = 0
  /\ refCountOut' = 0
  /\ UNCHANGED <<thrVars, initNext, scratchpad, recvFlitCount, mcastVars,
                 queueVars, serveVars, sleepQueue, arrived, got>>

-----------------------------------------------------------------------------

\* The thread asks whether there is a message for it, or waits for one.
Poll(t) ==
  \/ Sleep(t, "CanRecv", {})
  \/ Sleep(t, "WaitUntil", {"recv"})

ThreadStep(t) ==
  \/ Poll(t)
  \/ t \in Senders /\ \E e \in {{"send"}, Events} : Sleep(t, "WaitUntil", e)
  \/ Sleep(t, "Recv", {})
  \/ \E h \in held[t] : Free(t, h)
  \/ Send(t) \/ TransmitResponse(t)

CoreStep(c) ==
  \/ Mcast0(c) \/ Mcast1(c) \/ Mcast2(c) \/ EnqStage2(c)
  \/ Serve0(c) \/ Serve1(c) \/ Serve2(c)
  \/ Respond(c) \/ Wakeup1(c) \/ Wakeup2(c)

Next ==
  \/ InitFreeSlots
  \/ ReceiveFlit
  \/ \E dests \in DestSets : ReceiveFinalFlit(dests)
  \/ \E c \in Cores : CoreStep(c)
  \/ FreeRead \/ FreeWrite
  \/ \E t \in Threads : ThreadStep(t)

Spec == Init /\ [][Next]_vars

(***************************************************************************)
(* Fairness: every rule of the mailbox and of the client units fires when  *)
(* it can, and the transmit unit answers.  In addition the programs keep   *)
(* polling for messages and receive those they are told of.                *)
(* Waiting for either event is not enough of a poll: a thread that can     *)
(* send is then woken for that and the queue is not looked at.             *)
(***************************************************************************)
HardwareFairness ==
  /\ WF_vars(InitFreeSlots) /\ WF_vars(FreeRead) /\ WF_vars(FreeWrite)
  /\ \A c \in Cores :
       /\ WF_vars(Mcast0(c)) /\ WF_vars(Mcast1(c)) /\ WF_vars(Mcast2(c))
       /\ WF_vars(EnqStage2(c))
       /\ WF_vars(Serve0(c)) /\ WF_vars(Serve1(c)) /\ WF_vars(Serve2(c))
       /\ WF_vars(Respond(c)) /\ WF_vars(Wakeup1(c)) /\ WF_vars(Wakeup2(c))
  /\ \A t \in Threads : WF_vars(TransmitResponse(t))

ProgramFairness == \A t \in Threads :
  SF_vars(Poll(t)) /\ SF_vars(Sleep(t, "Recv", {}))

FairSpec == Spec /\ HardwareFairness /\ ProgramFairness

-----------------------------------------------------------------------------
(* Properties                                                              *)

SleepStatus == [id : Threads, op : {"CanRecv", "Recv", "WaitUntil"},
                wakeEvent : SUBSET Events, canRecv : BOOLEAN]

\* Every register has its type.
TypeOK ==
  /\ suspended \in [Threads -> BOOLEAN] /\ sure \in [Threads -> BOOLEAN]
  /\ canSend \in [Threads -> BOOLEAN]
  /\ held \in [Threads -> SUBSET [slot : Slots,
                                 flits : [0 .. MaxFlits - 1 -> Nat]]]
  /\ initNext \in NumSendSlots .. NumSlots
  /\ freeSlots \in Seq(Slots)
  /\ scratchpad \in [Slots -> [0 .. MaxFlits - 1 -> Nat]]
  /\ recvFlitCount \in 0 .. MaxFlits - 1
  /\ refCount \in [Slots -> 0 .. NumCores * ThreadsPerCore]
  /\ mcastBuffer \in [Cores -> Seq([dests : SUBSET Threads, slot : Slots])]
  /\ mcastState \in [Cores -> 0 .. 2]
  /\ mcastDests \in [Cores -> SUBSET Threads]
  /\ mcastSlot \in [Cores -> Slots] /\ mcastDest \in [Cores -> Threads]
  /\ enqStage2 \in [Cores -> {<<>>} \cup (Threads \X Slots)]
  /\ ramFront \in [Threads -> 0 .. QueueSize - 1]
  /\ ramBack \in [Threads -> 0 .. QueueSize - 1]
  /\ ramData \in [Threads -> [0 .. QueueSize - 1 -> Slots]]
  /\ rxReq \in [Cores -> Seq(SleepStatus)]
  /\ serveState \in [Cores -> 0 .. 2] /\ canDeq \in [Cores -> BOOLEAN]
  /\ itemOut \in [Cores -> Slots]
  /\ recvResp \in [Cores -> Seq([status : SleepStatus, data : Slots])]
  /\ freeReq \in Seq(Slots) /\ freeState \in 0 .. 1
  /\ refCountOut \in 0 .. NumCores * ThreadsPerCore
  /\ sleepQueue \in [Cores -> Seq(SleepStatus)]
  /\ arrived \in Seq(SUBSET Threads) /\ got \in [Threads -> Seq(Nat)]

\* Where thread t is on its way to or from the receive unit.
Places(t) ==
  LET c == CoreOf(t) IN
    Cardinality({i \in 1 .. Len(sleepQueue[c]) : sleepQueue[c][i].id = t})
    + Cardinality({i \in 1 .. Len(rxReq[c]) : rxReq[c][i].id = t})
    + Cardinality({i \in 1 .. Len(recvResp[c]) : recvResp[c][i].status.id = t})

\* A suspended thread is in exactly one of the sleep queue, a request and a
\* response, and a running one in none: no thread is lost or woken twice, and
\* the assertion "sleep violation" (sleep queue full) never fails.
OnePlace == \A t \in Threads : Places(t) = IF suspended[t] THEN 1 ELSE 0

\* The entries of the queue of thread t.
Queued(t) == {i \in 0 .. QueueSize - 1 :
                (i - ramFront[t]) % QueueSize
                  < (ramBack[t] - ramFront[t]) % QueueSize}

\* A Recv whose item has left the queue and not yet reached the thread.
Taken(c) == IF serveState[c] = 2 /\ Head(rxReq[c]).op = "Recv"
              THEN {itemOut[c]} ELSE {}

\* The threads that have, or are on the way to get, a reference to slot s.
Referring(s) == {t \in Threads :
  LET c == CoreOf(t) IN
  \/ \E i \in 1 .. Len(mcastBuffer[c]) :
       mcastBuffer[c][i].slot = s /\ t \in mcastBuffer[c][i].dests
  \/ mcastState[c] # 0 /\ mcastSlot[c] = s /\ t \in mcastDests[c]
  \/ mcastState[c] = 2 /\ mcastSlot[c] = s /\ t = mcastDest[c]
  \/ enqStage2[c] = <<t, s>>
  \/ \E i \in Queued(t) : ramData[t][i] = s
  \/ s \in Taken(c) /\ Head(rxReq[c]).id = t
  \/ \E i \in 1 .. Len(recvResp[c]) :
       /\ recvResp[c][i].status.op = "Recv" /\ recvResp[c][i].status.id = t
       /\ recvResp[c][i].data = s
  \/ \E h \in held[t] : h.slot = s}

Occurrences(seq, s) == Cardinality({i \in 1 .. Len(seq) : seq[i] = s})

\* The reference count of a slot is the number of threads that still have to
\* see or free its message plus the frees on their way, and a slot is in the
\* free list exactly if that number is zero, once: no slot leaks, none is
\* recycled early, and the assertion "freeSlots full" never fails.
SlotsAccounted == \A s \in Slots :
  /\ refCount[s] = Cardinality(Referring(s)) + Occurrences(freeReq, s)
  /\ Occurrences(freeSlots, s) =
       IF s < initNext /\ refCount[s] = 0 THEN 1 ELSE 0

\* A message does not change while a thread holds it, whatever arrives
\* meanwhile.
HeldIntact == \A t \in Threads : \A h \in held[t] :
  scratchpad[h.slot] = h.flits

\* The assertion "Receiving when not ready" never fails for a thread that was
\* told that it can receive.
ReceiveReady == \A c \in Cores : serveState[c] = 1 => canDeq[c]

LM == INSTANCE LocalMulticast

\* Every thread receives the messages for it, each once and in order.
Multicast == LM!Spec

\* A thread that waits for a message is woken when there is one in its queue,
\* even if that comes between two looks at the queue.
NoLostWakeup == \A t \in Threads :
  suspended[t] /\ Queued(t) # {} ~> ~ suspended[t]

\* If the threads keep freeing what they hold, the mailbox is ready for another
\* flit again and again, although one slow thread can hold up the multicast of
\* a whole core.
EventuallyReady ==
  (\A t \in Threads : []<>(held[t] = {})) => []<>CanRecv
=============================================================================
