--------------------------- MODULE LocalMulticast ---------------------------
(***************************************************************************)
(* What a mailbox promises the threads it serves (mailbox-local multicast  *)
(* of rtl/Mailbox.bsv): messages arrive one after the other, each for a    *)
(* set of threads, and every thread receives the messages for it, each     *)
(* once and in order of arrival.  The n-th message to arrive is n.         *)
(***************************************************************************)
EXTENDS Naturals, Sequences

CONSTANT Threads

VARIABLES arrived,   \* the destinations of the messages so far
          got        \* the messages each thread has received

vars == <<arrived, got>>

\* The messages for thread t, and those that it has yet to receive.
For(t) == {m \in 1 .. Len(arrived) : t \in arrived[m]}
Due(t) == For(t) \ {got[t][i] : i \in DOMAIN got[t]}

Init == /\ arrived = <<>>
        /\ got = [t \in Threads |-> <<>>]

Arrive(dests) == /\ arrived' = Append(arrived, dests)
                 /\ UNCHANGED got

\* The next one is the first to have arrived.
Receive(t) == /\ \E m \in Due(t) :
                   /\ \A n \in Due(t) : m <= n
                   /\ got' = [got EXCEPT ![t] = Append(@, m)]
              /\ UNCHANGED arrived

Next == \/ \E dests \in SUBSET Threads : Arrive(dests)
        \/ \E t \in Threads : Receive(t)

Spec == Init /\ [][Next]_vars
=============================================================================
