--------------------------- MODULE DatagramChannel ---------------------------
(***************************************************************************)
(* What the outbound side of a message socket promises: the application   *)
(* queues whole datagrams, named 1, 2, 3, ... in the order they are        *)
(* queued, and the socket takes them off the front of the queue.  Each     *)
(* datagram taken off is either carried to the network or discarded       *)
(* (a datagram is sent atomically or not at all), so what the network has *)
(* carried is an ordered selection of what was queued: never a datagram    *)
(* twice, never one out of order, never one that was not queued.          *)
(*                                                                         *)
(* DatagramDescriptor (Datagram.tla) implements this specification; one   *)
(* write burst or one teardown takes several datagrams at once, so a step *)
(* here removes a prefix of the queue.                                     *)
(***************************************************************************)
EXTENDS Naturals, Sequences, SequencesExt

VARIABLES
    issued,   \* how many datagrams the application has queued so far
    queue,    \* datagrams queued and not yet taken off
    carried   \* datagrams the socket has carried to the network, in order

(* The sequences that keep some of the elements of s, in their order. *)
Selections(s) ==
    { [j \in 1..Cardinality(D) |-> s[SetToSortSeq(D, <)[j]]] : D \in SUBSET DOMAIN s }

Init ==
    /\ issued = 0
    /\ queue = <<>>
    /\ carried = <<>>

(* The application queues n more datagrams. *)
Enqueue(n) ==
    /\ n > 0
    /\ queue' = queue \o [i \in 1..n |-> issued + i]
    /\ issued' = issued + n
    /\ UNCHANGED carried

(* The first k queued datagrams leave the queue; some of them, in order, *)
(* reach the network and the rest are discarded.                        *)
TakeFront(k) ==
    /\ k \in 1..Len(queue)
    /\ queue' = SubSeq(queue, k + 1, Len(queue))
    /\ \E t \in Selections(SubSeq(queue, 1, k)) : carried' = carried \o t
    /\ UNCHANGED issued

Next ==
    \/ \E n \in 1..(issued' - issued) : Enqueue(n)
    \/ \E k \in 1..Len(queue) : TakeFront(k)

Spec == Init /\ [][Next]_<<issued, queue, carried>>

=============================================================================
