----------------------------- MODULE ByteStream -----------------------------
(***************************************************************************)
(* What the outbound side of a stream connection promises, independent of *)
(* how it stores its data: the application appends runs of bytes, and the *)
(* socket carries a prefix of what is still queued to the peer.  Bytes    *)
(* are named by their position in the stream (1, 2, 3, ...), so the       *)
(* promise "in order, no loss, no duplication" is simply that what the    *)
(* peer has received followed by what is still queued is 1..N.            *)
(*                                                                         *)
(* ConnectionDescriptor (Connection.tla) implements this specification    *)
(* under the mapping queued <- the unsent bytes of its outbound pages.    *)
(***************************************************************************)
EXTENDS Naturals, Sequences

VARIABLES
    queued,   \* bytes accepted from the application and not yet sent
    sent      \* bytes the socket has carried to the peer, in order

Positions(from, n) == [i \in 1..n |-> from + i - 1]

Init ==
    /\ queued = <<>>
    /\ sent = <<>>

(* The application hands n fresh bytes to the connection. *)
Enqueue(n) ==
    /\ n > 0
    /\ queued' = queued \o Positions(Len(sent) + Len(queued) + 1, n)
    /\ UNCHANGED sent

(* The socket carries the first k queued bytes. *)
Transmit(k) ==
    /\ k \in 1..Len(queued)
    /\ sent' = sent \o SubSeq(queued, 1, k)
    /\ queued' = SubSeq(queued, k + 1, Len(queued))

(* The bound on n is only there so that TLC can enumerate it: an append *)
(* never makes the queue longer than it is afterwards.                  *)
Next ==
    \/ \E n \in 1..Len(queued') : Enqueue(n)
    \/ \E k \in 1..Len(queued) : Transmit(k)

Spec == Init /\ [][Next]_<<queued, sent>>

=============================================================================
