------------------------------ MODULE Datagram ------------------------------
(***************************************************************************)
(* One DatagramDescriptor (src/ext/ed.cpp) as the reactor drives it: the  *)
(* close-state machine of EventableDescriptor, the per-message outbound   *)
(* queue filled by SendOutboundData and SendOutboundDatagram and drained  *)
(* by Write in bursts, the read burst whose callbacks may reply, the      *)
(* inactivity heartbeat, and deletion once ShouldDelete() holds.           *)
(*                                                                         *)
(* A datagram is named by the order in which the application queued it;  *)
(* its payload is abstracted to its length, which matters because         *)
(* OutboundDataSize, and so ShouldDelete, counts bytes and not pages.     *)
(* Addresses are left out: each page carries the address it was queued    *)
(* with and nothing here depends on it.  Time is abstracted: an armed     *)
(* inactivity timeout may expire at any heartbeat.                         *)
(***************************************************************************)
EXTENDS Naturals, Sequences, SequencesExt

CONSTANTS
    MaxDatagrams,   \* datagrams the application queues over one behaviour
    Lengths,        \* payload lengths (0 is a legal datagram)
    ReadBurst,      \* datagrams read per Read (10 in the code)
    WriteBurst      \* datagrams sent per Write (10 in the code)

ASSUME MaxDatagrams \in Nat /\ Lengths \subseteq Nat
ASSUME ReadBurst \in Nat \ {0} /\ WriteBurst \in Nat \ {0}

VARIABLES
    MySocketValid,          \* MySocket != INVALID_SOCKET (still registered)
    bCloseNow,
    bCloseAfterWriting,
    OutboundPages,          \* deque of [id, len] (OutboundPage)
    OutboundDataSize,
    epollOut,               \* EPOLLOUT bit of EpollEvent.events
    InactivityTimeoutSet,   \* InactivityTimeout != 0
    UnbindReasonCode,
    deleted,                \* the reactor has run the destructor
    nextId,                 \* name of the next datagram queued
    wire,                   \* datagrams sendto handed to the kernel, in order
    stranded                \* pages the destructor freed unsent

vars == <<MySocketValid, bCloseNow, bCloseAfterWriting, OutboundPages,
          OutboundDataSize, epollOut, InactivityTimeoutSet, UnbindReasonCode,
          deleted, nextId, wire, stranded>>

(* The results of one sendto: sent, a transient error (EWOULDBLOCK,      *)
(* EINTR, EINPROGRESS), or any other error.                              *)
Outcomes == {"sent", "transient", "fatal"}

Total(lens) == FoldLeft(LAMBDA acc, n : acc + n, 0, lens)

Bytes(pages) == Total([i \in DOMAIN pages |-> pages[i].len])

Ids(pages) == [i \in DOMAIN pages |-> pages[i].id]

(* Fault variant of SelectForWrite: the test before 15Nov07, on the     *)
(* byte count, which is 0 for a queue of empty datagrams.                *)
SelectForWrite_Size(pages, size) == size > 0

(* DatagramDescriptor::SelectForWrite: any page, even an empty one. *)
SelectForWrite(pages, size) == pages # <<>>

IsCloseScheduled == bCloseNow \/ bCloseAfterWriting

(* EventableDescriptor::ShouldDelete, with the outbound size of a        *)
(* datagram socket.                                                       *)
ShouldDelete ==
    ~MySocketValid \/ bCloseNow \/ (bCloseAfterWriting /\ OutboundDataSize <= 0)

(* EventableDescriptor::ScheduleClose: a second request can only make an *)
(* after-writing close immediate.                                        *)
ScheduleClose(afterWriting) ==
    IF IsCloseScheduled
    THEN /\ bCloseNow' = (bCloseNow \/ ~afterWriting)
         /\ UNCHANGED bCloseAfterWriting
    ELSE /\ bCloseNow' = ~afterWriting
         /\ bCloseAfterWriting' = afterWriting

(* Fault variant of QueueDatagrams: the interest is set to EPOLLIN |     *)
(* EPOLLOUT before the test for a scheduled close, so a refused send     *)
(* still arms the socket for writing.                                    *)
QueueDatagrams_ArmFirst(lens) ==
    IF IsCloseScheduled \/ lens = <<>>
    THEN /\ epollOut' = (epollOut \/ lens # <<>>)
         /\ UNCHANGED <<OutboundPages, OutboundDataSize, nextId>>
    ELSE /\ nextId + Len(lens) <= MaxDatagrams + 1
         /\ OutboundPages' = OutboundPages \o
                [i \in DOMAIN lens |-> [id |-> nextId + i - 1, len |-> lens[i]]]
         /\ OutboundDataSize' = OutboundDataSize + Total(lens)
         /\ nextId' = nextId + Len(lens)
         /\ epollOut' = TRUE

(* SendOutboundData or SendOutboundDatagram for each length in lens, in  *)
(* order: refused once a close is scheduled; otherwise a page is pushed, *)
(* the size grows and the interest becomes EPOLLIN | EPOLLOUT through    *)
(* Modify, whether or not the socket is still registered.                *)
(* Close() schedules no close, so a socket closed by a fatal sendto       *)
(* error still accepts sends until it is deleted.                        *)
QueueDatagrams(lens) ==
    IF IsCloseScheduled \/ lens = <<>>
    THEN UNCHANGED <<OutboundPages, OutboundDataSize, epollOut, nextId>>
    ELSE /\ nextId + Len(lens) <= MaxDatagrams + 1
         /\ OutboundPages' = OutboundPages \o
                [i \in DOMAIN lens |-> [id |-> nextId + i - 1, len |-> lens[i]]]
         /\ OutboundDataSize' = OutboundDataSize + Total(lens)
         /\ nextId' = nextId + Len(lens)
         /\ epollOut' = TRUE

-----------------------------------------------------------------------------
(* The constructor registers the socket for EPOLLIN only. *)
Init ==
    /\ MySocketValid = TRUE
    /\ bCloseNow = FALSE /\ bCloseAfterWriting = FALSE
    /\ OutboundPages = <<>> /\ OutboundDataSize = 0
    /\ epollOut = FALSE
    /\ InactivityTimeoutSet = FALSE
    /\ UnbindReasonCode = "none"
    /\ deleted = FALSE
    /\ nextId = 1 /\ wire = <<>> /\ stranded = 0

(* DatagramDescriptor::Read: up to ReadBurst datagrams are received and  *)
(* dispatched one by one; the callback of each may reply through         *)
(* SendOutboundData, to the sender just recorded as ReturnAddress.       *)
(* replies are the lengths of those replies, in order.  A close the      *)
(* callback schedules part way is the AppClose that follows this step:  *)
(* it refuses the later replies just the same.                           *)
Read(replies) ==
    /\ ~deleted /\ MySocketValid
    /\ Len(replies) <= ReadBurst
    /\ QueueDatagrams(replies)
    /\ UNCHANGED <<MySocketValid, bCloseNow, bCloseAfterWriting,
                   InactivityTimeoutSet, UnbindReasonCode, deleted, wire,
                   stranded>>

(* The application sends one datagram to the last sender, outside a    *)
(* read callback (from a timer or another descriptor's callback).        *)
SendOutboundData(len) ==
    /\ ~deleted
    /\ QueueDatagrams(<<len>>)
    /\ UNCHANGED <<MySocketValid, bCloseNow, bCloseAfterWriting,
                   InactivityTimeoutSet, UnbindReasonCode, deleted, wire,
                   stranded>>

(* SendOutboundDatagram to an explicit address.  An empty address, port *)
(* 0 or an unresolvable name return before anything changes, so only    *)
(* the resolved case is a step.                                          *)
SendOutboundDatagram(len) == SendOutboundData(len)

(* Fault variant of Burst: OutboundDataSize is decreased only by the     *)
(* datagrams sendto actually carried.                                     *)
Burst_CountSent(k, outs) ==
    LET carried == SelectSeq([i \in 1..k |-> i], LAMBDA i : outs[i] = "sent")
    IN [rest    |-> SubSeq(OutboundPages, k + 1, Len(OutboundPages)),
        size    |-> OutboundDataSize -
                      Total([j \in DOMAIN carried |-> OutboundPages[carried[j]].len]),
        carried |-> [j \in DOMAIN carried |-> OutboundPages[carried[j]].id]]

(* Fault variant of Burst: a datagram that hit a transient error is put  *)
(* back at the end of the queue to be retried.                           *)
Burst_RequeueTransient(k, outs) ==
    LET carried == SelectSeq([i \in 1..k |-> i], LAMBDA i : outs[i] = "sent")
        retry   == SelectSeq([i \in 1..k |-> i], LAMBDA i : outs[i] = "transient")
        again   == [j \in DOMAIN retry |-> OutboundPages[retry[j]]]
    IN [rest    |-> SubSeq(OutboundPages, k + 1, Len(OutboundPages)) \o again,
        size    |-> OutboundDataSize - Bytes(SubSeq(OutboundPages, 1, k)) + Bytes(again),
        carried |-> [j \in DOMAIN carried |-> OutboundPages[carried[j]].id]]

(* The page bookkeeping of one Write burst over the first k pages with   *)
(* sendto results outs: every page is popped and its length subtracted,  *)
(* whatever sendto returned; those sent reach the kernel in order.       *)
Burst(k, outs) ==
    LET carried == SelectSeq([i \in 1..k |-> i], LAMBDA i : outs[i] = "sent")
    IN [rest    |-> SubSeq(OutboundPages, k + 1, Len(OutboundPages)),
        size    |-> OutboundDataSize - Bytes(SubSeq(OutboundPages, 1, k)),
        carried |-> [j \in DOMAIN carried |-> OutboundPages[carried[j]].id]]

(* DatagramDescriptor::Write, on EPOLLOUT readiness: up to WriteBurst    *)
(* pages are taken off the front (Burst); a fatal error records the      *)
(* reason, Close()s the socket and ends the burst.  The interest is then *)
(* recomputed and Modify called, with no test that the socket is still   *)
(* open.                                                                 *)
Write(k, outs) ==
    /\ ~deleted /\ MySocketValid /\ epollOut
    /\ k \in 1..Len(OutboundPages) /\ k <= WriteBurst
    /\ outs \in [1..k -> Outcomes]
    /\ \A i \in 1..(k - 1) : outs[i] # "fatal"
    /\ outs[k] = "fatal" \/ k = WriteBurst \/ k = Len(OutboundPages)
    /\ LET b     == Burst(k, outs)
           fatal == outs[k] = "fatal"
       IN /\ OutboundPages' = b.rest
          /\ OutboundDataSize' = b.size
          /\ wire' = wire \o b.carried
          /\ MySocketValid' = ~fatal
          /\ UnbindReasonCode' = IF fatal THEN "error" ELSE UnbindReasonCode
          /\ epollOut' = SelectForWrite(b.rest, b.size)
    /\ UNCHANGED <<bCloseNow, bCloseAfterWriting, InactivityTimeoutSet,
                   deleted, nextId, stranded>>

(* DatagramDescriptor::Heartbeat: an armed inactivity timeout that has   *)
(* expired schedules an immediate close.                                 *)
Heartbeat ==
    /\ ~deleted /\ InactivityTimeoutSet
    /\ ScheduleClose(FALSE)
    /\ UNCHANGED <<MySocketValid, OutboundPages, OutboundDataSize, epollOut,
                   InactivityTimeoutSet, UnbindReasonCode, deleted, nextId,
                   wire, stranded>>

(* DatagramDescriptor::SetCommInactivityTimeout: a positive value arms   *)
(* the timeout and queues the heartbeat; 0 is refused, so a datagram     *)
(* socket's timeout cannot be turned off once set.                       *)
SetCommInactivityTimeout ==
    /\ ~deleted
    /\ InactivityTimeoutSet' = TRUE
    /\ UNCHANGED <<MySocketValid, bCloseNow, bCloseAfterWriting, OutboundPages,
                   OutboundDataSize, epollOut, UnbindReasonCode, deleted,
                   nextId, wire, stranded>>

(* The application asks for a close (close_connection). *)
AppClose(afterWriting) ==
    /\ ~deleted
    /\ ScheduleClose(afterWriting)
    /\ UNCHANGED <<MySocketValid, OutboundPages, OutboundDataSize, epollOut,
                   InactivityTimeoutSet, UnbindReasonCode, deleted, nextId,
                   wire, stranded>>

(* The reactor deletes the descriptor once ShouldDelete() holds: the     *)
(* destructor frees the pages still queued and Close()s the socket.      *)
Delete ==
    /\ ~deleted /\ ShouldDelete
    /\ deleted' = TRUE
    /\ stranded' = Len(OutboundPages)
    /\ OutboundPages' = <<>> /\ OutboundDataSize' = 0
    /\ MySocketValid' = FALSE
    /\ UNCHANGED <<bCloseNow, bCloseAfterWriting, epollOut,
                   InactivityTimeoutSet, UnbindReasonCode, nextId, wire>>

Next ==
    \/ \E replies \in BoundedSeq(Lengths, ReadBurst) : Read(replies)
    \/ \E len \in Lengths : SendOutboundData(len) \/ SendOutboundDatagram(len)
    \/ \E k \in 1..WriteBurst, outs \in [1..WriteBurst -> Outcomes] :
          Write(k, [i \in 1..k |-> outs[i]])
    \/ Heartbeat
    \/ SetCommInactivityTimeout
    \/ \E aw \in BOOLEAN : AppClose(aw)
    \/ Delete

(* The reactor calls Write whenever the socket is writable and armed for *)
(* it, and deletes every descriptor whose ShouldDelete() holds on each   *)
(* pass; the outcome of each sendto is left to the network.              *)
Fairness ==
    /\ WF_vars(\E k \in 1..WriteBurst, outs \in [1..WriteBurst -> Outcomes] :
                  Write(k, [i \in 1..k |-> outs[i]]))
    /\ WF_vars(Delete)

Spec == Init /\ [][Next]_vars /\ Fairness

-----------------------------------------------------------------------------
TypeOK ==
    /\ MySocketValid \in BOOLEAN /\ deleted \in BOOLEAN
    /\ bCloseNow \in BOOLEAN /\ bCloseAfterWriting \in BOOLEAN
    /\ OutboundPages \in Seq([id : 1..MaxDatagrams, len : Lengths])
    /\ OutboundDataSize = Bytes(OutboundPages)
    /\ epollOut \in BOOLEAN /\ InactivityTimeoutSet \in BOOLEAN
    /\ UnbindReasonCode \in {"none", "error"}
    /\ nextId \in 1..(MaxDatagrams + 1)
    /\ wire \in Seq(1..MaxDatagrams)
    /\ stranded \in Nat

(* Write asserts OutboundPages.size() > 0 (ed.cpp:1971): whenever the    *)
(* open socket is armed for EPOLLOUT, a datagram is queued.  The interest *)
(* is set by the sends and recomputed at the end of every Write burst.   *)
WriteArmedOnlyWithPages ==
    (MySocketValid /\ ~deleted /\ epollOut) => OutboundPages # <<>>

(* Every datagram the application queues eventually leaves the queue,    *)
(* sent or dropped, even an empty one: the socket stays armed for writing *)
(* while any page is queued (the 15Nov07 fix to SelectForWrite).          *)
QueuedDatagramLeaves ==
    \A n \in 1..MaxDatagrams :
        (n \in ToSet(Ids(OutboundPages))) ~> (n \notin ToSet(Ids(OutboundPages)))

(* The outbound side implements DatagramChannel: what reaches the        *)
(* network is an ordered selection of what was queued.                   *)
Channel == INSTANCE DatagramChannel
               WITH issued <- nextId - 1, queue <- Ids(OutboundPages),
                    carried <- wire
DatagramRefinement == Channel!Spec

(* A close after writing is deferred until the outbound queue is empty    *)
(* (spec 4.1, ShouldDelete): a descriptor deleted by such a close, with   *)
(* no error and no immediate close, frees no unsent datagram.            *)
AfterWritingFlushes ==
    (deleted /\ bCloseAfterWriting /\ ~bCloseNow /\ UnbindReasonCode = "none")
        => stranded = 0

=============================================================================
