----------------------------- MODULE Connection -----------------------------
(***************************************************************************)
(* One ConnectionDescriptor (src/ext/ed.cpp) as the reactor drives it:    *)
(* the close-state machine it inherits from EventableDescriptor, the      *)
(* pending-connect promotion, the outbound page queue filled by           *)
(* SendOutboundData and drained by writev in _WriteOutboundData, the      *)
(* read burst, pause/resume, the epoll interest recomputed by             *)
(* _UpdateEvents, and deletion by the reactor once ShouldDelete() holds.  *)
(*                                                                         *)
(* Data is abstracted to byte positions: the n-th byte the application    *)
(* sends is the number n, so a page is a run first..first+len-1 with a    *)
(* consumed offset.  Errno values are a few names.  The application's     *)
(* calls (send, close, pause, resume) are actions of their own, taken     *)
(* between reactor handlers; a pause made from inside a read callback is  *)
(* part of Read because it ends the burst.                                *)
(***************************************************************************)
EXTENDS Integers, Sequences, SequencesExt

CONSTANTS
    MaxBytes,     \* bytes the application sends over one behaviour
    MaxPageLen,   \* largest length passed to one SendOutboundData
    IovMax        \* pages gathered into one writev (16 in the code)

ASSUME MaxBytes \in Nat /\ MaxPageLen \in Nat \ {0} /\ IovMax \in Nat \ {0}

VARIABLES
    MySocketValid,        \* MySocket != INVALID_SOCKET (still registered)
    bCloseNow,
    bCloseAfterWriting,
    bConnectPending,
    bPaused,
    OutboundPages,        \* deque of [first, len, off] (OutboundPage)
    OutboundDataSize,
    epollIn,              \* EPOLLIN bit of EpollEvent.events
    epollOut,             \* EPOLLOUT bit of EpollEvent.events
    UnbindReasonCode,
    NumCloseScheduled,    \* the reactor's counter, for this descriptor
    deleted,              \* the reactor has run the destructor
    nextByte,             \* position of the next byte the application sends
    wire                  \* bytes writev has handed to the kernel, in order

vars == <<MySocketValid, bCloseNow, bCloseAfterWriting, bConnectPending,
          bPaused, OutboundPages, OutboundDataSize, epollIn, epollOut,
          UnbindReasonCode, NumCloseScheduled, deleted, nextByte, wire>>

closeVars == <<bCloseNow, bCloseAfterWriting, NumCloseScheduled>>

Reasons == {"none", "ECONNRESET", "ECONNREFUSED", "EPIPE"}

-----------------------------------------------------------------------------
(* Outbound pages *)

(* OutboundPage(buffer, length): a fresh page with Offset 0. *)
NewPage(first, len) == [first |-> first, len |-> len, off |-> 0]

(* The bytes of a page not yet written: Buffer + Offset .. Length - 1. *)
PageBytes(p) == [i \in 1..(p.len - p.off) |-> p.first + p.off + i - 1]

Unsent(pages) == FlattenSeq([i \in DOMAIN pages |-> PageBytes(pages[i])])

(* iovcnt: at most IovMax pages go into one writev. *)
IovCount == IF Len(OutboundPages) > IovMax THEN IovMax ELSE Len(OutboundPages)

(* The bytes the iovec array describes, in order. *)
Gathered == FlattenSeq([i \in 1..IovCount |-> PageBytes(OutboundPages[i])])

(* Fault variant of ConsumeSent: the partly sent page is requeued at the *)
(* back of the deque instead of the front.                                *)
RECURSIVE ConsumeSent_RequeueBack(_, _, _)
ConsumeSent_RequeueBack(ps, cnt, sent) ==
    IF cnt = 0 THEN ps
    ELSE LET rem == Head(ps).len - Head(ps).off IN
         IF rem <= sent THEN ConsumeSent_RequeueBack(Tail(ps), cnt - 1, sent - rem)
         ELSE Tail(ps) \o <<[Head(ps) EXCEPT !.off = @ + sent]>>

(* The page bookkeeping after writev sent `sent` bytes of the first cnt   *)
(* pages: whole pages are freed and popped, the first page sent in part   *)
(* (or not at all) has its offset advanced, and the loop stops there.     *)
RECURSIVE ConsumeSent(_, _, _)
ConsumeSent(ps, cnt, sent) ==
    IF cnt = 0 THEN ps
    ELSE LET rem == Head(ps).len - Head(ps).off IN
         IF rem <= sent THEN ConsumeSent(Tail(ps), cnt - 1, sent - rem)
         ELSE <<[Head(ps) EXCEPT !.off = @ + sent]>> \o Tail(ps)

-----------------------------------------------------------------------------
(* Close state and interest *)

IsCloseScheduled == bCloseNow \/ bCloseAfterWriting

(* Fault variant of ShouldDelete: close-after-writing waits for a        *)
(* negative byte count.                                                   *)
ShouldDelete_StrictSize ==
    ~MySocketValid \/ bCloseNow \/ (bCloseAfterWriting /\ OutboundDataSize < 0)

ShouldDelete ==
    ~MySocketValid \/ bCloseNow \/ (bCloseAfterWriting /\ OutboundDataSize <= 0)

SelectForRead == ~bPaused /\ ~bConnectPending

SelectForWrite == ~bPaused /\ (bConnectPending \/ OutboundDataSize > 0)

(* _UpdateEvents(read, write) on a valid socket, against the new state. *)
UpdateEvents(read, write) ==
    /\ epollIn' = IF read THEN SelectForRead' ELSE epollIn
    /\ epollOut' = IF write THEN SelectForWrite' ELSE epollOut

(* _UpdateEvents returns at once when the socket is already closed. *)
UpdateEventsIfOpen(read, write) ==
    IF MySocketValid THEN UpdateEvents(read, write)
    ELSE UNCHANGED <<epollIn, epollOut>>

(* Fault variant of ScheduleClose: the flags are overwritten, so a later *)
(* after-writing request downgrades a close-now.                          *)
ScheduleClose_Overwrite(afterWriting) ==
    /\ bCloseNow' = ~afterWriting
    /\ bCloseAfterWriting' = afterWriting
    /\ NumCloseScheduled' = IF IsCloseScheduled THEN NumCloseScheduled
                            ELSE NumCloseScheduled + 1

(* EventableDescriptor::ScheduleClose: a second request can only make   *)
(* the close more urgent; only the first one counts in NumCloseScheduled. *)
ScheduleClose(afterWriting) ==
    IF IsCloseScheduled
    THEN /\ bCloseNow' = (bCloseNow \/ ~afterWriting)
         /\ UNCHANGED <<bCloseAfterWriting, NumCloseScheduled>>
    ELSE /\ NumCloseScheduled' = NumCloseScheduled + 1
         /\ bCloseAfterWriting' = afterWriting
         /\ bCloseNow' = ~afterWriting

-----------------------------------------------------------------------------
Init ==
    /\ MySocketValid = TRUE
    /\ bCloseNow = FALSE
    /\ bCloseAfterWriting = FALSE
    /\ bConnectPending \in BOOLEAN     \* outbound connect, or accepted
    /\ bPaused = FALSE
    /\ OutboundPages = <<>>
    /\ OutboundDataSize = 0
    /\ epollIn = SelectForRead
    /\ epollOut = SelectForWrite
    /\ UnbindReasonCode = "none"
    /\ NumCloseScheduled = 0
    /\ deleted = FALSE
    /\ nextByte = 1
    /\ wire = <<>>

-----------------------------------------------------------------------------
(* Reactor handlers *)

(* ConnectionDescriptor::Read on a readable event.  The burst reads up to *)
(* ten chunks; `got` says whether any chunk had bytes, `ending` why the   *)
(* loop stopped: read() returned 0, would-block, a fatal errno (record    *)
(* the reason and Close()), the ten-read cap, or the application paused   *)
(* the connection from the read callback.  A burst that read nothing is   *)
(* taken as a graceful close.                                             *)
Read ==
    /\ ~deleted /\ MySocketValid /\ epollIn
    /\ UNCHANGED <<bConnectPending, OutboundPages, OutboundDataSize,
                   deleted, nextByte, wire>>
    /\ \E got \in BOOLEAN,
          ending \in {"eof", "wouldblock", "fatal", "burst_limit", "paused"} :
          /\ ending \in {"burst_limit", "paused"} => got
          /\ bPaused' = (ending = "paused")
          /\ IF ending = "fatal"
             THEN /\ UnbindReasonCode' = "ECONNRESET"
                  /\ MySocketValid' = FALSE
             ELSE UNCHANGED <<UnbindReasonCode, MySocketValid>>
          /\ IF got THEN UNCHANGED closeVars ELSE ScheduleClose(FALSE)
          /\ IF ending = "paused" THEN UpdateEvents(TRUE, TRUE)
             ELSE UNCHANGED <<epollIn, epollOut>>

(* ConnectionDescriptor::Write with a connect pending and SO_ERROR = 0:  *)
(* the connection-completed event, then SetConnectPending(false).        *)
ConnectCompleted ==
    /\ ~deleted /\ MySocketValid /\ epollOut /\ bConnectPending
    /\ bConnectPending' = FALSE
    /\ UNCHANGED <<MySocketValid, closeVars, bPaused, OutboundPages,
                   OutboundDataSize, UnbindReasonCode, deleted, nextByte, wire>>
    /\ UpdateEvents(TRUE, TRUE)

(* The same with the connect refused: the reason is recorded when        *)
(* getsockopt itself succeeded, and a close is scheduled.                 *)
ConnectFailed ==
    /\ ~deleted /\ MySocketValid /\ epollOut /\ bConnectPending
    /\ UnbindReasonCode' \in {UnbindReasonCode, "ECONNREFUSED"}
    /\ ScheduleClose(FALSE)
    /\ UNCHANGED <<MySocketValid, bConnectPending, bPaused, OutboundPages,
                   OutboundDataSize, epollIn, epollOut, deleted, nextByte, wire>>

(* Fault variant of WriteOutboundData: write interest not recomputed. *)
WriteOutboundData_NoUpdate(n) ==
    /\ ~deleted /\ MySocketValid /\ epollOut /\ ~bConnectPending
    /\ n \in 1..Len(Gathered)
    /\ OutboundDataSize' = OutboundDataSize - n
    /\ OutboundPages' = ConsumeSent(OutboundPages, IovCount, n)
    /\ wire' = wire \o SubSeq(Gathered, 1, n)
    /\ UNCHANGED <<MySocketValid, closeVars, bConnectPending, bPaused,
                   epollIn, epollOut, UnbindReasonCode, deleted, nextByte>>

(* Write on a connected socket: _WriteOutboundData gathers IovCount pages *)
(* (asserting nbytes > 0), writev accepts n of their bytes, the byte     *)
(* count drops by n, the pages are consumed, and write interest is       *)
(* recomputed.                                                            *)
WriteOutboundData(n) ==
    /\ ~deleted /\ MySocketValid /\ epollOut /\ ~bConnectPending
    /\ n \in 1..Len(Gathered)
    /\ OutboundDataSize' = OutboundDataSize - n
    /\ OutboundPages' = ConsumeSent(OutboundPages, IovCount, n)
    /\ wire' = wire \o SubSeq(Gathered, 1, n)
    /\ UNCHANGED <<MySocketValid, closeVars, bConnectPending, bPaused,
                   UnbindReasonCode, deleted, nextByte>>
    /\ UpdateEvents(FALSE, TRUE)

(* Fault variant of WriteFailed: bytes_written is left at -1 and         *)
(* subtracted from the byte count.                                        *)
WriteFailed_NoReset ==
    /\ ~deleted /\ MySocketValid /\ epollOut /\ ~bConnectPending
    /\ Len(Gathered) > 0
    /\ OutboundDataSize' = OutboundDataSize + 1
    /\ UnbindReasonCode' = "EPIPE"
    /\ MySocketValid' = FALSE
    /\ UNCHANGED <<closeVars, bConnectPending, bPaused, OutboundPages,
                   epollIn, epollOut, deleted, nextByte, wire>>

(* writev fails with a fatal errno: bytes_written is reset to 0, nothing *)
(* is consumed, the reason is recorded and the socket Close()d.  (A      *)
(* would-block failure changes nothing at all.)                          *)
WriteFailed ==
    /\ ~deleted /\ MySocketValid /\ epollOut /\ ~bConnectPending
    /\ Len(Gathered) > 0
    /\ UnbindReasonCode' = "EPIPE"
    /\ MySocketValid' = FALSE
    /\ UNCHANGED <<closeVars, bConnectPending, bPaused, OutboundPages,
                   OutboundDataSize, epollIn, epollOut, deleted, nextByte, wire>>

(* ConnectionDescriptor::HandleError on EPOLLERR/EPOLLHUP. *)
HandleError ==
    /\ ~deleted /\ MySocketValid
    /\ ScheduleClose(FALSE)
    /\ UNCHANGED <<MySocketValid, bConnectPending, bPaused, OutboundPages,
                   OutboundDataSize, epollIn, epollOut, UnbindReasonCode,
                   deleted, nextByte, wire>>

(* The reactor deletes a descriptor whose ShouldDelete() holds; the      *)
(* destructor decrements NumCloseScheduled and Close()s the socket.      *)
Delete ==
    /\ ~deleted /\ ShouldDelete
    /\ deleted' = TRUE
    /\ NumCloseScheduled' = NumCloseScheduled - 1
    /\ MySocketValid' = FALSE
    /\ UNCHANGED <<bCloseNow, bCloseAfterWriting, bConnectPending, bPaused,
                   OutboundPages, OutboundDataSize, epollIn, epollOut,
                   UnbindReasonCode, nextByte, wire>>

-----------------------------------------------------------------------------
(* Application calls, made from callbacks or timers *)

(* Fault variant of SendOutboundData: zero-length sends are queued as  *)
(* empty pages (the code before its 25Mar10 fix).                        *)
SendOutboundData_KeepEmpty(len) ==
    /\ ~deleted
    /\ ~IsCloseScheduled
    /\ nextByte + len - 1 <= MaxBytes
    /\ OutboundPages' = Append(OutboundPages, NewPage(nextByte, len))
    /\ OutboundDataSize' = OutboundDataSize + len
    /\ nextByte' = nextByte + len
    /\ UNCHANGED <<MySocketValid, closeVars, bConnectPending, bPaused,
                   UnbindReasonCode, deleted, wire>>
    /\ UpdateEventsIfOpen(FALSE, TRUE)

(* SendOutboundData without TLS, i.e. _SendRawOutboundData: refused once *)
(* a close is scheduled and for zero length, else a page is queued.      *)
SendOutboundData(len) ==
    /\ ~deleted
    /\ ~IsCloseScheduled
    /\ len > 0
    /\ nextByte + len - 1 <= MaxBytes
    /\ OutboundPages' = Append(OutboundPages, NewPage(nextByte, len))
    /\ OutboundDataSize' = OutboundDataSize + len
    /\ nextByte' = nextByte + len
    /\ UNCHANGED <<MySocketValid, closeVars, bConnectPending, bPaused,
                   UnbindReasonCode, deleted, wire>>
    /\ UpdateEventsIfOpen(FALSE, TRUE)

(* close_connection(after_writing): ConnectionDescriptor::ScheduleClose. *)
AppScheduleClose(afterWriting) ==
    /\ ~deleted
    /\ ScheduleClose(afterWriting)
    /\ UNCHANGED <<MySocketValid, bConnectPending, bPaused, OutboundPages,
                   OutboundDataSize, epollIn, epollOut, UnbindReasonCode,
                   deleted, nextByte, wire>>

Pause ==
    /\ ~deleted
    /\ bPaused' = TRUE
    /\ UNCHANGED <<MySocketValid, closeVars, bConnectPending, OutboundPages,
                   OutboundDataSize, UnbindReasonCode, deleted, nextByte, wire>>
    /\ UpdateEventsIfOpen(TRUE, TRUE)

Resume ==
    /\ ~deleted
    /\ bPaused' = FALSE
    /\ UNCHANGED <<MySocketValid, closeVars, bConnectPending, OutboundPages,
                   OutboundDataSize, UnbindReasonCode, deleted, nextByte, wire>>
    /\ UpdateEventsIfOpen(TRUE, TRUE)

-----------------------------------------------------------------------------
Next ==
    \/ Read
    \/ ConnectCompleted
    \/ ConnectFailed
    \/ \E n \in 1..MaxBytes : WriteOutboundData(n)
    \/ WriteFailed
    \/ HandleError
    \/ Delete
    \/ \E len \in 0..MaxPageLen : SendOutboundData(len)
    \/ \E aw \in BOOLEAN : AppScheduleClose(aw)
    \/ Pause
    \/ Resume

(* The reactor runs its cleanup pass on every loop iteration; a pending  *)
(* connect is eventually settled by the kernel; a peer that is reading   *)
(* eventually accepts at least one byte of a writev.  The application's  *)
(* calls and the peer's reads and errors are not assumed to happen.      *)
Fairness ==
    /\ WF_vars(Delete)
    /\ WF_vars(ConnectCompleted \/ ConnectFailed)
    /\ WF_vars(\E n \in 1..MaxBytes : WriteOutboundData(n))

Spec == Init /\ [][Next]_vars /\ Fairness

-----------------------------------------------------------------------------
(* Properties *)

TypeOK ==
    /\ MySocketValid \in BOOLEAN
    /\ bCloseNow \in BOOLEAN /\ bCloseAfterWriting \in BOOLEAN
    /\ bConnectPending \in BOOLEAN /\ bPaused \in BOOLEAN
    /\ OutboundPages \in Seq([first : 1..MaxBytes, len : 1..MaxPageLen,
                              off : 0..MaxPageLen])
    /\ OutboundDataSize \in Int
    /\ epollIn \in BOOLEAN /\ epollOut \in BOOLEAN
    /\ UnbindReasonCode \in Reasons
    /\ NumCloseScheduled \in Int
    /\ deleted \in BOOLEAN
    /\ nextByte \in 1..(MaxBytes + 1)
    /\ wire \in Seq(1..MaxBytes)

(* The outbound byte count kept by SendOutboundData and                  *)
(* _WriteOutboundData always equals the sum of (Length - Offset) over    *)
(* the queued pages, through every partial and failed writev.            *)
OutboundBytesAccounted ==
    ~deleted => OutboundDataSize = Len(Unsent(OutboundPages))

(* While the socket is registered, the epoll interest equals what        *)
(* SelectForRead/SelectForWrite say of the current state, so the reactor *)
(* never calls Write on a connected socket with nothing queued (which    *)
(* would trip assert(nbytes > 0) in _WriteOutboundData).                 *)
InterestMatchesState ==
    (~deleted /\ MySocketValid) =>
        /\ epollIn = SelectForRead
        /\ epollOut = SelectForWrite
        /\ (epollOut /\ ~bConnectPending) => Len(Gathered) > 0

(* A scheduled close is never withdrawn and a close-now is never         *)
(* downgraded, whatever ScheduleClose calls follow (spec section 3).     *)
CloseNeverRetracted ==
    [][~deleted => /\ bCloseNow => bCloseNow'
                   /\ IsCloseScheduled => IsCloseScheduled']_vars

(* close_connection_after_writing completes: once the connection stops   *)
(* being paused for good, a close-after-writing leads to the reactor     *)
(* deleting the descriptor, after the queued bytes drain.                *)
CloseAfterWritingCompletes ==
    (<>[]~bPaused) => [](bCloseAfterWriting => <>deleted)

(* The writev page bookkeeping implements the byte-stream promise:       *)
(* every byte is written once, in the order it was sent.                 *)
Stream == INSTANCE ByteStream WITH queued <- Unsent(OutboundPages), sent <- wire

StreamRefinement == Stream!Spec

(* NumCloseScheduled counts the descriptors whose close is scheduled and *)
(* not yet carried out: ScheduleClose increments it the first time, the  *)
(* destructor decrements it.                                             *)
CloseCounterAccurate ==
    NumCloseScheduled = IF ~deleted /\ IsCloseScheduled THEN 1 ELSE 0

====
