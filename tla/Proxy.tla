------------------------------- MODULE Proxy -------------------------------
(***************************************************************************)
(* Several ConnectionDescriptors joined by proxy links (src/ext/ed.cpp):  *)
(* StartProxy/StopProxy/SetProxiedFrom, _GenericInboundDispatch with its  *)
(* byte limit, backpressure (SendOutboundData pauses the source above     *)
(* MaxOutboundBufSize, _WriteOutboundData resumes it below), the read     *)
(* burst that stops when the source is paused, and the destructor that    *)
(* unwinds both sides of the link.                                        *)
(*                                                                         *)
(* The outbound queue is abstracted to its byte count OutboundDataSize    *)
(* (Connection.tla models the pages), and every descriptor is connected   *)
(* (no pending connect, no TLS, not watch-only).  Inbound data is counted *)
(* in bytes: what a source read, what it handed to the application and    *)
(* what it forwarded.                                                     *)
(***************************************************************************)
EXTENDS Integers, FiniteSets

CONSTANTS
    Desc,           \* descriptors (model values)
    None,           \* a null pointer
    ReadBurst,      \* reads per Read() call (10 in the code)
    ChunkMax,       \* largest chunk one read() returns
    MaxRead,        \* bytes each descriptor's peer sends over a behaviour
    MaxAppSend,     \* the application sends only while a queue holds fewer bytes
    BufSizes,       \* bufsize arguments of StartProxy (0 = no backpressure)
    Lengths,        \* length arguments of StartProxy (0 = unlimited)
    AllowBusyStart, \* whether the application may StartProxy to a busy target
    AllowSelfProxy  \* whether the application may proxy a descriptor to itself

ASSUME None \notin Desc
ASSUME ReadBurst \in Nat \ {0} /\ ChunkMax \in Nat \ {0}
ASSUME BufSizes \subseteq Nat /\ Lengths \subseteq Nat
ASSUME AllowBusyStart \in BOOLEAN /\ AllowSelfProxy \in BOOLEAN

VARIABLES
    ed,     \* ed[d]: the fields of descriptor d that proxying reads and writes
    burst,  \* burst[d]: reads left in d's current Read() call, 0 if none
    limit   \* limit[d]: the length of d's last StartProxy (history)

vars == <<ed, burst, limit>>

Fields == [alive : BOOLEAN, valid : BOOLEAN, bCloseNow : BOOLEAN,
           bCloseAfterWriting : BOOLEAN, bPaused : BOOLEAN,
           OutboundDataSize : Nat, ProxyTarget : Desc \cup {None},
           ProxiedFrom : Desc \cup {None}, BytesToProxy : Nat,
           ProxiedBytes : Nat, MaxOutboundBufSize : Nat,
           got : BOOLEAN, readTotal : Nat, appBytes : Nat,
           forwarded : Nat]

-----------------------------------------------------------------------------
(* Operators that return the descriptor table after a call *)

IsCloseScheduled(D, d) == D[d].bCloseNow \/ D[d].bCloseAfterWriting

ShouldDelete(D, d) ==
    ~D[d].valid \/ D[d].bCloseNow
    \/ (D[d].bCloseAfterWriting /\ D[d].OutboundDataSize <= 0)

(* EventableDescriptor::ScheduleClose *)
ScheduleClose(D, d, afterWriting) ==
    IF IsCloseScheduled(D, d)
    THEN [D EXCEPT ![d].bCloseNow = @ \/ ~afterWriting]
    ELSE [D EXCEPT ![d].bCloseNow = ~afterWriting,
                   ![d].bCloseAfterWriting = afterWriting]

(* StopProxy on d: the target forgets its source and threshold, then d   *)
(* forgets its target.                                                    *)
StopProxy(D, d) ==
    IF D[d].ProxyTarget = None THEN D
    ELSE [[D EXCEPT ![D[d].ProxyTarget].ProxiedFrom = None,
                    ![D[d].ProxyTarget].MaxOutboundBufSize = 0]
             EXCEPT ![d].ProxyTarget = None]

(* ConnectionDescriptor::SendOutboundData on t: pause t's source when   *)
(* the queue would pass the threshold (Pause() then only sets bPaused    *)
(* and the interest), then _SendRawOutboundData, which drops the bytes   *)
(* once a close is scheduled.                                            *)
SendOutboundData(D, t, len) ==
    LET src == D[t].ProxiedFrom
        D1 == IF src # None /\ D[t].MaxOutboundBufSize > 0
                 /\ D[t].OutboundDataSize + len > D[t].MaxOutboundBufSize
              THEN [D EXCEPT ![src].bPaused = TRUE] ELSE D
    IN IF IsCloseScheduled(D1, t) \/ len = 0 THEN D1
       ELSE [D1 EXCEPT ![t].OutboundDataSize = @ + len]

(* Fault variant of GenericInboundDispatch: the rest of a chunk past the *)
(* byte limit is not handed to the application.                          *)
GenericInboundDispatch_DropRest(D, s, size) ==
    LET t == D[s].ProxyTarget IN
    IF t = None THEN [D EXCEPT ![s].appBytes = @ + size]
    ELSE IF D[s].BytesToProxy > 0
    THEN LET p == IF D[s].BytesToProxy < size THEN D[s].BytesToProxy ELSE size
             D1 == [SendOutboundData(D, t, p)
                      EXCEPT ![s].ProxiedBytes = @ + p, ![s].forwarded = @ + p,
                             ![s].BytesToProxy = @ - p]
         IN IF D1[s].BytesToProxy = 0 THEN StopProxy(D1, s) ELSE D1
    ELSE [SendOutboundData(D, t, size)
            EXCEPT ![s].ProxiedBytes = @ + size, ![s].forwarded = @ + size]

(* Fault variant of GenericInboundDispatch: the whole chunk is forwarded *)
(* even past the byte limit.                                              *)
GenericInboundDispatch_NoMin(D, s, size) ==
    LET t == D[s].ProxyTarget IN
    IF t = None THEN [D EXCEPT ![s].appBytes = @ + size]
    ELSE IF D[s].BytesToProxy > 0
    THEN LET D1 == [SendOutboundData(D, t, size)
                      EXCEPT ![s].ProxiedBytes = @ + size, ![s].forwarded = @ + size,
                             ![s].BytesToProxy = IF @ < size THEN 0 ELSE @ - size]
         IN IF D1[s].BytesToProxy = 0 THEN StopProxy(D1, s) ELSE D1
    ELSE [SendOutboundData(D, t, size)
            EXCEPT ![s].ProxiedBytes = @ + size, ![s].forwarded = @ + size]

(* EventableDescriptor::_GenericInboundDispatch of a chunk read by s:   *)
(* forward to the target, at most BytesToProxy bytes when a limit is set; *)
(* on reaching the limit stop the proxy and hand the rest of the chunk   *)
(* to the application; with no target hand it all to the application.   *)
GenericInboundDispatch(D, s, size) ==
    LET t == D[s].ProxyTarget IN
    IF t = None THEN [D EXCEPT ![s].appBytes = @ + size]
    ELSE IF D[s].BytesToProxy > 0
    THEN LET p == IF D[s].BytesToProxy < size THEN D[s].BytesToProxy ELSE size
             D1 == [SendOutboundData(D, t, p)
                      EXCEPT ![s].ProxiedBytes = @ + p, ![s].forwarded = @ + p,
                             ![s].BytesToProxy = @ - p]
         IN IF D1[s].BytesToProxy = 0
            THEN [StopProxy(D1, s) EXCEPT ![s].appBytes = @ + (size - p)]
            ELSE D1
    ELSE [SendOutboundData(D, t, size)
            EXCEPT ![s].ProxiedBytes = @ + size, ![s].forwarded = @ + size]


(* SetProxiedFrom on t, which throws on a busy target before changing it *)
SetProxiedFromFails(D, t, from) == from # None /\ D[t].ProxiedFrom # None

(* Fault variant of the destructor: the upstream source is not told to  *)
(* stop proxying.                                                        *)
Destroy_KeepSource(D, d) ==
    [StopProxy(D, d) EXCEPT ![d].alive = FALSE, ![d].valid = FALSE]

(* EventableDescriptor::~EventableDescriptor: the source that proxies   *)
(* into d stops (clearing d's ProxiedFrom), d stops its own proxy, and   *)
(* Close() invalidates the socket.  The source is not resumed.           *)
Destroy(D, d) ==
    LET src == D[d].ProxiedFrom
        D1 == IF src # None THEN StopProxy(D, src) ELSE D
    IN [StopProxy(D1, d) EXCEPT ![d].alive = FALSE, ![d].valid = FALSE]

-----------------------------------------------------------------------------
NewDescriptor ==
    [alive |-> TRUE, valid |-> TRUE, bCloseNow |-> FALSE,
     bCloseAfterWriting |-> FALSE, bPaused |-> FALSE, OutboundDataSize |-> 0,
     ProxyTarget |-> None, ProxiedFrom |-> None, BytesToProxy |-> 0,
     ProxiedBytes |-> 0, MaxOutboundBufSize |-> 0, got |-> FALSE,
     readTotal |-> 0, appBytes |-> 0, forwarded |-> 0]

Init ==
    /\ ed = [d \in Desc |-> NewDescriptor]
    /\ burst = [d \in Desc |-> 0]
    /\ limit = [d \in Desc |-> 0]

(* No other descriptor runs while one is inside its Read() loop. *)
Idle == \A d \in Desc : burst[d] = 0

(* EventableDescriptor::StartProxy(to, bufsize, length) on s.  A dead   *)
(* target is not found by its binding and the call throws with no       *)
(* effect.  When the target is busy, s already points at it when          *)
(* SetProxiedFrom throws.                                                *)
StartProxy(s, t, bufsize, length) ==
    /\ Idle /\ ed[s].alive /\ ed[t].alive
    /\ AllowSelfProxy \/ s # t
    /\ LET D1 == [StopProxy(ed, s) EXCEPT ![s].ProxyTarget = t,
                     ![s].BytesToProxy = length, ![s].ProxiedBytes = 0]
       IN /\ AllowBusyStart \/ ~SetProxiedFromFails(D1, t, s)
          /\ ed' = IF SetProxiedFromFails(D1, t, s) THEN D1
                   ELSE [D1 EXCEPT ![t].ProxiedFrom = s,
                                   ![t].MaxOutboundBufSize = bufsize]
    /\ limit' = [limit EXCEPT ![s] = length]
    /\ UNCHANGED burst

(* The application calls StopProxy on s. *)
AppStopProxy(s) ==
    /\ Idle /\ ed[s].alive /\ ed[s].ProxyTarget # None
    /\ ed' = StopProxy(ed, s)
    /\ UNCHANGED <<burst, limit>>

(* ConnectionDescriptor::Read starts on s, which selected readable:     *)
(* SelectForRead is false while paused.                                  *)
ReadStart(s) ==
    /\ Idle /\ ed[s].alive /\ ed[s].valid /\ ~ed[s].bPaused
    /\ burst' = [burst EXCEPT ![s] = ReadBurst]
    /\ ed' = [ed EXCEPT ![s].got = FALSE]
    /\ UNCHANGED limit

(* One read() of the burst returns c > 0 bytes, which are dispatched;   *)
(* the loop ends after ReadBurst reads or when s became paused.         *)
ReadChunk(s, c) ==
    /\ burst[s] > 0
    /\ ed[s].readTotal + c <= MaxRead
    /\ LET D1 == GenericInboundDispatch(
                    [ed EXCEPT ![s].readTotal = @ + c, ![s].got = TRUE], s, c)
       IN /\ burst' = [burst EXCEPT ![s] = IF D1[s].bPaused THEN 0 ELSE @ - 1]
          /\ ed' = IF burst'[s] = 0 THEN [D1 EXCEPT ![s].got = FALSE] ELSE D1
    /\ UNCHANGED limit

(* A read() of the burst returns 0 (peer closed), would-block, or a     *)
(* fatal error, which Close()s the socket.  A burst with no bytes at    *)
(* all schedules a close.                                                *)
ReadEnd(s, why) ==
    /\ burst[s] > 0
    /\ LET D1 == IF why = "fatal" THEN [ed EXCEPT ![s].valid = FALSE] ELSE ed
       IN ed' = [IF D1[s].got THEN D1 ELSE ScheduleClose(D1, s, FALSE)
                 EXCEPT ![s].got = FALSE]
    /\ burst' = [burst EXCEPT ![s] = 0]
    /\ UNCHANGED limit

(* ConnectionDescriptor::_WriteOutboundData on t sends n of its queued  *)
(* bytes (SelectForWrite is false while paused), then resumes t's paused *)
(* source if the queue is now below the threshold.                       *)
Resumed(D, t) ==
    LET src == D[t].ProxiedFrom IN
    IF src # None /\ D[t].MaxOutboundBufSize > 0
       /\ D[t].OutboundDataSize < D[t].MaxOutboundBufSize /\ D[src].bPaused
    THEN [D EXCEPT ![src].bPaused = FALSE] ELSE D

(* Fault variant of Write: the byte count may exceed what is queued. *)
Write_Overdraw(t, n) ==
    /\ Idle /\ ed[t].alive /\ ed[t].valid /\ ~ed[t].bPaused
    /\ n \in 1..ed[t].OutboundDataSize + 1
    /\ ed' = Resumed([ed EXCEPT ![t].OutboundDataSize = @ - n], t)
    /\ UNCHANGED <<burst, limit>>

Write(t, n) ==
    /\ Idle /\ ed[t].alive /\ ed[t].valid /\ ~ed[t].bPaused
    /\ n \in 1..ed[t].OutboundDataSize
    /\ ed' = Resumed([ed EXCEPT ![t].OutboundDataSize = @ - n], t)
    /\ UNCHANGED <<burst, limit>>

(* The write fails with a fatal errno: nothing is consumed, the resume   *)
(* check still runs, and Close() invalidates the socket.                 *)
WriteFailed(t) ==
    /\ Idle /\ ed[t].alive /\ ed[t].valid /\ ~ed[t].bPaused
    /\ ed[t].OutboundDataSize > 0
    /\ ed' = [Resumed(ed, t) EXCEPT ![t].valid = FALSE]
    /\ UNCHANGED <<burst, limit>>

(* The application sends len bytes on d: SendOutboundData, with the     *)
(* same backpressure check as forwarded data.                            *)
AppSend(d, len) ==
    /\ Idle /\ ed[d].alive
    /\ ed[d].OutboundDataSize < MaxAppSend
    /\ ed' = SendOutboundData(ed, d, len)
    /\ UNCHANGED <<burst, limit>>

(* The application calls close_connection(after_writing) on d. *)
AppClose(d, afterWriting) ==
    /\ Idle /\ ed[d].alive /\ ~ed[d].bCloseNow
    /\ ed' = ScheduleClose(ed, d, afterWriting)
    /\ UNCHANGED <<burst, limit>>

(* ConnectionDescriptor::HandleError on an error/hang-up event. *)
HandleError(d) ==
    /\ Idle /\ ed[d].alive /\ ed[d].valid /\ ~ed[d].bCloseNow
    /\ ed' = ScheduleClose(ed, d, FALSE)
    /\ UNCHANGED <<burst, limit>>

(* The reactor deletes d once ShouldDelete() holds. *)
Delete(d) ==
    /\ Idle /\ ed[d].alive /\ ShouldDelete(ed, d)
    /\ ed' = Destroy(ed, d)
    /\ UNCHANGED <<burst, limit>>

Next ==
    \/ \E s, t \in Desc, b \in BufSizes, l \in Lengths : StartProxy(s, t, b, l)
    \/ \E s \in Desc : AppStopProxy(s) \/ ReadStart(s)
    \/ \E s \in Desc, c \in 1..ChunkMax : ReadChunk(s, c)
    \/ \E s \in Desc, why \in {"eof", "wouldblock", "fatal"} : ReadEnd(s, why)
    \/ \E t \in Desc, n \in 1..MaxRead + MaxAppSend : Write(t, n)
    \/ \E t \in Desc : WriteFailed(t) \/ HandleError(t) \/ Delete(t)
    \/ \E d \in Desc, len \in 0..1 : AppSend(d, len)
    \/ \E d \in Desc, aw \in BOOLEAN : AppClose(d, aw)

(* The reactor finishes every Read() it starts and writes every         *)
(* writable descriptor.  It tests ShouldDelete() of every descriptor at *)
(* the end of each pass, so a deletion enabled between the application's *)
(* calls in infinitely many passes happens: strong fairness.             *)
Fairness ==
    /\ \A s \in Desc : WF_vars(\E why \in {"eof", "wouldblock"} : ReadEnd(s, why))
    /\ \A t \in Desc : WF_vars(\E n \in 1..MaxRead + MaxAppSend : Write(t, n))
    /\ \A d \in Desc : SF_vars(Delete(d))

Spec == Init /\ [][Next]_vars /\ Fairness

-----------------------------------------------------------------------------
TypeOK ==
    /\ ed \in [Desc -> Fields]
    /\ burst \in [Desc -> 0..ReadBurst]
    /\ limit \in [Desc -> Lengths \cup {0}]

(* The proxy link is one pair of back-pointers (StartProxy, StopProxy,   *)
(* SetProxiedFrom and the destructor keep both sides): a live source     *)
(* points at a live target exactly when that target points back at it.  *)
ProxyLinksSymmetric ==
    \A s, t \in Desc :
        (ed[s].alive /\ ed[s].ProxyTarget = t)
            <=> (ed[t].alive /\ ed[t].ProxiedFrom = s)

(* _GenericInboundDispatch neither drops nor duplicates inbound bytes:   *)
(* every byte a descriptor read went either to its application or to a  *)
(* proxy target, including the rest of a chunk past the byte limit.      *)
InboundConserved ==
    \A d \in Desc : ed[d].readTotal = ed[d].appBytes + ed[d].forwarded

(* A proxy started with a byte limit forwards at most that many bytes,   *)
(* however the limit falls inside the chunks read.                       *)
ProxyNeverExceedsLimit ==
    \A s \in Desc : limit[s] > 0 => ed[s].ProxiedBytes <= limit[s]

(* No live descriptor keeps a ProxyTarget that has been destroyed: the  *)
(* next chunk it reads would be sent through a dangling pointer.         *)
NoDanglingProxyLink ==
    \A s \in Desc :
        ed[s].alive /\ ed[s].ProxyTarget # None => ed[ed[s].ProxyTarget].alive

(* A source paused by backpressure is eventually resumed, unless it is   *)
(* destroyed or its proxy ends.                                          *)
PausedSourceResumed ==
    \A s \in Desc :
        [](ed[s].alive /\ ed[s].bPaused /\ ed[s].ProxyTarget # None
           => <>(~ed[s].alive \/ ~ed[s].bPaused \/ ed[s].ProxyTarget = None))

====
