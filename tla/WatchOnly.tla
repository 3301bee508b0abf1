------------------------------ MODULE WatchOnly ------------------------------
(***************************************************************************)
(* One ConnectionDescriptor in watch-only mode (src/ext/ed.cpp): a file   *)
(* descriptor the application attached with watch_mode, on which the      *)
(* descriptor does no I/O and only reports readiness through the          *)
(* notify-readable and notify-writable events the application asks for.  *)
(*                                                                         *)
(* The reactor (em.cpp, not in this repository) is modelled from the spec *)
(* and from what ed.cpp's comments say of it: a pass collects the ready    *)
(* events of all descriptors at once (epoll_wait), then dispatches them    *)
(* one descriptor after another, Write before Read ("we always write      *)
(* before reading", ed.cpp:944) and Read before HandleError (ed.cpp:698). *)
(* Callbacks of other descriptors dispatched earlier in the same pass, and *)
(* this descriptor's own callbacks, may call SetNotifyReadable and        *)
(* SetNotifyWritable at any point of the pass.  The socket's readiness    *)
(* and the peer's hang-up are the environment.                            *)
(***************************************************************************)
EXTENDS FiniteSets

VARIABLES
    bNotifyReadable, bNotifyWritable,
    events,        \* EpollEvent.events: the interest registered with epoll
    sockReadable,  \* the socket has data (or EOF) to read
    sockWritable,  \* the socket has room to write
    hup,           \* the peer hung up; epoll reports EPOLLHUP from then on
    ready,         \* the events of this pass still to dispatch
    delivered,     \* the notify events fired since the last poll
    failed         \* assertions of ed.cpp whose condition was false

vars == <<bNotifyReadable, bNotifyWritable, events, sockReadable, sockWritable,
          hup, ready, delivered, failed>>

(* ConnectionDescriptor::SelectForRead and SelectForWrite of a watch-only *)
(* connection, which is never paused and never connect-pending.           *)
SelectForRead(nr) == nr
SelectForWrite(nw) == nw

(* ConnectionDescriptor::_UpdateEvents(read, write): with epoll, set or   *)
(* clear EPOLLIN from SelectForRead when read is asked for, and EPOLLOUT  *)
(* from SelectForWrite when write is; Modify registers the change.       *)
UpdateEvents(ev, read, write, nr, nw) ==
    LET r == IF ~read THEN ev
             ELSE IF SelectForRead(nr) THEN ev \cup {"EPOLLIN"}
             ELSE ev \ {"EPOLLIN"}
    IN IF ~write THEN r
       ELSE IF SelectForWrite(nw) THEN r \cup {"EPOLLOUT"}
       ELSE r \ {"EPOLLOUT"}

(* SetWatchOnly(true): the interest its _UpdateEvents() registers,       *)
(* recomputing both sides from the notify flags.                         *)
SetWatchOnly(nr, nw) == UpdateEvents({}, TRUE, TRUE, nr, nw)

(* The constructor leaves both notify flags off; AttachFD then calls     *)
(* SetWatchOnly(true).                                                    *)
Init ==
    /\ bNotifyReadable = FALSE /\ bNotifyWritable = FALSE
    /\ events = SetWatchOnly(FALSE, FALSE)
    /\ sockReadable \in BOOLEAN /\ sockWritable \in BOOLEAN
    /\ hup = FALSE
    /\ ready = {} /\ delivered = {} /\ failed = {}

-----------------------------------------------------------------------------
(* The application's calls, from any callback.                            *)

(* Fault variant of SetNotifyReadable: it recomputes the write side,     *)
(* as SetNotifyWritable does.                                             *)
SetNotifyReadable_WrongSide(b) ==
    /\ failed = {}
    /\ bNotifyReadable' = b
    /\ events' = UpdateEvents(events, FALSE, TRUE, b, bNotifyWritable)
    /\ UNCHANGED <<bNotifyWritable, sockReadable, sockWritable, hup, ready,
                   delivered, failed>>

(* Fault variant of SetNotifyWritable: the interest is not recomputed. *)
SetNotifyWritable_NoUpdate(b) ==
    /\ failed = {}
    /\ bNotifyWritable' = b
    /\ UNCHANGED <<bNotifyReadable, events, sockReadable, sockWritable, hup,
                   ready, delivered, failed>>

(* SetNotifyReadable(b): store the flag and _UpdateEvents(true, false). *)
SetNotifyReadable(b) ==
    /\ failed = {}
    /\ bNotifyReadable' = b
    /\ events' = UpdateEvents(events, TRUE, FALSE, b, bNotifyWritable)
    /\ UNCHANGED <<bNotifyWritable, sockReadable, sockWritable, hup, ready,
                   delivered, failed>>

(* SetNotifyWritable(b): store the flag and _UpdateEvents(false, true). *)
SetNotifyWritable(b) ==
    /\ failed = {}
    /\ bNotifyWritable' = b
    /\ events' = UpdateEvents(events, FALSE, TRUE, bNotifyReadable, b)
    /\ UNCHANGED <<bNotifyReadable, sockReadable, sockWritable, hup, ready,
                   delivered, failed>>

(* The socket's readiness changes: the peer sends or the application     *)
(* reads the fd itself; the send buffer fills or drains.  A hung-up       *)
(* socket reads EOF and stays readable.                                   *)
SocketChanges ==
    /\ failed = {}
    /\ sockReadable' \in IF hup THEN {TRUE} ELSE BOOLEAN
    /\ sockWritable' \in BOOLEAN
    /\ <<sockReadable', sockWritable'>> # <<sockReadable, sockWritable>>
    /\ UNCHANGED <<bNotifyReadable, bNotifyWritable, events, hup, ready,
                   delivered, failed>>

Hangup ==
    /\ failed = {} /\ ~hup
    /\ hup' = TRUE /\ sockReadable' = TRUE
    /\ UNCHANGED <<bNotifyReadable, bNotifyWritable, events, sockWritable,
                   ready, delivered, failed>>

-----------------------------------------------------------------------------
(* The reactor's pass.                                                    *)

(* What epoll_wait reports for the descriptor: EPOLLIN and EPOLLOUT as   *)
(* far as they are both registered and true of the socket, and EPOLLHUP  *)
(* whatever the interest.                                                *)
Reported ==
    {e \in {"in", "out", "err"} :
        \/ e = "in" /\ "EPOLLIN" \in events /\ sockReadable
        \/ e = "out" /\ "EPOLLOUT" \in events /\ sockWritable
        \/ e = "err" /\ hup}

(* epoll_wait returns with this descriptor among the ready ones; the     *)
(* events are dispatched after it, whatever changes meanwhile.           *)
Poll ==
    /\ failed = {} /\ ready = {} /\ Reported # {}
    /\ ready' = Reported
    /\ delivered' = {}
    /\ UNCHANGED <<bNotifyReadable, bNotifyWritable, events, sockReadable,
                   sockWritable, hup, failed>>

(* ConnectionDescriptor::Read of a watch-only connection whose socket is *)
(* valid: fire notify-readable if asked for, and return.                 *)
Read ==
    /\ delivered' = IF bNotifyReadable THEN delivered \cup {"readable"}
                                       ELSE delivered
    /\ UNCHANGED <<events, failed>>

(* ConnectionDescriptor::Write of a connected watch-only connection: if *)
(* notify-writable is on, fire it and _UpdateEvents(false, true), and     *)
(* return; otherwise it reaches assert(!bWatchOnly).                      *)
Write ==
    IF bNotifyWritable
    THEN /\ delivered' = delivered \cup {"writable"}
         /\ events' = UpdateEvents(events, FALSE, TRUE, bNotifyReadable,
                                   bNotifyWritable)
         /\ UNCHANGED failed
    ELSE /\ failed' = failed \cup {1159}
         /\ UNCHANGED <<delivered, events>>

DispatchWrite ==
    /\ failed = {} /\ "out" \in ready
    /\ ready' = ready \ {"out"}
    /\ Write
    /\ UNCHANGED <<bNotifyReadable, bNotifyWritable, sockReadable,
                   sockWritable, hup>>

DispatchRead ==
    /\ failed = {} /\ "in" \in ready /\ "out" \notin ready
    /\ ready' = ready \ {"in"}
    /\ Read
    /\ UNCHANGED <<bNotifyReadable, bNotifyWritable, sockReadable,
                   sockWritable, hup>>

(* ConnectionDescriptor::HandleError of a watch-only connection with a   *)
(* valid socket: Read() if notify-readable is on, then, with the flag    *)
(* read again after that callback, Write() if notify-writable is on.    *)
DispatchError ==
    /\ failed = {} /\ "err" \in ready /\ ready \cap {"in", "out"} = {}
    /\ ready' = (ready \ {"err"}) \cup {"errWrite"}
    /\ IF bNotifyReadable THEN Read ELSE UNCHANGED <<delivered, events, failed>>
    /\ UNCHANGED <<bNotifyReadable, bNotifyWritable, sockReadable,
                   sockWritable, hup>>

HandleErrorWrite ==
    /\ failed = {} /\ "errWrite" \in ready
    /\ ready' = ready \ {"errWrite"}
    /\ IF bNotifyWritable THEN Write ELSE UNCHANGED <<delivered, events, failed>>
    /\ UNCHANGED <<bNotifyReadable, bNotifyWritable, sockReadable,
                   sockWritable, hup>>

Next ==
    \/ \E b \in BOOLEAN : SetNotifyReadable(b) \/ SetNotifyWritable(b)
    \/ SocketChanges \/ Hangup
    \/ Poll \/ DispatchWrite \/ DispatchRead \/ DispatchError \/ HandleErrorWrite

(* The reactor runs pass after pass and dispatches every event it        *)
(* collected; the application and the peer act when they like.           *)
Fairness ==
    /\ WF_vars(Poll) /\ WF_vars(DispatchWrite) /\ WF_vars(DispatchRead)
    /\ WF_vars(DispatchError) /\ WF_vars(HandleErrorWrite)

Spec == Init /\ [][Next]_vars /\ Fairness

-----------------------------------------------------------------------------
(* The interest registered with epoll follows the notify flags at every  *)
(* step: SetNotifyReadable and SetNotifyWritable each recompute their    *)
(* own side, and Write's re-arm after notify-writable keeps it, so epoll *)
(* never reports a kind of readiness the application did not ask for,    *)
(* nor misses one it did.                                                 *)
InterestFollowsNotify ==
    /\ ("EPOLLIN" \in events) = bNotifyReadable
    /\ ("EPOLLOUT" \in events) = bNotifyWritable

(* A notify event the application keeps asking for, on a socket that     *)
(* stays ready for it, is eventually fired.                               *)
Wanted(k) ==
    /\ failed = {}
    /\ k = "readable" => bNotifyReadable /\ sockReadable
    /\ k = "writable" => bNotifyWritable /\ sockWritable

NotifyDelivered ==
    \A k \in {"readable", "writable"} :
        Wanted(k) ~> (k \in delivered \/ ~Wanted(k))

(* ConnectionDescriptor::Write asserts that it only falls through the    *)
(* notify-writable branch on a connection that is not watch-only          *)
(* (ed.cpp:1159): Write is never entered on a watch-only connection with  *)
(* notify-writable off.                                                   *)
WriteOnlyWhenNotifying == 1159 \notin failed

====
