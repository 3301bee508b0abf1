----------------------------- MODULE Heartbeat -----------------------------
(***************************************************************************)
(* The timeout machinery of one ConnectionDescriptor (src/ext/ed.cpp):    *)
(* the pending-connect and inactivity timeouts, GetNextHeartbeat, which   *)
(* computes the next deadline, ConnectionDescriptor::Heartbeat, which     *)
(* closes a timed-out connection, and the reads, writes and configuration *)
(* calls that move LastActivity or re-queue the heartbeat.                *)
(*                                                                         *)
(* Time is discrete.  now is the real clock (GetRealTime) and loopTime    *)
(* the loop time cached at the start of a reactor pass                    *)
(* (GetCurrentLoopTime).  The reactor's heartbeat queue and its dispatch  *)
(* loop belong to em.cpp, which is not in this repository; they are       *)
(* modelled from the spec: a queued deadline is run once loopTime reaches  *)
(* it, then the descriptor is queued again with GetNextHeartbeat.         *)
(***************************************************************************)
EXTENDS Naturals

CONSTANTS
    MaxTime,                \* the last instant explored
    Quantum,                \* the timer quantum used as skew by Heartbeat
    DefaultConnectTimeout,  \* PendingConnectTimeout set by the constructor
    InactivityTimeouts,     \* values for SetCommInactivityTimeout (0 = off)
    ConnectTimeouts         \* values for SetPendingConnectTimeout

ASSUME DefaultConnectTimeout \in Nat \ {0} /\ Quantum \in Nat
ASSUME InactivityTimeouts \subseteq Nat /\ ConnectTimeouts \subseteq Nat

VARIABLES
    now, loopTime,
    LastActivity, InactivityTimeout, PendingConnectTimeout,
    bConnectPending, bWatchOnly, NextHeartbeat,
    bCloseNow, bCloseAfterWriting, hasOutbound,
    UnbindReasonCode,
    deleted,   \* the destructor has run (it clears the heartbeat)
    thrown,    \* an exception escaped into the reactor, which stops
    armedAt    \* history: when the timeouts were last (re)configured

vars == <<now, loopTime, LastActivity, InactivityTimeout,
          PendingConnectTimeout, bConnectPending, bWatchOnly, NextHeartbeat,
          bCloseNow, bCloseAfterWriting, hasOutbound, UnbindReasonCode,
          deleted, thrown, armedAt>>

(* The constructor sets CreatedAt to the loop time of the first pass. *)
CreatedAt == 0

Later(a, b) == IF a >= b THEN a ELSE b

IsCloseScheduled == bCloseNow \/ bCloseAfterWriting

(* ShouldDelete with the outbound queue abstracted to whether it is empty. *)
ShouldDelete == bCloseNow \/ (bCloseAfterWriting /\ ~hasOutbound)

(* The time_til_next of GetNextHeartbeat: the inactivity timeout t, or  *)
(* the connect timeout p while a connect is pending and p is shorter or  *)
(* t is off.  Both are full timeouts, not the time left on them.         *)
(* Fault variant of TimeTilNext: the connect timeout is not consulted. *)
TimeTilNext_NoConnect(t, p, pending) == t

TimeTilNext(t, p, pending) ==
    IF pending /\ (t = 0 \/ p < t) THEN p ELSE t

(* EventableDescriptor::GetNextHeartbeat: with inactivity timeout t,     *)
(* connect timeout p and the connect state, the next deadline is a full *)
(* timeout after the real time now, or 0 (none) once the descriptor is   *)
(* to be deleted or has no timeout.                                      *)
GetNextHeartbeat(t, p, pending, del) ==
    IF del THEN 0
    ELSE LET til == TimeTilNext(t, p, pending)
         IN IF til = 0 THEN 0 ELSE til + now

(* The reactor's queue holds a deadline that loopTime has reached. *)
Due(time) == NextHeartbeat # 0 /\ NextHeartbeat <= time

(* ConnectionDescriptor::Heartbeat's test, at loop time lt. *)
Expired(lt) ==
    IF bConnectPending THEN lt - CreatedAt >= PendingConnectTimeout
    ELSE /\ InactivityTimeout > 0
         /\ Quantum + lt - LastActivity >= InactivityTimeout

(* Fault variant of ScheduleClose: a close already scheduled is left as  *)
(* it is, never upgraded to an immediate one.                             *)
ScheduleClose_NoUpgrade(afterWriting) ==
    IF IsCloseScheduled
    THEN UNCHANGED <<bCloseNow, bCloseAfterWriting>>
    ELSE /\ bCloseNow' = ~afterWriting
         /\ bCloseAfterWriting' = afterWriting

(* EventableDescriptor::ScheduleClose: a second request can only make an *)
(* after-writing close immediate.                                        *)
ScheduleClose(afterWriting) ==
    IF IsCloseScheduled
    THEN /\ bCloseNow' = (bCloseNow \/ ~afterWriting)
         /\ UNCHANGED bCloseAfterWriting
    ELSE /\ bCloseNow' = ~afterWriting
         /\ bCloseAfterWriting' = afterWriting

-----------------------------------------------------------------------------
(* A connecting descriptor is queued by SetConnectPending(true); an        *)
(* accepted or attached one, possibly watch-only, has no timeout yet.      *)
Init ==
    /\ now = 0 /\ loopTime = 0
    /\ LastActivity = CreatedAt
    /\ InactivityTimeout = 0
    /\ PendingConnectTimeout = DefaultConnectTimeout
    /\ bConnectPending \in BOOLEAN
    /\ bWatchOnly \in IF bConnectPending THEN {FALSE} ELSE BOOLEAN
    /\ NextHeartbeat = GetNextHeartbeat(0, DefaultConnectTimeout, bConnectPending, FALSE)
    /\ bCloseNow = FALSE /\ bCloseAfterWriting = FALSE /\ hasOutbound = FALSE
    /\ UnbindReasonCode = "none"
    /\ deleted = FALSE /\ thrown = FALSE
    /\ armedAt = 0

Live == ~deleted /\ ~thrown

(* Real time advances.  The reactor's poll wait ends at the next          *)
(* deadline, and its pass runs due heartbeats and deletes closed          *)
(* descriptors, so time does not pass a due deadline or a deletion.       *)
Tick ==
    /\ ~thrown /\ now < MaxTime
    /\ loopTime = now
    /\ ~Due(now)
    /\ ~(ShouldDelete /\ ~deleted)
    /\ now' = now + 1
    /\ UNCHANGED <<loopTime, LastActivity, InactivityTimeout,
                   PendingConnectTimeout, bConnectPending, bWatchOnly,
                   NextHeartbeat, bCloseNow, bCloseAfterWriting, hasOutbound,
                   UnbindReasonCode, deleted, thrown, armedAt>>

(* A new reactor pass caches the real time as the loop time. *)
UpdateTime ==
    /\ ~thrown /\ loopTime < now
    /\ loopTime' = now
    /\ UNCHANGED <<now, LastActivity, InactivityTimeout, PendingConnectTimeout,
                   bConnectPending, bWatchOnly, NextHeartbeat, bCloseNow,
                   bCloseAfterWriting, hasOutbound, UnbindReasonCode, deleted,
                   thrown, armedAt>>

(* Fault variant of Activity: the stamp is the real time. *)
Activity_RealTime ==
    /\ Live /\ ~bConnectPending /\ ~bWatchOnly
    /\ LastActivity' = now
    /\ hasOutbound' \in IF hasOutbound THEN BOOLEAN ELSE {FALSE}
    /\ UNCHANGED <<now, loopTime, InactivityTimeout, PendingConnectTimeout,
                   bConnectPending, bWatchOnly, NextHeartbeat, bCloseNow,
                   bCloseAfterWriting, UnbindReasonCode, deleted, thrown,
                   armedAt>>

(* ConnectionDescriptor::Read, or _WriteOutboundData, of a connected    *)
(* stream: both stamp LastActivity with the loop time.  A write may      *)
(* empty the queue.  Watch-only descriptors return before the stamp.     *)
Activity ==
    /\ Live /\ ~bConnectPending /\ ~bWatchOnly
    /\ LastActivity' = loopTime
    /\ hasOutbound' \in IF hasOutbound THEN BOOLEAN ELSE {FALSE}
    /\ UNCHANGED <<now, loopTime, InactivityTimeout, PendingConnectTimeout,
                   bConnectPending, bWatchOnly, NextHeartbeat, bCloseNow,
                   bCloseAfterWriting, UnbindReasonCode, deleted, thrown,
                   armedAt>>

(* The application queues data (refused once a close is scheduled). *)
SendOutboundData ==
    /\ Live /\ ~bWatchOnly /\ ~IsCloseScheduled
    /\ hasOutbound' = TRUE
    /\ UNCHANGED <<now, loopTime, LastActivity, InactivityTimeout,
                   PendingConnectTimeout, bConnectPending, bWatchOnly,
                   NextHeartbeat, bCloseNow, bCloseAfterWriting,
                   UnbindReasonCode, deleted, thrown, armedAt>>

(* ConnectionDescriptor::Write finds the connect completed and calls      *)
(* SetConnectPending(false), which re-queues the heartbeat.              *)
ConnectCompleted ==
    /\ Live /\ bConnectPending /\ ~ShouldDelete
    /\ bConnectPending' = FALSE
    /\ NextHeartbeat' = GetNextHeartbeat(InactivityTimeout,
                            PendingConnectTimeout, FALSE, FALSE)
    /\ armedAt' = now
    /\ UNCHANGED <<now, loopTime, LastActivity, InactivityTimeout,
                   PendingConnectTimeout, bWatchOnly, bCloseNow,
                   bCloseAfterWriting, hasOutbound, UnbindReasonCode,
                   deleted, thrown>>

(* AppScheduleClose: ConnectionDescriptor::ScheduleClose from the        *)
(* application, the peer or an error.  It throws on a watch-only         *)
(* connection, which its caller sees, so it is only taken when not        *)
(* watch-only.                                                            *)
AppScheduleClose(afterWriting) ==
    /\ Live /\ ~bWatchOnly
    /\ ScheduleClose(afterWriting)
    /\ UNCHANGED <<now, loopTime, LastActivity, InactivityTimeout,
                   PendingConnectTimeout, bConnectPending, bWatchOnly,
                   NextHeartbeat, hasOutbound, UnbindReasonCode, deleted,
                   thrown, armedAt>>

(* Fault variant of SetCommInactivityTimeout: the heartbeat is not       *)
(* re-queued.                                                            *)
SetCommInactivityTimeout_NoQueue(v) ==
    /\ Live
    /\ InactivityTimeout' = v
    /\ armedAt' = now
    /\ UNCHANGED <<now, loopTime, LastActivity, PendingConnectTimeout,
                   bConnectPending, bWatchOnly, NextHeartbeat, bCloseNow,
                   bCloseAfterWriting, hasOutbound, UnbindReasonCode, deleted,
                   thrown>>

(* SetCommInactivityTimeout(v): store it and re-queue the heartbeat. *)
SetCommInactivityTimeout(v) ==
    /\ Live
    /\ InactivityTimeout' = v
    /\ NextHeartbeat' = GetNextHeartbeat(v, PendingConnectTimeout,
                                         bConnectPending, ShouldDelete)
    /\ armedAt' = now
    /\ UNCHANGED <<now, loopTime, LastActivity, PendingConnectTimeout,
                   bConnectPending, bWatchOnly, bCloseNow, bCloseAfterWriting,
                   hasOutbound, UnbindReasonCode, deleted, thrown>>

(* SetPendingConnectTimeout(v): ignored when v is 0, else stored and     *)
(* the heartbeat re-queued.                                               *)
SetPendingConnectTimeout(v) ==
    /\ Live /\ v > 0
    /\ PendingConnectTimeout' = v
    /\ NextHeartbeat' = GetNextHeartbeat(InactivityTimeout, v,
                                         bConnectPending, ShouldDelete)
    /\ armedAt' = now
    /\ UNCHANGED <<now, loopTime, LastActivity, InactivityTimeout,
                   bConnectPending, bWatchOnly, bCloseNow, bCloseAfterWriting,
                   hasOutbound, UnbindReasonCode, deleted, thrown>>

(* The reactor runs a due heartbeat: ConnectionDescriptor::Heartbeat,    *)
(* then QueueHeartbeat, which asks GetNextHeartbeat for the next deadline. *)
(* On timeout Heartbeat records ETIMEDOUT and calls ScheduleClose(false),  *)
(* which throws out of the reactor for a watch-only connection.           *)
RunHeartbeat ==
    /\ Live /\ Due(loopTime)
    /\ IF Expired(loopTime)
       THEN /\ UnbindReasonCode' = "ETIMEDOUT"
            /\ IF bWatchOnly
               THEN /\ thrown' = TRUE
                    /\ UNCHANGED <<bCloseNow, bCloseAfterWriting, NextHeartbeat>>
               ELSE /\ ScheduleClose(FALSE)
                    /\ NextHeartbeat' = 0
                    /\ UNCHANGED thrown
       ELSE /\ NextHeartbeat' = GetNextHeartbeat(InactivityTimeout,
                   PendingConnectTimeout, bConnectPending, ShouldDelete)
            /\ UNCHANGED <<bCloseNow, bCloseAfterWriting, UnbindReasonCode, thrown>>
    /\ UNCHANGED <<now, loopTime, LastActivity, InactivityTimeout,
                   PendingConnectTimeout, bConnectPending, bWatchOnly,
                   hasOutbound, deleted, armedAt>>

(* The reactor deletes the descriptor; the destructor clears its        *)
(* heartbeat.                                                            *)
Delete ==
    /\ Live /\ ShouldDelete
    /\ deleted' = TRUE
    /\ NextHeartbeat' = 0
    /\ UNCHANGED <<now, loopTime, LastActivity, InactivityTimeout,
                   PendingConnectTimeout, bConnectPending, bWatchOnly,
                   bCloseNow, bCloseAfterWriting, hasOutbound,
                   UnbindReasonCode, thrown, armedAt>>

Next ==
    \/ Tick \/ UpdateTime \/ Activity \/ SendOutboundData \/ ConnectCompleted
    \/ \E aw \in BOOLEAN : AppScheduleClose(aw)
    \/ \E v \in InactivityTimeouts : SetCommInactivityTimeout(v)
    \/ \E v \in ConnectTimeouts : SetPendingConnectTimeout(v)
    \/ RunHeartbeat
    \/ Delete

Spec == Init /\ [][Next]_vars

-----------------------------------------------------------------------------
TypeOK ==
    /\ now \in 0..MaxTime /\ loopTime \in 0..now
    /\ LastActivity \in 0..loopTime
    /\ InactivityTimeout \in InactivityTimeouts \cup {0}
    /\ PendingConnectTimeout \in ConnectTimeouts \cup {DefaultConnectTimeout}
    /\ NextHeartbeat \in Nat
    /\ UnbindReasonCode \in {"none", "ETIMEDOUT"}
    /\ armedAt \in 0..now
    /\ \A b \in {bConnectPending, bWatchOnly, bCloseNow, bCloseAfterWriting,
                 hasOutbound, deleted, thrown} : b \in BOOLEAN

(* A timeout close is immediate (spec: it bypasses the after-writing      *)
(* drain): once Heartbeat records ETIMEDOUT on a stream, bCloseNow holds,  *)
(* even when the application had asked to close after writing first.      *)
TimeoutCloseImmediate ==
    (UnbindReasonCode = "ETIMEDOUT" /\ ~thrown) => bCloseNow

(* Idle time of an established connection with an inactivity timeout,   *)
(* counted from its last activity or from the last (re)configuration,    *)
(* whichever is later, at an instant with no heartbeat due.              *)
Watched ==
    /\ Live /\ ~bConnectPending /\ InactivityTimeout > 0
    /\ ~bCloseNow /\ ~Due(now)

Idle == now - Later(LastActivity, armedAt)

(* Because GetNextHeartbeat re-arms a full timeout after a check that    *)
(* finds the connection recently active, an idle connection is closed    *)
(* within twice its inactivity timeout, never later.                     *)
InactivityCloseWithinTwice ==
    Watched => Idle < 2 * InactivityTimeout

(* A pending connect whose timeout has run out, counted from the        *)
(* creation or from the last (re)configuration, whichever is later, is    *)
(* closed before one more connect timeout has passed: GetNextHeartbeat    *)
(* must keep a pending connect queued at least that often, and            *)
(* Heartbeat's test of the loop time against CreatedAt fires at the first *)
(* check past the deadline.  With an inactivity timeout of 2 and a        *)
(* connect timeout of 3 the close comes at 4, after the deadline.         *)
ConnectWatched ==
    /\ Live /\ bConnectPending /\ ~bCloseNow /\ ~Due(now)

ConnectCloseWithinPeriod ==
    ConnectWatched =>
        now < Later(CreatedAt + PendingConnectTimeout, armedAt)
                + PendingConnectTimeout

(* The spec's deadline is the time left on the inactivity timeout, so an *)
(* idle connection is closed once it has been idle for the timeout.      *)
InactivityCloseOnTime ==
    Watched => Idle <= InactivityTimeout

(* A heartbeat never throws into the reactor (spec: faults found during *)
(* poll-driven work are recorded as a reason code, not thrown).          *)
HeartbeatNeverThrows == ~thrown

====
