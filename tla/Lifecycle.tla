------------------------------ MODULE Lifecycle ------------------------------
(***************************************************************************)
(* The life of EventableDescriptors of every kind (src/ext/ed.cpp) against *)
(* the process's descriptor table and the reactor's poll set: creation    *)
(* and registration, the fatal-error Close of a connection, ScheduleClose, *)
(* and deletion, which runs the derived destructor and then               *)
(* ~EventableDescriptor, whose Close deregisters the descriptor and then  *)
(* releases its handle.                                                    *)
(*                                                                         *)
(* Kinds:                                                                  *)
(*   "conn"      a ConnectionDescriptor (or Acceptor or Datagram: their   *)
(*               destructors touch no handle) on a socket of its own;     *)
(*   "attached"  a ConnectionDescriptor on an fd the application opened   *)
(*               and attached (SetAttached(true));                         *)
(*   "loopbreak" the LoopbreakDescriptor on the reactor's wake pipe;      *)
(*   "inotify"   the InotifyDescriptor.                                    *)
(* The reactor's side (em.cpp: creating handles, Add, Deregister,         *)
(* deleting descriptors, tearing down the wake and inotify descriptors)   *)
(* is not in this repository and is modelled from the spec.               *)
(***************************************************************************)
EXTENDS Integers, FiniteSets

CONSTANTS
    D,       \* descriptor objects
    MaxFd    \* the highest handle number the process may hold

ASSUME MaxFd >= 3

INVALID_SOCKET == -1
Fds == 0..MaxFd
Kinds == {"conn", "attached", "loopbreak", "inotify"}

VARIABLES
    phase,      \* per descriptor: "unborn", "live" or "dead"
    kind,       \* per descriptor: its class, fixed at construction
    closeNow,   \* per descriptor: bCloseNow
    sock,       \* per descriptor: MySocket
    holder,     \* per handle: "stdio", "app", "free" or the descriptor
    reg,        \* the poll set: <<handle, descriptor>> registrations
    closed      \* history: every close() a descriptor made, with the holder

vars == <<phase, kind, closeNow, sock, holder, reg, closed>>

(* The state the destructor chain works on. *)
St == [sock |-> sock, holder |-> holder, reg |-> reg, closed |-> closed]

(* shutdown and ::close(f) by descriptor d, recorded with whoever held   *)
(* f.  The kernel drops f's registrations with it, which Close's comment *)
(* says EventMachine relies on; that holds because no handle here shares *)
(* its file with another (an inherited or duplicated one would keep      *)
(* them).                                                                 *)
SysClose(st, d, f) ==
    [st EXCEPT !.holder[f] = "free",
               !.reg = {r \in @ : r[1] # f},
               !.closed = @ \cup {[fd |-> f, by |-> d, held |-> st.holder[f]]}]

(* The reactor's Deregister(d): the poll set forgets d. *)
Deregister(st, d) == [st EXCEPT !.reg = {r \in @ : r[2] # d}]

(* Fault variant of Close: the three lowest handles are not spared. *)
Close_NoReservedGuard(st, d) ==
    LET s == st.sock[d]
        dereg == Deregister(st, d)
        rel == IF kind[d] # "attached" THEN SysClose(dereg, d, s) ELSE dereg
    IN IF s = INVALID_SOCKET THEN st ELSE [rel EXCEPT !.sock[d] = INVALID_SOCKET]

(* Fault variant of Close: the handle is deregistered but never closed. *)
Close_NoRelease(st, d) ==
    IF st.sock[d] = INVALID_SOCKET THEN st
    ELSE [Deregister(st, d) EXCEPT !.sock[d] = INVALID_SOCKET]

(* Fault variant of Close: the handle is closed without Deregister. *)
Close_NoDeregister(st, d) ==
    LET s == st.sock[d]
        rel == IF s > 2 /\ kind[d] # "attached" THEN SysClose(st, d, s) ELSE st
    IN IF s = INVALID_SOCKET THEN st ELSE [rel EXCEPT !.sock[d] = INVALID_SOCKET]

(* EventableDescriptor::Close: if the socket is valid, deregister it,    *)
(* then close it unless it is 0, 1 or 2 or attached, and mark it invalid. *)
Close(st, d) ==
    LET s == st.sock[d]
        dereg == Deregister(st, d)
        rel == IF s > 2 /\ kind[d] # "attached" THEN SysClose(dereg, d, s)
                                                ELSE dereg
    IN IF s = INVALID_SOCKET THEN st ELSE [rel EXCEPT !.sock[d] = INVALID_SOCKET]

(* The derived destructor: ~InotifyDescriptor closes its handle and marks *)
(* it invalid; the others release no handle.                              *)
DerivedDestructor(st, d) ==
    IF kind[d] = "inotify" /\ st.sock[d] # INVALID_SOCKET
    THEN [SysClose(st, d, st.sock[d]) EXCEPT !.sock[d] = INVALID_SOCKET]
    ELSE st

(* delete d: the derived destructor, then ~EventableDescriptor, whose    *)
(* last step is Close().                                                  *)
Destructor(st, d) == Close(DerivedDestructor(st, d), d)

(* EventableDescriptor::ShouldDelete for descriptors that queue nothing. *)
ShouldDelete(d) == sock[d] = INVALID_SOCKET \/ closeNow[d]

(* The kernel hands out the lowest free handle. *)
FreeFds == {f \in 3..MaxFd : holder[f] = "free"}
LowestFree == CHOOSE f \in FreeFds : \A g \in FreeFds : f <= g

Apply(st) ==
    /\ sock' = st.sock /\ holder' = st.holder
    /\ reg' = st.reg /\ closed' = st.closed

-----------------------------------------------------------------------------
Init ==
    /\ phase = [d \in D |-> "unborn"]
    /\ kind = [d \in D |-> "conn"]
    /\ closeNow = [d \in D |-> FALSE]
    /\ sock = [d \in D |-> INVALID_SOCKET]
    /\ holder = [f \in Fds |-> IF f <= 2 THEN "stdio" ELSE "free"]
    /\ reg = {} /\ closed = {}

(* The application opens a handle of its own (a pipe end to attach). *)
AppOpen ==
    /\ FreeFds # {}
    /\ holder' = [holder EXCEPT ![LowestFree] = "app"]
    /\ UNCHANGED <<phase, kind, closeNow, sock, reg, closed>>

(* The reactor opens a socket or the wake pipe, constructs a             *)
(* ConnectionDescriptor or LoopbreakDescriptor on it, and adds it.       *)
Create(d, k) ==
    /\ phase[d] = "unborn" /\ FreeFds # {}
    /\ LET f == LowestFree
       IN /\ holder' = [holder EXCEPT ![f] = d]
          /\ sock' = [sock EXCEPT ![d] = f]
          /\ reg' = reg \cup {<<f, d>>}
    /\ phase' = [phase EXCEPT ![d] = "live"]
    /\ kind' = [kind EXCEPT ![d] = k]
    /\ UNCHANGED <<closeNow, closed>>

(* AttachFD: a ConnectionDescriptor on an application handle that no    *)
(* live descriptor holds, marked attached, and added.                    *)
Attach(d, f) ==
    /\ phase[d] = "unborn" /\ holder[f] = "app"
    /\ \A e \in D : phase[e] = "live" => sock[e] # f
    /\ sock' = [sock EXCEPT ![d] = f]
    /\ reg' = reg \cup {<<f, d>>}
    /\ phase' = [phase EXCEPT ![d] = "live"]
    /\ kind' = [kind EXCEPT ![d] = "attached"]
    /\ UNCHANGED <<closeNow, holder, closed>>

(* The InotifyDescriptor constructor: EventableDescriptor(0, em), then   *)
(* inotify_init.  On success MySocket is the new handle and the reactor  *)
(* adds it.  On failure (no free handle, or no inotify support) it       *)
(* throws: the base subobject is destroyed, and its Close sees handle 0. *)
CreateInotify(d) ==
    /\ phase[d] = "unborn"
    /\ kind' = [kind EXCEPT ![d] = "inotify"]
    /\ \/ /\ FreeFds # {}
          /\ LET f == LowestFree
             IN /\ holder' = [holder EXCEPT ![f] = d]
                /\ sock' = [sock EXCEPT ![d] = f]
                /\ reg' = reg \cup {<<f, d>>}
          /\ phase' = [phase EXCEPT ![d] = "live"]
          /\ UNCHANGED closed
       \/ /\ Apply(Close([St EXCEPT !.sock[d] = 0], d))
          /\ phase' = [phase EXCEPT ![d] = "dead"]
    /\ UNCHANGED closeNow

(* ScheduleClose(false) on a connection, from the application, the peer *)
(* or a timeout.                                                          *)
ScheduleClose(d) ==
    /\ phase[d] = "live" /\ kind[d] \in {"conn", "attached"} /\ ~closeNow[d]
    /\ closeNow' = [closeNow EXCEPT ![d] = TRUE]
    /\ UNCHANGED <<phase, kind, sock, holder, reg, closed>>

(* A fatal read or write error: ConnectionDescriptor::Read (1017) and    *)
(* _WriteOutboundData (1326) record the reason and call Close().         *)
FatalError(d) ==
    /\ phase[d] = "live" /\ kind[d] \in {"conn", "attached"}
    /\ sock[d] # INVALID_SOCKET
    /\ Apply(Close(St, d))
    /\ UNCHANGED <<phase, kind, closeNow>>

(* The reactor deletes a connection once ShouldDelete() holds, and the   *)
(* wake and inotify descriptors when it tears them down.                 *)
Delete(d) ==
    /\ phase[d] = "live"
    /\ kind[d] \in {"conn", "attached"} => ShouldDelete(d)
    /\ Apply(Destructor(St, d))
    /\ phase' = [phase EXCEPT ![d] = "dead"]
    /\ UNCHANGED <<kind, closeNow>>

Next ==
    \/ AppOpen
    \/ \E d \in D :
        \/ \E k \in {"conn", "loopbreak"} : Create(d, k)
        \/ \E f \in Fds : Attach(d, f)
        \/ CreateInotify(d) \/ ScheduleClose(d) \/ FatalError(d) \/ Delete(d)

Spec == Init /\ [][Next]_vars

-----------------------------------------------------------------------------
(* A descriptor only ever closes a handle it holds itself: never one of  *)
(* the standard handles 0-2 (the failed InotifyDescriptor constructor     *)
(* leaves MySocket at 0 for the base destructor's Close), never an        *)
(* application's attached handle, and never a handle already closed and  *)
(* handed to someone else.                                                *)
NoForeignClose ==
    \A c \in closed : c.held = c.by

(* A deleted descriptor holds no handle: every kind's destructor chain   *)
(* releases what the descriptor opened.                                  *)
FdsReleased ==
    \A f \in 3..MaxFd : holder[f] \in D => phase[holder[f]] = "live"

(* The poll set only names live descriptors on the handles they hold: a *)
(* registration that outlives its descriptor delivers events to freed    *)
(* memory (EpollEvent.data.ptr).  Close deregisters before it releases   *)
(* the handle, which an attached handle, left open, depends on; the      *)
(* InotifyDescriptor's destructor closes its handle and invalidates      *)
(* MySocket before the base Close runs, so it is never deregistered and  *)
(* relies on the kernel forgetting the closed handle.                    *)
RegisteredOnlyLive ==
    \A r \in reg : phase[r[2]] = "live" /\ sock[r[2]] = r[1]

====
