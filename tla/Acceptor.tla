------------------------------ MODULE Acceptor ------------------------------
(***************************************************************************)
(* One AcceptorDescriptor (src/ext/ed.cpp), the listening socket, with    *)
(* the kernel's accept queue in front of it and the process's descriptor  *)
(* table behind it.  AcceptorDescriptor::Read accepts a bounded burst;    *)
(* each accepted socket is set close-on-exec and non-blocking, and on     *)
(* failure shut down, closed and skipped; otherwise it is wrapped in a    *)
(* server-mode ConnectionDescriptor, announced to the application, given *)
(* its epoll interest and added to the reactor.                            *)
(*                                                                         *)
(* Clients are the numbers 1..N in the order they connect.  Whether the   *)
(* socket setup of a client will fail is decided when it connects.  The   *)
(* accepted connections' own life is Connection.tla; here they only hold  *)
(* a descriptor until the application or the peer closes them.             *)
(***************************************************************************)
EXTENDS Naturals, Sequences, FiniteSets

CONSTANTS
    Clients,       \* 1..N, the clients that connect over one behaviour
    AcceptCount,   \* GetSimultaneousAcceptCount(): accepts per Read
    MaxFds         \* the process's descriptor limit (EMFILE beyond it)

ASSUME AcceptCount \in Nat \ {0} /\ MaxFds \in Nat \ {0}

VARIABLES
    status,      \* per client: its place in the accept path
    backlog,     \* the kernel's accept queue, oldest first
    setupFails,  \* clients whose SetFdCloexec/SetSocketNonblocking fails
    openFds,     \* descriptors in use: the listener and accepted sockets
    bCloseNow,   \* the listener's close flag (StopAcceptor)
    deleted,     \* the reactor has deleted the listener
    arrived      \* a connection arrived since the last accept burst

vars == <<status, backlog, setupFails, openFds, bCloseNow, deleted, arrived>>

States == {"idle",        \* not connected yet
           "queued",      \* in the kernel's accept queue
           "reset",       \* reset by the peer before accept
           "refused",     \* still queued when the listener closed
           "discarded",   \* accepted, setup failed, shut down and closed
           "registered",  \* a ConnectionDescriptor added to the reactor
           "closed"}      \* that connection has been deleted

(* Fault variant of ListenerEvents: the listener is edge-triggered. *)
ListenerEvents_Edge == {"EPOLLIN", "EPOLLET"}

(* The epoll interest the AcceptorDescriptor constructor registers:      *)
(* readable, level-triggered.                                             *)
ListenerEvents == {"EPOLLIN"}

(* epoll reports the listener readable: while the accept queue is not    *)
(* empty if level-triggered, and only after a new arrival if              *)
(* edge-triggered.                                                        *)
Readable ==
    /\ backlog # <<>>
    /\ "EPOLLET" \in ListenerEvents => arrived

(* The loop of AcceptorDescriptor::Read stops after AcceptCount turns,   *)
(* or when accept returns INVALID_SOCKET: the queue is empty or every    *)
(* descriptor is in use (EMFILE).                                         *)
BurstOver(st, i) ==
    i >= AcceptCount \/ st.backlog = <<>> \/ st.fds >= MaxFds

(* Fault variant of AcceptOne: a socket whose setup failed is skipped    *)
(* without being closed.                                                  *)
AcceptOne_KeepFailed(st, c) ==
    LET next == [st EXCEPT !.backlog = Tail(@), !.fds = @ + 1]
    IN IF c \in setupFails
       THEN [next EXCEPT !.status[c] = "discarded"]
       ELSE [next EXCEPT !.status[c] = "registered"]

(* One turn that accepted client c.  If SetFdCloexec or                  *)
(* SetSocketNonblocking fails, the socket is shut down and closed and    *)
(* the loop continues.  Otherwise the new ConnectionDescriptor is        *)
(* announced (EM_CONNECTION_ACCEPTED), given its interest and added; its *)
(* further life, the accepted callback's calls included, is              *)
(* Connection.tla's.                                                      *)
AcceptOne(st, c) ==
    LET next == [st EXCEPT !.backlog = Tail(@)]
    IN IF c \in setupFails
       THEN [next EXCEPT !.status[c] = "discarded"]
       ELSE [next EXCEPT !.status[c] = "registered", !.fds = @ + 1]

(* The accept loop from turn i on. *)
RECURSIVE AcceptLoop(_, _)
AcceptLoop(st, i) ==
    IF BurstOver(st, i) THEN st
    ELSE AcceptLoop(AcceptOne(st, Head(st.backlog)), i + 1)

-----------------------------------------------------------------------------
(* The listener is open with nothing queued; it holds one descriptor. *)
Init ==
    /\ status = [c \in Clients |-> "idle"]
    /\ backlog = <<>>
    /\ setupFails = {}
    /\ openFds = 1
    /\ bCloseNow = FALSE /\ deleted = FALSE
    /\ arrived = FALSE

(* Client c connects and waits in the accept queue.  Whether its socket  *)
(* setup will fail is chosen now.                                         *)
Connect(c) ==
    /\ ~deleted /\ status[c] = "idle"
    /\ status' = [status EXCEPT ![c] = "queued"]
    /\ backlog' = Append(backlog, c)
    /\ setupFails' \in {setupFails, setupFails \cup {c}}
    /\ arrived' = TRUE
    /\ UNCHANGED <<openFds, bCloseNow, deleted>>

(* The peer resets a queued connection and the kernel drops it. *)
Reset(c) ==
    /\ status[c] = "queued"
    /\ status' = [status EXCEPT ![c] = "reset"]
    /\ backlog' = SelectSeq(backlog, LAMBDA x : x # c)
    /\ UNCHANGED <<setupFails, openFds, bCloseNow, deleted,
                   arrived>>

(* AcceptorDescriptor::Read, when the listener selects readable: one     *)
(* accept burst.                                                          *)
Read ==
    /\ ~deleted /\ Readable
    /\ arrived' = FALSE
    /\ LET st == AcceptLoop([backlog |-> backlog, status |-> status,
                             fds |-> openFds], 0)
       IN /\ backlog' = st.backlog
          /\ status' = st.status
          /\ openFds' = st.fds
    /\ UNCHANGED <<setupFails, bCloseNow, deleted>>

(* An accepted connection is deleted (its own close, Connection.tla),     *)
(* freeing its descriptor.                                                *)
CloseConnection(c) ==
    /\ status[c] = "registered"
    /\ status' = [status EXCEPT ![c] = "closed"]
    /\ openFds' = openFds - 1
    /\ UNCHANGED <<backlog, setupFails, bCloseNow, deleted,
                   arrived>>

(* AcceptorDescriptor::StopAcceptor: ScheduleClose(false) on the listener. *)
StopAcceptor ==
    /\ ~deleted /\ ~bCloseNow
    /\ bCloseNow' = TRUE
    /\ UNCHANGED <<status, backlog, setupFails, openFds, deleted, arrived>>

(* The reactor deletes the listener once ShouldDelete() holds; closing   *)
(* it makes the kernel refuse the connections still queued.               *)
DeleteAcceptor ==
    /\ ~deleted /\ bCloseNow
    /\ deleted' = TRUE
    /\ openFds' = openFds - 1
    /\ status' = [c \in Clients |-> IF status[c] = "queued" THEN "refused"
                                                          ELSE status[c]]
    /\ backlog' = <<>>
    /\ UNCHANGED <<setupFails, bCloseNow, arrived>>

Next ==
    \/ \E c \in Clients : Connect(c) \/ Reset(c) \/ CloseConnection(c)
    \/ Read
    \/ StopAcceptor
    \/ DeleteAcceptor

(* The reactor polls the listener on every pass and calls Read whenever *)
(* epoll reports it readable; it deletes a listener whose   *)
(* close is scheduled on the pass after.                                  *)
Fairness ==
    /\ WF_vars(Read)
    /\ WF_vars(DeleteAcceptor)

Spec == Init /\ [][Next]_vars /\ Fairness

-----------------------------------------------------------------------------
(* Every descriptor accept hands out is accounted for: the process holds *)
(* exactly the listener (until deleted) and the registered connections,  *)
(* so a socket whose setup failed part way (ed.cpp:1755) was closed.     *)
NoFdLeak ==
    openFds = (IF deleted THEN 0 ELSE 1)
              + Cardinality({c \in Clients : status[c] = "registered"})

(* Every client in the accept queue is eventually accepted, reset, or    *)
(* refused by the listener's close.                                      *)
QueuedClientServed ==
    \A c \in Clients : (status[c] = "queued") ~> (status[c] # "queued")

(* A client waiting in the accept queue is eventually accepted (or reset *)
(* or refused) unless the descriptor table fills up: a burst that stops  *)
(* at its AcceptCount leaves clients queued, and because the listener is *)
(* level-triggered the next pass reports it readable again even when no  *)
(* new connection arrives.                                                *)
QueuedClientAcceptedBelowLimit ==
    \A c \in Clients :
        (status[c] = "queued") ~> (status[c] # "queued" \/ openFds >= MaxFds)

=============================================================================
