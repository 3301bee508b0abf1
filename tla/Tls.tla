-------------------------------- MODULE Tls ---------------------------------
(***************************************************************************)
(* The TLS plumbing of a ConnectionDescriptor (src/ext/ed.cpp): StartTls,  *)
(* the TLS branch of SendOutboundData, _DispatchInboundData,              *)
(* _CheckHandshakeStatus, _DispatchCiphertext and _SendRawOutboundData,   *)
(* with a peer on the other end of the socket.                             *)
(*                                                                         *)
(* The adaptor, SslBox_t, lives in ssl.cpp, which is not part of this      *)
(* repository; its operators (Box...) are written from the spec: it      *)
(* buffers inbound ciphertext, advances the handshake when plaintext is    *)
(* asked for, queues application plaintext until the handshake is done,    *)
(* holds at most CtCap records of produced ciphertext, and reports a       *)
(* protocol failure as -2.  Bytes are abstracted to records: one           *)
(* handshake flight, one chunk of application data, or garbage.           *)
(***************************************************************************)
EXTENDS Naturals, Sequences, SequencesExt

CONSTANTS
    Flights,     \* flights of the handshake; the client sends the odd ones
    CtCap,       \* ciphertext records the adaptor holds before it stops encrypting
    MaxChunks,   \* plaintext chunks the application sends over a behaviour
    PeerData     \* application records the peer sends over a behaviour

ASSUME Flights \in Nat \ {0} /\ CtCap \in Nat \ {0}

VARIABLES
    IsServer,            \* bIsServer
    tlsStarted,          \* SslBox != NULL
    box,                 \* the SslBox_t
    OutboundPages,       \* ciphertext records queued for the socket
    bHandshakeSignaled,
    appLog,              \* the events the application has received, in order
    bCloseNow, bCloseAfterWriting,
    UnbindReasonCode,
    deleted,             \* the reactor has deleted the descriptor
    nextId,              \* the id of the next plaintext chunk the application sends
    sentAtClose,         \* chunks sent before close_connection_after_writing
    toPeer, toUs,        \* records in flight on the socket, each way
    peerStep, peerGot, peerSent, peerBad

vars == <<IsServer, tlsStarted, box, OutboundPages, bHandshakeSignaled, appLog,
          bCloseNow, bCloseAfterWriting, UnbindReasonCode, deleted, nextId,
          sentAtClose, toPeer, toUs, peerStep, peerGot, peerSent, peerBad>>

HsRec == [k |-> "hs", id |-> 0]
BadRec == [k |-> "bad", id |-> 0]
DataRec(i) == [k |-> "data", id |-> i]

(* Flight j is sent by the client when j is odd. *)
SentByServer(j) == j % 2 = 0

-----------------------------------------------------------------------------
(* The adaptor (spec_modelled).  step counts the flights sent or received. *)
BoxNew(server) ==
    [server |-> server, step |-> IF server THEN 0 ELSE 1, failed |-> FALSE,
     inQ |-> <<>>, ptQ |-> <<>>,
     ctQ |-> IF server THEN <<>> ELSE <<HsRec>>]

BoxDone(b) == b.step = Flights

(* The adaptor advances the handshake as far as the buffered input allows, *)
(* producing its own flights as ciphertext.                                *)
RECURSIVE Handshake(_)
Handshake(b) ==
    IF BoxDone(b) \/ b.failed THEN b
    ELSE IF SentByServer(b.step + 1) = b.server
         THEN Handshake([b EXCEPT !.step = @ + 1, !.ctQ = Append(@, HsRec)])
    ELSE IF b.inQ = <<>> THEN b
    ELSE IF Head(b.inQ) = HsRec
         THEN Handshake([b EXCEPT !.step = @ + 1, !.inQ = Tail(@)])
    ELSE [b EXCEPT !.failed = TRUE]

(* SslBox_t::GetPlaintext: >0 with one record of plaintext, 0 when it     *)
(* needs more input, -2 on a protocol failure.                            *)
BoxGetPlaintext(b) ==
    LET h == Handshake(b)
    IN CASE h.failed -> [box |-> h, r |-> -2]
         [] ~BoxDone(h) \/ h.inQ = <<>> -> [box |-> h, r |-> 0]
         [] Head(h.inQ).k = "data" -> [box |-> [h EXCEPT !.inQ = Tail(@)], r |-> 1]
         [] OTHER -> [box |-> [h EXCEPT !.failed = TRUE, !.inQ = Tail(@)], r |-> -2]

(* SslBox_t::PutPlaintext: queue chunk c (0 for the NULL pump), and once  *)
(* the handshake is done encrypt queued chunks while there is room: >0 if *)
(* it encrypted, <0 if the adaptor has failed, 0 otherwise.               *)
BoxPutPlaintext(b, c) ==
    LET q == IF c = 0 THEN b.ptQ ELSE Append(b.ptQ, c)
        room == IF Len(b.ctQ) < CtCap THEN CtCap - Len(b.ctQ) ELSE 0
        n == IF BoxDone(b) /\ ~b.failed
             THEN IF Len(q) < room THEN Len(q) ELSE room ELSE 0
    IN [box |-> [b EXCEPT !.ptQ = SubSeq(q, n + 1, Len(q)),
                          !.ctQ = @ \o [i \in 1..n |-> DataRec(q[i])]],
        r |-> IF b.failed /\ q # <<>> THEN -1 ELSE IF n > 0 THEN 1 ELSE 0]

-----------------------------------------------------------------------------
(* The descriptor's state, as one record for the loops below. *)
St == [box |-> box, pages |-> OutboundPages, sig |-> bHandshakeSignaled,
       log |-> appLog, now |-> bCloseNow, after |-> bCloseAfterWriting,
       reason |-> UnbindReasonCode]

IsCloseScheduled(st) == st.now \/ st.after

(* EventableDescriptor::ScheduleClose: an after-writing close can only be *)
(* upgraded to an immediate one.                                          *)
ScheduleClose(st, afterWriting) ==
    IF IsCloseScheduled(st)
    THEN IF afterWriting THEN st ELSE [st EXCEPT !.now = TRUE]
    ELSE IF afterWriting THEN [st EXCEPT !.after = TRUE]
         ELSE [st EXCEPT !.now = TRUE]

(* The first loop of _DispatchCiphertext: every ready record goes through *)
(* _SendRawOutboundData, which drops it once a close is scheduled.        *)
DrainCiphertext(st) ==
    [st EXCEPT !.box.ctQ = <<>>,
               !.pages = IF IsCloseScheduled(st) THEN @ ELSE @ \o st.box.ctQ]

(* The pump loop of _DispatchCiphertext: PutPlaintext(NULL, 0) while it   *)
(* encrypts; a failure schedules an immediate close.                      *)
RECURSIVE Pump(_)
Pump(st) ==
    LET p == BoxPutPlaintext(st.box, 0)
        s == [st EXCEPT !.box = p.box]
    IN IF p.r > 0 THEN Pump(s)
       ELSE IF p.r < 0 THEN ScheduleClose(s, FALSE) ELSE s

(* Fault variant of DispatchCiphertext: one pass, no do-while(did_work). *)
DispatchCiphertext_OnePass(st) == Pump(DrainCiphertext(st))

(* _DispatchCiphertext: drain and pump until neither makes progress. *)
RECURSIVE DispatchCiphertext(_)
DispatchCiphertext(st) ==
    LET d == DrainCiphertext(st)
        didWork == st.box.ctQ # <<>> \/ BoxPutPlaintext(d.box, 0).r > 0
    IN IF didWork THEN DispatchCiphertext(Pump(d)) ELSE Pump(d)

(* Fault variant of CheckHandshakeStatus without the bHandshakeSignaled test. *)
CheckHandshakeStatus_NoFlag(st) ==
    IF BoxDone(st.box)
    THEN [st EXCEPT !.sig = TRUE, !.log = Append(@, "handshake")]
    ELSE st

(* _CheckHandshakeStatus: signal EM_SSL_HANDSHAKE_COMPLETED once. *)
CheckHandshakeStatus(st) ==
    IF ~st.sig /\ BoxDone(st.box)
    THEN [st EXCEPT !.sig = TRUE, !.log = Append(@, "handshake")]
    ELSE st

(* Fault variant of ReadLoop: no _CheckHandshakeStatus after the loop. *)
RECURSIVE ReadLoop_NoFinalCheck(_)
ReadLoop_NoFinalCheck(st) ==
    LET g == BoxGetPlaintext(st.box)
        s == [st EXCEPT !.box = g.box]
    IN IF g.r > 0 THEN ReadLoop_NoFinalCheck([CheckHandshakeStatus(s) EXCEPT !.log = Append(@, "read")])
       ELSE IF g.r = -2 THEN ScheduleClose([s EXCEPT !.reason = "EPROTO"], FALSE)
       ELSE DispatchCiphertext(s)

(* The GetPlaintext loop of _DispatchInboundData and what follows it: each *)
(* record of plaintext is preceded by a handshake check and dispatched;   *)
(* -2 records EPROTO and closes now, without draining ciphertext.         *)
RECURSIVE ReadLoop(_)
ReadLoop(st) ==
    LET g == BoxGetPlaintext(st.box)
        s == [st EXCEPT !.box = g.box]
    IN IF g.r > 0 THEN ReadLoop([CheckHandshakeStatus(s) EXCEPT !.log = Append(@, "read")])
       ELSE IF g.r = -2 THEN ScheduleClose([s EXCEPT !.reason = "EPROTO"], FALSE)
       ELSE DispatchCiphertext(CheckHandshakeStatus(s))

(* The chunk loop of SendOutboundData's TLS branch. *)
RECURSIVE SendChunks(_, _)
SendChunks(st, ids) ==
    IF ids = <<>> THEN st
    ELSE LET p == BoxPutPlaintext(st.box, Head(ids))
             s == [st EXCEPT !.box = p.box]
         IN SendChunks(IF p.r < 0 THEN ScheduleClose(s, FALSE)
                       ELSE DispatchCiphertext(s), Tail(ids))


(* Fault variant of StartTls: the new adaptor's output is not drained. *)
Start_NoDispatch(st) == st

(* What StartTls does after creating the adaptor. *)
Start(st) == DispatchCiphertext(st)

-----------------------------------------------------------------------------
(* The connection is open and TLS not started; when we are the server the *)
(* client's first flight is already waiting on the socket.                *)
Init ==
    /\ IsServer \in BOOLEAN
    /\ tlsStarted = FALSE
    /\ box = BoxNew(IsServer)
    /\ OutboundPages = <<>>
    /\ bHandshakeSignaled = FALSE
    /\ appLog = <<>>
    /\ bCloseNow = FALSE /\ bCloseAfterWriting = FALSE
    /\ UnbindReasonCode = "none"
    /\ deleted = FALSE
    /\ nextId = 1 /\ sentAtClose = 0
    /\ toPeer = <<>>
    /\ toUs = IF IsServer THEN <<HsRec>> ELSE <<>>
    /\ peerStep = IF IsServer THEN 1 ELSE 0
    /\ peerGot = <<>> /\ peerSent = 0 /\ peerBad = FALSE

(* Write back a descriptor record. *)
Apply(st) ==
    /\ box' = st.box
    /\ OutboundPages' = st.pages
    /\ bHandshakeSignaled' = st.sig
    /\ appLog' = st.log
    /\ bCloseNow' = st.now /\ bCloseAfterWriting' = st.after
    /\ UnbindReasonCode' = st.reason

Peer == <<toPeer, toUs, peerStep, peerGot, peerSent, peerBad>>

(* ConnectionDescriptor::StartTls; a second call throws and changes nothing. *)
StartTls ==
    /\ ~deleted /\ ~tlsStarted
    /\ tlsStarted' = TRUE
    /\ LET st == Start(St) IN Apply(st)
    /\ UNCHANGED <<IsServer, deleted, nextId, sentAtClose>> /\ UNCHANGED Peer

(* The application calls send_data with n chunks' worth of plaintext. *)
SendOutboundData(n) ==
    /\ ~deleted /\ tlsStarted
    /\ nextId + n - 1 <= MaxChunks
    /\ LET st == SendChunks(St, [i \in 1..n |-> nextId + i - 1]) IN Apply(st)
    /\ nextId' = nextId + n
    /\ UNCHANGED <<IsServer, tlsStarted, deleted, sentAtClose>> /\ UNCHANGED Peer

(* The application closes the connection, now or after writing. *)
AppClose(afterWriting) ==
    /\ ~deleted /\ ~IsCloseScheduled(St)
    /\ LET st == ScheduleClose(St, afterWriting) IN Apply(st)
    /\ sentAtClose' = nextId - 1
    /\ UNCHANGED <<IsServer, tlsStarted, deleted, nextId>> /\ UNCHANGED Peer

(* ConnectionDescriptor::Read delivers the first k records on the socket  *)
(* to _DispatchInboundData (PutCiphertext, then the plaintext loop).      *)
Read(k) ==
    /\ ~deleted /\ tlsStarted
    /\ k \in 1..Len(toUs)
    /\ LET st == ReadLoop([St EXCEPT !.box.inQ = @ \o SubSeq(toUs, 1, k)]) IN Apply(st)
    /\ toUs' = SubSeq(toUs, k + 1, Len(toUs))
    /\ UNCHANGED <<IsServer, tlsStarted, deleted, nextId, sentAtClose, toPeer,
                   peerStep, peerGot, peerSent, peerBad>>

(* ConnectionDescriptor::Write puts the first k pages on the socket. *)
Write(k) ==
    /\ ~deleted
    /\ k \in 1..Len(OutboundPages)
    /\ toPeer' = toPeer \o SubSeq(OutboundPages, 1, k)
    /\ OutboundPages' = SubSeq(OutboundPages, k + 1, Len(OutboundPages))
    /\ UNCHANGED <<IsServer, tlsStarted, box, bHandshakeSignaled, appLog,
                   bCloseNow, bCloseAfterWriting, UnbindReasonCode, deleted,
                   nextId, sentAtClose, toUs, peerStep, peerGot, peerSent, peerBad>>

(* EventableDescriptor::ShouldDelete holds and the reactor deletes it. *)
Delete ==
    /\ ~deleted
    /\ bCloseNow \/ (bCloseAfterWriting /\ OutboundPages = <<>>)
    /\ deleted' = TRUE
    /\ UNCHANGED <<IsServer, tlsStarted, box, OutboundPages, bHandshakeSignaled,
                   appLog, bCloseNow, bCloseAfterWriting, UnbindReasonCode,
                   nextId, sentAtClose>> /\ UNCHANGED Peer

-----------------------------------------------------------------------------
(* The peer: the other role of the handshake, then a reader of our data. *)
PeerDone == peerStep = Flights

PeerRecv ==
    /\ toPeer # <<>>
    /\ LET r == Head(toPeer)
           stepped == peerStep + 1
           reply == r = HsRec /\ stepped < Flights
                    /\ SentByServer(stepped + 1) = ~IsServer
       IN /\ toPeer' = Tail(toPeer)
          /\ peerStep' = IF r = HsRec THEN (IF reply THEN stepped + 1 ELSE stepped)
                          ELSE peerStep
          /\ toUs' = IF reply THEN Append(toUs, HsRec) ELSE toUs
          /\ peerGot' = IF r.k = "data" THEN Append(peerGot, r.id) ELSE peerGot
    /\ UNCHANGED <<IsServer, tlsStarted, box, OutboundPages, bHandshakeSignaled,
                   appLog, bCloseNow, bCloseAfterWriting, UnbindReasonCode,
                   deleted, nextId, sentAtClose, peerSent, peerBad>>

PeerSend ==
    /\ PeerDone /\ peerSent < PeerData
    /\ toUs' = Append(toUs, DataRec(0))
    /\ peerSent' = peerSent + 1
    /\ UNCHANGED <<IsServer, tlsStarted, box, OutboundPages, bHandshakeSignaled,
                   appLog, bCloseNow, bCloseAfterWriting, UnbindReasonCode,
                   deleted, nextId, sentAtClose, toPeer, peerStep, peerGot, peerBad>>

(* A broken or hostile peer sends bytes that are not a valid record. *)
PeerGarbage ==
    /\ ~peerBad
    /\ toUs' = Append(toUs, BadRec)
    /\ peerBad' = TRUE
    /\ UNCHANGED <<IsServer, tlsStarted, box, OutboundPages, bHandshakeSignaled,
                   appLog, bCloseNow, bCloseAfterWriting, UnbindReasonCode,
                   deleted, nextId, sentAtClose, toPeer, peerStep, peerGot, peerSent>>

Next ==
    \/ StartTls
    \/ \E n \in 1..2 : SendOutboundData(n)
    \/ \E aw \in BOOLEAN : AppClose(aw)
    \/ \E k \in 1..Len(toUs) : Read(k)
    \/ \E k \in 1..Len(OutboundPages) : Write(k)
    \/ Delete
    \/ PeerRecv \/ PeerSend \/ PeerGarbage

(* Read is enabled exactly when records wait on a live TLS connection. *)
ReadReady == ~deleted /\ tlsStarted /\ toUs # <<>>

(* The socket is level-triggered: the reactor reads while records wait    *)
(* and writes while pages are queued, and deletes a descriptor whose      *)
(* ShouldDelete holds; the peer's TLS stack answers what it receives.     *)
(* Weak fairness of Read is written out with ReadReady, its enabling      *)
(* condition, so that TLC need not evaluate the read loop to decide it.   *)
Fairness ==
    /\ <>[]ReadReady => []<><<\E k \in 1..Len(toUs) : Read(k)>>_vars
    /\ WF_vars(\E k \in 1..Len(OutboundPages) : Write(k))
    /\ WF_vars(Delete)
    /\ WF_vars(PeerRecv)

Spec == Init /\ [][Next]_vars /\ Fairness

-----------------------------------------------------------------------------
(* The application sees EM_SSL_HANDSHAKE_COMPLETED at most once, and      *)
(* before any decrypted data: _DispatchInboundData checks the handshake   *)
(* before each record it dispatches, and bHandshakeSignaled keeps the     *)
(* check from firing again on later reads and pump iterations.            *)
HandshakeEventOnceFirst ==
    \A i \in 1..Len(appLog) :
        /\ appLog[i] = "handshake" => \A j \in 1..(i - 1) : appLog[j] # "handshake"
        /\ appLog[i] = "read" => \E j \in 1..(i - 1) : appLog[j] = "handshake"

(* Whenever the reactor is between events, a completed handshake has been *)
(* signalled, also when it completed on input that carried no plaintext;  *)
(* only an adaptor that failed (and so closed the connection) is exempt.  *)
HandshakeSignalledWhenDone ==
    (tlsStarted /\ BoxDone(box) /\ ~box.failed) => bHandshakeSignaled

(* Between events the adaptor holds no ciphertext and, once the handshake *)
(* is done, no plaintext: _DispatchCiphertext loops until neither the     *)
(* drain nor the pump makes progress, whatever room the adaptor has.      *)
CiphertextFlushed ==
    (tlsStarted /\ ~bCloseNow /\ ~bCloseAfterWriting)
        => /\ box.ctQ = <<>>
           /\ BoxDone(box) => box.ptQ = <<>>

(* Once TLS is started the connection either completes its handshake or  *)
(* is deleted: the first flight is drained to the socket, every flight    *)
(* received is answered, and a protocol failure closes the connection.   *)
HandshakeProgress ==
    tlsStarted ~> (bHandshakeSignaled \/ deleted)

(* close_connection_after_writing deletes the connection only after the  *)
(* plaintext sent before it is on the socket (the spec: an after-writing *)
(* close waits for the outbound data to drain).                           *)
AfterWritingSendsTls ==
    (deleted /\ bCloseAfterWriting /\ ~bCloseNow)
        => \A i \in 1..sentAtClose : \E j \in 1..Len(toPeer) : toPeer[j] = DataRec(i)

=============================================================================
