----------------------------- MODULE MCAcceptor -----------------------------
(* Bounds for Acceptor: three clients against a burst of two, so a burst *)
(* can stop at its count with clients left queued, and a descriptor      *)
(* limit that the listener and two connections fill, so accept can fail  *)
(* with EMFILE part way through a burst.                                  *)
EXTENDS Acceptor

MCClients == 1..3
MCAcceptCount == 2
MCMaxFds == 3

=============================================================================
