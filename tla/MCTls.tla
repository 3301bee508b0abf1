------------------------------- MODULE MCTls --------------------------------
(* Tls with a three-flight handshake (the client completes on sending the *)
(* last flight, the server on receiving it), room for one ciphertext      *)
(* record in the adaptor so the drain loop must go round more than once,  *)
(* two chunks of application plaintext and one record from the peer.      *)
EXTENDS Tls

MCFlights == 3
MCCtCap == 1
MCMaxChunks == 2
MCPeerData == 1
=============================================================================
