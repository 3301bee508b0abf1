----------------------------- MODULE MCDatagram -----------------------------
(* Bounds for Datagram: four datagrams, empty and one-byte payloads, and *)
(* bursts of two, so that a Write can stop at the burst limit with pages  *)
(* left and a Read can queue several replies at once.                     *)
EXTENDS Datagram

MCMaxDatagrams == 4
MCLengths == {0, 1}
MCReadBurst == 2
MCWriteBurst == 2

=============================================================================
