------------------------------- MODULE MCProxy -------------------------------
(* Bounds for checking proxy links.  Reads of up to two bytes against a   *)
(* byte limit of one and a threshold of one make the limit fall inside a *)
(* chunk, the remainder go to the application, and a sink's queue pass   *)
(* its threshold and drain back to it.  Two descriptors allow proxying in *)
(* both directions and to oneself; three are needed for a busy target.   *)
EXTENDS Proxy, TLC

MCReadBurst == 2
MCChunkMax == 2
MCMaxRead == 2
MCMaxAppSend == 1
MCBufSizes == {1}
MCLengths == {0, 1}

Symmetry == Permutations(Desc)

====
