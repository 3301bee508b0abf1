----------------------------- MODULE MCHeartbeat -----------------------------
(* Bounds for the timeout machinery.  Timeouts of 2 and 4 ticks against a *)
(* horizon of 12 ticks leave room for a full timeout, a check that finds  *)
(* the connection active, and the re-armed timeout after it; a quantum of *)
(* one tick exercises Heartbeat's skew.                                   *)
EXTENDS Heartbeat

MCMaxTime == 12
MCQuantum == 1
MCDefaultConnectTimeout == 3
MCInactivityTimeouts == {0, 2, 4}
MCConnectTimeouts == {0, 2}

====
