----------------------------- MODULE MCWatchOnly -----------------------------
(* WatchOnly has no constants: its state is a handful of flags, so TLC   *)
(* explores every order of the application's calls, the socket's         *)
(* readiness and the reactor's dispatch steps.                            *)
EXTENDS WatchOnly

====
