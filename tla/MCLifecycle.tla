----------------------------- MODULE MCLifecycle -----------------------------
(* Three descriptors, which can be of every kind together, and handles   *)
(* 3..5, so that the table can fill (the inotify constructor fails), a   *)
(* closed handle is handed out again, and an application handle can be  *)
(* attached beside two descriptors of the reactor's own.                 *)
EXTENDS Lifecycle, TLC

CONSTANTS d1, d2, d3

MCD == {d1, d2, d3}
MCMaxFd == 5
MCSymmetry == Permutations(MCD)

====
