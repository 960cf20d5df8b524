---------------------------- MODULE MCSocketPool ----------------------------
(* SocketPool on a small pool.  Connections are interchangeable, but the    *)
(* run checks liveness as well, so no symmetry is declared.                 *)
EXTENDS SocketPool

\* Two slots, as in a manager created with poolSize 2.
MCIndex == 0 .. 1
MCConnId == 1 .. 5
=============================================================================
