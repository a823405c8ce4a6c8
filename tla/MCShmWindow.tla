---------------------------- MODULE MCShmWindow ----------------------------
(* The shm program with one window, asking for every global, as              *)
(* shm-buffer.c does, with any number of seats.                              *)
EXTENDS ShmWindow

CONSTANT a    \* the surface

One == {a}
Nothing == {}
AllGlobals == Globals
Seats == {"wl_seat"}
=============================================================================
