-------------------------- MODULE MCWaylandSurface --------------------------
(* Instances of WaylandSurface for TLC: one window, as in the examples, or   *)
(* two windows of one program.                                               *)
EXTENDS WaylandSurface

CONSTANTS a, b    \* surfaces

One == {a}
Two == {a, b}
Only_a == {a}
Nothing == {}
=============================================================================
