---------------------------- MODULE MCJobHandles ----------------------------
(* JobHandles for TLC: two processes, told apart by name because one submits *)
(* or dies and the other awaits.                                             *)
EXTENDS JobHandles, TLC

CONSTANTS p1, p2
=============================================================================
