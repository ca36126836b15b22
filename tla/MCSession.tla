------------------------------- MODULE MCSession -------------------------------
(* A session of two lines, a device that changes twice, and a scope of 0, 4   *)
(* or 40 units; with the headroom, 40 units need 42.                          *)
EXTENDS Session

MCSizes == {0, 4, 40}
MCFreeSpace == {41, 42, None}
=============================================================================
