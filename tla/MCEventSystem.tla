--------------------------- MODULE MCEventSystem ---------------------------
(* Two peers and two signals of which two come.  The pipe takes two bytes, *)
(* reads are of one, the poll array begins with one slot.                  *)
EXTENDS EventSystem

CONSTANTS p1, p2, chld, usr1

MCPeer == {p1, p2}

MCSignals == <<chld, usr1>>
=============================================================================
