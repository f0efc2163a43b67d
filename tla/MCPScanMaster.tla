--------------------------- MODULE MCPScanMaster ----------------------------
(* Three locations.  The first and the third yield a package of one name;  *)
(* the output of the third has an item that is not recognized before its   *)
(* last one.                                                               *)
EXTENDS PScanMaster

CONSTANTS zlib, png, gtk, c1, c2, c3

MCIndex == << <<zlib>>, <<png, gtk>>, <<gtk, zlib, Unrecognized, png>> >>

TwoClients == {c1, c2}
ThreeClients == {c1, c2, c3}
=============================================================================
