--------------------------- MODULE MCPBuildMaster ---------------------------
(* Six packages.  tool and app are released in one handler when lib is     *)
(* built, doc needs tool, and plugin needs app and broken, which needs lib *)
(* too but is excluded by the scan.                                        *)
EXTENDS PBuildMaster

CONSTANTS lib, tool, app, doc, plugin, broken, c1, c2, c3, s1

MCPkg == {lib, tool, app, doc, plugin, broken}

MCDeps ==
  [p \in MCPkg |-> CASE p = tool   -> {lib}
                     [] p = app    -> {lib}
                     [] p = doc    -> {tool}
                     [] p = plugin -> {app, broken}
                     [] p = broken -> {lib}
                     [] OTHER      -> {}]

MCPrefailed == {broken}

(* A smaller scan for the runs about the master alone.                     *)
SmallPkg == {lib, tool, app}
SmallDeps ==
  [p \in SmallPkg |-> IF p = lib THEN {} ELSE {lib}]

OneClient == {c1}
TwoClients == {c1, c2}
ThreeClients == {c1, c2, c3}
WithStat == {c1, c2, s1}
NoStat == {}
MCStat == {s1}
Everyone == {c1, c2, c3, s1}
=============================================================================
