---------------------------- MODULE MCMakeInstall ---------------------------
(* Two users, two packages that need a third.  The library and the tool    *)
(* install into LOCALBASE; the application goes through a binary package.  *)
EXTENDS MakeInstall

CONSTANTS u1, u2, lib, app, tool

MCUser == {u1, u2}
MCPkg == {lib, app, tool}
MCPid == MCUser \X MCPkg
MCLock == MCPkg \cup {LOCALBASE}
MCDeps == [p \in MCPkg |-> IF p = lib THEN {} ELSE {lib}]
MCNoDestdir == {lib, tool}

(* The first wants the application; the second that, the tool or the       *)
(* library.                                                                *)
MCGoals == {[u \in MCUser |-> IF u = u1 THEN app ELSE p] : p \in MCPkg}
=============================================================================
