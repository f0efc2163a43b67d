---------------------------- MODULE MCBuildOrder ---------------------------
(* Eight packages: base, whose result releases lib and tool, both deep,    *)
(* and demo, shallow, but not broken, which the scan excludes; app and     *)
(* suite above lib and tool; extra, which needs lib and broken.  The other *)
(* graphs are those in which any of the first four jobs depends on any of  *)
(* them.                                                                   *)
EXTENDS BuildOrder

CONSTANTS base, lib, tool, app, suite, broken, extra, demo

MCJobs == <<suite, app, lib, broken, demo, base, tool, extra>>

MCPkg == ToSet(MCJobs)

MCDeps ==
  [p \in MCPkg |->
     CASE p = app   -> {lib, tool}
       [] p = suite -> {app}
       [] p = extra -> {lib, broken}
       [] p = base -> {}
       [] OTHER     -> {base}]

MCPrefailed == {broken}

MCGraphs ==
  {[k \in 1 .. 8 |-> IF k <= 4 THEN g[k] ELSE {}] : g \in [1 .. 4 -> SUBSET (1 .. 4)]}
=============================================================================
