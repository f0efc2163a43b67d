----------------------------- MODULE MCPkgTools -----------------------------
(* A library in two versions, an application whose versions need one each, *)
(* and a tool that needs any version of the application and conflicts with *)
(* the old library.  A file of the old library has become a part of the    *)
(* new application.  The old library is not to be deleted.                 *)
(*                                                                         *)
(* The first scenario has everything but the tool and one fault, which may *)
(* be a kill, a failure or one use of -f.  The second has all packages and *)
(* no fault, for dependencies of dependencies and for conflicts.  In the   *)
(* third only the old library is there, with which the tool is at odds     *)
(* although it brings it along.                                            *)
EXTENDS PkgTools

Pkgname(base, n) == [base |-> base, version |-> <<Number(n)>>]

Lib1 == Pkgname("lib", 1)
Lib2 == [base |-> "lib", version |-> <<Number(1), Modifier(Dot), Number(2), Nb(1)>>]
App1 == Pkgname("app", 1)
App2 == Pkgname("app", 2)
Tool == Pkgname("tool", 1)

MCPkg == {Lib1, Lib2, App1, App2, Tool}

Limit(op, n) == [op |-> op, version |-> <<Number(1), Modifier(Dot), Number(n)>>]

Dewey(base, limits) == {[kind |-> "dewey", base |-> base, limits |-> limits]}

MCPlist ==
  [p \in MCPkg |->
     CASE p = Lib1 -> [files |-> <<"lib", "doc">>, depends |-> << >>, conflicts |-> {}]
       [] p = Lib2 -> [files |-> <<"lib">>, depends |-> << >>, conflicts |-> {}]
       [] p = App1 -> [files |-> <<"app">>,
                       depends |-> <<Dewey("lib", {Limit(">=", 0), Limit("<", 2)})>>,
                       conflicts |-> {}]
       [] p = App2 -> [files |-> <<"app", "doc">>,
                       depends |-> <<Dewey("lib", {Limit(">=", 2)})>>,
                       conflicts |-> {}]
       [] p = Tool -> [files |-> <<"tool">>,
                       depends |-> <<BasePattern(App1)>>,
                       conflicts |-> {Dewey("lib", {Limit("<", 2)})}]]

MCPreserved == {Lib1}

MCScripts == {Lib1, App2}

MCScenarios ==
  {[packages |-> {Lib1, Lib2, App1, App2}, max_faults |-> 1,
    add_options |-> {{}, {"U"}, {"f"}, {"f", "u"}},
    delete_options |-> {{"r"}, {"A"}, {"R", "f"}}],
   [packages |-> MCPkg, max_faults |-> 0,
    add_options |-> {{}, {"u"}, {"U", "A"}},
    delete_options |-> {{}, {"r", "A"}, {"R", "k"}}],
   [packages |-> {Lib1, App1, Tool}, max_faults |-> 0,
    add_options |-> {{}, {"A"}}, delete_options |-> {{}, {"A"}, {"R"}}]}

(* One chain of three packages, removed from its top.                      *)
MCLeaves ==
  {[packages |-> {Lib2, App2, Tool}, max_faults |-> 0,
    add_options |-> {{}}, delete_options |-> {{"R"}}]}
=============================================================================
