---------------------------- MODULE MCScanPhase -----------------------------
(* An application, two modules built by one location, and two versions of  *)
(* a library.  One pattern is not looked up by hash, one is in some trees  *)
(* and not in others, one never matches, and one is malformed.             *)
EXTENDS ScanPhase

CONSTANTS app, py27foo, py33foo, lib1, lib2

MCName == {app, py27foo, py33foo, lib1, lib2}

MCVersion == [n \in MCName |-> IF n = lib2 THEN 2 ELSE 1]

MCIndex == << <<app>>, <<py27foo, py33foo>>, <<lib1>>, <<lib2>> >>

Pattern(names, l, h) == [matches |-> names, location |-> l, hashed |-> h]

foo27 == Pattern({py27foo}, 2, FALSE)
foo33 == Pattern({py33foo}, 2, TRUE)
lib == Pattern({lib1, lib2}, 4, TRUE)
oldlib(h) == Pattern({lib1}, 3, h)
nolib == Pattern({}, 3, TRUE)

UpTo2(S) == {<< >>} \cup {<<p>> : p \in S} \cup {<<p, q>> : p, q \in S}

TreesWith(h) ==
  {[n \in MCName |-> CASE n = app -> a [] n = py27foo -> b [] n = py33foo -> c
                      [] n = lib1 -> d [] n = lib2 -> e] :
     a \in UpTo2({foo27, foo33, lib, oldlib(h), nolib}),
     b \in {<< >>, <<lib>>, <<foo33>>, <<lib, Malformed>>},
     c \in {<< >>, <<oldlib(h)>>},
     d \in {<< >>, <<nolib>>},
     e \in {<< >>, <<foo27>>}}

MCTrees == TreesWith(TRUE) \cup TreesWith(FALSE)
=============================================================================
