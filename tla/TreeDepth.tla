----------------------------- MODULE TreeDepth -----------------------------
(***************************************************************************)
(* compute_tree_depth of jobs.c: init_jobs calls it for every job of the   *)
(* array, the recursion counts the packages that depend on the job, and a  *)
(* path back to the job ends the program.  The recursion stops at jobs it  *)
(* has seen, so that cycles which avoid the root are passed over; the      *)
(* properties are that no cycle survives all calls and that the number is  *)
(* the size of the subtree.  BuildOrder checks them on many graphs.        *)
(***************************************************************************)
EXTENDS Integers, FiniteSets, SequencesExt

CONSTANT len_jobs   \* the number of jobs

Node == 1 .. len_jobs   \* the jobs, by their place in the array

VARIABLES
  deps,       \* deps[p]: the packages p depends on
  i,          \* the loop variable of init_jobs
  pkg_depth,  \* the results so far
  exited      \* compute_tree_depth has called exit(1)

(* A seeded bug: the walk follows the dependencies of p.                   *)
Bug_wrong_way(p) == deps[p]

depending_pkgs(p) == {q \in Node : p \in deps[q]}

Walk == [head : SUBSET Node, cyclic : BOOLEAN]

(* The calls for one root: what each returns, for the list of the jobs     *)
(* seen so far (head), whether the root was met again, and the job.        *)
compute_tree_depth_rec(root) ==
  LET visit[walk \in Walk] ==
        [p \in Node |->
           IF walk.cyclic \/ (p = root /\ walk.head # {})
           THEN [walk EXCEPT !.cyclic = TRUE]
           ELSE IF p \in walk.head
                THEN walk
                ELSE FoldLeft(LAMBDA w, q : visit[w][q],
                              [walk EXCEPT !.head = @ \cup {p}],
                              SetToSeq(depending_pkgs(p)))]
  IN visit

Init ==
  /\ deps \in [Node -> SUBSET Node]
  /\ i = 1
  /\ pkg_depth = [p \in Node |-> 0]
  /\ exited = FALSE

compute_tree_depth ==
  LET walk == compute_tree_depth_rec(i)[[head |-> {}, cyclic |-> FALSE]][i]
  IN /\ ~exited /\ i <= len_jobs
     /\ exited' = walk.cyclic
     /\ pkg_depth' = [pkg_depth EXCEPT ![i] = Cardinality(walk.head)]
     /\ i' = i + 1
     /\ UNCHANGED deps

-----------------------------------------------------------------------------
(* What p needs: its dependencies, theirs and so on.                       *)
needs(p) ==
  LET within[k \in 1 .. len_jobs] ==
        IF k = 1 THEN deps[p]
        ELSE LET nearer == within[k - 1]
             IN nearer \cup UNION {deps[q] : q \in nearer}
  IN within[len_jobs]

(* The program goes on to build exactly if the scan has no cycle, and it   *)
(* exits only if there is one.                                             *)
CyclesRejected ==
  /\ exited => \E p \in Node : p \in needs(p)
  /\ i > len_jobs /\ ~exited => \A p \in Node : p \notin needs(p)

(* pkg_depth is the size of the subtree, and so a package comes before     *)
(* everything that depends on it in a list kept by falling depth.          *)
DepthIsSubtreeSize ==
  i > len_jobs /\ ~exited =>
    /\ \A p \in Node : pkg_depth[p] = 1 + Cardinality({q \in Node : p \in needs(q)})
    /\ \A p \in Node : \A q \in deps[p] : pkg_depth[q] > pkg_depth[p]
=============================================================================
