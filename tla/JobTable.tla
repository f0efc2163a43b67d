------------------------------ MODULE JobTable ------------------------------
(***************************************************************************)
(* The job table of pbulk-build (pbuild/jobs.c): the state of every        *)
(* package of one bulk build, the counters of unbuilt dependencies, the    *)
(* list of buildable jobs and the two log files a restarted build reads.   *)
(*                                                                         *)
(* The table is a record, and every function of jobs.c that changes it is  *)
(* an operator from tables to tables, so that the standalone loop          *)
(* (PBuildJobs) and the master (PBuildMaster) call the same code the way   *)
(* pbuild.c and master.c do.                                               *)
(*                                                                         *)
(* buildable_jobs is a set here: which of several jobs of equal pkg_depth  *)
(* get_job returns is left open.  JobList keeps the list itself and shows  *)
(* that it behaves like this set.                                          *)
(***************************************************************************)
EXTENDS Integers, FiniteSets

CONSTANTS
  Pkg,        \* the packages of the resolved scan, one job each
  Deps,       \* Deps[p]: the packages named in the DEPENDS line of p
  Prefailed   \* the packages with a PKG_SKIP_REASON or a PKG_FAIL_REASON

(* pbulk-build reads a finite scan whose DEPENDS name packages of the scan *)
(* (build_tree exits otherwise), and compute_tree_depth exits on a cycle;  *)
(* TreeDepth checks that it finds every one.                               *)
ASSUME PkgAssumption == IsFiniteSet(Pkg)
ASSUME DepsAssumption == Deps \in [Pkg -> SUBSET Pkg]
ASSUME AcyclicAssumption ==
  \A S \in SUBSET Pkg : S # {} => \E p \in S : Deps[p] \cap S = {}
ASSUME PrefailedAssumption == Prefailed \subseteq Pkg

JobState == {"INIT", "OPEN", "IN_PROCESSING", "FAILED", "PREFAILED",
             "INDIRECT_FAILED", "INDIRECT_PREFAILED", "DONE"}

(* The states recursive_mark_broken may overwrite.                         *)
Markable == {"INIT", "OPEN"}

(* The states that make every dependent of a job unbuildable.              *)
Broken == {"FAILED", "PREFAILED", "INDIRECT_FAILED", "INDIRECT_PREFAILED"}

(* The states process_job never leaves while the program runs.             *)
Final == Broken \cup {"DONE"}

-----------------------------------------------------------------------------
(* The dependency graph *)

depending_pkgs(p) == {q \in Pkg : p \in Deps[q]}

(* S holds every package of T that depends on one of roots or of S.        *)
Closed(S, roots, T) ==
  \A q \in T : Deps[q] \cap (roots \cup S) # {} => q \in S

(* The packages of T that depend on one of roots through packages of T:    *)
(* what a recursion over depending_pkgs that stays in T visits.            *)
Reached(roots, T) ==
  {p \in T : \A S \in SUBSET T : Closed(S, roots, T) => p \in S}

(* The size of the subtree of packages that need p, itself included.       *)
pkg_depth == [p \in Pkg |-> Cardinality({p} \cup Reached({p}, Pkg))]

-----------------------------------------------------------------------------
(* process_job *)

Table == [state : [Pkg -> JobState], open_depends : [Pkg -> Nat],
          buildable_jobs : SUBSET Pkg,
          log_success : SUBSET Pkg, log_failed : SUBSET Pkg]

(* A seeded bug: the marking stops at the direct dependents.               *)
Bug_mark_direct(state, roots, mark) ==
  [p \in Pkg |-> IF state[p] \in Markable /\ Deps[p] \cap roots # {}
                 THEN mark ELSE state[p]]

recursive_mark_broken(state, roots, mark) ==
  LET hit == Reached(roots, {p \in Pkg : state[p] \in Markable})
  IN [p \in Pkg |-> IF p \in hit THEN mark ELSE state[p]]

JobInProcessing(t, j) ==
  [t EXCEPT !.state[j] = "IN_PROCESSING",
            !.buildable_jobs = @ \ {j}]

(* The same for every job of given: what assign_job hands out in one       *)
(* handler of the master.                                                  *)
HandedOut(t, given) ==
  [t EXCEPT !.state = [p \in Pkg |-> IF p \in given THEN "IN_PROCESSING"
                                                     ELSE t.state[p]],
            !.buildable_jobs = @ \ given]

(* A seeded bug: the counters of given up dependents do not fall.          *)
Bug_decrement_open(t, j) ==
  [p \in Pkg |-> IF p \in depending_pkgs(j) /\ t.state[p] = "OPEN"
                 THEN t.open_depends[p] - 1 ELSE t.open_depends[p]]

decremented(t, j) ==
  [p \in Pkg |-> IF p \in depending_pkgs(j) THEN t.open_depends[p] - 1
                                            ELSE t.open_depends[p]]

(* A seeded bug: the state is not looked at.                               *)
Bug_release_any(t, j) == {p \in depending_pkgs(j) : decremented(t, j)[p] = 0}

released(t, j) ==
  {p \in depending_pkgs(j) : decremented(t, j)[p] = 0 /\ t.state[p] = "OPEN"}

JobDone(t, j) ==
  [t EXCEPT !.state[j] = "DONE",
            !.open_depends = decremented(t, j),
            !.buildable_jobs = @ \cup released(t, j),
            !.log_success = @ \cup {j}]

JobFailed(t, j) ==
  [t EXCEPT !.state = recursive_mark_broken([@ EXCEPT ![j] = "FAILED"],
                                            {j}, "INDIRECT_FAILED"),
            !.log_failed = @ \cup {j}]

JobOpen(t, j) ==
  [t EXCEPT !.state[j] = "OPEN",
            !.buildable_jobs = IF t.open_depends[j] = 0 THEN @ \cup {j} ELSE @]

(* The jobs get_job may return: the head of a list kept by falling depth.  *)
FirstBuildable(t) ==
  {j \in t.buildable_jobs :
     \A k \in t.buildable_jobs : pkg_depth[k] <= pkg_depth[j]}

-----------------------------------------------------------------------------
(* init_jobs: the table a start of the program computes from the scan and  *)
(* the two logs.  The order of the entries within a log does not matter:   *)
(* an entry overwrites its own state and marks only jobs still in INIT.    *)

build_tree == [p \in Pkg |-> Cardinality(Deps[p])]

(* The states after mark_initial has seen the scan and then the logs.      *)
mark_prefailed ==
  LET all == [p \in Pkg |-> IF p \in Prefailed THEN "PREFAILED" ELSE "INIT"]
  IN recursive_mark_broken(all, Prefailed, "INDIRECT_PREFAILED")

(* A seeded bug: the log of failed builds is not replayed.                 *)
Bug_ignore_failed_log(log_success, log_failed) ==
  [p \in Pkg |-> IF p \in log_success THEN "DONE" ELSE mark_prefailed[p]]

mark_initial(log_success, log_failed) ==
  LET done == [p \in Pkg |-> IF p \in log_success THEN "DONE"
                                                  ELSE mark_prefailed[p]]
      failed == [p \in Pkg |-> IF p \in log_failed THEN "FAILED" ELSE done[p]]
  IN recursive_mark_broken(failed, log_failed, "INDIRECT_FAILED")

init_jobs(log_success, log_failed) ==
  LET marked == mark_initial(log_success, log_failed)
      state == [p \in Pkg |-> IF marked[p] = "INIT" THEN "OPEN" ELSE marked[p]]
      open_depends ==
        [p \in Pkg |-> build_tree[p] - Cardinality(Deps[p] \cap log_success)]
  IN [state |-> state,
      open_depends |-> open_depends,
      buildable_jobs |-> {p \in Pkg : marked[p] = "INIT" /\ open_depends[p] = 0},
      log_success |-> log_success,
      log_failed |-> log_failed]

(* A process that is not running: only the logs are left.                 *)
NoJobs(log_success, log_failed) ==
  [state |-> [p \in Pkg |-> "INIT"], open_depends |-> [p \in Pkg |-> 0],
   buildable_jobs |-> {},
   log_success |-> log_success, log_failed |-> log_failed]

-----------------------------------------------------------------------------
(* What a table of a running build satisfies: the parts of the invariant   *)
(* shared by the standalone loop and the master.                           *)

(* open_depends counts exactly the direct dependencies not yet built.      *)
OpenDependsExact(t) ==
  \A p \in Pkg :
    t.open_depends[p] = Cardinality({d \in Deps[p] : t.state[d] # "DONE"})

(* The build list holds the open jobs with nothing left to wait for, and   *)
(* no other: no job is lost and none is handed out twice.                  *)
BuildListExact(t) ==
  t.buildable_jobs = {p \in Pkg : t.state[p] = "OPEN" /\ t.open_depends[p] = 0}

(* Nothing is started before everything it depends on is built.            *)
DepsBuiltFirst(t) ==
  \A p \in Pkg : t.state[p] \in {"IN_PROCESSING", "DONE", "FAILED"} =>
    \A d \in Deps[p] : t.state[d] = "DONE"

(* A job is given up at once when, and only when, one of its dependencies  *)
(* cannot be had; the two kinds of failure are not mixed up.               *)
BrokenExact(t) ==
  \A p \in Pkg :
    /\ t.state[p] = "OPEN" => \A d \in Deps[p] : t.state[d] \notin Broken
    /\ t.state[p] = "INDIRECT_FAILED" =>
         \E d \in Deps[p] : t.state[d] \in {"FAILED", "INDIRECT_FAILED"}
    /\ t.state[p] = "INDIRECT_PREFAILED" =>
         \E d \in Deps[p] : t.state[d] \in {"PREFAILED", "INDIRECT_PREFAILED"}

(* The logs name exactly the jobs with the result they record.             *)
LogsExact(t) ==
  /\ t.log_success = {p \in Pkg : t.state[p] = "DONE"}
  /\ t.log_failed = {p \in Pkg : t.state[p] = "FAILED"}

(* The jobs the scan excludes, and those that need them, are out from the  *)
(* start and for good; nothing stays in INIT once init_jobs has returned.  *)
PrefailedExact(t) ==
  \A p \in Pkg :
    /\ t.state[p] # "INIT"
    /\ t.state[p] = "PREFAILED" <=> p \in Prefailed
    /\ t.state[p] = "INDIRECT_PREFAILED" <=>
         mark_prefailed[p] = "INDIRECT_PREFAILED"

(* The invariant of the table of a running build.  It is inductive under   *)
(* every operator above.                                                   *)
TableInv(t) ==
  /\ t \in Table
  /\ OpenDependsExact(t)
  /\ BuildListExact(t)
  /\ DepsBuiltFirst(t)
  /\ BrokenExact(t)
  /\ LogsExact(t)
  /\ PrefailedExact(t)

(* What it leaves to the next run: the logs agree with the scan and with   *)
(* each other.                                                             *)
LogsInv(log_success, log_failed) ==
  /\ log_success \subseteq Pkg /\ log_failed \subseteq Pkg
  /\ log_success \cap log_failed = {}
  /\ \A p \in log_success \cup log_failed :
       p \notin Prefailed /\ Deps[p] \subseteq log_success

(* Reading the logs again gives the table back, builds in progress aside:  *)
(* "the build continues where they left off" (pbulk-build.1:119).          *)
ReplayExact(t) ==
  init_jobs(t.log_success, t.log_failed).state =
    [p \in Pkg |-> IF t.state[p] = "IN_PROCESSING" THEN "OPEN" ELSE t.state[p]]

(* Nothing is open and nothing is being built: the build may end.          *)
AllFinal(t) == \A p \in Pkg : t.state[p] \in Final

(* What BuildPromise sees of a job.                                        *)
StatusOf(s) ==
  CASE s \in {"INIT", "OPEN"} -> "todo"
    [] s = "IN_PROCESSING" -> "building"
    [] s = "DONE" -> "done"
    [] s = "FAILED" -> "failed"
    [] OTHER -> "skipped"

StatusMap(t) == [p \in Pkg |-> StatusOf(t.state[p])]
=============================================================================
