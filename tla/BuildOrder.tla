----------------------------- MODULE BuildOrder -----------------------------
(***************************************************************************)
(* pbulk-build from the graph on: init_jobs computes the depth of every    *)
(* job and ends the program at a cycle (TreeDepth); if it gets through,    *)
(* the build list is kept by these depths (JobList) under the loop of      *)
(* normal mode (PBuildJobs) or under a master with any number of clients.  *)
(* The first part runs on every graph of Graphs and on that of the scan,   *)
(* the second part on the scan.                                            *)
(***************************************************************************)
EXTENDS PBuildJobs, SequencesExt

CONSTANTS
  jobs,    \* the array of jobs: the packages in the order of the scan
  Graphs   \* more graphs, as functions from places in the array

ASSUME JobsAssumption == jobs \in Seq(Pkg) /\ IsInjective(jobs) /\ ToSet(jobs) = Pkg
ASSUME GraphsAssumption ==
  Graphs \subseteq [1 .. Len(jobs) -> SUBSET (1 .. Len(jobs))]

VARIABLES
  mode,                      \* "normal" or "master"
  buildable_jobs,            \* see JobList
  deps, i, depth, exited     \* see TreeDepth

List == INSTANCE JobList
Tree == INSTANCE TreeDepth WITH len_jobs <- Len(jobs), pkg_depth <- depth

treeVars == <<deps, i, depth, exited>>
allVars == <<vars, mode, buildable_jobs, treeVars>>

(* DEPENDS as places in the array.                                         *)
scan ==
  [k \in 1 .. Len(jobs) |-> {l \in 1 .. Len(jobs) : jobs[l] \in Deps[jobs[k]]}]

InitAll ==
  /\ phase = "down" /\ runs = 0
  /\ List!Init
  /\ deps \in Graphs \cup {scan}
  /\ mode \in {"normal", "master"} /\ (deps # scan => mode = "normal")
  /\ Tree!Init

computed == i > Len(jobs) /\ ~exited

ComputeDepth ==
  /\ Tree!compute_tree_depth
  /\ UNCHANGED <<vars, mode, buildable_jobs>>

(* get_job, in normal mode only when nothing is being built.               *)
GetFromList ==
  /\ phase = "running"
  /\ mode = "normal" => Idle
  /\ List!GetJob
  /\ UNCHANGED <<phase, runs>>

(* get_job returned NULL.  The master waits for its clients.               *)
FinishList ==
  /\ phase = "running" /\ Idle
  /\ buildable_jobs = << >>
  /\ phase' = "finished"
  /\ UNCHANGED <<runs, table, buildable_jobs>>

(* kill_peer of the master.                                                *)
ReopenLost ==
  /\ mode = "master" /\ phase = "running"
  /\ \E j \in Pkg : List!Reopen(j)
  /\ UNCHANGED <<phase, runs>>

DoneOrFailed ==
  \/ BuildDone /\ \E j \in Pkg : List!Done(j)
  \/ BuildFailed /\ \E j \in Pkg : List!Failed(j)

Build(step) ==
  /\ computed /\ deps = scan
  /\ step
  /\ UNCHANGED <<mode, treeVars>>

NextAll ==
  \/ ComputeDepth
  \/ Build(Start /\ List!Start)
  \/ Build(GetFromList)
  \/ Build(DoneOrFailed)
  \/ Build(FinishList)
  \/ Build(ReopenLost)
  \/ Build((Crash \/ RunAgain) /\ buildable_jobs' = << >>)

SpecAll == InitAll /\ [][NextAll]_allVars

(* The process is scheduled, every build script ends, and a killed build   *)
(* is run again: there is a next step until the program has exited or is   *)
(* finished.  (Without ENABLED, which is costly to evaluate here.)         *)
FairSpecAll ==
  /\ SpecAll
  /\ []<>(exited \/ phase = "finished") \/ []<><<NextAll>>_allVars

-----------------------------------------------------------------------------
(* The list has the jobs of the table's set, each once, by falling depth.  *)
ListIsTheSet == List!ListIsTheSet

(* The program goes on to build exactly if the graph has no cycle, and it  *)
(* exits only if there is one (compute_tree_depth).  If it goes on         *)
(* pkg_depth is the size of the subtree, so that a package comes before    *)
(* everything that depends on it, and for the scan it is what JobTable     *)
(* takes it to be.                                                         *)
CyclesRejected ==
  /\ Tree!CyclesRejected
  /\ Tree!DepthIsSubtreeSize
  /\ computed /\ deps = scan =>
       \A k \in 1 .. Len(jobs) : depth[k] = pkg_depth[jobs[k]]

(* Normal mode and the master, on the list, keep the promise (KeepsPromise *)
(* of PBuildJobs, for the behaviours that get to build).                   *)
ScanKeepsPromise ==
  /\ deps = scan => Promise!Init
  /\ [][deps = scan =>
          \E ph \in {phase'}, t \in {table'} :
            Promise!Step(StatusIn(phase, table), StatusIn(ph, t))
        ]_<<phase, table>>

(* On the list, too, a build that is run again until it is left in peace   *)
(* ends with a result or a reason to skip it for every package.            *)
ScanResolved ==
  deps = scan /\ mode = "normal" => EventuallyResolved
=============================================================================
