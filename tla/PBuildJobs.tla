----------------------------- MODULE PBuildJobs -----------------------------
(***************************************************************************)
(* pbulk-build in normal mode (pbuild.c, main and standalone_mode): read   *)
(* the scan and the logs, build one job after the other, write the report. *)
(* The process may be killed at any moment and is then run again on the    *)
(* same scan with the logs it left (scripts/bulkbuild-restart).            *)
(***************************************************************************)
EXTENDS JobTable

CONSTANT MaxRuns   \* how often the program is run, a bound for TLC

ASSUME MaxRunsAssumption == MaxRuns \in Nat \ {0}

VARIABLES
  phase,   \* "down": no process; "running"; "finished": the report is written
  runs,    \* the number of runs started
  table    \* the job table; while no process runs only its logs mean anything

vars == <<phase, runs, table>>

TypeOK ==
  /\ phase \in {"down", "running", "finished"}
  /\ runs \in 0 .. MaxRuns
  /\ table \in Table

Idle == \A p \in Pkg : table.state[p] # "IN_PROCESSING"

Init ==
  /\ phase = "down"
  /\ runs = 0
  /\ table = NoJobs({}, {})

(* main: init_jobs. *)
Start ==
  /\ phase = "down"
  /\ runs < MaxRuns
  /\ phase' = "running"
  /\ runs' = runs + 1
  /\ table' = init_jobs(table.log_success, table.log_failed)

(* standalone_mode: the loop's get_job. *)
GetJob ==
  /\ phase = "running"
  /\ Idle
  /\ \E j \in FirstBuildable(table) : table' = JobInProcessing(table, j)
  /\ UNCHANGED <<phase, runs>>

(* standalone_mode: build_package returned 0. *)
BuildDone ==
  /\ phase = "running"
  /\ \E j \in Pkg : /\ table.state[j] = "IN_PROCESSING"
                    /\ table' = JobDone(table, j)
  /\ UNCHANGED <<phase, runs>>

(* standalone_mode: build_package returned anything else. *)
BuildFailed ==
  /\ phase = "running"
  /\ \E j \in Pkg : /\ table.state[j] = "IN_PROCESSING"
                    /\ table' = JobFailed(table, j)
  /\ UNCHANGED <<phase, runs>>

(* get_job returned NULL: finish_build, and the process exits. *)
FinishBuild ==
  /\ phase = "running"
  /\ Idle
  /\ table.buildable_jobs = {}
  /\ phase' = "finished"
  /\ UNCHANGED <<runs, table>>

(* The process is killed, or exits because a log could not be written      *)
(* (err in process_job): a result that is not in a log yet is lost.  The   *)
(* last of the MaxRuns runs is not killed.                                 *)
Crash ==
  /\ phase = "running"
  /\ runs < MaxRuns
  /\ phase' = "down"
  /\ table' = NoJobs(table.log_success, table.log_failed)
  /\ UNCHANGED runs

(* bulkbuild-restart after a build that ended. *)
RunAgain ==
  /\ phase = "finished"
  /\ runs < MaxRuns
  /\ phase' = "down"
  /\ table' = NoJobs(table.log_success, table.log_failed)
  /\ UNCHANGED runs

Next ==
  \/ Start \/ GetJob \/ BuildDone \/ BuildFailed \/ FinishBuild
  \/ Crash \/ RunAgain

Spec == Init /\ [][Next]_vars

(* Every build script ends some day and the process is scheduled; a killed *)
(* build is run again.  Nothing forces it to be killed, or to be run again *)
(* once it is finished.                                                    *)
FairSpec ==
  /\ Spec
  /\ WF_vars(Start)
  /\ WF_vars(GetJob)
  /\ WF_vars(BuildDone \/ BuildFailed)
  /\ WF_vars(FinishBuild)

-----------------------------------------------------------------------------
(* Properties *)

Running == phase # "down"

(* open_depends of every job equals the number of its dependencies that    *)
(* are not built, in a first run and in one that replayed the logs.        *)
CountersExact == Running => OpenDependsExact(table)

(* The build list is exact: an open job that waits for nothing is in it,   *)
(* and nothing else is.                                                    *)
NoJobLost == Running => BuildListExact(table)

(* No package is built, or has a result, before all its dependencies are   *)
(* built.                                                                  *)
DependenciesFirst == Running => DepsBuiltFirst(table)

(* Indirect failures have a cause of their kind, and an open job has none. *)
FailuresPropagate == Running => BrokenExact(table)

(* A result is in a log as soon as the table has it, in the right one.     *)
ResultsLogged == Running => LogsExact(table)

(* A restart at any moment continues where this run stands.                *)
RestartContinues == Running => ReplayExact(table)

(* The standalone loop ends only when every package has its result:        *)
(* finish_build never writes "open" or "in_processing".                    *)
ReportComplete == phase = "finished" => AllFinal(table)

(* A result in a log is never removed or moved to the other log.           *)
LogsOnlyGrow ==
  [][/\ table.log_success \subseteq table'.log_success
     /\ table.log_failed \subseteq table'.log_failed
     /\ table'.log_success \cap table'.log_failed = {}]_vars

-----------------------------------------------------------------------------
(* The refinement of BuildPromise: what a restart would make of the logs   *)
(* is the status of the packages while no process runs.                    *)

StatusIn(ph, t) ==
  LET state == IF ph = "down" THEN mark_initial(t.log_success, t.log_failed)
                              ELSE t.state
  IN [p \in Pkg |-> StatusOf(state[p])]

Promise == INSTANCE BuildPromise WITH status <- StatusIn(phase, table)

(* Killed and restarted or not, normal mode keeps the promise.             *)
KeepsPromise == Promise!Spec

(* Killed at first or not, a build that is run again until it is left in   *)
(* peace ends, with a result or a reason to skip it for every package.     *)
EventuallyResolved == <>[](phase = "finished" /\ AllFinal(table))
=============================================================================
