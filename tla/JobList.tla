------------------------------ MODULE JobList ------------------------------
(***************************************************************************)
(* The build list of jobs.c as the list it is: buildable_jobs is a tail    *)
(* queue kept by falling pkg_depth, and get_job takes its head.  Any       *)
(* number of jobs may be in processing, as in master mode; the calls of    *)
(* get_job and process_job come in any order pbuild.c and master.c can     *)
(* make them in.  The table of JobTable runs beside the list: its set of   *)
(* buildable jobs has to be the set of the list's elements all along.      *)
(* BuildOrder puts the computation of the depths before it and the         *)
(* programs that make these calls around it.                               *)
(***************************************************************************)
EXTENDS JobTable, SequencesExt

CONSTANT jobs   \* the array of jobs: the packages in the order of the scan

VARIABLES table, buildable_jobs

(* A seeded bug: the comparison is the wrong way round.                    *)
Bug_add_shallow_first(list, j) ==
  LET first == SelectInSeq(list, LAMBDA e : pkg_depth[e] > pkg_depth[j])
  IN IF first = 0 THEN Append(list, j) ELSE InsertAt(list, first, j)

(* TAILQ_INSERT_BEFORE the first shallower job, or at the tail.            *)
add_to_build_list(list, j) ==
  LET first == SelectInSeq(list, LAMBDA e : pkg_depth[e] < pkg_depth[j])
  IN IF first = 0 THEN Append(list, j) ELSE InsertAt(list, first, j)

(* A loop over an array that adds those of its elements that are in ready. *)
add_in_order(list, ready, array) ==
  FoldLeft(LAMBDA l, p : IF p \in ready THEN add_to_build_list(l, p) ELSE l,
           list, array)

Init ==
  /\ table = NoJobs({}, {})
  /\ buildable_jobs = << >>

(* init_jobs: the loop over the array, after the logs are read.            *)
Start ==
  /\ table' = init_jobs(table.log_success, table.log_failed)
  /\ buildable_jobs' = add_in_order(<< >>, table'.buildable_jobs, jobs)

GetJob ==
  /\ buildable_jobs # << >>
  /\ buildable_jobs' = Tail(buildable_jobs)
  /\ table' = JobInProcessing(table, Head(buildable_jobs))

(* Seeded bugs: the state is not looked at; the test is off by one; the    *)
(* loop ends at the first.                                                 *)
Bug_ready_any(j) == {p \in depending_pkgs(j) : table.open_depends[p] = 1}
Bug_ready_early(j) ==
  {p \in depending_pkgs(j) : table.open_depends[p] <= 2 /\ table.state[p] = "OPEN"}
Bug_ready_one(j) ==
  LET last == SelectLastInSeq(jobs, LAMBDA p : /\ p \in depending_pkgs(j)
                                               /\ table.open_depends[p] = 1
                                               /\ table.state[p] = "OPEN")
  IN IF last = 0 THEN {} ELSE {jobs[last]}

(* The dependents the loop of process_job(JOB_DONE) finds ready.           *)
ready_dependents(j) ==
  {p \in depending_pkgs(j) : table.open_depends[p] = 1 /\ table.state[p] = "OPEN"}

(* The SLIST of dependents is in reverse: build_tree walks the array and   *)
(* inserts at the head.                                                    *)
Done(j) ==
  /\ table.state[j] = "IN_PROCESSING"
  /\ table' = JobDone(table, j)
  /\ buildable_jobs' = add_in_order(buildable_jobs, ready_dependents(j), Reverse(jobs))

(* process_job(JOB_FAILED) leaves the list alone.                          *)
Failed(j) ==
  /\ table.state[j] = "IN_PROCESSING"
  /\ table' = JobFailed(table, j)
  /\ UNCHANGED buildable_jobs

(* process_job(JOB_OPEN) of a job whose client was lost.                   *)
Reopen(j) ==
  /\ table.state[j] = "IN_PROCESSING"
  /\ table' = JobOpen(table, j)
  /\ buildable_jobs' = IF table.open_depends[j] = 0
                       THEN add_to_build_list(buildable_jobs, j)
                       ELSE buildable_jobs

-----------------------------------------------------------------------------
(* The list never holds a job twice (a second insertion would corrupt the  *)
(* queue), holds the very jobs the table calls buildable, and a job comes  *)
(* before every job with fewer packages waiting for it.                    *)
ListIsTheSet ==
  /\ IsInjective(buildable_jobs)
  /\ ToSet(buildable_jobs) = table.buildable_jobs
  /\ \A k, l \in DOMAIN buildable_jobs :
       k < l => pkg_depth[buildable_jobs[l]] <= pkg_depth[buildable_jobs[k]]
=============================================================================
