------------------------- MODULE BuildOrder_proofs -------------------------
(***************************************************************************)
(* Proofs about the job scheduler, for every finite acyclic scan.  The     *)
(* first part is about normal mode on the set of buildable jobs            *)
(* (PBuildJobs): the invariant IInv is inductive, however often the        *)
(* program is killed and run again, and the safety properties and the      *)
(* promise follow from it.  The second part puts the list of JobList in    *)
(* the place of the set, in normal mode and under a master with any number *)
(* of clients (BuildOrder): list and set stay the same, and so everything  *)
(* said of the first holds of the second.  The third part is about the     *)
(* recursion of compute_tree_depth on any graph (TreeDepth): that it ends, *)
(* what a call finds, and that the depths and the verdict on cycles are    *)
(* right.                                                                  *)
(***************************************************************************)
EXTENDS BuildOrder, JobTable_proofs, ListLemmas

-----------------------------------------------------------------------------
(* Normal mode: the invariant *)

(* A running process has a sound table; one that is down has logs from     *)
(* which init_jobs makes a sound table; the loop ended for want of jobs.   *)
IInv ==
  /\ TypeOK
  /\ Running => TableInv(table)
  /\ phase = "down" => LogsInv(table.log_success, table.log_failed)
  /\ phase = "finished" => Idle /\ table.buildable_jobs = {}

LEMMA NoJobsInTable ==
  ASSUME NEW ls \in SUBSET Pkg, NEW lf \in SUBSET Pkg
  PROVE  /\ NoJobs(ls, lf) \in Table
         /\ NoJobs(ls, lf).log_success = ls
         /\ NoJobs(ls, lf).log_failed = lf
BY DEF NoJobs, Table, JobState

LEMMA InitIInv ==
  Init => IInv
<1> SUFFICES ASSUME Init PROVE IInv
  OBVIOUS
<1>1. table \in Table /\ table.log_success = {} /\ table.log_failed = {}
  BY NoJobsInTable DEF Init
<1>2. phase = "down" /\ runs \in 0 .. MaxRuns
  BY MaxRunsAssumption DEF Init
<1> QED
  BY <1>1, <1>2, NoLogsInv DEF IInv, TypeOK, Running

(* A job get_job may return is in the build list.                          *)
LEMMA FirstBuildableIn ==
  ASSUME NEW t
  PROVE  FirstBuildable(t) \subseteq t.buildable_jobs
BY DEF FirstBuildable

(* Going down leaves nothing but logs that agree with the scan.            *)
LEMMA DownIInv ==
  ASSUME IInv, Running, phase' = "down", UNCHANGED runs,
         table' = NoJobs(table.log_success, table.log_failed)
  PROVE  IInv'
<1>1. LogsInv(table.log_success, table.log_failed)
  BY TableInvLogs DEF IInv
<1>2. /\ table' \in Table
      /\ table'.log_success = table.log_success
      /\ table'.log_failed = table.log_failed
  BY <1>1, NoJobsInTable DEF LogsInv
<1>3. TypeOK'
  BY <1>2 DEF IInv, TypeOK
<1>4. LogsInv(table'.log_success, table'.log_failed)
  BY <1>1, <1>2
<1> QED
  BY <1>3, <1>4 DEF IInv, Running

LEMMA NextIInv ==
  IInv /\ [Next]_vars => IInv'
<1> SUFFICES ASSUME IInv, [Next]_vars
             PROVE  IInv'
  OBVIOUS
<1>1. CASE Start
  <2>1. LogsInv(table.log_success, table.log_failed)
    BY <1>1 DEF IInv, Start
  <2>2. TableInv(table')
    BY <1>1, <2>1, InitJobsInv DEF Start
  <2>3. runs' \in 0 .. MaxRuns
    BY <1>1, MaxRunsAssumption DEF IInv, TypeOK, Start
  <2> QED
    BY <1>1, <2>2, <2>3 DEF IInv, TypeOK, TableInv, Start
<1>2. CASE GetJob
  <2>1. PICK j \in table.buildable_jobs : table' = JobInProcessing(table, j)
    BY <1>2, FirstBuildableIn DEF GetJob
  <2>2. TableInv(table)
    BY <1>2 DEF IInv, Running, GetJob
  <2>3. TableInv(table')
    BY <2>1, <2>2, JobInProcessingInv
  <2> QED
    BY <1>2, <2>3 DEF IInv, TypeOK, TableInv, GetJob
<1>3. CASE BuildDone
  <2>1. PICK j \in Pkg : /\ table.state[j] = "IN_PROCESSING"
                         /\ table' = JobDone(table, j)
    BY <1>3 DEF BuildDone
  <2>2. TableInv(table)
    BY <1>3 DEF IInv, Running, BuildDone
  <2>3. TableInv(table')
    BY <2>1, <2>2, JobDoneInv
  <2> QED
    BY <1>3, <2>3 DEF IInv, TypeOK, TableInv, BuildDone
<1>4. CASE BuildFailed
  <2>1. PICK j \in Pkg : /\ table.state[j] = "IN_PROCESSING"
                         /\ table' = JobFailed(table, j)
    BY <1>4 DEF BuildFailed
  <2>2. TableInv(table)
    BY <1>4 DEF IInv, Running, BuildFailed
  <2>3. TableInv(table')
    BY <2>1, <2>2, JobFailedInv
  <2> QED
    BY <1>4, <2>3 DEF IInv, TypeOK, TableInv, BuildFailed
<1>5. CASE FinishBuild
  BY <1>5 DEF IInv, TypeOK, Running, Idle, FinishBuild
<1>6. CASE Crash
  BY <1>6, DownIInv DEF Crash, Running
<1>7. CASE RunAgain
  BY <1>7, DownIInv DEF RunAgain, Running
<1>8. CASE UNCHANGED vars
  BY <1>8 DEF vars, IInv, TypeOK, Running, Idle
<1> QED
  BY <1>1, <1>2, <1>3, <1>4, <1>5, <1>6, <1>7, <1>8 DEF Next

(* IInv holds in every reachable state.                                    *)
THEOREM Invariance == Spec => []IInv
BY InitIInv, NextIInv, PTL DEF Spec

-----------------------------------------------------------------------------
(* The properties *)

(* The table has its type, and the number of runs stays in its bound.      *)
THEOREM TypeCorrect == Spec => []TypeOK
<1>1. IInv => TypeOK
  BY DEF IInv
<1> QED
  BY <1>1, Invariance, PTL

(* For every scan, open_depends counts the unbuilt dependencies, also when *)
(* init_jobs computed it from logs.                                        *)
THEOREM CountersAlwaysExact == Spec => []CountersExact
<1>1. IInv => CountersExact
  BY DEF IInv, TableInv, CountersExact
<1> QED
  BY <1>1, Invariance, PTL

(* For every scan, no job is lost from the build list or in it too early.  *)
THEOREM NoJobEverLost == Spec => []NoJobLost
<1>1. IInv => NoJobLost
  BY DEF IInv, TableInv, NoJobLost
<1> QED
  BY <1>1, Invariance, PTL

(* For every scan, builds start on top of finished dependencies.           *)
THEOREM DependenciesAlwaysFirst == Spec => []DependenciesFirst
<1>1. IInv => DependenciesFirst
  BY DEF IInv, TableInv, DependenciesFirst
<1> QED
  BY <1>1, Invariance, PTL

(* For every scan, a job is given up exactly when a dependency is broken.  *)
THEOREM FailuresAlwaysPropagate == Spec => []FailuresPropagate
<1>1. IInv => FailuresPropagate
  BY DEF IInv, TableInv, FailuresPropagate
<1> QED
  BY <1>1, Invariance, PTL

(* For every scan, the logs name exactly the jobs with a result.           *)
THEOREM ResultsAlwaysLogged == Spec => []ResultsLogged
<1>1. IInv => ResultsLogged
  BY DEF IInv, TableInv, ResultsLogged
<1> QED
  BY <1>1, Invariance, PTL

(* For every scan, a restart at any moment computes the table the killed   *)
(* process had, builds in progress aside.                                  *)
THEOREM RestartAlwaysContinues == Spec => []RestartContinues
<1>1. IInv => RestartContinues
  BY ReplayLemma DEF IInv, RestartContinues
<1> QED
  BY <1>1, Invariance, PTL

(* For every scan, the standalone loop ends only when every package has a  *)
(* result.                                                                 *)
THEOREM ReportAlwaysComplete == Spec => []ReportComplete
<1>1. IInv => ReportComplete
  BY AllFinalLemma DEF IInv, Running, Idle, ReportComplete
<1> QED
  BY <1>1, Invariance, PTL

(* Every operation keeps the entries of both logs.                         *)
LEMMA LogsGrowStep ==
  IInv /\ [Next]_vars =>
    /\ table.log_success \subseteq table'.log_success
    /\ table.log_failed \subseteq table'.log_failed
<1> SUFFICES ASSUME IInv, [Next]_vars
             PROVE  /\ table.log_success \subseteq table'.log_success
                    /\ table.log_failed \subseteq table'.log_failed
  OBVIOUS
<1>0. table \in Table
  BY DEF IInv, TypeOK
<1>1. CASE Start
  BY <1>1 DEF Start, init_jobs
<1>2. CASE GetJob
  BY <1>0, <1>2 DEF GetJob, JobInProcessing, Table
<1>3. CASE BuildDone
  BY <1>0, <1>3 DEF BuildDone, JobDone, Table
<1>4. CASE BuildFailed
  BY <1>0, <1>4 DEF BuildFailed, JobFailed, Table
<1>5. CASE FinishBuild
  BY <1>5 DEF FinishBuild
<1>6. CASE Crash
  BY <1>6 DEF Crash, NoJobs
<1>7. CASE RunAgain
  BY <1>7 DEF RunAgain, NoJobs
<1>8. CASE UNCHANGED vars
  BY <1>8 DEF vars
<1> QED
  BY <1>1, <1>2, <1>3, <1>4, <1>5, <1>6, <1>7, <1>8 DEF Next

(* For every scan, a result is for good: no step removes an entry from a   *)
(* log or enters a package in both.                                        *)
THEOREM LogsAlwaysGrow == Spec => LogsOnlyGrow
<1>1. IInv /\ [Next]_vars =>
        [/\ table.log_success \subseteq table'.log_success
         /\ table.log_failed \subseteq table'.log_failed
         /\ table'.log_success \cap table'.log_failed = {}]_vars
  <2> SUFFICES ASSUME IInv, [Next]_vars
               PROVE  /\ table.log_success \subseteq table'.log_success
                      /\ table.log_failed \subseteq table'.log_failed
                      /\ table'.log_success \cap table'.log_failed = {}
    OBVIOUS
  <2>1. IInv'
    BY NextIInv
  <2>2. LogsInv(table'.log_success, table'.log_failed)
    BY <2>1, TableInvLogs DEF IInv, Running
  <2> QED
    BY <2>2, LogsGrowStep DEF LogsInv
<1> QED
  BY <1>1, Invariance, PTL DEF Spec, LogsOnlyGrow

-----------------------------------------------------------------------------
(* The refinement of BuildPromise *)

(* The status the refinement mapping assigns to the packages.              *)
PackageStatus == StatusIn(phase, table)

LEMMA MarkedStatus ==
  ASSUME NEW ls, NEW lf
  PROVE  [p \in Pkg |-> StatusOf(mark_initial(ls, lf)[p])] =
         StatusMap(init_jobs(ls, lf))
<1>1. ASSUME NEW p \in Pkg
      PROVE  StatusOf(mark_initial(ls, lf)[p]) =
             StatusOf(init_jobs(ls, lf).state[p])
  <2> DEFINE m == mark_initial(ls, lf)[p]
  <2>1. init_jobs(ls, lf).state[p] = IF m = "INIT" THEN "OPEN" ELSE m
    BY DEF init_jobs
  <2> QED
    BY <2>1 DEF StatusOf
<1> QED
  BY <1>1 DEF StatusMap

(* While a process runs it is that of its table; in between it is that of  *)
(* the table the next run will compute.                                    *)
LEMMA PackageStatusIs ==
  /\ Running => PackageStatus = StatusMap(table)
  /\ phase = "down" =>
       PackageStatus = StatusMap(init_jobs(table.log_success, table.log_failed))
BY MarkedStatus DEF Running, PackageStatus, StatusIn, StatusMap

LEMMA PackageStatusIsPrimed ==
  /\ Running' => PackageStatus' = StatusMap(table')
  /\ phase' = "down" =>
       PackageStatus' = StatusMap(init_jobs(table'.log_success, table'.log_failed))
BY MarkedStatus DEF Running, PackageStatus, StatusIn, StatusMap

(* The status obeys the rule for skipping in every state.                  *)
LEMMA SkipRuleAlways ==
  ASSUME IInv
  PROVE  Promise!SkipRule(PackageStatus) /\ PackageStatus \in [Pkg -> Promise!Status]
<1>1. CASE Running
  BY <1>1, PackageStatusIs, SkipRuleHolds
     DEF IInv, Promise!SkipRule, Promise!Status
<1>2. CASE phase = "down"
  <2>1. TableInv(init_jobs(table.log_success, table.log_failed))
    BY <1>2, InitJobsInv DEF IInv
  <2> QED
    BY <1>2, <2>1, PackageStatusIs, SkipRuleHolds
       DEF Promise!SkipRule, Promise!Status
<1> QED
  BY <1>1, <1>2 DEF Running

LEMMA PromiseInit ==
  Init => Promise!Init
<1> SUFFICES ASSUME Init
             PROVE  Promise!Init
  OBVIOUS
<1>1. IInv /\ phase = "down" /\ table.log_success = {} /\ table.log_failed = {}
  BY InitIInv, NoJobsInTable DEF Init
<1>2. Promise!SkipRule(PackageStatus) /\ PackageStatus \in [Pkg -> Promise!Status]
  BY <1>1, SkipRuleAlways
<1>3. ASSUME NEW p \in Pkg
      PROVE  PackageStatus[p] \in {"todo", "skipped"}
  BY <1>1, PackageStatusIs, FirstStatus
<1>4. PackageStatus \in [Pkg -> {"todo", "skipped"}]
  BY <1>3 DEF PackageStatus, StatusIn
<1> QED
  BY <1>2, <1>4 DEF Promise!Init, PackageStatus

(* So it is a step of the promise if every package changes in such a way.  *)
LEMMA StepAllowed ==
  ASSUME NEW t, NEW u, TableInv(t), TableInv(u),
         PackageStatus = StatusMap(t), PackageStatus' = StatusMap(u),
         \A p \in Pkg : MayChange(t.state[p], u.state[p])
  PROVE  Promise!Next
<1>1. /\ Promise!SkipRule(PackageStatus')
      /\ PackageStatus' \in [Pkg -> Promise!Status]
  BY SkipRuleHolds DEF Promise!SkipRule, Promise!Status
<1>2. \A p \in Pkg :
        Promise!MayBecome(p, PackageStatus', PackageStatus[p], PackageStatus'[p])
  BY ChangeAllowed DEF Promise!MayBecome
<1> QED
  BY <1>1, <1>2 DEF Promise!Next, Promise!Step, PackageStatus

(* A killed or finished run leaves the packages the status they had,       *)
(* builds in progress aside, which are to do again.                        *)
LEMMA DownAllowed ==
  ASSUME IInv, Running, phase' = "down",
         table' = NoJobs(table.log_success, table.log_failed)
  PROVE  Promise!Next
<1> DEFINE u == init_jobs(table.log_success, table.log_failed)
<1>1. TableInv(table) /\ TableInv(u)
  BY TableInvLogs, InitJobsInv DEF IInv
<1>2. PackageStatus = StatusMap(table) /\ PackageStatus' = StatusMap(u)
  <2>1. /\ table'.log_success = table.log_success
        /\ table'.log_failed = table.log_failed
    BY DEF NoJobs
  <2> QED
    BY <2>1, PackageStatusIs, PackageStatusIsPrimed
<1>3. \A p \in Pkg :
        u.state[p] = IF table.state[p] = "IN_PROCESSING" THEN "OPEN"
                                                        ELSE table.state[p]
  BY <1>1, ReplayLemma DEF ReplayExact
<1> HIDE DEF u
<1> QED
  BY <1>1, <1>2, <1>3, StepAllowed DEF MayChange

LEMMA PromiseNext ==
  IInv /\ [Next]_vars => [Promise!Next]_PackageStatus
<1> SUFFICES ASSUME IInv, [Next]_vars
             PROVE  Promise!Next \/ UNCHANGED PackageStatus
  OBVIOUS
<1>0. table \in Table
  BY DEF IInv, TypeOK
<1>1. CASE Start
  <2>1. PackageStatus' = StatusMap(table')
    BY <1>1, PackageStatusIsPrimed DEF Start, Running
  <2>2. PackageStatus = StatusMap(table')
    BY <1>1, PackageStatusIs DEF Start
  <2> QED
    BY <2>1, <2>2
<1>a. ASSUME Running, Running', IInv',
             \A p \in Pkg : MayChange(table.state[p], table'.state[p])
      PROVE  Promise!Next
  <2>1. TableInv(table) /\ TableInv(table')
    BY <1>a DEF IInv
  <2>2. PackageStatus = StatusMap(table) /\ PackageStatus' = StatusMap(table')
    BY <1>a, PackageStatusIs, PackageStatusIsPrimed
  <2> QED
    BY <1>a, <2>1, <2>2, StepAllowed
<1>b. IInv'
  BY NextIInv
<1>2. CASE GetJob
  <2>1. PICK j \in table.buildable_jobs : table' = JobInProcessing(table, j)
    BY <1>2, FirstBuildableIn DEF GetJob
  <2>2. j \in Pkg /\ table.state[j] = "OPEN"
    BY <1>2, <2>1 DEF GetJob, IInv, Running, TableInv, BuildListExact
  <2>3. \A p \in Pkg :
          table'.state[p] = IF p = j THEN "IN_PROCESSING" ELSE table.state[p]
    BY <1>0, <2>1, <2>2 DEF JobInProcessing, Table
  <2> QED
    BY <1>2, <1>a, <1>b, <2>2, <2>3 DEF GetJob, Running, MayChange
<1>3. CASE BuildDone
  <2>1. PICK j \in Pkg : /\ table.state[j] = "IN_PROCESSING"
                         /\ table' = JobDone(table, j)
    BY <1>3 DEF BuildDone
  <2>2. \A p \in Pkg : table'.state[p] = IF p = j THEN "DONE" ELSE table.state[p]
    BY <1>0, <2>1 DEF JobDone, Table
  <2> QED
    BY <1>3, <1>a, <1>b, <2>1, <2>2 DEF BuildDone, Running, MayChange
<1>4. CASE BuildFailed
  <2>1. PICK j \in Pkg : /\ table.state[j] = "IN_PROCESSING"
                         /\ table' = JobFailed(table, j)
    BY <1>4 DEF BuildFailed
  <2>2. TableInv(table)
    BY <1>4 DEF IInv, Running, BuildFailed
  <2>3. \A p \in Pkg :
          \/ p = j /\ table'.state[p] = "FAILED"
          \/ table'.state[p] = table.state[p]
          \/ table.state[p] = "OPEN" /\ table'.state[p] = "INDIRECT_FAILED"
    BY <2>1, <2>2, JobFailedStates
  <2> QED
    BY <1>4, <1>a, <1>b, <2>1, <2>3 DEF BuildFailed, Running, MayChange
<1>5. CASE FinishBuild
  BY <1>5 DEF FinishBuild, PackageStatus, StatusIn
<1>6. CASE Crash
  BY <1>6, DownAllowed DEF Crash, Running
<1>7. CASE RunAgain
  BY <1>7, DownAllowed DEF RunAgain, Running
<1>8. CASE UNCHANGED vars
  BY <1>8 DEF vars, PackageStatus, StatusIn
<1> QED
  BY <1>1, <1>2, <1>3, <1>4, <1>5, <1>6, <1>7, <1>8 DEF Next

(* For every scan, and killed and restarted or not, normal mode implements *)
(* what BuildPromise says of the packages.                                 *)
THEOREM PromiseAlwaysKept == Spec => KeepsPromise
<1>1. Init => Promise!Init
  BY PromiseInit
<1>2. IInv /\ [Next]_vars => [Promise!Next]_PackageStatus
  BY PromiseNext
<1> QED
  BY <1>1, <1>2, Invariance, PTL
  DEF Spec, KeepsPromise, Promise!Spec, PackageStatus

-----------------------------------------------------------------------------
(* The list *)

(* JobList instantiated has its own copies of the operators it extends.    *)
LEMMA SameOperators ==
  /\ \A S : /\ List!Min(S) = Min(S) /\ List!Max(S) = Max(S)
            /\ List!Cardinality(S) = Cardinality(S)
  /\ \A s : /\ List!ToSet(s) = ToSet(s) /\ List!Reverse(s) = Reverse(s)
            /\ List!IsInjective(s) = IsInjective(s)
  /\ \A s, k, e : List!InsertAt(s, k, e) = InsertAt(s, k, e)
  /\ \A roots, T : List!Reached(roots, T) = Reached(roots, T)
<1>1. \A S : /\ List!Min(S) = Min(S) /\ List!Max(S) = Max(S)
  BY DEF List!Min, Min, List!Max, Max
<1>2. \A S : List!Cardinality(S) = Cardinality(S)
  BY Zenon DEF List!Cardinality, Cardinality, List!IsFiniteSet, IsFiniteSet
<1>3. \A s : /\ List!ToSet(s) = ToSet(s) /\ List!Reverse(s) = Reverse(s)
             /\ List!IsInjective(s) = IsInjective(s)
  BY DEF List!ToSet, ToSet, List!Reverse, Reverse, List!IsInjective, IsInjective
<1>4. \A s, k, e : List!InsertAt(s, k, e) = InsertAt(s, k, e)
  BY DEF List!InsertAt, InsertAt
<1>5. \A roots, T : List!Reached(roots, T) = Reached(roots, T)
  BY DEF List!Reached, Reached, List!Closed, Closed
<1> QED
  BY <1>1, <1>2, <1>3, <1>4, <1>5

LEMMA SameDepth == List!pkg_depth = pkg_depth
BY SameOperators DEF List!pkg_depth, pkg_depth

(* The size of a subtree is a number.                                      *)
LEMMA DepthIsNat ==
  ASSUME NEW p \in Pkg
  PROVE  pkg_depth[p] \in Nat
<1>1. {p} \cup Reached({p}, Pkg) \subseteq Pkg
  BY ReachedIn
<1>2. Cardinality({p} \cup Reached({p}, Pkg)) \in Nat
  BY <1>1, PkgAssumption, FS_Subset, FS_CardinalityType
<1> QED
  BY <1>2 DEF pkg_depth

(* A list of jobs as jobs.c keeps it: each once, by falling depth.         *)
IsQueue(list) ==
  /\ list \in Seq(Pkg)
  /\ IsInjective(list)
  /\ \A k, l \in DOMAIN list :
       k < l => pkg_depth[list[l]] <= pkg_depth[list[k]]

(* add_to_build_list puts a job that is not in such a list at its place.   *)
LEMMA AddToList ==
  ASSUME NEW list, IsQueue(list), NEW j \in Pkg, j \notin ToSet(list)
  PROVE  /\ IsQueue(List!add_to_build_list(list, j))
         /\ ToSet(List!add_to_build_list(list, j)) = ToSet(list) \cup {j}
<1> DEFINE n == Len(list)
           shallower == {k \in 1 .. n : pkg_depth[list[k]] < pkg_depth[j]}
           at == IF shallower = {} THEN n + 1 ELSE Min(shallower)
           r == List!add_to_build_list(list, j)
<1>0. /\ list \in Seq(Pkg) /\ n \in Nat /\ DOMAIN list = 1 .. n
      /\ \A k \in 1 .. n : list[k] \in Pkg /\ list[k] # j
      /\ \A k \in 1 .. n : pkg_depth[list[k]] \in Nat
      /\ pkg_depth[j] \in Nat
  BY DepthIsNat DEF IsQueue, ToSet
<1>1. shallower \in SUBSET Nat
  BY <1>0
<1>2. /\ at \in 1 .. n + 1
      /\ shallower # {} => at \in shallower
      /\ \A k \in shallower : at <= k
  <2>1. shallower # {} => Min(shallower) \in shallower /\ \A k \in shallower : Min(shallower) <= k
    BY <1>1, LeastExists
  <2>2. \A k \in shallower : k \in 1 .. n /\ k \in 1 .. n + 1
    BY <1>0
  <2>3. n + 1 \in 1 .. n + 1
    BY <1>0
  <2> HIDE DEF shallower, n
  <2> QED
    BY <2>1, <2>2, <2>3
<1>3. r = IF shallower = {} THEN Append(list, j) ELSE InsertAt(list, at, j)
  <2>1. shallower # {} => at # 0
    BY <1>2, <1>0
  <2> QED
    BY <2>1, SameDepth, SameOperators DEF List!add_to_build_list, List!SelectInSeq
<1> HIDE DEF r
<1>4. /\ r \in Seq(Pkg) /\ Len(r) = n + 1
      /\ \A k \in 1 .. at - 1 : r[k] = list[k]
      /\ r[at] = j
      /\ \A k \in at + 1 .. n + 1 : r[k] = list[k - 1]
  <2>1. CASE shallower = {}
    <3>1. r = Append(list, j) /\ at = n + 1
      BY <1>3, <2>1
    <3>2. \A k \in at + 1 .. n + 1 : FALSE
      BY <3>1, <1>0
    <3> HIDE DEF at
    <3> QED
      BY <3>1, <3>2, <1>0, AppendProperties
  <2>2. CASE shallower # {}
    <3>1. r = InsertAt(list, at, j) /\ at \in 1 .. n
      BY <1>2, <1>3, <2>2
    <3>2. /\ InsertAt(list, at, j) \in Seq(Pkg)
          /\ Len(InsertAt(list, at, j)) = n + 1
          /\ \A k \in 1 .. at - 1 : InsertAt(list, at, j)[k] = list[k]
          /\ InsertAt(list, at, j)[at] = j
          /\ \A k \in at + 1 .. n + 1 : InsertAt(list, at, j)[k] = list[k - 1]
      <4>1. at \in 1 .. Len(list) /\ list \in Seq(Pkg)
        BY <3>1, <1>0
      <4> HIDE DEF at
      <4> QED
        BY <4>1, InsertProperties
    <3> HIDE DEF at, shallower, n
    <3> QED
      BY <3>1, <3>2, Zenon
  <2> QED
    BY <2>1, <2>2
<1>5. \A k \in 1 .. at - 1 : k \in 1 .. n /\ pkg_depth[j] <= pkg_depth[list[k]]
  <2>1. \A k \in 1 .. at - 1 : k \in 1 .. n /\ ~(at <= k)
    <3> HIDE DEF at
    <3> QED
      BY <1>0, <1>2
  <2>2. \A k \in 1 .. at - 1 : k \in 1 .. n /\ k \notin shallower
    <3> HIDE DEF at, shallower, n
    <3> QED
      BY <1>2, <2>1
  <2> HIDE DEF at
  <2> QED
    BY <1>0, <2>2
<1>6. \A k \in at .. n : k \in 1 .. n /\ pkg_depth[list[k]] <= pkg_depth[j]
  <2> SUFFICES ASSUME NEW k \in at .. n
               PROVE  k \in 1 .. n /\ pkg_depth[list[k]] <= pkg_depth[j]
    OBVIOUS
  <2>1. shallower # {}
    <3>1. n < n + 1
      BY <1>0
    <3>2. at <= n
      <4> HIDE DEF at
      <4> QED
        BY <1>0, <1>2
    <3> QED
      BY <3>1, <3>2, <1>0
  <2>2. at \in 1 .. n /\ pkg_depth[list[at]] < pkg_depth[j]
    <3>1. at \in shallower
      BY <1>2, <2>1
    <3> HIDE DEF at
    <3> QED
      BY <3>1
  <2> HIDE DEF at, shallower
  <2>3. k \in 1 .. n /\ (at = k \/ at < k)
    BY <1>0, <2>2
  <2>4. pkg_depth[list[k]] <= pkg_depth[list[at]]
    BY <1>0, <2>2, <2>3 DEF IsQueue
  <2> QED
    BY <1>0, <2>2, <2>3, <2>4
<1> HIDE DEF at, shallower
<1>7. DOMAIN r = 1 .. n + 1
  BY <1>0, <1>4
<1> HIDE DEF n
<1> DEFINE old(k) == IF k < at THEN k ELSE k - 1
<1>8. \A k \in 1 .. n + 1 :
        k # at => /\ old(k) \in 1 .. n
                  /\ r[k] = list[old(k)]
                  /\ k < at => k \in 1 .. at - 1
                  /\ at < k => old(k) \in at .. n
  BY <1>0, <1>2, <1>4
<1>9. \A k, l \in 1 .. n + 1 : k # at /\ l # at /\ k < l => old(k) < old(l)
  BY <1>0, <1>2
<1> HIDE DEF old
<1>10. IsInjective(r)
  <2> SUFFICES ASSUME NEW k \in 1 .. n + 1, NEW l \in 1 .. n + 1, r[k] = r[l], k # l
               PROVE  FALSE
    BY <1>7 DEF IsInjective
  <2>1. k # at /\ l # at
    BY <1>0, <1>4, <1>8
  <2>2. list[old(k)] = list[old(l)] /\ old(k) # old(l)
    <3>1. k < l \/ l < k
      BY <1>0
    <3>2. old(k) < old(l) \/ old(l) < old(k)
      BY <3>1, <2>1, <1>9
    <3>3. old(k) \in Int /\ old(l) \in Int
      BY <2>1, <1>8
    <3> QED
      BY <2>1, <1>8, <3>2, <3>3
  <2> QED
    BY <2>1, <2>2, <1>8, <1>0 DEF IsQueue, IsInjective
<1>11. ASSUME NEW k \in 1 .. n + 1, NEW l \in 1 .. n + 1, k < l
       PROVE  pkg_depth[r[l]] <= pkg_depth[r[k]]
  <2>1. CASE k # at /\ l # at
    <3>1. old(k) \in 1 .. n /\ old(l) \in 1 .. n /\ old(k) < old(l)
      BY <2>1, <1>8, <1>9, <1>11
    <3> QED
      BY <3>1, <2>1, <1>8, <1>0 DEF IsQueue
  <2>2. CASE k = at
    <3>1. l # at /\ at < l
      BY <2>2, <1>11, <1>2
    <3>2. old(l) \in at .. n /\ r[l] = list[old(l)]
      BY <3>1, <1>8
    <3> QED
      BY <2>2, <3>2, <1>4, <1>6
  <2>3. CASE l = at
    <3>1. k # at /\ k < at
      BY <2>3, <1>11, <1>2
    <3>2. k \in 1 .. at - 1
      BY <3>1, <1>8
    <3> QED
      BY <2>3, <3>2, <1>4, <1>5
  <2> QED
    BY <2>1, <2>2, <2>3
<1>12. IsQueue(r)
  BY <1>4, <1>7, <1>10, <1>11 DEF IsQueue
<1>13. ToSet(r) = ToSet(list) \cup {j}
  <2>1. ToSet(r) = {r[k] : k \in 1 .. n + 1} /\ ToSet(list) = {list[k] : k \in 1 .. n}
    BY <1>0, <1>7 DEF ToSet
  <2>2. ToSet(r) \subseteq ToSet(list) \cup {j}
    <3> QED
      BY <2>1, <1>4, <1>8
  <2>3. j \in ToSet(r)
    BY <2>1, <1>4, <1>2
  <2>4. \A k \in 1 .. n :
          \/ k \in 1 .. at - 1 /\ k \in 1 .. n + 1
          \/ k + 1 \in at + 1 .. n + 1 /\ (k + 1) - 1 = k /\ k + 1 \in 1 .. n + 1
    BY <1>0, <1>2
  <2>5. ASSUME NEW k \in 1 .. n PROVE list[k] \in ToSet(r)
    <3>1. CASE k \in 1 .. at - 1 /\ k \in 1 .. n + 1
      <4>1. r[k] = list[k]
        BY <3>1, <1>4
      <4> QED
        BY <3>1, <4>1, <2>1
    <3>2. CASE k + 1 \in at + 1 .. n + 1 /\ (k + 1) - 1 = k /\ k + 1 \in 1 .. n + 1
      <4>1. r[k + 1] = list[k]
        BY <3>2, <1>4
      <4> QED
        BY <3>2, <4>1, <2>1
    <3> QED
      BY <2>4, <3>1, <3>2
  <2> QED
    BY <2>1, <2>2, <2>3, <2>5
<1> QED
  BY <1>12, <1>13 DEF r

(* It keeps the type of any list.                                          *)
LEMMA AddType ==
  ASSUME NEW list \in Seq(Pkg), NEW j \in Pkg
  PROVE  List!add_to_build_list(list, j) \in Seq(Pkg)
<1> DEFINE shallower == {k \in 1 .. Len(list) : pkg_depth[list[k]] < pkg_depth[j]}
<1>1. shallower \in SUBSET Nat
  OBVIOUS
<1>2. shallower # {} => Min(shallower) \in 1 .. Len(list) /\ Min(shallower) # 0
  <2>1. shallower # {} => Min(shallower) \in shallower
    <3> HIDE DEF shallower
    <3> QED
      BY <1>1, LeastExists
  <2>2. \A k \in shallower : k \in 1 .. Len(list) /\ k # 0
    OBVIOUS
  <2> HIDE DEF shallower
  <2> QED
    BY <2>1, <2>2
<1>3. List!add_to_build_list(list, j) =
        IF shallower = {} THEN Append(list, j) ELSE InsertAt(list, Min(shallower), j)
  BY <1>2, SameDepth, SameOperators DEF List!add_to_build_list, List!SelectInSeq
<1> HIDE DEF shallower
<1>4. shallower # {} => InsertAt(list, Min(shallower), j) \in Seq(Pkg)
  BY <1>2, InsertProperties
<1> QED
  BY <1>3, <1>4

(* The fold of add_in_order.                                               *)
AddIfReady(list, ready, p) ==
  IF p \in ready THEN List!add_to_build_list(list, p) ELSE list

IsAdded(g, list, ready, array) ==
  g = [S \in SUBSET (1 .. Len(array)) |->
         IF S = {} THEN list
         ELSE AddIfReady(g[S \ {List!Max(S)}], ready, array[List!Max(S)])]

(* The loops over an array add the jobs of ready, each once.               *)
LEMMA AddInOrder ==
  ASSUME NEW list, IsQueue(list), NEW array \in Seq(Pkg), IsInjective(array),
         NEW ready \in SUBSET ToSet(array), ready \cap ToSet(list) = {}
  PROVE  /\ IsQueue(List!add_in_order(list, ready, array))
         /\ ToSet(List!add_in_order(list, ready, array)) = ToSet(list) \cup ready
<1> DEFINE N == Len(array)
           F == [k \in 1 .. N |-> [l \in Seq(Pkg) |-> AddIfReady(l, ready, array[k])]]
           g == CHOOSE h : IsAdded(h, list, ready, array)
           seen(k) == {array[m] : m \in 1 .. k}
           A == [k \in 0 .. N |-> {l \in Seq(Pkg) :
                   IsQueue(l) /\ ToSet(l) = ToSet(list) \cup (ready \cap seen(k))}]
<1>1. /\ N \in Nat /\ DOMAIN array = 1 .. N
      /\ \A k \in 1 .. N : array[k] \in Pkg
      /\ list \in Seq(Pkg)
  BY DEF IsQueue
<1>2. \A l \in Seq(Pkg), p \in Pkg : AddIfReady(l, ready, p) \in Seq(Pkg)
  BY AddType DEF AddIfReady
<1>3. F \in [1 .. N -> [Seq(Pkg) -> Seq(Pkg)]]
  BY <1>1, <1>2
<1>4. PICK f \in [SUBSET (1 .. N) -> Seq(Pkg)] : IsFold(f, list, F, N)
  <2> HIDE DEF N, F
  <2> QED
    BY <1>1, <1>3, FoldExists
<1>5. \A S \in SUBSET (1 .. N) : S # {} => Max(S) \in 1 .. N
  <2> HIDE DEF N
  <2> QED
    BY <1>1, MaxInside
<1>6. IsAdded(f, list, ready, array)
  <2>1. \A S \in SUBSET (1 .. N) : S # {} =>
          F[Max(S)][f[S \ {Max(S)}]] =
            AddIfReady(f[S \ {Max(S)}], ready, array[Max(S)])
    BY <1>4, <1>5
  <2>2. f = [S \in SUBSET (1 .. N) |->
               IF S = {} THEN list ELSE F[Max(S)][f[S \ {Max(S)}]]]
    BY <1>4 DEF IsFold
  <2> HIDE DEF F
  <2>3. f = [S \in SUBSET (1 .. N) |->
               IF S = {} THEN list
               ELSE AddIfReady(f[S \ {Max(S)}], ready, array[Max(S)])]
    BY <2>1, <2>2
  <2>4. f = [S \in SUBSET (1 .. N) |->
               IF S = {} THEN list
               ELSE AddIfReady(f[S \ {List!Max(S)}], ready, array[List!Max(S)])]
    BY <2>3, SameOperators
  <2> QED
    BY <2>4 DEF IsAdded
<1>7. IsAdded(g, list, ready, array)
  BY <1>6
<1>8. List!add_in_order(list, ready, array) = g[1 .. N]
  BY <1>1, Zenon
     DEF List!add_in_order, List!FoldLeft, List!MapThenFoldSet, IsAdded, AddIfReady
<1> HIDE DEF g, F
<1>9. \A S \in SUBSET (1 .. N) :
        g[S] = IF S = {} THEN list
               ELSE AddIfReady(g[S \ {Max(S)}], ready, array[Max(S)])
  BY <1>7, SameOperators DEF IsAdded
<1>10. g[{}] \in A[0]
  <2>1. {} \in SUBSET (1 .. N) /\ 0 \in 0 .. N /\ seen(0) = {}
    BY <1>1
  <2> HIDE DEF N, seen
  <2>2. g[{}] = list
    BY <1>9, <2>1
  <2> QED
    BY <1>1, <2>1, <2>2
<1>11. ASSUME NEW k \in 1 .. N, g[1 .. k - 1] \in A[k - 1]
       PROVE  g[1 .. k] \in A[k]
  <2> DEFINE l == g[1 .. k - 1]
             p == array[k]
  <2>1. k \in 0 .. N /\ k - 1 \in 0 .. N /\ p \in Pkg
    BY <1>1
  <2>2. g[1 .. k] = AddIfReady(l, ready, p)
    <3>1. /\ (1 .. k) \in SUBSET (1 .. N) /\ (1 .. k) # {}
          /\ Max(1 .. k) = k /\ (1 .. k) \ {k} = 1 .. k - 1
      <4> HIDE DEF N
      <4> QED
        BY <1>1, OneMore
    <3> HIDE DEF N
    <3>2. g[1 .. k] = AddIfReady(g[(1 .. k) \ {Max(1 .. k)}], ready, array[Max(1 .. k)])
      BY <1>9, <3>1, Zenon
    <3> QED
      BY <3>1, <3>2, Zenon
  <2>3. IsQueue(l) /\ l \in Seq(Pkg) /\ ToSet(l) = ToSet(list) \cup (ready \cap seen(k - 1))
    <3> HIDE DEF l, seen
    <3>1. l \in A[k - 1]
      BY <1>11 DEF l
    <3> QED
      BY <2>1, <3>1
  <2>4. seen(k) = seen(k - 1) \cup {p}
    <3>1. \A m \in 1 .. k : m \in 1 .. k - 1 \/ m = k
      BY <1>1
    <3>2. k \in 1 .. k /\ \A m \in 1 .. k - 1 : m \in 1 .. k
      BY <1>1
    <3> QED
      BY <3>1, <3>2
  <2>5. p \notin seen(k - 1)
    <3>1. \A m \in 1 .. k - 1 : m \in 1 .. N /\ m # k
      BY <1>1
    <3> QED
      BY <1>1, <3>1 DEF IsInjective
  <2> HIDE DEF l, p, seen, N
  <2>6. /\ IsQueue(AddIfReady(l, ready, p))
        /\ AddIfReady(l, ready, p) \in Seq(Pkg)
        /\ ToSet(AddIfReady(l, ready, p)) = ToSet(list) \cup (ready \cap seen(k))
    <3>1. CASE p \in ready
      <4>1. p \notin ToSet(l)
        BY <2>3, <2>5, <3>1
      <4>2. /\ IsQueue(List!add_to_build_list(l, p))
            /\ ToSet(List!add_to_build_list(l, p)) = ToSet(l) \cup {p}
        BY <4>1, <2>1, <2>3, AddToList
      <4> QED
        BY <4>2, <3>1, <2>3, <2>4 DEF AddIfReady, IsQueue
    <3>2. CASE p \notin ready
      BY <3>2, <2>3, <2>4 DEF AddIfReady
    <3> QED
      BY <3>1, <3>2
  <2> QED
    BY <2>1, <2>2, <2>6
<1>12. g[1 .. N] \in A[N]
  <2> HIDE DEF N, A
  <2> QED
    BY <1>1, <1>10, <1>11, FoldSteps
<1>13. seen(N) = ToSet(array)
  BY <1>1 DEF ToSet
<1>14. N \in 0 .. N
  BY <1>1
<1> HIDE DEF N, seen
<1> QED
  BY <1>8, <1>12, <1>13, <1>14

-----------------------------------------------------------------------------
(* The operations on the list and on the table *)

(* JobList's operations are those of JobTable.                             *)
LEMMA SameTables ==
  ASSUME NEW t, NEW j
  PROVE  /\ List!JobDone(t, j) = JobDone(t, j)
         /\ List!JobFailed(t, j) = JobFailed(t, j)
         /\ List!JobOpen(t, j) = JobOpen(t, j)
         /\ List!JobInProcessing(t, j) = JobInProcessing(t, j)
         /\ List!NoJobs(t, j) = NoJobs(t, j)
<1>1. \A p : List!depending_pkgs(p) = depending_pkgs(p)
  BY DEF List!depending_pkgs, depending_pkgs
<1>2. List!decremented(t, j) = decremented(t, j)
  BY <1>1 DEF List!decremented, decremented
<1>3. List!released(t, j) = released(t, j)
  BY <1>1, <1>2 DEF List!released, released
<1>4. List!JobDone(t, j) = JobDone(t, j)
  BY <1>2, <1>3 DEF List!JobDone, JobDone
<1>5. \A state, roots, mark :
        List!recursive_mark_broken(state, roots, mark) =
          recursive_mark_broken(state, roots, mark)
  BY SameOperators
     DEF List!recursive_mark_broken, recursive_mark_broken, List!Markable, Markable
<1>6. List!JobFailed(t, j) = JobFailed(t, j)
  BY <1>5 DEF List!JobFailed, JobFailed
<1> QED
  BY <1>4, <1>6 DEF List!JobOpen, JobOpen, List!JobInProcessing, JobInProcessing,
                    List!NoJobs, NoJobs

(* What the table and the list satisfy together while a build runs.        *)
QueueInv(t, list) ==
  /\ IsQueue(list)
  /\ ToSet(list) = t.buildable_jobs

LEMMA EmptyQueue == IsQueue(<< >>) /\ ToSet(<< >>) = {}
BY DEF IsQueue, ToSet, IsInjective

(* The array is one of all jobs, from either end.                          *)
LEMMA ReversedArray ==
  /\ Reverse(jobs) \in Seq(Pkg)
  /\ IsInjective(Reverse(jobs))
  /\ ToSet(Reverse(jobs)) = Pkg
<1> DEFINE n == Len(jobs)
           r == Reverse(jobs)
<1>1. /\ n \in Nat /\ DOMAIN jobs = 1 .. n
      /\ \A k \in 1 .. n : jobs[k] \in Pkg
      /\ IsInjective(jobs)
      /\ Pkg = {jobs[k] : k \in 1 .. n}
  BY JobsAssumption DEF ToSet
<1>2. DOMAIN r = 1 .. n /\ \A k \in 1 .. n : r[k] = jobs[(n - k) + 1]
  BY DEF Reverse
<1>3. r = [k \in 1 .. n |-> jobs[(n - k) + 1]]
  BY DEF Reverse
<1> HIDE DEF r, n
<1>4. \A k \in 1 .. n : (n - k) + 1 \in 1 .. n /\ (n - ((n - k) + 1)) + 1 = k
  BY <1>1
<1>5. r \in Seq(Pkg)
  <2>1. r \in [1 .. n -> Pkg]
    BY <1>1, <1>3, <1>4
  <2> QED
    BY <1>1, <2>1, SeqDef
<1>6. IsInjective(r)
  <2> SUFFICES ASSUME NEW k \in 1 .. n, NEW l \in 1 .. n, r[k] = r[l]
               PROVE  k = l
    BY <1>2 DEF IsInjective
  <2>1. (n - k) + 1 = (n - l) + 1
    BY <1>1, <1>2, <1>4 DEF IsInjective
  <2> QED
    BY <1>4, <2>1
<1>7. ToSet(r) = Pkg
  <2>1. ToSet(r) = {r[k] : k \in 1 .. n}
    BY <1>2 DEF ToSet
  <2>2. ASSUME NEW k \in 1 .. n PROVE jobs[k] \in ToSet(r)
    BY <1>2, <1>4, <2>1
  <2>3. ToSet(r) \subseteq Pkg
    BY <1>1, <1>2, <1>4, <2>1
  <2> QED
    BY <1>1, <2>2, <2>3
<1> QED
  BY <1>5, <1>6, <1>7 DEF r

(* init_jobs makes the list of the table.                                  *)
LEMMA StartQueue ==
  ASSUME TableInv(table'),
         buildable_jobs' = List!add_in_order(<< >>, table'.buildable_jobs, jobs)
  PROVE  QueueInv(table', buildable_jobs')
<1>1. table'.buildable_jobs \in SUBSET ToSet(jobs)
  BY JobsAssumption DEF TableInv, Table
<1>2. <<>> \in Seq(Pkg) /\ table'.buildable_jobs \cap ToSet(<< >>) = {}
  BY EmptyQueue
<1>3. /\ IsQueue(buildable_jobs')
      /\ ToSet(buildable_jobs') = ToSet(<< >>) \cup table'.buildable_jobs
  BY <1>1, <1>2, JobsAssumption, EmptyQueue, AddInOrder
<1> QED
  BY <1>3, EmptyQueue DEF QueueInv

(* The head is one of the jobs of greatest depth.                          *)
LEMMA HeadIsFirst ==
  ASSUME NEW t, NEW list, QueueInv(t, list), list # << >>
  PROVE  Head(list) \in FirstBuildable(t)
<1>1. /\ list \in Seq(Pkg) /\ ToSet(list) = t.buildable_jobs
      /\ DOMAIN list = 1 .. Len(list) /\ Len(list) \in Nat
      /\ \A k, l \in DOMAIN list :
           k < l => pkg_depth[list[l]] <= pkg_depth[list[k]]
  BY DEF QueueInv, IsQueue
<1>2. Head(list) = list[1] /\ 1 \in 1 .. Len(list)
  <2>1. Len(list) # 0
    BY <1>1, EmptySeq
  <2> QED
    BY <1>1, <2>1, HeadTailProperties
<1>3. ASSUME NEW k \in 1 .. Len(list)
      PROVE  pkg_depth[list[k]] <= pkg_depth[list[1]]
  <2>1. k = 1 \/ 1 < k
    BY <1>1
  <2>2. pkg_depth[list[1]] \in Nat
    BY <1>1, <1>2, DepthIsNat
  <2> QED
    BY <1>1, <1>2, <2>1, <2>2
<1>4. t.buildable_jobs = {list[k] : k \in 1 .. Len(list)}
  BY <1>1 DEF ToSet
<1> QED
  BY <1>2, <1>3, <1>4 DEF FirstBuildable

(* get_job takes the head from both.                                       *)
LEMMA GetJobQueue ==
  ASSUME TableInv(table), QueueInv(table, buildable_jobs), List!GetJob
  PROVE  /\ Head(buildable_jobs) \in table.buildable_jobs
         /\ table' = JobInProcessing(table, Head(buildable_jobs))
         /\ QueueInv(table', buildable_jobs')
<1> DEFINE list == buildable_jobs
<1>1. /\ list # << >> /\ list' = Tail(list)
      /\ table' = JobInProcessing(table, Head(list))
  BY SameTables DEF List!GetJob
<1>2. /\ list \in Seq(Pkg) /\ ToSet(list) = table.buildable_jobs
      /\ IsInjective(list)
      /\ \A k, l \in DOMAIN list :
           k < l => pkg_depth[list[l]] <= pkg_depth[list[k]]
  BY DEF QueueInv, IsQueue
<1>3. table'.buildable_jobs = table.buildable_jobs \ {Head(list)}
  BY <1>1 DEF JobInProcessing, TableInv, Table
<1> DEFINE r == Tail(list)
<1> HIDE DEF list
<1>4. /\ r \in Seq(Pkg) /\ Len(r) = Len(list) - 1 /\ Head(list) = list[1]
      /\ \A k \in 1 .. Len(r) : r[k] = list[k + 1]
      /\ DOMAIN r = 1 .. Len(r) /\ Len(list) \in Nat /\ DOMAIN list = 1 .. Len(list)
  BY <1>1, <1>2, HeadTailProperties
<1> HIDE DEF r
<1>5. /\ \A k \in 1 .. Len(r) : k + 1 \in DOMAIN list /\ r[k] = list[k + 1] /\ k + 1 # 1
      /\ 1 \in DOMAIN list
  <2>1. Len(list) # 0
    BY <1>1, <1>2, EmptySeq
  <2> QED
    BY <1>4, <2>1
<1>6. IsInjective(r)
  <2> SUFFICES ASSUME NEW k \in 1 .. Len(r), NEW l \in 1 .. Len(r), r[k] = r[l]
               PROVE  k = l
    BY <1>4 DEF IsInjective
  <2>1. k + 1 = l + 1
    BY <1>2, <1>5 DEF IsInjective
  <2> QED
    BY <2>1
<1>7. \A k, l \in DOMAIN r : k < l => pkg_depth[r[l]] <= pkg_depth[r[k]]
  <2> SUFFICES ASSUME NEW k \in 1 .. Len(r), NEW l \in 1 .. Len(r), k < l
               PROVE  pkg_depth[r[l]] <= pkg_depth[r[k]]
    BY <1>4
  <2>1. k + 1 < l + 1
    OBVIOUS
  <2> QED
    BY <2>1, <1>2, <1>5
<1>8. Head(list) \notin ToSet(r)
  <2> SUFFICES ASSUME NEW k \in 1 .. Len(r), r[k] = list[1]
               PROVE  FALSE
    BY <1>4 DEF ToSet
  <2>1. list[k + 1] = list[1] /\ k + 1 # 1
    BY <1>5
  <2> QED
    BY <2>1, <1>2, <1>5 DEF IsInjective
<1>9. ToSet(list) = {Head(list)} \cup ToSet(r) /\ Head(list) \in ToSet(list)
  BY <1>1, <1>2, ToSetSeq DEF r
<1>10. ToSet(r) = table'.buildable_jobs
  BY <1>2, <1>3, <1>8, <1>9
<1>11. IsQueue(r)
  BY <1>4, <1>6, <1>7 DEF IsQueue
<1> QED
  BY <1>1, <1>2, <1>9, <1>10, <1>11 DEF QueueInv, list, r

(* JOB_DONE adds the dependents it finds ready to both.                    *)
LEMMA DoneQueue ==
  ASSUME TableInv(table), QueueInv(table, buildable_jobs),
         NEW j \in Pkg, List!Done(j)
  PROVE  /\ table.state[j] = "IN_PROCESSING" /\ table' = JobDone(table, j)
         /\ QueueInv(table', buildable_jobs')
<1> DEFINE ready == List!ready_dependents(j)
<1>1. /\ table.state[j] = "IN_PROCESSING"
      /\ table' = JobDone(table, j)
      /\ buildable_jobs' = List!add_in_order(buildable_jobs, ready, Reverse(jobs))
  BY SameTables, SameOperators DEF List!Done
<1>2. \A p \in Pkg : table.open_depends[p] \in Nat
  BY DEF TableInv, Table
<1>3. ready = {p \in Pkg : /\ p \in depending_pkgs(j) /\ table.open_depends[p] = 1
                           /\ table.state[p] = "OPEN"}
  BY DEF List!ready_dependents, List!depending_pkgs, depending_pkgs
<1>4. released(table, j) =
        {p \in Pkg : /\ p \in depending_pkgs(j) /\ table.open_depends[p] - 1 = 0
                     /\ table.state[p] = "OPEN"}
  BY DEF released, decremented, depending_pkgs
<1>5. released(table, j) = ready
  BY <1>2, <1>3, <1>4
<1> HIDE DEF ready
<1>6. ready \in SUBSET ToSet(Reverse(jobs)) /\ ready \cap ToSet(buildable_jobs) = {}
  <2>1. ToSet(buildable_jobs) = {p \in Pkg : table.state[p] = "OPEN" /\ table.open_depends[p] = 0}
    BY DEF QueueInv, TableInv, BuildListExact
  <2> QED
    BY <1>3, <2>1, ReversedArray
<1>7. table'.buildable_jobs = table.buildable_jobs \cup ready
  BY <1>1, <1>5 DEF JobDone, TableInv, Table
<1>8. /\ IsQueue(buildable_jobs')
      /\ ToSet(buildable_jobs') = ToSet(buildable_jobs) \cup ready
  <2>1. IsQueue(buildable_jobs)
    BY DEF QueueInv
  <2> QED
    BY <1>1, <1>6, <2>1, ReversedArray, AddInOrder
<1> QED
  BY <1>1, <1>7, <1>8 DEF QueueInv

(* JOB_FAILED leaves both alone.                                           *)
LEMMA FailedQueue ==
  ASSUME TableInv(table), QueueInv(table, buildable_jobs),
         NEW j \in Pkg, List!Failed(j)
  PROVE  /\ table.state[j] = "IN_PROCESSING" /\ table' = JobFailed(table, j)
         /\ QueueInv(table', buildable_jobs')
<1>1. /\ table.state[j] = "IN_PROCESSING"
      /\ table' = JobFailed(table, j)
      /\ buildable_jobs' = buildable_jobs
  BY SameTables DEF List!Failed
<1>2. table'.buildable_jobs = table.buildable_jobs
  BY <1>1 DEF JobFailed, TableInv, Table
<1> QED
  BY <1>1, <1>2 DEF QueueInv

(* JOB_OPEN gives the job back to both, if it waits for nothing.           *)
LEMMA ReopenQueue ==
  ASSUME TableInv(table), QueueInv(table, buildable_jobs),
         NEW j \in Pkg, List!Reopen(j)
  PROVE  /\ table.state[j] = "IN_PROCESSING" /\ table' = JobOpen(table, j)
         /\ QueueInv(table', buildable_jobs')
<1>1. /\ table.state[j] = "IN_PROCESSING"
      /\ table' = JobOpen(table, j)
      /\ buildable_jobs' = IF table.open_depends[j] = 0
                           THEN List!add_to_build_list(buildable_jobs, j)
                           ELSE buildable_jobs
  BY SameTables DEF List!Reopen
<1>2. table'.buildable_jobs = IF table.open_depends[j] = 0 THEN table.buildable_jobs \cup {j}
                                                           ELSE table.buildable_jobs
  BY <1>1 DEF JobOpen, TableInv, Table
<1>3. IsQueue(buildable_jobs) /\ j \notin ToSet(buildable_jobs)
  BY <1>1 DEF QueueInv, TableInv, BuildListExact
<1>4. CASE table.open_depends[j] = 0
  <2>1. /\ IsQueue(buildable_jobs')
        /\ ToSet(buildable_jobs') = ToSet(buildable_jobs) \cup {j}
    BY <1>1, <1>3, <1>4, AddToList
  <2> QED
    BY <1>1, <1>2, <1>4, <2>1 DEF QueueInv
<1>5. CASE table.open_depends[j] # 0
  BY <1>1, <1>2, <1>5 DEF QueueInv
<1> QED
  BY <1>1, <1>4, <1>5

-----------------------------------------------------------------------------
(* The program *)

(* Between the runs the list is as empty as the set of the table.          *)
OrderInv ==
  /\ IInv
  /\ QueueInv(table, buildable_jobs)

LEMMA InitOrderInv ==
  InitAll => OrderInv /\ Promise!Init
<1> SUFFICES ASSUME InitAll
             PROVE  OrderInv /\ Promise!Init
  OBVIOUS
<1>1. Init /\ buildable_jobs = << >> /\ table.buildable_jobs = {}
  BY SameTables DEF InitAll, List!Init, Init, NoJobs
<1> QED
  BY <1>1, InitIInv, PromiseInit, EmptyQueue DEF OrderInv, QueueInv

(* A step of the running program that keeps the table sound and changes    *)
(* the states of the jobs as process_job may is one the promise allows.    *)
LEMMA RunningStep ==
  ASSUME OrderInv, phase = "running", UNCHANGED <<phase, runs>>,
         TableInv(table'), QueueInv(table', buildable_jobs'),
         \A p \in Pkg : MayChange(table.state[p], table'.state[p])
  PROVE  OrderInv' /\ Promise!Next
<1>1. OrderInv'
  BY DEF OrderInv, IInv, TypeOK, TableInv, Running
<1>2. TableInv(table)
  BY DEF OrderInv, IInv, Running
<1>3. PackageStatus = StatusMap(table) /\ PackageStatus' = StatusMap(table')
  BY PackageStatusIs, PackageStatusIsPrimed DEF Running
<1>4. Promise!Next
  BY <1>2, <1>3, StepAllowed
<1> QED
  BY <1>1, <1>4

(* A step that leaves the status alone is one, too.                        *)
LEMMA SameStatusStep ==
  ASSUME IInv, PackageStatus' = PackageStatus
  PROVE  Promise!Next
BY SkipRuleAlways
   DEF Promise!Next, Promise!Step, Promise!MayBecome, PackageStatus

(* Every step keeps the list and the table together, and the promise.      *)
LEMMA NextOrderInv ==
  ASSUME OrderInv, NextAll
  PROVE  /\ OrderInv'
         /\ UNCHANGED <<phase, table>> \/ Promise!Next
<1>0. IInv /\ QueueInv(table, buildable_jobs) /\ table \in Table
  BY DEF OrderInv, IInv, TypeOK
<1>1. CASE ComputeDepth
  BY <1>1, <1>0
     DEF ComputeDepth, vars, OrderInv, IInv, TypeOK, Running, Idle, QueueInv
<1>2. CASE Build(Start /\ List!Start)
  <2>1. Start /\ List!Start
    BY <1>2 DEF Build
  <2>2. IInv' /\ TableInv(table')
    <3>1. IInv'
      BY <1>0, <2>1, NextIInv DEF Next
    <3> QED
      BY <2>1, <3>1 DEF Start, IInv, Running
  <2>3. QueueInv(table', buildable_jobs')
    BY <2>1, <2>2, StartQueue DEF List!Start
  <2>4. PackageStatus' = StatusMap(table')
    BY <2>1, PackageStatusIsPrimed DEF Start, Running
  <2>5. PackageStatus = StatusMap(table')
    BY <2>1, PackageStatusIs DEF Start
  <2> QED
    BY <1>0, <2>2, <2>3, <2>4, <2>5, SameStatusStep DEF OrderInv
<1>3. CASE Build(GetFromList)
  <2>1. /\ phase = "running" /\ UNCHANGED <<phase, runs>>
        /\ List!GetJob
    BY <1>3 DEF Build, GetFromList
  <2>2. TableInv(table)
    BY <1>0, <2>1 DEF IInv, Running
  <2>3. PICK j \in table.buildable_jobs :
          table' = JobInProcessing(table, j) /\ QueueInv(table', buildable_jobs')
    BY <1>0, <2>1, <2>2, GetJobQueue
  <2>4. TableInv(table')
    BY <2>2, <2>3, JobInProcessingInv
  <2>5. j \in Pkg /\ table.state[j] = "OPEN"
    BY <2>2 DEF TableInv, BuildListExact
  <2>6. \A p \in Pkg :
          table'.state[p] = IF p = j THEN "IN_PROCESSING" ELSE table.state[p]
    BY <1>0, <2>3, <2>5 DEF JobInProcessing, Table
  <2>7. \A p \in Pkg : MayChange(table.state[p], table'.state[p])
    BY <2>5, <2>6 DEF MayChange
  <2> QED
    BY <2>1, <2>3, <2>4, <2>7, RunningStep
<1>4. CASE Build(DoneOrFailed)
  <2>1. /\ phase = "running" /\ UNCHANGED <<phase, runs>>
        /\ \E j \in Pkg : List!Done(j) \/ List!Failed(j)
    BY <1>4 DEF Build, DoneOrFailed, BuildDone, BuildFailed
  <2>2. TableInv(table)
    BY <1>0, <2>1 DEF IInv, Running
  <2>3. PICK j \in Pkg : List!Done(j) \/ List!Failed(j)
    BY <2>1
  <2>4. CASE List!Done(j)
    <3>1. /\ table.state[j] = "IN_PROCESSING" /\ table' = JobDone(table, j)
          /\ QueueInv(table', buildable_jobs')
      BY <1>0, <2>2, <2>4, DoneQueue
    <3>2. TableInv(table')
      BY <2>2, <3>1, JobDoneInv
    <3>3. \A p \in Pkg : table'.state[p] = IF p = j THEN "DONE" ELSE table.state[p]
      BY <1>0, <3>1 DEF JobDone, Table
    <3>4. \A p \in Pkg : MayChange(table.state[p], table'.state[p])
      BY <3>1, <3>3 DEF MayChange
    <3> QED
      BY <2>1, <3>1, <3>2, <3>4, RunningStep
  <2>5. CASE List!Failed(j)
    <3>1. /\ table.state[j] = "IN_PROCESSING" /\ table' = JobFailed(table, j)
          /\ QueueInv(table', buildable_jobs')
      BY <1>0, <2>2, <2>5, FailedQueue
    <3>2. TableInv(table')
      BY <2>2, <3>1, JobFailedInv
    <3>3. \A p \in Pkg :
            \/ p = j /\ table'.state[p] = "FAILED"
            \/ table'.state[p] = table.state[p]
            \/ table.state[p] = "OPEN" /\ table'.state[p] = "INDIRECT_FAILED"
      BY <2>2, <3>1, JobFailedStates
    <3>4. \A p \in Pkg : MayChange(table.state[p], table'.state[p])
      BY <3>1, <3>3 DEF MayChange
    <3> QED
      BY <2>1, <3>1, <3>2, <3>4, RunningStep
  <2> QED
    BY <2>3, <2>4, <2>5
<1>5. CASE Build(FinishList)
  <2>1. /\ phase = "running" /\ Idle /\ buildable_jobs = << >>
        /\ phase' = "finished" /\ UNCHANGED <<runs, table, buildable_jobs>>
    BY <1>5 DEF Build, FinishList
  <2>2. table.buildable_jobs = {}
    BY <1>0, <2>1, EmptyQueue DEF QueueInv
  <2>3. OrderInv'
    BY <1>0, <2>1, <2>2 DEF OrderInv, IInv, TypeOK, Running, Idle, QueueInv
  <2>4. PackageStatus' = PackageStatus
    BY <2>1 DEF PackageStatus, StatusIn
  <2> QED
    BY <1>0, <2>3, <2>4, SameStatusStep
<1>6. CASE Build(ReopenLost)
  <2>1. /\ phase = "running" /\ UNCHANGED <<phase, runs>>
        /\ \E j \in Pkg : List!Reopen(j)
    BY <1>6 DEF Build, ReopenLost
  <2>2. TableInv(table)
    BY <1>0, <2>1 DEF IInv, Running
  <2>3. PICK j \in Pkg : List!Reopen(j)
    BY <2>1
  <2>4. /\ table.state[j] = "IN_PROCESSING" /\ table' = JobOpen(table, j)
        /\ QueueInv(table', buildable_jobs')
    BY <1>0, <2>2, <2>3, ReopenQueue
  <2>5. TableInv(table')
    BY <2>2, <2>4, JobOpenInv
  <2>6. \A p \in Pkg : table'.state[p] = IF p = j THEN "OPEN" ELSE table.state[p]
    BY <1>0, <2>4 DEF JobOpen, Table
  <2>7. \A p \in Pkg : MayChange(table.state[p], table'.state[p])
    BY <2>4, <2>6 DEF MayChange
  <2> QED
    BY <2>1, <2>4, <2>5, <2>7, RunningStep
<1>7. CASE Build((Crash \/ RunAgain) /\ buildable_jobs' = << >>)
  <2>1. Crash \/ RunAgain
    BY <1>7 DEF Build
  <2>2. buildable_jobs' = << >>
    BY <1>7 DEF Build
  <2>3. /\ Running /\ phase' = "down" /\ UNCHANGED runs
        /\ table' = NoJobs(table.log_success, table.log_failed)
    BY <2>1 DEF Crash, RunAgain, Running
  <2>4. IInv' /\ Promise!Next
    BY <1>0, <2>3, DownIInv, DownAllowed
  <2>5. QueueInv(table', buildable_jobs')
    BY <2>2, <2>3, EmptyQueue DEF QueueInv, NoJobs
  <2> QED
    BY <2>4, <2>5 DEF OrderInv
<1> QED
  BY <1>1, <1>2, <1>3, <1>4, <1>5, <1>6, <1>7 DEF NextAll

(* OrderInv holds in every reachable state, of normal mode and under a     *)
(* master.                                                                 *)
THEOREM OrderInvariance == SpecAll => []OrderInv
<1>1. InitAll => OrderInv
  BY InitOrderInv
<1>2. OrderInv /\ [NextAll]_allVars => OrderInv'
  <2>1. ASSUME OrderInv, UNCHANGED allVars
        PROVE  OrderInv'
    BY <2>1 DEF allVars, vars, OrderInv, IInv, TypeOK, Running, Idle, QueueInv
  <2> QED
    BY <2>1, NextOrderInv
<1> QED
  BY <1>1, <1>2, PTL DEF SpecAll

(* For every scan, the build list holds the jobs of the table's set, each  *)
(* once, by falling depth, whatever the order of the results and however   *)
(* often clients are lost or the program is run again.                     *)
THEOREM ListAlwaysTheSet == SpecAll => []ListIsTheSet
<1>1. OrderInv => ListIsTheSet
  BY SameOperators, SameDepth
     DEF OrderInv, QueueInv, IsQueue, ListIsTheSet, List!ListIsTheSet
<1> QED
  BY <1>1, OrderInvariance, PTL

(* For every scan, what JobTable says of a running build holds on the list *)
(* and under a master, too.                                                *)
THEOREM OrderAlwaysSound ==
  SpecAll => [](/\ CountersExact /\ NoJobLost /\ DependenciesFirst
                /\ FailuresPropagate /\ RestartContinues /\ ReportComplete)
<1>1. ASSUME OrderInv
      PROVE  /\ CountersExact /\ NoJobLost /\ DependenciesFirst
             /\ FailuresPropagate /\ RestartContinues /\ ReportComplete
  <2>1. Running => TableInv(table)
    BY <1>1 DEF OrderInv, IInv
  <2>2. /\ CountersExact /\ NoJobLost /\ DependenciesFirst
        /\ FailuresPropagate
    BY <2>1 DEF CountersExact, NoJobLost, DependenciesFirst, FailuresPropagate, TableInv
  <2>3. RestartContinues
    BY <2>1, ReplayLemma DEF RestartContinues
  <2>4. ReportComplete
    BY <1>1, <2>1, AllFinalLemma DEF OrderInv, IInv, Idle, Running, ReportComplete
  <2> QED
    BY <2>2, <2>3, <2>4
<1> QED
  BY <1>1, OrderInvariance, PTL

(* For every scan, normal mode and a master with any number of clients,    *)
(* taking their jobs from the list, keep the promise.                      *)
THEOREM ScanAlwaysKeepsPromise == SpecAll => ScanKeepsPromise
<1>1. InitAll => (deps = scan => Promise!Init)
  BY InitOrderInv
<1>2. OrderInv /\ [NextAll]_allVars =>
        [deps = scan =>
           \E ph \in {phase'}, t \in {table'} :
             Promise!Step(StatusIn(phase, table), StatusIn(ph, t))]_<<phase, table>>
  <2> SUFFICES ASSUME OrderInv, [NextAll]_allVars
               PROVE  \/ UNCHANGED <<phase, table>>
                      \/ Promise!Step(StatusIn(phase, table), StatusIn(phase', table'))
    OBVIOUS
  <2>1. CASE NextAll
    <3>1. UNCHANGED <<phase, table>> \/ Promise!Next
      BY <2>1, NextOrderInv
    <3> QED
      BY <3>1 DEF Promise!Next, StatusIn
  <2>2. CASE UNCHANGED allVars
    BY <2>2 DEF allVars, vars
  <2> QED
    BY <2>1, <2>2
<1> QED
  BY <1>1, <1>2, OrderInvariance, PTL DEF SpecAll, ScanKeepsPromise

-----------------------------------------------------------------------------
(* The depths *)

(* The loop of compute_tree_depth_rec over the dependents: v is what the   *)
(* recursive calls return, b the list so far.                              *)
VisitAll(v, b, s) == Tree!FoldLeft(LAMBDA w, q : v[w][q], b, s)

IsVisitAll(g, v, b, s) ==
  g = [S \in SUBSET (1 .. Len(s)) |->
         IF S = {} THEN b
         ELSE v[g[S \ {Tree!Max(S)}]][s[Tree!Max(S)]]]

(* The list before the first of these calls and after each of them.        *)
IsTrace(t, v, b, s) ==
  /\ t[0] = b
  /\ \A k \in 1 .. Len(s) : t[k] = v[t[k - 1]][s[k]]

LEMMA SameTreeOperators ==
  /\ \A S : /\ Tree!Max(S) = Max(S)
            /\ Tree!Cardinality(S) = Cardinality(S)
  /\ \A S : Tree!SetToSeq(S) = SetToSeq(S)
<1>1. \A S : Tree!Max(S) = Max(S)
  BY DEF Tree!Max, Max
<1>2. \A S : Tree!Cardinality(S) = Cardinality(S)
  BY Zenon DEF Tree!Cardinality, Cardinality, Tree!IsFiniteSet, IsFiniteSet
<1>3. \A S : Tree!SetToSeq(S) = SetToSeq(S)
  BY <1>2, Zenon DEF Tree!SetToSeq, SetToSeq, Tree!IsInjective, IsInjective
<1> QED
  BY <1>1, <1>2, <1>3

(* A set of lists that the calls do not leave holds all of them.           *)
LEMMA VisitAllTrace ==
  ASSUME NEW A, NEW Q, NEW v, NEW b \in A, NEW s \in Seq(Q),
         \A w \in A, q \in Q : v[w][q] \in A
  PROVE  \E t \in [0 .. Len(s) -> A] :
           IsTrace(t, v, b, s) /\ VisitAll(v, b, s) = t[Len(s)]
<1> DEFINE N == Len(s)
           F == [k \in 1 .. N |-> [w \in A |-> v[w][s[k]]]]
           g == CHOOSE h : IsVisitAll(h, v, b, s)
           t == [k \in 0 .. N |-> g[1 .. k]]
<1>1. N \in Nat /\ DOMAIN s = 1 .. N /\ \A k \in 1 .. N : s[k] \in Q
  OBVIOUS
<1>2. F \in [1 .. N -> [A -> A]]
  BY <1>1
<1>3. PICK f \in [SUBSET (1 .. N) -> A] : IsFold(f, b, F, N)
  <2> HIDE DEF N, F
  <2> QED
    BY <1>1, <1>2, FoldExists
<1>4. \A S \in SUBSET (1 .. N) : S # {} => Max(S) \in 1 .. N
  <2> HIDE DEF N
  <2> QED
    BY <1>1, MaxInside
<1>5. IsVisitAll(f, v, b, s)
  <2>1. \A S \in SUBSET (1 .. N) : S # {} =>
          F[Max(S)][f[S \ {Max(S)}]] = v[f[S \ {Max(S)}]][s[Max(S)]]
    BY <1>3, <1>4
  <2>2. f = [S \in SUBSET (1 .. N) |->
               IF S = {} THEN b ELSE F[Max(S)][f[S \ {Max(S)}]]]
    BY <1>3 DEF IsFold
  <2> HIDE DEF F
  <2>3. f = [S \in SUBSET (1 .. N) |->
               IF S = {} THEN b ELSE v[f[S \ {Max(S)}]][s[Max(S)]]]
    BY <2>1, <2>2
  <2>4. f = [S \in SUBSET (1 .. N) |->
               IF S = {} THEN b ELSE v[f[S \ {Tree!Max(S)}]][s[Tree!Max(S)]]]
    BY <2>3, SameTreeOperators
  <2> QED
    BY <2>4 DEF IsVisitAll
<1>6. IsVisitAll(g, v, b, s)
  BY <1>5
<1>7. VisitAll(v, b, s) = g[1 .. N]
  BY <1>1, Zenon
     DEF VisitAll, Tree!FoldLeft, Tree!MapThenFoldSet, IsVisitAll
<1> HIDE DEF g, F
<1>8. \A S \in SUBSET (1 .. N) :
        g[S] = IF S = {} THEN b ELSE v[g[S \ {Max(S)}]][s[Max(S)]]
  BY <1>6, SameTreeOperators DEF IsVisitAll
<1>9. g[{}] = b /\ t[0] = b
  <2>1. {} \in SUBSET (1 .. N) /\ 0 \in 0 .. N /\ 1 .. 0 = {}
    BY <1>1
  <2> HIDE DEF N
  <2> QED
    BY <1>8, <2>1
<1>10. \A k \in 1 .. N : t[k] = v[t[k - 1]][s[k]]
  <2> SUFFICES ASSUME NEW k \in 1 .. N
               PROVE  g[1 .. k] = v[g[1 .. k - 1]][s[k]]
    BY <1>1
  <2>1. /\ (1 .. k) \in SUBSET (1 .. N) /\ (1 .. k) # {}
        /\ Max(1 .. k) = k /\ (1 .. k) \ {k} = 1 .. k - 1
    <3> HIDE DEF N
    <3> QED
      BY <1>1, OneMore
  <2> HIDE DEF N
  <2>2. g[1 .. k] = v[g[(1 .. k) \ {Max(1 .. k)}]][s[Max(1 .. k)]]
    BY <1>8, <2>1, Zenon
  <2> QED
    BY <2>1, <2>2, Zenon
<1>11. ASSUME NEW k \in 0 .. N PROVE t[k] \in A
  <2> DEFINE T == {m \in 0 .. N : t[m] \in A}
  <2>1. 0 \in T
    BY <1>1, <1>9
  <2>2. ASSUME NEW m \in 1 .. k, m - 1 \in T PROVE m \in T
    <3>1. m \in 1 .. N /\ m \in 0 .. N
      BY <1>1
    <3> HIDE DEF t
    <3> QED
      BY <1>1, <1>10, <2>2, <3>1
  <2>3. k \in T
    <3> HIDE DEF T
    <3> QED
      BY <2>1, <2>2, GoingUp
  <2> QED
    BY <2>3
<1>12. t \in [0 .. N -> A]
  BY <1>11
<1>13. VisitAll(v, b, s) = t[N]
  BY <1>1, <1>7
<1> QED
  BY <1>9, <1>10, <1>12, <1>13 DEF IsTrace

(* Calls that return the same on such a set give the same list.            *)
LEMMA SameVisits ==
  ASSUME NEW A, NEW Q, NEW v, NEW u, NEW b \in A, NEW s \in Seq(Q),
         \A w \in A, q \in Q : v[w][q] \in A /\ u[w][q] = v[w][q]
  PROVE  VisitAll(u, b, s) = VisitAll(v, b, s)
<1> DEFINE N == Len(s)
<1>1. PICK t \in [0 .. N -> A] : IsTrace(t, v, b, s) /\ VisitAll(v, b, s) = t[N]
  BY VisitAllTrace
<1>2. PICK r \in [0 .. N -> A] : IsTrace(r, u, b, s) /\ VisitAll(u, b, s) = r[N]
  <2>1. \A w \in A, q \in Q : u[w][q] \in A
    OBVIOUS
  <2> QED
    BY <2>1, VisitAllTrace
<1>3. N \in Nat /\ \A k \in 1 .. N : s[k] \in Q
  OBVIOUS
<1> DEFINE T == {k \in 0 .. N : t[k] = r[k]}
<1> HIDE DEF N
<1>4. 0 \in T
  BY <1>1, <1>2, <1>3 DEF IsTrace
<1>5. ASSUME NEW k \in 1 .. N, k - 1 \in T PROVE k \in T
  <2>1. t[k] = v[t[k - 1]][s[k]] /\ r[k] = u[r[k - 1]][s[k]]
    BY <1>1, <1>2 DEF IsTrace, N
  <2>2. k - 1 \in 0 .. N /\ k \in 0 .. N /\ t[k - 1] \in A /\ s[k] \in Q
    BY <1>3
  <2> QED
    BY <1>5, <2>1, <2>2
<1>6. N \in T
  <2> HIDE DEF T
  <2> QED
    BY <1>3, <1>4, <1>5, GoingUp
<1> QED
  BY <1>1, <1>2, <1>6 DEF N

(* The dependents of p in the order the loop takes them.                   *)
Dependents(p) == Tree!SetToSeq(Tree!depending_pkgs(p))

(* p put on the list of w.                                                 *)
Seen(w, p) == [w EXCEPT !.head = @ \cup {p}]

(* What one call returns, if v is what the calls below it return.          *)
OneVisit(v, root, w, p) ==
  IF w.cyclic \/ (p = root /\ w.head # {})
  THEN [w EXCEPT !.cyclic = TRUE]
  ELSE IF p \in w.head THEN w ELSE VisitAll(v, Seen(w, p), Dependents(p))

IsVisit(v, root) ==
  v = [walk \in Tree!Walk |-> [p \in Tree!Node |-> OneVisit(v, root, walk, p)]]

LEMMA VisitIs ==
  ASSUME NEW root
  PROVE  Tree!compute_tree_depth_rec(root) = CHOOSE v : IsVisit(v, root)
BY Zenon DEF Tree!compute_tree_depth_rec, IsVisit, OneVisit, Seen, Dependents, VisitAll

(* The jobs are finitely many.                                             *)
LEMMA Jobs ==
  /\ Len(jobs) \in Nat
  /\ Tree!Node = 1 .. Len(jobs)
  /\ IsFiniteSet(Tree!Node) /\ Cardinality(Tree!Node) = Len(jobs)
<1>1. Len(jobs) \in Nat
  BY JobsAssumption
<1>2. Tree!Node = 1 .. Len(jobs)
  BY DEF Tree!Node
<1>3. /\ IsFiniteSet(1 .. Len(jobs))
      /\ Cardinality(1 .. Len(jobs)) = IF 1 > Len(jobs) THEN 0 ELSE Len(jobs) - 1 + 1
  BY <1>1, FS_Interval
<1> QED
  BY <1>1, <1>2, <1>3

LEMMA DependentsList ==
  ASSUME NEW p \in Tree!Node
  PROVE  /\ Dependents(p) \in Seq(Tree!Node)
         /\ \A k \in 1 .. Len(Dependents(p)) : Dependents(p)[k] \in Tree!depending_pkgs(p)
         /\ \A q \in Tree!depending_pkgs(p) :
              \E k \in 1 .. Len(Dependents(p)) : Dependents(p)[k] = q
<1> DEFINE D == Tree!depending_pkgs(p)
<1>1. D \in SUBSET Tree!Node
  BY DEF Tree!depending_pkgs
<1>2. IsFiniteSet(D)
  BY <1>1, Jobs, FS_Subset
<1>3. Dependents(p) = SetToSeq(D)
  BY SameTreeOperators DEF Dependents
<1> HIDE DEF D
<1>4. Dependents(p) \in Seq(D)
  BY <1>2, <1>3, SetToSeqProperties
<1>5. Dependents(p) \in Seq(Tree!Node)
  BY <1>1, <1>4
<1> QED
  BY <1>2, <1>3, <1>5, SetToSeqProperties DEF D

(* The lists that have at most k jobs to come: the calls are considered    *)
(* for one k after the other, as each puts a job on the list before it     *)
(* makes the next.                                                         *)
Left(k) == {w \in Tree!Walk : Cardinality(Tree!Node \ w.head) <= k}

(* The list as it is or longer.                                            *)
From(w) == {u \in Tree!Walk : w.head \subseteq u.head}

LEMMA LeftProperties ==
  /\ \A k \in Nat : \A w \in Left(k) : w \in Tree!Walk /\ From(w) \subseteq Left(k)
  /\ \A w \in Tree!Walk : w \in Left(Len(jobs))
  /\ \A w \in Left(0), p \in Tree!Node : p \in w.head
  /\ \A k \in Nat \ {0} : \A w \in Left(k), p \in Tree!Node :
       p \notin w.head => Seen(w, p) \in Left(k - 1)
  /\ \A w \in Tree!Walk, p \in Tree!Node :
       /\ Seen(w, p) \in Tree!Walk
       /\ Seen(w, p).head = w.head \cup {p} /\ Seen(w, p).cyclic = w.cyclic
<1> DEFINE Nd == Tree!Node
           N == Len(jobs)
           togo(w) == Nd \ w.head
<1>0. /\ IsFiniteSet(Nd) /\ Cardinality(Nd) = N /\ N \in Nat
      /\ Left(0) \subseteq Tree!Walk
  BY Jobs DEF Left
<1>1. \A w \in Tree!Walk, p \in Nd :
       /\ Seen(w, p) \in Tree!Walk
       /\ Seen(w, p).head = w.head \cup {p} /\ Seen(w, p).cyclic = w.cyclic
  BY DEF Seen, Tree!Walk
<1>2. \A w \in Tree!Walk : IsFiniteSet(togo(w)) /\ Cardinality(togo(w)) \in Nat /\ Cardinality(togo(w)) <= N
  BY <1>0, FS_Subset, FS_CardinalityType
<1>3. \A w \in Tree!Walk : \A u \in From(w) : Cardinality(togo(u)) <= Cardinality(togo(w))
  <2> SUFFICES ASSUME NEW w \in Tree!Walk, NEW u \in From(w)
               PROVE  Cardinality(togo(u)) <= Cardinality(togo(w))
    OBVIOUS
  <2>1. togo(u) \subseteq togo(w)
    BY DEF From
  <2> QED
    BY <1>2, <2>1, FS_Subset
<1>4. \A w \in Left(0), p \in Nd : p \in w.head
  <2> SUFFICES ASSUME NEW w \in Left(0), NEW p \in Nd
               PROVE  p \in w.head
    OBVIOUS
  <2>1. w \in Tree!Walk /\ Cardinality(togo(w)) <= 0
    BY DEF Left
  <2>2. togo(w) = {}
    BY <1>2, <2>1, FS_EmptySet
  <2> QED
    BY <2>2
<1>5. ASSUME NEW k \in Nat \ {0}, NEW w \in Left(k), NEW p \in Nd, p \notin w.head
      PROVE  Seen(w, p) \in Left(k - 1)
  <2>1. w \in Tree!Walk /\ Cardinality(togo(w)) <= k
    BY DEF Left
  <2>2. togo(Seen(w, p)) = togo(w) \ {p} /\ p \in togo(w)
    BY <1>1, <1>5, <2>1
  <2>3. Cardinality(togo(Seen(w, p))) \in Nat /\ Cardinality(togo(w)) \in Nat
    BY <1>1, <1>2, <2>1
  <2>4. Cardinality(togo(Seen(w, p))) <= k - 1
    <3> HIDE DEF togo
    <3>1. Cardinality(togo(w) \ {p}) =
            IF p \in togo(w) THEN Cardinality(togo(w)) - 1 ELSE Cardinality(togo(w))
      BY <1>2, <2>1, FS_RemoveElement
    <3>2. Cardinality(togo(Seen(w, p))) = Cardinality(togo(w)) - 1
      BY <2>2, <3>1
    <3> QED
      BY <2>1, <2>3, <3>2
  <2> QED
    BY <1>1, <2>1, <2>4 DEF Left
<1>6. \A w \in Tree!Walk : w \in Left(N)
  BY <1>2 DEF Left
<1>7. ASSUME NEW k \in Nat, NEW w \in Left(k)
      PROVE  w \in Tree!Walk /\ From(w) \subseteq Left(k)
  <2>1. w \in Tree!Walk /\ Cardinality(togo(w)) <= k
    BY DEF Left
  <2>2. ASSUME NEW u \in From(w) PROVE u \in Left(k)
    <3>1. u \in Tree!Walk
      BY DEF From
    <3>2. Cardinality(togo(u)) <= k
      <4>1. /\ Cardinality(togo(u)) \in Nat /\ Cardinality(togo(w)) \in Nat
            /\ Cardinality(togo(u)) <= Cardinality(togo(w))
        BY <1>2, <1>3, <2>1, <3>1
      <4> HIDE DEF togo
      <4> QED
        BY <2>1, <4>1
    <3> QED
      BY <3>1, <3>2 DEF Left
  <2> QED
    BY <2>1, <2>2
<1> QED
  BY <1>1, <1>4, <1>5, <1>6, <1>7

(* What a call returns is one of the lists From(w) and depends only on the *)
(* calls below it.                                                         *)
LEMMA OneVisitBelow ==
  ASSUME NEW root, NEW k \in Nat \ {0}, NEW v, NEW u,
         \A w \in Left(k - 1), p \in Tree!Node : v[w][p] \in From(w) /\ u[w][p] = v[w][p],
         NEW w \in Left(k), NEW p \in Tree!Node
  PROVE  /\ OneVisit(v, root, w, p) \in From(w)
         /\ OneVisit(u, root, w, p) = OneVisit(v, root, w, p)
<1>1. w \in Tree!Walk
  BY LeftProperties
<1>2. CASE w.cyclic \/ (p = root /\ w.head # {})
  BY <1>1, <1>2 DEF OneVisit, From, Tree!Walk
<1>3. CASE ~(w.cyclic \/ (p = root /\ w.head # {})) /\ p \in w.head
  BY <1>1, <1>3 DEF OneVisit, From, Tree!Walk
<1>4. CASE ~(w.cyclic \/ (p = root /\ w.head # {})) /\ p \notin w.head
  <2> DEFINE b == Seen(w, p)
             s == Dependents(p)
  <2>1. /\ b \in Left(k - 1) /\ b \in Tree!Walk
        /\ w.head \subseteq b.head
    BY <1>1, <1>4, LeftProperties
  <2>2. k - 1 \in Nat
    OBVIOUS
  <2>3. From(b) \subseteq Left(k - 1) /\ b \in From(b) /\ From(b) \subseteq From(w)
    BY <2>1, <2>2, LeftProperties DEF From
  <2>4. s \in Seq(Tree!Node)
    BY DependentsList
  <2> HIDE DEF b, s
  <2>5. ASSUME NEW x \in From(b), NEW q \in Tree!Node
        PROVE  v[x][q] \in From(b) /\ u[x][q] = v[x][q]
    <3>1. x \in Left(k - 1)
      BY <2>3
    <3>2. v[x][q] \in From(x) /\ u[x][q] = v[x][q]
      BY <3>1
    <3>3. From(x) \subseteq From(b)
      BY DEF From
    <3> QED
      BY <3>2, <3>3
  <2>6. VisitAll(u, b, s) = VisitAll(v, b, s)
    BY <2>3, <2>4, <2>5, SameVisits
  <2>7. VisitAll(v, b, s) \in From(b)
    <3>1. \A x \in From(b), q \in Tree!Node : v[x][q] \in From(b)
      BY <2>5
    <3>2. PICK t \in [0 .. Len(s) -> From(b)] : VisitAll(v, b, s) = t[Len(s)]
      BY <2>3, <2>4, <3>1, VisitAllTrace
    <3>3. Len(s) \in 0 .. Len(s)
      BY <2>4
    <3> QED
      BY <3>2, <3>3
  <2>8. /\ OneVisit(v, root, w, p) = VisitAll(v, b, s)
        /\ OneVisit(u, root, w, p) = VisitAll(u, b, s)
    BY <1>4 DEF OneVisit, b, s
  <2> QED
    BY <2>3, <2>6, <2>7, <2>8
<1> QED
  BY <1>2, <1>3, <1>4

(* So the recursion is a function.                                         *)
LEMMA VisitExists ==
  ASSUME NEW root
  PROVE  \E v : IsVisit(v, root)
<1> DEFINE N == Len(jobs)
           good(v, k) == \A w \in Left(k), p \in Tree!Node :
                           v[w][p] \in From(w) /\ v[w][p] = OneVisit(v, root, w, p)
           T == {k \in 0 .. N : \E v : good(v, k)}
<1>1. 0 \in T
  <2> DEFINE v == [w \in Left(0) |-> [p \in Tree!Node |-> OneVisit(<< >>, root, w, p)]]
  <2>1. ASSUME NEW w \in Left(0), NEW p \in Tree!Node
        PROVE  v[w][p] \in From(w) /\ v[w][p] = OneVisit(v, root, w, p)
    <3>1. w \in Tree!Walk /\ p \in w.head
      BY LeftProperties
    <3>2. OneVisit(v, root, w, p) = OneVisit(<< >>, root, w, p)
      BY <3>1 DEF OneVisit
    <3>3. OneVisit(<< >>, root, w, p) \in From(w)
      BY <3>1 DEF OneVisit, From, Tree!Walk
    <3> QED
      BY <3>2, <3>3
  <2>2. good(v, 0)
    BY <2>1
  <2>3. 0 \in 0 .. N
    BY Jobs
  <2> HIDE DEF good, v
  <2> QED
    BY <2>2, <2>3
<1>2. ASSUME NEW k \in 1 .. N, k - 1 \in T
      PROVE  k \in T
  <2>0. k \in Nat \ {0} /\ k \in 0 .. N
    BY Jobs
  <2>1. PICK v : good(v, k - 1)
    BY <1>2
  <2> DEFINE u == [w \in Left(k) |-> [p \in Tree!Node |-> OneVisit(v, root, w, p)]]
  <2>2. ASSUME NEW w \in Left(k - 1), NEW p \in Tree!Node
        PROVE  v[w][p] \in From(w) /\ u[w][p] = v[w][p]
    <3>1. v[w][p] \in From(w) /\ v[w][p] = OneVisit(v, root, w, p)
      BY <2>1
    <3>2. w \in Left(k)
      <4>1. w \in Tree!Walk /\ Cardinality(Tree!Node \ w.head) <= k - 1
        BY DEF Left
      <4>2. Cardinality(Tree!Node \ w.head) \in Nat
        BY Jobs, FS_Subset, FS_CardinalityType
      <4> QED
        BY <2>0, <4>1, <4>2 DEF Left
    <3> QED
      BY <3>1, <3>2
  <2> HIDE DEF u
  <2>3. ASSUME NEW w \in Left(k), NEW p \in Tree!Node
        PROVE  u[w][p] \in From(w) /\ u[w][p] = OneVisit(u, root, w, p)
    <3>1. u[w][p] = OneVisit(v, root, w, p)
      BY DEF u
    <3>2. /\ OneVisit(v, root, w, p) \in From(w)
          /\ OneVisit(u, root, w, p) = OneVisit(v, root, w, p)
      BY <2>0, <2>2, OneVisitBelow
    <3> QED
      BY <3>1, <3>2
  <2> QED
    BY <2>0, <2>3
<1>3. N \in T
  <2>1. N \in Nat
    BY Jobs
  <2> HIDE DEF T, N
  <2> QED
    BY <1>1, <1>2, <2>1, GoingUp
<1>4. PICK v : good(v, N)
  BY <1>3
<1> DEFINE u == [w \in Tree!Walk |-> [p \in Tree!Node |-> OneVisit(v, root, w, p)]]
<1>5. \A w \in Tree!Walk, p \in Tree!Node :
        v[w][p] \in From(w) /\ u[w][p] = v[w][p]
  BY <1>4, LeftProperties
<1> HIDE DEF u
<1>6. ASSUME NEW w \in Tree!Walk, NEW p \in Tree!Node
      PROVE  OneVisit(u, root, w, p) = OneVisit(v, root, w, p)
  <2>1. N + 1 \in Nat \ {0} /\ (N + 1) - 1 = N /\ N \in Nat
    BY Jobs
  <2>2. \A x \in Left((N + 1) - 1), q \in Tree!Node : v[x][q] \in From(x) /\ u[x][q] = v[x][q]
    BY <1>5 DEF Left
  <2>3. w \in Left(N + 1)
    <3>1. Cardinality(Tree!Node \ w.head) \in Nat
      BY Jobs, FS_Subset, FS_CardinalityType
    <3>2. Cardinality(Tree!Node \ w.head) <= N
      BY LeftProperties DEF Left
    <3> QED
      BY <2>1, <3>1, <3>2 DEF Left
  <2> HIDE DEF N
  <2> QED
    BY <2>1, <2>2, <2>3, OneVisitBelow
<1>7. u = [w \in Tree!Walk |-> [p \in Tree!Node |-> OneVisit(u, root, w, p)]]
  BY <1>6 DEF u
<1> QED
  BY <1>7 DEF IsVisit

LEMMA VisitWorks ==
  ASSUME NEW root, NEW w \in Tree!Walk, NEW p \in Tree!Node
  PROVE  LET v == Tree!compute_tree_depth_rec(root)
         IN  v[w][p] \in From(w) /\ v[w][p] = OneVisit(v, root, w, p)
<1> DEFINE v == Tree!compute_tree_depth_rec(root)
           N == Len(jobs)
           T == {k \in 0 .. N : \A x \in Left(k), q \in Tree!Node : v[x][q] \in From(x)}
<1>1. IsVisit(v, root)
  BY VisitExists, VisitIs
<1> HIDE DEF v
<1>2. \A x \in Tree!Walk, q \in Tree!Node : v[x][q] = OneVisit(v, root, x, q)
  BY <1>1 DEF IsVisit
<1>3. 0 \in T
  <2>1. ASSUME NEW x \in Left(0), NEW q \in Tree!Node
        PROVE  v[x][q] \in From(x)
    <3>1. x \in Tree!Walk /\ q \in x.head
      BY LeftProperties
    <3>2. OneVisit(v, root, x, q) \in From(x)
      BY <3>1 DEF OneVisit, From, Tree!Walk
    <3> QED
      BY <1>2, <3>1, <3>2
  <2> QED
    BY <2>1, Jobs
<1>4. ASSUME NEW k \in 1 .. N, k - 1 \in T
      PROVE  k \in T
  <2>0. k \in Nat \ {0} /\ k \in 0 .. N
    BY Jobs
  <2>1. \A x \in Left(k - 1), q \in Tree!Node : v[x][q] \in From(x) /\ v[x][q] = v[x][q]
    BY <1>4
  <2>2. ASSUME NEW x \in Left(k), NEW q \in Tree!Node
        PROVE  v[x][q] \in From(x)
    <3>1. x \in Tree!Walk
      BY <2>0, LeftProperties
    <3>2. OneVisit(v, root, x, q) \in From(x)
      BY <2>0, <2>1, OneVisitBelow
    <3> QED
      BY <1>2, <3>1, <3>2
  <2> QED
    BY <2>0, <2>2
<1>5. N \in T
  <2>1. N \in Nat
    BY Jobs
  <2> HIDE DEF T, N
  <2> QED
    BY <1>3, <1>4, <2>1, GoingUp
<1> QED
  BY <1>2, <1>5, LeftProperties DEF v

(* What a call for p with the list w returns, if S holds p and every job   *)
(* that depends on one of S.                                               *)
Found(S, root, w, p, u) ==
  /\ u \in From(w)
  /\ u.head \ w.head \subseteq S
  /\ w.cyclic => u.cyclic
  /\ p = root /\ w.head # {} => u.cyclic
  /\ u.cyclic /\ ~w.cyclic =>
       (p = root /\ w.head # {}) \/ \E x \in S : root \in Tree!depending_pkgs(x)
  /\ ~u.cyclic =>
       /\ p \in u.head
       /\ \A x \in u.head \ w.head :
            Tree!depending_pkgs(x) \subseteq u.head /\ root \notin Tree!depending_pkgs(x)

(* The same for the calls for the dependents of p, with the list b.        *)
LoopFound(S, root, b, p, u) ==
  /\ u \in From(b)
  /\ u.head \ b.head \subseteq S
  /\ u.cyclic => \E x \in S : root \in Tree!depending_pkgs(x)
  /\ ~u.cyclic =>
       /\ Tree!depending_pkgs(p) \subseteq u.head
       /\ root \notin Tree!depending_pkgs(p)
       /\ \A x \in u.head \ b.head :
            Tree!depending_pkgs(x) \subseteq u.head /\ root \notin Tree!depending_pkgs(x)

LEMMA LoopFinds ==
  ASSUME NEW root, NEW S \in SUBSET Tree!Node,
         \A x \in S : Tree!depending_pkgs(x) \subseteq S,
         NEW v, NEW p \in S, NEW b \in Tree!Walk, ~b.cyclic, p \in b.head,
         \A x \in From(b), q \in S : Found(S, root, x, q, v[x][q])
  PROVE  LoopFound(S, root, b, p, VisitAll(v, b, Dependents(p)))
<1> DEFINE D(x) == Tree!depending_pkgs(x)
           s == Dependents(p)
           N == Len(s)
<1>1. /\ s \in Seq(Tree!Node) /\ N \in Nat
      /\ \A k \in 1 .. N : s[k] \in D(p)
      /\ \A q \in D(p) : \E k \in 1 .. N : s[k] = q
  BY DependentsList
<1>2. D(p) \subseteq S /\ b \in From(b)
  BY DEF From
<1>3. s \in Seq(S)
  BY <1>1, <1>2
<1> HIDE DEF D, s
<1>4. \A x \in From(b), q \in S : v[x][q] \in From(b)
  <2> SUFFICES ASSUME NEW x \in From(b), NEW q \in S
               PROVE  v[x][q] \in From(b)
    OBVIOUS
  <2>1. v[x][q] \in From(x)
    BY DEF Found
  <2> QED
    BY <2>1 DEF From
<1>5. PICK t \in [0 .. N -> From(b)] : IsTrace(t, v, b, s) /\ VisitAll(v, b, s) = t[N]
  BY <1>2, <1>3, <1>4, VisitAllTrace
<1> DEFINE found(k) ==
             /\ t[k].head \ b.head \subseteq S
             /\ t[k].cyclic => \E x \in S : root \in D(x)
             /\ ~t[k].cyclic =>
                  /\ \A m \in 1 .. k : s[m] \in t[k].head /\ s[m] # root
                  /\ \A x \in t[k].head \ b.head : D(x) \subseteq t[k].head /\ root \notin D(x)
           T == {k \in 0 .. N : found(k)}
<1>6. 0 \in T
  <2>1. t[0] = b /\ 0 \in 0 .. N /\ 1 .. 0 = {}
    BY <1>1, <1>5 DEF IsTrace
  <2>2. found(0)
    BY <2>1
  <2> QED
    BY <2>1, <2>2
<1>7. ASSUME NEW k \in 1 .. N, k - 1 \in T
      PROVE  k \in T
  <2> DEFINE x == t[k - 1]
             q == s[k]
             y == t[k]
  <2>1. /\ k \in 0 .. N /\ k - 1 \in 0 .. N
        /\ \A m \in 1 .. k : m \in 1 .. k - 1 \/ m = k
    BY <1>1
  <2>2. /\ x \in From(b) /\ y \in From(b) /\ q \in S /\ q \in D(p) /\ y = v[x][q]
    BY <1>1, <1>2, <1>5, <2>1 DEF IsTrace
  <2>3. Found(S, root, x, q, y)
    BY <2>2
  <2>4. found(k - 1)
    BY <1>7
  <2>5. x \in Tree!Walk /\ y \in Tree!Walk /\ x.head \subseteq y.head /\ b.head \subseteq x.head /\ x.head # {}
    BY <2>2, <2>3 DEF From, Found
  <2>6. y.head \ b.head \subseteq S
    BY <2>3, <2>4 DEF Found
  <2>7. y.cyclic => \E z \in S : root \in D(z)
    <3>1. CASE x.cyclic
      BY <2>4, <3>1
    <3>2. CASE ~x.cyclic /\ q = root
      BY <2>2, <3>2
    <3>3. CASE ~x.cyclic /\ q # root
      BY <2>3, <3>3 DEF Found, D
    <3> QED
      BY <3>1, <3>2, <3>3
  <2>8. ASSUME ~y.cyclic
        PROVE  /\ \A m \in 1 .. k : s[m] \in y.head /\ s[m] # root
               /\ \A z \in y.head \ b.head : D(z) \subseteq y.head /\ root \notin D(z)
    <3>1. ~x.cyclic
      BY <2>3, <2>8 DEF Found
    <3>2. q \in y.head /\ q # root
      BY <2>3, <2>5, <2>8 DEF Found
    <3>3. \A m \in 1 .. k : s[m] \in y.head /\ s[m] # root
      BY <2>1, <2>4, <2>5, <3>1, <3>2
    <3>4. \A z \in y.head \ x.head : D(z) \subseteq y.head /\ root \notin D(z)
      BY <2>3, <2>8 DEF Found, D
    <3>5. \A z \in x.head \ b.head : D(z) \subseteq y.head /\ root \notin D(z)
      BY <2>4, <2>5, <3>1
    <3> QED
      BY <3>3, <3>4, <3>5
  <2>9. found(k)
    BY <2>6, <2>7, <2>8
  <2> HIDE DEF found
  <2> QED
    BY <2>1, <2>9
<1>8. N \in T
  <2> HIDE DEF T, N
  <2> QED
    BY <1>1, <1>6, <1>7, GoingUp
<1>9. found(N) /\ t[N] \in From(b)
  BY <1>1, <1>8
<1>10. ~t[N].cyclic => D(p) \subseteq t[N].head /\ root \notin D(p)
  BY <1>1, <1>9
<1> QED
  BY <1>5, <1>9, <1>10 DEF s, D, LoopFound

(* A call finds what depends on p and is not on the list, and nothing      *)
(* else; it finds a way back to the root if there is one.                  *)
LEMMA OneVisitFinds ==
  ASSUME NEW root, NEW S \in SUBSET Tree!Node,
         \A x \in S : Tree!depending_pkgs(x) \subseteq S,
         NEW v, NEW w \in Tree!Walk, NEW p \in S,
         p \notin w.head =>
           \A x \in From(Seen(w, p)), q \in S : Found(S, root, x, q, v[x][q])
  PROVE  Found(S, root, w, p, OneVisit(v, root, w, p))
<1>0. p \in Tree!Node
  OBVIOUS
<1>1. CASE w.cyclic \/ (p = root /\ w.head # {})
  <2> DEFINE u == [w EXCEPT !.cyclic = TRUE]
  <2>1. OneVisit(v, root, w, p) = u
    BY <1>1 DEF OneVisit
  <2>2. u \in Tree!Walk /\ u.head = w.head /\ u.cyclic = TRUE
    BY DEF Tree!Walk
  <2> HIDE DEF u
  <2> QED
    BY <1>1, <2>1, <2>2 DEF Found, From
<1>2. CASE ~(w.cyclic \/ (p = root /\ w.head # {})) /\ p \in w.head
  <2>1. OneVisit(v, root, w, p) = w
    BY <1>2 DEF OneVisit
  <2> QED
    BY <1>2, <2>1 DEF Found, From
<1>3. CASE ~(w.cyclic \/ (p = root /\ w.head # {})) /\ p \notin w.head
  <2> DEFINE b == Seen(w, p)
             u == VisitAll(v, b, Dependents(p))
  <2>1. OneVisit(v, root, w, p) = u
    BY <1>3 DEF OneVisit
  <2>2. b \in Tree!Walk /\ b.head = w.head \cup {p} /\ ~b.cyclic
    BY <1>0, <1>3, LeftProperties
  <2> HIDE DEF b
  <2>3. LoopFound(S, root, b, p, u)
    <3>1. \A x \in From(b), q \in S : Found(S, root, x, q, v[x][q])
      BY <1>3 DEF b
    <3>2. p \in b.head
      BY <2>2
    <3> QED
      BY <2>2, <3>1, <3>2, LoopFinds
  <2> HIDE DEF u
  <2>4. u \in From(w) /\ w.head \cup {p} \subseteq u.head
    BY <2>2, <2>3 DEF From, LoopFound
  <2>5. \A x \in u.head \ w.head : x = p \/ x \in u.head \ b.head
    BY <2>2
  <2> QED
    BY <1>3, <2>1, <2>3, <2>4, <2>5 DEF Found, LoopFound
<1> QED
  BY <1>1, <1>2, <1>3

LEMMA VisitFinds ==
  ASSUME NEW root, NEW S \in SUBSET Tree!Node,
         \A x \in S : Tree!depending_pkgs(x) \subseteq S,
         NEW w \in Tree!Walk, NEW p \in S
  PROVE  Found(S, root, w, p, Tree!compute_tree_depth_rec(root)[w][p])
<1> DEFINE v == Tree!compute_tree_depth_rec(root)
           N == Len(jobs)
           T == {k \in 0 .. N : \A x \in Left(k), q \in S : Found(S, root, x, q, v[x][q])}
<1> HIDE DEF v
<1>1. \A x \in Tree!Walk, q \in Tree!Node : v[x][q] = OneVisit(v, root, x, q)
  BY VisitWorks DEF v
<1>2. 0 \in T
  <2>1. ASSUME NEW x \in Left(0), NEW q \in S
        PROVE  Found(S, root, x, q, v[x][q])
    <3>1. x \in Tree!Walk /\ q \in Tree!Node /\ q \in x.head
      BY LeftProperties
    <3>2. Found(S, root, x, q, OneVisit(v, root, x, q))
      BY <3>1, OneVisitFinds
    <3> QED
      BY <1>1, <3>1, <3>2
  <2> QED
    BY <2>1, Jobs
<1>3. ASSUME NEW k \in 1 .. N, k - 1 \in T
      PROVE  k \in T
  <2>0. k \in Nat \ {0} /\ k \in 0 .. N /\ k - 1 \in Nat
    BY Jobs
  <2>1. ASSUME NEW x \in Left(k), NEW q \in S
        PROVE  Found(S, root, x, q, v[x][q])
    <3>1. x \in Tree!Walk /\ q \in Tree!Node
      BY <2>0, LeftProperties
    <3>2. ASSUME q \notin x.head
          PROVE  \A y \in From(Seen(x, q)), z \in S : Found(S, root, y, z, v[y][z])
      <4>1. From(Seen(x, q)) \subseteq Left(k - 1)
        BY <2>0, <3>1, <3>2, LeftProperties
      <4> QED
        BY <1>3, <4>1
    <3>3. Found(S, root, x, q, OneVisit(v, root, x, q))
      BY <3>1, <3>2, OneVisitFinds
    <3> QED
      BY <1>1, <3>1, <3>3
  <2> QED
    BY <2>0, <2>1
<1>4. N \in T
  <2>1. N \in Nat
    BY Jobs
  <2> HIDE DEF T, N
  <2> QED
    BY <1>2, <1>3, <2>1, GoingUp
<1> QED
  BY <1>4, LeftProperties DEF v

(* What is needed by p, one step further at a time.                        *)
Nearer(X) == X \cup UNION {deps[q] : q \in X}

IsWithin(f, p) ==
  f = [k \in 1 .. Len(jobs) |-> IF k = 1 THEN deps[p] ELSE Nearer(f[k - 1])]

LEMMA NeedsIs ==
  ASSUME NEW p
  PROVE  Tree!needs(p) = (CHOOSE f : IsWithin(f, p))[Len(jobs)]
BY Zenon DEF Tree!needs, IsWithin, Nearer

LEMMA WithinExists ==
  ASSUME deps \in [Tree!Node -> SUBSET Tree!Node], NEW p \in Tree!Node
  PROVE  \E f : IsWithin(f, p)
<1> DEFINE N == Len(jobs)
           F == [k \in 1 .. N |-> [X \in SUBSET Tree!Node |-> Nearer(X)]]
<1>1. N \in Nat /\ \A k \in 1 .. N : k = 1 \/ k - 1 \in 1 .. N
  BY Jobs
<1>2. \A X \in SUBSET Tree!Node : Nearer(X) \in SUBSET Tree!Node
  BY DEF Nearer
<1>3. F \in [1 .. N -> [SUBSET Tree!Node -> SUBSET Tree!Node]]
  BY <1>2
<1>4. deps[p] \in SUBSET Tree!Node
  OBVIOUS
<1>5. PICK g \in [SUBSET (1 .. N) -> SUBSET Tree!Node] : IsFold(g, deps[p], F, N)
  <2> HIDE DEF N, F
  <2> QED
    BY <1>1, <1>3, <1>4, FoldExists
<1> DEFINE f == [k \in 1 .. N |-> g[1 .. k - 1]]
<1> HIDE DEF N
<1>6. ASSUME NEW k \in 1 .. N
      PROVE  f[k] = IF k = 1 THEN deps[p] ELSE Nearer(f[k - 1])
  <2>1. CASE k = 1
    <3>1. 1 .. k - 1 = {} /\ {} \in SUBSET (1 .. N)
      BY <2>1
    <3>2. g[{}] = deps[p]
      BY <1>5, <3>1 DEF IsFold
    <3>3. f[k] = g[1 .. k - 1]
      OBVIOUS
    <3> QED
      BY <2>1, <3>1, <3>2, <3>3
  <2>2. CASE k # 1
    <3> DEFINE m == k - 1
    <3>1. m \in 1 .. N
      BY <1>1, <2>2
    <3>2. /\ (1 .. m) \in SUBSET (1 .. N) /\ (1 .. m) # {}
          /\ Max(1 .. m) = m /\ (1 .. m) \ {m} = 1 .. m - 1
      <4> HIDE DEF m
      <4> QED
        BY <1>1, <3>1, OneMore
    <3>3. g[1 .. m] = F[Max(1 .. m)][g[(1 .. m) \ {Max(1 .. m)}]]
      <4> HIDE DEF m, F
      <4> QED
        BY <1>5, <3>2 DEF IsFold
    <3>4. g[1 .. m] = F[m][g[1 .. m - 1]]
      BY <3>2, <3>3, Zenon
    <3>5. g[1 .. m - 1] \in SUBSET Tree!Node
      <4>1. (1 .. m - 1) \in SUBSET (1 .. N)
        BY <3>1, <3>2
      <4> HIDE DEF m
      <4> QED
        BY <4>1
    <3>6. g[1 .. m] = Nearer(g[1 .. m - 1])
      <4> HIDE DEF m
      <4> QED
        BY <3>1, <3>4, <3>5
    <3>7. f[k] = g[1 .. m] /\ f[k - 1] = g[1 .. m - 1]
      BY <3>1
    <3> QED
      BY <2>2, <3>6, <3>7
  <2> QED
    BY <2>1, <2>2
<1>7. f = [k \in 1 .. N |-> IF k = 1 THEN deps[p] ELSE Nearer(f[k - 1])]
  <2> HIDE DEF f
  <2>1. f = [k \in 1 .. N |-> f[k]]
    BY DEF f
  <2> QED
    BY <1>6, <2>1
<1> QED
  BY <1>7 DEF IsWithin, N

(* What p needs is the least set with its dependencies and theirs: the     *)
(* sets grow until they do.                                                *)
LEMMA NeedsLeast ==
  ASSUME deps \in [Tree!Node -> SUBSET Tree!Node], NEW p \in Tree!Node
  PROVE  /\ Tree!needs(p) \subseteq Tree!Node
         /\ deps[p] \subseteq Tree!needs(p)
         /\ \A q \in Tree!needs(p) : deps[q] \subseteq Tree!needs(p)
         /\ \A S : deps[p] \subseteq S /\ (\A q \in S \cap Tree!Node : deps[q] \subseteq S) =>
              Tree!needs(p) \subseteq S
<1> DEFINE N == Len(jobs)
           f == CHOOSE g : IsWithin(g, p)
<1>1. IsWithin(f, p) /\ Tree!needs(p) = f[N]
  BY WithinExists, NeedsIs
<1> HIDE DEF f
<1>2. /\ N \in Nat \ {0}
      /\ N - 1 \in Nat /\ (N - 1) + 1 = N
      /\ \A k \in 1 .. N - 1 : k \in 1 .. N /\ k + 1 \in 1 .. N /\ k + 1 # 1 /\ (k + 1) - 1 = k
  BY Jobs
<1>3. f[1] = deps[p] /\ \A k \in 1 .. N - 1 : f[k + 1] = Nearer(f[k])
  BY <1>1, <1>2 DEF IsWithin
<1> DEFINE closed(X) == \A q \in X : deps[q] \subseteq X
           good(k) == /\ f[k + 1] \subseteq Tree!Node /\ deps[p] \subseteq f[k + 1]
                      /\ closed(f[k + 1]) \/ Cardinality(f[k + 1]) >= k + 1
           T == {k \in 0 .. N - 1 : good(k)}
<1>4. \A X \in SUBSET Tree!Node : IsFiniteSet(X) /\ Cardinality(X) \in Nat
  BY Jobs, FS_Subset, FS_CardinalityType
<1>5. 0 \in T
  <2>1. f[0 + 1] = deps[p]
    BY <1>3
  <2>2. closed(deps[p]) \/ Cardinality(deps[p]) >= 1
    <3>1. deps[p] = {} \/ Cardinality(deps[p]) # 0
      BY <1>4, FS_EmptySet
    <3> QED
      BY <1>4, <3>1
  <2>3. good(0)
    BY <2>1, <2>2
  <2> QED
    BY <1>2, <2>3
<1>6. ASSUME NEW k \in 1 .. N - 1, k - 1 \in T
      PROVE  k \in T
  <2> DEFINE X == f[k]
             Y == f[k + 1]
  <2>1. X \subseteq Tree!Node /\ deps[p] \subseteq X /\ (closed(X) \/ Cardinality(X) >= k)
    <3>1. (k - 1) + 1 = k
      BY <1>2
    <3>2. good(k - 1)
      BY <1>6
    <3> QED
      BY <3>1, <3>2
  <2>2. Y = X \cup UNION {deps[q] : q \in X}
    BY <1>3 DEF Nearer
  <2> HIDE DEF X, Y
  <2>3. Y \subseteq Tree!Node /\ deps[p] \subseteq Y /\ X \subseteq Y
    BY <2>1, <2>2
  <2>4. CASE closed(X)
    <3>1. Y = X
      BY <2>2, <2>4
    <3>2. closed(Y)
      BY <2>4, <3>1
    <3>3. good(k)
      BY <2>3, <3>2 DEF Y
    <3> QED
      BY <1>2, <3>3
  <2>5. CASE ~closed(X)
    <3>1. Y # X
      BY <2>2, <2>5
    <3>2. Cardinality(X) # Cardinality(Y) /\ Cardinality(X) <= Cardinality(Y)
      BY <1>4, <2>3, <3>1, FS_Subset
    <3>3. Cardinality(X) \in Nat /\ Cardinality(Y) \in Nat
      BY <1>4, <2>1, <2>3
    <3>4. Cardinality(Y) >= k + 1
      BY <2>1, <2>5, <3>2, <3>3
    <3>5. good(k)
      BY <2>3, <3>4 DEF Y
    <3> QED
      BY <1>2, <3>5
  <2> QED
    BY <2>4, <2>5
<1>7. N - 1 \in T
  <2> HIDE DEF T, N
  <2> QED
    BY <1>2, <1>5, <1>6, GoingUp
<1>8. /\ f[N] \subseteq Tree!Node /\ deps[p] \subseteq f[N]
      /\ closed(f[N]) \/ Cardinality(f[N]) >= N
  BY <1>2, <1>7
<1>9. closed(f[N])
  <2>1. CASE Cardinality(f[N]) >= N
    <3>1. Cardinality(Tree!Node) = N /\ Cardinality(f[N]) <= Cardinality(Tree!Node)
      BY <1>8, Jobs, FS_Subset
    <3>2. Cardinality(f[N]) = Cardinality(Tree!Node)
      BY <1>4, <1>8, <2>1, <3>1
    <3>3. f[N] = Tree!Node
      BY <1>8, <3>2, Jobs, FS_Subset
    <3> QED
      BY <3>3
  <2> QED
    BY <1>8, <2>1
<1>10. ASSUME NEW S, deps[p] \subseteq S, \A q \in S \cap Tree!Node : deps[q] \subseteq S
       PROVE  f[N] \subseteq S
  <2> DEFINE U == {k \in 0 .. N - 1 : f[k + 1] \subseteq S \cap Tree!Node}
  <2>1. 0 \in U
    <3>1. f[0 + 1] = deps[p]
      BY <1>3
    <3> QED
      BY <1>2, <1>10, <3>1
  <2>2. ASSUME NEW k \in 1 .. N - 1, k - 1 \in U
        PROVE  k \in U
    <3>1. (k - 1) + 1 = k /\ k \in 0 .. N - 1
      BY <1>2
    <3>2. f[k] \subseteq S \cap Tree!Node
      BY <2>2, <3>1
    <3>3. f[k + 1] = f[k] \cup UNION {deps[q] : q \in f[k]}
      BY <1>3 DEF Nearer
    <3>4. f[k + 1] \subseteq S \cap Tree!Node
      BY <1>10, <3>2, <3>3
    <3> QED
      BY <3>1, <3>4
  <2>3. N - 1 \in U
    <3> HIDE DEF U, N
    <3> QED
      BY <1>2, <2>1, <2>2, GoingUp
  <2> QED
    BY <1>2, <2>3
<1> QED
  BY <1>1, <1>8, <1>9, <1>10

(* What a dependency needs is needed, too.                                 *)
LEMMA NeedsTransitive ==
  ASSUME deps \in [Tree!Node -> SUBSET Tree!Node],
         NEW p \in Tree!Node, NEW q \in deps[p]
  PROVE  Tree!needs(q) \subseteq Tree!needs(p) /\ q \in Tree!needs(p)
<1>1. q \in Tree!Node
  OBVIOUS
<1>2. /\ q \in Tree!needs(p)
      /\ \A x \in Tree!needs(p) : deps[x] \subseteq Tree!needs(p)
  BY NeedsLeast
<1>3. deps[q] \subseteq Tree!needs(p)
  BY <1>2
<1>4. \A x \in Tree!needs(p) \cap Tree!Node : deps[x] \subseteq Tree!needs(p)
  BY <1>2
<1> DEFINE S == Tree!needs(p)
<1>5. deps[q] \subseteq S /\ \A x \in S \cap Tree!Node : deps[x] \subseteq S
  BY <1>3, <1>4
<1> HIDE DEF S
<1>6. Tree!needs(q) \subseteq S
  BY <1>1, <1>5, NeedsLeast
<1> QED
  BY <1>2, <1>6 DEF S

(* The packages that need p.                                               *)
NeededBy(p) == {q \in Tree!Node : p \in Tree!needs(q)}

(* compute_tree_depth with an empty list.                                  *)
WalkFrom(p) ==
  Tree!compute_tree_depth_rec(p)[[head |-> {}, cyclic |-> FALSE]][p]

(* It finds p and the packages that need it, or a cycle of p.              *)
LEMMA WalkFinds ==
  ASSUME deps \in [Tree!Node -> SUBSET Tree!Node], NEW p \in Tree!Node
  PROVE  /\ WalkFrom(p).cyclic \in BOOLEAN /\ WalkFrom(p).head \subseteq Tree!Node
         /\ WalkFrom(p).cyclic => p \in Tree!needs(p)
         /\ ~WalkFrom(p).cyclic =>
              p \notin Tree!needs(p) /\ WalkFrom(p).head = {p} \cup NeededBy(p)
<1> DEFINE S == {p} \cup NeededBy(p)
           w == [head |-> {}, cyclic |-> FALSE]
           D(x) == Tree!depending_pkgs(x)
<1>1. S \in SUBSET Tree!Node /\ p \in S
  BY DEF NeededBy
<1>2. \A x \in Tree!Node, q \in Tree!Node : q \in D(x) <=> x \in deps[q]
  BY DEF Tree!depending_pkgs
<1>3. ASSUME NEW x \in S PROVE D(x) \subseteq S
  <2> SUFFICES ASSUME NEW q \in D(x) PROVE q \in S
    OBVIOUS
  <2>1. x \in Tree!Node /\ q \in Tree!Node /\ x \in deps[q]
    BY <1>1 DEF Tree!depending_pkgs
  <2>2. Tree!needs(x) \subseteq Tree!needs(q) /\ x \in Tree!needs(q)
    BY <2>1, NeedsTransitive
  <2>3. p \in Tree!needs(q)
    BY <2>2 DEF NeededBy
  <2> QED
    BY <2>1, <2>3 DEF NeededBy
<1>4. w \in Tree!Walk /\ w.head = {} /\ ~w.cyclic
  BY DEF Tree!Walk
<1> DEFINE u == WalkFrom(p)
<1>5. u = Tree!compute_tree_depth_rec(p)[w][p]
  BY DEF WalkFrom
<1> HIDE DEF S, u, w
<1>6. Found(S, p, w, p, u)
  BY <1>1, <1>3, <1>4, <1>5, VisitFinds
<1>7. u \in Tree!Walk /\ u.head \subseteq S /\ u.head \subseteq Tree!Node
  BY <1>1, <1>4, <1>6 DEF Found, From
<1>8. ASSUME u.cyclic PROVE p \in Tree!needs(p)
  <2>1. PICK x \in S : p \in D(x)
    BY <1>4, <1>6, <1>8 DEF Found
  <2>2. x \in Tree!Node /\ x \in deps[p]
    BY <1>1, <1>2, <2>1
  <2>3. Tree!needs(x) \subseteq Tree!needs(p) /\ x \in Tree!needs(p)
    BY <2>2, NeedsTransitive
  <2> QED
    BY <2>3 DEF S, NeededBy
<1>9. ASSUME ~u.cyclic PROVE p \notin Tree!needs(p) /\ u.head = S
  <2>1. /\ p \in u.head
        /\ \A x \in u.head : D(x) \subseteq u.head /\ p \notin D(x)
    BY <1>4, <1>6, <1>9 DEF Found
  <2> DEFINE C == Tree!Node \ u.head
  <2>2. ASSUME NEW q \in C PROVE deps[q] \subseteq C
    BY <1>2, <1>7, <2>1
  <2>3. deps[p] \subseteq C
    BY <1>2, <1>7, <2>1
  <2>4. \A q \in C \cap Tree!Node : deps[q] \subseteq C
    BY <2>2
  <2>5. Tree!needs(p) \subseteq C
    <3> HIDE DEF C
    <3> QED
      BY <2>3, <2>4, NeedsLeast
  <2>6. ASSUME NEW q \in NeededBy(p), q \notin u.head
        PROVE  FALSE
    <3>1. q \in Tree!Node /\ p \in Tree!needs(q) /\ q \in C
      BY <2>6 DEF NeededBy
    <3>2. deps[q] \subseteq C
      BY <2>2, <3>1
    <3>3. Tree!needs(q) \subseteq C
      <4> HIDE DEF C
      <4> QED
        BY <2>4, <3>1, <3>2, NeedsLeast
    <3> QED
      BY <2>1, <3>1, <3>3
  <2>7. p \notin Tree!needs(p)
    BY <2>1, <2>5
  <2> QED
    BY <1>7, <2>1, <2>6, <2>7 DEF S
<1>10. u.cyclic \in BOOLEAN
  BY <1>7 DEF Tree!Walk
<1> QED
  BY <1>7, <1>8, <1>9, <1>10 DEF u, S

LEMMA NeedsStay ==
  ASSUME deps' = deps, NEW p
  PROVE  Tree!needs(p)' = Tree!needs(p)
BY DEF Tree!needs

(* The depths that are computed are the sizes of the subtrees, and none of *)
(* these packages needs itself.                                            *)
TreeInv ==
  /\ deps \in [Tree!Node -> SUBSET Tree!Node]
  /\ i \in 1 .. Len(jobs) + 1
  /\ depth \in [Tree!Node -> Nat]
  /\ exited \in BOOLEAN
  /\ exited => \E p \in Tree!Node : p \in Tree!needs(p)
  /\ ~exited => \A p \in 1 .. i - 1 :
       p \notin Tree!needs(p) /\ depth[p] = 1 + Cardinality(NeededBy(p))

LEMMA InitTreeInv == InitAll => TreeInv
<1> SUFFICES ASSUME InitAll PROVE TreeInv
  OBVIOUS
<1>1. /\ deps \in [Tree!Node -> SUBSET Tree!Node]
      /\ i = 1 /\ depth = [p \in Tree!Node |-> 0] /\ exited = FALSE
  BY DEF InitAll, Tree!Init
<1>2. 1 .. i - 1 = {} /\ i \in 1 .. Len(jobs) + 1
  BY <1>1, Jobs
<1>3. depth \in [Tree!Node -> Nat]
  BY <1>1
<1> QED
  BY <1>1, <1>2, <1>3 DEF TreeInv

LEMMA SameTree ==
  ASSUME TreeInv, UNCHANGED treeVars
  PROVE  TreeInv'
<1>1. deps' = deps /\ i' = i /\ depth' = depth /\ exited' = exited
  BY DEF treeVars
<1>2. \A p : Tree!needs(p)' = Tree!needs(p)
  BY <1>1, NeedsStay
<1>3. \A p : NeededBy(p)' = NeededBy(p)
  BY <1>2 DEF NeededBy, Tree!Node
<1> QED
  BY <1>1, <1>2, <1>3 DEF TreeInv, Tree!Node

LEMMA NextTreeInv ==
  ASSUME TreeInv, NextAll
  PROVE  TreeInv'
<1>1. CASE ComputeDepth
  <2> DEFINE walk == WalkFrom(i)
  <2>1. /\ ~exited /\ i <= Len(jobs)
        /\ exited' = walk.cyclic
        /\ depth' = [depth EXCEPT ![i] = Cardinality(walk.head)]
        /\ i' = i + 1
        /\ deps' = deps
    BY <1>1, SameTreeOperators DEF ComputeDepth, Tree!compute_tree_depth, WalkFrom
  <2>2. i \in Tree!Node /\ i \in Nat /\ Len(jobs) \in Nat
    BY <2>1, Jobs DEF TreeInv
  <2>3. /\ walk.cyclic \in BOOLEAN /\ walk.head \subseteq Tree!Node
        /\ walk.cyclic => i \in Tree!needs(i)
        /\ ~walk.cyclic => i \notin Tree!needs(i) /\ walk.head = {i} \cup NeededBy(i)
    BY <2>2, WalkFinds DEF TreeInv
  <2> HIDE DEF walk
  <2>4. \A p : Tree!needs(p)' = Tree!needs(p)
    BY <2>1, NeedsStay
  <2>5. \A p : NeededBy(p)' = NeededBy(p)
    BY <2>4 DEF NeededBy, Tree!Node
  <2>6. CASE walk.cyclic
    <3>1. depth' \in [Tree!Node -> Nat]
      <4>1. Cardinality(walk.head) \in Nat
        BY <2>3, Jobs, FS_Subset, FS_CardinalityType
      <4> QED
        BY <2>1, <2>2, <4>1 DEF TreeInv
    <3> QED
      BY <2>1, <2>2, <2>3, <2>4, <2>6, <3>1 DEF TreeInv, Tree!Node
  <2>7. CASE ~walk.cyclic
    <3>1. /\ IsFiniteSet(NeededBy(i)) /\ Cardinality(NeededBy(i)) \in Nat
      BY Jobs, FS_Subset, FS_CardinalityType DEF NeededBy
    <3>2. i \notin NeededBy(i)
      BY <2>3, <2>7 DEF NeededBy
    <3>3. Cardinality(walk.head) = 1 + Cardinality(NeededBy(i))
      <4>1. Cardinality(NeededBy(i) \cup {i}) = Cardinality(NeededBy(i)) + 1
        BY <3>1, <3>2, FS_AddElement
      <4>2. walk.head = NeededBy(i) \cup {i}
        BY <2>3, <2>7
      <4> QED
        BY <3>1, <4>1, <4>2
    <3>4. depth' \in [Tree!Node -> Nat]
      BY <2>1, <2>2, <3>1, <3>3 DEF TreeInv
    <3>5. ASSUME NEW p \in 1 .. i' - 1
          PROVE  p \notin Tree!needs(p)' /\ depth'[p] = 1 + Cardinality(NeededBy(p)')
      <4>1. p = i \/ (p \in 1 .. i - 1 /\ p # i)
        BY <2>1, <2>2
      <4>2. CASE p = i
        <5>1. depth'[i] = Cardinality(walk.head)
          BY <2>1, <2>2 DEF TreeInv
        <5> QED
          BY <2>3, <2>4, <2>5, <2>7, <3>3, <4>2, <5>1
      <4>3. CASE p \in 1 .. i - 1 /\ p # i
        <5>1. p \in Tree!Node
          BY <2>1, <2>2, <4>3, Jobs
        <5>2. depth'[p] = depth[p]
          BY <2>1, <4>3, <5>1 DEF TreeInv
        <5> QED
          BY <2>1, <2>4, <2>5, <4>3, <5>2 DEF TreeInv
      <4> QED
        BY <4>1, <4>2, <4>3
    <3>6. i' \in 1 .. Len(jobs) + 1
      BY <2>1, <2>2
    <3>7. ~exited' /\ exited' \in BOOLEAN
      BY <2>1, <2>3, <2>7
    <3>8. deps' \in [Tree!Node -> SUBSET Tree!Node]
      BY <2>1 DEF TreeInv
    <3> QED
      BY <3>4, <3>5, <3>6, <3>7, <3>8 DEF TreeInv, Tree!Node
  <2> QED
    BY <2>6, <2>7
<1>2. CASE UNCHANGED treeVars
  BY <1>2, SameTree
<1> QED
  BY <1>1, <1>2 DEF NextAll, Build

(* On the graph of the scan a job is reached from another in the table     *)
(* just if it needs it by the places in the array.                         *)
LEMMA ReachedIsNeeded ==
  ASSUME deps = scan, deps \in [Tree!Node -> SUBSET Tree!Node],
         NEW p \in Tree!Node, NEW q \in Tree!Node
  PROVE  jobs[q] \in Reached({jobs[p]}, Pkg) <=> p \in Tree!needs(q)
<1> DEFINE R == Reached({jobs[p]}, Pkg)
<1>1. /\ \A x \in Tree!Node : jobs[x] \in Pkg
      /\ \A e \in Pkg : \E x \in Tree!Node : e = jobs[x]
      /\ \A x \in Tree!Node, y \in Tree!Node : jobs[x] = jobs[y] => x = y
  <2>1. jobs \in Seq(Pkg) /\ ToSet(jobs) = Pkg /\ DOMAIN jobs = Tree!Node
    BY JobsAssumption, Jobs
  <2> QED
    BY <2>1, JobsAssumption, Jobs DEF ToSet, IsInjective
<1>2. \A x \in Tree!Node, y \in Tree!Node : y \in deps[x] <=> jobs[y] \in Deps[jobs[x]]
  BY Jobs DEF scan
<1>3. ASSUME jobs[q] \notin R PROVE p \notin Tree!needs(q)
  <2> DEFINE C == {x \in Tree!Node : jobs[x] \notin R /\ x # p}
  <2>1. ASSUME NEW x \in Tree!Node, jobs[x] \notin R
        PROVE  deps[x] \subseteq C
    <3>1. Deps[jobs[x]] \cap ({jobs[p]} \cup R) = {}
      BY <1>1, <2>1, ReachedClosed DEF Closed
    <3>2. \A y \in deps[x] : y \in Tree!Node /\ jobs[y] \notin R /\ y # p
      BY <1>2, <3>1
    <3> QED
      BY <3>2
  <2>2. deps[q] \subseteq C /\ \A x \in C \cap Tree!Node : deps[x] \subseteq C
    BY <1>3, <2>1
  <2>3. Tree!needs(q) \subseteq C
    <3> HIDE DEF C
    <3> QED
      BY <2>2, NeedsLeast
  <2> QED
    BY <2>3
<1>4. ASSUME jobs[q] \in R PROVE p \in Tree!needs(q)
  <2> DEFINE S == {jobs[y] : y \in NeededBy(p)}
  <2>1. S \in SUBSET Pkg
    BY <1>1 DEF NeededBy
  <2>2. ASSUME NEW e \in Pkg, Deps[e] \cap ({jobs[p]} \cup S) # {}
        PROVE  e \in S
    <3>1. PICK y \in Tree!Node : e = jobs[y]
      BY <1>1
    <3>2. PICK z \in Tree!Node : jobs[z] \in Deps[e] /\ (z = p \/ z \in NeededBy(p))
      BY <2>2 DEF NeededBy
    <3>3. z \in deps[y]
      BY <1>2, <3>1, <3>2
    <3>4. Tree!needs(z) \subseteq Tree!needs(y) /\ z \in Tree!needs(y)
      BY <3>3, NeedsTransitive
    <3>5. y \in NeededBy(p)
      BY <3>2, <3>4 DEF NeededBy
    <3> QED
      BY <3>1, <3>5
  <2>3. R \subseteq S
    <3>1. Closed(S, {jobs[p]}, Pkg)
      BY <2>2 DEF Closed
    <3> HIDE DEF S
    <3> QED
      BY <2>1, <3>1, ReachedLeast
  <2>4. PICK y \in NeededBy(p) : jobs[q] = jobs[y]
    BY <1>4, <2>3
  <2> QED
    BY <1>1, <2>4 DEF NeededBy
<1> QED
  BY <1>3, <1>4

(* So its subtree has the same size in both.                               *)
LEMMA DepthOfScan ==
  ASSUME deps = scan, deps \in [Tree!Node -> SUBSET Tree!Node],
         NEW p \in Tree!Node, p \notin Tree!needs(p)
  PROVE  pkg_depth[jobs[p]] = 1 + Cardinality(NeededBy(p))
<1> DEFINE A == NeededBy(p) \cup {p}
           B == {jobs[p]} \cup Reached({jobs[p]}, Pkg)
           f == [x \in A |-> jobs[x]]
<1>1. /\ \A x \in Tree!Node : jobs[x] \in Pkg
      /\ \A e \in Pkg : \E x \in Tree!Node : e = jobs[x]
      /\ \A x \in Tree!Node, y \in Tree!Node : jobs[x] = jobs[y] => x = y
  <2>1. jobs \in Seq(Pkg) /\ ToSet(jobs) = Pkg /\ DOMAIN jobs = Tree!Node
    BY JobsAssumption, Jobs
  <2> QED
    BY <2>1, JobsAssumption, Jobs DEF ToSet, IsInjective
<1>2. A \subseteq Tree!Node /\ IsFiniteSet(NeededBy(p)) /\ IsFiniteSet(A)
      /\ Cardinality(NeededBy(p)) \in Nat
  <2>1. A \subseteq Tree!Node /\ NeededBy(p) \subseteq Tree!Node
    BY DEF NeededBy
  <2> QED
    BY <2>1, Jobs, FS_Subset, FS_CardinalityType
<1>3. \A x \in Tree!Node : x \in A <=> jobs[x] \in B
  BY <1>1, ReachedIsNeeded DEF NeededBy
<1>4. B \subseteq Pkg
  BY <1>1, ReachedIn
<1> HIDE DEF A, B
<1>5. f \in [A -> B] /\ \A x \in A : f[x] = jobs[x]
  BY <1>2, <1>3
<1>6. f \in Bijection(A, B)
  <2>1. f \in Injection(A, B)
    BY <1>1, <1>2, <1>5 DEF Injection, IsInjective
  <2>2. f \in Surjection(A, B)
    <3>1. \A e \in B : \E x \in A : f[x] = e
      BY <1>1, <1>3, <1>4, <1>5
    <3> QED
      BY <1>5, <3>1 DEF Surjection
  <2> QED
    BY <2>1, <2>2 DEF Bijection
<1>7. Cardinality(B) = Cardinality(A)
  BY <1>2, <1>6, FS_Bijection DEF ExistsBijection
<1>8. Cardinality(A) = Cardinality(NeededBy(p)) + 1
  BY <1>2, FS_AddElement DEF A, NeededBy
<1>9. pkg_depth[jobs[p]] = Cardinality(B)
  BY <1>1 DEF pkg_depth, B
<1> QED
  BY <1>2, <1>7, <1>8, <1>9

(* A package has a deeper subtree than the packages that depend on it.     *)
LEMMA DeeperThanDependents ==
  ASSUME deps \in [Tree!Node -> SUBSET Tree!Node],
         NEW p \in Tree!Node, p \notin Tree!needs(p), NEW q \in deps[p]
  PROVE  Cardinality(NeededBy(q)) > Cardinality(NeededBy(p))
<1> DEFINE A == NeededBy(p) \cup {p}
<1>1. ASSUME NEW x \in A PROVE x \in NeededBy(q)
  <2>1. Tree!needs(q) \subseteq Tree!needs(p) /\ q \in Tree!needs(p)
    BY NeedsTransitive
  <2>2. CASE x = p
    BY <2>1, <2>2 DEF NeededBy
  <2>3. CASE x \in NeededBy(p)
    <3>1. x \in Tree!Node /\ p \in Tree!needs(x)
      BY <2>3 DEF NeededBy
    <3>2. deps[p] \subseteq Tree!needs(x)
      BY <3>1, NeedsLeast
    <3> QED
      BY <3>1, <3>2 DEF NeededBy
  <2> QED
    BY <2>2, <2>3
<1>2. \A r : NeededBy(r) \subseteq Tree!Node
  BY DEF NeededBy
<1>3. /\ IsFiniteSet(NeededBy(p)) /\ Cardinality(NeededBy(p)) \in Nat
      /\ IsFiniteSet(NeededBy(q)) /\ Cardinality(NeededBy(q)) \in Nat
  BY <1>2, Jobs, FS_Subset, FS_CardinalityType
<1>4. Cardinality(A) = Cardinality(NeededBy(p)) + 1
  BY <1>3, FS_AddElement DEF NeededBy
<1>5. Cardinality(A) <= Cardinality(NeededBy(q))
  <2>1. A \subseteq NeededBy(q)
    BY <1>1
  <2> HIDE DEF A
  <2> QED
    BY <1>3, <2>1, FS_Subset
<1> QED
  BY <1>3, <1>4, <1>5

(* The depths are right when the program goes on to build.                 *)
LEMMA TreeInvSound == TreeInv => CyclesRejected
<1> SUFFICES ASSUME TreeInv
             PROVE  CyclesRejected
  OBVIOUS
<1>1. /\ Len(jobs) \in Nat /\ i \in Int
      /\ i > Len(jobs) => i - 1 = Len(jobs)
  BY Jobs DEF TreeInv
<1>2. i > Len(jobs) /\ ~exited =>
        \A p \in Tree!Node :
          p \notin Tree!needs(p) /\ depth[p] = 1 + Cardinality(NeededBy(p))
  BY <1>1, Jobs DEF TreeInv
<1>3. Tree!CyclesRejected
  BY <1>2 DEF TreeInv, Tree!CyclesRejected
<1>4. \A p : {q \in Tree!Node : p \in Tree!needs(q)} = NeededBy(p)
  BY DEF NeededBy
<1>5. ASSUME i > Len(jobs), ~exited
      PROVE  /\ \A p \in Tree!Node :
                  depth[p] = 1 + Tree!Cardinality({q \in Tree!Node : p \in Tree!needs(q)})
             /\ \A p \in Tree!Node : \A q \in deps[p] : depth[q] > depth[p]
             /\ deps = scan => \A k \in 1 .. Len(jobs) : depth[k] = pkg_depth[jobs[k]]
  <2>1. \A p \in Tree!Node :
          depth[p] = 1 + Tree!Cardinality({q \in Tree!Node : p \in Tree!needs(q)})
    BY <1>2, <1>4, <1>5, SameTreeOperators
  <2>2. ASSUME NEW p \in Tree!Node, NEW q \in deps[p]
        PROVE  depth[q] > depth[p]
    <3>1. q \in Tree!Node /\ p \notin Tree!needs(p)
      BY <1>2, <1>5, <2>2 DEF TreeInv
    <3>2. /\ depth[p] = 1 + Cardinality(NeededBy(p))
          /\ depth[q] = 1 + Cardinality(NeededBy(q))
      BY <1>2, <1>5, <3>1
    <3>3. Cardinality(NeededBy(q)) > Cardinality(NeededBy(p))
      BY <3>1, DeeperThanDependents DEF TreeInv
    <3>4. \A r : Cardinality(NeededBy(r)) \in Nat
      BY Jobs, FS_Subset, FS_CardinalityType DEF NeededBy
    <3> QED
      BY <3>2, <3>3, <3>4
  <2>3. ASSUME deps = scan, NEW k \in 1 .. Len(jobs)
        PROVE  depth[k] = pkg_depth[jobs[k]]
    <3>1. k \in Tree!Node
      BY Jobs
    <3> QED
      BY <1>2, <1>5, <2>3, <3>1, DepthOfScan DEF TreeInv
  <2> QED
    BY <2>1, <2>2, <2>3
<1>6. Tree!DepthIsSubtreeSize
  BY <1>5 DEF Tree!DepthIsSubtreeSize
<1> QED
  BY <1>3, <1>5, <1>6 DEF CyclesRejected, computed

(* For every graph of jobs: compute_tree_depth, called for one job after   *)
(* the other, ends the program just if there is a cycle, although each     *)
(* call passes over the cycles that avoid its root; otherwise pkg_depth is *)
(* the size of the subtree, larger for a package than for those that       *)
(* depend on it, and for the scan the depth by which the list is kept.     *)
THEOREM CyclesAlwaysRejected == SpecAll => []CyclesRejected
<1>1. InitAll => TreeInv
  BY InitTreeInv
<1>2. TreeInv /\ [NextAll]_allVars => TreeInv'
  <2>1. ASSUME TreeInv, UNCHANGED allVars
        PROVE  TreeInv'
    BY <2>1, SameTree DEF allVars
  <2> QED
    BY <2>1, NextTreeInv
<1>3. TreeInv => CyclesRejected
  BY TreeInvSound
<1> QED
  BY <1>1, <1>2, <1>3, PTL DEF SpecAll
=============================================================================
