-------------------------- MODULE JobTable_proofs --------------------------
(***************************************************************************)
(* Lemmas about the job table: TableInv is preserved by every operation of *)
(* jobs.c on every acyclic scan, holds of the table init_jobs builds from  *)
(* logs that satisfy LogsInv, and says enough for a restart and for the    *)
(* end of the build.                                                       *)
(***************************************************************************)
EXTENDS JobTable, FiniteSetTheorems, TLAPS

(* The recursion of recursive_mark_broken visits only jobs of T.           *)
LEMMA ReachedIn ==
  ASSUME NEW roots, NEW T
  PROVE  Reached(roots, T) \subseteq T
BY DEF Reached

(* It visits every dependent, within T, of a root or of a job it visits.   *)
LEMMA ReachedClosed ==
  ASSUME NEW roots, NEW T
  PROVE  Closed(Reached(roots, T), roots, T)
<1> SUFFICES ASSUME NEW q \in T,
                    Deps[q] \cap (roots \cup Reached(roots, T)) # {}
             PROVE  q \in Reached(roots, T)
  BY DEF Closed
<1> SUFFICES ASSUME NEW S \in SUBSET T, Closed(S, roots, T)
             PROVE  q \in S
  BY DEF Reached
<1>1. Reached(roots, T) \subseteq S
  BY DEF Reached
<1>2. Deps[q] \cap (roots \cup S) # {}
  BY <1>1
<1> QED
  BY <1>2 DEF Closed

(* It visits nothing else: any closed set contains what it visits.         *)
LEMMA ReachedLeast ==
  ASSUME NEW roots, NEW T, NEW S \in SUBSET T, Closed(S, roots, T)
  PROVE  Reached(roots, T) \subseteq S
BY DEF Reached

(* Every job it visits depends on a root or on another job it visits.      *)
LEMMA ReachedCause ==
  ASSUME NEW roots, NEW T, NEW p \in Reached(roots, T)
  PROVE  Deps[p] \cap (roots \cup Reached(roots, T)) # {}
<1> DEFINE R == Reached(roots, T)
           S == {q \in T : Deps[q] \cap (roots \cup R) # {}}
<1>1. S \subseteq R
  BY ReachedClosed DEF Closed
<1>2. Closed(S, roots, T)
  <2> SUFFICES ASSUME NEW q \in T, Deps[q] \cap (roots \cup S) # {}
               PROVE  q \in S
    BY DEF Closed
  <2> QED
    BY <1>1
<1>3. R \subseteq S
  BY <1>2, ReachedLeast
<1> QED
  BY <1>3

(* The set of unbuilt dependencies of a package, whose size open_depends   *)
(* has to be, is finite.                                                   *)
LEMMA UnbuiltFinite ==
  ASSUME NEW p \in Pkg, NEW S \in SUBSET Deps[p]
  PROVE  IsFiniteSet(S) /\ Cardinality(S) \in Nat
<1>1. S \subseteq Pkg
  BY DepsAssumption
<1>2. IsFiniteSet(S)
  BY <1>1, PkgAssumption, FS_Subset
<1> QED
  BY <1>2, FS_CardinalityType

-----------------------------------------------------------------------------
(* The operations *)

(* What waits for nothing has all its dependencies built.                  *)
LEMMA BuildableDepsDone ==
  ASSUME NEW t, TableInv(t), NEW j \in t.buildable_jobs
  PROVE  \A d \in Deps[j] : t.state[d] = "DONE"
<1> DEFINE D == {d \in Deps[j] : t.state[d] # "DONE"}
<1>0. j \in Pkg /\ t.open_depends[j] = 0
  BY DEF TableInv, BuildListExact
<1>1. IsFiniteSet(D)
  BY <1>0, UnbuiltFinite
<1>2. Cardinality(D) = 0
  BY <1>0 DEF TableInv, OpenDependsExact
<1> QED
  BY <1>1, <1>2, FS_EmptySet

(* What handing out several jobs makes of the fields.                      *)
LEMMA HandedOutFields ==
  ASSUME NEW t, NEW given, t \in Table
  PROVE  /\ HandedOut(t, given) \in Table
         /\ \A p \in Pkg : HandedOut(t, given).state[p] =
              IF p \in given THEN "IN_PROCESSING" ELSE t.state[p]
         /\ HandedOut(t, given).open_depends = t.open_depends
         /\ HandedOut(t, given).buildable_jobs = t.buildable_jobs \ given
         /\ HandedOut(t, given).log_success = t.log_success
         /\ HandedOut(t, given).log_failed = t.log_failed
BY DEF HandedOut, Table, JobState

(* get_job, any number of times in one handler: taking buildable jobs      *)
(* keeps the table sound.                                                  *)
LEMMA HandedOutInv ==
  ASSUME NEW t, TableInv(t), NEW given \in SUBSET t.buildable_jobs
  PROVE  TableInv(HandedOut(t, given))
<1> DEFINE u == HandedOut(t, given)
<1>0. /\ t \in Table
      /\ \A j \in given : j \in Pkg /\ t.state[j] = "OPEN" /\ t.open_depends[j] = 0
  BY DEF TableInv, BuildListExact
<1>1. /\ u.open_depends = t.open_depends
      /\ u.buildable_jobs = t.buildable_jobs \ given
      /\ u.log_success = t.log_success /\ u.log_failed = t.log_failed
  BY <1>0, HandedOutFields
<1>2. u \in Table
  BY <1>0, HandedOutFields
<1>3. \A p \in Pkg : u.state[p] = IF p \in given THEN "IN_PROCESSING" ELSE t.state[p]
  BY <1>0, HandedOutFields
<1> HIDE DEF u
<1>4. OpenDependsExact(u)
  <2> SUFFICES ASSUME NEW p \in Pkg
               PROVE  u.open_depends[p] =
                        Cardinality({d \in Deps[p] : u.state[d] # "DONE"})
    BY DEF OpenDependsExact
  <2>1. {d \in Deps[p] : u.state[d] # "DONE"} = {d \in Deps[p] : t.state[d] # "DONE"}
    BY <1>0, <1>3, DepsAssumption
  <2> QED
    BY <1>1, <2>1 DEF TableInv, OpenDependsExact
<1>5. BuildListExact(u)
  BY <1>0, <1>1, <1>3 DEF TableInv, BuildListExact
<1>7. DepsBuiltFirst(u)
  <2> SUFFICES ASSUME NEW p \in Pkg, NEW d \in Deps[p],
                      u.state[p] \in {"IN_PROCESSING", "DONE", "FAILED"}
               PROVE  u.state[d] = "DONE"
    BY DEF DepsBuiltFirst
  <2>1. t.state[d] = "DONE" /\ d \in Pkg
    BY <1>3, BuildableDepsDone, DepsAssumption DEF TableInv, DepsBuiltFirst
  <2> QED
    BY <2>1, <1>0, <1>3
<1>8. BrokenExact(u)
  <2> SUFFICES ASSUME NEW p \in Pkg
               PROVE  /\ u.state[p] = "OPEN" => \A d \in Deps[p] : u.state[d] \notin Broken
                      /\ u.state[p] = "INDIRECT_FAILED" =>
                           \E d \in Deps[p] : u.state[d] \in {"FAILED", "INDIRECT_FAILED"}
                      /\ u.state[p] = "INDIRECT_PREFAILED" =>
                           \E d \in Deps[p] : u.state[d] \in {"PREFAILED", "INDIRECT_PREFAILED"}
    BY DEF BrokenExact
  <2>1. Deps[p] \subseteq Pkg
    BY DepsAssumption
  <2> QED
    BY <2>1, <1>0, <1>3 DEF TableInv, BrokenExact, Broken
<1>9. LogsExact(u)
  BY <1>0, <1>1, <1>3 DEF TableInv, LogsExact
<1>10. PrefailedExact(u)
  BY <1>0, <1>3 DEF TableInv, PrefailedExact
<1>11. TableInv(u)
  BY <1>2, <1>4, <1>5, <1>7, <1>8, <1>9, <1>10 DEF TableInv
<1> QED
  BY <1>11 DEF u

(* get_job once.                                                           *)
LEMMA JobInProcessingInv ==
  ASSUME NEW t, TableInv(t), NEW j \in t.buildable_jobs
  PROVE  TableInv(JobInProcessing(t, j))
<1>1. t \in Table /\ j \in Pkg
  BY DEF TableInv, BuildListExact
<1>2. [t.state EXCEPT ![j] = "IN_PROCESSING"] =
      [p \in Pkg |-> IF p \in {j} THEN "IN_PROCESSING" ELSE t.state[p]]
  BY <1>1 DEF Table
<1>3. JobInProcessing(t, j) = HandedOut(t, {j})
  BY <1>1, <1>2 DEF JobInProcessing, HandedOut, Table
<1> QED
  BY <1>3, HandedOutInv

(* JOB_DONE: the counters of the dependents fall by one, and exactly those *)
(* that have nothing left to wait for become buildable.                    *)
LEMMA JobDoneInv ==
  ASSUME NEW t, TableInv(t), NEW j \in Pkg, t.state[j] = "IN_PROCESSING"
  PROVE  TableInv(JobDone(t, j))
<1> DEFINE u == JobDone(t, j)
           Unbuilt(p) == {d \in Deps[p] : t.state[d] # "DONE"}
<1>0. /\ t \in Table
      /\ \A d \in Deps[j] : t.state[d] = "DONE"
      /\ j \notin t.buildable_jobs
  BY DEF TableInv, DepsBuiltFirst, BuildListExact
<1>a. \A p \in Pkg : /\ Unbuilt(p) \in SUBSET Deps[p]
                     /\ IsFiniteSet(Unbuilt(p))
                     /\ Cardinality(Unbuilt(p)) \in Nat
                     /\ t.open_depends[p] = Cardinality(Unbuilt(p))
  <2> SUFFICES ASSUME NEW p \in Pkg
               PROVE  /\ Unbuilt(p) \in SUBSET Deps[p]
                      /\ IsFiniteSet(Unbuilt(p))
                      /\ Cardinality(Unbuilt(p)) \in Nat
                      /\ t.open_depends[p] = Cardinality(Unbuilt(p))
    OBVIOUS
  <2>1. Unbuilt(p) \in SUBSET Deps[p]
    OBVIOUS
  <2>2. IsFiniteSet(Unbuilt(p)) /\ Cardinality(Unbuilt(p)) \in Nat
    BY <2>1, UnbuiltFinite
  <2> QED
    BY <2>1, <2>2 DEF TableInv, OpenDependsExact
<1>1. /\ u.state = [t.state EXCEPT ![j] = "DONE"]
      /\ u.open_depends = decremented(t, j)
      /\ u.buildable_jobs = t.buildable_jobs \cup released(t, j)
      /\ u.log_success = t.log_success \cup {j}
      /\ u.log_failed = t.log_failed
  BY <1>0 DEF JobDone, Table
<1>2. \A p \in Pkg : u.state[p] = IF p = j THEN "DONE" ELSE t.state[p]
  BY <1>0, <1>1 DEF Table
<1>3. \A p \in Pkg : j \in Deps[p] => t.open_depends[p] # 0
  <2> SUFFICES ASSUME NEW p \in Pkg, j \in Deps[p]
               PROVE  Cardinality(Unbuilt(p)) # 0
    BY <1>a
  <2>1. j \in Unbuilt(p)
    OBVIOUS
  <2> QED
    BY <2>1, <1>a, FS_EmptySet
<1>4. \A p \in Pkg :
        /\ u.open_depends[p] = IF j \in Deps[p] THEN t.open_depends[p] - 1
                                                ELSE t.open_depends[p]
        /\ u.open_depends[p] \in Nat
  BY <1>0, <1>1, <1>3 DEF decremented, depending_pkgs, Table
<1>5. u \in Table
  <2>1. u.open_depends \in [Pkg -> Nat]
    BY <1>1, <1>4 DEF decremented
  <2>2. released(t, j) \subseteq Pkg
    BY DEF released, depending_pkgs
  <2>3. [t.state EXCEPT ![j] = "DONE"] \in [Pkg -> JobState]
    BY <1>0 DEF Table, JobState
  <2> QED
    BY <1>0, <1>1, <2>1, <2>2, <2>3 DEF JobDone, Table
<1>6. OpenDependsExact(u)
  <2> SUFFICES ASSUME NEW p \in Pkg
               PROVE  u.open_depends[p] =
                        Cardinality({d \in Deps[p] : u.state[d] # "DONE"})
    BY DEF OpenDependsExact
  <2>1. {d \in Deps[p] : u.state[d] # "DONE"} = Unbuilt(p) \ {j}
    BY <1>2, DepsAssumption
  <2>2. CASE j \in Deps[p]
    <3>1. j \in Unbuilt(p)
      BY <2>2
    <3>2. Cardinality(Unbuilt(p) \ {j}) = Cardinality(Unbuilt(p)) - 1
      BY <3>1, <1>a, FS_RemoveElement
    <3> QED
      BY <3>2, <2>1, <2>2, <1>4, <1>a
  <2>3. CASE j \notin Deps[p]
    <3>1. Unbuilt(p) \ {j} = Unbuilt(p)
      BY <2>3
    <3> QED
      BY <3>1, <2>1, <2>3, <1>4, <1>a
  <2> QED
    BY <2>2, <2>3
<1>7. BuildListExact(u)
  <2>1. \A p \in Pkg : p \in t.buildable_jobs <=>
                         t.state[p] = "OPEN" /\ t.open_depends[p] = 0
    BY DEF TableInv, BuildListExact
  <2>2. \A p \in Pkg : p \in released(t, j) <=>
          j \in Deps[p] /\ u.open_depends[p] = 0 /\ t.state[p] = "OPEN"
    BY <1>1 DEF released, depending_pkgs
  <2>3. t.buildable_jobs \subseteq Pkg /\ released(t, j) \subseteq Pkg
    BY <1>0 DEF Table, released, depending_pkgs
  <2>4. \A p \in Pkg : p \in u.buildable_jobs <=>
                         u.state[p] = "OPEN" /\ u.open_depends[p] = 0
    BY <1>0, <1>1, <1>2, <1>3, <1>4, <2>1, <2>2
  <2> QED
    BY <1>1, <2>3, <2>4 DEF BuildListExact
<1>8. DepsBuiltFirst(u)
  <2> SUFFICES ASSUME NEW p \in Pkg, NEW d \in Deps[p],
                      u.state[p] \in {"IN_PROCESSING", "DONE", "FAILED"}
               PROVE  u.state[d] = "DONE"
    BY DEF DepsBuiltFirst
  <2>1. t.state[d] = "DONE" /\ d \in Pkg
    BY <1>0, <1>2, DepsAssumption DEF TableInv, DepsBuiltFirst
  <2> QED
    BY <2>1, <1>2
<1>9. BrokenExact(u)
  <2> SUFFICES ASSUME NEW p \in Pkg
               PROVE  /\ u.state[p] = "OPEN" => \A d \in Deps[p] : u.state[d] \notin Broken
                      /\ u.state[p] = "INDIRECT_FAILED" =>
                           \E d \in Deps[p] : u.state[d] \in {"FAILED", "INDIRECT_FAILED"}
                      /\ u.state[p] = "INDIRECT_PREFAILED" =>
                           \E d \in Deps[p] : u.state[d] \in {"PREFAILED", "INDIRECT_PREFAILED"}
    BY DEF BrokenExact
  <2>1. Deps[p] \subseteq Pkg
    BY DepsAssumption
  <2> QED
    BY <2>1, <1>2 DEF TableInv, BrokenExact, Broken
<1>10. LogsExact(u)
  BY <1>0, <1>1, <1>2 DEF TableInv, LogsExact
<1>11. PrefailedExact(u)
  BY <1>2 DEF TableInv, PrefailedExact
<1> QED
  BY <1>5, <1>6, <1>7, <1>8, <1>9, <1>10, <1>11 DEF TableInv

(* JOB_FAILED: the open jobs that need j, directly or not, are given up;   *)
(* none of them is in the build list, so the list stays exact.             *)
LEMMA JobFailedInv ==
  ASSUME NEW t, TableInv(t), NEW j \in Pkg, t.state[j] = "IN_PROCESSING"
  PROVE  TableInv(JobFailed(t, j))
<1> DEFINE u == JobFailed(t, j)
           failed == [t.state EXCEPT ![j] = "FAILED"]
           T == {p \in Pkg : failed[p] \in Markable}
           hit == Reached({j}, T)
<1>0. /\ t \in Table
      /\ \A d \in Deps[j] : t.state[d] = "DONE"
  BY DEF TableInv, DepsBuiltFirst
<1>1. /\ u.state = [p \in Pkg |-> IF p \in hit THEN "INDIRECT_FAILED" ELSE failed[p]]
      /\ u.open_depends = t.open_depends
      /\ u.buildable_jobs = t.buildable_jobs
      /\ u.log_success = t.log_success
      /\ u.log_failed = t.log_failed \cup {j}
  BY <1>0 DEF JobFailed, recursive_mark_broken, Table
<1>2. hit \subseteq T /\ j \notin hit
  <2>1. hit \subseteq T
    BY ReachedIn
  <2>2. j \notin T
    BY <1>0 DEF Table, Markable
  <2> QED
    BY <2>1, <2>2
<1>3. \A p \in hit : p \in Pkg /\ p # j /\ t.state[p] = "OPEN"
  <2> SUFFICES ASSUME NEW p \in hit
               PROVE  p \in Pkg /\ p # j /\ t.state[p] = "OPEN"
    OBVIOUS
  <2>1. p \in Pkg /\ p # j /\ failed[p] \in Markable
    BY <1>2
  <2> QED
    BY <2>1, <1>0 DEF Table, Markable, TableInv, PrefailedExact
<1>4. \A p \in Pkg : u.state[p] = IF p = j THEN "FAILED"
                                  ELSE IF p \in hit THEN "INDIRECT_FAILED"
                                  ELSE t.state[p]
  BY <1>0, <1>1, <1>2 DEF Table
<1>5. u \in Table
  <2>1. u.state \in [Pkg -> JobState]
    BY <1>0, <1>1 DEF Table, JobState
  <2> QED
    BY <1>0, <1>1, <2>1 DEF JobFailed, Table
<1>6. \A p \in Pkg : u.state[p] = "DONE" <=> t.state[p] = "DONE"
  BY <1>3, <1>4
<1>7. OpenDependsExact(u)
  <2> SUFFICES ASSUME NEW p \in Pkg
               PROVE  u.open_depends[p] =
                        Cardinality({d \in Deps[p] : u.state[d] # "DONE"})
    BY DEF OpenDependsExact
  <2>1. {d \in Deps[p] : u.state[d] # "DONE"} = {d \in Deps[p] : t.state[d] # "DONE"}
    BY <1>6, DepsAssumption
  <2> QED
    BY <1>1, <2>1 DEF TableInv, OpenDependsExact
<1>8. \A p \in hit : t.open_depends[p] # 0
  <2> SUFFICES ASSUME NEW p \in hit, t.open_depends[p] = 0
               PROVE  FALSE
    OBVIOUS
  <2> DEFINE D == {d \in Deps[p] : t.state[d] # "DONE"}
  <2>0. Deps[p] \cap ({j} \cup hit) # {}
    BY ReachedCause
  <2>1. PICK d \in Deps[p] : d = j \/ d \in hit
    BY <2>0
  <2>2. d \in D
    BY <2>1, <1>3
  <2>3. p \in Pkg /\ D \in SUBSET Deps[p]
    BY <1>3
  <2>4. IsFiniteSet(D) /\ Cardinality(D) = 0
    BY <2>3, UnbuiltFinite DEF TableInv, OpenDependsExact
  <2> QED
    BY <2>2, <2>4, FS_EmptySet
<1>9. BuildListExact(u)
  <2>1. \A p \in Pkg : p \in t.buildable_jobs <=>
                         t.state[p] = "OPEN" /\ t.open_depends[p] = 0
    BY DEF TableInv, BuildListExact
  <2>2. \A p \in Pkg : p \in u.buildable_jobs <=>
                         u.state[p] = "OPEN" /\ u.open_depends[p] = 0
    BY <1>1, <1>3, <1>4, <1>8, <2>1
  <2> QED
    BY <1>5, <2>2 DEF BuildListExact, Table
<1>10. DepsBuiltFirst(u)
  <2> SUFFICES ASSUME NEW p \in Pkg, NEW d \in Deps[p],
                      u.state[p] \in {"IN_PROCESSING", "DONE", "FAILED"}
               PROVE  u.state[d] = "DONE"
    BY DEF DepsBuiltFirst
  <2>1. t.state[p] \in {"IN_PROCESSING", "DONE", "FAILED"}
    BY <1>4
  <2>2. t.state[d] = "DONE" /\ d \in Pkg
    BY <2>1, DepsAssumption DEF TableInv, DepsBuiltFirst
  <2> QED
    BY <2>2, <1>6
<1>11. BrokenExact(u)
  <2> SUFFICES ASSUME NEW p \in Pkg
               PROVE  /\ u.state[p] = "OPEN" => \A d \in Deps[p] : u.state[d] \notin Broken
                      /\ u.state[p] = "INDIRECT_FAILED" =>
                           \E d \in Deps[p] : u.state[d] \in {"FAILED", "INDIRECT_FAILED"}
                      /\ u.state[p] = "INDIRECT_PREFAILED" =>
                           \E d \in Deps[p] : u.state[d] \in {"PREFAILED", "INDIRECT_PREFAILED"}
    BY DEF BrokenExact
  <2>0. Deps[p] \subseteq Pkg
    BY DepsAssumption
  <2>1. ASSUME u.state[p] = "OPEN", NEW d \in Deps[p]
        PROVE  u.state[d] \notin Broken
    <3>1. t.state[p] = "OPEN" /\ p \notin hit /\ p # j
      BY <2>1, <1>4
    <3>2. p \in T
      BY <3>1, <1>0 DEF Table, Markable
    <3>3. d # j /\ d \notin hit
      BY <2>1, <3>1, <3>2, ReachedClosed DEF Closed
    <3>4. t.state[d] \notin Broken
      BY <2>1, <3>1 DEF TableInv, BrokenExact
    <3> QED
      BY <2>0, <2>1, <3>3, <3>4, <1>4
  <2>2. ASSUME u.state[p] = "INDIRECT_FAILED"
        PROVE  \E d \in Deps[p] : u.state[d] \in {"FAILED", "INDIRECT_FAILED"}
    <3>1. CASE p \in hit
      <4>0. Deps[p] \cap ({j} \cup hit) # {}
        BY <3>1, ReachedCause
      <4>1. PICK d \in Deps[p] : d = j \/ d \in hit
        BY <4>0
      <4> QED
        BY <4>1, <2>0, <1>4
    <3>2. CASE p \notin hit
      <4>1. t.state[p] = "INDIRECT_FAILED"
        BY <2>2, <3>2, <1>4
      <4>2. PICK d \in Deps[p] : t.state[d] \in {"FAILED", "INDIRECT_FAILED"}
        BY <4>1 DEF TableInv, BrokenExact
      <4> QED
        BY <4>2, <2>0, <1>4
    <3> QED
      BY <3>1, <3>2
  <2>3. ASSUME u.state[p] = "INDIRECT_PREFAILED"
        PROVE  \E d \in Deps[p] : u.state[d] \in {"PREFAILED", "INDIRECT_PREFAILED"}
    <3>1. t.state[p] = "INDIRECT_PREFAILED"
      BY <2>3, <1>4
    <3>2. PICK d \in Deps[p] : t.state[d] \in {"PREFAILED", "INDIRECT_PREFAILED"}
      BY <3>1 DEF TableInv, BrokenExact
    <3> QED
      BY <3>2, <2>0, <1>3, <1>4
  <2> QED
    BY <2>1, <2>2, <2>3
<1>12. LogsExact(u)
  <2>1. u.log_success = {p \in Pkg : u.state[p] = "DONE"}
    BY <1>1, <1>6 DEF TableInv, LogsExact
  <2>2. \A p \in Pkg : u.state[p] = "FAILED" <=> p = j \/ t.state[p] = "FAILED"
    BY <1>3, <1>4
  <2>3. u.log_failed = {p \in Pkg : u.state[p] = "FAILED"}
    BY <1>1, <2>2 DEF TableInv, LogsExact
  <2> QED
    BY <2>1, <2>3 DEF LogsExact
<1>13. PrefailedExact(u)
  BY <1>3, <1>4 DEF TableInv, PrefailedExact
<1> QED
  BY <1>5, <1>7, <1>9, <1>10, <1>11, <1>12, <1>13 DEF TableInv

(* Nothing but j and open jobs changes.                                    *)
LEMMA JobFailedStates ==
  ASSUME NEW t, TableInv(t), NEW j \in Pkg, t.state[j] = "IN_PROCESSING",
         NEW p \in Pkg
  PROVE  \/ p = j /\ JobFailed(t, j).state[p] = "FAILED"
         \/ p # j /\ JobFailed(t, j).state[p] = t.state[p]
         \/ t.state[p] = "OPEN" /\ JobFailed(t, j).state[p] = "INDIRECT_FAILED"
<1> DEFINE failed == [t.state EXCEPT ![j] = "FAILED"]
           T == {q \in Pkg : failed[q] \in Markable}
           hit == Reached({j}, T)
<1>1. t \in Table /\ \A q \in Pkg : t.state[q] # "INIT"
  BY DEF TableInv, PrefailedExact
<1>2. JobFailed(t, j).state =
        [q \in Pkg |-> IF q \in hit THEN "INDIRECT_FAILED" ELSE failed[q]]
  BY <1>1 DEF JobFailed, recursive_mark_broken, Table
<1>3. hit \subseteq T
  BY ReachedIn
<1>4. \A q \in Pkg : failed[q] = IF q = j THEN "FAILED" ELSE t.state[q]
  BY <1>1 DEF Table
<1> HIDE DEF failed, hit
<1> QED
  BY <1>1, <1>2, <1>3, <1>4 DEF Markable

(* JOB_OPEN of a job in processing: it is buildable again.                 *)
LEMMA JobOpenInv ==
  ASSUME NEW t, TableInv(t), NEW j \in Pkg, t.state[j] = "IN_PROCESSING"
  PROVE  TableInv(JobOpen(t, j))
<1> DEFINE u == JobOpen(t, j)
<1>0. /\ t \in Table
      /\ \A d \in Deps[j] : t.state[d] = "DONE"
  BY DEF TableInv, DepsBuiltFirst
<1>1. t.open_depends[j] = 0
  <2>1. {d \in Deps[j] : t.state[d] # "DONE"} = {}
    BY <1>0
  <2> QED
    BY <2>1, FS_EmptySet DEF TableInv, OpenDependsExact
<1>2. /\ u.state = [t.state EXCEPT ![j] = "OPEN"]
      /\ u.open_depends = t.open_depends
      /\ u.buildable_jobs = t.buildable_jobs \cup {j}
      /\ u.log_success = t.log_success /\ u.log_failed = t.log_failed
  BY <1>0, <1>1 DEF JobOpen, Table
<1>3. \A p \in Pkg : u.state[p] = IF p = j THEN "OPEN" ELSE t.state[p]
  BY <1>0, <1>2 DEF Table
<1>4. u \in Table
  <2>1. [t.state EXCEPT ![j] = "OPEN"] \in [Pkg -> JobState]
    BY <1>0 DEF Table, JobState
  <2> QED
    BY <1>0, <1>1, <1>2, <2>1 DEF JobOpen, Table
<1>5. OpenDependsExact(u)
  <2> SUFFICES ASSUME NEW p \in Pkg
               PROVE  u.open_depends[p] =
                        Cardinality({d \in Deps[p] : u.state[d] # "DONE"})
    BY DEF OpenDependsExact
  <2>1. {d \in Deps[p] : u.state[d] # "DONE"} = {d \in Deps[p] : t.state[d] # "DONE"}
    BY <1>3, DepsAssumption
  <2> QED
    BY <1>2, <2>1 DEF TableInv, OpenDependsExact
<1>6. BuildListExact(u)
  BY <1>1, <1>2, <1>3 DEF TableInv, BuildListExact
<1>7. DepsBuiltFirst(u)
  <2> SUFFICES ASSUME NEW p \in Pkg, NEW d \in Deps[p],
                      u.state[p] \in {"IN_PROCESSING", "DONE", "FAILED"}
               PROVE  u.state[d] = "DONE"
    BY DEF DepsBuiltFirst
  <2>1. t.state[d] = "DONE" /\ d \in Pkg
    BY <1>3, DepsAssumption DEF TableInv, DepsBuiltFirst
  <2> QED
    BY <2>1, <1>3
<1>8. BrokenExact(u)
  <2> SUFFICES ASSUME NEW p \in Pkg
               PROVE  /\ u.state[p] = "OPEN" => \A d \in Deps[p] : u.state[d] \notin Broken
                      /\ u.state[p] = "INDIRECT_FAILED" =>
                           \E d \in Deps[p] : u.state[d] \in {"FAILED", "INDIRECT_FAILED"}
                      /\ u.state[p] = "INDIRECT_PREFAILED" =>
                           \E d \in Deps[p] : u.state[d] \in {"PREFAILED", "INDIRECT_PREFAILED"}
    BY DEF BrokenExact
  <2>1. Deps[p] \subseteq Pkg
    BY DepsAssumption
  <2> QED
    BY <2>1, <1>0, <1>3 DEF TableInv, BrokenExact, Broken
<1>9. LogsExact(u)
  BY <1>2, <1>3 DEF TableInv, LogsExact
<1>10. PrefailedExact(u)
  BY <1>3 DEF TableInv, PrefailedExact
<1> QED
  BY <1>4, <1>5, <1>6, <1>7, <1>8, <1>9, <1>10 DEF TableInv

-----------------------------------------------------------------------------
(* The start of a run *)

(* The jobs init_jobs gives up on account of the scan alone, and those it  *)
(* gives up on account of the log of failed builds.                        *)
IndirectPrefailed == Reached(Prefailed, Pkg \ Prefailed)
IndirectFailed(ls, lf) ==
  Reached(lf, Pkg \ (ls \cup lf \cup Prefailed \cup IndirectPrefailed))

(* What mark_initial makes of the scan.                                    *)
LEMMA MarkPrefailedState ==
  ASSUME NEW p \in Pkg
  PROVE  /\ p \in IndirectPrefailed => p \notin Prefailed
         /\ mark_prefailed[p] = IF p \in IndirectPrefailed
                                THEN "INDIRECT_PREFAILED"
                                ELSE IF p \in Prefailed THEN "PREFAILED"
                                ELSE "INIT"
<1> DEFINE all == [q \in Pkg |-> IF q \in Prefailed THEN "PREFAILED" ELSE "INIT"]
<1>1. {q \in Pkg : all[q] \in Markable} = Pkg \ Prefailed
  BY DEF Markable
<1>2. mark_prefailed = recursive_mark_broken(all, Prefailed, "INDIRECT_PREFAILED")
  BY DEF mark_prefailed
<1>3. mark_prefailed =
        [q \in Pkg |-> IF q \in IndirectPrefailed THEN "INDIRECT_PREFAILED"
                                                  ELSE all[q]]
  BY <1>1, <1>2 DEF recursive_mark_broken, IndirectPrefailed
<1>4. IndirectPrefailed \subseteq Pkg \ Prefailed
  BY ReachedIn DEF IndirectPrefailed
<1> QED
  BY <1>3, <1>4

(* A package with a result in a log was never marked on account of the     *)
(* scan: it was built, so all its dependencies were.                       *)
LEMMA LoggedNotMarked ==
  ASSUME NEW ls, NEW lf, LogsInv(ls, lf)
  PROVE  (ls \cup lf) \cap IndirectPrefailed = {}
<1> DEFINE T == Pkg \ Prefailed
           S == T \ (ls \cup lf)
<1>1. Closed(S, Prefailed, T)
  <2> SUFFICES ASSUME NEW q \in T, Deps[q] \cap (Prefailed \cup S) # {}
               PROVE  q \in S
    BY DEF Closed
  <2> QED
    BY DEF LogsInv
<1>2. S \in SUBSET T
  OBVIOUS
<1>3. IndirectPrefailed \subseteq S
  BY <1>1, <1>2, ReachedLeast DEF IndirectPrefailed
<1> QED
  BY <1>3

(* The state of every job when init_jobs returns.  The five sets are       *)
(* disjoint, so the order of the cases does not matter.                    *)
LEMMA InitJobsState ==
  ASSUME NEW ls, NEW lf, LogsInv(ls, lf), NEW p \in Pkg
  PROVE  /\ p \in IndirectFailed(ls, lf) =>
              p \notin ls \cup lf \cup Prefailed \cup IndirectPrefailed
         /\ init_jobs(ls, lf).state[p] =
              IF p \in IndirectFailed(ls, lf) THEN "INDIRECT_FAILED"
              ELSE IF p \in lf THEN "FAILED"
              ELSE IF p \in ls THEN "DONE"
              ELSE IF p \in IndirectPrefailed THEN "INDIRECT_PREFAILED"
              ELSE IF p \in Prefailed THEN "PREFAILED"
              ELSE "OPEN"
         /\ mark_initial(ls, lf)[p] = "INIT" <=> init_jobs(ls, lf).state[p] = "OPEN"
<1> DEFINE done == [q \in Pkg |-> IF q \in ls THEN "DONE" ELSE mark_prefailed[q]]
           failed == [q \in Pkg |-> IF q \in lf THEN "FAILED" ELSE done[q]]
           T == Pkg \ (ls \cup lf \cup Prefailed \cup IndirectPrefailed)
<1>1. \A q \in Pkg : failed[q] =
        IF q \in lf THEN "FAILED"
        ELSE IF q \in ls THEN "DONE"
        ELSE IF q \in IndirectPrefailed THEN "INDIRECT_PREFAILED"
        ELSE IF q \in Prefailed THEN "PREFAILED"
        ELSE "INIT"
  BY MarkPrefailedState
<1>2. {q \in Pkg : failed[q] \in Markable} = T
  <2>1. \A q \in Pkg : failed[q] \in Markable <=> q \in T
    BY <1>1 DEF Markable
  <2> QED
    BY <2>1
<1>3. mark_initial(ls, lf) = recursive_mark_broken(failed, lf, "INDIRECT_FAILED")
  BY DEF mark_initial
<1>4. mark_initial(ls, lf) =
        [q \in Pkg |-> IF q \in IndirectFailed(ls, lf) THEN "INDIRECT_FAILED"
                                                       ELSE failed[q]]
  BY <1>2, <1>3 DEF recursive_mark_broken, IndirectFailed
<1>5. IndirectFailed(ls, lf) \subseteq T
  BY ReachedIn DEF IndirectFailed
<1>6. init_jobs(ls, lf).state[p] =
        IF mark_initial(ls, lf)[p] = "INIT" THEN "OPEN" ELSE mark_initial(ls, lf)[p]
  BY DEF init_jobs
<1>7. mark_initial(ls, lf)[p] =
        IF p \in IndirectFailed(ls, lf) THEN "INDIRECT_FAILED" ELSE failed[p]
  BY <1>4
<1> HIDE DEF failed
<1> QED
  BY <1>1, <1>5, <1>6, <1>7

(* init_jobs: logs that agree with the scan give a sound table.            *)
LEMMA InitJobsInv ==
  ASSUME NEW ls, NEW lf, LogsInv(ls, lf)
  PROVE  TableInv(init_jobs(ls, lf))
<1> DEFINE t == init_jobs(ls, lf)
           H == IndirectPrefailed
           H1 == IndirectFailed(ls, lf)
           T == Pkg \ (ls \cup lf \cup Prefailed \cup H)
<1>0. /\ ls \subseteq Pkg /\ lf \subseteq Pkg /\ ls \cap lf = {}
      /\ \A p \in ls \cup lf : p \notin Prefailed /\ p \notin H /\ Deps[p] \subseteq ls
      /\ \A p \in Pkg : Deps[p] \subseteq Pkg
  BY LoggedNotMarked, DepsAssumption DEF LogsInv
<1>a. /\ H \subseteq Pkg \ Prefailed
      /\ H1 \subseteq T
  BY ReachedIn DEF IndirectPrefailed, IndirectFailed
<1>1. \A p \in Pkg : /\ t.state[p] = "INDIRECT_FAILED" <=> p \in H1
                     /\ t.state[p] = "FAILED" <=> p \in lf
                     /\ t.state[p] = "DONE" <=> p \in ls
                     /\ t.state[p] = "INDIRECT_PREFAILED" <=> p \in H
                     /\ t.state[p] = "PREFAILED" <=> p \in Prefailed
                     /\ t.state[p] = "OPEN" <=> p \in T \ H1
                     /\ t.state[p] \in JobState \ {"INIT", "IN_PROCESSING"}
                     /\ mark_initial(ls, lf)[p] = "INIT" <=> t.state[p] = "OPEN"
  <2> SUFFICES ASSUME NEW p \in Pkg
               PROVE  /\ t.state[p] = "INDIRECT_FAILED" <=> p \in H1
                      /\ t.state[p] = "FAILED" <=> p \in lf
                      /\ t.state[p] = "DONE" <=> p \in ls
                      /\ t.state[p] = "INDIRECT_PREFAILED" <=> p \in H
                      /\ t.state[p] = "PREFAILED" <=> p \in Prefailed
                      /\ t.state[p] = "OPEN" <=> p \in T \ H1
                      /\ t.state[p] \in JobState \ {"INIT", "IN_PROCESSING"}
                      /\ mark_initial(ls, lf)[p] = "INIT" <=> t.state[p] = "OPEN"
    OBVIOUS
  <2>1. t.state[p] = IF p \in H1 THEN "INDIRECT_FAILED"
                     ELSE IF p \in lf THEN "FAILED"
                     ELSE IF p \in ls THEN "DONE"
                     ELSE IF p \in H THEN "INDIRECT_PREFAILED"
                     ELSE IF p \in Prefailed THEN "PREFAILED"
                     ELSE "OPEN"
    BY InitJobsState
  <2>2. mark_initial(ls, lf)[p] = "INIT" <=> t.state[p] = "OPEN"
    BY InitJobsState
  <2> HIDE DEF t, H, H1
  <2> QED
    BY <1>0, <1>a, <2>1, <2>2 DEF JobState
<1>2. \A p \in Pkg :
        /\ t.open_depends[p] = Cardinality({d \in Deps[p] : t.state[d] # "DONE"})
        /\ t.open_depends[p] \in Nat
  <2> SUFFICES ASSUME NEW p \in Pkg
               PROVE  /\ t.open_depends[p] =
                           Cardinality({d \in Deps[p] : t.state[d] # "DONE"})
                      /\ t.open_depends[p] \in Nat
    OBVIOUS
  <2>1. t.open_depends[p] = Cardinality(Deps[p]) - Cardinality(Deps[p] \cap ls)
    BY DEF init_jobs, build_tree
  <2>2. {d \in Deps[p] : t.state[d] # "DONE"} = Deps[p] \ ls
    BY <1>0, <1>1
  <2>3. IsFiniteSet(Deps[p])
    BY UnbuiltFinite
  <2>4. Cardinality(Deps[p] \ ls) = Cardinality(Deps[p]) - Cardinality(Deps[p] \cap ls)
    BY <2>3, FS_Difference
  <2>5. Cardinality(Deps[p] \ ls) \in Nat
    BY UnbuiltFinite
  <2> QED
    BY <2>1, <2>2, <2>4, <2>5
<1>3. /\ t.log_success = ls /\ t.log_failed = lf
      /\ t.buildable_jobs =
           {p \in Pkg : mark_initial(ls, lf)[p] = "INIT" /\ t.open_depends[p] = 0}
  BY DEF init_jobs
<1>4. t \in Table
  <2>1. t.state \in [Pkg -> JobState]
    <3>1. t.state = [p \in Pkg |-> t.state[p]]
      BY DEF init_jobs
    <3> QED
      BY <3>1, <1>1
  <2>2. t.open_depends \in [Pkg -> Nat]
    <3>1. t.open_depends = [p \in Pkg |-> t.open_depends[p]]
      BY DEF init_jobs
    <3> QED
      BY <3>1, <1>2
  <2>3. t = [state |-> t.state, open_depends |-> t.open_depends,
             buildable_jobs |-> t.buildable_jobs,
             log_success |-> t.log_success, log_failed |-> t.log_failed]
    BY DEF init_jobs
  <2>4. t.buildable_jobs \subseteq Pkg
    BY <1>3
  <2> HIDE DEF t
  <2> QED
    BY <1>0, <1>3, <2>1, <2>2, <2>3, <2>4 DEF Table
<1> HIDE DEF t
<1>5. OpenDependsExact(t)
  BY <1>2 DEF OpenDependsExact
<1>6. BuildListExact(t)
  BY <1>1, <1>3 DEF BuildListExact
<1>7. DepsBuiltFirst(t)
  <2> SUFFICES ASSUME NEW p \in Pkg, NEW d \in Deps[p],
                      t.state[p] \in {"IN_PROCESSING", "DONE", "FAILED"}
               PROVE  t.state[d] = "DONE"
    BY DEF DepsBuiltFirst
  <2>1. p \in ls \cup lf
    BY <1>1
  <2>2. d \in ls /\ d \in Pkg
    BY <2>1, <1>0
  <2> QED
    BY <2>2, <1>1
<1>8. BrokenExact(t)
  <2> SUFFICES ASSUME NEW p \in Pkg
               PROVE  /\ t.state[p] = "OPEN" => \A d \in Deps[p] : t.state[d] \notin Broken
                      /\ t.state[p] = "INDIRECT_FAILED" =>
                           \E d \in Deps[p] : t.state[d] \in {"FAILED", "INDIRECT_FAILED"}
                      /\ t.state[p] = "INDIRECT_PREFAILED" =>
                           \E d \in Deps[p] : t.state[d] \in {"PREFAILED", "INDIRECT_PREFAILED"}
    BY DEF BrokenExact
  <2>1. ASSUME t.state[p] = "OPEN", NEW d \in Deps[p]
        PROVE  t.state[d] \notin Broken
    <3>1. p \in T /\ p \notin H1 /\ p \notin H /\ p \in Pkg \ Prefailed
      BY <2>1, <1>1
    <3>2. d \notin lf /\ d \notin H1
      BY <2>1, <3>1, ReachedClosed DEF Closed, IndirectFailed
    <3>3. d \notin Prefailed /\ d \notin H
      BY <2>1, <3>1, ReachedClosed DEF Closed, IndirectPrefailed
    <3>4. d \in Pkg
      BY <2>1, <1>0
    <3> QED
      BY <3>2, <3>3, <3>4, <1>1 DEF Broken
  <2>2. ASSUME t.state[p] = "INDIRECT_FAILED"
        PROVE  \E d \in Deps[p] : t.state[d] \in {"FAILED", "INDIRECT_FAILED"}
    <3>1. p \in H1
      BY <2>2, <1>1
    <3>2. Deps[p] \cap (lf \cup H1) # {}
      BY <3>1, ReachedCause DEF IndirectFailed
    <3>3. PICK d \in Deps[p] : d \in lf \/ d \in H1
      BY <3>2
    <3> QED
      BY <3>3, <1>0, <1>1
  <2>3. ASSUME t.state[p] = "INDIRECT_PREFAILED"
        PROVE  \E d \in Deps[p] : t.state[d] \in {"PREFAILED", "INDIRECT_PREFAILED"}
    <3>1. p \in H
      BY <2>3, <1>1
    <3>2. Deps[p] \cap (Prefailed \cup H) # {}
      BY <3>1, ReachedCause DEF IndirectPrefailed
    <3>3. PICK d \in Deps[p] : d \in Prefailed \/ d \in H
      BY <3>2
    <3> QED
      BY <3>3, <1>0, <1>1
  <2> QED
    BY <2>1, <2>2, <2>3
<1>9. LogsExact(t)
  BY <1>0, <1>1, <1>3 DEF LogsExact
<1>10. PrefailedExact(t)
  BY <1>1, MarkPrefailedState, <1>a DEF PrefailedExact
<1>11. TableInv(t)
  BY <1>4, <1>5, <1>6, <1>7, <1>8, <1>9, <1>10 DEF TableInv
<1> QED
  BY <1>11 DEF t

(* The logs of a sound table agree with the scan and with each other.      *)
LEMMA TableInvLogs ==
  ASSUME NEW t, TableInv(t)
  PROVE  LogsInv(t.log_success, t.log_failed)
<1>1. \A p \in Pkg : /\ p \in t.log_success <=> t.state[p] = "DONE"
                     /\ p \in t.log_failed <=> t.state[p] = "FAILED"
  BY DEF TableInv, LogsExact
<1>2. t.log_success \subseteq Pkg /\ t.log_failed \subseteq Pkg
  BY DEF TableInv, Table
<1>3. ASSUME NEW p \in t.log_success \cup t.log_failed
      PROVE  p \notin Prefailed /\ Deps[p] \subseteq t.log_success
  <2>1. p \in Pkg /\ t.state[p] \in {"DONE", "FAILED"}
    BY <1>1, <1>2
  <2>2. p \notin Prefailed
    BY <2>1 DEF TableInv, PrefailedExact
  <2>3. \A d \in Deps[p] : d \in Pkg /\ t.state[d] = "DONE"
    BY <2>1, DepsAssumption DEF TableInv, DepsBuiltFirst
  <2> QED
    BY <2>2, <2>3, <1>1
<1> QED
  BY <1>1, <1>2, <1>3 DEF LogsInv

(* A first start, with empty logs.                                         *)
LEMMA NoLogsInv ==
  LogsInv({}, {})
BY DEF LogsInv

(* Reading the logs again gives the table back.  That a job given up for   *)
(* a failed build is found again needs the graph to be acyclic: two such   *)
(* jobs that only had each other as a cause would not be.                  *)
LEMMA ReplayLemma ==
  ASSUME NEW t, TableInv(t)
  PROVE  ReplayExact(t)
<1> DEFINE ls == t.log_success
           lf == t.log_failed
           H == IndirectPrefailed
           H1 == IndirectFailed(ls, lf)
           T == Pkg \ (ls \cup lf \cup Prefailed \cup H)
           X == {p \in Pkg : t.state[p] = "INDIRECT_FAILED"}
<1>0. LogsInv(ls, lf)
  BY TableInvLogs
<1>1. \A p \in Pkg : /\ p \in ls <=> t.state[p] = "DONE"
                     /\ p \in lf <=> t.state[p] = "FAILED"
                     /\ p \in Prefailed <=> t.state[p] = "PREFAILED"
                     /\ p \in H <=> t.state[p] = "INDIRECT_PREFAILED"
                     /\ t.state[p] \in JobState \ {"INIT"}
                     /\ Deps[p] \subseteq Pkg
  <2>1. \A p \in Pkg : p \in H <=> mark_prefailed[p] = "INDIRECT_PREFAILED"
    BY MarkPrefailedState
  <2>2. \A p \in Pkg : t.state[p] \in JobState \ {"INIT"}
    BY DEF TableInv, Table, PrefailedExact
  <2>3. \A p \in Pkg : /\ p \in Prefailed <=> t.state[p] = "PREFAILED"
                       /\ p \in H <=> t.state[p] = "INDIRECT_PREFAILED"
    BY <2>1 DEF TableInv, PrefailedExact
  <2> QED
    BY <2>2, <2>3, DepsAssumption DEF TableInv, LogsExact
<1>2. X \in SUBSET T
  BY <1>1
<1>3. Closed(X, lf, T)
  <2> SUFFICES ASSUME NEW q \in T, Deps[q] \cap (lf \cup X) # {}
               PROVE  q \in X
    BY DEF Closed
  <2>1. PICK d \in Deps[q] : d \in lf \cup X
    OBVIOUS
  <2>2. d \in Pkg /\ t.state[d] \in Broken /\ t.state[d] # "DONE"
    BY <2>1, <1>1 DEF Broken
  <2>3. t.state[q] # "OPEN"
    BY <2>1, <2>2 DEF TableInv, BrokenExact
  <2>4. t.state[q] # "IN_PROCESSING"
    BY <2>1, <2>2 DEF TableInv, DepsBuiltFirst
  <2> QED
    BY <2>3, <2>4, <1>1 DEF JobState
<1>4. H1 \subseteq X
  BY <1>2, <1>3, ReachedLeast DEF IndirectFailed
<1>5. X \subseteq H1
  <2> SUFFICES ASSUME X \ H1 # {}
               PROVE  FALSE
    OBVIOUS
  <2>1. PICK p \in X \ H1 : Deps[p] \cap (X \ H1) = {}
    BY AcyclicAssumption
  <2>2. PICK d \in Deps[p] : t.state[d] \in {"FAILED", "INDIRECT_FAILED"}
    BY <2>1 DEF TableInv, BrokenExact
  <2>3. d \in lf \cup H1
    BY <2>1, <2>2, <1>1
  <2>4. p \in T
    BY <2>1, <1>2
  <2> QED
    BY <2>1, <2>2, <2>3, <2>4, ReachedClosed DEF Closed, IndirectFailed
<1>6. \A p \in Pkg : init_jobs(ls, lf).state[p] =
                      IF t.state[p] = "IN_PROCESSING" THEN "OPEN" ELSE t.state[p]
  <2> SUFFICES ASSUME NEW p \in Pkg
               PROVE  init_jobs(ls, lf).state[p] =
                        IF t.state[p] = "IN_PROCESSING" THEN "OPEN" ELSE t.state[p]
    OBVIOUS
  <2>1. init_jobs(ls, lf).state[p] =
          IF p \in H1 THEN "INDIRECT_FAILED"
          ELSE IF p \in lf THEN "FAILED"
          ELSE IF p \in ls THEN "DONE"
          ELSE IF p \in H THEN "INDIRECT_PREFAILED"
          ELSE IF p \in Prefailed THEN "PREFAILED"
          ELSE "OPEN"
    BY <1>0, InitJobsState
  <2>2. p \in H1 <=> t.state[p] = "INDIRECT_FAILED"
    BY <1>4, <1>5
  <2> QED
    BY <1>1, <2>1, <2>2 DEF JobState
<1>7. init_jobs(ls, lf).state = [p \in Pkg |-> init_jobs(ls, lf).state[p]]
  BY DEF init_jobs
<1> QED
  BY <1>6, <1>7 DEF ReplayExact

(* When nothing is being built and the build list is empty, nothing is     *)
(* open either: the open jobs would have to wait for each other.           *)
LEMMA AllFinalLemma ==
  ASSUME NEW t, TableInv(t), t.buildable_jobs = {},
         \A p \in Pkg : t.state[p] # "IN_PROCESSING"
  PROVE  AllFinal(t)
<1> DEFINE X == {p \in Pkg : t.state[p] = "OPEN"}
<1>1. X = {}
  <2> SUFFICES ASSUME X # {}
               PROVE  FALSE
    OBVIOUS
  <2>1. PICK p \in X : Deps[p] \cap X = {}
    BY AcyclicAssumption
  <2>2. t.open_depends[p] # 0
    BY <2>1 DEF TableInv, BuildListExact
  <2>3. {d \in Deps[p] : t.state[d] # "DONE"} # {}
    BY <2>1, <2>2, FS_EmptySet DEF TableInv, OpenDependsExact
  <2>4. PICK d \in Deps[p] : t.state[d] # "DONE"
    BY <2>3
  <2>5. d \in Pkg /\ t.state[d] \in JobState \ {"INIT", "IN_PROCESSING", "OPEN", "DONE"}
    BY <2>1, <2>4, DepsAssumption DEF TableInv, Table, PrefailedExact
  <2>6. t.state[d] \in Broken
    BY <2>5 DEF JobState, Broken
  <2> QED
    BY <2>1, <2>4, <2>6 DEF TableInv, BrokenExact
<1>2. ASSUME NEW p \in Pkg
      PROVE  t.state[p] \in JobState \ {"INIT", "IN_PROCESSING", "OPEN"}
  BY <1>1 DEF TableInv, Table, PrefailedExact
<1> QED
  BY <1>2 DEF AllFinal, Final, Broken, JobState

-----------------------------------------------------------------------------
(* What BuildPromise sees of a table *)

(* What a sound table shows to the outside obeys the rule for skipping.    *)
LEMMA SkipRuleHolds ==
  ASSUME NEW t, TableInv(t)
  PROVE  /\ \A p \in Pkg : StatusMap(t)[p] = "skipped" <=>
              p \in Prefailed \/ \E d \in Deps[p] : StatusMap(t)[d] \in {"failed", "skipped"}
         /\ StatusMap(t) \in [Pkg -> {"todo", "building", "done", "failed", "skipped"}]
<1> DEFINE s == StatusMap(t)
<1>0. \A p \in Pkg : t.state[p] \in JobState \ {"INIT"} /\ Deps[p] \subseteq Pkg
  BY DepsAssumption DEF TableInv, Table, PrefailedExact
<1>1. \A p \in Pkg :
        /\ s[p] \in {"todo", "building", "done", "failed", "skipped"}
        /\ s[p] = "skipped" <=>
             t.state[p] \in {"PREFAILED", "INDIRECT_FAILED", "INDIRECT_PREFAILED"}
        /\ s[p] = "failed" <=> t.state[p] = "FAILED"
  BY <1>0 DEF StatusMap, StatusOf, JobState
<1>2. ASSUME NEW p \in Pkg
      PROVE  s[p] = "skipped" <=>
               p \in Prefailed \/ \E d \in Deps[p] : s[d] \in {"failed", "skipped"}
  <2>1. ASSUME s[p] = "skipped", p \notin Prefailed
        PROVE  \E d \in Deps[p] : s[d] \in {"failed", "skipped"}
    <3>1. t.state[p] \in {"INDIRECT_FAILED", "INDIRECT_PREFAILED"}
      BY <2>1, <1>1 DEF TableInv, PrefailedExact
    <3>2. PICK d \in Deps[p] : t.state[d] \in Broken
      BY <3>1 DEF TableInv, BrokenExact, Broken
    <3> QED
      BY <3>2, <1>0, <1>1 DEF Broken
  <2>2. ASSUME p \in Prefailed
        PROVE  s[p] = "skipped"
    BY <2>2, <1>1 DEF TableInv, PrefailedExact
  <2>3. ASSUME NEW d \in Deps[p], s[d] \in {"failed", "skipped"}
        PROVE  s[p] = "skipped"
    <3>1. d \in Pkg /\ t.state[d] \in Broken /\ t.state[d] # "DONE"
      BY <2>3, <1>0, <1>1 DEF Broken
    <3>2. t.state[p] \notin {"OPEN", "IN_PROCESSING", "DONE", "FAILED"}
      BY <2>3, <3>1 DEF TableInv, BrokenExact, DepsBuiltFirst
    <3> QED
      BY <3>2, <1>0, <1>1 DEF JobState
  <2> QED
    BY <2>1, <2>2, <2>3
<1>3. s \in [Pkg -> {"todo", "building", "done", "failed", "skipped"}]
  BY <1>1 DEF StatusMap
<1> QED
  BY <1>2, <1>3

(* Before the first result a package is to do or skipped.                  *)
LEMMA FirstStatus ==
  ASSUME NEW p \in Pkg
  PROVE  StatusMap(init_jobs({}, {}))[p] \in {"todo", "skipped"}
<1>1. StatusMap(init_jobs({}, {}))[p] = StatusOf(init_jobs({}, {}).state[p])
  BY DEF StatusMap
<1>2. init_jobs({}, {}).state[p] \in
        {"INDIRECT_FAILED", "INDIRECT_PREFAILED", "PREFAILED", "OPEN"}
  BY InitJobsState, NoLogsInv
<1> QED
  BY <1>1, <1>2 DEF StatusOf

(* The ways the state of a job changes in a step of a running program.     *)
MayChange(s, new) ==
  \/ new = s
  \/ s = "OPEN" /\ new \in {"INDIRECT_FAILED", "IN_PROCESSING"}
  \/ s = "IN_PROCESSING" /\ new \in {"DONE", "FAILED", "OPEN"}

(* Between two sound tables such a change is one the promise allows.       *)
LEMMA ChangeAllowed ==
  ASSUME NEW t, NEW u, TableInv(u), NEW p \in Pkg,
         MayChange(t.state[p], u.state[p])
  PROVE  LET old == StatusMap(t)[p]
             new == StatusMap(u)[p]
         IN \/ new = old
            \/ old = "todo" /\ new = "skipped"
            \/ /\ old = "todo" /\ new = "building"
               /\ \A d \in Deps[p] : StatusMap(u)[d] = "done"
            \/ old = "building" /\ new \in {"done", "failed", "todo"}
<1>1. /\ StatusMap(t)[p] = StatusOf(t.state[p])
      /\ StatusMap(u)[p] = StatusOf(u.state[p])
  BY DEF StatusMap
<1>2. CASE u.state[p] = t.state[p]
  BY <1>1, <1>2
<1>3. CASE t.state[p] = "OPEN" /\ u.state[p] = "INDIRECT_FAILED"
  BY <1>1, <1>3 DEF StatusOf
<1>4. CASE t.state[p] = "OPEN" /\ u.state[p] = "IN_PROCESSING"
  <2>1. \A d \in Deps[p] : d \in Pkg /\ u.state[d] = "DONE"
    BY <1>4, DepsAssumption DEF TableInv, DepsBuiltFirst
  <2>2. \A d \in Deps[p] : StatusMap(u)[d] = "done"
    BY <2>1 DEF StatusMap, StatusOf
  <2> QED
    BY <1>1, <1>4, <2>2 DEF StatusOf
<1>5. CASE t.state[p] = "IN_PROCESSING" /\ u.state[p] \in {"DONE", "FAILED", "OPEN"}
  BY <1>1, <1>5 DEF StatusOf
<1> QED
  BY <1>2, <1>3, <1>4, <1>5 DEF MayChange
=============================================================================
