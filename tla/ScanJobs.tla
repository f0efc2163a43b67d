----------------------------- MODULE ScanJobs ------------------------------
(***************************************************************************)
(* The jobs of pbulk-scan (pscan/jobs.c): an array of package locations in *)
(* the order of the tree, and the file written from it in the end.  As in  *)
(* JobTable, the state is a record and each function an operator on it.    *)
(*                                                                         *)
(* Nothing survives a crash: pbulk-scan starts from the beginning.         *)
(***************************************************************************)
EXTENDS Integers, FiniteSets, SequencesExt

CONSTANTS
  len_jobs,      \* the number of locations
  pbulk_index,   \* pbulk_index[i]: the PKGNAMEs that location i prints
  Unrecognized,  \* an item of such an output that is not a package
  NULL

Job == 1 .. len_jobs

ASSUME LenAssumption == len_jobs \in Nat
ASSUME IndexAssumption ==
  /\ DOMAIN pbulk_index = Job
  /\ \A i \in Job : pbulk_index[i] \in Seq(ToSet(pbulk_index[i]))
ASSUME NullAssumption == NULL \notin Job

JobState == {"OPEN", "IN_PROCESSING", "DONE"}

(* scan_output: NULL, a buffer being filled, or all that the client sent.  *)
Output == {"NULL", "partial", "whole"}

Table == [state : [Job -> JobState], scan_output : [Job -> Output],
          first_undone_job : 1 .. len_jobs + 1, done_jobs : Nat]

(* add_job_full, for every location of the tree.                           *)
add_jobs ==
  [state |-> [i \in Job |-> "OPEN"], scan_output |-> [i \in Job |-> "NULL"],
   first_undone_job |-> 1, done_jobs |-> 0]

(* get_job: the first open job from first_undone_job on, or NULL.          *)
get_job(t) ==
  LET open == {i \in Job : i >= t.first_undone_job /\ t.state[i] = "OPEN"}
  IN IF open = {} THEN NULL ELSE Min(open)

taken(t, j) ==
  [t EXCEPT !.state[j] = "IN_PROCESSING", !.scan_output[j] = "NULL"]

(* The first job that is not done.  A seeded bug: the first that is open.  *)
Bug_first_undone(t) ==
  Min({i \in Job : i >= t.first_undone_job /\ t.state[i] = "OPEN"}
        \cup {len_jobs + 1})

first_undone(t) ==
  Min({i \in Job : i >= t.first_undone_job /\ t.state[i] # "DONE"}
        \cup {len_jobs + 1})

process_job(t, j, state) ==
  LET u == [t EXCEPT !.state[j] = state]
  IN [u EXCEPT !.first_undone_job = first_undone(u),
               !.done_jobs = IF state = "DONE" THEN @ + 1 ELSE @]

-----------------------------------------------------------------------------
(* write_jobs *)

(* The items of an output, up to one that is not recognized.               *)
items(i) ==
  LET bad == SelectInSeq(pbulk_index[i], LAMBDA n : n = Unrecognized)
  IN IF bad = 0 THEN pbulk_index[i] ELSE SubSeq(pbulk_index[i], 1, bad - 1)

pkgname_in_hash(name, file) == \E k \in 1 .. Len(file) : file[k].name = name

(* The entries of one output whose name is not in the file yet.  A seeded  *)
(* bug: names are not looked up.                                           *)
Bug_write_single_job(file, i) ==
  file \o [k \in 1 .. Len(items(i)) |-> [name |-> items(i)[k], location |-> i]]

entered(file, i, n) ==
  IF pkgname_in_hash(n, file) THEN file
  ELSE Append(file, [name |-> n, location |-> i])

write_single_job(file, i) ==
  FoldLeft(LAMBDA f, n : entered(f, i, n), file, items(i))

to_write(t, i) == t.state[i] = "DONE" /\ t.scan_output[i] # "NULL"

write_jobs(t) ==
  FoldLeft(LAMBDA f, i : IF to_write(t, i) THEN write_single_job(f, i) ELSE f,
           << >>, [i \in Job |-> i])

-----------------------------------------------------------------------------
(* What a table of a running scan satisfies.                               *)

(* get_job may start at first_undone_job: no open job is before it.  The   *)
(* count of finished jobs is right.                                        *)
CountersExact(t) ==
  /\ t.first_undone_job = Min({i \in Job : t.state[i] # "DONE"} \cup {len_jobs + 1})
  /\ t.done_jobs = Cardinality({i \in Job : t.state[i] = "DONE"})

(* Nothing but whole outputs reach the file, also when clients break off.  *)
OutputsWhole(t) ==
  \A i \in Job : /\ t.state[i] = "OPEN" => t.scan_output[i] = "NULL"
                 /\ t.state[i] = "DONE" => t.scan_output[i] # "partial"
=============================================================================
