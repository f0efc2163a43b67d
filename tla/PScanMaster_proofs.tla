------------------------ MODULE PScanMaster_proofs ------------------------
(***************************************************************************)
(* Proofs about pbulk-scan in both modes (PScanMaster).                    *)
(*                                                                         *)
(* They begin with the array of jobs (ScanJobs): what get_job returns and  *)
(* what process_job does to the place it searches from.  The invariant of  *)
(* the scan adds to the checked properties what each handler relies on:    *)
(* which list a peer is in and which event it waits for.                   *)
(*                                                                         *)
(* The second half is the file: what the two folds of write_jobs compute,  *)
(* and that the program implements ScanPromise.                            *)
(***************************************************************************)
EXTENDS PScanMaster, FiniteSetTheorems, SequenceTheorems, WellFoundedInduction, TLAPS

-----------------------------------------------------------------------------
(* Minima *)

(* A set of naturals that is not empty has a least element: < is well      *)
(* founded.                                                                *)
LEMMA MinExists ==
  ASSUME NEW S \in SUBSET Nat, S # {}
  PROVE  Min(S) \in S /\ \A y \in S : Min(S) <= y
<1> DEFINE less == {ss \in Nat \X Nat : ss[1] < ss[2]}
<1>1. IsWellFoundedOn(less, Nat)
  BY NatLessThanWellFounded, Zenon DEF OpToRel
<1>2. \A n, m \in Nat : m < n => <<m, n>> \in less
  OBVIOUS
<1> HIDE DEF less
<1>3. \E x \in S : \A y \in S : ~ (<<y, x>> \in less)
  BY <1>1, WFMin
<1>4. PICK x \in S : \A y \in S : ~ (<<y, x>> \in less)
  BY <1>3
<1>5. ASSUME NEW y \in S PROVE x <= y
  <2>1. <<y, x>> \notin less
    BY <1>4
  <2>2. x \in Nat /\ y \in Nat
    OBVIOUS
  <2> QED
    BY <1>2, <2>1, <2>2
<1> QED
  BY <1>5 DEF Min

-----------------------------------------------------------------------------
(* The array of jobs *)

(* The jobs that are not done, with the end of the array.                  *)
Undone(t) == {i \in Job : t.state[i] # "DONE"} \cup {len_jobs + 1}

LEMMA UndoneMin ==
  ASSUME NEW t
  PROVE  /\ Min(Undone(t)) \in 1 .. len_jobs + 1
         /\ Min(Undone(t)) \in Undone(t)
         /\ \A i \in Undone(t) : Min(Undone(t)) <= i
<1>1. Undone(t) \in SUBSET Nat /\ Undone(t) # {} /\ Undone(t) \subseteq 1 .. len_jobs + 1
  BY LenAssumption DEF Undone, Job
<1> QED
  BY <1>1, MinExists

(* get_job misses no open job, and returns only an open one.               *)
LEMMA GetJob ==
  ASSUME NEW t \in Table, t.first_undone_job = Min(Undone(t))
  PROVE  /\ get_job(t) = NULL <=> \A i \in Job : t.state[i] # "OPEN"
         /\ get_job(t) # NULL => get_job(t) \in Job /\ t.state[get_job(t)] = "OPEN"
<1> DEFINE open == {i \in Job : i >= t.first_undone_job /\ t.state[i] = "OPEN"}
<1>1. \A i \in Job : t.state[i] = "OPEN" => i \in open
  BY UndoneMin DEF Undone, Job
<1>2. CASE open = {}
  BY <1>1, <1>2 DEF get_job
<1>3. CASE open # {}
  <2>1. open \in SUBSET Nat
    BY LenAssumption DEF Job
  <2>2. Min(open) \in open
    <3> HIDE DEF open
    <3> QED
      BY <1>3, <2>1, MinExists
  <2>3. get_job(t) = Min(open)
    BY <1>3 DEF get_job
  <2> QED
    BY <2>2, <2>3, NullAssumption
<1> QED
  BY <1>2, <1>3

(* Searching on from the old place finds the new one, if the jobs before   *)
(* it are still done.                                                      *)
LEMMA FirstUndone ==
  ASSUME NEW u, u.first_undone_job \in 1 .. len_jobs + 1,
         \A i \in Job : i < u.first_undone_job => u.state[i] = "DONE"
  PROVE  first_undone(u) = Min(Undone(u))
<1>1. {i \in Job : i >= u.first_undone_job /\ u.state[i] # "DONE"} = {i \in Job : u.state[i] # "DONE"}
  BY LenAssumption DEF Job
<1> QED
  BY <1>1 DEF first_undone, Undone

(* The place and the count only depend on which jobs are done.             *)
LEMMA SameDone ==
  ASSUME NEW t, NEW u, CountersExact(t),
         u.first_undone_job = t.first_undone_job, u.done_jobs = t.done_jobs,
         \A i \in Job : u.state[i] = "DONE" <=> t.state[i] = "DONE"
  PROVE  CountersExact(u)
<1>1. {i \in Job : u.state[i] # "DONE"} = {i \in Job : t.state[i] # "DONE"}
  OBVIOUS
<1>2. {i \in Job : u.state[i] = "DONE"} = {i \in Job : t.state[i] = "DONE"}
  OBVIOUS
<1> QED
  BY <1>1, <1>2 DEF CountersExact

LEMMA TakenFacts ==
  ASSUME NEW t \in Table, CountersExact(t), NEW j \in Job, t.state[j] = "OPEN"
  PROVE  /\ taken(t, j) \in Table /\ CountersExact(taken(t, j))
         /\ \A i \in Job :
              /\ taken(t, j).state[i] = IF i = j THEN "IN_PROCESSING" ELSE t.state[i]
              /\ taken(t, j).scan_output[i] = IF i = j THEN "NULL" ELSE t.scan_output[i]
<1> DEFINE u == taken(t, j)
<1>1. u \in Table
  BY DEF taken, Table, JobState, Output
<1>2. \A i \in Job :
        /\ u.state[i] = IF i = j THEN "IN_PROCESSING" ELSE t.state[i]
        /\ u.scan_output[i] = IF i = j THEN "NULL" ELSE t.scan_output[i]
  BY DEF taken, Table
<1>3. u.first_undone_job = t.first_undone_job /\ u.done_jobs = t.done_jobs
  BY DEF taken, Table
<1> HIDE DEF u
<1>4. CountersExact(u)
  BY <1>2, <1>3, SameDone
<1> QED
  BY <1>1, <1>2, <1>4 DEF u

LEMMA OutputSet ==
  ASSUME NEW t \in Table, CountersExact(t), NEW j \in Job, NEW o \in Output
  PROVE  LET u == [t EXCEPT !.scan_output[j] = o]
         IN /\ u \in Table /\ CountersExact(u)
            /\ u.state = t.state
            /\ \A i \in Job : u.scan_output[i] = IF i = j THEN o ELSE t.scan_output[i]
<1> DEFINE u == [t EXCEPT !.scan_output[j] = o]
<1>1. u \in Table /\ u.state = t.state
  BY DEF Table
<1>2. \A i \in Job : u.scan_output[i] = IF i = j THEN o ELSE t.scan_output[i]
  BY DEF Table
<1>3. u.first_undone_job = t.first_undone_job /\ u.done_jobs = t.done_jobs
  BY DEF Table
<1> HIDE DEF u
<1>4. CountersExact(u)
  BY <1>1, <1>3, SameDone
<1> QED
  BY <1>1, <1>2, <1>4 DEF u

(* process_job for the two states it is called with.  Only a job that was  *)
(* not done before may become so: the count would be wrong otherwise.      *)
LEMMA ProcessJob ==
  ASSUME NEW t \in Table, CountersExact(t), NEW j \in Job, t.state[j] # "DONE",
         NEW state \in {"OPEN", "DONE"}
  PROVE  LET u == process_job(t, j, state)
         IN /\ u \in Table /\ CountersExact(u)
            /\ u.scan_output = t.scan_output
            /\ \A i \in Job : u.state[i] = IF i = j THEN state ELSE t.state[i]
<1> DEFINE v == [t EXCEPT !.state[j] = state]
           u == process_job(t, j, state)
           old == {i \in Job : t.state[i] = "DONE"}
           new == {i \in Job : u.state[i] = "DONE"}
<1>1. /\ v.first_undone_job = t.first_undone_job
      /\ v.first_undone_job \in 1 .. len_jobs + 1
      /\ v.state \in [Job -> JobState]
      /\ \A i \in Job : v.state[i] = IF i = j THEN state ELSE t.state[i]
  BY DEF Table, JobState
<1>2. \A i \in Job : i < v.first_undone_job => v.state[i] = "DONE"
  <2>1. t.first_undone_job = Min(Undone(t))
    BY DEF CountersExact, Undone
  <2>2. \A i \in Job : i < t.first_undone_job => t.state[i] = "DONE"
    <3>1. \A i \in Undone(t) : t.first_undone_job <= i
      BY <2>1, UndoneMin
    <3> QED
      BY <3>1, LenAssumption DEF Undone, Job, Table
  <2> QED
    BY <1>1, <2>2
<1>3. first_undone(v) = Min(Undone(v)) /\ first_undone(v) \in 1 .. len_jobs + 1
  <2> HIDE DEF v
  <2> QED
    BY <1>1, <1>2, FirstUndone, UndoneMin
<1>4. /\ u.state = v.state /\ u.scan_output = t.scan_output
      /\ u.first_undone_job = first_undone(v)
      /\ u.done_jobs = IF state = "DONE" THEN t.done_jobs + 1 ELSE t.done_jobs
  BY DEF process_job, Table
<1>5. u \in Table
  <2> DEFINE f == first_undone(v)
             n == IF state = "DONE" THEN v.done_jobs + 1 ELSE v.done_jobs
  <2>1. u = [[v EXCEPT !.first_undone_job = f] EXCEPT !.done_jobs = n]
    BY DEF process_job
  <2>2. v \in Table /\ n \in Nat
    BY DEF Table, JobState
  <2> HIDE DEF u, v, n, f
  <2>3. f \in 1 .. len_jobs + 1
    BY <1>3 DEF f
  <2>4. [v EXCEPT !.first_undone_job = f] \in Table
    BY <2>2, <2>3 DEF Table
  <2> QED
    BY <2>1, <2>2, <2>4 DEF Table
<1>6. u.done_jobs = Cardinality(new)
  <2>1. IsFiniteSet(old)
    <3>1. IsFiniteSet(Job) /\ old \in SUBSET Job
      BY FS_Interval, LenAssumption DEF Job
    <3> HIDE DEF old
    <3> QED
      BY <3>1, FS_Subset
  <2>2. t.done_jobs = Cardinality(old)
    BY DEF CountersExact
  <2>3. CASE state = "DONE"
    <3>1. new = old \cup {j} /\ j \notin old
      BY <1>1, <1>4, <2>3
    <3>2. u.done_jobs = Cardinality(old) + 1
      BY <1>4, <2>2, <2>3
    <3> HIDE DEF new, old, u
    <3> QED
      BY <2>1, <3>1, <3>2, FS_AddElement
  <2>4. CASE state = "OPEN"
    <3>1. new = old
      BY <1>1, <1>4, <2>4
    <3> QED
      BY <1>4, <2>2, <2>4, <3>1
  <2> QED
    BY <2>3, <2>4
<1>7. u.first_undone_job = Min(Undone(u))
  BY <1>3, <1>4 DEF Undone
<1> HIDE DEF u
<1> QED
  BY <1>1, <1>4, <1>5, <1>6, <1>7 DEF CountersExact, Undone, u

-----------------------------------------------------------------------------
(* The invariant *)

Event == {"none", "send_path", "read_length", "read_output"}
Place == {"away", "connected", "scanning", "sending", "gone"}
Message == {"no_output", "length", "output"}
Program == {"alone", "serving", "shutting_down", "exited", "failed"}

TypeOK ==
  /\ table \in Table
  /\ program \in Program
  /\ clients_started \in BOOLEAN
  /\ active_peers \subseteq Client /\ inactive_peers \subseteq Client
  /\ job \in [Client -> Job \cup {NULL}]
  /\ event \in [Client -> Event]
  /\ client \in [Client -> Place]
  /\ sent \in [Client -> Seq(Message)]

(* A peer is active exactly while it has a job; no two have the same, and  *)
(* no job is in processing without a peer.                                 *)
Owned(t, act, jb) ==
  /\ \A c \in Client : jb[c] # NULL <=> c \in act
  /\ \A c \in act : jb[c] \in Job /\ t.state[jb[c]] = "IN_PROCESSING"
  /\ \A c, d \in act : jb[c] = jb[d] => c = d
  /\ \A i \in Job : t.state[i] = "IN_PROCESSING" => \E c \in act : jb[c] = i

(* A peer is in one list; exactly the active ones wait for an event.       *)
Listed(act, ina, ev) ==
  /\ act \cap ina = {}
  /\ \A c \in Client : ev[c] # "none" <=> c \in act

(* A job whose output is not being read has none yet.                      *)
Outputs(t, act, jb, ev) ==
  /\ OutputsWhole(t)
  /\ \A c \in act : ev[c] # "read_output" => t.scan_output[jb[c]] = "NULL"

(* What the peers and the array of jobs are to each other, between the     *)
(* calls of a handler too: t, act, ina, jb and ev are the values so far.   *)
PeersInv(t, act, ina, jb, ev) ==
  /\ t \in Table /\ CountersExact(t)
  /\ act \subseteq Client /\ ina \subseteq Client
  /\ jb \in [Client -> Job \cup {NULL}]
  /\ ev \in [Client -> Event]
  /\ Owned(t, act, jb)
  /\ Listed(act, ina, ev)
  /\ Outputs(t, act, jb, ev)

AllOpen(t) == \A i \in Job : t.state[i] = "OPEN"
NoneOpen(t) == \A i \in Job : t.state[i] # "OPEN"

(* No peer waits next to an open job, and before the end of the start      *)
(* script no job is touched.                                               *)
WaitRule(t, act, ina) ==
  IF clients_started THEN ina # {} => NoneOpen(t)
                     ELSE act = {} /\ (program = "serving" => AllOpen(t))

IInv ==
  /\ TypeOK
  /\ PeersInv(table, active_peers, inactive_peers, job, event)
  /\ WaitRule(table, active_peers, inactive_peers)
  /\ ShutdownOnlyWhenDone
  /\ program = "alone" => active_peers = {} /\ inactive_peers = {}
  /\ \A c \in Client : client[c] = "away" => c \notin active_peers \cup inactive_peers

(* assign_job for a peer c in neither list, in a handler that has left at  *)
(* most one job open if peers wait: the job of the peer it has killed.     *)
LEMMA AssignJob ==
  ASSUME NEW c \in Client, NEW t, NEW act, NEW ina, NEW jb, NEW ev,
         PeersInv(t, act, ina, jb, ev), c \notin act \cup ina,
         clients_started \in BOOLEAN, program = "serving",
         clients_started' = clients_started,
         clients_started /\ ina # {} =>
           \A i, k \in Job : t.state[i] = "OPEN" /\ t.state[k] = "OPEN" => i = k,
         ~clients_started => act = {} /\ AllOpen(t),
         assign_job(c, t, act, ina, jb, ev)
  PROVE  /\ PeersInv(table', active_peers', inactive_peers', job', event')
         /\ WaitRule(table, active_peers, inactive_peers)'
         /\ program' \in {"serving", "shutting_down"}
         /\ ShutdownOnlyWhenDone'
         /\ active_peers' \cup inactive_peers' = act \cup ina \cup {c}
<1> DEFINE j == IF clients_started THEN get_job(t) ELSE NULL
<1>0. t \in Table /\ t.first_undone_job = Min(Undone(t))
  BY DEF PeersInv, CountersExact, Undone
<1>1. /\ get_job(t) = NULL <=> NoneOpen(t)
      /\ get_job(t) # NULL => get_job(t) \in Job /\ t.state[get_job(t)] = "OPEN"
  BY <1>0, GetJob DEF NoneOpen
<1>2. CASE j # NULL
  <2>1. clients_started /\ j \in Job /\ t.state[j] = "OPEN"
    BY <1>1, <1>2
  <2>2. /\ table' = taken(t, j) /\ active_peers' = act \cup {c}
        /\ inactive_peers' = ina /\ program' = program
        /\ job' = [jb EXCEPT ![c] = j] /\ event' = [ev EXCEPT ![c] = "send_path"]
    BY <1>2 DEF assign_job
  <2> HIDE DEF j
  <2>3. /\ table' \in Table /\ CountersExact(table')
        /\ \A i \in Job :
             /\ table'.state[i] = IF i = j THEN "IN_PROCESSING" ELSE t.state[i]
             /\ table'.scan_output[i] = IF i = j THEN "NULL" ELSE t.scan_output[i]
    BY <1>0, <2>1, <2>2, TakenFacts DEF PeersInv
  <2>a. jb \in [Client -> Job \cup {NULL}] /\ ev \in [Client -> Event]
    BY DEF PeersInv
  <2>4. /\ job' \in [Client -> Job \cup {NULL}]
        /\ \A d \in Client : job'[d] = IF d = c THEN j ELSE jb[d]
    BY <2>1, <2>2, <2>a
  <2>b. /\ event' \in [Client -> Event]
        /\ \A d \in Client : event'[d] = IF d = c THEN "send_path" ELSE ev[d]
    BY <2>2, <2>a DEF Event
  <2>5. Owned(table', active_peers', job')
    BY <2>1, <2>2, <2>3, <2>4, NullAssumption DEF Owned, PeersInv
  <2>6. Listed(active_peers', inactive_peers', event')
    BY <2>2, <2>b DEF Listed, PeersInv
  <2>7. Outputs(table', active_peers', job', event')
    BY <2>1, <2>2, <2>3, <2>4, <2>b DEF Outputs, OutputsWhole, PeersInv, Owned
  <2>8. WaitRule(table, active_peers, inactive_peers)'
    BY <2>1, <2>2, <2>3 DEF WaitRule, NoneOpen
  <2>9. PeersInv(table', active_peers', inactive_peers', job', event')
    BY <2>2, <2>3, <2>4, <2>b, <2>5, <2>6, <2>7 DEF PeersInv
  <2> QED
    BY <2>2, <2>8, <2>9 DEF ShutdownOnlyWhenDone
<1>3. CASE j = NULL
  <2>1. /\ table' = t /\ active_peers' = act /\ inactive_peers' = ina \cup {c}
        /\ program' = IF act = {} /\ clients_started THEN "shutting_down" ELSE program
        /\ job' = [jb EXCEPT ![c] = NULL] /\ event' = ev
    BY <1>3 DEF assign_job
  <2>2. job' = jb
    <3>1. jb[c] = NULL /\ jb \in [Client -> Job \cup {NULL}]
      BY DEF PeersInv, Owned
    <3> QED
      BY <2>1, <3>1
  <2>3. PeersInv(table', active_peers', inactive_peers', job', event')
    BY <2>1, <2>2 DEF PeersInv, Owned, Listed, Outputs
  <2>4. clients_started => NoneOpen(t)
    BY <1>1, <1>3
  <2>5. WaitRule(table, active_peers, inactive_peers)'
    BY <2>1, <2>4 DEF WaitRule
  <2>6. ShutdownOnlyWhenDone'
    <3>1. act = {} /\ clients_started => \A i \in Job : t.state[i] = "DONE"
      BY <1>0, <2>4 DEF PeersInv, Owned, Table, JobState, NoneOpen
    <3> QED
      BY <2>1, <3>1 DEF ShutdownOnlyWhenDone
  <2> QED
    BY <2>1, <2>3, <2>5, <2>6
<1> QED
  BY <1>2, <1>3

-----------------------------------------------------------------------------
(* The handlers *)

(* Only an active peer has an event pending, and then the scan goes on.    *)
LEMMA ServedPeer ==
  ASSUME IInv, Serving, NEW c \in Client, event[c] # "none"
  PROVE  /\ c \in active_peers /\ c \notin inactive_peers
         /\ program = "serving" /\ clients_started
         /\ job[c] \in Job /\ table.state[job[c]] = "IN_PROCESSING"
         /\ client[c] # "away"
<1>1. c \in active_peers /\ c \notin inactive_peers
  BY DEF IInv, PeersInv, Listed
<1>2. job[c] \in Job /\ table.state[job[c]] = "IN_PROCESSING"
  BY <1>1 DEF IInv, PeersInv, Owned
<1>3. program = "serving"
  BY <1>2 DEF Serving, IInv, ShutdownOnlyWhenDone
<1>4. clients_started
  BY <1>1 DEF IInv, WaitRule
<1> QED
  BY <1>1, <1>2, <1>3, <1>4 DEF IInv

(* A peer gives up its job, which ends or is open again.                   *)
LEMMA WithoutPeer ==
  ASSUME IInv, NEW c \in active_peers, NEW u \in Table, CountersExact(u),
         NEW s \in {"DONE", "OPEN"}, NEW o \in {"NULL", "whole"}, s = "OPEN" => o = "NULL",
         \A i \in Job :
           /\ u.state[i] = IF i = job[c] THEN s ELSE table.state[i]
           /\ u.scan_output[i] = IF i = job[c] THEN o ELSE table.scan_output[i]
  PROVE  PeersInv(u, active_peers \ {c}, inactive_peers,
                  [job EXCEPT ![c] = NULL], [event EXCEPT ![c] = "none"])
<1> DEFINE jb == [job EXCEPT ![c] = NULL]
           ev == [event EXCEPT ![c] = "none"]
<1>0. /\ c \in Client /\ active_peers \subseteq Client /\ inactive_peers \subseteq Client
      /\ Owned(table, active_peers, job)
      /\ Listed(active_peers, inactive_peers, event)
      /\ Outputs(table, active_peers, job, event)
  BY DEF IInv, PeersInv
<1>1. /\ jb \in [Client -> Job \cup {NULL}]
      /\ \A d \in Client : jb[d] = IF d = c THEN NULL ELSE job[d]
  BY <1>0 DEF IInv, TypeOK
<1>2. /\ ev \in [Client -> Event]
      /\ \A d \in Client : ev[d] = IF d = c THEN "none" ELSE event[d]
  BY <1>0 DEF IInv, TypeOK, Event
<1> HIDE DEF jb, ev
<1>3. Owned(u, active_peers \ {c}, jb)
  <2>1. \A d \in active_peers \ {c} : jb[d] = job[d] /\ job[d] # job[c]
    BY <1>0, <1>1 DEF Owned
  <2>2. \A d \in Client : jb[d] # NULL <=> d \in active_peers \ {c}
    BY <1>0, <1>1 DEF Owned
  <2>3. \A d \in active_peers \ {c} : jb[d] \in Job /\ u.state[jb[d]] = "IN_PROCESSING"
    BY <1>0, <2>1 DEF Owned
  <2>4. \A i \in Job : u.state[i] = "IN_PROCESSING" =>
          \E d \in active_peers \ {c} : jb[d] = i
    BY <1>0, <2>1 DEF Owned
  <2> QED
    BY <1>0, <2>1, <2>2, <2>3, <2>4 DEF Owned
<1>4. Listed(active_peers \ {c}, inactive_peers, ev)
  BY <1>0, <1>2 DEF Listed
<1>5. Outputs(u, active_peers \ {c}, jb, ev)
  <2>1. OutputsWhole(u)
    BY <1>0 DEF Outputs, OutputsWhole
  <2>2. \A d \in active_peers \ {c} : /\ jb[d] = job[d] /\ job[d] # job[c] /\ job[d] \in Job
                                     /\ ev[d] = event[d]
    BY <1>0, <1>1, <1>2 DEF Owned
  <2> QED
    BY <1>0, <2>1, <2>2 DEF Outputs
<1> QED
  BY <1>0, <1>1, <1>2, <1>3, <1>4, <1>5 DEF PeersInv, jb, ev

(* The rest of the invariant after a handler that ends with assign_job.    *)
LEMMA HandlerInv ==
  ASSUME IInv,
         PeersInv(table', active_peers', inactive_peers', job', event'),
         WaitRule(table, active_peers, inactive_peers)',
         program' \in {"serving", "shutting_down"}, ShutdownOnlyWhenDone',
         clients_started' \in BOOLEAN,
         client' \in [Client -> Place], sent' \in [Client -> Seq(Message)],
         \A c \in Client : client'[c] = "away" =>
           c \notin active_peers' \cup inactive_peers'
  PROVE  IInv'
<1>1. TypeOK'
  BY DEF TypeOK, PeersInv, Program
<1> QED
  BY <1>1 DEF IInv

LEMMA AcceptIInv ==
  ASSUME IInv, NEW c \in Client, Accept(c)
  PROVE  IInv'
<1>1. /\ program = "serving" /\ client[c] = "away"
      /\ client' = [client EXCEPT ![c] = "connected"]
      /\ assign_job(c, table, active_peers, inactive_peers, job, event)
      /\ clients_started' = clients_started /\ sent' = sent
  BY DEF Accept
<1>2. c \notin active_peers \cup inactive_peers
  BY <1>1 DEF IInv
<1>3. PeersInv(table, active_peers, inactive_peers, job, event) /\ clients_started \in BOOLEAN
  BY DEF IInv, TypeOK
<1>4. /\ clients_started /\ inactive_peers # {} => NoneOpen(table)
      /\ ~clients_started => active_peers = {} /\ AllOpen(table)
  BY <1>1 DEF IInv, WaitRule
<1>5. /\ PeersInv(table', active_peers', inactive_peers', job', event')
      /\ WaitRule(table, active_peers, inactive_peers)'
      /\ program' \in {"serving", "shutting_down"}
      /\ ShutdownOnlyWhenDone'
      /\ active_peers' \cup inactive_peers' = active_peers \cup inactive_peers \cup {c}
  BY <1>1, <1>2, <1>3, <1>4, AssignJob DEF NoneOpen
<1>6. /\ client' \in [Client -> Place] /\ sent' \in [Client -> Seq(Message)]
      /\ \A d \in Client : client'[d] = IF d = c THEN "connected" ELSE client[d]
  BY <1>1 DEF IInv, TypeOK, Place
<1>7. \A d \in Client : client'[d] = "away" => d \notin active_peers' \cup inactive_peers'
  BY <1>5, <1>6 DEF IInv
<1> QED
  BY <1>1, <1>3, <1>5, <1>6, <1>7, HandlerInv

(* finish_job and recv_output.                                             *)
LEMMA NextJobIInv ==
  ASSUME IInv, NEW c \in Client, Serving, event[c] # "none",
         NEW t \in Table, CountersExact(t), t.state = table.state,
         NEW o \in {"NULL", "whole"},
         \A i \in Job : t.scan_output[i] = IF i = job[c] THEN o ELSE table.scan_output[i],
         NextJob(c, t), clients_started' = clients_started,
         client' = client, sent' \in [Client -> Seq(Message)]
  PROVE  IInv'
<1> DEFINE u == process_job(t, job[c], "DONE")
           act == active_peers \ {c}
           jb == [job EXCEPT ![c] = NULL]
           ev == [event EXCEPT ![c] = "none"]
<1>1. /\ c \in active_peers /\ c \notin inactive_peers
      /\ program = "serving" /\ clients_started
      /\ job[c] \in Job /\ table.state[job[c]] = "IN_PROCESSING" /\ client[c] # "away"
  BY ServedPeer
<1>2. /\ u \in Table /\ CountersExact(u)
      /\ \A i \in Job : u.state[i] = IF i = job[c] THEN "DONE" ELSE table.state[i]
      /\ u.scan_output = t.scan_output
  BY <1>1, ProcessJob
<1>3. assign_job(c, u, act, inactive_peers, jb, ev)
  BY DEF NextJob
<1> HIDE DEF u, jb, ev
<1>4. PeersInv(u, act, inactive_peers, jb, ev)
  <2>1. \A i \in Job : u.scan_output[i] = IF i = job[c] THEN o ELSE table.scan_output[i]
    BY <1>2
  <2> QED
    BY <1>1, <1>2, <2>1, WithoutPeer DEF jb, ev
<1>5. clients_started /\ inactive_peers # {} => NoneOpen(u)
  BY <1>1, <1>2 DEF IInv, WaitRule, NoneOpen
<1>6. /\ PeersInv(table', active_peers', inactive_peers', job', event')
      /\ WaitRule(table, active_peers, inactive_peers)'
      /\ program' \in {"serving", "shutting_down"}
      /\ ShutdownOnlyWhenDone'
      /\ active_peers' \cup inactive_peers' = act \cup inactive_peers \cup {c}
  BY <1>1, <1>3, <1>4, <1>5, AssignJob DEF NoneOpen
<1>7. client' \in [Client -> Place] /\ clients_started' \in BOOLEAN
  BY DEF IInv, TypeOK
<1>8. \A d \in Client : client'[d] = "away" => d \notin active_peers' \cup inactive_peers'
  BY <1>1, <1>6 DEF IInv
<1> QED
  BY <1>6, <1>7, <1>8, HandlerInv

LEMMA KillPeerIInv ==
  ASSUME IInv, NEW c \in Client, KillPeer(c)
  PROVE  IInv'
<1> DEFINE u == reopened(c)
           act == active_peers \ {c}
           jb == [job EXCEPT ![c] = NULL]
           ev == [event EXCEPT ![c] = "none"]
<1>0. /\ Serving /\ event[c] # "none" /\ client' = client /\ sent' = sent
      /\ clients_started' = clients_started
      /\ \/ \E d \in inactive_peers :
             assign_job(d, u, act, inactive_peers \ {d}, jb, ev)
         \/ /\ inactive_peers = {} /\ inactive_peers' = inactive_peers
            /\ table' = u /\ active_peers' = act /\ job' = jb /\ event' = ev
            /\ program' = program
  BY DEF KillPeer
<1>1. /\ c \in active_peers /\ c \notin inactive_peers
      /\ program = "serving" /\ clients_started
      /\ job[c] \in Job /\ table.state[job[c]] = "IN_PROCESSING" /\ client[c] # "away"
  BY <1>0, ServedPeer
<1>2. /\ u \in Table /\ CountersExact(u)
      /\ \A i \in Job :
           /\ u.state[i] = IF i = job[c] THEN "OPEN" ELSE table.state[i]
           /\ u.scan_output[i] = IF i = job[c] THEN "NULL" ELSE table.scan_output[i]
  <2> DEFINE t == [table EXCEPT !.scan_output[job[c]] = "NULL"]
  <2>1. table \in Table /\ CountersExact(table) /\ "NULL" \in Output
    BY DEF IInv, PeersInv, Output
  <2>2. /\ t \in Table /\ CountersExact(t) /\ t.state = table.state
        /\ \A i \in Job : t.scan_output[i] = IF i = job[c] THEN "NULL" ELSE table.scan_output[i]
    BY <1>1, <2>1, OutputSet
  <2>3. u = process_job(t, job[c], "OPEN")
    BY DEF reopened
  <2> HIDE DEF t, u
  <2>4. /\ u \in Table /\ CountersExact(u) /\ u.scan_output = t.scan_output
        /\ \A i \in Job : u.state[i] = IF i = job[c] THEN "OPEN" ELSE t.state[i]
    BY <1>1, <2>2, <2>3, ProcessJob
  <2> QED
    BY <2>2, <2>4
<1> HIDE DEF u, jb, ev
<1>3. PeersInv(u, act, inactive_peers, jb, ev)
  BY <1>1, <1>2, WithoutPeer DEF jb, ev
<1>4. clients_started' \in BOOLEAN /\ client' \in [Client -> Place] /\ sent' \in [Client -> Seq(Message)]
  BY <1>0 DEF IInv, TypeOK
<1>5. CASE \E d \in inactive_peers : assign_job(d, u, act, inactive_peers \ {d}, jb, ev)
  <2>1. PICK d \in inactive_peers : assign_job(d, u, act, inactive_peers \ {d}, jb, ev)
    BY <1>5
  <2>2. PeersInv(u, act, inactive_peers \ {d}, jb, ev)
    BY <1>3 DEF PeersInv, Listed
  <2>3. d \in Client /\ d \notin act \cup (inactive_peers \ {d})
    BY DEF IInv, PeersInv, Listed
  <2>4. \A i, k \in Job : u.state[i] = "OPEN" /\ u.state[k] = "OPEN" => i = k
    BY <1>1, <1>2 DEF IInv, WaitRule, NoneOpen
  <2>5. /\ PeersInv(table', active_peers', inactive_peers', job', event')
        /\ WaitRule(table, active_peers, inactive_peers)'
        /\ program' \in {"serving", "shutting_down"}
        /\ ShutdownOnlyWhenDone'
        /\ active_peers' \cup inactive_peers' = act \cup (inactive_peers \ {d}) \cup {d}
    BY <1>0, <1>1, <2>1, <2>2, <2>3, <2>4, AssignJob
  <2>6. \A e \in Client : client'[e] = "away" => e \notin active_peers' \cup inactive_peers'
    BY <1>0, <2>5 DEF IInv
  <2> QED
    BY <1>4, <2>5, <2>6, HandlerInv
<1>6. CASE /\ inactive_peers = {} /\ inactive_peers' = inactive_peers
           /\ table' = u /\ active_peers' = act /\ job' = jb /\ event' = ev
           /\ program' = program
  <2>1. PeersInv(table', active_peers', inactive_peers', job', event')
    BY <1>3, <1>6
  <2>2. WaitRule(table, active_peers, inactive_peers)' /\ ShutdownOnlyWhenDone'
    BY <1>0, <1>1, <1>6 DEF WaitRule, ShutdownOnlyWhenDone
  <2>3. \A e \in Client : client'[e] = "away" => e \notin active_peers' \cup inactive_peers'
    BY <1>0, <1>6 DEF IInv
  <2> QED
    BY <1>1, <1>4, <1>6, <2>1, <2>2, <2>3, HandlerInv
<1> QED
  BY <1>0, <1>5, <1>6

LEMMA ReadTypes ==
  ASSUME IInv, NEW c \in Client, NEW kind, NEW message, Reads(c, kind, message)
  PROVE  Serving /\ event[c] = kind /\ sent' \in [Client -> Seq(Message)]
<1>1. Serving /\ event[c] = kind /\ sent[c] # << >> /\ sent' = [sent EXCEPT ![c] = Tail(@)]
  BY DEF Reads
<1>2. sent \in [Client -> Seq(Message)]
  BY DEF IInv, TypeOK
<1>3. Tail(sent[c]) \in Seq(Message)
  BY <1>1, <1>2, HeadTailProperties
<1> QED
  BY <1>1, <1>2, <1>3

LEMMA RecvIInv ==
  ASSUME IInv, NEW c \in Client,
         RecvNoOutput(c) \/ FinishJob(c)
  PROVE  IInv'
<1>0. table \in Table /\ CountersExact(table)
  BY DEF IInv, PeersInv
<1>1. CASE RecvNoOutput(c)
  <2>1. /\ Serving /\ event[c] = "read_length" /\ sent' \in [Client -> Seq(Message)]
        /\ NextJob(c, table) /\ clients_started' = clients_started /\ client' = client
    BY <1>1, ReadTypes DEF RecvNoOutput
  <2>2. job[c] \in Job /\ c \in active_peers
    BY <2>1, ServedPeer
  <2>3. table.scan_output[job[c]] = "NULL"
    BY <2>1, <2>2 DEF IInv, PeersInv, Outputs
  <2>4. \A i \in Job : table.scan_output[i] = IF i = job[c] THEN "NULL" ELSE table.scan_output[i]
    BY <2>3
  <2> QED
    BY <1>0, <2>1, <2>4, NextJobIInv
<1>2. CASE FinishJob(c)
  <2> DEFINE t == [table EXCEPT !.scan_output[job[c]] = "whole"]
  <2>1. /\ Serving /\ event[c] = "read_output" /\ sent' \in [Client -> Seq(Message)]
        /\ NextJob(c, t) /\ clients_started' = clients_started /\ client' = client
    BY <1>2, ReadTypes DEF FinishJob
  <2>2. job[c] \in Job
    BY <2>1, ServedPeer
  <2>3. /\ t \in Table /\ CountersExact(t) /\ t.state = table.state
        /\ \A i \in Job : t.scan_output[i] = IF i = job[c] THEN "whole" ELSE table.scan_output[i]
    BY <1>0, <2>2, OutputSet DEF Output
  <2> HIDE DEF t
  <2> QED
    BY <2>1, <2>3, NextJobIInv
<1> QED
  BY <1>1, <1>2

LEMMA RecvLengthIInv ==
  ASSUME IInv, NEW c \in Client, RecvLength(c)
  PROVE  IInv'
<1>1. /\ Serving /\ event[c] = "read_length" /\ sent' \in [Client -> Seq(Message)]
      /\ table' = [table EXCEPT !.scan_output[job[c]] = "partial"]
      /\ event' = [event EXCEPT ![c] = "read_output"]
      /\ program' = program /\ clients_started' = clients_started
      /\ active_peers' = active_peers /\ inactive_peers' = inactive_peers
      /\ job' = job /\ client' = client
  BY ReadTypes DEF RecvLength
<1>2. /\ c \in active_peers /\ program = "serving"
      /\ job[c] \in Job /\ table.state[job[c]] = "IN_PROCESSING"
  BY <1>1, ServedPeer
<1>3. table \in Table /\ CountersExact(table) /\ "partial" \in Output
  BY DEF IInv, PeersInv, Output
<1>4. /\ table' \in Table /\ CountersExact(table') /\ table'.state = table.state
      /\ \A i \in Job : table'.scan_output[i] = IF i = job[c] THEN "partial" ELSE table.scan_output[i]
  BY <1>1, <1>2, <1>3, OutputSet
<1>5. /\ event' \in [Client -> Event]
      /\ \A d \in Client : event'[d] = IF d = c THEN "read_output" ELSE event[d]
  BY <1>1 DEF IInv, TypeOK, Event
<1>6. /\ Owned(table', active_peers', job')
      /\ Listed(active_peers', inactive_peers', event')
  BY <1>1, <1>2, <1>4, <1>5 DEF IInv, PeersInv, Owned, Listed
<1>7. Outputs(table', active_peers', job', event')
  <2>1. OutputsWhole(table')
    BY <1>2, <1>4 DEF IInv, PeersInv, Outputs, OutputsWhole
  <2>2. \A d \in active_peers \ {c} : job[d] \in Job /\ job[d] # job[c] /\ d \in Client
    BY <1>2 DEF IInv, PeersInv, Owned
  <2>3. \A d \in active_peers \ {c} :
          event'[d] # "read_output" => table'.scan_output[job'[d]] = "NULL"
    BY <1>1, <1>4, <1>5, <2>2 DEF IInv, PeersInv, Outputs
  <2> QED
    BY <1>1, <1>2, <1>5, <2>1, <2>3 DEF Outputs
<1>8. PeersInv(table', active_peers', inactive_peers', job', event')
  BY <1>1, <1>4, <1>5, <1>6, <1>7 DEF IInv, PeersInv
<1>9. WaitRule(table, active_peers, inactive_peers)' /\ ShutdownOnlyWhenDone'
  BY <1>1, <1>2, <1>4 DEF IInv, WaitRule, NoneOpen, AllOpen, ShutdownOnlyWhenDone
<1> QED
  BY <1>1, <1>2, <1>8, <1>9, HandlerInv DEF IInv, TypeOK

LEMMA SendPathIInv ==
  ASSUME IInv, NEW c \in Client, SendPath(c)
  PROVE  IInv'
<1>1. /\ Serving /\ event[c] = "send_path"
      /\ event' = [event EXCEPT ![c] = "read_length"]
      /\ client' = [client EXCEPT ![c] = IF @ = "connected" THEN "scanning" ELSE @]
      /\ table' = table /\ program' = program /\ clients_started' = clients_started
      /\ active_peers' = active_peers /\ inactive_peers' = inactive_peers
      /\ job' = job /\ sent' = sent
  BY DEF SendPath
<1>2. c \in active_peers /\ program = "serving"
  BY <1>1, ServedPeer
<1>3. /\ event' \in [Client -> Event]
      /\ \A d \in Client : event'[d] = IF d = c THEN "read_length" ELSE event[d]
  BY <1>1 DEF IInv, TypeOK, Event
<1>4. /\ client' \in [Client -> Place]
      /\ \A d \in Client : client'[d] = "away" => client[d] = "away"
  BY <1>1 DEF IInv, TypeOK, Place
<1>5. Listed(active_peers', inactive_peers', event')
  BY <1>1, <1>2, <1>3 DEF IInv, PeersInv, Listed
<1>6. Outputs(table', active_peers', job', event')
  BY <1>1, <1>2, <1>3 DEF IInv, PeersInv, Outputs
<1>7. PeersInv(table', active_peers', inactive_peers', job', event')
  BY <1>1, <1>3, <1>5, <1>6 DEF IInv, PeersInv
<1>8. WaitRule(table, active_peers, inactive_peers)' /\ ShutdownOnlyWhenDone'
  BY <1>1 DEF IInv, WaitRule, ShutdownOnlyWhenDone
<1> QED
  BY <1>1, <1>2, <1>4, <1>7, <1>8, HandlerInv DEF IInv, TypeOK

LEMMA MinPair ==
  ASSUME NEW a \in Nat, NEW b \in Nat
  PROVE  Min({a, b}) = IF a <= b THEN a ELSE b
<1>1. {a, b} \in SUBSET Nat /\ {a, b} # {}
  OBVIOUS
<1>2. Min({a, b}) \in {a, b} /\ \A y \in {a, b} : Min({a, b}) <= y
  BY <1>1, MinExists
<1> QED
  BY <1>2

(* child_handler serves as many peers as there are, or as many as there    *)
(* are jobs.                                                               *)
LEMMA ScriptServes ==
  ASSUME IInv, NEW g \in script_serves
  PROVE  /\ DOMAIN g \subseteq inactive_peers
         /\ \A c \in DOMAIN g : g[c] \in Job
         /\ \A c, d \in DOMAIN g : g[c] = g[d] => c = d
         /\ \/ DOMAIN g = inactive_peers
            \/ \A i \in Job : \E c \in DOMAIN g : g[c] = i
<1> DEFINE P == DOMAIN g
           n == Cardinality(inactive_peers)
           k == Min({n, len_jobs})
<1>1. /\ P \in SUBSET inactive_peers /\ g \in [P -> Job]
      /\ \A c, d \in P : g[c] = g[d] => c = d
      /\ {g[c] : c \in P} = 1 .. k
  BY DEF script_serves
<1>2. IsFiniteSet(inactive_peers) /\ n \in Nat
  BY ClientAssumption, FS_Subset, FS_CardinalityType DEF IInv, TypeOK
<1>3. k = IF n <= len_jobs THEN n ELSE len_jobs
  BY <1>2, MinPair, LenAssumption
<1>4. CASE k = len_jobs
  <2>1. \A i \in Job : i \in {g[c] : c \in P}
    BY <1>1, <1>4 DEF Job
  <2> QED
    BY <1>1, <2>1
<1>5. CASE k = n
  <2>1. g \in Surjection(P, 1 .. k)
    BY <1>1 DEF Surjection
  <2>2. IsFiniteSet(P)
    BY <1>1, <1>2, FS_Subset
  <2> HIDE DEF P
  <2>3. Cardinality(1 .. k) <= Cardinality(P)
    BY <2>1, <2>2, FS_Surjection
  <2>4. Cardinality(1 .. k) = n
    BY <1>2, <1>5, FS_Interval
  <2>5. Cardinality(P) <= n /\ (Cardinality(P) = n => P = inactive_peers)
    BY <1>1, <1>2, FS_Subset
  <2>6. Cardinality(P) \in Nat
    BY <2>2, FS_CardinalityType
  <2>7. P = inactive_peers
    BY <1>2, <2>3, <2>4, <2>5, <2>6
  <2> QED
    BY <1>1, <2>7 DEF P
<1> QED
  BY <1>3, <1>4, <1>5

LEMMA ScriptDoneIInv ==
  ASSUME IInv, ScriptDone
  PROVE  IInv'
<1>0. /\ program = "serving" /\ ~clients_started /\ clients_started' = TRUE
      /\ client' = client /\ sent' = sent
  BY DEF ScriptDone
<1>1. PICK g \in script_serves :
        /\ table' = [table EXCEPT !.state = [i \in Job |->
                       IF \E c \in DOMAIN g : g[c] = i THEN "IN_PROCESSING" ELSE @[i]]]
        /\ active_peers' = DOMAIN g
        /\ inactive_peers' = inactive_peers \ DOMAIN g
        /\ job' = [c \in Client |-> IF c \in DOMAIN g THEN g[c] ELSE NULL]
        /\ event' = [c \in Client |-> IF c \in DOMAIN g THEN "send_path" ELSE "none"]
        /\ program' = IF inactive_peers # {} /\ DOMAIN g = {}
                      THEN "shutting_down" ELSE program
  BY DEF ScriptDone
<1>2. /\ DOMAIN g \subseteq inactive_peers /\ inactive_peers \subseteq Client
      /\ \A c \in DOMAIN g : g[c] \in Job
      /\ \A c, d \in DOMAIN g : g[c] = g[d] => c = d
      /\ \/ DOMAIN g = inactive_peers
         \/ \A i \in Job : \E c \in DOMAIN g : g[c] = i
  BY ScriptServes DEF IInv, TypeOK
<1>3. /\ active_peers = {} /\ AllOpen(table) /\ table \in Table
      /\ CountersExact(table) /\ OutputsWhole(table)
  BY <1>0 DEF IInv, WaitRule, PeersInv, Outputs
<1>4. /\ table' \in Table
      /\ \A i \in Job : table'.state[i] =
            IF \E c \in DOMAIN g : g[c] = i THEN "IN_PROCESSING" ELSE "OPEN"
      /\ table'.scan_output = table.scan_output
      /\ table'.first_undone_job = table.first_undone_job
      /\ table'.done_jobs = table.done_jobs
  <2> DEFINE new == [i \in Job |-> IF \E c \in DOMAIN g : g[c] = i
                                   THEN "IN_PROCESSING" ELSE table.state[i]]
  <2>1. table' = [table EXCEPT !.state = new]
    BY <1>1
  <2>2. new \in [Job -> JobState]
    BY <1>3 DEF AllOpen, JobState
  <2>3. \A i \in Job : new[i] = IF \E c \in DOMAIN g : g[c] = i THEN "IN_PROCESSING" ELSE "OPEN"
    BY <1>3 DEF AllOpen
  <2> HIDE DEF new
  <2> QED
    BY <1>3, <2>1, <2>2, <2>3 DEF Table
<1>5. CountersExact(table')
  BY <1>3, <1>4, SameDone DEF AllOpen
<1>6. /\ job' \in [Client -> Job \cup {NULL}]
      /\ \A c \in DOMAIN g : job'[c] = g[c]
      /\ \A c \in Client \ DOMAIN g : job'[c] = NULL
  BY <1>1, <1>2
<1>a. /\ event' \in [Client -> Event]
      /\ \A c \in DOMAIN g : event'[c] = "send_path"
      /\ \A c \in Client \ DOMAIN g : event'[c] = "none"
  BY <1>1, <1>2 DEF Event
<1>7. Owned(table', active_peers', job')
  <2>1. \A c \in Client : job'[c] # NULL <=> c \in DOMAIN g
    BY <1>2, <1>6, NullAssumption
  <2>2. \A c \in DOMAIN g : job'[c] \in Job /\ table'.state[job'[c]] = "IN_PROCESSING"
    BY <1>2, <1>4, <1>6
  <2>3. \A i \in Job : table'.state[i] = "IN_PROCESSING" => \E c \in DOMAIN g : job'[c] = i
    BY <1>4, <1>6
  <2> QED
    BY <1>1, <1>2, <1>6, <2>1, <2>2, <2>3 DEF Owned
<1>8. Listed(active_peers', inactive_peers', event')
  BY <1>1, <1>2, <1>a DEF Listed
<1>9. Outputs(table', active_peers', job', event')
  <2>1. \A i \in Job : table'.scan_output[i] = "NULL"
    BY <1>3, <1>4 DEF AllOpen, OutputsWhole
  <2>2. \A i \in Job : table'.state[i] # "DONE"
    BY <1>4
  <2> QED
    BY <1>1, <1>2, <1>6, <2>1, <2>2 DEF Outputs, OutputsWhole
<1>10. PeersInv(table', active_peers', inactive_peers', job', event')
  BY <1>1, <1>2, <1>4, <1>5, <1>6, <1>a, <1>7, <1>8, <1>9 DEF PeersInv
<1>11. WaitRule(table, active_peers, inactive_peers)'
  BY <1>0, <1>1, <1>2, <1>4 DEF WaitRule, NoneOpen
<1>12. ShutdownOnlyWhenDone' /\ program' \in {"serving", "shutting_down"}
  BY <1>0, <1>1, <1>2 DEF ShutdownOnlyWhenDone
<1>13. client' \in [Client -> Place] /\ sent' \in [Client -> Seq(Message)]
  BY <1>0 DEF IInv, TypeOK
<1>14. \A c \in Client : client'[c] = "away" => c \notin active_peers' \cup inactive_peers'
  BY <1>0, <1>1, <1>2 DEF IInv
<1> QED
  BY <1>0, <1>10, <1>11, <1>12, <1>13, <1>14, HandlerInv

-----------------------------------------------------------------------------
(* Standalone mode, the end, and what is not the master's                  *)

LEMMA StandaloneIInv ==
  ASSUME IInv, StandaloneScan
  PROVE  IInv'
<1> DEFINE j == get_job(table)
           t == taken(table, j)
<1>1. PICK output \in {"NULL", "whole"} :
        table' = process_job([t EXCEPT !.scan_output[j] = output], j, "DONE")
  BY DEF StandaloneScan
<1>2. /\ program = "alone" /\ j # NULL
      /\ program' = program /\ clients_started' = clients_started
      /\ active_peers' = active_peers /\ inactive_peers' = inactive_peers
      /\ job' = job /\ event' = event /\ client' = client /\ sent' = sent
  BY DEF StandaloneScan
<1>3. active_peers = {} /\ inactive_peers = {}
  BY <1>2 DEF IInv
<1>4. table \in Table /\ CountersExact(table) /\ table.first_undone_job = Min(Undone(table))
  BY DEF IInv, PeersInv, CountersExact, Undone
<1>5. j \in Job /\ table.state[j] = "OPEN"
  BY <1>2, <1>4, GetJob
<1> HIDE DEF j
<1>6. /\ t \in Table /\ CountersExact(t)
      /\ \A i \in Job :
           /\ t.state[i] = IF i = j THEN "IN_PROCESSING" ELSE table.state[i]
           /\ t.scan_output[i] = IF i = j THEN "NULL" ELSE table.scan_output[i]
  BY <1>4, <1>5, TakenFacts
<1> HIDE DEF t
<1> DEFINE u == [t EXCEPT !.scan_output[j] = output]
<1>7. /\ u \in Table /\ CountersExact(u) /\ u.state = t.state
      /\ \A i \in Job : u.scan_output[i] = IF i = j THEN output ELSE t.scan_output[i]
  <2>1. output \in Output
    BY <1>1 DEF Output
  <2> QED
    BY <1>5, <1>6, <2>1, OutputSet
<1>8. table' = process_job(u, j, "DONE")
  BY <1>1
<1> HIDE DEF u
<1>9. /\ table' \in Table /\ CountersExact(table') /\ table'.scan_output = u.scan_output
      /\ \A i \in Job : table'.state[i] = IF i = j THEN "DONE" ELSE u.state[i]
  BY <1>5, <1>6, <1>7, <1>8, ProcessJob
<1>10. \A i \in Job :
         /\ table'.state[i] = IF i = j THEN "DONE" ELSE table.state[i]
         /\ table'.scan_output[i] = IF i = j THEN output ELSE table.scan_output[i]
  BY <1>6, <1>7, <1>9
<1>11. Owned(table', active_peers', job')
  BY <1>2, <1>3, <1>10 DEF IInv, PeersInv, Owned
<1>12. Outputs(table', active_peers', job', event')
  BY <1>2, <1>3, <1>10 DEF IInv, PeersInv, Outputs, OutputsWhole
<1>13. PeersInv(table', active_peers', inactive_peers', job', event')
  BY <1>2, <1>9, <1>11, <1>12 DEF IInv, PeersInv
<1>14. WaitRule(table, active_peers, inactive_peers)' /\ ShutdownOnlyWhenDone'
  BY <1>2, <1>3 DEF WaitRule, ShutdownOnlyWhenDone
<1> QED
  BY <1>2, <1>9, <1>13, <1>14 DEF IInv, TypeOK

LEMMA EndIInv ==
  ASSUME IInv, ScriptFailed \/ WriteJobs \/ StandaloneEnds
  PROVE  IInv'
<1>1. /\ table' = table /\ clients_started' = clients_started
      /\ active_peers' = active_peers /\ inactive_peers' = inactive_peers
      /\ job' = job /\ event' = event /\ client' = client /\ sent' = sent
      /\ program' \in {"failed", "exited"}
  BY DEF ScriptFailed, WriteJobs, StandaloneEnds
<1>2. PeersInv(table', active_peers', inactive_peers', job', event')
  BY <1>1 DEF IInv
<1>3. WaitRule(table, active_peers, inactive_peers)'
  BY <1>1 DEF IInv, WaitRule, NoneOpen
<1>4. ShutdownOnlyWhenDone'
  <2>1. CASE ScriptFailed
    BY <2>1 DEF ScriptFailed, ShutdownOnlyWhenDone
  <2>2. CASE WriteJobs
    BY <2>2 DEF WriteJobs, IInv, ShutdownOnlyWhenDone
  <2>3. CASE StandaloneEnds
    <3>1. active_peers = {} /\ get_job(table) = NULL
      BY <2>3 DEF StandaloneEnds, IInv
    <3>2. table \in Table /\ table.first_undone_job = Min(Undone(table))
      BY DEF IInv, PeersInv, CountersExact, Undone
    <3>3. \A i \in Job : table.state[i] # "OPEN"
      BY <3>1, <3>2, GetJob
    <3>4. \A i \in Job : table.state[i] # "IN_PROCESSING"
      BY <3>1 DEF IInv, PeersInv, Owned
    <3>5. \A i \in Job : table.state[i] = "DONE"
      BY <3>2, <3>3, <3>4 DEF Table, JobState
    <3> QED
      BY <1>1, <3>5 DEF ShutdownOnlyWhenDone
  <2> QED
    BY <2>1, <2>2, <2>3
<1> QED
  BY <1>1, <1>2, <1>3, <1>4 DEF IInv, TypeOK, Program

(* The clients and the network change nothing of the master's.             *)
LEMMA ClientIInv ==
  ASSUME IInv, NEW c \in Client, SendLength(c) \/ SendOutput(c) \/ LoseClient(c)
  PROVE  IInv'
<1>1. /\ table' = table /\ program' = program /\ clients_started' = clients_started
      /\ active_peers' = active_peers /\ inactive_peers' = inactive_peers
      /\ job' = job /\ event' = event
  BY DEF SendLength, SendOutput, LoseClient
<1>2. /\ client' \in [Client -> Place]
      /\ \A d \in Client : client'[d] = "away" => client[d] = "away"
  <2>1. PICK p \in {"connected", "sending", "gone"} : client' = [client EXCEPT ![c] = p]
    BY DEF SendLength, SendOutput, LoseClient
  <2> QED
    BY <2>1 DEF IInv, TypeOK, Place
<1>3. sent' \in [Client -> Seq(Message)]
  <2>0. sent \in [Client -> Seq(Message)]
    BY DEF IInv, TypeOK
  <2>1. CASE SendLength(c) \/ SendOutput(c)
    <3>1. PICK m \in Message : sent' = [sent EXCEPT ![c] = Append(@, m)]
      BY <2>1 DEF SendLength, SendOutput, Message
    <3>2. Append(sent[c], m) \in Seq(Message)
      BY <2>0, AppendProperties
    <3> QED
      BY <2>0, <3>1, <3>2
  <2>2. CASE LoseClient(c)
    <3>1. PICK n \in 0 .. Len(sent[c]) : sent' = [sent EXCEPT ![c] = SubSeq(@, 1, n)]
      BY <2>2 DEF LoseClient
    <3>2. /\ Len(sent[c]) \in Nat /\ n \in Int
          /\ \A i \in 1 .. n : sent[c][i] \in Message
      BY <2>0, LenProperties
    <3>3. SubSeq(sent[c], 1, n) \in Seq(Message)
      BY <3>2, SubSeqProperties
    <3> QED
      BY <2>0, <3>1, <3>3
  <2> QED
    BY <2>1, <2>2
<1>4. /\ PeersInv(table', active_peers', inactive_peers', job', event')
      /\ WaitRule(table, active_peers, inactive_peers)' /\ ShutdownOnlyWhenDone'
  BY <1>1 DEF IInv, WaitRule, ShutdownOnlyWhenDone
<1> QED
  BY <1>1, <1>2, <1>3, <1>4 DEF IInv, TypeOK

-----------------------------------------------------------------------------
(* The theorems *)

LEMMA InitIInv ==
  Init => IInv
<1> SUFFICES ASSUME Init
             PROVE  IInv
  OBVIOUS
<1>0. /\ table = add_jobs /\ program \in {"alone", "serving"}
      /\ clients_started \in BOOLEAN
      /\ active_peers = {} /\ inactive_peers = {}
      /\ job = [c \in Client |-> NULL] /\ event = [c \in Client |-> "none"]
      /\ client = [c \in Client |-> "away"] /\ sent = [c \in Client |-> << >>]
  BY StartScriptAssumption DEF Init
<1>1. /\ table.state = [i \in Job |-> "OPEN"] /\ table.scan_output = [i \in Job |-> "NULL"]
      /\ table.first_undone_job = 1 /\ table.done_jobs = 0
      /\ table \in Table
  BY <1>0, LenAssumption DEF add_jobs, Table, JobState, Output
<1>2. CountersExact(table)
  <2>1. 1 \in Undone(table)
    BY <1>1, LenAssumption DEF Undone, Job
  <2>2. Min(Undone(table)) = 1
    BY <2>1, UndoneMin, LenAssumption
  <2>3. {i \in Job : table.state[i] = "DONE"} = {}
    BY <1>1
  <2> QED
    BY <1>1, <2>2, <2>3, FS_EmptySet DEF CountersExact, Undone
<1>3. << >> \in Seq(Message)
  OBVIOUS
<1>4. TypeOK
  BY <1>0, <1>1, <1>3 DEF TypeOK, Program, Event, Place
<1>5. PeersInv(table, active_peers, inactive_peers, job, event)
  BY <1>0, <1>1, <1>2, <1>4 DEF PeersInv, TypeOK, Owned, Listed, Outputs, OutputsWhole
<1>6. WaitRule(table, active_peers, inactive_peers) /\ ShutdownOnlyWhenDone
  BY <1>0, <1>1 DEF WaitRule, AllOpen, ShutdownOnlyWhenDone
<1> QED
  BY <1>0, <1>4, <1>5, <1>6 DEF IInv

LEMMA NextIInv ==
  IInv /\ [Next]_vars => IInv'
<1> SUFFICES ASSUME IInv, [Next]_vars
             PROVE  IInv'
  OBVIOUS
<1>1. ASSUME NEW c \in Client, Accept(c)
      PROVE  IInv'
  BY <1>1, AcceptIInv
<1>2. ASSUME NEW c \in Client, SendPath(c)
      PROVE  IInv'
  BY <1>2, SendPathIInv
<1>3. ASSUME NEW c \in Client, RecvNoOutput(c) \/ FinishJob(c)
      PROVE  IInv'
  BY <1>3, RecvIInv
<1>4. ASSUME NEW c \in Client, RecvLength(c)
      PROVE  IInv'
  BY <1>4, RecvLengthIInv
<1>5. ASSUME NEW c \in Client, KillPeer(c)
      PROVE  IInv'
  BY <1>5, KillPeerIInv
<1>6. ASSUME NEW c \in Client, SendLength(c) \/ SendOutput(c) \/ LoseClient(c)
      PROVE  IInv'
  BY <1>6, ClientIInv
<1>7. CASE ScriptDone
  BY <1>7, ScriptDoneIInv
<1>8. CASE ScriptFailed \/ WriteJobs \/ StandaloneEnds
  BY <1>8, EndIInv
<1>9. CASE StandaloneScan
  BY <1>9, StandaloneIInv
<1>10. CASE UNCHANGED vars
  BY <1>10 DEF vars, IInv, TypeOK, WaitRule, ShutdownOnlyWhenDone
<1> QED
  BY <1>1, <1>2, <1>3, <1>4, <1>5, <1>6, <1>7, <1>8, <1>9, <1>10 DEF Next

(* IInv holds in every reachable state.                                    *)
THEOREM Invariance == Spec => []IInv
BY InitIInv, NextIInv, PTL DEF Spec

(* For every number of locations and of clients, in both modes: get_job    *)
(* searches from the right place, done_jobs is right, no broken off output *)
(* is kept, and a location is in processing exactly while one peer has it. *)
THEOREM JobsAlwaysSound == Spec => []JobsSound
<1>1. IInv => JobsSound
  <2> SUFFICES ASSUME IInv
               PROVE  JobsSound
    OBVIOUS
  <2>1. /\ table \in Table /\ CountersExact(table) /\ OutputsWhole(table)
        /\ Owned(table, active_peers, job)
    BY DEF IInv, PeersInv, Outputs
  <2>2. {job[c] : c \in active_peers} = {i \in Job : table.state[i] = "IN_PROCESSING"}
    BY <2>1 DEF Owned
  <2> QED
    BY <2>1, <2>2 DEF JobsSound, Owned
<1> QED
  BY <1>1, Invariance, PTL

(* No peer waits next to an open location, and none is served before the   *)
(* end of the start script: kill_peer hands the job of a lost client on,   *)
(* and child_handler leaves neither peers nor jobs over.                   *)
THEOREM NeverIdleWhileOpen == Spec => []NoIdleWhileOpen
<1>1. IInv => NoIdleWhileOpen
  <2> SUFFICES ASSUME IInv
               PROVE  NoIdleWhileOpen
    OBVIOUS
  <2>1. table \in Table /\ table.first_undone_job = Min(Undone(table))
    BY DEF IInv, PeersInv, CountersExact, Undone
  <2>2. get_job(table) = NULL <=> NoneOpen(table)
    BY <2>1, GetJob DEF NoneOpen
  <2> QED
    BY <2>2 DEF IInv, WaitRule, NoIdleWhileOpen
<1> QED
  BY <1>1, Invariance, PTL

(* The file is written only when every location is scanned, whichever      *)
(* clients are lost and at whatever moment the last one asks.              *)
THEOREM NeverShutDownEarly == Spec => []ShutdownOnlyWhenDone
<1>1. IInv => ShutdownOnlyWhenDone
  BY DEF IInv
<1> QED
  BY <1>1, Invariance, PTL
-----------------------------------------------------------------------------
(* The file *)

(* Both folds of write_jobs apply one function after the other, F[1] first, *)
(* to values in A.  As FoldLeft does it, the result is a recursive function *)
(* on sets of places; it exists for one set 1 .. k after the other.         *)
IsFold(g, base, F, n) ==
  g = [S \in SUBSET (1 .. n) |->
         IF S = {} THEN base ELSE F[Max(S)][g[S \ {Max(S)}]]]

LEMMA MaxUpTo ==
  ASSUME NEW n \in Nat, NEW S \in SUBSET (1 .. n), n \in S
  PROVE  Max(S) = n
<1>1. n \in S /\ \A y \in S : n >= y
  OBVIOUS
<1>2. Max(S) \in S /\ \A y \in S : Max(S) >= y
  BY <1>1 DEF Max
<1>3. Max(S) >= n /\ n >= Max(S) /\ Max(S) \in 1 .. n
  BY <1>1, <1>2
<1> QED
  BY <1>3

LEMMA FoldGrows ==
  ASSUME NEW A, NEW base \in A, NEW N \in Nat, NEW F \in [1 .. N -> [A -> A]],
         NEW n \in 1 .. N,
         NEW g \in [SUBSET (1 .. n - 1) -> A], IsFold(g, base, F, n - 1)
  PROVE  \E h \in [SUBSET (1 .. n) -> A] : IsFold(h, base, F, n)
<1> DEFINE value(S) == IF n \notin S THEN g[S] ELSE F[n][g[S \ {n}]]
           h == [S \in SUBSET (1 .. n) |-> value(S)]
<1>1. \A S \in SUBSET (1 .. n) : S \ {n} \in SUBSET (1 .. n - 1) /\ S \ {n} \in SUBSET (1 .. n)
  OBVIOUS
<1>2. \A S \in SUBSET (1 .. n - 1) :
        g[S] = IF S = {} THEN base ELSE F[Max(S)][g[S \ {Max(S)}]]
  BY DEF IsFold
<1>3. ASSUME NEW S \in SUBSET (1 .. n)
      PROVE  /\ value(S) = IF S = {} THEN base ELSE F[Max(S)][h[S \ {Max(S)}]]
             /\ value(S) \in A
  <2>1. CASE n \in S
    <3>1. Max(S) = n /\ S # {}
      BY <2>1, MaxUpTo
    <3>2. h[S \ {n}] = g[S \ {n}] /\ g[S \ {n}] \in A
      BY <1>1
    <3> QED
      BY <2>1, <3>1, <3>2
  <2>2. CASE n \notin S
    <3>1. S \in SUBSET (1 .. n - 1)
      BY <1>1, <2>2
    <3>2. h[S \ {Max(S)}] = g[S \ {Max(S)}]
      BY <2>2
    <3> QED
      BY <1>2, <2>2, <3>1, <3>2
  <2> QED
    BY <2>1, <2>2
<1> HIDE DEF value
<1>4. h = [S \in SUBSET (1 .. n) |->
            IF S = {} THEN base ELSE F[Max(S)][h[S \ {Max(S)}]]]
  BY <1>3
<1>5. IsFold(h, base, F, n)
  BY <1>4 DEF IsFold
<1>6. h \in [SUBSET (1 .. n) -> A]
  BY <1>3
<1> QED
  BY <1>5, <1>6

LEMMA FoldExists ==
  ASSUME NEW A, NEW base \in A, NEW N \in Nat, NEW F \in [1 .. N -> [A -> A]]
  PROVE  \E g \in [SUBSET (1 .. N) -> A] : IsFold(g, base, F, N)
<1> DEFINE exists(k) == \E g \in [SUBSET (1 .. k) -> A] : IsFold(g, base, F, k)
           bad == {k \in 0 .. N : ~ exists(k)}
<1> SUFFICES ASSUME bad # {}
             PROVE  FALSE
  <2>1. N \in 0 .. N
    OBVIOUS
  <2>2. bad = {} => exists(N)
    <3> HIDE DEF exists
    <3> QED
      BY <2>1 DEF bad
  <2> QED
    BY <2>2
<1>1. bad \in SUBSET Nat
  OBVIOUS
<1>2. Min(bad) \in bad /\ \A k \in bad : Min(bad) <= k
  <2> HIDE DEF bad
  <2> QED
    BY <1>1, MinExists
<1>3. exists(0)
  <2> DEFINE g == [S \in SUBSET (1 .. 0) |-> base]
  <2>1. \A S \in SUBSET (1 .. 0) : S = {}
    OBVIOUS
  <2>2. g \in [SUBSET (1 .. 0) -> A] /\ IsFold(g, base, F, 0)
    BY <2>1 DEF IsFold
  <2> QED
    BY <2>2
<1>4. Min(bad) \in 1 .. N /\ Min(bad) - 1 \in 0 .. N /\ ~ (Min(bad) <= Min(bad) - 1)
  <2>1. Min(bad) \in 0 .. N /\ ~ exists(Min(bad))
    BY <1>2
  <2>2. Min(bad) # 0
    BY <1>3, <2>1
  <2> QED
    BY <2>1, <2>2
<1>5. exists(Min(bad) - 1)
  <2>1. Min(bad) - 1 \notin bad
    <3> HIDE DEF bad
    <3> QED
      BY <1>2, <1>4
  <2> QED
    BY <1>4, <2>1
<1>6. exists(Min(bad))
  <2>1. PICK g \in [SUBSET (1 .. Min(bad) - 1) -> A] : IsFold(g, base, F, Min(bad) - 1)
    BY <1>5
  <2> HIDE DEF bad
  <2> QED
    BY <1>4, <2>1, FoldGrows
<1> QED
  BY <1>2, <1>6
(* Going up: what holds at 0 and is handed on holds at n.                  *)
LEMMA GoingUp ==
  ASSUME NEW n \in Nat, NEW T, 0 \in T, \A k \in 1 .. n : k - 1 \in T => k \in T
  PROVE  n \in T
<1> DEFINE bad == {k \in 0 .. n : k \notin T}
<1> SUFFICES ASSUME bad # {}
             PROVE  FALSE
  OBVIOUS
<1>1. bad \in SUBSET Nat
  OBVIOUS
<1>2. Min(bad) \in bad /\ \A k \in bad : Min(bad) <= k
  <2> HIDE DEF bad
  <2> QED
    BY <1>1, MinExists
<1>3. Min(bad) \in 0 .. n /\ Min(bad) \notin T
  BY <1>2
<1>4. Min(bad) \in 1 .. n /\ Min(bad) - 1 \in 0 .. n /\ ~ (Min(bad) <= Min(bad) - 1)
  BY <1>3
<1>5. Min(bad) - 1 \in T
  BY <1>2, <1>4
<1> QED
  BY <1>3, <1>4, <1>5

Names == UNION {ToSet(items(i)) : i \in Job}

Entry == [name : Names, location : Job]

(* f is the file of a set W of pairs, each a location and a name that it   *)
(* printed: an entry for each name, from the first location in W that has  *)
(* it, in the order of the locations.                                      *)
FileOf(f, W) ==
  /\ f \in Seq(Entry)
  /\ \A k, m \in 1 .. Len(f) : k < m => /\ f[k].name # f[m].name
                                        /\ f[k].location <= f[m].location
  /\ \A k \in 1 .. Len(f) : <<f[k].location, f[k].name>> \in W
  /\ \A w \in W : \E k \in 1 .. Len(f) : f[k].name = w[2] /\ f[k].location <= w[1]

LEMMA Items ==
  ASSUME NEW i \in Job
  PROVE  /\ items(i) \in Seq(Names)
         /\ ToSet(items(i)) = {items(i)[k] : k \in 1 .. Len(items(i))}
<1> DEFINE s == pbulk_index[i]
           I == {k \in 1 .. Len(s) : s[k] = Unrecognized}
           N == ToSet(items(i))
<1>1. s \in Seq(ToSet(s))
  BY IndexAssumption
<1> DEFINE at == IF I # {} THEN Min(I) ELSE 0
<1>0. items(i) = IF at = 0 THEN s ELSE SubSeq(s, 1, at - 1)
  BY Zenon DEF items, SelectInSeq
<1>2. items(i) \in Seq(ToSet(s))
  <2>1. CASE I = {}
    <3>1. items(i) = s
      BY <1>0, <2>1
    <3> QED
      BY <1>1, <3>1
  <2>2. CASE I # {}
    <3>1. I \in SUBSET Nat
      BY <1>1
    <3>2. Min(I) \in I
      <4> HIDE DEF I
      <4> QED
        BY <2>2, <3>1, MinExists
    <3>3. Min(I) \in 1 .. Len(s) /\ Len(s) \in Nat
      BY <1>1, <3>2
    <3>4. items(i) = SubSeq(s, 1, Min(I) - 1)
      <4>1. at = Min(I) /\ Min(I) # 0
        BY <2>2, <3>3
      <4> HIDE DEF at, I
      <4> QED
        BY <1>0, <4>1
    <3>5. \A k \in 1 .. Min(I) - 1 : s[k] \in ToSet(s)
      BY <1>1, <3>3
    <3> QED
      BY <1>1, <3>3, <3>4, <3>5, SubSeqProperties
  <2> QED
    BY <2>1, <2>2
<1>3. items(i) \in Seq(N)
  BY <1>2 DEF ToSet
<1>4. N \subseteq Names
  BY DEF Names
<1>5. items(i) \in Seq(Names)
  BY <1>3, <1>4
<1> QED
  BY <1>2, <1>5 DEF ToSet

LEMMA Entered ==
  ASSUME NEW W, NEW f, FileOf(f, W), NEW i \in Job, NEW n \in Names,
         \A w \in W : w[1] <= i
  PROVE  FileOf(entered(f, i, n), W \cup {<<i, n>>})
<1> DEFINE V == W \cup {<<i, n>>}
           e == [name |-> n, location |-> i]
<1>1. f \in Seq(Entry) /\ Len(f) \in Nat /\ i \in Nat
  BY LenAssumption DEF FileOf, Job
<1>2. \A k \in 1 .. Len(f) : f[k] \in Entry /\ f[k].location <= i /\ f[k].location \in Nat
  <2>1. \A k \in 1 .. Len(f) : f[k] \in Entry
    BY <1>1
  <2>2. \A k \in 1 .. Len(f) : f[k].location <= i
    BY DEF FileOf
  <2> QED
    BY <2>1, <2>2, LenAssumption DEF Entry, Job
<1>3. CASE pkgname_in_hash(n, f)
  <2>1. entered(f, i, n) = f
    BY <1>3 DEF entered
  <2>2. \E k \in 1 .. Len(f) : f[k].name = n /\ f[k].location <= i
    BY <1>2, <1>3 DEF pkgname_in_hash
  <2>3. \A w \in V : \E k \in 1 .. Len(f) : f[k].name = w[2] /\ f[k].location <= w[1]
    BY <2>2 DEF FileOf
  <2> QED
    BY <2>1, <2>3 DEF FileOf
<1>4. CASE ~ pkgname_in_hash(n, f)
  <2> DEFINE g == Append(f, e)
  <2>1. entered(f, i, n) = g
    BY <1>4 DEF entered
  <2>2. e \in Entry /\ e.name = n /\ e.location = i
    BY DEF Entry
  <2>3. /\ g \in Seq(Entry) /\ Len(g) = Len(f) + 1 /\ g[Len(f) + 1] = e
        /\ \A k \in 1 .. Len(f) : g[k] = f[k]
    BY <1>1, <2>2, AppendProperties
  <2> HIDE DEF g, e
  <2>4. \A k \in 1 .. Len(f) : f[k].name # n
    BY <1>4 DEF pkgname_in_hash
  <2>5. ASSUME NEW k \in 1 .. Len(g), NEW m \in 1 .. Len(g), k < m
        PROVE  g[k].name # g[m].name /\ g[k].location <= g[m].location
    <3>1. k \in 1 .. Len(f) /\ (m \in 1 .. Len(f) \/ m = Len(f) + 1)
      BY <1>1, <2>3, <2>5
    <3> QED
      BY <1>2, <2>2, <2>3, <2>4, <2>5, <3>1 DEF FileOf
  <2>6. ASSUME NEW k \in 1 .. Len(g)
        PROVE  <<g[k].location, g[k].name>> \in V
    <3>1. k \in 1 .. Len(f) \/ k = Len(f) + 1
      BY <1>1, <2>3
    <3> QED
      BY <2>2, <2>3, <3>1 DEF FileOf
  <2>7. ASSUME NEW w \in V
        PROVE  \E k \in 1 .. Len(g) : g[k].name = w[2] /\ g[k].location <= w[1]
    <3>1. CASE w \in W
      <4>1. PICK k \in 1 .. Len(f) : f[k].name = w[2] /\ f[k].location <= w[1]
        BY <3>1 DEF FileOf
      <4>2. k \in 1 .. Len(g)
        BY <1>1, <2>3
      <4> QED
        BY <2>3, <4>1, <4>2
    <3>2. CASE w = <<i, n>>
      <4>1. Len(f) + 1 \in 1 .. Len(g) /\ w[1] = i /\ w[2] = n
        BY <1>1, <2>3, <3>2
      <4> QED
        BY <1>1, <2>2, <2>3, <4>1
    <3> QED
      BY <3>1, <3>2
  <2> QED
    BY <2>1, <2>3, <2>5, <2>6, <2>7 DEF FileOf
<1> QED
  BY <1>3, <1>4

LEMMA MaxIn ==
  ASSUME NEW n \in Nat, NEW S \in SUBSET (1 .. n), S # {}
  PROVE  Max(S) \in S
<1> DEFINE below == {n - k : k \in S}
<1>1. below \in SUBSET Nat /\ below # {}
  <2>1. \A k \in S : n - k \in Nat
    OBVIOUS
  <2> QED
    BY <2>1
<1>2. Min(below) \in below /\ \A y \in below : Min(below) <= y
  <2> HIDE DEF below
  <2> QED
    BY <1>1, MinExists
<1>3. PICK m \in S : Min(below) = n - m
  BY <1>2
<1>4. ASSUME NEW y \in S PROVE m >= y
  <2>1. n - y \in below
    OBVIOUS
  <2>2. n - m <= n - y
    <3> HIDE DEF below
    <3> QED
      BY <1>2, <1>3, <2>1
  <2> QED
    BY <2>2
<1> QED
  BY <1>4 DEF Max

(* The fold over the items of one location, and its values on the way.     *)
IsSingle(g, f, i) ==
  g = [S \in SUBSET (1 .. Len(items(i))) |->
         IF S = {} THEN f ELSE entered(g[S \ {Max(S)}], i, items(i)[Max(S)])]

LEMMA EnteredType ==
  ASSUME NEW f \in Seq(Entry), NEW i \in Job, NEW n \in Names
  PROVE  entered(f, i, n) \in Seq(Entry)
<1>1. [name |-> n, location |-> i] \in Entry
  BY DEF Entry
<1> QED
  BY <1>1, AppendProperties DEF entered

LEMMA SingleExists ==
  ASSUME NEW f \in Seq(Entry), NEW i \in Job
  PROVE  \E g : IsSingle(g, f, i)
<1> DEFINE A == Seq(Entry)
           N == Len(items(i))
           F == [k \in 1 .. N |-> [x \in A |-> entered(x, i, items(i)[k])]]
<1>1. N \in Nat /\ \A k \in 1 .. N : items(i)[k] \in Names
  BY Items
<1>2. F \in [1 .. N -> [A -> A]]
  BY <1>1, EnteredType
<1>3. PICK g \in [SUBSET (1 .. N) -> A] : IsFold(g, f, F, N)
  <2> HIDE DEF A, N, F
  <2>1. f \in A
    BY DEF A
  <2> QED
    BY <1>1, <1>2, <2>1, FoldExists
<1>4. ASSUME NEW S \in SUBSET (1 .. N), S # {}
      PROVE  F[Max(S)][g[S \ {Max(S)}]] = entered(g[S \ {Max(S)}], i, items(i)[Max(S)])
  <2>1. Max(S) \in 1 .. N
    <3> HIDE DEF N
    <3> QED
      BY <1>1, <1>4, MaxIn
  <2>2. g[S \ {Max(S)}] \in A
    BY <1>3
  <2> HIDE DEF A, N
  <2> QED
    BY <2>1, <2>2
<1>5. g = [S \in SUBSET (1 .. N) |->
             IF S = {} THEN f ELSE F[Max(S)][g[S \ {Max(S)}]]]
  BY <1>3 DEF IsFold
<1> HIDE DEF F
<1>6. g = [S \in SUBSET (1 .. N) |->
             IF S = {} THEN f ELSE entered(g[S \ {Max(S)}], i, items(i)[Max(S)])]
  BY <1>4, <1>5
<1> QED
  BY <1>6 DEF IsSingle

LEMMA SingleSteps ==
  ASSUME NEW f \in Seq(Entry), NEW i \in Job
  PROVE  \E steps :
           /\ steps[0] = f /\ steps[Len(items(i))] = write_single_job(f, i)
           /\ \A k \in 1 .. Len(items(i)) :
                steps[k] = entered(steps[k - 1], i, items(i)[k])
<1> DEFINE n == Len(items(i))
           g == CHOOSE h : IsSingle(h, f, i)
           steps == [k \in 0 .. n |-> g[1 .. k]]
<1>1. n \in Nat /\ DOMAIN items(i) = 1 .. n
  BY Items
<1>2. IsSingle(g, f, i)
  BY SingleExists
<1>3. write_single_job(f, i) = g[1 .. n]
  BY <1>1, Zenon DEF write_single_job, FoldLeft, MapThenFoldSet, IsSingle
<1> HIDE DEF g
<1>4. \A S \in SUBSET (1 .. n) :
        g[S] = IF S = {} THEN f ELSE entered(g[S \ {Max(S)}], i, items(i)[Max(S)])
  BY <1>2 DEF IsSingle
<1> HIDE DEF n
<1>5. steps[0] = f
  <2>1. 1 .. 0 = {} /\ {} \in SUBSET (1 .. n) /\ 0 \in 0 .. n
    BY <1>1
  <2>2. g[{}] = f
    BY <1>4, <2>1
  <2> QED
    BY <2>1, <2>2
<1>6. ASSUME NEW k \in 1 .. n
      PROVE  steps[k] = entered(steps[k - 1], i, items(i)[k])
  <2>1. /\ k \in Nat /\ k - 1 \in 0 .. n /\ k \in 0 .. n /\ k \in 1 .. k
    BY <1>1
  <2>2. (1 .. k) \in SUBSET (1 .. n) /\ (1 .. k) # {}
    <3>1. \A x \in 1 .. k : x \in 1 .. n
      BY <1>1, <2>1
    <3> QED
      BY <2>1, <3>1
  <2>3. Max(1 .. k) = k
    <3>1. (1 .. k) \in SUBSET (1 .. k)
      OBVIOUS
    <3> QED
      BY <2>1, <3>1, MaxUpTo
  <2>4. (1 .. k) \ {k} = 1 .. k - 1
    BY <2>1
  <2>5. g[1 .. k] = entered(g[1 .. k - 1], i, items(i)[k])
    BY <1>4, <2>2, <2>3, <2>4
  <2> QED
    BY <2>1, <2>5
<1>7. steps[n] = write_single_job(f, i)
  BY <1>1, <1>3
<1> QED
  BY <1>5, <1>6, <1>7 DEF n

LEMMA WriteSingleType ==
  ASSUME NEW f \in Seq(Entry), NEW i \in Job
  PROVE  write_single_job(f, i) \in Seq(Entry)
<1> DEFINE n == Len(items(i))
<1>1. PICK steps : /\ steps[0] = f /\ steps[n] = write_single_job(f, i)
                   /\ \A k \in 1 .. n : steps[k] = entered(steps[k - 1], i, items(i)[k])
  BY SingleSteps
<1>2. n \in Nat /\ \A k \in 1 .. n : items(i)[k] \in Names
  BY Items
<1> HIDE DEF n
<1> DEFINE T == {k \in 0 .. n : steps[k] \in Seq(Entry)}
<1>3. 0 \in T
  BY <1>1, <1>2
<1>4. ASSUME NEW k \in 1 .. n, k - 1 \in T
      PROVE  k \in T
  <2>1. steps[k - 1] \in Seq(Entry) /\ k \in 0 .. n
    BY <1>2, <1>4
  <2> QED
    BY <1>1, <1>2, <2>1, EnteredType
<1>5. n \in T
  <2> HIDE DEF T
  <2> QED
    BY <1>2, <1>3, <1>4, GoingUp
<1> QED
  BY <1>1, <1>5

(* All that a location printed is added.                                   *)
LEMMA WriteSingle ==
  ASSUME NEW W, NEW f, FileOf(f, W), NEW i \in Job, \A w \in W : w[1] <= i
  PROVE  FileOf(write_single_job(f, i), W \cup {<<i, n>> : n \in ToSet(items(i))})
<1> DEFINE n == Len(items(i))
           part(k) == W \cup {<<i, items(i)[m]>> : m \in 1 .. k}
<1>1. f \in Seq(Entry)
  BY DEF FileOf
<1>2. PICK steps : /\ steps[0] = f /\ steps[n] = write_single_job(f, i)
                   /\ \A k \in 1 .. n : steps[k] = entered(steps[k - 1], i, items(i)[k])
  BY <1>1, SingleSteps
<1>3. n \in Nat /\ \A k \in 1 .. n : items(i)[k] \in Names
  BY Items
<1>4. part(n) = W \cup {<<i, m>> : m \in ToSet(items(i))}
  BY Items
<1> HIDE DEF n
<1> DEFINE T == {k \in 0 .. n : FileOf(steps[k], part(k))}
<1>5. 0 \in T
  <2>1. part(0) = W
    OBVIOUS
  <2> HIDE DEF part
  <2> QED
    BY <1>2, <1>3, <2>1
<1>6. ASSUME NEW k \in 1 .. n, k - 1 \in T
      PROVE  k \in T
  <2>1. FileOf(steps[k - 1], part(k - 1)) /\ k \in 0 .. n
    BY <1>3, <1>6
  <2>2. part(k) = part(k - 1) \cup {<<i, items(i)[k]>>}
    <3>1. 1 .. k = (1 .. k - 1) \cup {k}
      BY <1>3
    <3> QED
      BY <3>1
  <2>3. \A w \in part(k - 1) : w[1] <= i
    BY LenAssumption DEF Job
  <2> HIDE DEF part
  <2>4. FileOf(entered(steps[k - 1], i, items(i)[k]), part(k - 1) \cup {<<i, items(i)[k]>>})
    BY <1>3, <2>1, <2>3, Entered
  <2> QED
    BY <1>2, <2>1, <2>2, <2>4
<1>7. n \in T
  <2> HIDE DEF T
  <2> QED
    BY <1>3, <1>5, <1>6, GoingUp
<1> HIDE DEF part
<1> QED
  BY <1>2, <1>4, <1>7

(* The fold over the locations.                                            *)
Added(t, f, i) == IF to_write(t, i) THEN write_single_job(f, i) ELSE f

IsWhole(g, t) ==
  g = [S \in SUBSET Job |->
         IF S = {} THEN << >> ELSE Added(t, g[S \ {Max(S)}], [i \in Job |-> i][Max(S)])]

LEMMA WholeExists ==
  ASSUME NEW t
  PROVE  \E g : IsWhole(g, t)
<1> DEFINE A == Seq(Entry)
           F == [i \in Job |-> [x \in A |-> Added(t, x, i)]]
<1>1. len_jobs \in Nat /\ Job = 1 .. len_jobs
  BY LenAssumption DEF Job
<1>2. F \in [Job -> [A -> A]] /\ << >> \in A
  BY WriteSingleType DEF Added
<1>3. PICK g \in [SUBSET Job -> A] : IsFold(g, << >>, F, len_jobs)
  <2> HIDE DEF A, F
  <2> QED
    BY <1>1, <1>2, FoldExists
<1>4. ASSUME NEW S \in SUBSET Job, S # {}
      PROVE  F[Max(S)][g[S \ {Max(S)}]]
               = Added(t, g[S \ {Max(S)}], [i \in Job |-> i][Max(S)])
  <2>1. Max(S) \in Job
    BY <1>1, <1>4, MaxIn
  <2>2. g[S \ {Max(S)}] \in A
    BY <1>3
  <2> HIDE DEF A
  <2> QED
    BY <2>1, <2>2
<1>5. g = [S \in SUBSET Job |->
             IF S = {} THEN << >> ELSE F[Max(S)][g[S \ {Max(S)}]]]
  BY <1>1, <1>3 DEF IsFold
<1> HIDE DEF F
<1>6. g = [S \in SUBSET Job |->
             IF S = {} THEN << >>
             ELSE Added(t, g[S \ {Max(S)}], [i \in Job |-> i][Max(S)])]
  BY <1>4, <1>5
<1> QED
  BY <1>6 DEF IsWhole

(* What the first m locations of a table t yield for the file.             *)
Yield(t, m) ==
  {w \in Job \X Names : w[1] <= m /\ to_write(t, w[1]) /\ w[2] \in ToSet(items(w[1]))}

LEMMA AddedFile ==
  ASSUME NEW t, NEW f, NEW i \in Job, FileOf(f, Yield(t, i - 1))
  PROVE  FileOf(Added(t, f, i), Yield(t, i))
<1>1. \A j \in Job : j <= i <=> j <= i - 1 \/ j = i
  BY LenAssumption DEF Job
<1>2. CASE to_write(t, i)
  <2> DEFINE new == {<<i, n>> : n \in ToSet(items(i))}
  <2>1. Yield(t, i) = Yield(t, i - 1) \cup new
    <3>1. \A n \in ToSet(items(i)) : <<i, n>> \in Job \X Names
      BY DEF Names
    <3>2. ASSUME NEW w \in Yield(t, i - 1) \cup new
          PROVE  w \in Yield(t, i)
      <4>1. CASE w \in Yield(t, i - 1)
        BY <1>1, <4>1 DEF Yield
      <4>2. CASE w \in new
        <5>1. PICK n \in ToSet(items(i)) : w = <<i, n>>
          BY <4>2
        <5>2. w[1] = i /\ w[2] = n /\ w \in Job \X Names
          BY <3>1, <5>1
        <5> QED
          BY <1>1, <1>2, <5>2 DEF Yield
      <4> QED
        BY <3>2, <4>1, <4>2
    <3>3. ASSUME NEW w \in Yield(t, i)
          PROVE  w \in Yield(t, i - 1) \cup new
      <4>1. w = <<w[1], w[2]>> /\ w[1] \in Job
        BY DEF Yield
      <4> QED
        BY <1>1, <4>1 DEF Yield
    <3> QED
      BY <3>2, <3>3
  <2>2. \A w \in Yield(t, i - 1) : w[1] <= i
    BY <1>1 DEF Yield
  <2>3. FileOf(write_single_job(f, i), Yield(t, i - 1) \cup new)
    BY <2>2, WriteSingle
  <2> QED
    BY <1>2, <2>1, <2>3 DEF Added
<1>3. CASE ~ to_write(t, i)
  <2>1. Yield(t, i) = Yield(t, i - 1)
    BY <1>1, <1>3 DEF Yield
  <2> QED
    BY <1>3, <2>1 DEF Added
<1> QED
  BY <1>2, <1>3

LEMMA WriteJobsFile ==
  ASSUME NEW t
  PROVE  FileOf(write_jobs(t), Yield(t, len_jobs))
<1> DEFINE g == CHOOSE h : IsWhole(h, t)
<1>1. len_jobs \in Nat /\ Job = 1 .. len_jobs
  BY LenAssumption DEF Job
<1>2. IsWhole(g, t)
  BY WholeExists
<1>3. write_jobs(t) = g[Job]
  BY Zenon DEF write_jobs, Added, FoldLeft, MapThenFoldSet, IsWhole
<1> HIDE DEF g
<1>4. \A S \in SUBSET Job :
        g[S] = IF S = {} THEN << >>
               ELSE Added(t, g[S \ {Max(S)}], [i \in Job |-> i][Max(S)])
  BY <1>2 DEF IsWhole
<1> DEFINE T == {k \in 0 .. len_jobs : FileOf(g[1 .. k], Yield(t, k))}
<1>5. 0 \in T
  <2>1. 1 .. 0 = {} /\ {} \in SUBSET Job
    OBVIOUS
  <2>2. g[{}] = << >>
    BY <1>4, <2>1
  <2>3. Yield(t, 0) = {}
    BY <1>1 DEF Yield
  <2>4. FileOf(<< >>, {})
    BY DEF FileOf
  <2>5. g[1 .. 0] = << >>
    BY <2>1, <2>2
  <2>6. FileOf(g[1 .. 0], Yield(t, 0))
    BY <2>3, <2>4, <2>5
  <2>7. 0 \in 0 .. len_jobs
    BY <1>1
  <2> QED
    BY <2>6, <2>7
<1>6. ASSUME NEW k \in 1 .. len_jobs, k - 1 \in T
      PROVE  k \in T
  <2>1. k \in Nat /\ k - 1 \in 0 .. len_jobs /\ k \in 0 .. len_jobs /\ k \in 1 .. k /\ k \in Job
    BY <1>1
  <2>2. FileOf(g[1 .. k - 1], Yield(t, k - 1))
    BY <1>6
  <2>3. (1 .. k) \in SUBSET Job /\ (1 .. k) # {}
    <3>1. \A x \in 1 .. k : x \in Job
      BY <1>1, <2>1
    <3> QED
      BY <2>1, <3>1
  <2>4. Max(1 .. k) = k
    <3>1. (1 .. k) \in SUBSET (1 .. k)
      OBVIOUS
    <3> QED
      BY <2>1, <3>1, MaxUpTo
  <2>5. (1 .. k) \ {k} = 1 .. k - 1
    BY <2>1
  <2>6. g[1 .. k] = Added(t, g[1 .. k - 1], k)
    BY <1>4, <2>1, <2>3, <2>4, <2>5
  <2>7. FileOf(Added(t, g[1 .. k - 1], k), Yield(t, k))
    BY <2>1, <2>2, AddedFile
  <2> QED
    BY <2>1, <2>6, <2>7
<1>7. len_jobs \in T
  <2> HIDE DEF T
  <2> QED
    BY <1>1, <1>5, <1>6, GoingUp
<1> QED
  BY <1>1, <1>3, <1>7

-----------------------------------------------------------------------------
(* The refinement *)

ResultOf(t) ==
  [i \in Job |-> IF t.state[i] # "DONE" THEN "none"
                 ELSE IF t.scan_output[i] = "NULL" THEN "failed" ELSE "scanned"]

(* A file of all that was printed is the right one.                        *)
LEMMA FileIsRight ==
  ASSUME NEW t
  PROVE  Promise!Right(ResultOf(t), write_jobs(t))
<1> DEFINE f == write_jobs(t)
           r == ResultOf(t)
           W == Yield(t, len_jobs)
<1>1. FileOf(f, W)
  BY WriteJobsFile
<1>2. f \in Seq(Entry) /\ DOMAIN f = 1 .. Len(f)
  BY <1>1 DEF FileOf
<1>3. \A i \in Job : i \in Nat /\ (r[i] = "scanned" <=> to_write(t, i))
  BY LenAssumption DEF Job, ResultOf, to_write
<1>4. ASSUME NEW i \in Job, NEW n \in Names
      PROVE  <<i, n>> \in W <=> r[i] = "scanned" /\ Yields(i, n)
  BY <1>3, LenAssumption DEF Yield, Yields, Job
<1> HIDE DEF f, r, W
<1>5. \A k \in 1 .. Len(f) : f[k].location \in Job /\ f[k].name \in Names
  <2>1. \A k \in 1 .. Len(f) : f[k] \in Entry
    BY <1>2
  <2> QED
    BY <2>1 DEF Entry
<1>6. \A k, m \in DOMAIN f : k < m => f[k].name # f[m].name /\ f[k].location <= f[m].location
  BY <1>1, <1>2 DEF FileOf
<1>7. \A k, m \in 1 .. Len(f) : f[k].name = f[m].name => k = m
  BY <1>1 DEF FileOf
<1>8. ASSUME NEW n \in Names, NEW i \in Job
      PROVE  Promise!From(r, n, i)
               <=> \E k \in DOMAIN f : f[k].name = n /\ f[k].location = i
  <2>1. ASSUME Promise!From(r, n, i)
        PROVE  \E k \in DOMAIN f : f[k].name = n /\ f[k].location = i
    <3>1. <<i, n>> \in W
      BY <1>4, <2>1 DEF Promise!From
    <3>2. PICK k \in 1 .. Len(f) : f[k].name = <<i, n>>[2] /\ f[k].location <= <<i, n>>[1]
      BY <1>1, <3>1 DEF FileOf
    <3>3. f[k].name = n /\ f[k].location <= i
      BY <3>2
    <3>4. <<f[k].location, n>> \in W
      BY <1>1, <3>2, <3>3 DEF FileOf
    <3>5. r[f[k].location] = "scanned" /\ Yields(f[k].location, n)
      BY <1>4, <1>5, <3>2, <3>4
    <3>6. ~ (f[k].location < i)
      BY <1>5, <2>1, <3>2, <3>5 DEF Promise!From
    <3>7. f[k].location = i
      BY <1>3, <1>5, <3>2, <3>3, <3>6
    <3> QED
      BY <1>2, <3>2, <3>3, <3>7
  <2>2. ASSUME NEW k \in DOMAIN f, f[k].name = n, f[k].location = i
        PROVE  Promise!From(r, n, i)
    <3>1. <<i, n>> \in W
      BY <1>1, <1>2, <2>2 DEF FileOf
    <3>2. ASSUME NEW j \in Job, j < i, r[j] = "scanned", Yields(j, n)
          PROVE  FALSE
      <4>1. <<j, n>> \in W
        BY <1>4, <3>2
      <4>2. PICK m \in 1 .. Len(f) : f[m].name = <<j, n>>[2] /\ f[m].location <= <<j, n>>[1]
        BY <1>1, <4>1 DEF FileOf
      <4>3. f[m].name = n /\ f[m].location <= j
        BY <4>2
      <4>4. m = k
        BY <1>2, <1>7, <2>2, <4>3
      <4> QED
        BY <1>3, <2>2, <3>2, <4>3, <4>4
    <3> QED
      BY <1>4, <3>1, <3>2 DEF Promise!From
  <2> QED
    BY <2>1, <2>2
<1> QED
  BY <1>6, <1>8 DEF Promise!Right, Names, f, r

(* A result is there for good; what happens to other jobs does not show.   *)
LEMMA SameResult ==
  ASSUME NEW t, NEW u,
         \A i \in Job :
           /\ u.state[i] = "DONE" <=> t.state[i] = "DONE"
           /\ t.state[i] = "DONE" => u.scan_output[i] = t.scan_output[i]
  PROVE  ResultOf(u) = ResultOf(t)
BY DEF ResultOf

LEMMA AssignedResult ==
  ASSUME NEW c, NEW t \in Table, CountersExact(t), NEW act, NEW ina, NEW jb, NEW ev,
         assign_job(c, t, act, ina, jb, ev)
  PROVE  ResultOf(table') = ResultOf(t)
<1> DEFINE j == IF clients_started THEN get_job(t) ELSE NULL
<1>1. t.first_undone_job = Min(Undone(t))
  BY DEF CountersExact, Undone
<1>2. CASE j # NULL
  <2>1. j \in Job /\ t.state[j] = "OPEN"
    BY <1>1, <1>2, GetJob
  <2>2. table' = taken(t, j)
    BY <1>2 DEF assign_job
  <2> HIDE DEF j
  <2>3. \A i \in Job :
          /\ table'.state[i] = IF i = j THEN "IN_PROCESSING" ELSE t.state[i]
          /\ table'.scan_output[i] = IF i = j THEN "NULL" ELSE t.scan_output[i]
    BY <2>1, <2>2, TakenFacts
  <2> QED
    BY <2>1, <2>3, SameResult
<1>3. CASE j = NULL
  BY <1>3 DEF assign_job
<1> QED
  BY <1>2, <1>3

(* A job that ends is a step of the promise.                               *)
LEMMA EndedScans ==
  ASSUME NEW u, NEW j \in Job, NEW o \in {"NULL", "whole"},
         table.state[j] # "DONE", file' = file,
         \A i \in Job :
           /\ u.state[i] = IF i = j THEN "DONE" ELSE table.state[i]
           /\ u.scan_output[i] = IF i = j THEN o ELSE table.scan_output[i],
         ResultOf(table') = ResultOf(u)
  PROVE  Promise!Scan
<1> DEFINE r == IF o = "NULL" THEN "failed" ELSE "scanned"
<1>1. ResultOf(table)[j] = "none" /\ r \in {"scanned", "failed"}
  BY DEF ResultOf
<1>2. ResultOf(u) = [ResultOf(table) EXCEPT ![j] = r]
  BY DEF ResultOf
<1>3. ResultOf(table') = [ResultOf(table) EXCEPT ![j] = r]
  BY <1>2
<1> HIDE DEF r
<1> QED
  BY <1>1, <1>3 DEF Promise!Scan, ResultOf

Stutters == ResultOf(table') = ResultOf(table) /\ file' = file

LEMMA NextJobScans ==
  ASSUME IInv, NEW c \in Client, Serving, event[c] # "none",
         NEW t \in Table, CountersExact(t), t.state = table.state,
         NEW o \in {"NULL", "whole"},
         \A i \in Job : t.scan_output[i] = IF i = job[c] THEN o ELSE table.scan_output[i],
         NextJob(c, t), file' = file
  PROVE  Promise!Scan
<1> DEFINE u == process_job(t, job[c], "DONE")
           act == active_peers \ {c}
           jb == [job EXCEPT ![c] = NULL]
           ev == [event EXCEPT ![c] = "none"]
<1>1. job[c] \in Job /\ table.state[job[c]] = "IN_PROCESSING"
  BY ServedPeer
<1>2. /\ u \in Table /\ CountersExact(u)
      /\ \A i \in Job : u.state[i] = IF i = job[c] THEN "DONE" ELSE table.state[i]
      /\ u.scan_output = t.scan_output
  BY <1>1, ProcessJob
<1>3. assign_job(c, u, act, inactive_peers, jb, ev)
  BY DEF NextJob
<1> HIDE DEF u, jb, ev, act
<1>4. ResultOf(table') = ResultOf(u)
  BY <1>2, <1>3, AssignedResult
<1> QED
  BY <1>1, <1>2, <1>4, EndedScans

LEMMA RecvScans ==
  ASSUME IInv, NEW c \in Client, RecvNoOutput(c) \/ FinishJob(c)
  PROVE  Promise!Scan
<1>0. table \in Table /\ CountersExact(table)
  BY DEF IInv, PeersInv
<1>1. CASE RecvNoOutput(c)
  <2>1. /\ Serving /\ event[c] = "read_length" /\ NextJob(c, table) /\ file' = file
    BY <1>1, ReadTypes DEF RecvNoOutput
  <2>2. job[c] \in Job /\ c \in active_peers
    BY <2>1, ServedPeer
  <2>3. table.scan_output[job[c]] = "NULL"
    BY <2>1, <2>2 DEF IInv, PeersInv, Outputs
  <2>4. \A i \in Job : table.scan_output[i] = IF i = job[c] THEN "NULL" ELSE table.scan_output[i]
    BY <2>3
  <2> QED
    BY <1>0, <2>1, <2>4, NextJobScans
<1>2. CASE FinishJob(c)
  <2> DEFINE t == [table EXCEPT !.scan_output[job[c]] = "whole"]
  <2>1. /\ Serving /\ event[c] = "read_output" /\ NextJob(c, t) /\ file' = file
    BY <1>2, ReadTypes DEF FinishJob
  <2>2. job[c] \in Job
    BY <2>1, ServedPeer
  <2>3. /\ t \in Table /\ CountersExact(t) /\ t.state = table.state
        /\ \A i \in Job : t.scan_output[i] = IF i = job[c] THEN "whole" ELSE table.scan_output[i]
    BY <1>0, <2>2, OutputSet DEF Output
  <2> HIDE DEF t
  <2> QED
    BY <2>1, <2>3, NextJobScans
<1> QED
  BY <1>1, <1>2

LEMMA RecvLengthStutters ==
  ASSUME IInv, NEW c \in Client, RecvLength(c)
  PROVE  Stutters
<1>1. /\ Serving /\ event[c] = "read_length" /\ file' = file
      /\ table' = [table EXCEPT !.scan_output[job[c]] = "partial"]
  BY ReadTypes DEF RecvLength
<1>2. job[c] \in Job /\ table.state[job[c]] = "IN_PROCESSING"
  BY <1>1, ServedPeer
<1>3. table \in Table /\ CountersExact(table) /\ "partial" \in Output
  BY DEF IInv, PeersInv, Output
<1>4. /\ table'.state = table.state
      /\ \A i \in Job : table'.scan_output[i] = IF i = job[c] THEN "partial" ELSE table.scan_output[i]
  BY <1>1, <1>2, <1>3, OutputSet
<1> QED
  BY <1>1, <1>2, <1>4, SameResult DEF Stutters

LEMMA KillPeerStutters ==
  ASSUME IInv, NEW c \in Client, KillPeer(c)
  PROVE  Stutters
<1> DEFINE u == reopened(c)
           t == [table EXCEPT !.scan_output[job[c]] = "NULL"]
           act == active_peers \ {c}
           jb == [job EXCEPT ![c] = NULL]
           ev == [event EXCEPT ![c] = "none"]
<1>0. /\ Serving /\ event[c] # "none" /\ file' = file
      /\ \/ \E d \in inactive_peers :
             assign_job(d, u, act, inactive_peers \ {d}, jb, ev)
         \/ table' = u
  BY DEF KillPeer
<1>1. job[c] \in Job /\ table.state[job[c]] = "IN_PROCESSING"
  BY <1>0, ServedPeer
<1>2. table \in Table /\ CountersExact(table) /\ "NULL" \in Output
  BY DEF IInv, PeersInv, Output
<1>3. /\ t \in Table /\ CountersExact(t) /\ t.state = table.state
      /\ \A i \in Job : t.scan_output[i] = IF i = job[c] THEN "NULL" ELSE table.scan_output[i]
  BY <1>1, <1>2, OutputSet
<1>4. u = process_job(t, job[c], "OPEN")
  BY DEF reopened
<1> HIDE DEF t, u, act, jb, ev
<1>5. /\ u \in Table /\ CountersExact(u) /\ u.scan_output = t.scan_output
      /\ \A i \in Job : u.state[i] = IF i = job[c] THEN "OPEN" ELSE t.state[i]
  BY <1>1, <1>3, <1>4, ProcessJob
<1>6. ResultOf(u) = ResultOf(table)
  BY <1>1, <1>3, <1>5, SameResult
<1>7. ResultOf(table') = ResultOf(u)
  BY <1>0, <1>5, AssignedResult
<1> QED
  BY <1>0, <1>6, <1>7 DEF Stutters

LEMMA ScriptDoneStutters ==
  ASSUME IInv, ScriptDone
  PROVE  Stutters
<1>1. program = "serving" /\ ~clients_started /\ file' = file
  BY DEF ScriptDone
<1>2. \A i \in Job : table.state[i] = "OPEN"
  BY <1>1 DEF IInv, WaitRule, AllOpen
<1>3. PICK g \in script_serves :
        table' = [table EXCEPT !.state = [i \in Job |->
                    IF \E c \in DOMAIN g : g[c] = i THEN "IN_PROCESSING" ELSE @[i]]]
  BY DEF ScriptDone
<1>4. table \in Table
  BY DEF IInv, TypeOK
<1>5. \A i \in Job : table'.state[i] # "DONE"
  BY <1>2, <1>3, <1>4 DEF Table
<1> QED
  BY <1>1, <1>2, <1>5, SameResult DEF Stutters

LEMMA EndWrites ==
  ASSUME IInv, WriteJobs \/ StandaloneEnds
  PROVE  Promise!Write
<1>1. table' = table /\ file' = write_jobs(table) /\ program' = "exited"
  BY DEF WriteJobs, StandaloneEnds
<1>2. \A i \in Job : table.state[i] = "DONE"
  BY <1>1, EndIInv DEF IInv, ShutdownOnlyWhenDone
<1>3. \A i \in Job : ResultOf(table)[i] # "none"
  BY <1>2 DEF ResultOf
<1>4. Promise!Right(ResultOf(table), file')
  BY <1>1, FileIsRight
<1> QED
  BY <1>1, <1>3, <1>4 DEF Promise!Write, ResultOf

LEMMA StandaloneScans ==
  ASSUME IInv, StandaloneScan
  PROVE  Promise!Scan
<1> DEFINE j == get_job(table)
           t == taken(table, j)
<1>1. PICK output \in {"NULL", "whole"} :
        table' = process_job([t EXCEPT !.scan_output[j] = output], j, "DONE")
  BY DEF StandaloneScan
<1>2. table \in Table /\ CountersExact(table) /\ table.first_undone_job = Min(Undone(table))
  BY DEF IInv, PeersInv, CountersExact, Undone
<1>3. j \in Job /\ table.state[j] = "OPEN" /\ file' = file
  BY <1>2, GetJob DEF StandaloneScan
<1> HIDE DEF j
<1>4. /\ t \in Table /\ CountersExact(t)
      /\ \A i \in Job :
           /\ t.state[i] = IF i = j THEN "IN_PROCESSING" ELSE table.state[i]
           /\ t.scan_output[i] = IF i = j THEN "NULL" ELSE table.scan_output[i]
  BY <1>2, <1>3, TakenFacts
<1> HIDE DEF t
<1> DEFINE u == [t EXCEPT !.scan_output[j] = output]
<1>5. /\ u \in Table /\ CountersExact(u) /\ u.state = t.state
      /\ \A i \in Job : u.scan_output[i] = IF i = j THEN output ELSE t.scan_output[i]
  <2>1. output \in Output
    BY <1>1 DEF Output
  <2> QED
    BY <1>3, <1>4, <2>1, OutputSet
<1>6. table' = process_job(u, j, "DONE")
  BY <1>1
<1> HIDE DEF u
<1>7. /\ table'.scan_output = u.scan_output
      /\ \A i \in Job : table'.state[i] = IF i = j THEN "DONE" ELSE u.state[i]
  BY <1>3, <1>4, <1>5, <1>6, ProcessJob
<1>8. \A i \in Job :
        /\ table'.state[i] = IF i = j THEN "DONE" ELSE table.state[i]
        /\ table'.scan_output[i] = IF i = j THEN output ELSE table.scan_output[i]
  BY <1>4, <1>5, <1>7
<1> QED
  BY <1>1, <1>3, <1>8, EndedScans

LEMMA NextKeeps ==
  ASSUME IInv, [Next]_vars
  PROVE  Promise!Scan \/ Promise!Write \/ Stutters
<1>0. table \in Table /\ CountersExact(table)
  BY DEF IInv, PeersInv
<1>1. ASSUME NEW c \in Client, Accept(c)
      PROVE  Stutters
  BY <1>0, <1>1, AssignedResult DEF Accept, Stutters
<1>2. ASSUME NEW c \in Client,
             SendPath(c) \/ SendLength(c) \/ SendOutput(c) \/ LoseClient(c)
      PROVE  Stutters
  BY <1>2 DEF SendPath, SendLength, SendOutput, LoseClient, Stutters
<1>3. ASSUME NEW c \in Client, RecvNoOutput(c) \/ FinishJob(c)
      PROVE  Promise!Scan
  BY <1>3, RecvScans
<1>4. ASSUME NEW c \in Client, RecvLength(c)
      PROVE  Stutters
  BY <1>4, RecvLengthStutters
<1>5. ASSUME NEW c \in Client, KillPeer(c)
      PROVE  Stutters
  BY <1>5, KillPeerStutters
<1>6. CASE ScriptDone
  BY <1>6, ScriptDoneStutters
<1>7. CASE ScriptFailed \/ UNCHANGED vars
  BY <1>7 DEF ScriptFailed, vars, Stutters
<1>8. CASE WriteJobs \/ StandaloneEnds
  BY <1>8, EndWrites
<1>9. CASE StandaloneScan
  BY <1>9, StandaloneScans
<1> QED
  BY <1>1, <1>2, <1>3, <1>4, <1>5, <1>6, <1>7, <1>8, <1>9 DEF Next

(* For every tree of locations and whatever they print, however many       *)
(* clients scan them and are lost, and in standalone mode, the file is the *)
(* one that a sequential scan with the same results writes: each name once *)
(* and from its first location, in the order of the tree.                  *)
THEOREM PromiseAlwaysKept == Spec => KeepsPromise
<1>1. Init => Promise!Init
  <2> SUFFICES ASSUME Init
               PROVE  Promise!Init
    OBVIOUS
  <2>1. file = << >> /\ \A i \in Job : table.state[i] = "OPEN"
    BY DEF Init, add_jobs
  <2> QED
    BY <2>1 DEF Promise!Init
<1>2. IInv /\ [Next]_vars => [Promise!Next]_Promise!vars
  <2> SUFFICES ASSUME IInv, [Next]_vars
               PROVE  [Promise!Next]_Promise!vars
    OBVIOUS
  <2>1. Promise!Scan \/ Promise!Write \/ Stutters
    BY NextKeeps
  <2> QED
    BY <2>1 DEF Promise!Next, Promise!vars, Stutters, ResultOf
<1> QED
  BY <1>1, <1>2, Invariance, PTL DEF Spec, KeepsPromise, Promise!Spec
=============================================================================
