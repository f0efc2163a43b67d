------------------------ MODULE PBuildMaster_proofs ------------------------
(***************************************************************************)
(* Proofs about master mode: for every finite acyclic scan, any number of  *)
(* clients, and however many of them are lost, the invariant IInv is       *)
(* inductive, and the safety properties of PBuildMaster, the action        *)
(* property and the refinement of BuildPromise follow from it.             *)
(***************************************************************************)
EXTENDS PBuildMaster, JobTable_proofs, SequenceTheorems

Event == {"none", "read_command", "read_status", "send_info", "send_stats"}

TypeOK ==
  /\ master \in {"serving", "exited", "failed", "undefined"}
  /\ script \in {"none", "running", "done"}
  /\ active_peers \subseteq Client
  /\ inactive_peers \subseteq Client
  /\ unassigned_peers \subseteq Client
  /\ job \in [Client -> Pkg \cup {NULL}]
  /\ event \in [Client -> Event]
  /\ shutdowns \in Nat
  /\ down \in [Client -> BOOLEAN]
  /\ client \in [Client -> {"away", "ready", "asked", "building", "gone"}]
  /\ sent \in [Client -> Seq({"G", "S", "D", "F"})]
  /\ lost \in 0 .. MaxLost

(* The parts of the invariant that AssignJobs restores, as operators on    *)
(* what a handler has left when it calls assign_job.                       *)

(* The peers with a job are the active ones; each has its own, and these   *)
(* are the jobs in processing.                                             *)
Owned(t, act, jb) ==
  /\ \A c \in Client : jb[c] # NULL <=> c \in act
  /\ \A c, d \in act : jb[c] = jb[d] => c = d
  /\ {jb[c] : c \in act} = {p \in Pkg : t.state[p] = "IN_PROCESSING"}

(* The list a peer is in follows from its pending event, and a peer that   *)
(* waits for a job has none.                                               *)
Listed(act, ina, asking, ev) ==
  /\ \A c \in Client :
       /\ c \in act <=> ev[c] \in {"send_info", "read_status"}
       /\ c \in ina <=> ev[c] \in {"read_command", "send_stats"}
  /\ asking \cap (act \cup ina) = {}

(* The server socket is closed for good once all is done.                  *)
OverIsOver(t, act) == shutdowns > 0 => AllFinal(t) /\ act = {}

(* A client that has not connected has no peer.                            *)
AwayUnknown ==
  \A c \in Client : client[c] = "away" =>
    c \notin active_peers \cup inactive_peers \cup unassigned_peers

IInv ==
  /\ TypeOK
  /\ TableInv(table)
  /\ Owned(table, active_peers, job)
  /\ Listed(active_peers, inactive_peers, unassigned_peers, event)
  /\ OverIsOver(table, active_peers)
  /\ AwayUnknown
  /\ NoIdleWhileBuildable

(* The part of IInv that AssignJobs restores.                              *)
PeersInv ==
  /\ TableInv(table)
  /\ Owned(table, active_peers, job)
  /\ Listed(active_peers, inactive_peers, unassigned_peers, event)
  /\ OverIsOver(table, active_peers)
  /\ NoIdleWhileBuildable

-----------------------------------------------------------------------------
(* assign_job *)

(* The jobs handed out are buildable, each goes to one client that asked,  *)
(* and either all clients get one or all jobs are gone.                    *)
LEMMA ServedFacts ==
  ASSUME NEW t, NEW asking, NEW g \in Served(t, asking)
  PROVE  /\ DOMAIN g \subseteq asking
         /\ \A c \in DOMAIN g : g[c] \in t.buildable_jobs
         /\ \A c, d \in DOMAIN g : g[c] = g[d] => c = d
         /\ clients_started =>
              DOMAIN g = asking \/ t.buildable_jobs \subseteq {g[c] : c \in DOMAIN g}
         /\ ~clients_started => DOMAIN g = {}
<1>1. CASE clients_started
  <2>1. g \in HandOuts(t, asking)
    BY <1>1 DEF Served
  <2>2. PICK P \in SUBSET asking : g \in [P -> t.buildable_jobs]
    BY <2>1 DEF HandOuts
  <2> QED
    BY <1>1, <2>1, <2>2 DEF HandOuts
<1>2. CASE ~clients_started
  <2>1. g = << >>
    BY <1>2 DEF Served
  <2>2. DOMAIN g = {}
    BY <2>1
  <2> QED
    BY <1>2, <2>2
<1> QED
  BY <1>1, <1>2

(* After assign_job has been called with lists in order, the peers are in  *)
(* order again.                                                            *)
LEMMA AssignJobsInv ==
  ASSUME NEW t, NEW asking, NEW act, NEW ina, NEW jb, NEW ev,
         TypeOK, TableInv(t), Owned(t, act, jb), Listed(act, ina, asking, ev),
         OverIsOver(t, act), script = "running" => act = {},
         asking \subseteq Client, act \subseteq Client, ina \subseteq Client,
         jb \in [Client -> Pkg \cup {NULL}], ev \in [Client -> Event],
         AssignJobs(t, asking, act, ina, jb, ev), UNCHANGED script
  PROVE  /\ PeersInv'
         /\ active_peers' \subseteq act \cup asking
         /\ inactive_peers' = ina
         /\ unassigned_peers' \subseteq asking
         /\ job' \in [Client -> Pkg \cup {NULL}]
         /\ event' \in [Client -> Event]
         /\ shutdowns' \in Nat
         /\ down' \in [Client -> BOOLEAN]
         /\ \E given \in SUBSET t.buildable_jobs : table' = HandedOut(t, given)
<1>1. PICK g \in Served(t, asking) :
        LET given == {g[c] : c \in DOMAIN g}
            over == BuildOver(g, asking, act)
        IN /\ table' = HandedOut(t, given)
           /\ active_peers' = act \cup DOMAIN g
           /\ unassigned_peers' = asking \ DOMAIN g
           /\ inactive_peers' = ina
           /\ job' = [c \in Client |-> IF c \in DOMAIN g THEN g[c] ELSE jb[c]]
           /\ event' = [c \in Client |-> IF c \in DOMAIN g THEN "send_info" ELSE ev[c]]
           /\ shutdowns' = IF over THEN shutdowns + 1 ELSE shutdowns
           /\ down' = [c \in Client |-> down[c] \/ (over /\ c \in ina)]
  BY DEF AssignJobs
<1> DEFINE given == {g[c] : c \in DOMAIN g}
<1>2. /\ DOMAIN g \subseteq asking
      /\ given \subseteq t.buildable_jobs
      /\ \A c, d \in DOMAIN g : g[c] = g[d] => c = d
      /\ clients_started => DOMAIN g = asking \/ t.buildable_jobs \subseteq given
      /\ ~clients_started => DOMAIN g = {}
  BY ServedFacts
<1>3. /\ t \in Table
      /\ \A p \in given : p \in Pkg /\ t.state[p] = "OPEN" /\ p # NULL
  BY <1>2, NullAssumption DEF TableInv, BuildListExact
<1>4. /\ TableInv(table')
      /\ \A p \in Pkg : table'.state[p] = IF p \in given THEN "IN_PROCESSING"
                                                        ELSE t.state[p]
      /\ table'.buildable_jobs = t.buildable_jobs \ given
  <2>1. table' = HandedOut(t, given)
    BY <1>1
  <2>2. TableInv(HandedOut(t, given))
    BY <1>2, HandedOutInv
  <2> QED
    BY <2>1, <2>2, <1>3, HandedOutFields
<1>5. /\ active_peers' = act \cup DOMAIN g
      /\ unassigned_peers' = asking \ DOMAIN g
      /\ inactive_peers' = ina
      /\ \A c \in Client : job'[c] = IF c \in DOMAIN g THEN g[c] ELSE jb[c]
      /\ \A c \in Client : event'[c] = IF c \in DOMAIN g THEN "send_info" ELSE ev[c]
  BY <1>1
<1>6. job' \in [Client -> Pkg \cup {NULL}]
  BY <1>1, <1>3
<1>7. event' \in [Client -> Event]
  BY <1>1 DEF Event
<1>8. /\ shutdowns' \in Nat
      /\ shutdowns = 0 /\ shutdowns' > 0 => BuildOver(g, asking, act)
  <2>1. shutdowns \in Nat
    BY DEF TypeOK
  <2>2. CASE BuildOver(g, asking, act)
    <3>1. shutdowns' = shutdowns + 1
      BY <2>2, <1>1
    <3> QED
      BY <2>1, <2>2, <3>1
  <2>3. CASE ~BuildOver(g, asking, act)
    <3>1. shutdowns' = shutdowns
      BY <2>3, <1>1
    <3> QED
      BY <2>1, <3>1
  <2> QED
    BY <2>2, <2>3
<1>9. down' \in [Client -> BOOLEAN]
  <2> SUFFICES \A c \in Client : (down[c] \/ (BuildOver(g, asking, act) /\ c \in ina)) \in BOOLEAN
    BY <1>1, Zenon
  <2> QED
    OBVIOUS
<1>10. Owned(table', active_peers', job')
  <2>1. \A c \in Client : job'[c] # NULL <=> c \in active_peers'
    BY <1>2, <1>3, <1>5 DEF Owned
  <2>2. ASSUME NEW c \in active_peers', NEW d \in active_peers', job'[c] = job'[d]
        PROVE  c = d
    <3>1. c \in Client /\ d \in Client
      BY <1>2, <1>5
    <3>2. \A e \in act : jb[e] \notin given
      BY <1>3 DEF Owned
    <3>3. CASE c \in DOMAIN g
      <4>1. job'[c] \in given
        BY <3>1, <3>3, <1>5
      <4>2. d \in DOMAIN g
        BY <2>2, <3>1, <3>2, <4>1, <1>5
      <4> QED
        BY <2>2, <3>1, <3>3, <4>2, <1>2, <1>5
    <3>4. CASE c \notin DOMAIN g
      <4>1. c \in act /\ job'[c] = jb[c]
        BY <3>1, <3>4, <1>5
      <4>2. d \notin DOMAIN g
        BY <2>2, <3>1, <3>2, <4>1, <1>5
      <4>3. d \in act /\ job'[d] = jb[d]
        BY <3>1, <4>2, <1>5
      <4> QED
        BY <2>2, <4>1, <4>3 DEF Owned
    <3> QED
      BY <3>3, <3>4
  <2>3. {job'[c] : c \in active_peers'} =
        {p \in Pkg : table'.state[p] = "IN_PROCESSING"}
    <3>1. \A e \in act : jb[e] \in Pkg /\ t.state[jb[e]] = "IN_PROCESSING" /\ jb[e] \notin given
      BY <1>3 DEF Owned
    <3>2. ASSUME NEW c \in active_peers'
          PROVE  job'[c] \in Pkg /\ table'.state[job'[c]] = "IN_PROCESSING"
      <4>1. CASE c \in DOMAIN g
        BY <4>1, <1>2, <1>3, <1>4, <1>5
      <4>2. CASE c \notin DOMAIN g
        BY <3>1, <4>2, <1>4, <1>5
      <4> QED
        BY <4>1, <4>2
    <3>3. ASSUME NEW p \in Pkg, table'.state[p] = "IN_PROCESSING"
          PROVE  \E c \in active_peers' : job'[c] = p
      <4>1. CASE p \in given
        BY <4>1, <1>2, <1>5
      <4>2. CASE p \notin given
        <5>1. t.state[p] = "IN_PROCESSING"
          BY <3>3, <4>2, <1>4
        <5>2. PICK c \in act : jb[c] = p
          BY <5>1 DEF Owned
        <5>3. c \notin DOMAIN g
          BY <1>2, <5>2 DEF Listed
        <5> QED
          BY <5>2, <5>3, <1>5
      <4> QED
        BY <4>1, <4>2
    <3> QED
      BY <3>2, <3>3
  <2> QED
    BY <2>1, <2>2, <2>3 DEF Owned
<1>11. Listed(active_peers', inactive_peers', unassigned_peers', event')
  BY <1>2, <1>5 DEF Listed
<1>12. OverIsOver(table, active_peers)'
  <2>1. CASE shutdowns > 0
    <3>1. AllFinal(t) /\ act = {}
      BY <2>1 DEF OverIsOver
    <3>2. given = {}
      BY <3>1, <1>3 DEF AllFinal, Final, Broken
    <3>3. DOMAIN g = {}
      BY <3>2
    <3>4. AllFinal(table')
      BY <3>1, <3>2, <1>4 DEF AllFinal
    <3> QED
      BY <3>1, <3>3, <3>4, <1>5 DEF OverIsOver
  <2>2. CASE shutdowns = 0 /\ shutdowns' > 0
    <3>1. DOMAIN g = {} /\ act = {} /\ asking # {} /\ clients_started
      BY <2>2, <1>8 DEF BuildOver
    <3>2. given = {} /\ t.buildable_jobs = {}
      BY <3>1, <1>2
    <3>3. \A p \in Pkg : t.state[p] # "IN_PROCESSING"
      BY <3>1 DEF Owned
    <3>4. AllFinal(t)
      BY <3>2, <3>3, AllFinalLemma
    <3>5. AllFinal(table')
      BY <3>2, <3>4, <1>4 DEF AllFinal
    <3> QED
      BY <3>1, <3>5, <1>5 DEF OverIsOver
  <2>3. CASE ~(shutdowns' > 0)
    BY <2>3 DEF OverIsOver
  <2> QED
    BY <2>1, <2>2, <2>3 DEF TypeOK
<1>13. NoIdleWhileBuildable'
  <2>1. script' = script
    OBVIOUS
  <2>2. script = "running" => active_peers' = {}
    BY <1>2, <1>5 DEF clients_started
  <2>3. script # "running" => unassigned_peers' = {} \/ table'.buildable_jobs = {}
    BY <1>2, <1>4, <1>5 DEF clients_started
  <2> QED
    BY <2>1, <2>2, <2>3 DEF NoIdleWhileBuildable
<1> QED
  BY <1>1, <1>2, <1>4, <1>5, <1>6, <1>7, <1>8, <1>9, <1>10, <1>11, <1>12, <1>13 DEF PeersInv

-----------------------------------------------------------------------------
(* The handlers *)

LEMMA InitIInv ==
  Init => IInv
<1> SUFFICES ASSUME Init
             PROVE  IInv
  OBVIOUS
<1>1. TypeOK
  <2>1. << >> \in Seq({"G", "S", "D", "F"})
    BY EmptySeq
  <2> QED
    BY <2>1, ScriptsAssumption, MaxLostAssumption DEF Init, TypeOK, Event
<1>2. TableInv(table)
  BY InitJobsInv, NoLogsInv DEF Init
<1>3. Owned(table, active_peers, job)
  <2>1. \A p \in Pkg : table.state[p] # "IN_PROCESSING"
    BY InitJobsState, NoLogsInv DEF Init
  <2> QED
    BY <2>1 DEF Init, Owned
<1>4. Listed(active_peers, inactive_peers, unassigned_peers, event)
  BY DEF Init, Listed
<1>5. OverIsOver(table, active_peers)
  BY DEF Init, OverIsOver
<1>6. AwayUnknown
  BY DEF Init, AwayUnknown
<1>7. NoIdleWhileBuildable
  BY DEF Init, NoIdleWhileBuildable
<1> QED
  BY <1>1, <1>2, <1>3, <1>4, <1>5, <1>6, <1>7 DEF IInv

(* What IInv says of a peer with a pending event.                          *)
LEMMA PeerFacts ==
  ASSUME IInv, NEW c \in Client
  PROVE  /\ event[c] \in {"read_command", "send_stats"} =>
              c \in inactive_peers /\ c \notin active_peers /\ job[c] = NULL
         /\ event[c] \in {"read_status", "send_info"} =>
              /\ c \in active_peers /\ c \notin inactive_peers
              /\ job[c] \in Pkg /\ table.state[job[c]] = "IN_PROCESSING"
              /\ shutdowns = 0
         /\ event[c] # "none" => client[c] # "away" /\ c \notin unassigned_peers
<1>1. event[c] \in Event /\ shutdowns \in Nat /\ active_peers \subseteq Client
  BY DEF IInv, TypeOK
<1>2. ASSUME event[c] \in {"read_status", "send_info"}
      PROVE  /\ c \in active_peers /\ c \notin inactive_peers
             /\ job[c] \in Pkg /\ table.state[job[c]] = "IN_PROCESSING"
             /\ shutdowns = 0
  <2>1. c \in active_peers /\ c \notin inactive_peers
    BY <1>2 DEF IInv, Listed
  <2>2. job[c] \in {p \in Pkg : table.state[p] = "IN_PROCESSING"}
    BY <2>1 DEF IInv, Owned
  <2> QED
    BY <2>1, <2>2, <1>1 DEF IInv, OverIsOver
<1>3. ASSUME event[c] \in {"read_command", "send_stats"}
      PROVE  c \in inactive_peers /\ c \notin active_peers /\ job[c] = NULL
  <2>1. c \in inactive_peers /\ c \notin active_peers
    BY <1>3 DEF IInv, Listed
  <2> QED
    BY <2>1 DEF IInv, Owned
<1>4. ASSUME event[c] # "none"
      PROVE  client[c] # "away" /\ c \notin unassigned_peers
  <2>1. c \in active_peers \cup inactive_peers
    BY <1>1, <1>4 DEF Event, IInv, Listed
  <2> QED
    BY <2>1 DEF IInv, Listed, AwayUnknown
<1> QED
  BY <1>2, <1>3, <1>4

(* A handler that ends with assign_job keeps IInv if the lists it leaves   *)
(* are in order and it does not touch clients that are away.               *)
LEMMA AssignHandler ==
  ASSUME IInv,
         NEW t, NEW asking, NEW act, NEW ina, NEW jb, NEW ev,
         TableInv(t), Owned(t, act, jb), Listed(act, ina, asking, ev),
         OverIsOver(t, act), act \subseteq active_peers,
         asking \cup act \cup ina \subseteq Client,
         jb \in [Client -> Pkg \cup {NULL}], ev \in [Client -> Event],
         AssignJobs(t, asking, act, ina, jb, ev),
         client' \in [Client -> {"away", "ready", "asked", "building", "gone"}],
         sent' \in [Client -> Seq({"G", "S", "D", "F"})],
         master' = master, script' = script, lost' = lost,
         \A d \in Client : client'[d] = "away" => d \notin act \cup ina \cup asking
  PROVE  IInv'
<1>1. TypeOK /\ (script = "running" => act = {})
  BY DEF IInv, NoIdleWhileBuildable
<1>2. /\ PeersInv'
      /\ active_peers' \subseteq act \cup asking
      /\ inactive_peers' = ina
      /\ unassigned_peers' \subseteq asking
      /\ job' \in [Client -> Pkg \cup {NULL}]
      /\ event' \in [Client -> Event]
      /\ shutdowns' \in Nat
      /\ down' \in [Client -> BOOLEAN]
  BY <1>1, AssignJobsInv
<1>3. TypeOK'
  BY <1>1, <1>2 DEF TypeOK
<1>4. AwayUnknown'
  BY <1>2 DEF AwayUnknown
<1> QED
  BY <1>2, <1>3, <1>4 DEF IInv, PeersInv

(* A peer that gives up its job leaves the others theirs.                  *)
LEMMA OwnedWithout ==
  ASSUME NEW t, NEW u, NEW act \in SUBSET Client, NEW c \in act,
         NEW jb \in [Client -> Pkg \cup {NULL}], Owned(t, act, jb),
         \A p \in Pkg : u.state[p] = "IN_PROCESSING" <=>
                          t.state[p] = "IN_PROCESSING" /\ p # jb[c]
  PROVE  Owned(u, act \ {c}, [jb EXCEPT ![c] = NULL])
<1> DEFINE jc == [jb EXCEPT ![c] = NULL]
<1>1. \A d \in Client : jc[d] = IF d = c THEN NULL ELSE jb[d]
  OBVIOUS
<1> HIDE DEF jc
<1>2. \A d \in Client : jc[d] # NULL <=> d \in act \ {c}
  BY <1>1 DEF Owned
<1>3. \A d, e \in act \ {c} : jc[d] = jc[e] => d = e
  BY <1>1 DEF Owned
<1>4. ASSUME NEW d \in act \ {c}
      PROVE  jc[d] \in {p \in Pkg : u.state[p] = "IN_PROCESSING"}
  <2>1. jc[d] = jb[d] /\ jb[d] # jb[c]
    BY <1>1 DEF Owned
  <2>2. jb[d] \in {p \in Pkg : t.state[p] = "IN_PROCESSING"}
    BY DEF Owned
  <2> QED
    BY <2>1, <2>2
<1>5. ASSUME NEW p \in Pkg, u.state[p] = "IN_PROCESSING"
      PROVE  \E d \in act \ {c} : jc[d] = p
  <2>1. t.state[p] = "IN_PROCESSING" /\ p # jb[c]
    BY <1>5
  <2>2. PICK d \in act : jb[d] = p
    BY <2>1 DEF Owned
  <2> QED
    BY <2>1, <2>2, <1>1
<1>6. Owned(u, act \ {c}, jc)
  BY <1>2, <1>3, <1>4, <1>5 DEF Owned
<1> QED
  BY <1>6 DEF jc

(* What the status byte makes of the table.                                *)
LEMMA FinishedFacts ==
  ASSUME IInv, NEW c \in Client, event[c] = "read_status"
  PROVE  /\ TableInv(Finished(c))
         /\ \A p \in Pkg : Finished(c).state[p] = "IN_PROCESSING" <=>
                             table.state[p] = "IN_PROCESSING" /\ p # job[c]
         /\ \A p \in Pkg : MayChange(table.state[p], Finished(c).state[p])
         /\ \A p \in Pkg : Finished(c).state[p] = "DONE" =>
              table.state[p] = "DONE" \/ (p = job[c] /\ Head(sent[c]) = "D")
         /\ \A p \in Pkg : Finished(c).state[p] = "FAILED" =>
              table.state[p] = "FAILED" \/ (p = job[c] /\ Head(sent[c]) # "D")
<1> DEFINE j == job[c]
<1>1. j \in Pkg /\ table.state[j] = "IN_PROCESSING" /\ TableInv(table)
  BY PeerFacts DEF IInv
<1>2. table \in Table
  BY <1>1 DEF TableInv
<1>3. CASE Head(sent[c]) = "D"
  <2>1. Finished(c) = JobDone(table, j)
    BY <1>3 DEF Finished
  <2>2. TableInv(JobDone(table, j))
    BY <1>1, JobDoneInv
  <2>3. \A p \in Pkg :
          JobDone(table, j).state[p] = IF p = j THEN "DONE" ELSE table.state[p]
    BY <1>1, <1>2 DEF JobDone, Table
  <2> QED
    BY <1>1, <1>3, <2>1, <2>2, <2>3 DEF MayChange
<1>4. CASE Head(sent[c]) # "D"
  <2>1. Finished(c) = JobFailed(table, j)
    BY <1>4 DEF Finished
  <2>2. TableInv(JobFailed(table, j))
    BY <1>1, JobFailedInv
  <2>3. \A p \in Pkg :
          \/ p = j /\ JobFailed(table, j).state[p] = "FAILED"
          \/ p # j /\ JobFailed(table, j).state[p] = table.state[p]
          \/ /\ table.state[p] = "OPEN"
             /\ JobFailed(table, j).state[p] = "INDIRECT_FAILED"
    BY <1>1, JobFailedStates
  <2>4. ASSUME NEW p \in Pkg
        PROVE  /\ Finished(c).state[p] = "IN_PROCESSING" <=>
                    table.state[p] = "IN_PROCESSING" /\ p # j
               /\ MayChange(table.state[p], Finished(c).state[p])
               /\ Finished(c).state[p] = "DONE" => table.state[p] = "DONE"
               /\ Finished(c).state[p] = "FAILED" => table.state[p] = "FAILED" \/ p = j
    <3>1. CASE p = j /\ Finished(c).state[p] = "FAILED"
      BY <1>1, <3>1 DEF MayChange
    <3>2. CASE p # j /\ Finished(c).state[p] = table.state[p]
      BY <3>2 DEF MayChange
    <3>3. CASE table.state[p] = "OPEN" /\ Finished(c).state[p] = "INDIRECT_FAILED"
      BY <3>3 DEF MayChange
    <3> QED
      BY <2>1, <2>3, <3>1, <3>2, <3>3
  <2> QED
    BY <1>4, <2>1, <2>2, <2>4
<1> QED
  BY <1>3, <1>4

(* The table without the job of a killed peer.                             *)
LEMMA ReopenedFacts ==
  ASSUME IInv, NEW c \in Client
  PROVE  /\ TableInv(Reopened(c))
         /\ Owned(Reopened(c), active_peers \ {c}, [job EXCEPT ![c] = NULL])
         /\ OverIsOver(Reopened(c), active_peers \ {c})
         /\ \A p \in Pkg :
              \/ Reopened(c).state[p] = table.state[p]
              \/ table.state[p] = "IN_PROCESSING" /\ Reopened(c).state[p] = "OPEN"
<1>1. /\ TableInv(table) /\ table \in Table
      /\ active_peers \subseteq Client /\ job \in [Client -> Pkg \cup {NULL}]
      /\ Owned(table, active_peers, job) /\ OverIsOver(table, active_peers)
      /\ job[c] # NULL <=> c \in active_peers
  BY DEF IInv, TypeOK, TableInv, Owned
<1>2. CASE c \in active_peers
  <2> DEFINE j == job[c]
  <2>1. j \in Pkg /\ table.state[j] = "IN_PROCESSING" /\ shutdowns = 0
    <3>1. j \in {p \in Pkg : table.state[p] = "IN_PROCESSING"}
      BY <1>1, <1>2 DEF Owned
    <3> QED
      BY <1>1, <1>2, <3>1 DEF OverIsOver, IInv, TypeOK
  <2>2. Reopened(c) = JobOpen(table, j)
    BY <1>1, <1>2 DEF Reopened
  <2>3. TableInv(JobOpen(table, j))
    BY <1>1, <2>1, JobOpenInv
  <2>4. \A p \in Pkg :
          JobOpen(table, j).state[p] = IF p = j THEN "OPEN" ELSE table.state[p]
    BY <1>1, <2>1 DEF JobOpen, Table
  <2>5. Owned(Reopened(c), active_peers \ {c}, [job EXCEPT ![c] = NULL])
    <3>1. \A p \in Pkg : Reopened(c).state[p] = "IN_PROCESSING" <=>
                           table.state[p] = "IN_PROCESSING" /\ p # job[c]
      BY <2>2, <2>4
    <3> QED
      BY <1>1, <1>2, <3>1, OwnedWithout
  <2> QED
    BY <2>1, <2>2, <2>3, <2>4, <2>5 DEF OverIsOver
<1>3. CASE c \notin active_peers
  <2>1. Reopened(c) = table
    BY <1>1, <1>3 DEF Reopened
  <2>2. active_peers \ {c} = active_peers
    BY <1>3
  <2>3. [job EXCEPT ![c] = NULL] = job
    BY <1>1, <1>3
  <2> QED
    BY <1>1, <2>1, <2>2, <2>3
<1> QED
  BY <1>2, <1>3

LEMMA ReadGetIInv ==
  ASSUME IInv, NEW c \in Client, ReadGet(c)
  PROVE  IInv'
<1> DEFINE ev == [event EXCEPT ![c] = "none"]
<1>1. /\ event[c] = "read_command" /\ sent[c] # << >>
      /\ sent' = [sent EXCEPT ![c] = Tail(@)]
      /\ AssignJobs(table, unassigned_peers \cup {c}, active_peers,
                    inactive_peers \ {c}, job, ev)
      /\ UNCHANGED <<master, script, client, lost>>
  BY DEF ReadGet, Readable
<1>2. c \in inactive_peers /\ c \notin active_peers /\ client[c] # "away"
  BY <1>1, PeerFacts
<1>3. ev \in [Client -> Event] /\ \A d \in Client : ev[d] = IF d = c THEN "none" ELSE event[d]
  BY DEF IInv, TypeOK, Event
<1>4. Listed(active_peers, inactive_peers \ {c}, unassigned_peers \cup {c}, ev)
  BY <1>2, <1>3 DEF IInv, Listed
<1>5. sent' \in [Client -> Seq({"G", "S", "D", "F"})]
  BY <1>1, HeadTailProperties DEF IInv, TypeOK
<1>6. \A d \in Client : client'[d] = "away" =>
        d \notin active_peers \cup (inactive_peers \ {c}) \cup (unassigned_peers \cup {c})
  BY <1>1, <1>2 DEF IInv, AwayUnknown
<1>7. client' \in [Client -> {"away", "ready", "asked", "building", "gone"}]
  BY <1>1 DEF IInv, TypeOK
<1>8. /\ TableInv(table) /\ Owned(table, active_peers, job)
      /\ OverIsOver(table, active_peers)
      /\ active_peers \subseteq active_peers
      /\ (unassigned_peers \cup {c}) \cup active_peers \cup (inactive_peers \ {c}) \subseteq Client
      /\ job \in [Client -> Pkg \cup {NULL}]
  BY DEF IInv, TypeOK
<1> HIDE DEF ev
<1> QED
  BY <1>1, <1>3, <1>4, <1>5, <1>6, <1>7, <1>8, AssignHandler

LEMMA ReadStatusIInv ==
  ASSUME IInv, NEW c \in Client, ReadStatus(c)
  PROVE  IInv'
<1> DEFINE ev == [event EXCEPT ![c] = "read_command"]
           jb == [job EXCEPT ![c] = NULL]
           act == active_peers \ {c}
           ina == inactive_peers \cup {c}
<1>1. /\ event[c] = "read_status" /\ sent[c] # << >>
      /\ sent' = [sent EXCEPT ![c] = Tail(@)]
      /\ AssignJobs(Finished(c), unassigned_peers, act, ina, jb, ev)
      /\ UNCHANGED <<master, script, client, lost>>
  BY DEF ReadStatus, Readable
<1>2. /\ c \in active_peers /\ c \notin unassigned_peers /\ client[c] # "away"
      /\ shutdowns = 0
  BY <1>1, PeerFacts
<1>3. /\ ev \in [Client -> Event]
      /\ \A d \in Client : ev[d] = IF d = c THEN "read_command" ELSE event[d]
      /\ jb \in [Client -> Pkg \cup {NULL}]
  BY DEF IInv, TypeOK, Event
<1>4. Listed(act, ina, unassigned_peers, ev)
  BY <1>2, <1>3 DEF IInv, Listed
<1>5. sent' \in [Client -> Seq({"G", "S", "D", "F"})]
  BY <1>1, HeadTailProperties DEF IInv, TypeOK
<1>6. \A d \in Client : client'[d] = "away" => d \notin act \cup ina \cup unassigned_peers
  BY <1>1, <1>2 DEF IInv, AwayUnknown
<1>7. TableInv(Finished(c)) /\ Owned(Finished(c), act, jb)
  <2>1. active_peers \subseteq Client /\ job \in [Client -> Pkg \cup {NULL}]
    BY DEF IInv, TypeOK
  <2> QED
    <3>1. TableInv(Finished(c))
      BY <1>1, FinishedFacts
    <3>2. \A p \in Pkg : Finished(c).state[p] = "IN_PROCESSING" <=>
                           table.state[p] = "IN_PROCESSING" /\ p # job[c]
      BY <1>1, FinishedFacts
    <3>3. Owned(table, active_peers, job)
      BY DEF IInv
    <3> QED
      BY <1>2, <2>1, <3>1, <3>2, <3>3, OwnedWithout
<1>8. OverIsOver(Finished(c), act)
  BY <1>2 DEF OverIsOver
<1>9. unassigned_peers \cup act \cup ina \subseteq Client /\ act \subseteq active_peers
  BY DEF IInv, TypeOK
<1>10. client' \in [Client -> {"away", "ready", "asked", "building", "gone"}]
  BY <1>1 DEF IInv, TypeOK
<1> HIDE DEF ev, jb, act, ina
<1> QED
  BY <1>1, <1>3, <1>4, <1>5, <1>6, <1>7, <1>8, <1>9, <1>10, AssignHandler

LEMMA KillPeerIInv ==
  ASSUME IInv, NEW c \in Client, KillPeer(c)
  PROVE  IInv'
<1> DEFINE ev == [event EXCEPT ![c] = "none"]
           jb == [job EXCEPT ![c] = NULL]
           act == active_peers \ {c}
           ina == inactive_peers \ {c}
<1>1. /\ client' = [client EXCEPT ![c] = "gone"]
      /\ sent' = [sent EXCEPT ![c] = << >>]
      /\ AssignJobs(Reopened(c), unassigned_peers, act, ina, jb, ev)
      /\ UNCHANGED <<master, script, lost>>
  BY DEF KillPeer
<1>2. /\ ev \in [Client -> Event]
      /\ \A d \in Client : ev[d] = IF d = c THEN "none" ELSE event[d]
      /\ jb \in [Client -> Pkg \cup {NULL}]
  BY DEF IInv, TypeOK, Event
<1>3. Listed(act, ina, unassigned_peers, ev)
  BY <1>2 DEF IInv, Listed
<1>4. sent' \in [Client -> Seq({"G", "S", "D", "F"})]
  BY <1>1, EmptySeq DEF IInv, TypeOK
<1>5. client' \in [Client -> {"away", "ready", "asked", "building", "gone"}]
  BY <1>1 DEF IInv, TypeOK
<1>6. \A d \in Client : client'[d] = "away" => d \notin act \cup ina \cup unassigned_peers
  BY <1>1 DEF IInv, TypeOK, AwayUnknown
<1>7. /\ TableInv(Reopened(c)) /\ Owned(Reopened(c), act, jb)
      /\ OverIsOver(Reopened(c), act)
  BY ReopenedFacts
<1>8. unassigned_peers \cup act \cup ina \subseteq Client /\ act \subseteq active_peers
  BY DEF IInv, TypeOK
<1> HIDE DEF ev, jb, act, ina
<1> QED
  BY <1>1, <1>2, <1>3, <1>4, <1>5, <1>6, <1>7, <1>8, AssignHandler

(* The steps without assign_job leave the table alone.                     *)
LEMMA QuietIInv ==
  /\ IInv /\ TypeOK' /\ AwayUnknown'
  /\ table' = table /\ active_peers' = active_peers /\ job' = job
  /\ unassigned_peers' = unassigned_peers /\ shutdowns' = shutdowns
  /\ Listed(active_peers', inactive_peers', unassigned_peers', event')
  /\ script' = script \/ (script = "running" /\ script' = "done")
  => IInv'
BY DEF IInv, Owned, OverIsOver, NoIdleWhileBuildable

LEMMA NextIInv ==
  IInv /\ [Next]_vars => IInv'
<1> SUFFICES ASSUME IInv, [Next]_vars
             PROVE  IInv'
  OBVIOUS
<1>0. /\ TypeOK /\ AwayUnknown
      /\ Listed(active_peers, inactive_peers, unassigned_peers, event)
  BY DEF IInv
<1>1. ASSUME NEW c \in Client, Accept(c)
      PROVE  IInv'
  <2>1. c \notin active_peers \cup inactive_peers \cup unassigned_peers
    BY <1>0, <1>1 DEF Accept, AwayUnknown
  <2>2. TypeOK'
    BY <1>0, <1>1 DEF Accept, TypeOK, Event
  <2>3. AwayUnknown'
    BY <1>0, <1>1 DEF Accept, AwayUnknown, TypeOK
  <2>4. Listed(active_peers', inactive_peers', unassigned_peers', event')
    BY <1>0, <1>1, <2>1 DEF Accept, Listed, TypeOK
  <2> QED
    BY <1>1, <2>2, <2>3, <2>4, QuietIInv DEF Accept
<1>2. ASSUME NEW c \in Client, ReadGet(c)
      PROVE  IInv'
  BY <1>2, ReadGetIInv
<1>3. ASSUME NEW c \in Client, ReadStatRequest(c)
      PROVE  IInv'
  <2>1. TypeOK'
    <3>1. sent' \in [Client -> Seq({"G", "S", "D", "F"})]
      BY <1>0, <1>3, HeadTailProperties DEF ReadStatRequest, Readable, TypeOK
    <3> QED
      BY <1>0, <1>3, <3>1 DEF ReadStatRequest, TypeOK, Event
  <2>2. AwayUnknown'
    BY <1>0, <1>3 DEF ReadStatRequest, AwayUnknown
  <2>3. Listed(active_peers', inactive_peers', unassigned_peers', event')
    BY <1>0, <1>3 DEF ReadStatRequest, Listed, TypeOK
  <2> QED
    BY <1>3, <2>1, <2>2, <2>3, QuietIInv DEF ReadStatRequest
<1>4. ASSUME NEW c \in Client, SendStats(c)
      PROVE  IInv'
  <2>1. TypeOK'
    BY <1>0, <1>4 DEF SendStats, masterVars, TypeOK
  <2>2. AwayUnknown'
    BY <1>0, <1>4 DEF SendStats, masterVars, AwayUnknown, TypeOK
  <2> QED
    BY <1>0, <1>4, <2>1, <2>2, QuietIInv DEF SendStats, masterVars
<1>5. ASSUME NEW c \in Client, SendInfo(c)
      PROVE  IInv'
  <2>1. TypeOK'
    BY <1>0, <1>5 DEF SendInfo, TypeOK, Event
  <2>2. AwayUnknown'
    BY <1>0, <1>5 DEF SendInfo, AwayUnknown, TypeOK
  <2>3. Listed(active_peers', inactive_peers', unassigned_peers', event')
    BY <1>0, <1>5 DEF SendInfo, Listed, TypeOK
  <2> QED
    BY <1>5, <2>1, <2>2, <2>3, QuietIInv DEF SendInfo
<1>6. ASSUME NEW c \in Client, ReadStatus(c)
      PROVE  IInv'
  BY <1>6, ReadStatusIInv
<1>7. ASSUME NEW c \in Client, KillPeer(c)
      PROVE  IInv'
  BY <1>7, KillPeerIInv
<1>8. ASSUME NEW c \in Client, SendCommand(c) \/ Report(c) \/ LoseClient(c)
      PROVE  IInv'
  <2>1. /\ client' \in [Client -> {"away", "ready", "asked", "building", "gone"}]
        /\ \A d \in Client : client'[d] = "away" => client[d] = "away"
        /\ lost' \in 0 .. MaxLost
    <3>1. CASE SendCommand(c)
      BY <1>0, <3>1 DEF SendCommand, TypeOK
    <3>2. CASE Report(c)
      BY <1>0, <3>2 DEF Report, TypeOK
    <3>3. CASE LoseClient(c)
      <4>1. /\ client' = [client EXCEPT ![c] = "gone"]
            /\ lost' = lost + 1 /\ lost < MaxLost
        BY <3>3 DEF LoseClient
      <4> QED
        BY <1>0, <4>1, MaxLostAssumption DEF TypeOK
    <3> QED
      BY <1>8, <3>1, <3>2, <3>3
  <2>2. sent' \in [Client -> Seq({"G", "S", "D", "F"})]
    <3>1. CASE SendCommand(c)
      BY <1>0, <3>1, AppendProperties DEF SendCommand, TypeOK
    <3>2. CASE Report(c)
      BY <1>0, <3>2, AppendProperties DEF Report, TypeOK
    <3>3. CASE LoseClient(c)
      BY <1>0, <3>3, EmptySeq DEF LoseClient, TypeOK
    <3> QED
      BY <1>8, <3>1, <3>2, <3>3
  <2>3. UNCHANGED <<table, masterVars>>
    BY <1>8 DEF SendCommand, Report, LoseClient
  <2>4. TypeOK'
    BY <1>0, <2>1, <2>2, <2>3 DEF masterVars, TypeOK
  <2>5. AwayUnknown'
    BY <1>0, <2>1, <2>3 DEF masterVars, AwayUnknown
  <2> QED
    BY <1>0, <2>3, <2>4, <2>5, QuietIInv DEF masterVars
<1>9. CASE ScriptDone \/ ScriptFailed \/ LoopExit
  <2>1. TypeOK'
    BY <1>0, <1>9 DEF ScriptDone, ScriptFailed, LoopExit, clientVars, TypeOK
  <2>2. AwayUnknown'
    BY <1>0, <1>9 DEF ScriptDone, ScriptFailed, LoopExit, clientVars, AwayUnknown
  <2> QED
    BY <1>0, <1>9, <2>1, <2>2, QuietIInv
    DEF ScriptDone, ScriptFailed, LoopExit, clientVars, clients_started
<1>10. CASE UNCHANGED vars
  BY <1>0, <1>10, QuietIInv
  DEF vars, masterVars, clientVars, TypeOK, AwayUnknown
<1> QED
  BY <1>1, <1>2, <1>3, <1>4, <1>5, <1>6, <1>7, <1>8, <1>9, <1>10 DEF Next

(* IInv holds in every reachable state.                                    *)
THEOREM Invariance == Spec => []IInv
BY InitIInv, NextIInv, PTL DEF Spec

-----------------------------------------------------------------------------
(* The properties *)

(* The variables of master mode have their types, for any number of        *)
(* clients.                                                                *)
THEOREM TypeCorrect == Spec => []TypeOK
<1>1. IInv => TypeOK
  BY DEF IInv
<1> QED
  BY <1>1, Invariance, PTL

(* For every scan and any number of clients, the table is sound whichever  *)
(* clients come, go, answer or are lost.                                   *)
THEOREM JobsAlwaysSound == Spec => []JobsSound
<1>1. IInv => JobsSound
  BY DEF IInv, JobsSound
<1> QED
  BY <1>1, Invariance, PTL

(* A job in processing has exactly one peer, which is active: whichever    *)
(* clients are lost, no job goes with them, and none is built twice.       *)
THEOREM JobsAlwaysOwned == Spec => []ActivePeersOwnJobs
<1>1. IInv => ActivePeersOwnJobs
  BY DEF IInv, Owned, ActivePeersOwnJobs
<1> QED
  BY <1>1, Invariance, PTL

(* Every peer is in one list, and has its event unless it waits for a job. *)
THEOREM NoPeerForgotten == Spec => []EveryPeerIsSomewhere
<1>1. IInv => EveryPeerIsSomewhere
  <2> SUFFICES ASSUME IInv
               PROVE  EveryPeerIsSomewhere
    OBVIOUS
  <2>1. active_peers \subseteq Client /\ inactive_peers \subseteq Client
    BY DEF IInv, TypeOK
  <2>2. \A c \in Client : event[c] # "none" <=> c \in active_peers \cup inactive_peers
    BY DEF IInv, TypeOK, Event, Listed
  <2>3. active_peers \cap inactive_peers = {}
    BY <2>1 DEF IInv, Listed
  <2> QED
    BY <2>1, <2>2, <2>3 DEF EveryPeerIsSomewhere, Pending, IInv, Listed
<1> QED
  BY <1>1, Invariance, PTL

(* No client waits next to a buildable job once one is at work, and none   *)
(* is at work before the start script is done.                             *)
THEOREM NeverIdleWhileBuildable == Spec => []NoIdleWhileBuildable
<1>1. IInv => NoIdleWhileBuildable
  BY DEF IInv
<1> QED
  BY <1>1, Invariance, PTL

(* The master shuts down only when every package has its result.           *)
THEOREM NeverShutDownEarly == Spec => []ShutdownOnlyWhenDone
<1>1. IInv => ShutdownOnlyWhenDone
  BY DEF IInv, OverIsOver, ShutdownOnlyWhenDone
<1> QED
  BY <1>1, Invariance, PTL

(* What a step does to the states of the jobs: they change the way         *)
(* process_job changes them, and a result comes from a byte of the client  *)
(* that has the job.                                                       *)
LEMMA StateChanges ==
  ASSUME IInv, [Next]_vars, NEW p \in Pkg
  PROVE  /\ MayChange(table.state[p], table'.state[p])
         /\ table.state[p] # "DONE" /\ table'.state[p] = "DONE" =>
              \E c \in active_peers :
                job[c] = p /\ sent[c] # << >> /\ Head(sent[c]) = "D"
         /\ table.state[p] # "FAILED" /\ table'.state[p] = "FAILED" =>
              \E c \in active_peers :
                job[c] = p /\ sent[c] # << >> /\ Head(sent[c]) # "D"
<1>0. TypeOK /\ TableInv(table)
  BY DEF IInv
<1>1. ASSUME NEW t, NEW asking, NEW act, NEW ina, NEW jb, NEW ev,
             TableInv(t), AssignJobs(t, asking, act, ina, jb, ev)
      PROVE  \/ table'.state[p] = t.state[p]
             \/ t.state[p] = "OPEN" /\ table'.state[p] = "IN_PROCESSING"
  <2>1. PICK g \in Served(t, asking) : table' = HandedOut(t, {g[c] : c \in DOMAIN g})
    BY <1>1 DEF AssignJobs
  <2> DEFINE given == {g[c] : c \in DOMAIN g}
  <2>2. given \subseteq t.buildable_jobs
    BY ServedFacts
  <2>3. t \in Table /\ \A q \in given : t.state[q] = "OPEN"
    BY <1>1, <2>2 DEF TableInv, BuildListExact
  <2>4. HandedOut(t, given).state[p] =
          IF p \in given THEN "IN_PROCESSING" ELSE t.state[p]
    BY <2>3, HandedOutFields
  <2> QED
    BY <2>1, <2>3, <2>4
<1>2. ASSUME NEW c \in Client, ReadGet(c)
      PROVE  \/ table'.state[p] = table.state[p]
             \/ table.state[p] = "OPEN" /\ table'.state[p] = "IN_PROCESSING"
  BY <1>0, <1>1, <1>2 DEF ReadGet
<1>3. ASSUME NEW c \in Client, KillPeer(c)
      PROVE  \/ table'.state[p] = table.state[p]
             \/ table.state[p] = "OPEN" /\ table'.state[p] = "IN_PROCESSING"
             \/ table.state[p] = "IN_PROCESSING" /\ table'.state[p] = "OPEN"
  <2>1. TableInv(Reopened(c))
    BY ReopenedFacts
  <2>2. \/ Reopened(c).state[p] = table.state[p]
        \/ table.state[p] = "IN_PROCESSING" /\ Reopened(c).state[p] = "OPEN"
    BY ReopenedFacts
  <2>3. \/ table'.state[p] = Reopened(c).state[p]
        \/ Reopened(c).state[p] = "OPEN" /\ table'.state[p] = "IN_PROCESSING"
    BY <1>1, <1>3, <2>1 DEF KillPeer
  <2> QED
    BY <2>2, <2>3
<1>4. ASSUME NEW c \in Client, ReadStatus(c)
      PROVE  /\ MayChange(table.state[p], table'.state[p])
             /\ table'.state[p] = "DONE" =>
                  table.state[p] = "DONE" \/ (p = job[c] /\ Head(sent[c]) = "D")
             /\ table'.state[p] = "FAILED" =>
                  table.state[p] = "FAILED" \/ (p = job[c] /\ Head(sent[c]) # "D")
             /\ c \in active_peers /\ sent[c] # << >>
  <2>1. event[c] = "read_status" /\ sent[c] # << >>
    BY <1>4 DEF ReadStatus, Readable
  <2>2. TableInv(Finished(c))
    BY <2>1, FinishedFacts
  <2>3. \/ table'.state[p] = Finished(c).state[p]
        \/ Finished(c).state[p] = "OPEN" /\ table'.state[p] = "IN_PROCESSING"
    BY <1>1, <1>4, <2>2 DEF ReadStatus
  <2>4. /\ MayChange(table.state[p], Finished(c).state[p])
        /\ Finished(c).state[p] = "DONE" =>
             table.state[p] = "DONE" \/ (p = job[c] /\ Head(sent[c]) = "D")
        /\ Finished(c).state[p] = "FAILED" =>
             table.state[p] = "FAILED" \/ (p = job[c] /\ Head(sent[c]) # "D")
    BY <2>1, FinishedFacts
  <2>5. c \in active_peers
    BY <2>1, PeerFacts
  <2> QED
    BY <2>1, <2>3, <2>4, <2>5 DEF MayChange
<1>5. ASSUME table' = table
      PROVE  table'.state[p] = table.state[p]
  BY <1>5
<1>6. \/ \E c \in Client : ReadGet(c)
      \/ \E c \in Client : KillPeer(c)
      \/ \E c \in Client : ReadStatus(c)
      \/ table' = table
  BY DEF Next, vars, Accept, ReadStatRequest, SendStats, SendInfo, SendCommand,
         Report, LoseClient, ScriptDone, ScriptFailed, LoopExit
<1>7. CASE \E c \in Client : ReadGet(c)
  BY <1>2, <1>7 DEF MayChange
<1>8. CASE \E c \in Client : KillPeer(c)
  BY <1>3, <1>8 DEF MayChange
<1>9. CASE \E c \in Client : ReadStatus(c)
  BY <1>4, <1>9
<1>10. CASE table' = table
  BY <1>10 DEF MayChange
<1> QED
  BY <1>6, <1>7, <1>8, <1>9, <1>10

-----------------------------------------------------------------------------
(* The conversation of the master with one client *)

(* What is under way from a client fits what the master waits for: at most *)
(* a command; or a status byte and the command after it; or nothing, while *)
(* it is the master's turn.                                                *)
Conversation ==
  \A c \in Client :
    /\ event[c] = "read_command" =>
         /\ Len(sent[c]) <= 1 /\ client[c] # "building"
         /\ client[c] = "ready" => Len(sent[c]) = 0
    /\ event[c] = "read_status" =>
         /\ Len(sent[c]) <= 2
         /\ Len(sent[c]) > 0 => sent[c][1] \in {"D", "F"}
         /\ client[c] = "building" => Len(sent[c]) = 0
         /\ client[c] = "ready" => Len(sent[c]) = 1
    /\ event[c] \notin {"read_command", "read_status"} =>
         Len(sent[c]) = 0 /\ client[c] \notin {"ready", "building"}

(* A client that waits for a job has sent all it has to say.               *)
LEMMA WaitingIsSilent ==
  ASSUME IInv, Conversation, NEW c \in unassigned_peers
  PROVE  /\ c \in Client /\ event[c] = "none" /\ Len(sent[c]) = 0
         /\ client[c] \notin {"ready", "building"}
<1>1. c \in Client /\ event[c] \in Event
  BY DEF IInv, TypeOK
<1>2. event[c] = "none"
  BY <1>1 DEF IInv, Listed, Event
<1> QED
  BY <1>1, <1>2 DEF Conversation

(* assign_job gives some of those that asked a job to be sent.             *)
LEMMA EventsAfter ==
  ASSUME NEW t, NEW asking, NEW act, NEW ina, NEW jb, NEW ev,
         AssignJobs(t, asking, act, ina, jb, ev), NEW c \in Client
  PROVE  event'[c] = ev[c] \/ (c \in asking /\ event'[c] = "send_info")
<1>1. PICK g \in Served(t, asking) :
        event' = [d \in Client |-> IF d \in DOMAIN g THEN "send_info" ELSE ev[d]]
  BY DEF AssignJobs
<1>2. DOMAIN g \subseteq asking
  BY ServedFacts
<1> QED
  BY <1>1, <1>2

LEMMA ConversationStep ==
  IInv /\ Conversation /\ [Next]_vars => Conversation'
<1> SUFFICES ASSUME IInv, Conversation, [Next]_vars
             PROVE  Conversation'
  OBVIOUS
<1>0. /\ TypeOK
      /\ \A c \in Client : sent[c] \in Seq({"G", "S", "D", "F"}) /\ Len(sent[c]) \in Nat
  BY LenProperties DEF IInv, TypeOK
<1>1. ASSUME NEW c \in Client, ReadGet(c)
      PROVE  Conversation'
  <2>1. /\ event[c] = "read_command" /\ sent[c] # << >>
        /\ sent' = [sent EXCEPT ![c] = Tail(@)]
        /\ client' = client
        /\ AssignJobs(table, unassigned_peers \cup {c}, active_peers,
                      inactive_peers \ {c}, job, [event EXCEPT ![c] = "none"])
    BY <1>1 DEF ReadGet, Readable
  <2>2. Len(sent'[c]) = 0 /\ client'[c] \notin {"ready", "building"}
    <3>1. Len(sent[c]) <= 1 /\ client[c] # "building" /\ (client[c] = "ready" => Len(sent[c]) = 0)
      BY <2>1 DEF Conversation
    <3>2. Len(sent[c]) > 0 /\ Len(Tail(sent[c])) = Len(sent[c]) - 1
      BY <1>0, <2>1, HeadTailProperties, EmptySeq
    <3>3. Len(sent[c]) = 1 /\ Len(Tail(sent[c])) = 0
      <4> DEFINE n == Len(sent[c])  m == Len(Tail(sent[c]))
      <4>1. n \in Nat /\ n <= 1 /\ n > 0 /\ m = n - 1
        BY <1>0, <3>1, <3>2
      <4> HIDE DEF n, m
      <4>2. n = 1 /\ m = 0
        BY <4>1
      <4> QED
        BY <4>2 DEF n, m
    <3> QED
      BY <1>0, <2>1, <3>1, <3>3 DEF TypeOK
  <2>3. event'[c] \in {"none", "send_info"}
    <3>1. [event EXCEPT ![c] = "none"][c] = "none"
      BY <1>0 DEF TypeOK
    <3> QED
      BY <2>1, <3>1, EventsAfter
  <2>4. ASSUME NEW d \in Client, d # c
        PROVE  /\ sent'[d] = sent[d] /\ client'[d] = client[d]
               /\ event'[d] = event[d] \/ (d \in unassigned_peers /\ event'[d] = "send_info")
    <3> DEFINE ev == [event EXCEPT ![c] = "none"]
    <3>1. ev[d] = event[d]
      BY <1>0, <2>4 DEF TypeOK
    <3>0. PICK t, act, ina, jb : AssignJobs(t, unassigned_peers \cup {c}, act, ina, jb, ev)
      BY <2>1
    <3> HIDE DEF ev
    <3>2. event'[d] = event[d] \/ (d \in unassigned_peers \cup {c} /\ event'[d] = "send_info")
      BY <2>4, <3>0, <3>1, EventsAfter
    <3> QED
      BY <1>0, <2>1, <2>4, <3>2 DEF TypeOK
  <2> QED
    BY <2>2, <2>3, <2>4, WaitingIsSilent DEF Conversation
<1>2. ASSUME NEW c \in Client, ReadStatus(c)
      PROVE  Conversation'
  <2>1. /\ event[c] = "read_status" /\ sent[c] # << >>
        /\ sent' = [sent EXCEPT ![c] = Tail(@)]
        /\ client' = client
        /\ AssignJobs(Finished(c), unassigned_peers, active_peers \ {c},
                      inactive_peers \cup {c}, [job EXCEPT ![c] = NULL],
                      [event EXCEPT ![c] = "read_command"])
    BY <1>2 DEF ReadStatus, Readable
  <2>2. /\ Len(sent'[c]) <= 1 /\ client'[c] # "building"
        /\ client'[c] = "ready" => Len(sent'[c]) = 0
    <3>1. /\ Len(sent[c]) <= 2 /\ (client[c] = "building" => Len(sent[c]) = 0)
          /\ client[c] = "ready" => Len(sent[c]) = 1
      BY <2>1 DEF Conversation
    <3>2. Len(sent[c]) > 0 /\ Len(Tail(sent[c])) = Len(sent[c]) - 1
      BY <1>0, <2>1, HeadTailProperties, EmptySeq
    <3>3. sent'[c] = Tail(sent[c]) /\ client'[c] = client[c]
      BY <1>0, <2>1 DEF TypeOK
    <3> QED
      BY <1>0, <3>1, <3>2, <3>3
  <2>3. event'[c] = "read_command"
    <3>1. c \notin unassigned_peers
      BY <2>1, PeerFacts
    <3>2. [event EXCEPT ![c] = "read_command"][c] = "read_command"
      BY <1>0 DEF TypeOK
    <3> QED
      BY <2>1, <3>1, <3>2, EventsAfter
  <2>4. ASSUME NEW d \in Client, d # c
        PROVE  /\ sent'[d] = sent[d] /\ client'[d] = client[d]
               /\ event'[d] = event[d] \/ (d \in unassigned_peers /\ event'[d] = "send_info")
    <3> DEFINE ev == [event EXCEPT ![c] = "read_command"]
    <3>1. ev[d] = event[d]
      BY <1>0, <2>4 DEF TypeOK
    <3>0. PICK t, act, ina, jb : AssignJobs(t, unassigned_peers, act, ina, jb, ev)
      BY <2>1
    <3> HIDE DEF ev
    <3>2. event'[d] = event[d] \/ (d \in unassigned_peers /\ event'[d] = "send_info")
      BY <2>4, <3>0, <3>1, EventsAfter
    <3> QED
      BY <1>0, <2>1, <2>4, <3>2 DEF TypeOK
  <2> QED
    BY <2>2, <2>3, <2>4, WaitingIsSilent DEF Conversation
<1>3. ASSUME NEW c \in Client, KillPeer(c)
      PROVE  Conversation'
  <2>1. /\ client' = [client EXCEPT ![c] = "gone"]
        /\ sent' = [sent EXCEPT ![c] = << >>]
        /\ AssignJobs(Reopened(c), unassigned_peers, active_peers \ {c},
                      inactive_peers \ {c}, [job EXCEPT ![c] = NULL],
                      [event EXCEPT ![c] = "none"])
        /\ event[c] # "none"
    BY <1>3 DEF KillPeer, ReadFails, WriteFails
  <2>2. Len(sent'[c]) = 0 /\ client'[c] = "gone"
    BY <1>0, <2>1, EmptySeq DEF TypeOK
  <2>3. event'[c] = "none"
    <3>1. c \notin unassigned_peers
      BY <2>1, PeerFacts
    <3>2. [event EXCEPT ![c] = "none"][c] = "none"
      BY <1>0 DEF TypeOK
    <3> QED
      BY <2>1, <3>1, <3>2, EventsAfter
  <2>4. ASSUME NEW d \in Client, d # c
        PROVE  /\ sent'[d] = sent[d] /\ client'[d] = client[d]
               /\ event'[d] = event[d] \/ (d \in unassigned_peers /\ event'[d] = "send_info")
    <3> DEFINE ev == [event EXCEPT ![c] = "none"]
    <3>1. ev[d] = event[d]
      BY <1>0, <2>4 DEF TypeOK
    <3>0. PICK t, act, ina, jb : AssignJobs(t, unassigned_peers, act, ina, jb, ev)
      BY <2>1
    <3> HIDE DEF ev
    <3>2. event'[d] = event[d] \/ (d \in unassigned_peers /\ event'[d] = "send_info")
      BY <2>4, <3>0, <3>1, EventsAfter
    <3> QED
      BY <1>0, <2>1, <2>4, <3>2 DEF TypeOK
  <2> QED
    BY <2>2, <2>3, <2>4, WaitingIsSilent DEF Conversation
<1>4. ASSUME NEW c \in Client, Accept(c)
      PROVE  Conversation'
  <2>1. event[c] = "none"
    BY <1>4, PeerFacts DEF Accept
  <2> QED
    BY <1>0, <1>4, <2>1 DEF Accept, Conversation, TypeOK
<1>5. ASSUME NEW c \in Client, ReadStatRequest(c)
      PROVE  Conversation'
  <2>1. /\ event[c] = "read_command" /\ sent[c] # << >>
        /\ sent' = [sent EXCEPT ![c] = Tail(@)]
        /\ client' = client /\ event' = [event EXCEPT ![c] = "send_stats"]
    BY <1>5 DEF ReadStatRequest, Readable
  <2>2. Len(Tail(sent[c])) = 0 /\ client[c] \notin {"ready", "building"}
    <3>1. Len(sent[c]) <= 1 /\ client[c] # "building" /\ (client[c] = "ready" => Len(sent[c]) = 0)
      BY <2>1 DEF Conversation
    <3>2. Len(sent[c]) > 0 /\ Len(Tail(sent[c])) = Len(sent[c]) - 1
      BY <1>0, <2>1, HeadTailProperties, EmptySeq
    <3>3. Len(sent[c]) = 1 /\ Len(Tail(sent[c])) = 0
      <4> DEFINE n == Len(sent[c])  m == Len(Tail(sent[c]))
      <4>1. n \in Nat /\ n <= 1 /\ n > 0 /\ m = n - 1
        BY <1>0, <3>1, <3>2
      <4> HIDE DEF n, m
      <4>2. n = 1 /\ m = 0
        BY <4>1
      <4> QED
        BY <4>2 DEF n, m
    <3> QED
      BY <3>1, <3>3
  <2> QED
    BY <1>0, <2>1, <2>2 DEF Conversation, TypeOK
<1>6. ASSUME NEW c \in Client, SendStats(c)
      PROVE  Conversation'
  BY <1>0, <1>6 DEF SendStats, masterVars, Conversation, TypeOK
<1>7. ASSUME NEW c \in Client, SendInfo(c)
      PROVE  Conversation'
  BY <1>0, <1>7 DEF SendInfo, Conversation, TypeOK
<1>8. ASSUME NEW c \in Client, SendCommand(c)
      PROVE  Conversation'
  <2>1. PICK b \in {"G", "S"} : sent' = [sent EXCEPT ![c] = Append(@, b)]
    BY <1>8 DEF SendCommand
  <2>2. /\ Len(Append(sent[c], b)) = Len(sent[c]) + 1
        /\ Len(sent[c]) > 0 => Append(sent[c], b)[1] = sent[c][1]
    BY <1>0, AppendProperties
  <2>3. /\ client[c] = "ready" /\ client' = [client EXCEPT ![c] = "asked"]
        /\ event' = event
    BY <1>8 DEF SendCommand, masterVars
  <2> QED
    <3>1. /\ sent'[c] = Append(sent[c], b) /\ client'[c] = "asked"
          /\ event'[c] = event[c]
      BY <1>0, <2>1, <2>3 DEF TypeOK
    <3>2. \A d \in Client \ {c} :
            sent'[d] = sent[d] /\ client'[d] = client[d] /\ event'[d] = event[d]
      BY <1>0, <2>1, <2>3 DEF TypeOK
    <3>3. \/ event[c] = "read_command" /\ Len(sent[c]) = 0
          \/ event[c] = "read_status" /\ Len(sent[c]) = 1 /\ sent[c][1] \in {"D", "F"}
      BY <1>0, <2>3 DEF Conversation
    <3> QED
      BY <1>0, <2>2, <3>1, <3>2, <3>3 DEF Conversation
<1>9. ASSUME NEW c \in Client, Report(c)
      PROVE  Conversation'
  <2>1. PICK b \in {"D", "F"} : sent' = [sent EXCEPT ![c] = Append(@, b)]
    BY <1>9 DEF Report
  <2>2. /\ client[c] = "building" /\ client' = [client EXCEPT ![c] = "ready"]
        /\ event' = event
    BY <1>9 DEF Report, masterVars
  <2>3. event[c] = "read_status" /\ Len(sent[c]) = 0
    BY <2>2 DEF Conversation
  <2>4. /\ Len(Append(sent[c], b)) = 1
        /\ Append(sent[c], b)[1] = b
    BY <1>0, <2>3, AppendProperties
  <2> QED
    BY <1>0, <2>1, <2>2, <2>3, <2>4 DEF Conversation, TypeOK
<1>10. ASSUME NEW c \in Client, LoseClient(c)
      PROVE  Conversation'
  <2>1. sent' = sent \/ sent' = [sent EXCEPT ![c] = << >>]
    BY <1>10 DEF LoseClient
  <2>2. client' = [client EXCEPT ![c] = "gone"] /\ event' = event
    BY <1>10 DEF LoseClient, masterVars
  <2>3. Len(<< >>) = 0
    BY EmptySeq
  <2> QED
    BY <1>0, <2>1, <2>2, <2>3 DEF Conversation, TypeOK
<1>11. CASE ScriptDone \/ ScriptFailed \/ LoopExit
  BY <1>11 DEF ScriptDone, ScriptFailed, LoopExit, clientVars, Conversation
<1>12. CASE UNCHANGED vars
  BY <1>12 DEF vars, masterVars, clientVars, Conversation
<1> QED
  BY <1>1, <1>2, <1>3, <1>4, <1>5, <1>6, <1>7, <1>8, <1>9, <1>10, <1>11, <1>12 DEF Next

LEMMA InitConversation ==
  Init => Conversation
<1> SUFFICES ASSUME Init
             PROVE  Conversation
  OBVIOUS
<1>1. Len(<< >>) = 0
  BY EmptySeq
<1> QED
  BY <1>1 DEF Init, Conversation

(* The master never reads a byte it has no use for: a status byte is D or  *)
(* F, so that finish_job's "FAILED otherwise" never stands for garbage,    *)
(* and a client that waits for a job has nothing under way.                *)
THEOREM NothingMisread == Spec => []Conversation
BY Invariance, InitConversation, ConversationStep, PTL DEF Spec

-----------------------------------------------------------------------------
(* Results and the promise *)

LEMMA OwnersStep ==
  ASSUME IInv, Conversation, [Next]_vars, NEW p \in Pkg
  PROVE  /\ table.state[p] # "DONE" /\ table'.state[p] = "DONE" =>
              \E c \in active_peers :
                job[c] = p /\ sent[c] # << >> /\ Head(sent[c]) = "D"
         /\ table.state[p] # "FAILED" /\ table'.state[p] = "FAILED" =>
              \E c \in active_peers :
                job[c] = p /\ sent[c] # << >> /\ Head(sent[c]) = "F"
<1>1. ASSUME NEW c \in active_peers, sent[c] # << >>, Head(sent[c]) # "D"
      PROVE  Head(sent[c]) = "F"
  <2>1. c \in Client /\ sent[c] \in Seq({"G", "S", "D", "F"})
    BY <1>1 DEF IInv, TypeOK
  <2>2. Len(sent[c]) # 0 /\ Len(sent[c]) \in Nat /\ Head(sent[c]) = sent[c][1]
    BY <1>1, <2>1, EmptySeq, LenProperties
  <2>3. event[c] \in {"send_info", "read_status"}
    BY <1>1, <2>1 DEF IInv, Listed
  <2>4. event[c] = "read_status"
    BY <2>1, <2>2, <2>3 DEF Conversation
  <2>5. sent[c][1] \in {"D", "F"}
    BY <2>1, <2>2, <2>4 DEF Conversation
  <2> QED
    BY <1>1, <2>2, <2>5
<1> QED
  BY <1>1, StateChanges

(* A package gets a result only from the client that was given it: no late *)
(* answer, no second owner and no byte of another conversation decides it. *)
THEOREM ResultsFromOwners == Spec => ResultsComeFromOwners
<1>1. IInv /\ Conversation /\ [Next]_vars =>
        [\A p \in Pkg :
           /\ table.state[p] # "DONE" /\ table'.state[p] = "DONE" =>
                \E c \in active_peers :
                  job[c] = p /\ sent[c] # << >> /\ Head(sent[c]) = "D"
           /\ table.state[p] # "FAILED" /\ table'.state[p] = "FAILED" =>
                \E c \in active_peers :
                  job[c] = p /\ sent[c] # << >> /\ Head(sent[c]) = "F"]_vars
  BY OwnersStep
<1> QED
  BY <1>1, Invariance, NothingMisread, PTL DEF Spec, ResultsComeFromOwners

LEMMA PromiseInit ==
  Init => Promise!Init
<1> SUFFICES ASSUME Init
             PROVE  Promise!Init
  OBVIOUS
<1>1. TableInv(table) /\ table = init_jobs({}, {})
  BY InitIInv DEF IInv, Init
<1>2. Promise!SkipRule(StatusMap(table))
  BY <1>1, SkipRuleHolds DEF Promise!SkipRule
<1>3. StatusMap(table) \in [Pkg -> {"todo", "skipped"}]
  <2>1. \A p \in Pkg : StatusMap(table)[p] \in {"todo", "skipped"}
    BY <1>1, FirstStatus
  <2> QED
    BY <2>1 DEF StatusMap
<1> QED
  BY <1>2, <1>3 DEF Promise!Init

LEMMA PromiseNext ==
  IInv /\ [Next]_vars => [Promise!Next]_(StatusMap(table))
<1> SUFFICES ASSUME IInv, [Next]_vars
             PROVE  Promise!Next
  OBVIOUS
<1>1. TableInv(table) /\ TableInv(table')
  BY NextIInv DEF IInv
<1>2. /\ Promise!SkipRule(StatusMap(table'))
      /\ StatusMap(table') \in [Pkg -> Promise!Status]
  BY <1>1, SkipRuleHolds DEF Promise!SkipRule, Promise!Status
<1>3. ASSUME NEW p \in Pkg
      PROVE  Promise!MayBecome(p, StatusMap(table'), StatusMap(table)[p], StatusMap(table')[p])
  <2>1. MayChange(table.state[p], table'.state[p])
    BY StateChanges
  <2> QED
    BY <1>1, <2>1, ChangeAllowed DEF Promise!MayBecome
<1> QED
  BY <1>2, <1>3 DEF Promise!Next, Promise!Step

(* Master mode implements what BuildPromise says of the packages: for any  *)
(* number of clients and however they come, ask, answer and are lost, one  *)
(* handler, with all the hand-outs it ends with, is one step of the        *)
(* promise or none.                                                        *)
THEOREM PromiseAlwaysKept == Spec => KeepsPromise
<1>1. Init => Promise!Init
  BY PromiseInit
<1>2. IInv /\ [Next]_vars => [Promise!Next]_(StatusMap(table))
  BY PromiseNext
<1> QED
  BY <1>1, <1>2, Invariance, PTL DEF Spec, KeepsPromise, Promise!Spec
=============================================================================
