---------------------------- MODULE PBuildMaster ----------------------------
(***************************************************************************)
(* pbulk-build in master mode (pbuild/master.c on lib/event.c) with its    *)
(* clients (client.c), the statistics clients (stat.c), the start script   *)
(* of -I and a network that loses connections.                             *)
(*                                                                         *)
(* The master is one thread that runs one event handler at a time: each    *)
(* handler, with every call it makes, is one action.  The clients, the     *)
(* script and the network interleave with the handlers.                    *)
(*                                                                         *)
(* The two deferred writes of a build info are one event ("send_info"):    *)
(* the client uses neither part before it has both.  The lists of peers    *)
(* are sets: which of several waiting clients is served first, and which   *)
(* of several jobs handed out in one handler it gets, is left open.        *)
(***************************************************************************)
EXTENDS JobTable, Sequences

CONSTANTS
  Client,       \* the processes that may connect, once each
  Stat,         \* those of them that only ask for statistics
  Scripts,      \* how it may begin: "none", or "running" if given -I
  MaxLost,      \* how many clients may die or lose their connection (a bound)
  NULL

ASSUME ClientAssumption == IsFiniteSet(Client) /\ Stat \subseteq Client
ASSUME ScriptsAssumption == Scripts \subseteq {"none", "running"}
ASSUME MaxLostAssumption == MaxLost \in Nat
ASSUME NullAssumption == NULL \notin Pkg

VARIABLES
  table,             \* the job table of jobs.c
  master,            \* "serving", "exited", "failed" or "undefined"
  script,            \* the start script: "none", "running" or "done"
  active_peers, inactive_peers, unassigned_peers,
  job,               \* job[c]: the job member of the peer of c
  event,             \* event[c]: the pending event of the peer of c
  shutdowns,         \* the calls of shutdown_master so far
  down,              \* down[c]: shutdown(2) was called on the socket of c
  client,            \* client[c]: where the program of c is
  sent,              \* sent[c]: the bytes of c the master has not read
  lost               \* the number of clients lost

masterVars == <<master, script, active_peers, inactive_peers,
                unassigned_peers, job, event, shutdowns, down>>
clientVars == <<client, sent, lost>>
vars == <<table, masterVars, clientVars>>

clients_started == script # "running"

Init ==
  /\ table = init_jobs({}, {})
  /\ master = "serving"
  /\ script \in Scripts
  /\ active_peers = {} /\ inactive_peers = {} /\ unassigned_peers = {}
  /\ job = [c \in Client |-> NULL]
  /\ event = [c \in Client |-> "none"]
  /\ shutdowns = 0
  /\ down = [c \in Client |-> FALSE]
  /\ client = [c \in Client |-> "away"]
  /\ sent = [c \in Client |-> << >>]
  /\ lost = 0

-----------------------------------------------------------------------------
(* The event loop (lib/event.c) *)

Pending == {c \in Client : event[c] # "none"}

(* active_events: the signal pipe, the listening socket and one event per  *)
(* pending peer.  Every call of shutdown_master deletes the listen event,  *)
(* so the second one and those after it take away too much.                *)
active_events == 2 - shutdowns + Cardinality(Pending)

(* Below zero the size_t wraps, and the loop that doubles poll_allocated   *)
(* until it reaches active_events does not end: nothing is polled again.   *)
Polling == master = "serving" /\ active_events >= 0

(* No byte comes from c any more once those it sent are read.              *)
HungUp(c) == client[c] = "gone" \/ down[c]

Readable(c) == event[c] \in {"read_command", "read_status"} /\ sent[c] # << >>

(* A seeded bug: the end of the connection of a building client is missed. *)
Bug_ReadFails(c) ==
  event[c] = "read_command" /\ ((client[c] = "gone" /\ sent[c] = << >>) \/ down[c])

(* read returns 0 or -1; a shut down socket may drop what it had received. *)
ReadFails(c) ==
  /\ event[c] \in {"read_command", "read_status"}
  /\ (client[c] = "gone" /\ sent[c] = << >>) \/ down[c]

WriteFails(c) == event[c] \in {"send_info", "send_stats"} /\ HungUp(c)

Ready(c) ==
  Readable(c) \/ ReadFails(c) \/ event[c] \in {"send_info", "send_stats"}

-----------------------------------------------------------------------------
(* assign_job *)

(* A seeded bug: only one client is served per handler.                    *)
Bug_HandOutOne(t, asking) ==
  {g \in UNION {[P -> t.buildable_jobs] : P \in SUBSET asking} :
     /\ Cardinality(DOMAIN g) <= 1
     /\ DOMAIN g = {} => asking = {} \/ t.buildable_jobs = {}}

(* The ways to serve clients of asking with jobs of the build list, the    *)
(* deepest first, one each, until one of the two runs out.                 *)
HandOuts(t, asking) ==
  {g \in UNION {[P -> t.buildable_jobs] : P \in SUBSET asking} :
     LET left == t.buildable_jobs \ {g[c] : c \in DOMAIN g}
     IN /\ \A c, d \in DOMAIN g : g[c] = g[d] => c = d
        /\ \A c \in DOMAIN g, k \in left : pkg_depth[k] <= pkg_depth[g[c]]
        /\ DOMAIN g = asking \/ left = {}}

(* get_job had nothing for a client: is the build over?  A seeded bug: the *)
(* jobs other clients are working on are forgotten.                        *)
Bug_BuildOverEarly(g, asking, act) ==
  clients_started /\ asking # {} /\ DOMAIN g = {}

BuildOver(g, asking, act) ==
  clients_started /\ act = {} /\ asking # {} /\ DOMAIN g = {}

(* The hand-outs of a handler: none before the start script is done.       *)
Served(t, asking) == IF clients_started THEN HandOuts(t, asking) ELSE {<< >>}

(* assign_job for every client of asking in turn, the last call being the  *)
(* first one for which get_job has nothing; act, ina, jb and ev are the    *)
(* lists and members the handler has left when it calls assign_job.        *)
AssignJobs(t, asking, act, ina, jb, ev) ==
  \E g \in Served(t, asking) :
    LET given == {g[c] : c \in DOMAIN g}
        shutdown_master == BuildOver(g, asking, act)
    IN /\ table' = HandedOut(t, given)
       /\ active_peers' = act \cup DOMAIN g
       /\ unassigned_peers' = asking \ DOMAIN g
       /\ inactive_peers' = ina
       /\ job' = [c \in Client |-> IF c \in DOMAIN g THEN g[c] ELSE jb[c]]
       /\ event' = [c \in Client |-> IF c \in DOMAIN g THEN "send_info" ELSE ev[c]]
       /\ shutdowns' = IF shutdown_master THEN shutdowns + 1 ELSE shutdowns
       /\ down' = [c \in Client |-> down[c] \/ (shutdown_master /\ c \in ina)]

-----------------------------------------------------------------------------
(* The handlers of master.c *)

(* listen_handler; the listening socket is closed by shutdown_master.      *)
Accept(c) ==
  /\ Polling /\ shutdowns = 0
  /\ client[c] = "away"
  /\ client' = [client EXCEPT ![c] = "ready"]
  /\ inactive_peers' = inactive_peers \cup {c}
  /\ event' = [event EXCEPT ![c] = "read_command"]
  /\ UNCHANGED <<table, master, script, active_peers, unassigned_peers,
                 job, shutdowns, down, sent, lost>>

(* assign_job of a client that sent G.  A seeded bug: the peer is not      *)
(* taken from the list it was in.                                          *)
Bug_ReadGetKeeps(c) ==
  /\ Polling /\ Readable(c)
  /\ event[c] = "read_command" /\ Head(sent[c]) = "G"
  /\ sent' = [sent EXCEPT ![c] = Tail(@)]
  /\ AssignJobs(table, unassigned_peers \cup {c}, active_peers,
                inactive_peers, job, [event EXCEPT ![c] = "none"])
  /\ UNCHANGED <<master, script, client, lost>>

ReadGet(c) ==
  /\ Polling /\ Readable(c)
  /\ event[c] = "read_command" /\ Head(sent[c]) = "G"
  /\ sent' = [sent EXCEPT ![c] = Tail(@)]
  /\ AssignJobs(table, unassigned_peers \cup {c}, active_peers,
                inactive_peers \ {c}, job, [event EXCEPT ![c] = "none"])
  /\ UNCHANGED <<master, script, client, lost>>

(* assign_job of a client that sent S: it stays among the inactive peers.  *)
ReadStatRequest(c) ==
  /\ Polling /\ Readable(c)
  /\ event[c] = "read_command" /\ Head(sent[c]) = "S"
  /\ sent' = [sent EXCEPT ![c] = Tail(@)]
  /\ event' = [event EXCEPT ![c] = "send_stats"]
  /\ UNCHANGED <<table, master, script, active_peers, inactive_peers,
                 unassigned_peers, job, shutdowns, down, client, lost>>

(* sent_build_stats: tmp_buf still holds the S, so the statistics are sent *)
(* again and again until the client, which exits on the first, is found    *)
(* to be gone.                                                             *)
SendStats(c) ==
  /\ Polling /\ event[c] = "send_stats" /\ ~down[c]
  /\ client' = [client EXCEPT ![c] = "gone"]
  /\ UNCHANGED <<table, masterVars, sent, lost>>

(* The build info is written; the kernel takes it even if c is gone.       *)
SendInfo(c) ==
  /\ Polling /\ event[c] = "send_info"
  /\ event' = [event EXCEPT ![c] = "read_status"]
  /\ client' = [client EXCEPT ![c] = IF @ = "asked" THEN "building" ELSE @]
  /\ UNCHANGED <<table, master, script, active_peers, inactive_peers,
                 unassigned_peers, job, shutdowns, down, sent, lost>>

(* finish_job: what the status byte of c makes of the table.  A seeded     *)
(* bug: the byte is not looked at.                                         *)
Bug_AlwaysDone(c) == JobDone(table, job[c])

Finished(c) ==
  IF Head(sent[c]) = "D" THEN JobDone(table, job[c]) ELSE JobFailed(table, job[c])

ReadStatus(c) ==
  /\ Polling /\ Readable(c) /\ event[c] = "read_status"
  /\ sent' = [sent EXCEPT ![c] = Tail(@)]
  /\ AssignJobs(Finished(c), unassigned_peers, active_peers \ {c},
                inactive_peers \cup {c}, [job EXCEPT ![c] = NULL],
                [event EXCEPT ![c] = "read_command"])
  /\ UNCHANGED <<master, script, client, lost>>

(* The job of a killed peer is open again.  A seeded bug: it is lost.      *)
Bug_LoseJob(c) == table

Reopened(c) == IF job[c] # NULL THEN JobOpen(table, job[c]) ELSE table

(* kill_peer, the error callback of every deferred read and write.  The    *)
(* client finds its connection closed, and exits.                          *)
KillPeer(c) ==
  /\ Polling /\ (ReadFails(c) \/ WriteFails(c))
  /\ client' = [client EXCEPT ![c] = "gone"]
  /\ sent' = [sent EXCEPT ![c] = << >>]
  /\ AssignJobs(Reopened(c), unassigned_peers, active_peers \ {c},
                inactive_peers \ {c}, [job EXCEPT ![c] = NULL], [event EXCEPT ![c] = "none"])
  /\ UNCHANGED <<master, script, lost>>

(* child_handler after the start script ended well.  It looks for waiting  *)
(* clients among inactive_peers.  A peer it finds there has never sent a   *)
(* command: assign_job reads an uninitialized tmp_buf and, for whatever    *)
(* it finds, frees or reuses a peer whose read is still pending.           *)
ScriptDone ==
  /\ Polling /\ ~clients_started
  /\ script' = "done"
  /\ master' = IF inactive_peers = {} THEN master ELSE "undefined"
  /\ UNCHANGED <<table, active_peers, inactive_peers, unassigned_peers, job,
                 event, shutdowns, down, clientVars>>

(* child_handler after the start script failed: err.                       *)
ScriptFailed ==
  /\ Polling /\ ~clients_started
  /\ master' = "failed"
  /\ UNCHANGED <<table, script, active_peers, inactive_peers,
                 unassigned_peers, job, event, shutdowns, down, clientVars>>

(* event_dispatch returns one second after shutdown_master, when a poll    *)
(* finds nothing to do; main writes the report.                            *)
LoopExit ==
  /\ Polling /\ shutdowns > 0
  /\ \A c \in Client : ~Ready(c)
  /\ master' = "exited"
  /\ UNCHANGED <<table, script, active_peers, inactive_peers,
                 unassigned_peers, job, event, shutdowns, down, clientVars>>

-----------------------------------------------------------------------------
(* The clients and the network *)

(* client_mode and stat_mode: the command byte.                            *)
SendCommand(c) ==
  /\ client[c] = "ready"
  /\ client' = [client EXCEPT ![c] = "asked"]
  /\ sent' = [sent EXCEPT ![c] = Append(@, IF c \in Stat THEN "S" ELSE "G")]
  /\ UNCHANGED <<table, masterVars, lost>>

(* client_mode: build_package returned; the next command follows at once.  *)
Report(c) ==
  /\ client[c] = "building"
  /\ client' = [client EXCEPT ![c] = "ready"]
  /\ \E result \in {"D", "F"} : sent' = [sent EXCEPT ![c] = Append(@, result)]
  /\ UNCHANGED <<table, masterVars, lost>>

(* A client dies, or its connection does; bytes under way may be lost.     *)
LoseClient(c) ==
  /\ client[c] \in {"ready", "asked", "building"}
  /\ lost < MaxLost
  /\ lost' = lost + 1
  /\ client' = [client EXCEPT ![c] = "gone"]
  /\ sent' \in {sent, [sent EXCEPT ![c] = << >>]}
  /\ UNCHANGED <<table, masterVars>>

Next ==
  \/ \E c \in Client :
       \/ Accept(c) \/ ReadGet(c) \/ ReadStatRequest(c) \/ SendStats(c)
       \/ SendInfo(c) \/ ReadStatus(c) \/ KillPeer(c)
       \/ SendCommand(c) \/ Report(c) \/ LoseClient(c)
  \/ ScriptDone \/ ScriptFailed \/ LoopExit

Spec == Init /\ [][Next]_vars

(* poll reports every ready event, and each round of the loop handles all  *)
(* of them; clients connect, send and finish their builds; the start       *)
(* script ends.  Nothing makes a client be lost.                           *)
Fairness ==
  /\ \A c \in Client :
       /\ WF_vars(Accept(c)) /\ WF_vars(ReadGet(c)) /\ WF_vars(ReadStatRequest(c))
       /\ WF_vars(SendStats(c)) /\ WF_vars(SendInfo(c)) /\ WF_vars(ReadStatus(c))
       /\ WF_vars(KillPeer(c)) /\ WF_vars(SendCommand(c)) /\ WF_vars(Report(c))
  /\ WF_vars(ScriptDone \/ ScriptFailed)
  /\ WF_vars(LoopExit)

FairSpec == Spec /\ Fairness

-----------------------------------------------------------------------------
(* Properties *)

(* While the master is in a defined state the job table is sound: counters *)
(* and build list exact, dependencies first, failures propagated, results  *)
(* logged, however the clients come, go and answer.                        *)
JobsSound == TableInv(table)

(* A job is in processing exactly if one peer has it, that peer is active, *)
(* and no other peer has it too: a lost client never takes a job with it.  *)
ActivePeersOwnJobs ==
  /\ \A c \in Client : job[c] # NULL <=> c \in active_peers
  /\ \A c, d \in active_peers : job[c] = job[d] => c = d
  /\ {job[c] : c \in active_peers} = {p \in Pkg : table.state[p] = "IN_PROCESSING"}

(* A peer is in one list at a time, and has an event pending unless it     *)
(* waits for a job: no peer is forgotten.                                  *)
EveryPeerIsSomewhere ==
  /\ active_peers \cap inactive_peers = {}
  /\ unassigned_peers \cap (active_peers \cup inactive_peers) = {}
  /\ Pending = active_peers \cup inactive_peers

(* No client waits while there is a job for it, and none is given one      *)
(* before the start script is done.  After the script the first is so once *)
(* a client is at work (ScriptThenBuildLoop is about the rest).            *)
NoIdleWhileBuildable ==
  /\ script = "running" => active_peers = {}
  /\ script = "none" \/ (script = "done" /\ active_peers # {}) =>
       unassigned_peers = {} \/ table.buildable_jobs = {}

(* shutdown_master is called only when every package has its result: a     *)
(* lost client, or a client that asks at the wrong moment, never ends the  *)
(* build early.                                                            *)
ShutdownOnlyWhenDone == shutdowns > 0 => AllFinal(table) /\ active_peers = {}

(* A package gets a result only from the client that was given it.         *)
ResultsComeFromOwners ==
  [][\A p \in Pkg :
       /\ table.state[p] # "DONE" /\ table'.state[p] = "DONE" =>
            \E c \in active_peers :
              job[c] = p /\ sent[c] # << >> /\ Head(sent[c]) = "D"
       /\ table.state[p] # "FAILED" /\ table'.state[p] = "FAILED" =>
            \E c \in active_peers :
              job[c] = p /\ sent[c] # << >> /\ Head(sent[c]) = "F"]_vars

(* As long as one client lives, the build ends and the report is written.  *)
MasterEnds == <>(master = "exited")

(* "Run start_script after opening the socket and wait for completion      *)
(* before entering build loop" (pbulk-build.1:73): once the script is done *)
(* a client that waits for a job does not wait next to a buildable one     *)
(* for ever.                                                               *)
ScriptThenBuildLoop ==
  (clients_started /\ unassigned_peers # {})
    ~> (table.buildable_jobs = {} \/ master # "serving")

-----------------------------------------------------------------------------
(* Master mode keeps the promise of pbulk-build too.                       *)

Promise == INSTANCE BuildPromise WITH status <- StatusMap(table)

(* One handler that ends a job, gives up its dependents and starts others  *)
(* is one step of the promise.                                             *)
KeepsPromise == Promise!Spec
=============================================================================
