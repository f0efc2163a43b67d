---------------------------- MODULE PScanMaster ----------------------------
(***************************************************************************)
(* pbulk-scan: its master (pscan/master.c on lib/event.c) with its clients *)
(* (pscan/client.c), the start script of -I and connections that break;    *)
(* and its standalone mode (pscan/pscan.c).                                *)
(*                                                                         *)
(* The granularity is that of PBuildMaster: one action per event handler.  *)
(* The two writes that send a location are one event.                      *)
(***************************************************************************)
EXTENDS ScanJobs

CONSTANTS
  Client,       \* the processes that may connect, once each
  StartScript,  \* TRUE if the master was given -I
  MaxLost       \* how many clients may be lost (a bound)

ASSUME ClientAssumption == IsFiniteSet(Client)
ASSUME StartScriptAssumption == StartScript \in BOOLEAN
ASSUME MaxLostAssumption == MaxLost \in Nat

VARIABLES
  table,
  program,    \* "alone", "serving", "shutting_down", "exited" or "failed"
  clients_started,
  active_peers, inactive_peers,
  job,        \* job[c]: the job member of the peer of c
  event,      \* event[c]: the pending event of the peer of c: "none",
              \* "send_path", "read_length" or "read_output"
  client,     \* client[c]: where the program of c is: "away",
              \* "connected", "scanning", "sending" or "gone"
  sent,       \* sent[c]: what c has sent and the master has not read, each
              \* "no_output", "length" or "output"
  lost,
  file        \* the output file

vars == <<table, program, clients_started, active_peers, inactive_peers, job,
          event, client, sent, lost, file>>

Init ==
  /\ table = add_jobs
  /\ program \in {"alone", "serving"}
  /\ clients_started = ~StartScript
  /\ active_peers = {} /\ inactive_peers = {}
  /\ job = [c \in Client |-> NULL]
  /\ event = [c \in Client |-> "none"]
  /\ client = [c \in Client |-> "away"]
  /\ sent = [c \in Client |-> << >>]
  /\ lost = 0
  /\ file = << >>

Serving == program \in {"serving", "shutting_down"}

-----------------------------------------------------------------------------
(* The master *)

(* assign_job for c in a handler that leaves t, act, ina, jb and ev.  The  *)
(* scan is over when it has nothing for c and no other peer is active.     *)
assign_job(c, t, act, ina, jb, ev) ==
  LET j == IF clients_started THEN get_job(t) ELSE NULL
  IN /\ job' = [jb EXCEPT ![c] = j]
     /\ IF j # NULL
        THEN /\ table' = taken(t, j)
             /\ active_peers' = act \cup {c}
             /\ inactive_peers' = ina
             /\ event' = [ev EXCEPT ![c] = "send_path"]
             /\ UNCHANGED program
        ELSE /\ table' = t
             /\ active_peers' = act
             /\ inactive_peers' = ina \cup {c}
             /\ event' = ev
             /\ program' = IF act = {} /\ clients_started
                           THEN "shutting_down" ELSE program

(* listen_handler; shutdown_master closes the socket. *)
Accept(c) ==
  /\ program = "serving"
  /\ client[c] = "away"
  /\ client' = [client EXCEPT ![c] = "connected"]
  /\ assign_job(c, table, active_peers, inactive_peers, job, event)
  /\ UNCHANGED <<clients_started, sent, lost, file>>

(* The location is written; the kernel takes it even if c is gone.         *)
SendPath(c) ==
  /\ Serving /\ event[c] = "send_path"
  /\ event' = [event EXCEPT ![c] = "read_length"]
  /\ client' = [client EXCEPT ![c] = IF @ = "connected" THEN "scanning" ELSE @]
  /\ UNCHANGED <<table, program, clients_started, active_peers, inactive_peers,
                 job, sent, lost, file>>

Reads(c, kind, message) ==
  /\ Serving /\ event[c] = kind
  /\ sent[c] # << >> /\ Head(sent[c]) = message
  /\ sent' = [sent EXCEPT ![c] = Tail(@)]

(* finish_job, and recv_output with a length of 0: the peer gives up its   *)
(* job and is assigned the next one.                                       *)
NextJob(c, t) ==
  assign_job(c, process_job(t, job[c], "DONE"), active_peers \ {c}, inactive_peers,
             [job EXCEPT ![c] = NULL], [event EXCEPT ![c] = "none"])

RecvNoOutput(c) ==
  /\ Reads(c, "read_length", "no_output")
  /\ NextJob(c, table)
  /\ UNCHANGED <<clients_started, client, lost, file>>

RecvLength(c) ==
  /\ Reads(c, "read_length", "length")
  /\ table' = [table EXCEPT !.scan_output[job[c]] = "partial"]
  /\ event' = [event EXCEPT ![c] = "read_output"]
  /\ UNCHANGED <<program, clients_started, active_peers, inactive_peers, job,
                 client, lost, file>>

FinishJob(c) ==
  /\ Reads(c, "read_output", "output")
  /\ NextJob(c, [table EXCEPT !.scan_output[job[c]] = "whole"])
  /\ UNCHANGED <<clients_started, client, lost, file>>

(* The job of a killed peer.  A seeded bug: what was read of it stays.     *)
Bug_reopened(c) == process_job(table, job[c], "OPEN")

reopened(c) ==
  process_job([table EXCEPT !.scan_output[job[c]] = "NULL"], job[c], "OPEN")

(* kill_peer: the job goes to one of the inactive peers, if there is any.  *)
(* A seeded bug: it waits for the next peer that asks.                     *)
Bug_KillPeer(c) ==
  /\ Serving /\ event[c] # "none"
  /\ client[c] = "gone" /\ sent[c] = << >>
  /\ table' = reopened(c)
  /\ active_peers' = active_peers \ {c}
  /\ job' = [job EXCEPT ![c] = NULL]
  /\ event' = [event EXCEPT ![c] = "none"]
  /\ UNCHANGED <<program, inactive_peers, clients_started, client, sent, lost, file>>

KillPeer(c) ==
  LET act == active_peers \ {c}
      jb == [job EXCEPT ![c] = NULL]
      ev == [event EXCEPT ![c] = "none"]
  IN /\ Serving /\ event[c] # "none"
     /\ client[c] = "gone" /\ sent[c] = << >>
     /\ \/ \E d \in inactive_peers :
             assign_job(d, reopened(c), act, inactive_peers \ {d}, jb, ev)
        \/ /\ inactive_peers = {}
           /\ table' = reopened(c)
           /\ active_peers' = act /\ job' = jb /\ event' = ev
           /\ UNCHANGED <<program, inactive_peers>>
     /\ UNCHANGED <<clients_started, client, sent, lost, file>>

(* The peers child_handler gives jobs to, one each, until jobs or peers    *)
(* run out.                                                                *)
script_serves ==
  {g \in UNION {[P -> Job] : P \in SUBSET inactive_peers} :
     /\ \A c, d \in DOMAIN g : g[c] = g[d] => c = d
     /\ {g[c] : c \in DOMAIN g} = 1 .. Min({Cardinality(inactive_peers), len_jobs})}

(* child_handler after the start script ended well.  All jobs are open.    *)
ScriptDone ==
  /\ program = "serving" /\ ~clients_started
  /\ clients_started' = TRUE
  /\ \E g \in script_serves :
       /\ table' = [table EXCEPT !.state = [i \in Job |->
                      IF \E c \in DOMAIN g : g[c] = i THEN "IN_PROCESSING" ELSE @[i]]]
       /\ active_peers' = DOMAIN g
       /\ inactive_peers' = inactive_peers \ DOMAIN g
       /\ job' = [c \in Client |-> IF c \in DOMAIN g THEN g[c] ELSE NULL]
       /\ event' = [c \in Client |-> IF c \in DOMAIN g THEN "send_path" ELSE "none"]
       /\ program' = IF inactive_peers # {} /\ DOMAIN g = {}
                     THEN "shutting_down" ELSE program
  /\ UNCHANGED <<client, sent, lost, file>>

ScriptFailed ==
  /\ program = "serving" /\ ~clients_started
  /\ program' = "failed"
  /\ UNCHANGED <<table, clients_started, active_peers, inactive_peers, job, event,
                 client, sent, lost, file>>

(* event_dispatch has returned, and main writes the file. *)
WriteJobs ==
  /\ program = "shutting_down"
  /\ \A c \in Client : event[c] = "none"
  /\ program' = "exited"
  /\ file' = write_jobs(table)
  /\ UNCHANGED <<table, clients_started, active_peers, inactive_peers, job, event,
                 client, sent, lost>>

-----------------------------------------------------------------------------
(* Standalone mode: one location after the other, in order. *)

StandaloneScan ==
  /\ program = "alone" /\ get_job(table) # NULL
  /\ \E output \in {"NULL", "whole"} :
       LET j == get_job(table)
       IN table' = process_job([taken(table, j) EXCEPT !.scan_output[j] = output],
                               j, "DONE")
  /\ UNCHANGED <<program, clients_started, active_peers, inactive_peers, job,
                 event, client, sent, lost, file>>

StandaloneEnds ==
  /\ program = "alone" /\ get_job(table) = NULL
  /\ program' = "exited"
  /\ file' = write_jobs(table)
  /\ UNCHANGED <<table, clients_started, active_peers, inactive_peers, job, event,
                 client, sent, lost>>

-----------------------------------------------------------------------------
(* The clients and the network *)

(* client_mode after the scan: the length, and then the output.            *)
SendLength(c) ==
  /\ client[c] = "scanning"
  /\ \/ /\ sent' = [sent EXCEPT ![c] = Append(@, "no_output")]
        /\ client' = [client EXCEPT ![c] = "connected"]
     \/ /\ sent' = [sent EXCEPT ![c] = Append(@, "length")]
        /\ client' = [client EXCEPT ![c] = "sending"]
  /\ UNCHANGED <<table, program, clients_started, active_peers, inactive_peers,
                 job, event, lost, file>>

SendOutput(c) ==
  /\ client[c] = "sending"
  /\ sent' = [sent EXCEPT ![c] = Append(@, "output")]
  /\ client' = [client EXCEPT ![c] = "connected"]
  /\ UNCHANGED <<table, program, clients_started, active_peers, inactive_peers,
                 job, event, lost, file>>

(* A client dies, or its connection does; what is under way may be lost,   *)
(* from some byte on.                                                      *)
LoseClient(c) ==
  /\ client[c] \in {"connected", "scanning", "sending"}
  /\ lost < MaxLost
  /\ lost' = lost + 1
  /\ client' = [client EXCEPT ![c] = "gone"]
  /\ \E n \in 0 .. Len(sent[c]) : sent' = [sent EXCEPT ![c] = SubSeq(@, 1, n)]
  /\ UNCHANGED <<table, program, clients_started, active_peers, inactive_peers,
                 job, event, file>>

Next ==
  \/ \E c \in Client :
       \/ Accept(c) \/ SendPath(c) \/ RecvNoOutput(c) \/ RecvLength(c)
       \/ FinishJob(c) \/ KillPeer(c)
       \/ SendLength(c) \/ SendOutput(c) \/ LoseClient(c)
  \/ ScriptDone \/ ScriptFailed \/ WriteJobs
  \/ StandaloneScan \/ StandaloneEnds

Spec == Init /\ [][Next]_vars

(* As in PBuildMaster: the loop handles what is ready, clients connect and *)
(* finish their scans, the script ends.                                    *)
FairSpec ==
  /\ Spec
  /\ \A c \in Client :
       /\ WF_vars(Accept(c)) /\ WF_vars(SendPath(c)) /\ WF_vars(RecvNoOutput(c))
       /\ WF_vars(RecvLength(c)) /\ WF_vars(FinishJob(c)) /\ WF_vars(KillPeer(c))
       /\ WF_vars(SendLength(c)) /\ WF_vars(SendOutput(c))
  /\ WF_vars(ScriptDone \/ ScriptFailed) /\ WF_vars(WriteJobs)
  /\ WF_vars(StandaloneScan) /\ WF_vars(StandaloneEnds)

-----------------------------------------------------------------------------
(* Properties *)

(* The place get_job searches from and the count of finished jobs are      *)
(* right, no broken off output is kept, and a location is being scanned    *)
(* exactly if one active peer has it, whichever clients are lost.          *)
JobsSound ==
  /\ table \in Table /\ CountersExact(table) /\ OutputsWhole(table)
  /\ program # "alone" =>
       /\ \A c \in Client : job[c] # NULL <=> c \in active_peers
       /\ \A c, d \in active_peers : job[c] = job[d] => c = d
       /\ {job[c] : c \in active_peers} =
            {i \in Job : table.state[i] = "IN_PROCESSING"}

(* No client waits while there is a location for it, and none before the   *)
(* start script is done is given one.                                      *)
NoIdleWhileOpen ==
  IF clients_started
  THEN inactive_peers # {} => get_job(table) = NULL
  ELSE active_peers = {}

(* The master never gives up early: when it shuts down all is scanned.     *)
ShutdownOnlyWhenDone ==
  program \in {"shutting_down", "exited"} => \A i \in Job : table.state[i] = "DONE"

(* pbulk-scan ends, in either mode, if one client lives.                   *)
ScanEnds == <>(program \in {"exited", "failed"})

-----------------------------------------------------------------------------
(* The refinement of ScanPromise *)

Yields(i, n) == n \in ToSet(items(i))

Promise ==
  INSTANCE ScanPromise
    WITH Name <- UNION {ToSet(items(i)) : i \in Job},
         result <- [i \in Job |-> IF table.state[i] # "DONE" THEN "none"
                                  ELSE IF table.scan_output[i] = "NULL"
                                       THEN "failed" ELSE "scanned"]

(* However the scans interleave and fail over, the file is the one a       *)
(* sequential scan with the same results would write.                      *)
KeepsPromise == Promise!Spec
=============================================================================
