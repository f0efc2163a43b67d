------------------------------- MODULE Shlock -------------------------------
(***************************************************************************)
(* The locks of the build system: a process that wants a lock runs the     *)
(* shell loop of mk/internal/locking.mk, which calls pkgtools/shlock; each *)
(* action is one system call on the lock file.  A lock file holds the pid  *)
(* it was taken for.  It outlives a process that dies, and the system: it  *)
(* is then older than /var/run/dmesg.boot, which we assume there is.       *)
(*                                                                         *)
(* A process is its pid.  Pids are used again after a reboot only.         *)
(***************************************************************************)
EXTENDS Naturals

CONSTANTS
  Pid, Lock,
  NULL          \* no file, no lock

ASSUME NullAssumption ==
  NULL \notin Lock \cup Pid \cup [pid : Pid, old : BOOLEAN]

VARIABLES
  locktype,     \* PKGSRC_LOCKTYPE: "once" or "sleep"
  file,         \* file[l]: the lock file of l and whether the system was
                \* started since it was made
  at,           \* at[x]: "none": not started since then; "dead"; "idle":
                \* not in the loop; or the next call in it
  want,         \* want[x]: the lock x runs the loop for
  judged,       \* judged[x]: the pid x has read from the file of want[x]
  holds,        \* holds[x]: the locks x was granted and has not released
  raced         \* the locks with a file removed that was not the file the
                \* remover had looked at; no part of the code

lockVars == <<locktype, file, at, want, judged, holds, raced>>

File == [pid : Pid, old : BOOLEAN]

InLoop ==
  {"test", "find", "remove", "link", "read", "kill", "unlink", "cat"}

Alive(x) == at[x] \notin {"none", "dead"}

LockTypeOK ==
  /\ locktype \in {"once", "sleep"}
  /\ file \in [Lock -> File \cup {NULL}]
  /\ at \in [Pid -> InLoop \cup {"none", "dead", "idle"}]
  /\ want \in [Pid -> Lock \cup {NULL}]
  /\ judged \in [Pid -> Pid \cup {NULL}]
  /\ holds \in [Pid -> SUBSET Lock]
  /\ raced \in SUBSET Lock
  /\ \A x \in Pid : at[x] \in InLoop => want[x] # NULL
  /\ \A x \in Pid : at[x] \in {"kill", "unlink"} => judged[x] # NULL

LockInit ==
  /\ locktype \in {"once", "sleep"}
  /\ file = [l \in Lock |-> NULL]
  /\ at = [x \in Pid |-> "none"]
  /\ want = [x \in Pid |-> NULL]
  /\ judged = [x \in Pid |-> NULL]
  /\ holds = [x \in Pid |-> {}]
  /\ raced = {}

-----------------------------------------------------------------------------
(* One process in the loop *)

Goto(x, step) == at' = [at EXCEPT ![x] = step]
Forget(x) == judged' = [judged EXCEPT ![x] = NULL]

Acquire(x, l) ==
  /\ at[x] = "idle"
  /\ Goto(x, "test")
  /\ want' = [want EXCEPT ![x] = l]
  /\ UNCHANGED <<locktype, file, judged, holds, raced>>

(* [ -f "$lockfile" ].                                                     *)
Test(x) ==
  /\ at[x] = "test"
  /\ Goto(x, IF file[want[x]] = NULL THEN "link" ELSE "find")
  /\ UNCHANGED <<locktype, file, want, judged, holds, raced>>

(* Processes that end, killed or not, leave their lock files.              *)
Ends(K) ==
  /\ at' = [x \in Pid |-> IF x \in K THEN "dead" ELSE at[x]]
  /\ want' = [x \in Pid |-> IF x \in K THEN NULL ELSE want[x]]
  /\ judged' = [x \in Pid |-> IF x \in K THEN NULL ELSE judged[x]]
  /\ holds' = [x \in Pid |-> IF x \in K THEN {} ELSE holds[x]]

(* rebooted=`find /var/run/dmesg.boot -newer "$lockfile"` under set -e: a  *)
(* file that is gone by now ends the process.  A seeded bug: nothing is    *)
(* ever found.                                                             *)
Bug_Find(x) ==
  /\ at[x] = "find"
  /\ Goto(x, "link")
  /\ UNCHANGED <<locktype, file, want, judged, holds, raced>>

Find(x) ==
  /\ at[x] = "find"
  /\ LET f == file[want[x]]
     IN IF f = NULL
        THEN Ends({x})
        ELSE /\ Goto(x, IF f.old THEN "remove" ELSE "link")
             /\ UNCHANGED <<want, judged, holds>>
  /\ UNCHANGED <<locktype, file, raced>>

(* rm -f of the file find reported, or of the one that is there by now.    *)
Remove(x) ==
  /\ at[x] = "remove"
  /\ LET l == want[x]
         f == file[l]
     IN /\ file' = [file EXCEPT ![l] = NULL]
        /\ raced' = IF f # NULL /\ ~f.old THEN raced \cup {l} ELSE raced
  /\ Goto(x, "link")
  /\ UNCHANGED <<locktype, want, judged, holds>>

(* mklock: link(tmp, file).                                                *)
Granted(x) ==
  /\ at[x] = "link" /\ file[want[x]] = NULL
  /\ file' = [file EXCEPT ![want[x]] = [pid |-> x, old |-> FALSE]]
  /\ holds' = [holds EXCEPT ![x] = @ \cup {want[x]}]
  /\ Goto(x, "idle")
  /\ want' = [want EXCEPT ![x] = NULL]
  /\ UNCHANGED <<locktype, judged, raced>>

Exists(x) ==
  /\ at[x] = "link" /\ file[want[x]] # NULL
  /\ Goto(x, "read")
  /\ UNCHANGED <<locktype, file, want, judged, holds, raced>>

(* cklock: a file that cannot be opened might be valid.                    *)
Read(x) ==
  /\ at[x] = "read"
  /\ LET f == file[want[x]]
     IN IF f = NULL
        THEN Goto(x, "cat") /\ UNCHANGED judged
        ELSE Goto(x, "kill") /\ judged' = [judged EXCEPT ![x] = f.pid]
  /\ UNCHANGED <<locktype, file, want, holds, raced>>

(* p_exists: kill(pid, 0).  A seeded bug: EPERM, the answer for a process  *)
(* of another user, is taken for ESRCH.                                    *)
Bug_Kill(x) ==
  /\ at[x] = "kill"
  /\ IF judged[x] = x THEN Goto(x, "cat") /\ Forget(x)
                      ELSE Goto(x, "unlink") /\ UNCHANGED judged
  /\ UNCHANGED <<locktype, file, want, holds, raced>>

Kill(x) ==
  /\ at[x] = "kill"
  /\ IF Alive(judged[x]) THEN Goto(x, "cat") /\ Forget(x)
                          ELSE Goto(x, "unlink") /\ UNCHANGED judged
  /\ UNCHANGED <<locktype, file, want, holds, raced>>

(* mklock: unlink(file) of a lock found invalid; shlock gives up if there  *)
(* is none.                                                                *)
Unlink(x) ==
  /\ at[x] = "unlink"
  /\ LET l == want[x]
         f == file[l]
     IN IF f = NULL
        THEN Goto(x, "cat") /\ UNCHANGED <<file, raced>>
        ELSE /\ file' = [file EXCEPT ![l] = NULL]
             /\ raced' = IF f.pid # judged[x] THEN raced \cup {l} ELSE raced
             /\ Goto(x, "link")
  /\ Forget(x)
  /\ UNCHANGED <<locktype, want, holds>>

(* lockpid=`cat "$lockfile"` under set -e, and the case of the lock type.  *)
(* A seeded bug: "sleep" ends the process too.                             *)
Bug_Cat(x) ==
  /\ at[x] = "cat"
  /\ Ends({x})
  /\ UNCHANGED <<locktype, file, raced>>

Cat(x) ==
  /\ at[x] = "cat"
  /\ IF file[want[x]] # NULL /\ locktype = "sleep"
     THEN Goto(x, "test") /\ UNCHANGED <<want, judged, holds>>
     ELSE Ends({x})
  /\ UNCHANGED <<locktype, file, raced>>

Loop(x) ==
  \/ Test(x) \/ Find(x) \/ Remove(x) \/ Granted(x) \/ Exists(x) \/ Read(x)
  \/ Kill(x) \/ Unlink(x) \/ Cat(x)

-----------------------------------------------------------------------------
(* What else a process and the system do *)

Start(x) ==
  /\ at[x] = "none"
  /\ Goto(x, "idle")
  /\ UNCHANGED <<locktype, file, want, judged, holds, raced>>

(* _RELEASE_LOCK_CMD: rm -f, whosever file it is.                          *)
Release(x, l) ==
  /\ at[x] = "idle" /\ l \in holds[x]
  /\ file' = [file EXCEPT ![l] = NULL]
  /\ holds' = [holds EXCEPT ![x] = @ \ {l}]
  /\ UNCHANGED <<locktype, at, want, judged, raced>>

(* One process, or several that are killed at once.                        *)
Exit(K) ==
  /\ \A x \in K : Alive(x)
  /\ Ends(K)
  /\ UNCHANGED <<locktype, file, raced>>

Reboot ==
  /\ file' = [l \in Lock |-> IF file[l] = NULL THEN NULL
                             ELSE [file[l] EXCEPT !.old = TRUE]]
  /\ at' = [x \in Pid |-> "none"]
  /\ want' = [x \in Pid |-> NULL]
  /\ judged' = [x \in Pid |-> NULL]
  /\ holds' = [x \in Pid |-> {}]
  /\ raced' = {}
  /\ UNCHANGED locktype

LockNext ==
  \/ \E x \in Pid : \/ Start(x) \/ Loop(x)
                    \/ \E l \in Lock : Acquire(x, l) \/ Release(x, l)
  \/ \E K \in SUBSET Pid : Exit(K)
  \/ Reboot

LockSpec == LockInit /\ [][LockNext]_lockVars

-----------------------------------------------------------------------------
(* "Acquires a coarse-grained lock" (locking.mk): a process that was       *)
(* granted a lock and has not released it has its pid in the file, so that *)
(* no two work in one WRKDIR, or in LOCALBASE, at the same time, unless a  *)
(* file was removed that was not the one looked at.  (A file judged dead   *)
(* may have been replaced by then: see raced.)                             *)
LockExclusive ==
  \A l \in Lock \ raced : \A x \in Pid :
    l \in holds[x] => file[l] = [pid |-> x, old |-> FALSE]

(* Why: a pid found dead stays dead until the next start of the system,    *)
(* and past the test for one no file is an old one, whose pid may be in    *)
(* use again.                                                              *)
OnlyLiveHold == \A x \in Pid : ~Alive(x) => holds[x] = {}

NewFilesOfStarted ==
  \A l \in Lock : file[l] # NULL /\ ~file[l].old => at[file[l].pid] # "none"

NoOldFilePastTest ==
  \A x \in Pid : at[x] \in {"link", "read", "kill", "unlink"} =>
    file[want[x]] = NULL \/ ~file[want[x]].old

JudgedStaysDead ==
  \A x \in Pid : /\ at[x] = "kill" => at[judged[x]] # "none"
                 /\ at[x] = "unlink" => at[judged[x]] = "dead"

IInv ==
  /\ LockTypeOK
  /\ LockExclusive
  /\ OnlyLiveHold
  /\ NewFilesOfStarted
  /\ NoOldFilePastTest
  /\ JudgedStaysDead
=============================================================================
