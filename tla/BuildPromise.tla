---------------------------- MODULE BuildPromise ----------------------------
(***************************************************************************)
(* What pbulk-build promises, whatever mode it runs in and however often   *)
(* it is killed and restarted, seen from outside: one status per package.  *)
(* One step may move several packages at once, because one handler of the  *)
(* master finishes a job, gives up its dependents and starts others.       *)
(***************************************************************************)
CONSTANTS Pkg, Deps, Prefailed

VARIABLE status

Status == {"todo", "building", "done", "failed", "skipped"}

(* A package is skipped if and only if the scan excluded it or one of its  *)
(* dependencies failed or was skipped.                                     *)
SkipRule(s) ==
  \A p \in Pkg : s[p] = "skipped" <=>
    p \in Prefailed \/ \E d \in Deps[p] : s[d] \in {"failed", "skipped"}

(* A build starts only on top of finished dependencies, ends with a result *)
(* or is abandoned (its client or the program died), and a result is for   *)
(* good.                                                                   *)
MayBecome(p, s, old, new) ==
  \/ new = old
  \/ old = "todo" /\ new = "skipped"
  \/ old = "todo" /\ new = "building" /\ \A d \in Deps[p] : s[d] = "done"
  \/ old = "building" /\ new \in {"done", "failed", "todo"}

Init ==
  /\ status \in [Pkg -> {"todo", "skipped"}]
  /\ SkipRule(status)

Step(old, new) ==
  /\ new \in [Pkg -> Status]
  /\ SkipRule(new)
  /\ \A p \in Pkg : MayBecome(p, new, old[p], new[p])

Next == Step(status, status')

Spec == Init /\ [][Next]_status

Resolved == \A p \in Pkg : status[p] \in {"done", "failed", "skipped"}
=============================================================================
