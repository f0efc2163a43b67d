---------------------------- MODULE ScanPromise -----------------------------
(***************************************************************************)
(* What pbulk-scan promises in every mode: every location is scanned once  *)
(* and for good, and the file has one entry for every package name that a  *)
(* location yields, from the first such location in the order of the tree, *)
(* whatever the order the scans ended in.                                  *)
(***************************************************************************)
EXTENDS Integers, Sequences

CONSTANTS Job, Name, Yields(_, _)   \* Yields(i, n): location i prints n

VARIABLES
  result,   \* result[i]: "none", "scanned" or "failed"
  file      \* the entries written

Result == {"none", "scanned", "failed"}

(* Name n is to be taken from location i.                                  *)
From(r, n, i) ==
  /\ r[i] = "scanned" /\ Yields(i, n)
  /\ \A k \in Job : k < i => ~(r[k] = "scanned" /\ Yields(k, n))

(* The right file for a set of results.                                    *)
Right(r, f) ==
  /\ \A k, m \in DOMAIN f : k < m => /\ f[k].name # f[m].name
                                     /\ f[k].location <= f[m].location
  /\ \A n \in Name, i \in Job :
       From(r, n, i) <=> \E k \in DOMAIN f : f[k].name = n /\ f[k].location = i

Init ==
  /\ result = [i \in Job |-> "none"]
  /\ file = << >>

Scan ==
  /\ \E i \in Job : /\ result[i] = "none"
                    /\ \E r \in {"scanned", "failed"} : result' = [result EXCEPT ![i] = r]
  /\ UNCHANGED file

Write ==
  /\ \A i \in Job : result[i] # "none"
  /\ Right(result, file')
  /\ UNCHANGED result

Next == Scan \/ Write

vars == <<result, file>>

Spec == Init /\ [][Next]_vars
=============================================================================
