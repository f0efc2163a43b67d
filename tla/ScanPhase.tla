----------------------------- MODULE ScanPhase ------------------------------
(***************************************************************************)
(* The scan phase of a bulk build (scripts/scan): pbulk-scan followed by   *)
(* pbulk-resolve, once for the full tree, or again and again for a list of *)
(* locations until no dependency is missing.                               *)
(***************************************************************************)
EXTENDS Resolve

CONSTANTS
  len_locations,
  pbulk_index,    \* pbulk_index[l]: the packages of location l
  Trees,          \* the possible dependencies of all packages
  MaxEntries      \* the bound on the result of a round that is followed by another

Location == 1 .. len_locations

ASSUME IndexAssumption == DOMAIN pbulk_index = Location
ASSUME TreesAssumption == \A tree \in Trees : DOMAIN tree = Name
ASSUME MaxEntriesAssumption == MaxEntries \in Nat

VARIABLES
  all_depends,                  \* the packages' dependencies
  limited_list,                 \* the locations wanted; {} is the whole tree
  ignore_missing_dependencies,  \* "no", "yes" or something else
  pc,        \* "scan", "resolve", "partial", "done" or "failed"
  initial,
  missing,   \* the file of missing locations
  pscan,     \* the output of pbulk-scan
  presolve   \* the output of pbulk-resolve

vars == <<all_depends, limited_list, ignore_missing_dependencies, pc, initial,
          missing, pscan, presolve>>

config == <<all_depends, limited_list, ignore_missing_dependencies>>

Init ==
  /\ all_depends \in Trees
  /\ limited_list \in SUBSET Location
  /\ ignore_missing_dependencies \in
       IF limited_list = {} THEN {"no", "yes", "maybe"} ELSE {"no"}
  /\ pc = "scan"
  /\ initial = TRUE
  /\ missing = limited_list
  /\ pscan = << >>
  /\ presolve = << >>

limited == limited_list # {}

(* What pbulk-scan writes for location l.                                  *)
entries(l) ==
  [k \in DOMAIN pbulk_index[l] |->
     [name |-> pbulk_index[l][k], location |-> l,
      all_depends |-> all_depends[pbulk_index[l][k]], depends |-> << >>]]

(* Locations are scanned in order; with a limited list, those in missing.  *)
Scan ==
  /\ pc = "scan" /\ Len(presolve) <= MaxEntries
  /\ pc' = "resolve"
  /\ pscan' = FoldLeft(LAMBDA file, l : file \o entries(l), << >>,
                       SelectSeq([l \in Location |-> l],
                                 LAMBDA l : limited => l \in missing))
  /\ UNCHANGED <<config, initial, missing, presolve>>

-----------------------------------------------------------------------------
(* Without a limited list *)

ResolveFull ==
  /\ pc = "resolve" /\ ~limited
  /\ \E result \in {resolve(pscan, << >>, "normal")} :
       /\ presolve' = write_entries(result)
       /\ pc' = IF result.ret = 0 THEN "done"
                ELSE CASE ignore_missing_dependencies = "no" -> "failed"
                       [] ignore_missing_dependencies = "yes" -> "partial"
                       [] OTHER -> "done"
       /\ UNCHANGED <<config, initial, missing, pscan>>

ResolvePartial ==
  /\ pc = "partial"
  /\ \E result \in {resolve(pscan, << >>, "partial")} :
       /\ presolve' = write_entries(result)
       /\ pc' = IF result.ret = 0 THEN "done" ELSE "failed"
       /\ UNCHANGED <<config, initial, missing, pscan>>

-----------------------------------------------------------------------------
(* With a limited list: the loop.  The scripts run under set -e.           *)

ResolveFirst ==
  /\ pc = "resolve" /\ limited /\ initial
  /\ \E result \in {resolve(pscan, << >>, "incremental")} :
       /\ initial' = FALSE
       /\ missing' = result.missing
       /\ presolve' = write_entries(result)
       /\ pc' = IF result.ret = 1 THEN "failed"
                ELSE IF missing' = {} THEN "done" ELSE "scan"
       /\ UNCHANGED <<config, pscan>>

incremental == resolve(presolve, pscan, "incremental")

(* A seeded bug: the loop is left only when nothing is missing.            *)
Bug_after(result, new) ==
  IF result.ret = 1 THEN "failed"
  ELSE IF result.missing = {} THEN "done" ELSE "scan"

(* The loop is left when nothing is missing and when nothing is new.       *)
after(result, new) ==
  IF result.ret = 1 THEN "failed"
  ELSE IF result.missing = {} THEN "done"
       ELSE IF new = presolve THEN "failed" ELSE "scan"

ResolveNext ==
  /\ pc = "resolve" /\ limited /\ ~initial
  /\ \E result \in {incremental} :
       /\ missing' = result.missing
       /\ presolve' = IF result.ret = 0 THEN write_entries(result) ELSE presolve
       /\ pc' = after(result, write_entries(result))
       /\ UNCHANGED <<config, initial, pscan>>

Next == Scan \/ ResolveFull \/ ResolvePartial \/ ResolveFirst \/ ResolveNext

Ended == pc \in {"done", "failed"}

(* The programs end, so that the script gets to its next step.  (This is   *)
(* weak fairness of Next, which is enabled until the script has ended or   *)
(* the bound is reached.)                                                  *)
Stopped == Ended \/ (pc = "scan" /\ Len(presolve) > MaxEntries)

Fairness == []<>Stopped \/ []<><<Next>>_vars

Spec == Init /\ [][Next]_vars /\ Fairness

-----------------------------------------------------------------------------
(* Properties *)

Done == pc = "done"

ResultNames == {presolve[k].name : k \in DOMAIN presolve}

patterns(e) == ToSet(e.all_depends) \ {Malformed}

Satisfied(e) ==
  /\ \A p \in patterns(e) : ToSet(e.depends) \cap p.matches # {}
  /\ \A d \in ToSet(e.depends) :
       \E p \in patterns(e) :
         d \in p.matches /\ \A n \in p.matches \cap ResultNames :
                              version[n] <= version[d]


(* The one pass over a result has left entry k as it was: it was inactive   *)
(* at its turn, and an entry behind it has made it active.                 *)
PassedOver(k) ==
  /\ presolve[k].depends = << >> /\ presolve[k].location \notin limited_list
  /\ \E m \in DOMAIN presolve : m > k /\
       \E p \in patterns(presolve[m]) : presolve[k].name \in p.matches


(* The loop ends, if only with the message that dependencies cannot be     *)
(* resolved, unless it copies: a rescan has given the result a package for *)
(* the second time, and a pattern for it is not looked up by hash, so that *)
(* the copy from each further rescan is taken for the newest.              *)
Copies ==
  \E k, m \in DOMAIN presolve :
    /\ k # m /\ presolve[k].name = presolve[m].name
    /\ \E n \in DOMAIN presolve : \E p \in patterns(presolve[n]) :
         ~p.hashed /\ presolve[k].name \in p.matches

LoopEnds == <>(Ended \/ Copies)

(* A round that finds nothing new, nothing missing less or more and no     *)
(* entry that the last result did not have, is the last one: that is what  *)
(* the comparison of the two results in the script is for.                 *)
QuietRoundEnds ==
  [][ /\ ResolveNext
      /\ missing' = missing
      /\ ToSet(presolve') = ToSet(presolve)
      => pc' # "scan" ]_vars
=============================================================================
