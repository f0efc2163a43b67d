------------------------------ MODULE Resolve -------------------------------
(***************************************************************************)
(* pbulk-resolve (presolve/presolve.c): it reads the output of pbulk-scan  *)
(* and finds for every pattern in ALL_DEPENDS the package to depend on.    *)
(*                                                                         *)
(* An entry is a record: name, location, all_depends (its patterns in      *)
(* order) and depends (<< >> if it has no DEPENDS line).  The places of    *)
(* the active entries are kept in a set.  A pattern is a record too: the   *)
(* names it matches, the location written behind it, and whether           *)
(* find_match looks it up by hash: it does if the first four characters    *)
(* are letters, digits or dashes, and no brace follows.                    *)
(***************************************************************************)
EXTENDS Integers, FiniteSets, SequencesExt

CONSTANTS
  Name,       \* the package names
  version,    \* version[n]: the rank of n's version in the order of pkg_order
  Malformed   \* a dependency with no ":../../" in it

ASSUME VersionAssumption == version \in [Name -> Int]

Mode == {"normal", "partial", "incremental"}


(* find_match: the place of the newest package, or 0.  Among several with  *)
(* one version the last looked at is taken: a hash chain holds the entries *)
(* last to first.                                                          *)
find_match(pkgs, p) ==
  LET found == {k \in DOMAIN pkgs : pkgs[k].name \in p.matches}
      newest == {k \in found : \A m \in found :
                   version[pkgs[m].name] <= version[pkgs[k].name]}
  IN IF found = {} THEN 0 ELSE IF p.hashed THEN Min(newest) ELSE Max(newest)

(* One round of the loop of resolve_entry: nothing if a package chosen for *)
(* an earlier pattern matches this one, too.  The package chosen becomes   *)
(* active whether or not the other patterns find one.                      *)
resolve_pattern(run, p) ==
  LET best == find_match(run.pkgs, p)
  IN IF run.malformed \/ \E k \in ToSet(run.chosen) : run.pkgs[k].name \in p.matches
     THEN run
     ELSE IF best = 0
          THEN [run EXCEPT !.missing = @ \cup {p.location}, !.complete = FALSE]
          ELSE [run EXCEPT !.active = @ \cup {best}, !.chosen = Append(@, best)]

resolve_dependency(run, p) ==
  IF p = Malformed THEN [run EXCEPT !.malformed = TRUE] ELSE resolve_pattern(run, p)

(* resolve_entry of entry i; result is [pkgs, active, missing, ret].       *)
skip(result, i) ==
  i \notin result.active \/ result.pkgs[i].depends # << >>

resolve_list(result, i) ==
  FoldLeft(resolve_dependency,
           [pkgs |-> result.pkgs, active |-> result.active,
            missing |-> result.missing, chosen |-> << >>,
            complete |-> TRUE, malformed |-> FALSE],
           result.pkgs[i].all_depends)

resolve_entry(result, i, mode) ==
  LET run == resolve_list(result, i)
      names == [k \in DOMAIN run.chosen |-> run.pkgs[run.chosen[k]].name]
      fails == run.malformed \/ (~run.complete /\ mode = "normal")
  IN IF skip(result, i) THEN result
     ELSE [pkgs |-> [run.pkgs EXCEPT ![i].depends =
                       IF run.complete THEN names ELSE << >>],
           active |-> run.active,
           missing |-> run.missing,
           ret |-> IF fails THEN 1 ELSE result.ret]

indices(seq) == [i \in DOMAIN seq |-> i]

(* main: one pass over the array, in its order.  The first file is active  *)
(* and the others are not.                                                 *)
resolve(first, others, mode) ==
  FoldLeft(LAMBDA result, i : resolve_entry(result, i, mode),
           [pkgs |-> first \o others, active |-> DOMAIN first,
            missing |-> {}, ret |-> 0],
           indices(first \o others))


(* write_entries: the active entries, if ret is 0.                         *)
to_write(result) == result.active

write_entries(result) ==
  LET places == SelectSeq(indices(result.pkgs), LAMBDA i : i \in to_write(result))
  IN IF result.ret = 0
     THEN [k \in DOMAIN places |-> result.pkgs[places[k]]]
     ELSE << >>
=============================================================================
