----------------------------- MODULE PkgDelete -----------------------------
(***************************************************************************)
(* pkg_delete (pkg_install/files/delete): it collects and sorts the        *)
(* packages to remove first and then removes one after the other.  pkg_add *)
(* runs it as a child to remove the version it replaces.                   *)
(***************************************************************************)
EXTENDS PkgDatabase

VARIABLE deletion   \* the run of pkg_delete: see StartDelete

NoDeletion == [pc |-> "none", opts |-> {}, list |-> << >>, files |-> << >>,
               depends |-> << >>, late_error |-> FALSE]

delVars == <<database, deletion, trouble, faults>>

Deleting == deletion.pc # "none"

-----------------------------------------------------------------------------
(* The list of packages *)

lines(n) == pkgdb[n].required_by

(* -r: the packages that require one of pkgs, as their lines name them,    *)
(* those that require these and so on: the smallest set with pkgs in it    *)
(* that is closed under the lines.                                         *)
Closed(S) == \A n \in S \cap Installed : lines(n) \subseteq S

with_dependents(pkgs) ==
  LET named == pkgs \cup UNION {lines(n) : n \in Installed}
  IN {m \in named : \A S \in SUBSET named : pkgs \subseteq S /\ Closed(S) => m \in S}

(* Those that can go once the packages before them have gone.              *)
removable(pkgs) ==
  {n \in pkgs : with_dependents({n}) \subseteq pkgs}

(* A seeded bug: what is required goes first.                              *)
Bug_reversed(list) ==
  \A i, j \in 1 .. Len(list) :
    list[i] \in Installed /\ list[j] \in lines(list[i]) => i < j

(* No package is before one that requires it.                              *)
Sorted(list) ==
  \A i, j \in 1 .. Len(list) :
    list[j] \in Installed /\ list[i] \in lines(list[j]) => i < j

(* What sort_and_recurse may return: the removable packages in order, and  *)
(* with -f the others behind them.                                         *)
sort_and_recurse(pkgs, opts) ==
  LET all == IF "r" \in opts THEN with_dependents(pkgs) ELSE pkgs
      rest == all \ removable(all)
  IN IF rest # {} /\ {"f", "ff"} \cap opts = {} THEN {}
     ELSE {first \o last : first \in {s \in SetToSeqs(removable(all)) : Sorted(s)},
                           last \in SetToSeqs(rest)}

(* A seeded bug: a package installed on request is a leaf like any other.  *)
Bug_any_leaf(opts, list, n) ==
  LET gone == ToSet(list)
  IN IF ~pkgdb[n].preserve /\ n \notin gone /\ lines(n) # {} /\ lines(n) \subseteq gone
     THEN Append(list, n) ELSE list

find_new_leaves_iter(opts, list, n) ==
  LET gone == ToSet(list)
  IN IF /\ ~pkgdb[n].preserve
        /\ "R" \notin opts => pkgdb[n].automatic
        /\ n \notin gone
        /\ lines(n) # {} /\ lines(n) \subseteq gone
     THEN Append(list, n) ELSE list

(* One pass over the directory: progress is never set.                     *)
find_new_leaves(opts, list, directory) ==
  IF {"R", "A"} \cap opts = {} THEN list
  ELSE FoldLeft(LAMBDA l, n : find_new_leaves_iter(opts, l, n), list, directory)

preserved(n) == n \in Installed /\ pkgdb[n].preserve

keep_preserve(list, n) == IF preserved(n) THEN list ELSE Append(list, n)

(* A seeded bug: only the first package is looked at.                      *)
Bug_first_preserved(opts, list) ==
  IF "k" \in opts THEN {FoldLeft(keep_preserve, << >>, list)}
  ELSE IF "ff" \notin opts /\ list # << >> /\ preserved(Head(list)) THEN {}
  ELSE {list}

(* find_preserve_pkgs refuses the list unless -ff is given; -k drops the   *)
(* preserved packages from it.                                             *)
find_preserve_pkgs(opts, list) ==
  IF "k" \in opts THEN {FoldLeft(keep_preserve, << >>, list)}
  ELSE IF "ff" \notin opts /\ \E n \in ToSet(list) : preserved(n) THEN {}
  ELSE {list}

(* The order in which the directory is read; only packages that some other *)
(* one requires can become leaves.                                         *)
directories(opts) ==
  IF {"R", "A"} \cap opts = {} THEN {<< >>}
  ELSE SetToSeqs({n \in Installed : lines(n) # {}})

(* The lists pkg_delete may begin to remove: none if it refuses.           *)
Lists(pkgs, opts) ==
  UNION {find_preserve_pkgs(opts, find_new_leaves(opts, list, directory)) :
           list \in sort_and_recurse(pkgs, opts), directory \in directories(opts)}

StartDelete(pkgs, opts) ==
  \E lists \in {Lists(pkgs, opts)} :
    \/ \E list \in lists :
         deletion' = [NoDeletion EXCEPT !.pc = "next", !.opts = opts, !.list = list]
    \/ lists = {} /\ deletion' = NoDeletion

-----------------------------------------------------------------------------
(* remove_pkg of the first package of the list *)

this == Head(deletion.list)

forced == {"f", "ff"} \cap deletion.opts # {}

(* After a failure only -f goes on with the rest of the list.              *)
remaining(failed) == IF failed /\ ~forced THEN << >> ELSE Tail(deletion.list)

(* remove_depend for every directory that matches.                         *)
without_line(pattern, n) ==
  [m \in Installed |-> IF m \in Matching[pattern]
                       THEN [pkgdb[m] EXCEPT !.required_by = @ \ {n}]
                       ELSE pkgdb[m]]

(* A seeded bug: +DEINSTALL runs, and may fail, when the lines are gone.   *)
Bug_late_script ==
  /\ deletion.pc = "next" /\ deletion.list # << >>
  /\ \/ /\ this \in Complete
        /\ UNCHANGED <<pkgdb, faults>>
        /\ deletion' = [deletion EXCEPT !.pc = "remove",
                                        !.files = plist(this).files,
                                        !.depends = plist(this).depends]
     \/ /\ this \in Complete /\ plist(this).depends # << >> /\ ~forced /\ Fault
        /\ pkgdb' = without_line(Head(plist(this).depends), this)
        /\ deletion' = [deletion EXCEPT !.list = remaining(TRUE)]
     \/ /\ this \notin Complete /\ UNCHANGED <<pkgdb, faults>>
        /\ deletion' = [deletion EXCEPT !.list = remaining(TRUE)]
  /\ UNCHANGED <<byfile, disk, trouble>>

(* The package is looked up and +DEINSTALL runs.                           *)
Deinstall ==
  /\ deletion.pc = "next" /\ deletion.list # << >>
  /\ \/ /\ this \in Complete
        /\ UNCHANGED faults \/ (forced /\ Fault)
        /\ deletion' = [deletion EXCEPT !.pc = "remove",
                                        !.files = plist(this).files,
                                        !.depends = plist(this).depends]
     \/ /\ \/ this \notin Complete /\ UNCHANGED faults
           \/ this \in Complete /\ ~forced /\ Fault
        /\ deletion' = [deletion EXCEPT !.list = remaining(TRUE)]
  /\ UNCHANGED <<database, trouble>>

(* delete_package, with the package the +CONTENTS names.                   *)
DeleteFile ==
  /\ deletion.pc = "remove" /\ deletion.files # << >>
  /\ delete_file(Head(deletion.files), pkgdb[this].contents, forced)
  /\ deletion' = [deletion EXCEPT !.files = Tail(@)]
  /\ UNCHANGED <<pkgdb, trouble, faults>>

RemoveDepend ==
  /\ deletion.pc = "remove" /\ deletion.files = << >> /\ deletion.depends # << >>
  /\ pkgdb' = without_line(Head(deletion.depends), this)
  /\ deletion' = [deletion EXCEPT !.depends = Tail(@)]
  /\ UNCHANGED <<byfile, disk, trouble, faults>>

(* +DEINSTALL with POST-DEINSTALL, then the files of the directory go.     *)
(* With -f lines may be left, and with -k those of packages that were      *)
(* skipped; they belong to packages that stay.                             *)
RemoveMetaData ==
  /\ deletion.pc = "remove" /\ deletion.files = << >> /\ deletion.depends = << >>
  /\ UNCHANGED faults \/ Fault
  /\ deletion' = [deletion EXCEPT !.pc = "rmdir",
                                  !.late_error = (faults' # faults)]
  /\ pkgdb' = [pkgdb EXCEPT ![this] = EmptyDirectory]
  /\ trouble' = IF (forced \/ "k" \in deletion.opts) /\ lines(this) # {}
                THEN trouble \cup {"tree"} ELSE trouble
  /\ UNCHANGED <<byfile, disk>>

Rmdir ==
  /\ deletion.pc = "rmdir"
  /\ pkgdb' = remove_directory(this)
  /\ deletion' = [deletion EXCEPT !.pc = "next", !.late_error = FALSE,
                                  !.list = remaining(deletion.late_error)]
  /\ UNCHANGED <<byfile, disk, trouble, faults>>

EndDelete ==
  /\ deletion.pc = "next" /\ deletion.list = << >>
  /\ deletion' = NoDeletion
  /\ UNCHANGED <<database, trouble, faults>>

DeleteStep ==
  Deinstall \/ DeleteFile \/ RemoveDepend \/ RemoveMetaData \/ Rmdir \/ EndDelete
=============================================================================
