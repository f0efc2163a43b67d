------------------------------ MODULE PkgTools ------------------------------
(***************************************************************************)
(* pkg_add, pkg_delete and pkg_admin on one package database, one command  *)
(* after the other.  A command may be killed between any two of its steps, *)
(* and the next one finds what it left.                                    *)
(***************************************************************************)
EXTENDS PkgAdd

vars == <<scenario, database, command, deletion, tasks, status, faults, trouble, asked>>

InitAll == Init /\ deletion = NoDeletion /\ tasks = << >> /\ status = "ok"

volatile == <<deletion, tasks, status>>

-----------------------------------------------------------------------------
(* The commands *)

(* After a crash lines may be missing; a command that deletes relies on    *)
(* them.                                                                   *)
relied_on_lines(opts) ==
  IF "lines" \in trouble /\ opts \cap {"u", "U"} # {} THEN {"tree"} ELSE {}

(* The packages the user wants to be rid of: with -R the leaves, too.      *)
wanted_gone(n, opts) ==
  CASE "R" \in opts -> ToSet(deletion'.list) \cup {n}
    [] "r" \in opts /\ "R" \notin opts -> with_dependents({n})
    [] OTHER -> {n}

Satisfied ==
  \A n \in Complete : \A q \in Range(plist(n).depends) : Complete \cap Matching[q] # {}

(* The packages among ns that have f in their +CONTENTS.                   *)
owners(f, ns) == {pkgdb[n].contents : n \in {m \in ns : f \in Range(plist(m).files)}}

(* What the index may hold for f: add_pkg does not overwrite and leaves    *)
(* missing files out.                                                      *)
entries(f, visited) ==
  IF owners(f, visited) = {} \/ disk[f] = NULL THEN {NULL} ELSE owners(f, visited)

AllFilesThere == \A f \in File : owners(f, Complete) = {disk[f]} \ {NULL}

(* The bound on faults counts the commands that override a check as well.  *)
Given(opts) == IF {"f", "ff"} \cap opts = {} THEN UNCHANGED faults ELSE Fault

PkgAddCommand ==
  /\ Idle
  /\ \E p \in scenario.packages, opts \in scenario.add_options :
       /\ command' = [name |-> "pkg_add", opts |-> opts, pkg |-> p]
       /\ tasks' = <<Task(p, "A" \in opts)>>
       /\ trouble' = trouble \cup relied_on_lines(opts)
       /\ Given(opts)
  /\ UNCHANGED <<scenario, database, deletion, status, asked>>

PkgDeleteCommand ==
  /\ Idle
  /\ \E n \in Complete, opts \in scenario.delete_options :
       /\ command' = [name |-> "pkg_delete", opts |-> opts, pkg |-> n]
       /\ StartDelete({n}, opts)
       /\ Given(opts)
       /\ asked' = asked \ {m.base : m \in wanted_gone(n, opts)}
  /\ trouble' = IF "lines" \in trouble THEN trouble \cup {"tree"} ELSE trouble
  /\ UNCHANGED <<scenario, database, tasks, status>>

(* The first part of pkg_admin rebuild-tree and of pkg_admin rebuild: the  *)
(* old registrations are removed.                                          *)
PkgAdminCommand ==
  /\ Idle
  /\ \/ /\ command' = [NoCommand EXCEPT !.name = "rebuild_tree"]
        /\ pkgdb' = [n \in Installed |-> [pkgdb[n] EXCEPT !.required_by = {}]]
        /\ trouble' = trouble \cup {"lines"}
        /\ UNCHANGED byfile
     \/ /\ command' = [NoCommand EXCEPT !.name = "rebuild"]
        /\ byfile' = [f \in File |-> NULL]
        /\ trouble' = trouble \cup {"files"}
        /\ UNCHANGED pkgdb
  /\ UNCHANGED <<scenario, disk, volatile, faults, asked>>

(* The packages pkg_admin gets to: all, or those before the first one that *)
(* has no +CONTENTS, at which it ends.                                     *)
Visited == IF Installed = Complete THEN {Complete} ELSE SUBSET Complete

DependsOn(m, n) ==
  \E q \in Range(plist(m).depends) : n \in best_matching(q, Installed)

RebuildTree ==
  /\ command.name = "rebuild_tree"
  /\ \E visited \in Visited :
       pkgdb' = [n \in Installed |->
                   [pkgdb[n] EXCEPT !.required_by = {m \in visited : DependsOn(m, n)}]]
  /\ trouble' = IF Installed = Complete /\ Satisfied
                THEN trouble \ {"lines", "tree"} ELSE trouble
  /\ command' = NoCommand
  /\ UNCHANGED <<scenario, byfile, disk, volatile, faults, asked>>

Rebuild ==
  /\ command.name = "rebuild"
  /\ \E visited \in Visited :
       byfile' \in {index \in [File -> Pkg \cup {NULL}] :
                     \A f \in File : index[f] \in entries(f, visited)}
  /\ trouble' = IF Installed = Complete /\ AllFilesThere
                THEN trouble \ {"files"} ELSE trouble
  /\ command' = NoCommand
  /\ UNCHANGED <<scenario, pkgdb, disk, volatile, faults, asked>>

AddOrDeleteEnds ==
  /\ command.name \in {"pkg_add", "pkg_delete"} /\ ~Adding /\ ~Deleting
  /\ command' = NoCommand /\ status' = "ok"
  /\ UNCHANGED <<scenario, database, deletion, tasks, trouble, faults, asked>>

Step ==
  \/ AddStep /\ UNCHANGED <<scenario, command>>
  \/ DeleteStep /\ UNCHANGED <<scenario, command, tasks, status, asked>>
  \/ RebuildTree \/ Rebuild \/ AddOrDeleteEnds

(* The program is killed, with the pkg_delete it may have started, or only *)
(* that pkg_delete is.                                                     *)
Kill ==
  /\ ~Idle /\ Fault
  /\ deletion' = NoDeletion
  /\ \/ /\ tasks' = << >> /\ status' = "ok" /\ command' = NoCommand
        /\ trouble' = trouble \cup interrupted
     \/ Deleting /\ Adding /\ UNCHANGED <<tasks, status, command, trouble>>
  /\ UNCHANGED <<scenario, database, asked>>

Next ==
  \/ PkgAddCommand \/ PkgDeleteCommand \/ PkgAdminCommand
  \/ Step
  \/ Kill

Spec == InitAll /\ [][Next]_vars

-----------------------------------------------------------------------------
(* Properties *)

(* No installed package ever lacks a dependency, in the middle of a        *)
(* command and after a kill as well: a dependency is installed before and  *)
(* deleted after what needs it.  Excepted are updates while they run and   *)
(* when they fail, -f where it overrides a check, -k where it skips what   *)
(* needs a package that is deleted, and deletions after a crash that left  *)
(* lines of +REQUIRED_BY missing, until rebuild-tree.                      *)
DependenciesPresent == "tree" \notin trouble /\ ~Updating => Satisfied

(* +REQUIRED_BY has a line for every dependency, also after updates, which *)
(* move the file from one version to the next.                             *)
RequiredByComplete ==
  Idle /\ {"lines", "tree"} \cap trouble = {} =>
    \A m \in Complete : \A q \in Range(plist(m).depends) :
      \E n \in Installed \cap Matching[q] : m \in lines(n)

(* No line of +REQUIRED_BY is left behind: each is that of an installed    *)
(* package with a pattern that the package with the line matches.  A line  *)
(* too many keeps pkg_delete from removing what nobody needs.              *)
NoStrayLines ==
  Idle /\ {"lines", "tree"} \cap trouble = {} =>
    \A n \in Installed : \A m \in lines(n) :
      m \in Complete /\ \E q \in Range(plist(m).depends) : n \in Matching[q]

(* Every file of an installed package is there and indexed under its name, *)
(* no two packages share one, and nothing else is there.                   *)
FilesOwned ==
  Idle /\ {"files", "update"} \cap trouble = {} =>
    \A f \in File :
      /\ owners(f, Complete) = {disk[f]} \ {NULL}
      /\ byfile[f] = disk[f]

(* No two versions of a package and no conflicting packages are installed, *)
(* although a package is checked before its dependencies are installed:    *)
(* all that gets past the check is a package at odds with what it brings   *)
(* along itself, and with nothing that came by another way.                *)
NoConflicts ==
  Idle /\ "update" \notin trouble =>
    \A m, n \in Complete : m # n =>
      m.base # n.base /\ Peaceful(scenario, m, n)

(* What the user asked for stays until a command names it, and stays       *)
(* marked so that -A does not remove it (but see MarkAutomatic).           *)
ManualKept ==
  Idle /\ "update" \notin trouble =>
    \A b \in asked : \E n \in Installed : n.base = b /\ ~pkgdb[n].automatic

(* A package marked as not for deletion leaves the database only by -ff,   *)
(* as the old version of one that inherits the mark, or when its own       *)
(* installation fails; so does the directory -U fills.                     *)
PreservedKept ==
  [][\A n \in Complete :
       pkgdb[n].preserve /\ n \notin Complete' =>
         \/ "ff" \in command.opts
         \/ \E m \in Complete' : m.base = n.base /\ pkgdb'[m].preserve
         \/ \E t \in Range(tasks) : n \in {t.pkg, t.install_logdir}]_vars

(* pkg_delete -R finds every new leaf: as long as a package is on the list *)
(* of find_new_leaves, what only packages of the list require is, too.     *)
LeavesFound ==
  deletion.pc = "next" /\ "R" \in deletion.opts =>
    \A n \in Installed \ ToSet(deletion.list) :
      lines(n) # {} /\ ~pkgdb[n].preserve => ~(lines(n) \subseteq ToSet(deletion.list))
=============================================================================
