---------------------------- MODULE PkgDatabase ----------------------------
(***************************************************************************)
(* What pkg_add, pkg_delete and pkg_admin share (pkg_install/files/lib):   *)
(* the package database under PKG_DBDIR, one directory per package, the    *)
(* index of files pkgdb.byfile.db, the installed files, and the functions  *)
(* that look packages up and delete their files.                           *)
(*                                                                         *)
(* All of it is on disk and outlives a killed program.  The tools take no  *)
(* lock of their own: one of them runs at a time.                          *)
(***************************************************************************)
EXTENDS Dewey, Functions

CONSTANTS
  Pkg,        \* the binary packages, as names
  Plist,      \* Plist[p]: the files (a sequence), depends (a sequence of
              \*   patterns) and conflicts (a set of them) in p's +CONTENTS
  Preserved,  \* the packages that bring a +PRESERVE
  Scripts,    \* the packages that bring a +INSTALL
  Scenarios,  \* what is to be looked at, each with its bounds: the packages
              \*   on offer, the sets of options given to pkg_add and to
              \*   pkg_delete, and how many kills, failures and uses of -f
  NULL

File == UNION {Range(Plist[p].files) : p \in Pkg}

(* "lib-1.xxxxxx", the directory a package is put into while pkg_add -U    *)
(* replaces its own version.                                               *)
Temporary(p) ==
  [p EXCEPT !.version = @ \o <<Modifier(Dot)>> \o [i \in 1 .. 6 |-> Letter(24)]]

Name == Pkg \cup {Temporary(p) : p \in Pkg}

BasePattern(p) == {[kind |-> "base", base |-> p.base]}

Pattern == UNION {Range(Plist[p].depends) \cup Plist[p].conflicts
                    \cup {BasePattern(p)} : p \in Pkg}

(* No package is named as a temporary directory is.                        *)
ASSUME PkgAssumption ==
  /\ IsFiniteSet(Pkg)
  /\ \A p \in Pkg : p \in [base : {p.base}, version : Seq(Piece)]
  /\ \A p \in Pkg : Temporary(p) \notin Pkg
  /\ NULL \notin Name
ASSUME PlistAssumption ==
  Plist \in [Pkg -> [files : Seq(File), depends : Seq(Pattern), conflicts : SUBSET Pattern]]
ASSUME PreservedAssumption == Preserved \cup Scripts \subseteq Pkg
ASSUME ScenariosAssumption ==
  \A s \in Scenarios :
    /\ s.packages \subseteq Pkg /\ s.max_faults \in Nat
    /\ \A o \in s.add_options : o \subseteq {"A", "D", "f", "u", "U"}
    /\ \A o \in s.delete_options : o \subseteq {"A", "R", "r", "f", "ff", "k"}

-----------------------------------------------------------------------------
(* iterate.c and pkg_io.c.  The tables of matches and of newer versions    *)
(* are computed once: patterns and names are constants.                    *)

Matching == [q \in Pattern |-> {n \in Name : pkg_match(q, n)}]

Order == [q \in Pattern |->
            {o \in Name \X (Name \cup {NULL}) : pkg_order(q, o[1], o[2], NULL)}]

(* The names of which match_best_installed may keep one: those that        *)
(* nothing replaces once they are the best so far.                         *)
best_matching(pattern, names) ==
  {n \in names \cap Matching[pattern] :
     \A m \in names : <<m, n>> \notin Order[pattern]}

(* What pkg_add p may install with it: for each of its patterns one of the *)
(* best packages of the repository, and what those need.                   *)
wanted(s, p) ==
  UNION {best_matching(q, s.packages) : q \in Range(Plist[p].depends)}

brings(s, p) ==
  {d \in s.packages :
     \A S \in SUBSET s.packages :
       wanted(s, p) \subseteq S /\ (\A e \in S : wanted(s, e) \subseteq S) => d \in S}

Compatible(p, r) == \A q \in Plist[p].conflicts : r \notin Matching[q]

(* pkg_add checks a package before it installs the dependencies, so it     *)
(* does not notice if the package is at odds with what it brings along.    *)
Noticed(s, p, r) == p \notin brings(s, r) /\ r \notin brings(s, p)

Peaceful(s, p, r) == Noticed(s, p, r) => Compatible(p, r)

(* No package needs another version of itself, or one with a file of its   *)
(* own.                                                                    *)
ASSUME RepositoryAssumption ==
  \A s \in Scenarios : \A p \in s.packages : \A d \in brings(s, p) :
    d.base # p.base /\ Range(Plist[d].files) \cap Range(Plist[p].files) = {}

VARIABLES
  scenario, \* one of Scenarios; never changes
  pkgdb,    \* the directories and what their files say
  byfile,   \* pkgdb.byfile.db
  disk,     \* which package's version of a file is installed
  command,  \* what runs: its name, its options and its operand
  faults,   \* kills, failures and uses of -f so far
  trouble,  \* what may be out of order: "lines", "tree", "files", "update"
  asked     \* the base names the user has asked for

database == <<pkgdb, byfile, disk>>

NoCommand == [name |-> "none", opts |-> {}, pkg |-> NULL]

Idle == command.name = "none"

(* The variable Force of the tools.                                        *)
Forcing == "f" \in command.opts

(* The files of a directory as far as they matter here.  A directory has   *)
(* no contents if its +CONTENTS is missing.                                *)
EmptyDirectory ==
  [contents |-> NULL, required_by |-> {}, preserve |-> FALSE, automatic |-> FALSE]

Installed == DOMAIN pkgdb

Complete == {n \in Installed : pkgdb[n].contents # NULL}

plist(n) == Plist[pkgdb[n].contents]

Init ==
  /\ scenario \in Scenarios
  /\ pkgdb = << >>
  /\ byfile = [f \in File |-> NULL]
  /\ disk = [f \in File |-> NULL]
  /\ command = NoCommand
  /\ faults = 0
  /\ trouble = {}
  /\ asked = {}

-----------------------------------------------------------------------------
(* pkg_io.c *)

(* find_archive: the best package of the repository.                       *)
find_archive(pattern) == best_matching(pattern, scenario.packages)

-----------------------------------------------------------------------------
(* pkgdb.c, plist.c *)

(* pkgdb_store does not overwrite.                                         *)
pkgdb_store(f, p) == [byfile EXCEPT ![f] = IF @ = NULL THEN p ELSE @]

(* A seeded bug: a file that is missing or changed keeps its entry.        *)
Bug_entry_kept(f, p, force) ==
  /\ disk' = IF disk[f] \in {NULL, p} \/ force
             THEN [disk EXCEPT ![f] = NULL] ELSE disk
  /\ byfile' = IF disk[f] = p \/ force THEN [byfile EXCEPT ![f] = NULL] ELSE byfile

(* delete_package for one file: a file that is not as recorded stays,      *)
(* unless -f is given; its entry goes in any case, whoever it names.       *)
delete_file(f, p, force) ==
  /\ disk' = IF disk[f] \in {NULL, p} \/ force
             THEN [disk EXCEPT ![f] = NULL] ELSE disk
  /\ byfile' = [byfile EXCEPT ![f] = NULL]

remove_directory(n) == [m \in Installed \ {n} |-> pkgdb[m]]

(* Something goes wrong outside: a script or a write fails, or a kill.     *)
Fault ==
  /\ faults < scenario.max_faults
  /\ faults' = faults + 1
=============================================================================
