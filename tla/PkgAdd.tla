------------------------------- MODULE PkgAdd -------------------------------
(***************************************************************************)
(* pkg_add (pkg_install/files/add/perform.c): pkg_do, which installs one   *)
(* package and calls itself for missing dependencies.  A package that has  *)
(* another version installed is replaced under -u: the new meta data is    *)
(* written, the old package deleted and only then the dependencies are     *)
(* looked at.                                                              *)
(***************************************************************************)
EXTENDS PkgDelete

VARIABLES
  tasks,    \* the calls of pkg_do, the innermost first
  status    \* what the last call returned: "ok" or "fail"

addVars == <<delVars, tasks, status, asked>>

(* struct pkg_task and the place in pkg_do.                                *)
Task(p, mark_automatic) ==
  [pc |-> "check", pkg |-> p, mark_automatic |-> mark_automatic,
   other_version |-> NULL,
   install_logdir |-> p, install_logdir_real |-> NULL,
   depends |-> Plist[p].depends,   \* still to be looked at
   dependencies |-> << >>,         \* the packages that fulfil the others
   files |-> Plist[p].files,       \* still to be extracted or, after a
                                   \*   failure, to be deleted
   preserve |-> << >>]             \* the meta data still to be moved

Adding == tasks # << >>

task == Head(tasks)

At(pc) == Adding /\ task.pc = pc /\ ~Deleting

Replace == {"u", "U"} \cap command.opts # {}
ReplaceSame == "U" \in command.opts
ForceDepends == Forcing
ForceDepending == Forcing \/ "D" \in command.opts
Automatic == "A" \in command.opts

Updating == \E i \in 1 .. Len(tasks) : tasks[i].other_version # NULL

Goto(pc) == tasks' = <<[task EXCEPT !.pc = pc]>> \o Tail(tasks)

Return(value) ==
  /\ tasks' = Tail(tasks)
  /\ status' = value

-----------------------------------------------------------------------------
(* The checks.  They read and decide; nothing is written but the mark of a *)
(* package that was installed as a dependency so far.                      *)

AlreadyInstalled == task.pkg \in Complete /\ ~ReplaceSame /\ ~Forcing

(* check_already_installed returns 0.                                      *)
CheckAlreadyInstalled ==
  /\ At("check") /\ AlreadyInstalled
  /\ Return("ok")
  /\ pkgdb' = IF Automatic THEN pkgdb
              ELSE [pkgdb EXCEPT ![task.pkg].automatic = FALSE]
  /\ asked' = IF Automatic THEN asked ELSE asked \cup {task.pkg.base}
  /\ UNCHANGED <<byfile, disk, deletion, trouble, faults>>

(* -U puts the new version into a temporary directory.                     *)
replaces_itself == task.pkg \in Complete /\ ReplaceSame

(* check_other_installed: the version that has to make way.                *)
other_versions ==
  IF replaces_itself THEN {task.pkg}
  ELSE best_matching(BasePattern(task.pkg), Installed)

(* A seeded bug: who requires the other version is not asked.              *)
Bug_never_disappointed(n, other) == FALSE

(* A package that requires the other version and would not be content with *)
(* the new one.                                                            *)
disappointed(n, other) ==
  \E q \in Range(plist(n).depends) :
    other \in Matching[q] /\ task.pkg \notin Matching[q]

other_installed_fails(other) ==
  \/ ~Replace
  \/ ~replaces_itself /\ ~(lines(other) \subseteq Complete)
  \/ ~replaces_itself /\ ~ForceDepending
       /\ \E n \in lines(other) \cap Complete : disappointed(n, other)

EarlyFails(other) ==
  \/ replaces_itself /\ Temporary(task.pkg) \in Installed
  \/ other # NULL /\ other_installed_fails(other)

own_conflict(other) ==
  \E q \in Plist[task.pkg].conflicts : (Installed \ {other}) \cap Matching[q] # {}

(* A seeded bug: a conflict counts only if the new package names it.       *)
Bug_one_sided(other) == FALSE

installed_conflict(other) ==
  \E n \in Complete \ {other} : \E q \in plist(n).conflicts : task.pkg \in Matching[q]

implicit_conflict(other) ==
  \E f \in Range(task.files) : byfile[f] \notin {NULL, other}

(* some_installed_package_conflicts_with ends the program at a directory   *)
(* without +CONTENTS, unless it meets a conflict before.                   *)
Unreadable(other) == Installed \ {other} # Complete \ {other}

CheckFails(other) ==
  \/ EarlyFails(other)
  \/ installed_conflict(other)
  \/ own_conflict(other) /\ ~Unreadable(other)
  \/ implicit_conflict(other) /\ ~Forcing /\ ~Unreadable(other)

CheckPasses(other) ==
  ~CheckFails(other) /\ ~Unreadable(other)

others == IF other_versions = {} THEN {NULL} ELSE other_versions

Checked(other) ==
  /\ tasks' = <<[task EXCEPT
                   !.pc = IF other = NULL THEN "depends" ELSE "mkdir",
                   !.other_version = other,
                   !.install_logdir = IF replaces_itself THEN Temporary(@) ELSE @,
                   !.install_logdir_real = IF replaces_itself THEN task.pkg ELSE NULL]>>
              \o Tail(tasks)
  /\ UNCHANGED status

(* What -f overrides is not in order afterwards.                           *)
overridden(other) ==
  (IF other # NULL /\ \E n \in lines(other) \cap Complete : disappointed(n, other)
   THEN {"tree"} ELSE {})
  \cup (IF implicit_conflict(other) THEN {"files"} ELSE {})

(* What a program that ends in the middle leaves: dependencies that are    *)
(* not registered, and an update that has only got half way.               *)
interrupted ==
  {"lines", "files"} \cup (IF Updating THEN {"tree", "update"} ELSE {})

Check ==
  /\ At("check") /\ ~AlreadyInstalled
  /\ \E other \in others :
       \/ /\ CheckFails(other)
          /\ Return("fail")
          /\ UNCHANGED trouble
       \/ /\ CheckPasses(other)
          /\ Checked(other)
          /\ trouble' = trouble \cup overridden(other)
       \/ /\ ~EarlyFails(other) /\ Unreadable(other)
          /\ tasks' = << >> /\ UNCHANGED status
          /\ trouble' = trouble \cup interrupted
  /\ UNCHANGED <<database, deletion, faults, asked>>

-----------------------------------------------------------------------------
(* check_dependencies.  A call that fails is a return to the caller for a  *)
(* new package, and the end of its directory for an update.                *)

pattern == Head(task.depends)

fulfilling == best_matching(pattern, Installed)

Fulfilled(best) ==
  tasks' = <<[task EXCEPT
                !.pc = "depends",
                !.depends = Tail(@),
                !.dependencies = IF best \in Range(@) THEN @ ELSE Append(@, best)]>>
           \o Tail(tasks)

DependsFail ==
  IF task.other_version = NULL
  THEN Return("fail")
  ELSE Goto("nuke_pkgdb") /\ UNCHANGED status

CheckDependency ==
  /\ At("depends") /\ task.depends # << >>
  /\ \/ \E best \in fulfilling : Fulfilled(best) /\ UNCHANGED status
     \/ /\ fulfilling = {}
        /\ \/ \E p \in find_archive(pattern) :
                tasks' = <<Task(p, TRUE), [task EXCEPT !.pc = "installed"]>>
                         \o Tail(tasks)
           \/ find_archive(pattern) = {} /\ Goto("installed")
        /\ status' = "fail"
  /\ UNCHANGED <<database, deletion, trouble, faults, asked>>

(* The inner pkg_do has returned: the package is looked up again.          *)
DependencyInstalled ==
  /\ At("installed")
  /\ IF status = "ok" /\ fulfilling # {}
     THEN \E best \in fulfilling : Fulfilled(best) /\ UNCHANGED <<status, trouble>>
     ELSE IF ForceDepends
     THEN /\ tasks' = <<[task EXCEPT !.pc = "depends", !.depends = Tail(@)]>>
                      \o Tail(tasks)
          /\ trouble' = trouble \cup {"tree"}
          /\ UNCHANGED status
     ELSE DependsFail /\ UNCHANGED trouble
  /\ UNCHANGED <<database, deletion, faults, asked>>

DependenciesDone ==
  /\ At("depends") /\ task.depends = << >>
  /\ Goto(IF task.other_version = NULL THEN "mkdir" ELSE "pre_install")
  /\ UNCHANGED <<database, deletion, trouble, faults, asked, status>>

-----------------------------------------------------------------------------
(* write_meta_data, start_replacing *)

Mkdir ==
  /\ At("mkdir")
  /\ \/ /\ pkgdb' = [n \in Installed \cup {task.install_logdir} |->
                       IF n \in Installed THEN pkgdb[n] ELSE EmptyDirectory]
        /\ Goto("write_meta_data")
        /\ UNCHANGED faults
     \/ Fault /\ Goto("nuke_pkgdb") /\ UNCHANGED pkgdb
  /\ UNCHANGED <<byfile, disk, deletion, trouble, asked, status>>

(* The files that go from the old version's directory to the new one's.    *)
start_replacing == <<"required_by", "preserve", "automatic">>

WriteMetaData ==
  /\ At("write_meta_data")
  /\ \/ /\ pkgdb' = [pkgdb EXCEPT ![task.install_logdir].contents = task.pkg,
                                  ![task.install_logdir].preserve =
                                     @ \/ task.pkg \in Preserved]
        /\ tasks' =
             IF task.other_version = NULL
             THEN <<[task EXCEPT !.pc = "pre_install"]>> \o Tail(tasks)
             ELSE <<[task EXCEPT !.pc = "preserve_meta_data_file",
                                 !.preserve = start_replacing]>>
                  \o Tail(tasks)
        /\ UNCHANGED faults
     \/ Fault /\ Goto("nuke_pkgdb") /\ UNCHANGED pkgdb
  /\ UNCHANGED <<byfile, disk, deletion, trouble, asked, status>>

(* One rename(2); a file the old directory does not have is passed over.   *)
PreserveMetaDataFile ==
  LET file == Head(task.preserve)
      old == task.other_version
      new == task.install_logdir
  IN /\ At("preserve_meta_data_file") /\ task.preserve # << >>
     /\ \/ /\ pkgdb' =
                IF new = old \/ pkgdb[old][file] = EmptyDirectory[file] THEN pkgdb
                ELSE [pkgdb EXCEPT ![new][file] = pkgdb[old][file],
                                   ![old][file] = EmptyDirectory[file]]
           /\ tasks' = <<[task EXCEPT !.preserve = Tail(@)]>> \o Tail(tasks)
           /\ UNCHANGED faults
        \/ Fault /\ Goto("nuke_pkgdb") /\ UNCHANGED pkgdb
     /\ UNCHANGED <<byfile, disk, deletion, trouble, asked, status>>

(* pkg_delete of the old version, without any option; what it returns is   *)
(* not looked at.                                                          *)
DeleteOther ==
  /\ At("preserve_meta_data_file") /\ task.preserve = << >>
  /\ StartDelete({task.other_version}, {})
  /\ Goto("rename")
  /\ UNCHANGED <<database, trouble, faults, asked, status>>

(* The child has ended.  rename(2) fails if there is still something in    *)
(* the old directory; that is not looked at either.                        *)
RenameDirectory ==
  LET real == task.install_logdir_real
      new == task.install_logdir
  IN /\ At("rename")
     /\ pkgdb' = IF \/ real = NULL
                    \/ real \in Installed /\ pkgdb[real] # EmptyDirectory
                 THEN pkgdb
                 ELSE [n \in (Installed \ {new}) \cup {real} |->
                         IF n = real THEN pkgdb[new] ELSE pkgdb[n]]
     /\ tasks' = <<[task EXCEPT !.pc = "depends",
                                !.install_logdir = IF real = NULL THEN @ ELSE real,
                                !.install_logdir_real = NULL]>> \o Tail(tasks)
     /\ trouble' = IF task.other_version \in Installed \ {new}
                   THEN trouble \cup {"lines", "tree", "files", "update"} ELSE trouble
     /\ UNCHANGED <<byfile, disk, deletion, faults, asked, status>>

-----------------------------------------------------------------------------
(* run_install_script, extract_files, pkg_register_depends *)

(* pkg_delete was to remove the old version and has removed the package    *)
(* that is being installed: -f -u of the version that was there.           *)
unrecorded ==
  IF task.pkg \in Complete THEN {} ELSE {"lines", "files", "update"}

(* A +INSTALL can only run if it is still there.  A package without one    *)
(* goes on, also where it has no directory any more.                       *)
PreInstall ==
  /\ At("pre_install")
  /\ \/ /\ task.pkg \in Scripts => task.pkg \in Complete
        /\ Goto("extract_files")
        /\ trouble' = trouble \cup unrecorded
        /\ UNCHANGED faults
     \/ /\ task.pkg \in Scripts
        /\ \/ task.pkg \notin Complete /\ UNCHANGED faults
           \/ Fault
        /\ Goto("nuke_pkgdb")
        /\ UNCHANGED trouble
  /\ UNCHANGED <<database, deletion, asked, status>>

ExtractFile ==
  /\ At("extract_files") /\ task.files # << >>
  /\ byfile' = pkgdb_store(Head(task.files), task.pkg)
  /\ \/ /\ disk' = [disk EXCEPT ![Head(task.files)] = task.pkg]
        /\ tasks' = <<[task EXCEPT !.files = Tail(@)]>> \o Tail(tasks)
        /\ UNCHANGED faults
     \/ /\ Fault
        /\ tasks' = <<[task EXCEPT !.pc = "nuke_pkg",
                                   !.files = Plist[task.pkg].files]>> \o Tail(tasks)
        /\ UNCHANGED disk
  /\ UNCHANGED <<pkgdb, deletion, trouble, asked, status>>

(* After a failure the files stay, only the directory goes.                *)
PostInstall ==
  /\ At("extract_files") /\ task.files = << >>
  /\ \/ Goto("mark_automatic") /\ UNCHANGED <<faults, trouble>>
     \/ /\ task.pkg \in Scripts /\ Fault
        /\ Goto("nuke_pkgdb")
        /\ trouble' = trouble \cup {"files"}
  /\ UNCHANGED <<database, deletion, asked, status>>

(* A package that was asked for becomes an automatic one when it is        *)
(* updated as a dependency.                                                *)
MarkAutomatic ==
  /\ At("mark_automatic")
  /\ pkgdb' = IF task.mark_automatic /\ task.pkg \in Installed
              THEN [pkgdb EXCEPT ![task.pkg].automatic = TRUE] ELSE pkgdb
  /\ asked' = IF task.mark_automatic THEN asked \ {task.pkg.base} ELSE asked
  /\ Goto("pkg_register_depends")
  /\ UNCHANGED <<byfile, disk, deletion, trouble, faults, status>>

RegisterDepend ==
  LET n == Head(task.dependencies)
  IN /\ At("pkg_register_depends") /\ task.dependencies # << >>
     /\ pkgdb' = IF n \in Installed
                 THEN [pkgdb EXCEPT ![n].required_by = @ \cup {task.pkg}]
                 ELSE pkgdb
     /\ tasks' = <<[task EXCEPT !.dependencies = Tail(@)]>> \o Tail(tasks)
     /\ UNCHANGED <<byfile, disk, deletion, trouble, faults, asked, status>>

Registered ==
  /\ At("pkg_register_depends") /\ task.dependencies = << >>
  /\ Return("ok")
  /\ asked' = IF task.mark_automatic \/ task.other_version # NULL
              THEN asked ELSE asked \cup {task.pkg.base}
  /\ UNCHANGED <<database, deletion, trouble, faults>>

(* The failures: nuke_pkg deletes the files, nuke_pkgdb the directory.     *)
NukePkg ==
  /\ At("nuke_pkg") /\ task.files # << >>
  /\ delete_file(Head(task.files), task.pkg, Forcing)
  /\ tasks' = <<[task EXCEPT !.files = Tail(@)]>> \o Tail(tasks)
  /\ UNCHANGED <<pkgdb, deletion, trouble, faults, asked, status>>

NukePkgdb ==
  /\ At("nuke_pkgdb") \/ (At("nuke_pkg") /\ task.files = << >>)
  /\ pkgdb' = remove_directory(task.install_logdir)
  /\ Return("fail")
  /\ trouble' = IF task.other_version = NULL THEN trouble
                ELSE trouble \cup {"tree", "update"}
  /\ UNCHANGED <<byfile, disk, deletion, faults, asked>>

AddStep ==
  \/ CheckAlreadyInstalled \/ Check
  \/ CheckDependency \/ DependencyInstalled \/ DependenciesDone
  \/ Mkdir \/ WriteMetaData
  \/ PreserveMetaDataFile \/ DeleteOther \/ RenameDirectory
  \/ PreInstall \/ ExtractFile \/ PostInstall
  \/ MarkAutomatic \/ RegisterDepend \/ Registered
  \/ NukePkg \/ NukePkgdb
=============================================================================
