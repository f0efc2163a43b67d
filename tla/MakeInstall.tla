----------------------------- MODULE MakeInstall ----------------------------
(***************************************************************************)
(* "make package-install" in several directories at once, with the locks   *)
(* of Shlock (mk/internal/locking.mk, PKGSRC_LOCKTYPE once or sleep).      *)
(* A user's make in a directory installs what it needs with a make of the  *)
(* same kind in the directory of each dependency that is missing.  The     *)
(* work of a package is cut into sections under the lock of its WRKDIR;    *)
(* each leaves a cookie, and a make that saw the cookie when it read the   *)
(* makefiles does not enter the section.  The sections from tools to test  *)
(* are one here, "build".                                                  *)
(***************************************************************************)
EXTENDS Shlock

CONSTANTS
  User,        \* the makes users call
  Pkg, Deps,   \* the packages and what each depends on
  Goals,       \* what the users may want: functions from User to Pkg
  NoDestdir,   \* the packages without PKG_DESTDIR_SUPPORT: they install
               \* into LOCALBASE and not by pkg_add
  LOCALBASE,   \* the lock of that directory
  MaxFaults    \* kills and starts of the system, a bound for TLC

(* A make: who called it, or the make that called it, and in which package.*)
(* A user calls make once between two starts of the system; the pids are   *)
(* then the same.  The locks are those of the WRKDIRs and LOCALBASE.       *)
ASSUME PidAssumption == Pid = User \X Pkg
ASSUME LockAssumption == Lock = Pkg \cup {LOCALBASE} /\ LOCALBASE \notin Pkg
ASSUME PkgAssumption ==
  /\ Deps \in [Pkg -> SUBSET Pkg] /\ NoDestdir \subseteq Pkg
  /\ User # {} /\ Goals \subseteq [User -> Pkg] /\ MaxFaults \in Nat

VARIABLES
  goal,        \* the package a user wants
  section,     \* section[x]: where the make x is, or how it ended
  made,        \* made[x]: the targets x does not make any more
  cookies,     \* cookies[p]: the cookies in the WRKDIR of p
  installed,   \* the packages in the package database
  faults,      \* kills and starts of the system that may still come
  disturbed    \* one of these, or a file gone before find or cat, has
               \* ended a make

makeVars == <<goal, section, made, cookies, installed, faults, disturbed>>
vars == <<lockVars, makeVars>>

Sections == {"bootstrap", "depends", "barrier", "build", "install", "package",
             "add"}

Ended == {"done", "failed"}

CookieKinds == {"depends", "build", "install", "package"}

ASSUME SectionAssumption == NULL \notin Sections \cup Ended

TypeOK ==
  /\ LockTypeOK
  /\ goal \in [User -> Pkg]
  /\ section \in [Pid -> Sections \cup Ended \cup {NULL}]
  /\ made \in [Pid -> SUBSET (CookieKinds \cup {"check", "register"})]
  /\ \A x \in Pid : /\ Alive(x) <=> section[x] \in Sections
                    /\ at[x] = "none" <=> section[x] = NULL
  /\ cookies \in [Pkg -> SUBSET CookieKinds]
  /\ installed \in SUBSET Pkg
  /\ faults \in 0 .. MaxFaults /\ disturbed \in BOOLEAN

Init ==
  /\ LockInit
  /\ goal \in Goals
  /\ section = [x \in Pid |-> NULL]
  /\ made = [x \in Pid |-> {}]
  /\ cookies = [p \in Pkg |-> {}]
  /\ installed = {}
  /\ faults \in 0 .. MaxFaults /\ disturbed = FALSE

-----------------------------------------------------------------------------
(* One make, x, in package p *)

In(x, s) == section[x] = s /\ at[x] = "idle"

MoveTo(x, s) == section' = [section EXCEPT ![x] = s]

Made(x, t) == made' = [made EXCEPT ![x] = @ \cup {t}]

Fail(x) ==
  /\ Exit({x})
  /\ MoveTo(x, "failed")
  /\ made' = [made EXCEPT ![x] = {}]
  /\ UNCHANGED <<goal, cookies, installed, faults, disturbed>>

(* Reading the makefiles: the targets whose cookie exists.                 *)
Begin(x, p) ==
  /\ Start(x)
  /\ MoveTo(x, "bootstrap")
  /\ made' = [made EXCEPT ![x] = cookies[p]]
  /\ UNCHANGED <<goal, cookies, installed, faults, disturbed>>

(* acquire-bootstrap-depends-lock, acquire-depends-lock and so on.         *)
EnterSection(x, p) ==
  /\ \E s \in {"bootstrap", "depends", "build", "install", "package"} :
       In(x, s) /\ s \notin made[x]
  /\ p \notin holds[x]
  /\ Acquire(x, p)
  /\ UNCHANGED makeVars

(* find and cat fail where there is no file.                               *)
FileGone(x) == at[x] \in {"find", "cat"} /\ file[want[x]] = NULL

(* The loop goes on; it may end the make.                                  *)
LoopStep(x) ==
  /\ Loop(x)
  /\ IF at'[x] = "dead"
     THEN MoveTo(x, "failed") /\ made' = [made EXCEPT ![x] = {}]
     ELSE UNCHANGED <<section, made>>
  /\ disturbed' = (disturbed \/ FileGone(x))
  /\ UNCHANGED <<goal, cookies, installed, faults>>

(* The targets of the second make, in their order.                         *)
AfterBarrier(c) ==
  CASE "package" \in c -> "add"
    [] "install" \in c -> "package"
    [] "build" \in c   -> "install"
    [] OTHER           -> "build"

(* release-depends-lock and so on, and on to the next section.             *)
LeaveSection(x, p) ==
  /\ section[x] = "bootstrap" \/ section[x] \in made[x]
  /\ Release(x, p)
  /\ MoveTo(x, CASE section[x] = "bootstrap" ->
                      IF "depends" \in made[x] THEN "barrier" ELSE "depends"
                 [] section[x] = "depends" -> "barrier"
                 [] OTHER -> AfterBarrier(made[x]))
  /\ UNCHANGED <<goal, made, cookies, installed, faults, disturbed>>

(* barrier: a second make for the rest, which reads the makefiles again.   *)
Barrier(x, p) ==
  /\ In(x, "barrier")
  /\ MoveTo(x, AfterBarrier(cookies[p]))
  /\ made' = [made EXCEPT ![x] = cookies[p]]
  /\ UNCHANGED <<lockVars, goal, cookies, installed, faults, disturbed>>

(* depends-cookie and so on: each tests that the cookie does not exist.    *)
SetCookie(x, p, s) ==
  IF s \in cookies[p]
  THEN Fail(x)
  ELSE /\ cookies' = [cookies EXCEPT ![p] = @ \cup {s}]
       /\ Made(x, s)
       /\ UNCHANGED <<lockVars, goal, section, installed, faults, disturbed>>

Working(x, p, s) == In(x, s) /\ p \in holds[x] /\ s \notin made[x]

missing(p) == Deps[p] \ installed

(* _flavor-install-dependencies, while no make it has called runs.         *)
Calling(x, p) ==
  /\ Working(x, p, "depends")
  /\ \A d \in Deps[p] : ~Alive(<<x[1], d>>)

(* set -e: the make of a dependency has failed, or it has ended and the    *)
(* dependency is not there.                                                *)
CallFailed(x, p) ==
  \E d \in Deps[p] : \/ section[<<x[1], d>>] = "failed"
                     \/ section[<<x[1], d>>] = "done" /\ d \in missing(p)

CallMake(x, p) ==
  /\ Calling(x, p) /\ ~CallFailed(x, p)
  /\ \E d \in missing(p) : Begin(<<x[1], d>>, d)

MakeFailed(x, p) == Calling(x, p) /\ CallFailed(x, p) /\ Fail(x)

Depends(x, p) ==
  /\ Calling(x, p) /\ ~CallFailed(x, p)
  /\ missing(p) = {}
  /\ SetCookie(x, p, "depends")

Build(x, p) ==
  /\ Working(x, p, "build")
  /\ SetCookie(x, p, "build")

(* su-install-all without DESTDIR: acquire-install-localbase-lock,         *)
(* _flavor-check-installed, _flavor-register and the release.              *)
EnterLocalbase(x, p) ==
  /\ Working(x, p, "install") /\ p \in NoDestdir
  /\ "register" \notin made[x] /\ LOCALBASE \notin holds[x]
  /\ Acquire(x, LOCALBASE)
  /\ UNCHANGED makeVars

CheckInstalled(x, p) ==
  /\ Working(x, p, "install") /\ LOCALBASE \in holds[x]
  /\ "check" \notin made[x]
  /\ IF p \in installed
     THEN Fail(x)
     ELSE /\ Made(x, "check")
          /\ UNCHANGED <<lockVars, goal, section, cookies, installed, faults,
                         disturbed>>

Register(x, p) ==
  /\ Working(x, p, "install") /\ LOCALBASE \in holds[x]
  /\ "check" \in made[x] /\ "register" \notin made[x]
  /\ installed' = installed \cup {p}
  /\ Made(x, "register")
  /\ UNCHANGED <<lockVars, goal, section, cookies, faults, disturbed>>

LeaveLocalbase(x, p) ==
  /\ Working(x, p, "install") /\ LOCALBASE \in holds[x]
  /\ "register" \in made[x]
  /\ Release(x, LOCALBASE)
  /\ UNCHANGED makeVars

InstallCookie(x, p) ==
  /\ Working(x, p, "install") /\ LOCALBASE \notin holds[x]
  /\ p \in NoDestdir => "register" \in made[x]
  /\ SetCookie(x, p, "install")

Package(x, p) ==
  /\ Working(x, p, "package")
  /\ SetCookie(x, p, "package")

(* real-package-install: pkg_add, which does nothing if the package is     *)
(* there, under no lock; then the make ends.                               *)
AddPackage(x, p) ==
  /\ In(x, "add")
  /\ installed' = IF p \in NoDestdir THEN installed ELSE installed \cup {p}
  /\ Exit({x})
  /\ MoveTo(x, "done")
  /\ made' = [made EXCEPT ![x] = {}]
  /\ UNCHANGED <<goal, cookies, faults, disturbed>>

MakeStep(x, p) ==
  \/ EnterSection(x, p) \/ LoopStep(x) \/ LeaveSection(x, p) \/ Barrier(x, p)
  \/ CallMake(x, p) \/ MakeFailed(x, p) \/ Depends(x, p) \/ Build(x, p)
  \/ EnterLocalbase(x, p) \/ CheckInstalled(x, p) \/ Register(x, p)
  \/ LeaveLocalbase(x, p) \/ InstallCookie(x, p) \/ Package(x, p)
  \/ AddPackage(x, p)

-----------------------------------------------------------------------------
(* The users and the system *)

Makes(u) == {x \in Pid : x[1] = u /\ Alive(x)}

CallTop(u) == at[<<u, goal[u]>>] = "none" /\ Begin(<<u, goal[u]>>, goal[u])

UserStep(u) == CallTop(u) \/ \E x \in Makes(u) : MakeStep(x, x[2])

(* A make and those it has called are killed; their lock files stay.       *)
KillMakes(u) ==
  /\ Makes(u) # {} /\ faults > 0
  /\ Exit(Makes(u))
  /\ section' = [x \in Pid |-> IF x \in Makes(u) THEN "failed" ELSE section[x]]
  /\ made' = [x \in Pid |-> IF x \in Makes(u) THEN {} ELSE made[x]]
  /\ faults' = faults - 1 /\ disturbed' = TRUE
  /\ UNCHANGED <<goal, cookies, installed>>

Restart ==
  /\ faults > 0
  /\ Reboot
  /\ section' = [x \in Pid |-> NULL]
  /\ made' = [x \in Pid |-> {}]
  /\ faults' = faults - 1 /\ disturbed' = TRUE
  /\ UNCHANGED <<goal, cookies, installed>>

Next == (\E u \in User : UserStep(u) \/ KillMakes(u)) \/ Restart

Spec == Init /\ [][Next]_vars

(* Every user's makes are scheduled, and the work of a section ends.       *)
FairSpec == Spec /\ \A u \in User : WF_vars(UserStep(u))

-----------------------------------------------------------------------------
(* Properties *)

(* Whatever is killed, and whatever pids are used again after a start of   *)
(* the system, no make waits for ever for a lock nobody holds: all end.    *)
MakesEnd == <>[](\A x \in Pid : ~Alive(x))

AllEnded == \A u \in User : section[<<u, goal[u]>>] \in Ended

(* "sleep": however many makes want the same packages, and although each   *)
(* fails where another was faster, one of them gets what it wants, unless  *)
(* one is killed or finds a lock file gone: a file released between        *)
(* [ -f ] and find, or between shlock and cat, ends a waiting make under   *)
(* set -e, although mk.conf says that it sleeps and tries again.           *)
OneSucceeds ==
  locktype = "sleep" /\ AllEnded /\ ~disturbed /\ raced = {} =>
    \E u \in User : /\ section[<<u, goal[u]>>] = "done"
                    /\ goal[u] \in installed
=============================================================================
