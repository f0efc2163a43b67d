------------------------- MODULE MakeInstall_proofs -------------------------
(***************************************************************************)
(* The locks are exclusive as long as no lock file is removed that is not  *)
(* the one looked at: for any number of processes and locks, with          *)
(* processes that die at any moment and the system started anew.           *)
(*                                                                         *)
(* The makes use the locks as Shlock describes, whatever the packages,     *)
(* their dependencies and the users' goals: what is proved of the locks    *)
(* holds for them.  And in "sleep" mode one user gets what he wants: he    *)
(* who was the last to set a cookie, of whose makes none has failed or     *)
(* will.                                                                   *)
(***************************************************************************)
EXTENDS MakeInstall, TLAPS

LEMMA InitInv == LockInit => IInv
BY NullAssumption DEF LockInit, IInv, LockTypeOK, LockExclusive, OnlyLiveHold,
   NewFilesOfStarted, NoOldFilePastTest, JudgedStaysDead, Alive, InLoop

LEMMA FileNotNull ==
  ASSUME NEW x \in Pid
  PROVE  [pid |-> x, old |-> FALSE] # NULL
<1>1. [pid |-> x, old |-> FALSE] \in [pid : Pid, old : BOOLEAN]
  OBVIOUS
<1> QED
  BY <1>1, NullAssumption

-----------------------------------------------------------------------------
(* Every action keeps the invariant: one step per conjunct *)

LEMMA AcquireInv ==
  ASSUME IInv, NEW x \in Pid, NEW l \in Lock, Acquire(x, l)
  PROVE  IInv'
<1> USE DEF IInv
<1>1. LockTypeOK'
  BY NullAssumption DEF Acquire, Goto, LockTypeOK, InLoop
<1>2. LockExclusive'
  BY DEF Acquire, LockExclusive
<1>3. OnlyLiveHold'
  BY DEF Acquire, Goto, OnlyLiveHold, Alive
<1>4. NewFilesOfStarted'
  BY DEF Acquire, Goto, NewFilesOfStarted
<1>5. NoOldFilePastTest'
  BY DEF Acquire, Goto, NoOldFilePastTest
<1>6. JudgedStaysDead'
  BY DEF Acquire, Goto, JudgedStaysDead
<1> QED
  BY <1>1, <1>2, <1>3, <1>4, <1>5, <1>6

LEMMA TestInv ==
  ASSUME IInv, NEW x \in Pid, Test(x)
  PROVE  IInv'
<1> USE DEF IInv
<1>1. LockTypeOK'
  BY DEF Test, Goto, LockTypeOK, InLoop
<1>2. LockExclusive'
  BY DEF Test, LockExclusive
<1>3. OnlyLiveHold'
  BY DEF Test, Goto, OnlyLiveHold, Alive
<1>4. NewFilesOfStarted'
  BY DEF Test, Goto, NewFilesOfStarted
<1>5. NoOldFilePastTest'
  BY DEF Test, Goto, LockTypeOK, NoOldFilePastTest
<1>6. JudgedStaysDead'
  BY DEF Test, Goto, JudgedStaysDead
<1> QED
  BY <1>1, <1>2, <1>3, <1>4, <1>5, <1>6

LEMMA RemoveInv ==
  ASSUME IInv, NEW x \in Pid, Remove(x)
  PROVE  IInv'
<1> USE DEF IInv
<1>1. LockTypeOK'
  <2>1. file' \in [Lock -> File \cup {NULL}]
    BY DEF Remove, LockTypeOK
  <2> QED
    BY <2>1 DEF Remove, Goto, LockTypeOK, InLoop
<1>2. LockExclusive'
  <2> SUFFICES ASSUME NEW m \in Lock \ raced', NEW y \in Pid, m \in holds'[y]
               PROVE  file'[m] = [pid |-> y, old |-> FALSE]
    BY DEF LockExclusive
  <2>1. m \in Lock \ raced /\ m \in holds[y]
    BY DEF Remove
  <2>2. file[m] = [pid |-> y, old |-> FALSE]
    BY <2>1 DEF LockExclusive
  <2>3. file[m] # NULL /\ ~file[m].old
    <3>1. file[m] # NULL
      BY <2>2, FileNotNull
    <3>2. ~file[m].old
      BY <2>2
    <3> QED
      BY <3>1, <3>2
  <2>4. m # want[x]
    BY <2>1, <2>3 DEF Remove
  <2> QED
    BY <2>2, <2>4 DEF Remove, LockTypeOK
<1>3. OnlyLiveHold'
  BY DEF Remove, Goto, OnlyLiveHold, Alive
<1>4. NewFilesOfStarted'
  BY DEF Remove, Goto, NewFilesOfStarted
<1>5. NoOldFilePastTest'
  BY DEF Remove, Goto, LockTypeOK, NoOldFilePastTest
<1>6. JudgedStaysDead'
  BY DEF Remove, Goto, JudgedStaysDead
<1> QED
  BY <1>1, <1>2, <1>3, <1>4, <1>5, <1>6

LEMMA GrantedInv ==
  ASSUME IInv, NEW x \in Pid, Granted(x)
  PROVE  IInv'
<1> USE DEF IInv
<1>1. LockTypeOK'
  <2>1. file' \in [Lock -> File \cup {NULL}]
    BY DEF Granted, LockTypeOK, File
  <2>2. holds' \in [Pid -> SUBSET Lock]
    BY DEF Granted, LockTypeOK
  <2> QED
    BY <2>1, <2>2 DEF Granted, Goto, LockTypeOK, InLoop
<1>2. LockExclusive'
  <2> SUFFICES ASSUME NEW m \in Lock \ raced', NEW y \in Pid, m \in holds'[y]
               PROVE  file'[m] = [pid |-> y, old |-> FALSE]
    BY DEF LockExclusive
  <2>1. CASE m \in holds[y]
    <3>1. file[m] = [pid |-> y, old |-> FALSE]
      BY <2>1 DEF LockExclusive, Granted
    <3>2. m # want[x]
      BY <3>1, FileNotNull DEF Granted
    <3> QED
      BY <3>1, <3>2 DEF Granted, LockTypeOK
  <2>2. CASE m \notin holds[y]
    BY <2>2 DEF Granted, LockTypeOK
  <2> QED
    BY <2>1, <2>2
<1>3. OnlyLiveHold'
  BY DEF Granted, Goto, OnlyLiveHold, Alive
<1>4. NewFilesOfStarted'
  BY DEF Granted, Goto, NewFilesOfStarted
<1>5. NoOldFilePastTest'
  BY DEF Granted, Goto, LockTypeOK, NoOldFilePastTest
<1>6. JudgedStaysDead'
  BY DEF Granted, Goto, JudgedStaysDead
<1> QED
  BY <1>1, <1>2, <1>3, <1>4, <1>5, <1>6

LEMMA ExistsInv ==
  ASSUME IInv, NEW x \in Pid, Exists(x)
  PROVE  IInv'
<1> USE DEF IInv
<1>1. LockTypeOK'
  BY DEF Exists, Goto, LockTypeOK, InLoop
<1>2. LockExclusive'
  BY DEF Exists, LockExclusive
<1>3. OnlyLiveHold'
  BY DEF Exists, Goto, OnlyLiveHold, Alive
<1>4. NewFilesOfStarted'
  BY DEF Exists, Goto, NewFilesOfStarted
<1>5. NoOldFilePastTest'
  BY DEF Exists, Goto, NoOldFilePastTest
<1>6. JudgedStaysDead'
  BY DEF Exists, Goto, JudgedStaysDead
<1> QED
  BY <1>1, <1>2, <1>3, <1>4, <1>5, <1>6

LEMMA ReadInv ==
  ASSUME IInv, NEW x \in Pid, Read(x)
  PROVE  IInv'
<1> USE DEF IInv
<1>1. LockTypeOK'
  <2>1. judged' \in [Pid -> Pid \cup {NULL}]
    BY DEF Read, LockTypeOK, File
  <2> QED
    BY NullAssumption, <2>1 DEF Read, Goto, LockTypeOK, File, InLoop
<1>2. LockExclusive'
  BY DEF Read, LockExclusive
<1>3. OnlyLiveHold'
  BY DEF Read, Goto, LockTypeOK, OnlyLiveHold, Alive
<1>4. NewFilesOfStarted'
  BY DEF Read, Goto, LockTypeOK, NewFilesOfStarted, File
<1>5. NoOldFilePastTest'
  BY DEF Read, Goto, LockTypeOK, NoOldFilePastTest
<1>6. JudgedStaysDead'
  BY DEF Read, Goto, LockTypeOK, NewFilesOfStarted, NoOldFilePastTest,
      JudgedStaysDead, File
<1> QED
  BY <1>1, <1>2, <1>3, <1>4, <1>5, <1>6

LEMMA KillInv ==
  ASSUME IInv, NEW x \in Pid, Kill(x)
  PROVE  IInv'
<1> USE DEF IInv
<1>1. LockTypeOK'
  BY DEF Kill, Goto, Forget, LockTypeOK, InLoop
<1>2. LockExclusive'
  BY DEF Kill, LockExclusive
<1>3. OnlyLiveHold'
  BY DEF Kill, Goto, LockTypeOK, OnlyLiveHold, Alive
<1>4. NewFilesOfStarted'
  BY DEF Kill, Goto, LockTypeOK, NewFilesOfStarted, File
<1>5. NoOldFilePastTest'
  BY DEF Kill, Goto, LockTypeOK, NoOldFilePastTest
<1>6. JudgedStaysDead'
  BY DEF Kill, Goto, Forget, LockTypeOK, JudgedStaysDead, Alive
<1> QED
  BY <1>1, <1>2, <1>3, <1>4, <1>5, <1>6

LEMMA UnlinkInv ==
  ASSUME IInv, NEW x \in Pid, Unlink(x)
  PROVE  IInv'
<1> USE DEF IInv
<1>1. LockTypeOK'
  <2>1. file' \in [Lock -> File \cup {NULL}]
    BY DEF Unlink, LockTypeOK
  <2> QED
    BY <2>1 DEF Unlink, Goto, Forget, LockTypeOK, InLoop
<1>2. LockExclusive'
  <2> SUFFICES ASSUME NEW m \in Lock \ raced', NEW y \in Pid, m \in holds'[y]
               PROVE  file'[m] = [pid |-> y, old |-> FALSE]
    BY DEF LockExclusive
  <2>1. m \in Lock \ raced /\ m \in holds[y]
    BY DEF Unlink
  <2>2. file[m] = [pid |-> y, old |-> FALSE]
    BY <2>1 DEF LockExclusive
  <2>3. y # judged[x]
    BY <2>1 DEF Unlink, JudgedStaysDead, OnlyLiveHold, Alive
  <2>4. CASE m = want[x]
    BY <2>1, <2>2, <2>3, <2>4, FileNotNull DEF Unlink
  <2> QED
    BY <2>2, <2>4 DEF Unlink, LockTypeOK
<1>3. OnlyLiveHold'
  BY DEF Unlink, Goto, LockTypeOK, OnlyLiveHold, Alive
<1>4. NewFilesOfStarted'
  BY DEF Unlink, Goto, LockTypeOK, NewFilesOfStarted, File
<1>5. NoOldFilePastTest'
  BY DEF Unlink, Goto, LockTypeOK, NoOldFilePastTest
<1>6. JudgedStaysDead'
  BY DEF Unlink, Goto, Forget, LockTypeOK, JudgedStaysDead
<1> QED
  BY <1>1, <1>2, <1>3, <1>4, <1>5, <1>6

LEMMA ExitInv ==
  ASSUME IInv, NEW K \in SUBSET Pid, Exit(K)
  PROVE  IInv'
<1> USE DEF IInv
<1>1. LockTypeOK'
  BY DEF Exit, Ends, LockTypeOK, InLoop
<1>2. LockExclusive'
  BY DEF Exit, Ends, LockExclusive
<1>3. OnlyLiveHold'
  BY DEF Exit, Ends, OnlyLiveHold, Alive
<1>4. NewFilesOfStarted'
  BY DEF Exit, Ends, LockTypeOK, NewFilesOfStarted, File
<1>5. NoOldFilePastTest'
  BY DEF Exit, Ends, NoOldFilePastTest
<1>6. JudgedStaysDead'
  BY DEF Exit, Ends, LockTypeOK, JudgedStaysDead
<1> QED
  BY <1>1, <1>2, <1>3, <1>4, <1>5, <1>6

LEMMA StartInv ==
  ASSUME IInv, NEW x \in Pid, Start(x)
  PROVE  IInv'
<1> USE DEF IInv
<1>1. LockTypeOK'
  BY DEF Start, Goto, LockTypeOK, InLoop
<1>2. LockExclusive'
  BY DEF Start, LockExclusive
<1>3. OnlyLiveHold'
  BY DEF Start, Goto, OnlyLiveHold, Alive
<1>4. NewFilesOfStarted'
  BY DEF Start, Goto, NewFilesOfStarted
<1>5. NoOldFilePastTest'
  BY DEF Start, Goto, NoOldFilePastTest
<1>6. JudgedStaysDead'
  BY DEF Start, Goto, JudgedStaysDead
<1> QED
  BY <1>1, <1>2, <1>3, <1>4, <1>5, <1>6

LEMMA ReleaseInv ==
  ASSUME IInv, NEW x \in Pid, NEW l \in Lock, Release(x, l)
  PROVE  IInv'
<1> USE DEF IInv
<1>1. LockTypeOK'
  <2>1. file' \in [Lock -> File \cup {NULL}]
    BY DEF Release, LockTypeOK
  <2>2. holds' \in [Pid -> SUBSET Lock]
    BY DEF Release, LockTypeOK
  <2> QED
    BY <2>2 DEF Release, LockTypeOK
<1>2. LockExclusive'
  <2> SUFFICES ASSUME NEW m \in Lock \ raced', NEW y \in Pid, m \in holds'[y]
               PROVE  file'[m] = [pid |-> y, old |-> FALSE]
    BY DEF LockExclusive
  <2>1. m \in Lock \ raced /\ m \in holds[y]
    BY DEF Release, LockTypeOK
  <2>2. file[m] = [pid |-> y, old |-> FALSE]
    BY <2>1 DEF LockExclusive
  <2>3. CASE m = l /\ y # x
    <3>1. l \in holds[x] /\ l \notin raced
      BY <2>1, <2>3 DEF Release
    <3>2. file[l] = [pid |-> x, old |-> FALSE]
      BY <3>1 DEF LockExclusive
    <3>3. file[l].pid = x /\ file[l].pid = y
      BY <3>2, <2>2, <2>3
    <3> QED
      BY <3>3, <2>3
  <2>4. CASE m = l /\ y = x
    BY <2>4 DEF Release, LockTypeOK
  <2> QED
    BY <2>2, <2>3, <2>4 DEF Release, LockTypeOK
<1>3. OnlyLiveHold'
  BY DEF Release, OnlyLiveHold, Alive
<1>4. NewFilesOfStarted'
  BY DEF Release, NewFilesOfStarted
<1>5. NoOldFilePastTest'
  BY DEF Release, NoOldFilePastTest
<1>6. JudgedStaysDead'
  BY DEF Release, JudgedStaysDead
<1> QED
  BY <1>1, <1>2, <1>3, <1>4, <1>5, <1>6

LEMMA RebootInv ==
  ASSUME IInv, Reboot
  PROVE  IInv'
<1> USE DEF IInv
<1>1. LockTypeOK'
  <2>1. file' \in [Lock -> File \cup {NULL}]
    BY DEF Reboot, LockTypeOK, File
  <2> QED
    BY <2>1 DEF Reboot, LockTypeOK, InLoop
<1>2. LockExclusive'
  BY DEF Reboot, LockExclusive
<1>3. OnlyLiveHold'
  BY DEF Reboot, OnlyLiveHold
<1>4. NewFilesOfStarted'
  BY DEF Reboot, NewFilesOfStarted
<1>5. NoOldFilePastTest'
  BY DEF Reboot, NoOldFilePastTest
<1>6. JudgedStaysDead'
  BY DEF Reboot, JudgedStaysDead
<1> QED
  BY <1>1, <1>2, <1>3, <1>4, <1>5, <1>6

LEMMA CatInv ==
  ASSUME IInv, NEW x \in Pid, Cat(x)
  PROVE  IInv'
<1>1. CASE Ends({x})
  BY <1>1, ExitInv DEF Cat, Exit, Alive
<1>2. CASE Goto(x, "test") /\ UNCHANGED <<want, judged, holds>>
  BY <1>2, NullAssumption DEF Cat, Goto, IInv, LockTypeOK, LockExclusive,
     OnlyLiveHold, NewFilesOfStarted, NoOldFilePastTest, JudgedStaysDead,
     Alive, InLoop
<1> QED
  BY <1>1, <1>2 DEF Cat

LEMMA FindInv ==
  ASSUME IInv, NEW x \in Pid, Find(x)
  PROVE  IInv'
<1>1. CASE file[want[x]] = NULL
  BY <1>1, ExitInv DEF Find, Exit, Alive
<1>2. CASE file[want[x]] # NULL
  <2> USE <1>2 DEF IInv, Find
  <2>1. LockTypeOK'
    BY DEF Goto, LockTypeOK, InLoop
  <2>2. LockExclusive'
    BY DEF LockExclusive
  <2>3. OnlyLiveHold'
    BY DEF Goto, LockTypeOK, OnlyLiveHold, Alive
  <2>4. NewFilesOfStarted'
    BY DEF Goto, LockTypeOK, NewFilesOfStarted, File
  <2>5. NoOldFilePastTest'
    BY DEF Goto, LockTypeOK, NoOldFilePastTest
  <2>6. JudgedStaysDead'
    BY DEF Goto, LockTypeOK, JudgedStaysDead
  <2> QED
    BY <2>1, <2>2, <2>3, <2>4, <2>5, <2>6
<1> QED
  BY <1>1, <1>2

LEMMA NextInv == IInv /\ [LockNext]_lockVars => IInv'
<1> SUFFICES ASSUME IInv, [LockNext]_lockVars
             PROVE  IInv'
  OBVIOUS
<1>1. ASSUME NEW x \in Pid, Loop(x)
      PROVE  IInv'
  BY <1>1, TestInv, RemoveInv, GrantedInv, ExistsInv, ReadInv, KillInv,
     UnlinkInv, CatInv, FindInv DEF Loop
<1>2. CASE UNCHANGED lockVars
  BY <1>2 DEF lockVars, IInv, LockTypeOK, LockExclusive, OnlyLiveHold,
     NewFilesOfStarted, NoOldFilePastTest, JudgedStaysDead, Alive
<1> QED
  BY <1>1, <1>2, StartInv, AcquireInv, ReleaseInv, ExitInv, RebootInv
     DEF LockNext

-----------------------------------------------------------------------------
(* No two processes hold one lock, and a holder's pid is in the file,      *)
(* unless a file was removed that was not the one looked at.               *)
THEOREM LocksExclusive == LockSpec => []LockExclusive
<1>1. IInv => LockExclusive
  BY DEF IInv
<1> QED
  BY <1>1, InitInv, NextInv, PTL DEF LockSpec

-----------------------------------------------------------------------------
(* The makes *)

(* Every action of a make is one step of the locks or leaves them alone.   *)
LEMMA MakeStepLocks ==
  ASSUME NEW x \in Pid, NEW p \in Pkg, MakeStep(x, p)
  PROVE  LockNext \/ UNCHANGED lockVars
<1>1. ASSUME NEW s, SetCookie(x, p, s)
      PROVE  LockNext \/ UNCHANGED lockVars
  BY <1>1 DEF SetCookie, Fail, LockNext
<1>2. CASE EnterSection(x, p)
  BY <1>2, LockAssumption DEF EnterSection, LockNext
<1>3. CASE LoopStep(x)
  BY <1>3 DEF LoopStep, LockNext
<1>4. CASE LeaveSection(x, p)
  BY <1>4, LockAssumption DEF LeaveSection, LockNext
<1>5. CASE Barrier(x, p)
  BY <1>5 DEF Barrier, lockVars
<1>6. CASE CallMake(x, p)
  <2>1. PICK d \in missing(p) : Begin(<<x[1], d>>, d)
    BY <1>6 DEF CallMake
  <2>2. <<x[1], d>> \in Pid
    BY PidAssumption, PkgAssumption DEF missing
  <2> QED
    BY <2>1, <2>2 DEF Begin, LockNext
<1>7. CASE MakeFailed(x, p)
  BY <1>7 DEF MakeFailed, Fail, LockNext
<1>8. CASE EnterLocalbase(x, p) \/ LeaveLocalbase(x, p)
  BY <1>8, LockAssumption DEF EnterLocalbase, LeaveLocalbase, LockNext
<1>9. CASE CheckInstalled(x, p) \/ Register(x, p)
  BY <1>9 DEF CheckInstalled, Register, Fail, LockNext
<1>10. CASE AddPackage(x, p)
  BY <1>10 DEF AddPackage, LockNext
<1> QED
  BY <1>1, <1>2, <1>3, <1>4, <1>5, <1>6, <1>7, <1>8, <1>9, <1>10
     DEF MakeStep, Depends, Build, InstallCookie, Package

(* Nobody changes what a user wants.                                       *)
GoalType == goal \in [User -> Pkg]

LEMMA GoalKept == GoalType /\ [Next]_vars => GoalType'
<1> SUFFICES ASSUME GoalType, [Next]_vars
             PROVE  goal' = goal
  BY DEF GoalType
<1> USE DEF Fail, SetCookie, Begin
<1>1. ASSUME NEW x, NEW p, MakeStep(x, p)
      PROVE  goal' = goal
  BY <1>1 DEF MakeStep, EnterSection, LoopStep, LeaveSection, Barrier,
     CallMake, MakeFailed, Depends, Build, EnterLocalbase, CheckInstalled,
     Register, LeaveLocalbase, InstallCookie, Package, AddPackage, makeVars
<1> QED
  BY <1>1 DEF Next, UserStep, CallTop, KillMakes, Restart, vars, makeVars

LEMMA NextLocks == GoalType /\ [Next]_vars => [LockNext]_lockVars
<1> SUFFICES ASSUME GoalType, [Next]_vars
             PROVE  LockNext \/ UNCHANGED lockVars
  OBVIOUS
<1>1. ASSUME NEW u \in User, CallTop(u)
      PROVE  LockNext
  <2>1. <<u, goal[u]>> \in Pid
    BY PidAssumption DEF GoalType
  <2> QED
    BY <1>1, <2>1 DEF CallTop, Begin, LockNext
<1>2. ASSUME NEW u \in User, NEW x \in Makes(u), MakeStep(x, x[2])
      PROVE  LockNext \/ UNCHANGED lockVars
  <2>1. x \in Pid /\ x[2] \in Pkg
    BY PidAssumption DEF Makes
  <2> QED
    BY <1>2, <2>1, MakeStepLocks
<1>3. ASSUME NEW u \in User, KillMakes(u)
      PROVE  LockNext
  BY <1>3 DEF KillMakes, Makes, LockNext
<1>4. CASE Restart
  BY <1>4 DEF Restart, LockNext
<1>5. CASE UNCHANGED vars
  BY <1>5 DEF vars
<1> QED
  BY <1>1, <1>2, <1>3, <1>4, <1>5 DEF Next, UserStep

(* What makes do with lock files is what Shlock allows: each step of the   *)
(* makes, a kill of several at once included, is one of the locks.         *)
THEOREM MakesKeepToLocks == Spec => LockSpec
<1>1. Init => LockInit /\ GoalType
  BY PkgAssumption DEF Init, GoalType
<1> QED
  BY <1>1, GoalKept, NextLocks, PTL DEF Spec, LockSpec

(* However many makes are called for however many packages, killed or cut  *)
(* off by a start of the system, no two work in one WRKDIR or in LOCALBASE *)
(* unless a lock file was removed that was not the one looked at.          *)
THEOREM MakesExclusive == Spec => []LockExclusive
BY MakesKeepToLocks, LocksExclusive, PTL

-----------------------------------------------------------------------------
(* Types *)

(* The loop moves only the process in it, and gives it what it wants.      *)
LEMMA LoopEffect ==
  ASSUME LockTypeOK, NEW x \in Pid, Loop(x)
  PROVE  /\ at[x] \in InLoop
         /\ \A y \in Pid : y # x => /\ at'[y] = at[y] /\ want'[y] = want[y]
                                    /\ holds'[y] = holds[y]
         /\ at'[x] \in InLoop \cup {"idle", "dead"}
         /\ want'[x] \in {want[x], NULL}
         /\ at'[x] # "dead" => /\ holds[x] \subseteq holds'[x]
                               /\ holds'[x] \subseteq holds[x] \cup {want[x]}
         /\ at'[x] = "dead" => /\ FileGone(x) \/ locktype # "sleep"
                               /\ holds'[x] = {}
         /\ locktype' = locktype /\ raced \subseteq raced'
<1> USE DEF LockTypeOK, InLoop, Goto, Forget
<1>1. CASE Test(x)
  BY <1>1 DEF Test
<1>2. CASE Remove(x)
  BY <1>2 DEF Remove
<1>3. CASE Granted(x)
  BY <1>3 DEF Granted
<1>4. CASE Exists(x)
  BY <1>4 DEF Exists
<1>5. CASE Read(x)
  BY <1>5 DEF Read
<1>6. CASE Kill(x)
  BY <1>6 DEF Kill
<1>7. CASE Unlink(x)
  BY <1>7 DEF Unlink
<1>8. CASE Cat(x)
  BY <1>8 DEF Cat, Ends, FileGone
<1>9. CASE Find(x)
  BY <1>9 DEF Find, Ends, FileGone
<1> QED
  BY <1>1, <1>2, <1>3, <1>4, <1>5, <1>6, <1>7, <1>8, <1>9 DEF Loop

(* A step of a make leaves the state of each well typed.                   *)
LEMMA MakeStepType ==
  ASSUME TypeOK, NEW x \in Pid, NEW p \in Pkg, Alive(x), MakeStep(x, p),
         LockTypeOK'
  PROVE  TypeOK'
<1> USE DEF TypeOK, Sections, Ended, CookieKinds
<1>a. ASSUME Fail(x)
      PROVE  TypeOK'
  BY <1>a, SectionAssumption DEF Fail, Exit, Ends, MoveTo, Alive
<1>b. ASSUME NEW s \in CookieKinds, SetCookie(x, p, s)
      PROVE  TypeOK'
  BY <1>a, <1>b DEF SetCookie, Made, lockVars, Alive
<1>c. ASSUME UNCHANGED makeVars, NEW l, Acquire(x, l) \/ Release(x, l)
      PROVE  TypeOK'
  BY <1>c DEF makeVars, Acquire, Release, Goto, LockTypeOK, Alive
<1>1. CASE EnterSection(x, p)
  BY <1>1, <1>c DEF EnterSection
<1>2. CASE LoopStep(x)
  BY <1>2, LoopEffect, SectionAssumption DEF LoopStep, MoveTo, InLoop, Alive
<1>3. CASE LeaveSection(x, p)
  BY <1>3, SectionAssumption DEF LeaveSection, MoveTo, Release, AfterBarrier,
     Alive
<1>4. CASE Barrier(x, p)
  BY <1>4, SectionAssumption DEF Barrier, MoveTo, In, AfterBarrier, Alive,
     lockVars
<1>5. CASE CallMake(x, p)
  <2>1. PICK d \in missing(p) : Begin(<<x[1], d>>, d)
    BY <1>5 DEF CallMake
  <2>2. <<x[1], d>> \in Pid /\ d \in Pkg
    BY PidAssumption, PkgAssumption DEF missing
  <2> QED
    BY <2>1, <2>2, SectionAssumption DEF Begin, Start, MoveTo, Goto, Alive,
       LockTypeOK
<1>6. CASE MakeFailed(x, p)
  BY <1>6, <1>a DEF MakeFailed
<1>7. CASE EnterLocalbase(x, p) \/ LeaveLocalbase(x, p)
  BY <1>7, <1>c DEF EnterLocalbase, LeaveLocalbase
<1>8. CASE CheckInstalled(x, p)
  BY <1>8, <1>a DEF CheckInstalled, Made, lockVars, Alive
<1>9. CASE Register(x, p)
  BY <1>9 DEF Register, Made, lockVars, Alive
<1>10. CASE AddPackage(x, p)
  BY <1>10, SectionAssumption DEF AddPackage, Exit, Ends, MoveTo, Alive
<1>11. CASE \/ Depends(x, p)
            \/ Build(x, p)
            \/ InstallCookie(x, p)
            \/ Package(x, p)
  BY <1>11, <1>b DEF Depends, Build, InstallCookie, Package
<1> QED
  BY <1>1, <1>2, <1>3, <1>4, <1>5, <1>6, <1>7, <1>8, <1>9, <1>10, <1>11
     DEF MakeStep

LEMMA TypeInv == TypeOK /\ IInv /\ [Next]_vars => TypeOK' /\ IInv'
<1> SUFFICES ASSUME TypeOK, IInv, [Next]_vars
             PROVE  TypeOK' /\ IInv'
  OBVIOUS
<1>0. IInv' /\ LockTypeOK'
  BY NextLocks, NextInv DEF TypeOK, GoalType, IInv
<1>1. ASSUME NEW u \in User, CallTop(u)
      PROVE  TypeOK'
  <2>1. <<u, goal[u]>> \in Pid /\ goal[u] \in Pkg
    BY PidAssumption DEF TypeOK
  <2> QED
    BY <1>0, <1>1, <2>1, SectionAssumption DEF CallTop, Begin, Start, MoveTo,
       Goto, Alive, TypeOK, LockTypeOK, Sections, Ended, CookieKinds
<1>2. ASSUME NEW u \in User, NEW x \in Makes(u), MakeStep(x, x[2])
      PROVE  TypeOK'
  <2>1. x \in Pid /\ x[2] \in Pkg /\ Alive(x)
    BY PidAssumption DEF Makes
  <2> QED
    BY <1>0, <1>2, <2>1, MakeStepType
<1>3. ASSUME NEW u \in User, KillMakes(u)
      PROVE  TypeOK'
  BY <1>0, <1>3, SectionAssumption, PkgAssumption
     DEF KillMakes, Exit, Ends, Alive, TypeOK,
     Sections, Ended
<1>4. CASE Restart
  BY <1>0, <1>4, SectionAssumption, PkgAssumption
     DEF Restart, Reboot, Alive, TypeOK,
     Sections, Ended
<1>5. CASE UNCHANGED vars
  BY <1>0, <1>5 DEF vars, makeVars, lockVars, Alive, TypeOK
<1> QED
  BY <1>0, <1>1, <1>2, <1>3, <1>4, <1>5 DEF Next, UserStep

LEMMA InitType == Init => TypeOK /\ IInv
<1> SUFFICES ASSUME Init
             PROVE  TypeOK /\ IInv
  OBVIOUS
<1>1. IInv
  BY InitInv DEF Init
<1> QED
  BY <1>1, PkgAssumption, SectionAssumption
     DEF Init, TypeOK, IInv, LockInit, Alive, Sections, Ended, CookieKinds

(* Every make is in a section exactly while its process lives, and knows   *)
(* only targets there are.                                                 *)
THEOREM TypeCorrect == Spec => []TypeOK
BY InitType, TypeInv, PTL DEF Spec

-----------------------------------------------------------------------------
(* What cookies, targets and sections tell *)

(* Nothing has ended a make but the makes themselves, and no lock file was *)
(* taken for another.                                                      *)
Undisturbed == locktype = "sleep" /\ ~disturbed /\ raced = {}

InOrder(c) ==
  /\ "package" \in c => "install" \in c
  /\ "install" \in c => "build" \in c
  /\ "build" \in c => "depends" \in c

CookiesTell ==
  \A p \in Pkg :
    /\ InOrder(cookies[p])
    /\ "depends" \in cookies[p] => Deps[p] \subseteq installed
    /\ "install" \in cookies[p] /\ p \in NoDestdir => p \in installed

MadeTells ==
  \A x \in Pid :
    /\ InOrder(made[x])
    /\ made[x] \cap CookieKinds \subseteq cookies[x[2]]
    /\ "register" \in made[x] => "check" \in made[x] /\ x[2] \in installed

SectionTells ==
  \A x \in Pid :
    /\ section[x] \in {"barrier", "build"} => "depends" \in made[x]
    /\ section[x] = "install" => "build" \in made[x]
    /\ section[x] = "package" => "install" \in made[x]
    /\ section[x] = "add" => "package" \in made[x]
    /\ section[x] = "done" => x[2] \in installed
    /\ LOCALBASE \in holds[x] \/ want[x] = LOCALBASE => x[2] \in NoDestdir

(* A package is registered from LOCALBASE by a make that has not set the   *)
(* cookie yet and keeps the WRKDIR locked until it has.                    *)
Registering(x) ==
  /\ Alive(x) /\ x[2] \in holds[x]
  /\ section[x] = "install" /\ "register" \in made[x]

RegisteredOnce ==
  \A p \in NoDestdir \cap installed :
    "install" \in cookies[p] \/ \E x \in Pid : x[2] = p /\ Registering(x)

Told == CookiesTell /\ MadeTells /\ SectionTells /\ RegisteredOnce

LEMMA PidParts ==
  \A x \in Pid : x[1] \in User /\ x[2] \in Pkg /\ x = <<x[1], x[2]>>
BY PidAssumption

LEMMA FailTold ==
  ASSUME TypeOK, Told, NEW x \in Pid, Fail(x),
         Registering(x) => "install" \in cookies[x[2]]
  PROVE  Told'
<1> USE DEF Fail, Exit, Ends, MoveTo
<1>1. CookiesTell'
  BY DEF Told, CookiesTell, InOrder
<1>2. MadeTells'
  BY DEF TypeOK, Told, MadeTells, InOrder
<1>3. SectionTells'
  BY LockAssumption, NullAssumption DEF TypeOK, Told, SectionTells
<1>4. RegisteredOnce'
  BY DEF TypeOK, LockTypeOK, Told, RegisteredOnce, Registering, Alive
<1> QED
  BY <1>1, <1>2, <1>3, <1>4 DEF Told

LEMMA SetCookieTold ==
  ASSUME TypeOK, Told, NEW x \in Pid, NEW s \in CookieKinds,
         Working(x, x[2], s), SetCookie(x, x[2], s),
         s = "depends" => missing(x[2]) = {},
         s = "install" /\ x[2] \in NoDestdir => "register" \in made[x]
  PROVE  Told'
<1>p. x[2] \in Pkg
  BY PidParts
<1>1. CASE s \in cookies[x[2]]
  <2>1. Registering(x) => s = "install"
    BY DEF Registering, Working, In
  <2> QED
    BY <1>1, <2>1, FailTold DEF SetCookie
<1>2. CASE s \notin cookies[x[2]]
  <2> USE <1>2 DEF SetCookie, Working, In
  <2>0. InOrder(cookies[x[2]] \cup {s}) /\ InOrder(made[x] \cup {s})
    BY <1>p DEF Told, MadeTells, CookiesTell, SectionTells, InOrder,
       CookieKinds
  <2>c. /\ cookies'[x[2]] = cookies[x[2]] \cup {s}
        /\ \A q \in Pkg : q # x[2] => cookies'[q] = cookies[q]
        /\ installed' = installed
    BY <1>p DEF TypeOK
  <2>m. /\ made'[x] = made[x] \cup {s}
        /\ \A y \in Pid : y # x => made'[y] = made[y]
    BY DEF TypeOK, Made
  <2>1. CookiesTell'
    <3> SUFFICES ASSUME NEW q \in Pkg
                 PROVE  /\ InOrder(cookies'[q])
                        /\ "depends" \in cookies'[q] =>
                             Deps[q] \subseteq installed
                        /\ /\ "install" \in cookies'[q]
                           /\ q \in NoDestdir
                           => q \in installed
      BY <2>c DEF CookiesTell, InOrder
    <3>1. CASE q = x[2]
      BY <2>0, <2>c, <3>1 DEF Told, CookiesTell, MadeTells, missing
    <3>2. CASE q # x[2]
      BY <2>c, <3>2 DEF Told, CookiesTell
    <3> QED
      BY <3>1, <3>2
  <2>2. MadeTells'
    <3> SUFFICES ASSUME NEW y \in Pid
                 PROVE  /\ InOrder(made'[y])
                        /\ made'[y] \cap CookieKinds \subseteq cookies'[y[2]]
                        /\ "register" \in made'[y] =>
                             "check" \in made'[y] /\ y[2] \in installed
      BY <2>c DEF MadeTells, InOrder
    <3>1. CASE y = x
      BY <2>0, <2>c, <2>m, <3>1 DEF Told, MadeTells, CookieKinds
    <3>2. CASE y # x
      BY <2>c, <2>m, <3>2, PidParts DEF Told, MadeTells
    <3> QED
      BY <3>1, <3>2
  <2>3. SectionTells'
    BY <1>p DEF TypeOK, Told, SectionTells, Made, lockVars
  <2>4. RegisteredOnce'
    BY <1>p
       DEF TypeOK, Told, RegisteredOnce, Registering, Made, lockVars, Alive
  <2> QED
    BY <2>1, <2>2, <2>3, <2>4 DEF Told
<1> QED
  BY <1>1, <1>2

LEMMA BeginTold ==
  ASSUME TypeOK, Told, NEW u \in User, NEW p \in Pkg, Begin(<<u, p>>, p)
  PROVE  Told'
<1>p. <<u, p>> \in Pid /\ ~Alive(<<u, p>>)
  BY PidAssumption DEF Begin, Start, Alive
<1> USE DEF Begin, Start, Goto, MoveTo
<1>1. CookiesTell'
  BY DEF Told, CookiesTell
<1>2. MadeTells'
  BY <1>p DEF TypeOK, Told, MadeTells, CookiesTell, CookieKinds
<1>3. SectionTells'
  BY <1>p DEF TypeOK, Told, SectionTells
<1>4. RegisteredOnce'
  BY <1>p DEF TypeOK, LockTypeOK, Told, RegisteredOnce, Registering, Alive
<1> QED
  BY <1>1, <1>2, <1>3, <1>4 DEF Told

LEMMA LocksTold ==
  ASSUME TypeOK, Told, NEW x \in Pid, NEW l \in Lock, UNCHANGED makeVars,
         l = LOCALBASE => x[2] \in NoDestdir,
         \/ Acquire(x, l)
         \/ Release(x, l) /\ l = LOCALBASE
  PROVE  Told'
<1> USE DEF makeVars, Acquire, Release, Goto
<1>1. CookiesTell' /\ MadeTells'
  BY DEF Told, CookiesTell, MadeTells
<1>2. SectionTells'
  BY DEF TypeOK, LockTypeOK, Told, SectionTells
<1>3. RegisteredOnce'
  BY PidParts, LockAssumption
     DEF TypeOK, LockTypeOK, Told, RegisteredOnce, Registering, Alive
<1> QED
  BY <1>1, <1>2, <1>3 DEF Told

LEMMA LeaveTold ==
  ASSUME TypeOK, Told, NEW x \in Pid, LeaveSection(x, x[2])
  PROVE  Told'
<1>p. x[2] \in Pkg /\ LOCALBASE # x[2]
  BY PidParts, LockAssumption
<1> USE DEF LeaveSection, Release, MoveTo
<1>1. CookiesTell' /\ MadeTells'
  BY DEF Told, CookiesTell, MadeTells
<1>2. SectionTells'
  <2>1. section[x] \in {"bootstrap"} \cup CookieKinds
    <3>1. /\ section[x] \in Sections
          /\ made[x] \subseteq CookieKinds \cup {"check", "register"}
      BY DEF TypeOK, Alive
    <3> QED
      BY <3>1 DEF Sections, CookieKinds
  <2>2. section'[x] \in
          {"depends", "barrier", "add", "package", "install", "build"}
    BY DEF TypeOK, AfterBarrier
  <2>3. section[x] \in CookieKinds => "depends" \in made[x]
    BY <2>1 DEF Told, SectionTells, MadeTells, InOrder, CookieKinds
  <2>4. /\ section'[x] \in {"barrier", "build"} => "depends" \in made[x]
        /\ section'[x] = "install" => "build" \in made[x]
        /\ section'[x] = "package" => "install" \in made[x]
        /\ section'[x] = "add" => "package" \in made[x]
    BY <2>1, <2>3 DEF TypeOK, AfterBarrier, CookieKinds
  <2>5. \A y \in Pid : y # x => /\ section'[y] = section[y]
                                /\ holds'[y] = holds[y]
    BY DEF TypeOK, LockTypeOK
  <2>6. holds'[x] \subseteq holds[x]
    BY DEF LockTypeOK, TypeOK
  <2> QED
    BY <2>2, <2>4, <2>5, <2>6 DEF Told, SectionTells
<1>3. RegisteredOnce'
  <2>1. Registering(x) => "install" \in cookies[x[2]]
    BY DEF Registering, Told, MadeTells, CookieKinds
  <2>2. \A y \in Pid : y # x /\ Registering(y) => Registering(y)'
    BY DEF Registering, TypeOK, LockTypeOK, Alive
  <2> QED
    BY <2>1, <2>2 DEF Told, RegisteredOnce
<1> QED
  BY <1>1, <1>2, <1>3 DEF Told

(* No step of a make hides a fault.                                        *)
LEMMA StepUndisturbed ==
  ASSUME TypeOK, NEW x \in Pid, MakeStep(x, x[2]), Undisturbed'
  PROVE  Undisturbed
<1> USE DEF Undisturbed
<1>f. ASSUME Fail(x)
      PROVE  Undisturbed
  BY <1>f DEF Fail, Exit
<1>1. CASE \/ EnterSection(x, x[2]) \/ EnterLocalbase(x, x[2])
           \/ LeaveLocalbase(x, x[2]) \/ LeaveSection(x, x[2])
  BY <1>1 DEF EnterSection, EnterLocalbase, LeaveLocalbase, LeaveSection,
     Acquire, Release, makeVars
<1>2. CASE LoopStep(x)
  BY <1>2, LoopEffect DEF LoopStep, TypeOK
<1>3. CASE Barrier(x, x[2]) \/ Register(x, x[2]) \/ AddPackage(x, x[2])
  BY <1>3 DEF Barrier, Register, AddPackage, Exit, lockVars
<1>4. CASE CallMake(x, x[2])
  BY <1>4 DEF CallMake, Begin, Start
<1>5. CASE MakeFailed(x, x[2]) \/ CheckInstalled(x, x[2])
  BY <1>5, <1>f DEF MakeFailed, CheckInstalled, lockVars
<1>6. CASE \/ Depends(x, x[2]) \/ Build(x, x[2]) \/ InstallCookie(x, x[2])
           \/ Package(x, x[2])
  BY <1>6, <1>f DEF Depends, Build, InstallCookie, Package, SetCookie, lockVars
<1> QED
  BY <1>1, <1>2, <1>3, <1>4, <1>5, <1>6 DEF MakeStep

LEMMA LoopTold ==
  ASSUME TypeOK, Told, NEW x \in Pid, LoopStep(x), Undisturbed, Undisturbed'
  PROVE  /\ Told'
         /\ Alive(x)'
         /\ UNCHANGED <<goal, section, made, cookies, installed>>
<1>l. /\ at[x] \in InLoop
      /\ \A y \in Pid : y # x => /\ at'[y] = at[y] /\ want'[y] = want[y]
                                 /\ holds'[y] = holds[y]
      /\ want'[x] \in {want[x], NULL}
      /\ at'[x] # "dead" => /\ holds[x] \subseteq holds'[x]
                            /\ holds'[x] \subseteq holds[x] \cup {want[x]}
      /\ at'[x] \in InLoop \cup {"idle", "dead"}
      /\ at'[x] = "dead" => FileGone(x)
  BY LoopEffect DEF LoopStep, TypeOK, Undisturbed
<1>1. at'[x] # "dead"
  BY <1>l DEF LoopStep, Undisturbed
<1>2. Alive(x)' /\ Alive(x)
  BY <1>1, <1>l DEF Alive, InLoop
<1>3. UNCHANGED <<goal, section, made, cookies, installed>>
  BY <1>1 DEF LoopStep
<1>4. CookiesTell' /\ MadeTells'
  BY <1>3 DEF Told, CookiesTell, MadeTells
<1>5. SectionTells'
  BY <1>1, <1>3, <1>l, LockAssumption, NullAssumption DEF Told, SectionTells
<1>6. RegisteredOnce'
  <2>1. \A y \in Pid : Registering(y) => Registering(y)'
    BY <1>1, <1>2, <1>3, <1>l DEF Registering, Alive
  <2> QED
    BY <2>1, <1>3 DEF Told, RegisteredOnce
<1> QED
  BY <1>2, <1>3, <1>4, <1>5, <1>6 DEF Told

LEMMA MakeStepTold ==
  ASSUME TypeOK, Told, NEW x \in Pid, Alive(x), MakeStep(x, x[2]),
         Undisturbed, Undisturbed'
  PROVE  Told'
<1>p. x[2] \in Pkg /\ x[2] \in Lock /\ x[2] # LOCALBASE /\ LOCALBASE \in Lock
  BY PidParts, LockAssumption
<1>1. CASE EnterSection(x, x[2])
  BY <1>1, <1>p, LocksTold DEF EnterSection
<1>2. CASE LoopStep(x)
  BY <1>2, LoopTold
<1>3. CASE LeaveSection(x, x[2])
  BY <1>3, LeaveTold
<1>4. CASE Barrier(x, x[2])
  <2> USE <1>4 DEF Barrier, In, MoveTo, lockVars
  <2>1. CookiesTell'
    BY DEF Told, CookiesTell
  <2>2. MadeTells'
    BY <1>p DEF TypeOK, Told, MadeTells, CookiesTell, CookieKinds
  <2>3. SectionTells'
    <3>1. "depends" \in cookies[x[2]]
      BY DEF Told, MadeTells, SectionTells, CookieKinds
    <3> QED
      BY <1>p, <3>1 DEF TypeOK, LockTypeOK, Told, SectionTells, AfterBarrier
  <2>4. RegisteredOnce'
    <3>1. \A y \in Pid : Registering(y) => Registering(y)'
      BY DEF Registering, TypeOK, Alive
    <3> QED
      BY <3>1 DEF Told, RegisteredOnce
  <2> QED
    BY <2>1, <2>2, <2>3, <2>4 DEF Told
<1>5. CASE CallMake(x, x[2])
  <2>1. PICK d \in missing(x[2]) : Begin(<<x[1], d>>, d)
    BY <1>5 DEF CallMake
  <2>2. x[1] \in User /\ d \in Pkg
    BY <1>p, PidParts, PkgAssumption DEF missing
  <2> QED
    BY <2>1, <2>2, BeginTold
<1>6. CASE MakeFailed(x, x[2])
  BY <1>6, FailTold DEF MakeFailed, Calling, Working, In, Registering
<1>7. CASE EnterLocalbase(x, x[2]) \/ LeaveLocalbase(x, x[2])
  BY <1>7, <1>p, LocksTold
     DEF EnterLocalbase, LeaveLocalbase, Told, SectionTells
<1>8. CASE CheckInstalled(x, x[2])
  <2>1. CASE x[2] \in installed
    BY <1>8, <2>1, FailTold
       DEF CheckInstalled, Registering, Told, MadeTells
  <2>2. CASE x[2] \notin installed
    <3> USE <1>8, <2>2 DEF CheckInstalled, Made, lockVars
    <3>1. CookiesTell'
      BY DEF Told, CookiesTell
    <3>2. MadeTells'
      BY DEF TypeOK, Told, MadeTells, InOrder, CookieKinds
    <3>3. SectionTells'
      BY DEF TypeOK, Told, SectionTells
    <3>4. RegisteredOnce'
      BY DEF TypeOK, Told, RegisteredOnce, Registering, Alive
    <3> QED
      BY <3>1, <3>2, <3>3, <3>4 DEF Told
  <2> QED
    BY <2>1, <2>2
<1>9. CASE Register(x, x[2])
  <2> USE <1>9 DEF Register, Working, In, Made, lockVars
  <2>1. CookiesTell'
    BY DEF Told, CookiesTell
  <2>2. MadeTells'
    BY DEF TypeOK, Told, MadeTells, InOrder, CookieKinds
  <2>3. SectionTells'
    BY DEF TypeOK, Told, SectionTells
  <2>4. RegisteredOnce'
    <3>1. Registering(x)'
      BY DEF Registering, TypeOK, Alive
    <3>2. \A y \in Pid : Registering(y) => Registering(y)'
      BY DEF Registering, TypeOK, Alive
    <3> QED
      BY <3>1, <3>2 DEF Told, RegisteredOnce
  <2> QED
    BY <2>1, <2>2, <2>3, <2>4 DEF Told
<1>10. CASE AddPackage(x, x[2])
  <2> USE <1>10 DEF AddPackage, In, Exit, Ends, MoveTo
  <2>0. /\ installed \subseteq installed'
        /\ installed' \cap NoDestdir = installed \cap NoDestdir
    OBVIOUS
  <2>1. CookiesTell'
    BY <2>0 DEF Told, CookiesTell
  <2>2. MadeTells'
    BY <2>0 DEF TypeOK, Told, MadeTells, InOrder
  <2>3. SectionTells'
    <3>1. x[2] \in installed'
      BY <1>p
         DEF Told, CookiesTell, MadeTells, SectionTells, CookieKinds, InOrder
    <3> QED
      BY <2>0, <3>1, LockAssumption, NullAssumption
         DEF TypeOK, Told, SectionTells
  <2>4. RegisteredOnce'
    BY <2>0 DEF TypeOK, LockTypeOK, Told, RegisteredOnce, Registering, Alive
  <2> QED
    BY <2>1, <2>2, <2>3, <2>4 DEF Told
<1>11. CASE Depends(x, x[2])
  BY <1>11, SetCookieTold DEF Depends, Calling, CookieKinds
<1>12. CASE Build(x, x[2]) \/ Package(x, x[2])
  BY <1>12, SetCookieTold DEF Build, Package, CookieKinds
<1>13. CASE InstallCookie(x, x[2])
  BY <1>13, SetCookieTold DEF InstallCookie, CookieKinds
<1> QED
  BY <1>1, <1>2, <1>3, <1>4, <1>5, <1>6, <1>7, <1>8, <1>9, <1>10, <1>11,
     <1>12, <1>13 DEF MakeStep

-----------------------------------------------------------------------------
(* The makes of one user *)

(* What a step of the make x leaves alone: every make but x and the one it *)
(* calls, which was not called before, and the cookies of other packages.  *)
LEMMA StepFrame ==
  ASSUME TypeOK, Told, NEW x \in Pid, MakeStep(x, x[2]),
         Undisturbed, Undisturbed'
  PROVE  /\ goal' = goal
         /\ \A y \in Pid :
              y # x /\ (Alive(y) \/ y[1] # x[1] \/ ~CallMake(x, x[2])) =>
                /\ at'[y] = at[y] /\ section'[y] = section[y]
                /\ made'[y] = made[y] /\ holds'[y] = holds[y]
<1> USE DEF TypeOK, LockTypeOK
<1>f. ASSUME Fail(x)
      PROVE  /\ goal' = goal
             /\ \A y \in Pid : y # x =>
                  /\ at'[y] = at[y] /\ section'[y] = section[y]
                  /\ made'[y] = made[y] /\ holds'[y] = holds[y]
  BY <1>f DEF Fail, Exit, Ends, MoveTo
<1>c. ASSUME NEW s, SetCookie(x, x[2], s)
      PROVE  /\ goal' = goal
             /\ \A y \in Pid : y # x =>
                  /\ at'[y] = at[y] /\ section'[y] = section[y]
                  /\ made'[y] = made[y] /\ holds'[y] = holds[y]
  BY <1>f, <1>c DEF SetCookie, Made, lockVars
<1>1. CASE EnterSection(x, x[2]) \/ EnterLocalbase(x, x[2])
  BY <1>1 DEF EnterSection, EnterLocalbase, Acquire, Goto, makeVars
<1>2. CASE LoopStep(x)
  BY <1>2, LoopTold, LoopEffect DEF LoopStep
<1>3. CASE LeaveSection(x, x[2])
  BY <1>3 DEF LeaveSection, Release, MoveTo
<1>4. CASE Barrier(x, x[2])
  BY <1>4 DEF Barrier, MoveTo, lockVars
<1>5. CASE CallMake(x, x[2])
  <2>1. PICK d \in missing(x[2]) : Begin(<<x[1], d>>, d)
    BY <1>5 DEF CallMake
  <2>2. <<x[1], d>> \in Pid /\ ~Alive(<<x[1], d>>) /\ <<x[1], d>>[1] = x[1]
    BY <2>1, PidAssumption, PidParts, PkgAssumption
       DEF missing, Begin, Start, Alive
  <2> QED
    BY <1>5, <2>1, <2>2 DEF Begin, Start, Goto, MoveTo
<1>6. CASE MakeFailed(x, x[2])
  BY <1>6, <1>f DEF MakeFailed
<1>7. CASE LeaveLocalbase(x, x[2])
  BY <1>7 DEF LeaveLocalbase, Release, makeVars
<1>8. CASE CheckInstalled(x, x[2])
  BY <1>8, <1>f DEF CheckInstalled, Made, lockVars
<1>9. CASE Register(x, x[2])
  BY <1>9 DEF Register, Made, lockVars
<1>10. CASE AddPackage(x, x[2])
  BY <1>10 DEF AddPackage, Exit, Ends, MoveTo
<1>11. CASE \/ Depends(x, x[2]) \/ Build(x, x[2]) \/ InstallCookie(x, x[2])
            \/ Package(x, x[2])
  BY <1>11, <1>c DEF Depends, Build, InstallCookie, Package
<1> QED
  BY <1>1, <1>2, <1>3, <1>4, <1>5, <1>6, <1>7, <1>8, <1>9, <1>10, <1>11
     DEF MakeStep

(* A cookie is set by the make in its section, which has the WRKDIR locked.*)
SetsCookie(x) ==
  /\ Working(x, x[2], section[x]) /\ section[x] \in CookieKinds
  /\ section[x] \notin cookies[x[2]]
  /\ SetCookie(x, x[2], section[x])
  /\ section[x] = "depends" => Calling(x, x[2]) /\ ~CallFailed(x, x[2])

LEMMA StepCookies ==
  ASSUME TypeOK, Told, NEW x \in Pid, MakeStep(x, x[2]),
         Undisturbed, Undisturbed'
  PROVE  UNCHANGED cookies \/ SetsCookie(x)
<1>f. ASSUME Fail(x)
      PROVE  UNCHANGED cookies
  BY <1>f DEF Fail
<1>c. ASSUME NEW s \in CookieKinds, SetCookie(x, x[2], s), Working(x, x[2], s),
             s = "depends" => Calling(x, x[2]) /\ ~CallFailed(x, x[2])
      PROVE  UNCHANGED cookies \/ SetsCookie(x)
  BY <1>f, <1>c DEF SetCookie, SetsCookie, Working, In
<1>1. CASE \/ EnterSection(x, x[2])
           \/ EnterLocalbase(x, x[2])
           \/ LeaveLocalbase(x, x[2])
  BY <1>1 DEF EnterSection, EnterLocalbase, LeaveLocalbase, makeVars
<1>2. CASE \/ LoopStep(x) \/ LeaveSection(x, x[2]) \/ Barrier(x, x[2])
           \/ CallMake(x, x[2]) \/ Register(x, x[2]) \/ AddPackage(x, x[2])
  BY <1>2
     DEF LoopStep, LeaveSection, Barrier, CallMake, Begin, Register, AddPackage
<1>3. CASE CheckInstalled(x, x[2]) \/ MakeFailed(x, x[2])
  BY <1>3, <1>f DEF CheckInstalled, MakeFailed
<1>4. CASE \/ Depends(x, x[2]) \/ Build(x, x[2]) \/ InstallCookie(x, x[2])
           \/ Package(x, x[2])
  BY <1>4, <1>c
     DEF Depends, Build, InstallCookie, Package, CookieKinds, Calling
<1> QED
  BY <1>1, <1>2, <1>3, <1>4 DEF MakeStep

(* A make that has called another.                                         *)
Waits(x) ==
  /\ Working(x, x[2], "depends")
  /\ "depends" \notin cookies[x[2]]

LEMMA KeepsWaiting ==
  ASSUME TypeOK, IInv, Told, NEW x \in Pid, MakeStep(x, x[2]),
         Undisturbed, Undisturbed', NEW y \in Pid, y # x, Waits(y)
  PROVE  Waits(y)'
<1>1. /\ at'[y] = at[y] /\ section'[y] = section[y]
      /\ made'[y] = made[y] /\ holds'[y] = holds[y]
  BY StepFrame DEF Waits, Working, In, Alive
<1>2. "depends" \notin cookies'[y[2]]
  <2> SUFFICES ASSUME SetsCookie(x), x[2] = y[2]
               PROVE  FALSE
    BY StepCookies, PidParts DEF Waits, SetsCookie, SetCookie, TypeOK, Fail
  <2>1. y[2] \in holds[x] /\ y[2] \in holds[y]
    BY DEF SetsCookie, Waits, Working
  <2>2. y[2] \in Lock \ raced
    BY PidParts, LockAssumption DEF Undisturbed
  <2>3. /\ file[y[2]] = [pid |-> x, old |-> FALSE]
        /\ file[y[2]] = [pid |-> y, old |-> FALSE]
    BY <2>1, <2>2 DEF IInv, LockExclusive
  <2> QED
    BY <2>3
<1> QED
  BY <1>1, <1>2 DEF Waits, Working, In

(* A make that has reached the dependencies goes on only when no make it   *)
(* has called runs.                                                        *)
LEMMA WorkingCalls ==
  ASSUME NEW x \in Pid, Working(x, x[2], "depends"), MakeStep(x, x[2])
  PROVE  /\ Calling(x, x[2])
         /\ CallMake(x, x[2]) \/ MakeFailed(x, x[2]) \/ Depends(x, x[2])
<1> USE DEF Working, In
<1>1. /\ ~EnterSection(x, x[2])
      /\ ~LoopStep(x)
      /\ ~LeaveSection(x, x[2])
      /\ ~Barrier(x, x[2])
  BY DEF EnterSection, LoopStep, LeaveSection, Barrier, Loop, Test, Find,
     Remove, Granted, Exists, Read, Kill, Unlink, Cat
<1>2. /\ ~Build(x, x[2])
      /\ ~EnterLocalbase(x, x[2])
      /\ ~CheckInstalled(x, x[2])
      /\ ~Register(x, x[2])
  BY DEF Build, EnterLocalbase, CheckInstalled, Register
<1>3. /\ ~LeaveLocalbase(x, x[2])
      /\ ~InstallCookie(x, x[2])
      /\ ~Package(x, x[2])
      /\ ~AddPackage(x, x[2])
  BY DEF LeaveLocalbase, InstallCookie, Package, AddPackage
<1> QED
  BY <1>1, <1>2, <1>3 DEF MakeStep, MakeFailed, CallMake, Depends

(* The makes of u that run, s[1] to s[n]: each has called the next.  When  *)
(* one of them has failed, the last is about to fail for it.               *)
Chain(u, n, s) ==
  /\ \A p \in Pkg : Alive(<<u, p>>) <=> \E i \in 1 .. n : s[i] = p
  /\ \A i, j \in 1 .. n : s[i] = s[j] => i = j
  /\ n > 0 => s[1] = goal[u]
  /\ \A i \in 1 .. n : i < n => s[i + 1] \in Deps[s[i]] /\ Waits(<<u, s[i]>>)
  /\ n > 0 /\ (\E p \in Pkg : section[<<u, p>>] = "failed") =>
       /\ Working(<<u, s[n]>>, s[n], "depends")
       /\ \E d \in Deps[s[n]] : section[<<u, d>>] = "failed"

Chained ==
  \A u \in User :
    /\ at[<<u, goal[u]>>] = "none" => \A p \in Pkg : at[<<u, p>>] = "none"
    /\ \E n \in Nat : \E s \in [1 .. n -> Pkg] : Chain(u, n, s)

LEMMA PairParts ==
  ASSUME NEW u \in User, NEW p \in Pkg
  PROVE  <<u, p>> \in Pid /\ <<u, p>>[1] = u /\ <<u, p>>[2] = p
BY PidAssumption

(* Only the last of the chain can go on.                                   *)
LEMMA ChainEnd ==
  ASSUME NEW u \in User, NEW n \in Nat, NEW s \in [1 .. n -> Pkg],
         Chain(u, n, s), NEW x \in Pid, x[1] = u, Alive(x), MakeStep(x, x[2])
  PROVE  n \in 1 .. n /\ x[2] = s[n]
<1>1. x[2] \in Pkg /\ x = <<u, x[2]>>
  BY PidParts
<1>2. PICK i \in 1 .. n : s[i] = x[2]
  BY <1>1 DEF Chain
<1>3. ASSUME i < n
      PROVE  FALSE
  <2>1. i + 1 \in 1 .. n /\ s[i + 1] \in Deps[x[2]] /\ Waits(x)
    BY <1>1, <1>2, <1>3 DEF Chain
  <2>2. s[i + 1] \in Pkg /\ Alive(<<u, s[i + 1]>>)
    BY <2>1 DEF Chain
  <2>3. Calling(x, x[2])
    BY <2>1, WorkingCalls DEF Waits
  <2> QED
    BY <2>1, <2>2, <2>3 DEF Calling
<1> QED
  BY <1>2, <1>3

LEMMA StepAlive ==
  ASSUME TypeOK, Told, NEW x \in Pid, Alive(x), MakeStep(x, x[2]),
         Undisturbed, Undisturbed'
  PROVE  /\ at'[x] # "none"
         /\ Alive(x)' \/ Fail(x) \/ AddPackage(x, x[2])
<1> USE DEF TypeOK, LockTypeOK
<1>f. ASSUME Fail(x)
      PROVE  at'[x] # "none"
  BY <1>f DEF Fail, Exit, Ends
<1>1. CASE EnterSection(x, x[2]) \/ EnterLocalbase(x, x[2])
  BY <1>1 DEF EnterSection, EnterLocalbase, Acquire, Goto, Alive
<1>2. CASE LoopStep(x)
  BY <1>2, LoopTold DEF Alive
<1>3. CASE LeaveSection(x, x[2]) \/ LeaveLocalbase(x, x[2])
  BY <1>3 DEF LeaveSection, LeaveLocalbase, Release, Alive
<1>4. CASE Barrier(x, x[2]) \/ Register(x, x[2])
  BY <1>4 DEF Barrier, Register, lockVars, Alive
<1>5. CASE CallMake(x, x[2])
  BY <1>5 DEF CallMake, Begin, Start, Goto, Alive
<1>6. CASE MakeFailed(x, x[2])
  BY <1>6, <1>f DEF MakeFailed
<1>8. CASE CheckInstalled(x, x[2])
  BY <1>8, <1>f DEF CheckInstalled, lockVars, Alive
<1>10. CASE AddPackage(x, x[2])
  BY <1>10 DEF AddPackage, Exit, Ends
<1>11. CASE \/ Depends(x, x[2]) \/ Build(x, x[2]) \/ InstallCookie(x, x[2])
            \/ Package(x, x[2])
  BY <1>11, <1>f DEF Depends, Build, InstallCookie, Package, SetCookie,
     lockVars, Alive
<1> QED
  BY <1>1, <1>2, <1>3, <1>4, <1>5, <1>6, <1>8, <1>10, <1>11 DEF MakeStep

LEMMA ChainOther ==
  ASSUME TypeOK, IInv, Told, NEW x \in Pid, MakeStep(x, x[2]),
         Undisturbed, Undisturbed', NEW w \in User, w # x[1],
         NEW n \in Nat, NEW s \in [1 .. n -> Pkg], Chain(w, n, s)
  PROVE  Chain(w, n, s)'
<1>1. \A p \in Pkg :
        /\ <<w, p>> \in Pid /\ <<w, p>> # x /\ <<w, p>>[1] # x[1]
  BY PairParts
<1>2. \A p \in Pkg :
        /\ at'[<<w, p>>] = at[<<w, p>>]
        /\ section'[<<w, p>>] = section[<<w, p>>]
        /\ made'[<<w, p>>] = made[<<w, p>>]
        /\ holds'[<<w, p>>] = holds[<<w, p>>]
  BY <1>1, StepFrame
<1>3. goal' = goal
  BY StepFrame
<1>4. \A p \in Pkg : Alive(<<w, p>>)' <=> Alive(<<w, p>>)
  BY <1>2 DEF Alive
<1>5. \A i \in 1 .. n : i < n => Waits(<<w, s[i]>>)'
  BY <1>1, KeepsWaiting DEF Chain
<1>8. n > 0 /\ (\E p \in Pkg : section'[<<w, p>>] = "failed") =>
        /\ Working(<<w, s[n]>>, s[n], "depends")'
        /\ \E d \in Deps[s[n]] : section'[<<w, d>>] = "failed"
  <2> SUFFICES ASSUME n > 0, NEW p \in Pkg, section'[<<w, p>>] = "failed"
               PROVE  /\ Working(<<w, s[n]>>, s[n], "depends")'
                      /\ \E d \in Deps[s[n]] : section'[<<w, d>>] = "failed"
    OBVIOUS
  <2>1. section[<<w, p>>] = "failed"
    BY <1>2
  <2>2. s[n] \in Pkg
    OBVIOUS
  <2>3. Working(<<w, s[n]>>, s[n], "depends")
    BY <2>1 DEF Chain
  <2>4. PICK d \in Deps[s[n]] : section[<<w, d>>] = "failed"
    BY <2>1 DEF Chain
  <2>5. d \in Pkg
    BY <2>2, PkgAssumption
  <2>6. Working(<<w, s[n]>>, s[n], "depends")'
    BY <1>2, <2>2, <2>3 DEF Working, In
  <2> QED
    BY <1>2, <2>4, <2>5, <2>6
<1> QED
  BY <1>3, <1>4, <1>5, <1>8 DEF Chain

(* The last make calls another: the chain grows.                           *)
LEMMA ChainGrows ==
  ASSUME TypeOK, IInv, Told, NEW u \in User, NEW p \in Pkg,
         Undisturbed, Undisturbed', CallMake(<<u, p>>, p),
         NEW n \in Nat, NEW s \in [1 .. n -> Pkg], Chain(u, n, s),
         n > 0, p = s[n]
  PROVE  \E t \in [1 .. n + 1 -> Pkg] : Chain(u, n + 1, t)'
<1> DEFINE x == <<u, p>>
<1>1. x \in Pid /\ x[1] = u /\ x[2] = p
  BY PairParts
<1>2. PICK d \in missing(p) : Begin(<<u, d>>, d)
  BY <1>1 DEF CallMake
<1>3. d \in Deps[p] /\ d \in Pkg /\ d \notin installed
  BY <1>2, PkgAssumption DEF missing
<1> DEFINE c == <<u, d>>
           t == [i \in 1 .. n + 1 |-> IF i = n + 1 THEN d ELSE s[i]]
<1>4. /\ c \in Pid /\ at[c] = "none" /\ at'[c] = "idle"
      /\ section'[c] = "bootstrap" /\ goal' = goal /\ cookies' = cookies
      /\ \A y \in Pid : y # c =>
           /\ at'[y] = at[y] /\ section'[y] = section[y]
           /\ made'[y] = made[y] /\ holds'[y] = holds[y]
  BY <1>2, <1>3, PairParts DEF Begin, Start, Goto, MoveTo, TypeOK, LockTypeOK
<1>5. \A q \in Pkg : Alive(<<u, q>>)' <=> q = d \/ Alive(<<u, q>>)
  BY <1>4, PairParts DEF Alive
<1>6. Working(x, p, "depends") /\ "depends" \notin cookies[p]
  BY <1>3 DEF CallMake, Calling, Told, CookiesTell
<1>7. ~Alive(c)
  BY <1>4 DEF Alive
<1>8. \A i \in 1 .. n : Waits(<<u, s[i]>>)'
  <2> SUFFICES ASSUME NEW i \in 1 .. n
               PROVE  Waits(<<u, s[i]>>)'
    OBVIOUS
  <2>1. Waits(<<u, s[i]>>)
    <3>1. CASE i = n
      BY <1>1, <1>6, <3>1 DEF Waits
    <3>2. CASE i < n
      BY <3>2 DEF Chain
    <3> QED
      BY <3>1, <3>2
  <2>2. <<u, s[i]>> \in Pid /\ <<u, s[i]>> # c
    BY <1>4, <2>1, PairParts DEF Waits, Working, In
  <2> QED
    BY <1>4, <2>1, <2>2 DEF Waits, Working, In
<1>9. \A q \in Pkg : section'[<<u, q>>] # "failed"
  <2> SUFFICES ASSUME NEW q \in Pkg, section'[<<u, q>>] = "failed"
               PROVE  FALSE
    OBVIOUS
  <2>1. section[<<u, q>>] = "failed"
    BY <1>4, PairParts
  <2>2. PICK e \in Deps[p] : section[<<u, e>>] = "failed"
    BY <2>1 DEF Chain
  <2> QED
    BY <1>1, <2>2 DEF CallMake, CallFailed
<1>10. t \in [1 .. n + 1 -> Pkg]
  BY <1>3
<1>11. \A q \in Pkg : Alive(<<u, q>>)' <=> \E i \in 1 .. n + 1 : t[i] = q
  <2>1. \A q \in Pkg : (\E i \in 1 .. n + 1 : t[i] = q)
                       <=> q = d \/ \E i \in 1 .. n : s[i] = q
    <3>1. n + 1 \in 1 .. n + 1 /\ t[n + 1] = d
      OBVIOUS
    <3>2. \A i \in 1 .. n : i \in 1 .. n + 1 /\ t[i] = s[i]
      OBVIOUS
    <3>3. \A i \in 1 .. n + 1 : i = n + 1 \/ i \in 1 .. n
      OBVIOUS
    <3> QED
      BY <3>1, <3>2, <3>3
  <2> QED
    BY <1>5, <2>1 DEF Chain
<1>12. \A i, j \in 1 .. n + 1 : t[i] = t[j] => i = j
  <2>1. \A i \in 1 .. n : s[i] # d
    BY <1>3, <1>7 DEF Chain
  <2> QED
    BY <2>1 DEF Chain
<1>13. t[1] = goal'[u]
  BY <1>4 DEF Chain
<1>14. \A i \in 1 .. n + 1 :
         i < n + 1 => t[i + 1] \in Deps[t[i]] /\ Waits(<<u, t[i]>>)'
  <2> SUFFICES ASSUME NEW i \in 1 .. n + 1, i < n + 1
               PROVE  t[i + 1] \in Deps[t[i]] /\ Waits(<<u, t[i]>>)'
    OBVIOUS
  <2>0. i \in 1 .. n
    OBVIOUS
  <2>1. t[i] = s[i]
    OBVIOUS
  <2>2. t[i + 1] \in Deps[s[i]]
    <3>1. CASE i = n
      BY <1>3, <3>1
    <3>2. CASE i < n
      <4>1. i + 1 \in 1 .. n + 1 /\ t[i + 1] = s[i + 1]
        BY <3>2
      <4>2. s[i + 1] \in Deps[s[i]]
        BY <2>0, <3>2 DEF Chain
      <4> QED
        BY <4>1, <4>2
    <3> QED
      BY <3>1, <3>2
  <2> QED
    BY <1>8, <2>0, <2>1, <2>2
<1> QED
  BY <1>9, <1>10, <1>11, <1>12, <1>13, <1>14 DEF Chain

(* The last make ends: the chain shrinks.                                  *)
LEMMA ChainShrinks ==
  ASSUME TypeOK, IInv, Told, NEW u \in User, NEW p \in Pkg,
         Undisturbed, Undisturbed', MakeStep(<<u, p>>, p),
         Fail(<<u, p>>) \/ AddPackage(<<u, p>>, p),
         NEW n \in Nat, NEW s \in [1 .. n -> Pkg], Chain(u, n, s),
         n > 0, p = s[n]
  PROVE  \E t \in [1 .. n - 1 -> Pkg] : Chain(u, n - 1, t)'
<1> DEFINE x == <<u, p>>
           t == [i \in 1 .. n - 1 |-> s[i]]
<1>1. x \in Pid /\ x[1] = u /\ x[2] = p
  BY PairParts
<1>2. /\ at'[x] = "dead" /\ goal' = goal
      /\ section'[x] = (IF Fail(x) THEN "failed" ELSE "done")
      /\ \A y \in Pid : y # x => at'[y] = at[y] /\ section'[y] = section[y]
  <2>1. CASE Fail(x)
    BY <1>1, <2>1 DEF Fail, Exit, Ends, MoveTo, TypeOK
  <2>2. CASE AddPackage(x, p) /\ ~Fail(x)
    BY <1>1, <2>2 DEF AddPackage, Exit, Ends, MoveTo, TypeOK
  <2> QED
    BY <2>1, <2>2
<1>3. /\ n - 1 \in Nat /\ n - 1 + 1 = n /\ n \in 1 .. n
      /\ \A i \in 1 .. n - 1 : i \in 1 .. n /\ i < n /\ t[i] = s[i]
      /\ \A i \in 1 .. n : i = n \/ i \in 1 .. n - 1
  OBVIOUS
<1>4. t \in [1 .. n - 1 -> Pkg]
  BY <1>3
<1>5. \A q \in Pkg : Alive(<<u, q>>)' <=> \E i \in 1 .. n - 1 : t[i] = q
  <2>1. \A q \in Pkg : Alive(<<u, q>>)' <=> q # p /\ Alive(<<u, q>>)
    BY <1>2, PairParts DEF Alive
  <2>2. \A i \in 1 .. n - 1 : s[i] # p
    BY <1>3 DEF Chain
  <2>3. \A q \in Pkg : q # p /\ (\E i \in 1 .. n : s[i] = q)
                       <=> \E i \in 1 .. n - 1 : t[i] = q
    BY <1>3, <2>2
  <2> QED
    BY <2>1, <2>3 DEF Chain
<1>6. \A i, j \in 1 .. n - 1 : t[i] = t[j] => i = j
  BY <1>3 DEF Chain
<1>7. n - 1 > 0 => t[1] = goal'[u]
  BY <1>2, <1>3 DEF Chain
<1>8. \A i \in 1 .. n - 1 : Waits(<<u, t[i]>>)'
  <2> SUFFICES ASSUME NEW i \in 1 .. n - 1
               PROVE  Waits(<<u, s[i]>>)'
    BY <1>3
  <2>1. Waits(<<u, s[i]>>)
    BY <1>3 DEF Chain
  <2>2. s[i] \in Pkg /\ s[i] # p
    BY <1>3 DEF Chain
  <2>3. <<u, s[i]>> \in Pid /\ <<u, s[i]>> # x
    BY <2>2, PairParts
  <2> QED
    BY <1>1, <2>1, <2>3, KeepsWaiting
<1>9. \A i \in 1 .. n - 1 : i < n - 1 => t[i + 1] \in Deps[t[i]]
  <2> SUFFICES ASSUME NEW i \in 1 .. n - 1, i < n - 1
               PROVE  t[i + 1] \in Deps[t[i]]
    OBVIOUS
  <2>1. i + 1 \in 1 .. n - 1
    OBVIOUS
  <2>2. s[i + 1] \in Deps[s[i]]
    BY <1>3 DEF Chain
  <2> QED
    BY <1>3, <2>1, <2>2
<1>10. ASSUME n - 1 > 0, NEW q \in Pkg, section'[<<u, q>>] = "failed"
       PROVE  /\ Working(<<u, t[n - 1]>>, t[n - 1], "depends")'
              /\ \E d \in Deps[t[n - 1]] : section'[<<u, d>>] = "failed"
  <2>0. n - 1 \in 1 .. n - 1 /\ t[n - 1] = s[n - 1] /\ s[n - 1] \in Pkg
    BY <1>3, <1>10
  <2>1. Working(<<u, t[n - 1]>>, t[n - 1], "depends")'
    BY <1>8, <2>0, PairParts DEF Waits, Working
  <2>2. Fail(x)
    <3> SUFFICES ASSUME ~Fail(x)
                 PROVE  FALSE
      OBVIOUS
    <3>1. section[<<u, q>>] = "failed"
      BY <1>2, <1>10, PairParts
    <3>2. In(x, "depends")
      BY <3>1 DEF Chain, Working
    <3> QED
      BY <3>2 DEF AddPackage, In
  <2>3. p \in Deps[s[n - 1]]
    <3>1. s[n - 1 + 1] \in Deps[s[n - 1]]
      BY <1>3, <2>0 DEF Chain
    <3> QED
      BY <1>3, <3>1
  <2> QED
    BY <1>2, <2>0, <2>1, <2>2, <2>3
<1> QED
  BY <1>4, <1>5, <1>6, <1>7, <1>8, <1>9, <1>10 DEF Chain

(* The last make does something else: the chain stays.                     *)
LEMMA ChainStays ==
  ASSUME TypeOK, TypeOK', IInv, Told, NEW u \in User, NEW p \in Pkg,
         Undisturbed, Undisturbed', MakeStep(<<u, p>>, p),
         ~CallMake(<<u, p>>, p), Alive(<<u, p>>), Alive(<<u, p>>)',
         NEW n \in Nat, NEW s \in [1 .. n -> Pkg], Chain(u, n, s),
         n > 0, p = s[n]
  PROVE  Chain(u, n, s)'
<1> DEFINE x == <<u, p>>
<1>1. x \in Pid /\ x[1] = u /\ x[2] = p
  BY PairParts
<1>2. /\ goal' = goal
      /\ \A y \in Pid : y # x => at'[y] = at[y] /\ section'[y] = section[y]
  BY <1>1, StepFrame
<1>3. section'[x] # "failed"
  BY <1>1 DEF TypeOK, Sections
<1>4. \A q \in Pkg : Alive(<<u, q>>)' <=> Alive(<<u, q>>)
  BY <1>2, PairParts DEF Alive
<1>5. \A i \in 1 .. n : i < n => Waits(<<u, s[i]>>)'
  <2> SUFFICES ASSUME NEW i \in 1 .. n, i < n
               PROVE  Waits(<<u, s[i]>>)'
    OBVIOUS
  <2>1. Waits(<<u, s[i]>>)
    BY DEF Chain
  <2>2. s[i] \in Pkg /\ s[i] # p
    BY DEF Chain
  <2>3. <<u, s[i]>> \in Pid /\ <<u, s[i]>> # x
    BY <2>2, PairParts
  <2> QED
    BY <1>1, <2>1, <2>3, KeepsWaiting
<1>6. ASSUME NEW q \in Pkg, section'[<<u, q>>] = "failed"
      PROVE  FALSE
  <2>1. section[<<u, q>>] = "failed"
    BY <1>2, <1>3, <1>6, PairParts
  <2>2. /\ Working(x, p, "depends")
        /\ \E d \in Deps[p] : section[<<u, d>>] = "failed"
    BY <2>1 DEF Chain
  <2>3. CallFailed(x, p)
    BY <1>1, <2>2 DEF CallFailed
  <2>4. MakeFailed(x, p)
    BY <1>1, <2>2, <2>3, WorkingCalls DEF Depends
  <2> QED
    BY <1>1, <2>4 DEF MakeFailed, Fail, Exit, Ends, Alive
<1> QED
  BY <1>2, <1>4, <1>5, <1>6 DEF Chain

(* A step of a make keeps the chains.                                      *)
LEMMA MakeStepChained ==
  ASSUME TypeOK, TypeOK', IInv, Told, Chained, NEW x \in Pid, Alive(x),
         MakeStep(x, x[2]), Undisturbed, Undisturbed'
  PROVE  Chained'
<1> SUFFICES ASSUME NEW w \in User
             PROVE  /\ at'[<<w, goal'[w]>>] = "none" =>
                         \A p \in Pkg : at'[<<w, p>>] = "none"
                    /\ \E n \in Nat : \E s \in [1 .. n -> Pkg] :
                         Chain(w, n, s)'
  BY DEF Chained
<1>1. PICK n \in Nat : \E s \in [1 .. n -> Pkg] : Chain(w, n, s)
  BY DEF Chained
<1>2. PICK s \in [1 .. n -> Pkg] : Chain(w, n, s)
  BY <1>1
<1>3. goal'[w] = goal[w] /\ goal[w] \in Pkg
  BY StepFrame DEF TypeOK
<1>4. CASE w # x[1]
  <2>1. \A p \in Pkg : at'[<<w, p>>] = at[<<w, p>>]
    BY <1>4, StepFrame, PairParts
  <2>2. Chain(w, n, s)'
    BY <1>2, <1>4, ChainOther
  <2> QED
    BY <1>3, <2>1, <2>2 DEF Chained
<1>5. CASE w = x[1]
  <2>1. n \in 1 .. n /\ x[2] = s[n] /\ x[2] \in Pkg /\ x = <<w, x[2]>>
    BY <1>2, <1>5, ChainEnd, PidParts
  <2>2. at'[<<w, goal[w]>>] # "none"
    <3>1. 1 \in 1 .. n /\ s[1] = goal[w]
      BY <1>2, <2>1 DEF Chain
    <3>2. Alive(<<w, goal[w]>>)
      BY <1>2, <1>3, <3>1 DEF Chain
    <3> QED
      BY <1>3, <3>2, StepFrame, StepAlive, PairParts DEF Alive
  <2>3. CASE CallMake(x, x[2])
    <3>1. n > 0 /\ n + 1 \in Nat
      BY <2>1
    <3>2. CallMake(<<w, x[2]>>, x[2])
      BY <2>1, <2>3
    <3>3. \E t \in [1 .. n + 1 -> Pkg] : Chain(w, n + 1, t)'
      BY <1>2, <2>1, <3>1, <3>2, ChainGrows
    <3> QED
      BY <1>3, <2>2, <3>1, <3>3
  <2>4. CASE Fail(x) \/ AddPackage(x, x[2])
    <3>1. n > 0 /\ n - 1 \in Nat
      BY <2>1
    <3>2. /\ MakeStep(<<w, x[2]>>, x[2])
          /\ Fail(<<w, x[2]>>) \/ AddPackage(<<w, x[2]>>, x[2])
      BY <2>1, <2>4
    <3>3. \E t \in [1 .. n - 1 -> Pkg] : Chain(w, n - 1, t)'
      BY <1>2, <2>1, <3>1, <3>2, ChainShrinks
    <3> QED
      BY <1>3, <2>2, <3>1, <3>3
  <2>5. CASE ~CallMake(x, x[2]) /\ Alive(x)'
    <3>1. n > 0
      BY <2>1
    <3>2. /\ MakeStep(<<w, x[2]>>, x[2]) /\ ~CallMake(<<w, x[2]>>, x[2])
          /\ Alive(<<w, x[2]>>) /\ Alive(<<w, x[2]>>)'
      BY <2>1, <2>5
    <3>3. Chain(w, n, s)'
      BY <1>2, <2>1, <3>1, <3>2, ChainStays
    <3> QED
      BY <1>3, <2>2, <3>3
  <2> QED
    BY <2>3, <2>4, <2>5, StepAlive
<1> QED
  BY <1>4, <1>5

(* A user calls the first make.                                            *)
LEMMA CallTopChained ==
  ASSUME TypeOK, TypeOK', Chained, NEW u \in User, CallTop(u)
  PROVE  Chained'
<1> DEFINE x == <<u, goal[u]>>
<1>1. goal[u] \in Pkg /\ x \in Pid /\ at[x] = "none"
  BY PairParts DEF TypeOK, CallTop
<1>2. /\ at'[x] = "idle" /\ section'[x] = "bootstrap"
      /\ goal' = goal /\ cookies' = cookies
      /\ \A y \in Pid : y # x =>
           /\ at'[y] = at[y] /\ section'[y] = section[y]
           /\ made'[y] = made[y] /\ holds'[y] = holds[y]
  BY <1>1 DEF CallTop, Begin, Start, Goto, MoveTo, TypeOK, LockTypeOK
<1> SUFFICES ASSUME NEW w \in User
             PROVE  /\ at'[<<w, goal[w]>>] = "none" =>
                         \A p \in Pkg : at'[<<w, p>>] = "none"
                    /\ \E n \in Nat : \E s \in [1 .. n -> Pkg] :
                         Chain(w, n, s)'
  BY <1>2 DEF Chained
<1>3. CASE w = u
  <2>1. \A p \in Pkg : at[<<u, p>>] = "none"
    BY <1>1 DEF Chained
  <2>2. \A p \in Pkg : ~Alive(<<u, p>>) /\ section[<<u, p>>] = NULL
    BY <2>1, PairParts DEF Alive, TypeOK
  <2>3. PICK s \in [1 .. 1 -> Pkg] : s[1] = goal[u]
    <3> DEFINE one == [i \in 1 .. 1 |-> goal[u]]
    <3>1. one \in [1 .. 1 -> Pkg]
      BY <1>1
    <3>2. one[1] = goal[u]
      OBVIOUS
    <3> HIDE DEF one
    <3> QED
      BY <3>1, <3>2
  <2>4. \A p \in Pkg : Alive(<<u, p>>)' <=> p = goal[u]
    BY <1>1, <1>2, <2>2, PairParts DEF Alive
  <2>5. \A p \in Pkg : section'[<<u, p>>] # "failed"
    BY <1>1, <1>2, <2>2, PairParts, SectionAssumption DEF Ended
  <2>6. Chain(u, 1, s)'
    <3>1. \A i \in 1 .. 1 : i = 1
      OBVIOUS
    <3>2. \A p \in Pkg : Alive(<<u, p>>)' <=> \E i \in 1 .. 1 : s[i] = p
      BY <2>3, <2>4, <3>1
    <3>3. \A i, j \in 1 .. 1 : s[i] = s[j] => i = j
      BY <3>1
    <3>4. \A i \in 1 .. 1 : ~(i < 1)
      OBVIOUS
    <3> QED
      BY <1>2, <2>3, <2>5, <3>2, <3>3, <3>4 DEF Chain
  <2> QED
    BY <1>2, <1>3, <2>3, <2>6
<1>4. CASE w # u
  <2>1. PICK n \in Nat : \E s \in [1 .. n -> Pkg] : Chain(w, n, s)
    BY DEF Chained
  <2>2. PICK s \in [1 .. n -> Pkg] : Chain(w, n, s)
    BY <2>1
  <2>3. \A p \in Pkg :
          /\ at'[<<w, p>>] = at[<<w, p>>]
          /\ section'[<<w, p>>] = section[<<w, p>>]
          /\ made'[<<w, p>>] = made[<<w, p>>]
          /\ holds'[<<w, p>>] = holds[<<w, p>>]
          /\ Alive(<<w, p>>)' <=> Alive(<<w, p>>)
    BY <1>2, <1>4, PairParts DEF Alive
  <2>4. \A p \in Pkg :
          Working(<<w, p>>, p, "depends") => Working(<<w, p>>, p, "depends")'
    BY <2>3 DEF Working, In
  <2>5. \A p \in Pkg : Waits(<<w, p>>) => Waits(<<w, p>>)'
    BY <1>2, <2>4, PairParts DEF Waits
  <2>6. ASSUME n > 0, NEW q \in Pkg, section'[<<w, q>>] = "failed"
        PROVE  /\ Working(<<w, s[n]>>, s[n], "depends")'
               /\ \E d \in Deps[s[n]] : section'[<<w, d>>] = "failed"
    <3>1. section[<<w, q>>] = "failed" /\ n \in 1 .. n /\ s[n] \in Pkg
      BY <2>3, <2>6
    <3>2. Working(<<w, s[n]>>, s[n], "depends")
      BY <2>2, <2>6, <3>1 DEF Chain
    <3>3. PICK d \in Deps[s[n]] : section[<<w, d>>] = "failed"
      BY <2>2, <2>6, <3>1 DEF Chain
    <3>4. d \in Pkg
      BY <3>1, PkgAssumption
    <3> QED
      BY <2>3, <2>4, <3>1, <3>2, <3>3, <3>4
  <2>7. Chain(w, n, s)'
    BY <1>2, <2>2, <2>3, <2>5, <2>6 DEF Chain
  <2>8. goal[w] \in Pkg
    BY DEF TypeOK
  <2> QED
    BY <2>3, <2>7, <2>8 DEF Chained
<1> QED
  BY <1>3, <1>4

-----------------------------------------------------------------------------
(* Who gets what he wants *)

(* A make that has not failed and is not about to set a cookie that        *)
(* exists; a user leads whose makes are all of this kind.                  *)
Current(x) ==
  /\ section[x] # "failed"
  /\ /\ section[x] \in {"bootstrap", "depends", "barrier"}
     /\ "depends" \in cookies[x[2]]
     => "depends" \in made[x]
  /\ section[x] \in {"build", "install", "package", "add"} =>
       cookies[x[2]] \subseteq made[x]

Leads(u) == \A p \in Pkg : Current(<<u, p>>)

LEMMA CurrentKept ==
  ASSUME NEW y, Current(y), UNCHANGED cookies,
         section'[y] = section[y], made[y] \subseteq made'[y]
  PROVE  Current(y)'
BY DEF Current

(* Who sets a cookie leads: the makes above have seen that theirs is not   *)
(* set, and keep others from setting it.                                   *)
LEMMA SetterLeads ==
  ASSUME TypeOK, Told, Chained, NEW x \in Pid, Alive(x),
         MakeStep(x, x[2]), SetsCookie(x)
  PROVE  Leads(x[1])'
<1> DEFINE u == x[1]
           p == x[2]
           s == section[x]
<1>1. u \in User /\ p \in Pkg /\ x = <<u, p>>
  BY PidParts
<1>2. PICK n \in Nat : \E t \in [1 .. n -> Pkg] : Chain(u, n, t)
  BY <1>1 DEF Chained
<1>3. PICK t \in [1 .. n -> Pkg] : Chain(u, n, t)
  BY <1>2
<1>4. n \in 1 .. n /\ p = t[n]
  BY <1>1, <1>3, ChainEnd
<1>5. /\ cookies' = [cookies EXCEPT ![p] = @ \cup {s}]
      /\ made' = [made EXCEPT ![x] = @ \cup {s}]
      /\ section' = section
  BY DEF SetsCookie, SetCookie, Made
<1>6. \A q \in Pkg : section[<<u, q>>] # "failed"
  <2> SUFFICES ASSUME NEW q \in Pkg, section[<<u, q>>] = "failed"
               PROVE  FALSE
    OBVIOUS
  <2>0. n > 0
    BY <1>4
  <2>1. /\ Working(<<u, t[n]>>, t[n], "depends")
        /\ \E d \in Deps[t[n]] : section[<<u, d>>] = "failed"
    BY <1>3, <2>0 DEF Chain
  <2>2. <<u, t[n]>> = x /\ t[n] = p
    BY <1>1, <1>4
  <2> QED
    BY <2>1, <2>2 DEF SetsCookie, CallFailed, Working, In
<1> SUFFICES ASSUME NEW q \in Pkg
             PROVE  Current(<<u, q>>)'
  BY DEF Leads
<1>7. CASE q = p
  <2>1. /\ cookies'[p] = cookies[p] \cup {s} /\ made'[x] = made[x] \cup {s}
        /\ s \notin cookies[p] /\ s \in CookieKinds
    BY <1>1, <1>5 DEF TypeOK, SetsCookie
  <2>2. cookies[p] \subseteq CookieKinds
    BY <1>1 DEF TypeOK
  <2>3. s # "depends" => cookies[p] \subseteq made[x]
    <3>1. CASE s = "build"
      BY <1>1, <2>1, <2>2, <3>1 DEF Told, CookiesTell, SectionTells, InOrder,
         CookieKinds
    <3>2. CASE s = "install"
      BY <1>1, <2>1, <2>2, <3>2 DEF Told, CookiesTell, MadeTells, SectionTells,
         InOrder, CookieKinds
    <3>3. CASE s = "package"
      BY <1>1, <2>1, <2>2, <3>3 DEF Told, CookiesTell, MadeTells, SectionTells,
         InOrder, CookieKinds
    <3> QED
      BY <2>1, <3>1, <3>2, <3>3 DEF CookieKinds
  <2> QED
    BY <1>1, <1>5, <1>7, <2>1, <2>3 DEF Current, CookieKinds
<1>8. CASE q # p
  <2> DEFINE y == <<u, q>>
  <2>1. y \in Pid /\ y # x /\ y[2] = q
    BY <1>1, <1>8, PairParts
  <2>2. cookies'[q] = cookies[q] /\ made'[y] = made[y]
    BY <1>5, <1>8, <2>1 DEF TypeOK
  <2>3. Alive(y) => Waits(y)
    <3> SUFFICES ASSUME Alive(y)
                 PROVE  Waits(y)
      OBVIOUS
    <3>1. PICK i \in 1 .. n : t[i] = q
      BY <1>3 DEF Chain
    <3>2. i < n
      BY <1>4, <1>8, <3>1
    <3> QED
      BY <1>3, <3>1, <3>2 DEF Chain
  <2>4. section[y] \in Sections => /\ section[y] = "depends"
                                  /\ "depends" \notin cookies[q]
    BY <2>1, <2>3 DEF Waits, Working, In, TypeOK
  <2> QED
    BY <1>5, <1>6, <2>1, <2>2, <2>4 DEF Current, Sections
<1> QED
  BY <1>7, <1>8

(* A user who leads goes on leading while no other sets a cookie.          *)
LEMMA OtherLeads ==
  ASSUME TypeOK, Told, NEW x \in Pid, MakeStep(x, x[2]), UNCHANGED cookies,
         Undisturbed, Undisturbed', NEW v \in User, Leads(v), v # x[1]
  PROVE  Leads(v)'
<1> SUFFICES ASSUME NEW q \in Pkg
             PROVE  Current(<<v, q>>)'
  BY DEF Leads
<1>1. <<v, q>> \in Pid /\ <<v, q>> # x /\ <<v, q>>[1] # x[1]
  BY PairParts
<1>2. /\ section'[<<v, q>>] = section[<<v, q>>]
      /\ made'[<<v, q>>] = made[<<v, q>>]
  BY <1>1, StepFrame
<1> QED
  BY <1>2, CurrentKept DEF Leads

(* No make of a user who leads finds the work of another done.             *)
LEMMA NeverFails ==
  ASSUME TypeOK, IInv, Told, NEW x \in Pid, MakeStep(x, x[2]),
         UNCHANGED cookies, Undisturbed, Leads(x[1])
  PROVE  /\ ~MakeFailed(x, x[2])
         /\ CheckInstalled(x, x[2]) => x[2] \notin installed
         /\ ~Depends(x, x[2]) /\ ~Build(x, x[2]) /\ ~InstallCookie(x, x[2])
         /\ ~Package(x, x[2])
<1>1. x[1] \in User /\ x[2] \in Pkg /\ x = <<x[1], x[2]>> /\ Current(x)
  BY PidParts DEF Leads
<1>2. ~MakeFailed(x, x[2])
  <2> SUFFICES ASSUME NEW d \in Deps[x[2]],
                      \/ section[<<x[1], d>>] = "failed"
                      \/ section[<<x[1], d>>] = "done" /\ d \in missing(x[2])
               PROVE  FALSE
    BY DEF MakeFailed, CallFailed
  <2>1. d \in Pkg
    BY <1>1, PkgAssumption
  <2>2. section[<<x[1], d>>] # "failed"
    BY <2>1 DEF Leads, Current
  <2>3. section[<<x[1], d>>] = "done" => d \in installed
    BY <1>1, <2>1, PairParts DEF Told, SectionTells
  <2> QED
    BY <2>2, <2>3 DEF missing
<1>3. ASSUME CheckInstalled(x, x[2]), x[2] \in installed
      PROVE  FALSE
  <2>1. /\ section[x] = "install"
        /\ x[2] \in holds[x]
        /\ "install" \notin made[x]
        /\ "check" \notin made[x] /\ LOCALBASE \in holds[x]
    BY <1>3 DEF CheckInstalled, Working, In
  <2>2. "install" \notin cookies[x[2]]
    BY <1>1, <2>1 DEF Current
  <2>3. x[2] \in NoDestdir
    BY <2>1 DEF Told, SectionTells
  <2>4. PICK y \in Pid : y[2] = x[2] /\ Registering(y)
    BY <1>3, <2>2, <2>3 DEF Told, RegisteredOnce
  <2>5. x[2] \in Lock \ raced
    BY <1>1, LockAssumption DEF Undisturbed
  <2>6. /\ file[x[2]] = [pid |-> x, old |-> FALSE]
        /\ file[x[2]] = [pid |-> y, old |-> FALSE]
    BY <2>1, <2>4, <2>5 DEF IInv, LockExclusive, Registering
  <2>7. x = y
    BY <2>6
  <2> QED
    BY <2>1, <2>4, <2>7 DEF Registering, Told, MadeTells
<1>4. ASSUME NEW s \in CookieKinds, Working(x, x[2], s), SetCookie(x, x[2], s)
      PROVE  FALSE
  <2>1. s \in cookies[x[2]]
    BY <1>1, <1>4 DEF SetCookie, TypeOK
  <2> QED
    BY <1>1, <1>4, <2>1 DEF Current, Working, In, CookieKinds
<1> QED
  BY <1>2, <1>3, <1>4
     DEF Depends, Calling, Build, InstallCookie, Package, CookieKinds

LEMMA LeaderLeads ==
  ASSUME TypeOK, IInv, Told, NEW x \in Pid, Alive(x), MakeStep(x, x[2]),
         UNCHANGED cookies, Undisturbed, Undisturbed', Leads(x[1])
  PROVE  Leads(x[1])'
<1>1. x[1] \in User /\ x[2] \in Pkg /\ x = <<x[1], x[2]>> /\ Current(x)
  BY PidParts DEF Leads
<1> SUFFICES ASSUME NEW q \in Pkg
             PROVE  Current(<<x[1], q>>)'
  BY DEF Leads
<1> DEFINE y == <<x[1], q>>
<1>2. y \in Pid /\ y[2] = q /\ Current(y)
  BY <1>1, PairParts DEF Leads
<1>3. CASE CallMake(x, x[2])
  <2>1. PICK d \in missing(x[2]) : Begin(<<x[1], d>>, d)
    BY <1>3 DEF CallMake
  <2>2. d \in Pkg /\ <<x[1], d>> \in Pid /\ <<x[1], d>>[2] = d
    BY <1>1, PairParts, PkgAssumption DEF missing
  <2>3. CASE q = d
    BY <1>2, <2>1, <2>2, <2>3 DEF Begin, MoveTo, TypeOK, Current
  <2>4. CASE q # d
    BY <1>2, <2>1, <2>2, <2>4, CurrentKept DEF Begin, MoveTo, TypeOK
  <2> QED
    BY <2>3, <2>4
<1>4. CASE ~CallMake(x, x[2]) /\ y # x
  BY <1>2, <1>4, StepFrame, CurrentKept
<1>5. CASE ~CallMake(x, x[2]) /\ y = x
  <2>1. /\ ~MakeFailed(x, x[2])
        /\ CheckInstalled(x, x[2]) => x[2] \notin installed
        /\ ~Depends(x, x[2]) /\ ~Build(x, x[2]) /\ ~InstallCookie(x, x[2])
        /\ ~Package(x, x[2])
    BY NeverFails
  <2>2. CASE \/ EnterSection(x, x[2])
             \/ EnterLocalbase(x, x[2])
             \/ LeaveLocalbase(x, x[2])
    BY <1>2, <1>5, <2>2, CurrentKept
       DEF EnterSection, EnterLocalbase, LeaveLocalbase, makeVars
  <2>3. CASE LoopStep(x)
    BY <1>2, <1>5, <2>3, LoopTold, CurrentKept
  <2>4. CASE LeaveSection(x, x[2])
    <3>1. section[x] \in {"bootstrap"} \cup CookieKinds
      <4>1. /\ section[x] \in Sections
            /\ made[x] \subseteq CookieKinds \cup {"check", "register"}
        BY DEF TypeOK
      <4> QED
        BY <2>4, <4>1 DEF LeaveSection, Sections, CookieKinds
    <3>2. section'[x] =
            CASE section[x] = "bootstrap" ->
                   IF "depends" \in made[x] THEN "barrier" ELSE "depends"
              [] section[x] = "depends" -> "barrier"
              [] OTHER -> AfterBarrier(made[x])
      BY <2>4 DEF LeaveSection, MoveTo, TypeOK
    <3>3. made'[x] = made[x] /\ cookies' = cookies
      BY <2>4 DEF LeaveSection
    <3> QED
      BY <1>1, <1>5, <3>1, <3>2, <3>3 DEF Current, AfterBarrier, CookieKinds
  <2>5. CASE Barrier(x, x[2])
    <3>1. /\ section'[x] = AfterBarrier(cookies[x[2]])
          /\ made'[x] = cookies[x[2]]
          /\ cookies' = cookies
      BY <2>5 DEF Barrier, MoveTo, TypeOK
    <3> QED
      BY <1>5, <3>1 DEF Current, AfterBarrier
  <2>6. CASE CheckInstalled(x, x[2]) \/ Register(x, x[2])
    BY <1>2, <1>5, <2>1, <2>6, CurrentKept
       DEF CheckInstalled, Register, Made, TypeOK
  <2>7. CASE AddPackage(x, x[2])
    BY <1>5, <2>7 DEF AddPackage, MoveTo, TypeOK, Current
  <2> QED
    BY <1>5, <2>1, <2>2, <2>3, <2>4, <2>5, <2>6, <2>7 DEF MakeStep
<1> QED
  BY <1>3, <1>4, <1>5

OneLeads == \E u \in User : Leads(u)

LEMMA MakeStepLeads ==
  ASSUME TypeOK, IInv, Told, Chained, OneLeads, NEW x \in Pid, Alive(x),
         MakeStep(x, x[2]), Undisturbed, Undisturbed'
  PROVE  OneLeads'
<1>1. x[1] \in User
  BY PidParts
<1>2. CASE SetsCookie(x)
  BY <1>1, <1>2, SetterLeads DEF OneLeads
<1>3. CASE UNCHANGED cookies
  <2>1. PICK v \in User : Leads(v)
    BY DEF OneLeads
  <2>2. CASE v = x[1]
    BY <1>1, <1>3, <2>1, <2>2, LeaderLeads DEF OneLeads
  <2>3. CASE v # x[1]
    BY <1>3, <2>1, <2>3, OtherLeads DEF OneLeads
  <2> QED
    BY <2>2, <2>3
<1> QED
  BY <1>2, <1>3, StepCookies

LEMMA CallTopLeads ==
  ASSUME TypeOK, OneLeads, NEW u \in User, CallTop(u)
  PROVE  OneLeads'
<1>1. PICK v \in User : Leads(v)
  BY DEF OneLeads
<1> SUFFICES ASSUME NEW q \in Pkg
             PROVE  Current(<<v, q>>)'
  BY DEF OneLeads, Leads
<1>2. /\ goal[u] \in Pkg
      /\ <<u, goal[u]>> \in Pid
      /\ <<u, goal[u]>>[2] = goal[u]
      /\ <<v, q>> \in Pid /\ Current(<<v, q>>)
  BY <1>1, PairParts DEF TypeOK, Leads
<1>3. CASE <<v, q>> = <<u, goal[u]>>
  BY <1>2, <1>3 DEF CallTop, Begin, MoveTo, TypeOK, Current
<1>4. CASE <<v, q>> # <<u, goal[u]>>
  BY <1>2, <1>4, CurrentKept DEF CallTop, Begin, MoveTo, TypeOK
<1> QED
  BY <1>3, <1>4

-----------------------------------------------------------------------------
(* The invariant *)

MakeInv ==
  TypeOK /\ IInv /\ (Undisturbed => Told /\ Chained /\ OneLeads)

LEMMA InitMake == Init => MakeInv
<1> SUFFICES ASSUME Init
             PROVE  Told /\ Chained /\ OneLeads
  BY InitType DEF MakeInv
<1> USE DEF Init, LockInit
<1>1. Told
  BY PidParts, LockAssumption, NullAssumption, SectionAssumption
     DEF Told, CookiesTell, MadeTells, SectionTells, RegisteredOnce, InOrder,
         Sections, Ended
<1>2. Chained
  <2> SUFFICES ASSUME NEW u \in User
               PROVE  /\ \A p \in Pkg : at[<<u, p>>] = "none"
                      /\ \E n \in Nat : \E s \in [1 .. n -> Pkg] :
                           Chain(u, n, s)
    BY DEF Chained
  <2>1. \A p \in Pkg : at[<<u, p>>] = "none"
    BY PairParts
  <2>2. PICK s \in [1 .. 0 -> Pkg] : TRUE
    <3>1. 1 .. 0 = {}
      OBVIOUS
    <3>2. [i \in 1 .. 0 |-> i] \in [1 .. 0 -> Pkg]
      BY <3>1
    <3> QED
      BY <3>2
  <2>3. Chain(u, 0, s)
    <3>1. \A i \in 1 .. 0 : FALSE
      OBVIOUS
    <3> QED
      BY <2>1, <3>1 DEF Chain, Alive
  <2> QED
    BY <2>1, <2>3
<1>3. OneLeads
  BY PairParts, PkgAssumption, SectionAssumption
     DEF OneLeads, Leads, Current, Sections, Ended
<1> QED
  BY <1>1, <1>2, <1>3

LEMMA MakeInvKept == MakeInv /\ [Next]_vars => MakeInv'
<1> SUFFICES ASSUME MakeInv, [Next]_vars, Undisturbed'
             PROVE  Told' /\ Chained' /\ OneLeads'
  BY TypeInv DEF MakeInv
<1>t. TypeOK /\ IInv /\ TypeOK'
  BY TypeInv DEF MakeInv
<1>1. ASSUME NEW u \in User, CallTop(u)
      PROVE  Told' /\ Chained' /\ OneLeads'
  <2>1. Undisturbed
    BY <1>1 DEF CallTop, Begin, Start, Undisturbed
  <2>2. goal[u] \in Pkg
    BY <1>t DEF TypeOK
  <2> QED
    BY <1>1, <1>t, <2>1, <2>2, BeginTold, CallTopChained, CallTopLeads
       DEF MakeInv, CallTop
<1>2. ASSUME NEW u \in User, NEW x \in Makes(u), MakeStep(x, x[2])
      PROVE  Told' /\ Chained' /\ OneLeads'
  <2>1. x \in Pid /\ Alive(x)
    BY DEF Makes
  <2>2. Undisturbed
    BY <1>2, <1>t, <2>1, StepUndisturbed
  <2> QED
    BY <1>2, <1>t, <2>1, <2>2, MakeStepTold, MakeStepChained, MakeStepLeads
       DEF MakeInv
<1>3. ASSUME NEW u \in User, KillMakes(u)
      PROVE  FALSE
  BY <1>3 DEF KillMakes, Undisturbed
<1>4. ~Restart
  BY DEF Restart, Undisturbed
<1>5. CASE UNCHANGED vars
  <2>1. Told /\ Chained /\ OneLeads
    BY <1>5 DEF vars, lockVars, makeVars, Undisturbed, MakeInv
  <2>2. Told'
    BY <1>5, <2>1 DEF vars, lockVars, makeVars, Told, CookiesTell, MadeTells,
       SectionTells, RegisteredOnce, Registering, Alive
  <2>3. Chained'
    <3>1. /\ \A x : Alive(x)' <=> Alive(x)
          /\ \A x : Waits(x)' <=> Waits(x)
          /\ \A x, p : Working(x, p, "depends")' <=> Working(x, p, "depends")
          /\ goal' = goal /\ section' = section /\ at' = at
      BY <1>5 DEF vars, lockVars, makeVars, Waits, Working, In, Alive
    <3>2. \A u, n, s : Chain(u, n, s) => Chain(u, n, s)'
      BY <3>1 DEF Chain
    <3> QED
      BY <2>1, <3>1, <3>2 DEF Chained
  <2>4. OneLeads'
    BY <1>5, <2>1 DEF vars, lockVars, makeVars, OneLeads, Leads, Current
  <2> QED
    BY <2>2, <2>3, <2>4
<1> QED
  BY <1>1, <1>2, <1>3, <1>4, <1>5 DEF Next, UserStep

(* However many users want the same packages, and although each fails      *)
(* where another was faster: in "sleep" mode, when all have ended, one of  *)
(* them has what he wants, unless a make was killed or a lock file was     *)
(* removed that was not the one looked at.                                 *)
THEOREM OneAlwaysSucceeds == Spec => []OneSucceeds
<1>1. MakeInv => OneSucceeds
  <2> SUFFICES ASSUME MakeInv, Undisturbed, AllEnded
               PROVE  \E u \in User : /\ section[<<u, goal[u]>>] = "done"
                                      /\ goal[u] \in installed
    BY DEF OneSucceeds, Undisturbed
  <2>1. PICK u \in User : Leads(u)
    BY DEF MakeInv, OneLeads
  <2>2. goal[u] \in Pkg
    BY DEF MakeInv, TypeOK
  <2>3. section[<<u, goal[u]>>] = "done"
    BY <2>1, <2>2 DEF Leads, Current, AllEnded, Ended
  <2> QED
    BY <2>2, <2>3, PairParts DEF MakeInv, Told, SectionTells
<1> QED
  BY <1>1, InitMake, MakeInvKept, PTL DEF Spec
=============================================================================
