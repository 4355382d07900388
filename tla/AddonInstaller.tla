---------------------------- MODULE AddonInstaller ----------------------------
(***************************************************************************)
(* One add-on of ngdpbase.addons.install and the files its releases live   *)
(* in: src/src/utils/addonInstaller.ts, with the lock file of              *)
(* src/src/utils/addonLock.ts, unpacking as in                             *)
(* src/src/utils/addonTarball.ts, and the start and the admin's Update as  *)
(* src/src/managers/AddonsManager.ts calls them.  An action ends at a      *)
(* write to the disk; the process may stop between any two.  The lock file *)
(* and a tarball are written whole (writeFileAtomic), a rename happens or  *)
(* does not, the removal of a folder may stop half-way.  Releases are      *)
(* numbered; what a folder holds is the release it was unpacked from.      *)
(* The registry, the checks of a release (fetchVerified) and the audit     *)
(* record before an install may refuse any release; what passes them is    *)
(* good.                                                                   *)
(***************************************************************************)
EXTENDS Integers

CONSTANTS
  Releases,     \* what the registry may have
  Ranges,       \* the version ranges an administrator may configure
  MaxCrashes, MaxFailures, MaxDamages, MaxEdits, MaxUpdates   \* bounds

None == 0       \* no release, no folder
Torn == -1      \* a folder that is no release
Foreign == -2   \* a folder somebody put there

ASSUME ReleasesAssumption == Releases \subseteq Nat \ {0}
ASSUME RangesAssumption == Ranges \subseteq SUBSET Releases /\ Ranges # {}
ASSUME InstallerBoundsAssumption ==
  /\ MaxCrashes \in Nat /\ MaxFailures \in Nat /\ MaxDamages \in Nat
  /\ MaxEdits \in Nat /\ MaxUpdates \in Nat

VARIABLES
  lock,       \* the add-on's entry in addons-lock.json; all None when it has none
  tarballs,   \* the releases whose tarball is in .packages
  damaged,    \* the releases whose stored tarball was lost or changed (history)
  dir,        \* what <slug>/ holds
  prev,       \* what .previous-<slug>/ holds
  range,      \* the configured range
  pc,         \* where the process is
  settling,   \* the switch that is undone was made in this start
  target,     \* the release that is installed or staged
  olds,       \* the releases whose tarballs go once the lock is written
  tried,      \* what the load pass of this start did (history)
  running,    \* the release that was loaded
  excuse,     \* a reason for this start not to load the add-on (history)
  count       \* how often each bounded event happened

disk == <<lock, tarballs, dir, prev>>
rest == <<damaged, range, count>>
installerVars == <<disk, rest, pc, settling, target, olds, tried, running, excuse>>

NoLock == [version |-> None, pending |-> None, previous |-> None]

lockAnswers == lock.version # None /\ lock.version \in range

(* A step of the process, and one that only decides where it goes on. *)
Move(a, b) == pc = a /\ pc' = b
Quiet == UNCHANGED <<rest, settling, tried, running>>

-----------------------------------------------------------------------------
(* undoSwitch: the switch an earlier start did not confirm, or whose       *)
(* release did not load in this one.                                       *)

(* setAside, then the previous folder's rename, if there is one. *)
UndoAside == /\ Move("undoAside", "undoRename")
             /\ dir' = None
             /\ UNCHANGED <<lock, tarballs, prev, target, olds, excuse>> /\ Quiet

UndoRename == /\ Move("undoRename", "undoTarball")
              /\ dir' = prev /\ prev' = None
              /\ UNCHANGED <<lock, tarballs, target, olds, excuse>> /\ Quiet

(* The new release's tarball goes, best effort. *)
UndoTarball == /\ Move("undoTarball", "undoLock")
               /\ \/ lock.version # lock.previous /\ tarballs' = tarballs \ {lock.version}
                  \/ UNCHANGED tarballs
               /\ UNCHANGED <<lock, dir, prev, target, olds, excuse>> /\ Quiet

(* The previous release is the installed one again. *)
UndoLock == /\ Move("undoLock", IF settling THEN "up" ELSE "answer")
            /\ lock' = [version |-> lock.previous, pending |-> None, previous |-> None]
            /\ UNCHANGED <<tarballs, dir, prev, target, olds, excuse>> /\ Quiet

-----------------------------------------------------------------------------
(* installOne. *)

(* What the entry and the disk ask for. *)
Answer ==
  /\ pc = "answer"
  /\ \/ lockAnswers /\ lock.pending # None /\ pc' = "switch" /\ UNCHANGED <<target, excuse>>
     \/ lockAnswers /\ lock.pending = None /\ pc' = "verify" /\ UNCHANGED <<target, excuse>>
     \/ ~lockAnswers /\ lock.version = None /\ dir # None /\ pc' = "up" /\ excuse' = TRUE /\ UNCHANGED target
     \/ /\ ~lockAnswers /\ (lock.version = None => dir = None)
        /\ \/ pc' = "up" /\ excuse' = TRUE /\ UNCHANGED target
           \/ pc' = "inTarball" /\ target' \in range /\ UNCHANGED excuse
  /\ UNCHANGED <<disk, olds>> /\ Quiet

(* switchToPending: the staged release still answers, or it is discarded. *)
Switch ==
  /\ pc = "switch"
  /\ pc' = IF lock.pending \in range /\ lock.pending \in tarballs THEN "swClear" ELSE "discard"
  /\ UNCHANGED <<disk, target, olds, excuse>> /\ Quiet

SwitchClear == /\ Move("swClear", "swMove")
               /\ prev' = None
               /\ UNCHANGED <<lock, tarballs, dir, target, olds, excuse>> /\ Quiet

SwitchMove == /\ Move("swMove", "swUnpack")
              /\ IF dir # None THEN prev' = dir /\ dir' = None ELSE UNCHANGED <<dir, prev>>
              /\ UNCHANGED <<lock, tarballs, target, olds, excuse>> /\ Quiet

SwitchUnpack == /\ Move("swUnpack", "swLock")
                /\ dir' = lock.pending
                /\ UNCHANGED <<lock, tarballs, prev, target, olds, excuse>> /\ Quiet

SwitchLock == /\ Move("swLock", "loadNew")
              /\ lock' = [version |-> lock.pending, pending |-> None, previous |-> lock.version]
              /\ UNCHANGED <<tarballs, dir, prev, target, olds, excuse>> /\ Quiet

(* The switch could not be made: the folder goes back, if it had moved. *)
SwitchBack == /\ Move("swBack", "discard")
              /\ IF dir = None THEN dir' = prev /\ prev' = None ELSE UNCHANGED <<dir, prev>>
              /\ UNCHANGED <<lock, tarballs, target, olds, excuse>> /\ Quiet

(* discardPending: its tarball, best effort, then its field in the lock. *)
Discard == /\ Move("discard", "discardLock")
           /\ \/ lock.pending # lock.version /\ tarballs' = tarballs \ {lock.pending}
              \/ UNCHANGED tarballs
           /\ UNCHANGED <<lock, dir, prev, target, olds, excuse>> /\ Quiet

DiscardLock == /\ Move("discardLock", "verify")
               /\ lock' = [lock EXCEPT !.pending = None]
               /\ UNCHANGED <<tarballs, dir, prev, target, olds, excuse>> /\ Quiet

(* Mutant of Verify: a folder that is there is taken for its release. *)
VerifyPresence ==
  /\ pc = "verify"
  /\ IF lock.version \in tarballs
     THEN pc' = (IF dir # None THEN "load" ELSE "reClear") /\ UNCHANGED <<dir, excuse>>
     ELSE pc' = "up" /\ dir' = None /\ excuse' = (excuse \/ lock.version \in damaged)
  /\ UNCHANGED <<lock, tarballs, prev, target, olds>> /\ Quiet

(* useInstalled: the stored tarball, then the folder against it.  Without  *)
(* its tarball the folder is set aside and the add-on is not loaded.       *)
Verify ==
  /\ pc = "verify"
  /\ IF lock.version \in tarballs
     THEN pc' = (IF dir = lock.version THEN "load" ELSE "reClear") /\ UNCHANGED <<dir, excuse>>
     ELSE pc' = "up" /\ dir' = None /\ excuse' = (excuse \/ lock.version \in damaged)
  /\ UNCHANGED <<lock, tarballs, prev, target, olds>> /\ Quiet

(* unpackTarball: the old folder is removed, the new one takes its name. *)
RepairClear == /\ Move("reClear", "reMove")
               /\ dir' = None
               /\ UNCHANGED <<lock, tarballs, prev, target, olds, excuse>> /\ Quiet

RepairMove == /\ Move("reMove", "load")
              /\ dir' = lock.version
              /\ UNCHANGED <<lock, tarballs, prev, target, olds, excuse>> /\ Quiet

(* installFresh: the tarball, the folder, the lock; then what the lock no  *)
(* longer names goes, best effort.                                         *)
InstallTarball == /\ Move("inTarball", "inClear")
                  /\ tarballs' = tarballs \cup {target} /\ damaged' = damaged \ {target}
                  /\ UNCHANGED <<lock, dir, prev, range, count, settling, target, olds, tried, running, excuse>>

InstallClear == /\ Move("inClear", "inMove")
                /\ dir' = None
                /\ UNCHANGED <<lock, tarballs, prev, target, olds, excuse>> /\ Quiet

InstallMove == /\ Move("inMove", "inLock")
               /\ dir' = target
               /\ UNCHANGED <<lock, tarballs, prev, target, olds, excuse>> /\ Quiet

InstallLock == /\ Move("inLock", "inClean")
               /\ lock' = [version |-> target, pending |-> None, previous |-> None]
               /\ olds' = {lock.version, lock.pending} \ {None, target}
               /\ UNCHANGED <<tarballs, dir, prev, target, excuse>> /\ Quiet

InstallClean == /\ Move("inClean", "load")
                /\ \E gone \in SUBSET olds : tarballs' = tarballs \ gone
                /\ olds' = {} /\ target' = None
                /\ UNCHANGED <<lock, dir, prev, excuse>> /\ Quiet

-----------------------------------------------------------------------------
(* AddonsManager: the load pass, and settleUpdatedAddons after it. *)

(* Mutant of Load: a release that does not load is confirmed as well. *)
LoadConfirms ==
  /\ tried' \in {"loaded", "failed", "off"}
  /\ \/ pc = "load" /\ pc' = "up"
     \/ pc = "loadNew" /\ pc' = "confirm"
  /\ running' = IF tried' = "loaded" THEN dir ELSE None
  /\ UNCHANGED <<disk, rest, settling, target, olds, excuse>>

Load == /\ \/ pc = "load" /\ tried' \in {"loaded", "failed", "off"} /\ pc' = "up" /\ UNCHANGED settling
           \/ pc = "loadNew" /\ tried' \in {"loaded", "off"} /\ pc' = "confirm" /\ UNCHANGED settling
           \/ pc = "loadNew" /\ tried' = "failed" /\ pc' = "undoAside" /\ settling' = TRUE
        /\ running' = IF tried' = "loaded" THEN dir ELSE None
        /\ UNCHANGED <<disk, rest, target, olds, excuse>>

(* Mutant of ConfirmLock: the leftovers go before the lock is written. *)
ConfirmCleansFirst ==
  \/ /\ Move("confirm", "confirm") /\ lock.previous \in tarballs
     /\ tarballs' = tarballs \ {lock.previous}
     /\ UNCHANGED <<lock, dir, prev, target, olds, excuse>> /\ Quiet
  \/ /\ Move("confirm", "up") /\ lock.previous \notin tarballs
     /\ lock' = [lock EXCEPT !.previous = None]
     /\ UNCHANGED <<tarballs, dir, prev, target, olds, excuse>> /\ Quiet

(* confirmUpdate: first the lock, then the leftovers, best effort. *)
ConfirmLock == /\ Move("confirm", "confirmClean")
               /\ lock' = [lock EXCEPT !.previous = None]
               /\ olds' = {lock.previous} \ {lock.version}
               /\ UNCHANGED <<tarballs, dir, prev, target, excuse>> /\ Quiet

ConfirmClean == /\ Move("confirmClean", "up")
                /\ prev' \in {prev, None}
                /\ \E gone \in SUBSET olds : tarballs' = tarballs \ gone
                /\ olds' = {}
                /\ UNCHANGED <<lock, dir, target, excuse>> /\ Quiet

(* stageUpdate, one at a time (updateQueue): the release must be newer, in *)
(* the range, not staged already, and the last switch settled.             *)
Update ==
  /\ Move("up", "stTarball") /\ lockAnswers
  /\ count.updates < MaxUpdates /\ count' = [count EXCEPT !.updates = @ + 1]
  /\ \E v \in range : /\ v > lock.version /\ v # lock.pending /\ lock.previous = None
                      /\ target' = v
  /\ UNCHANGED <<disk, damaged, range, settling, olds, tried, running, excuse>>

StageTarball == /\ Move("stTarball", "stLock")
                /\ tarballs' = tarballs \cup {target} /\ damaged' = damaged \ {target}
                /\ UNCHANGED <<lock, dir, prev, range, count, settling, target, olds, tried, running, excuse>>

StageLock == /\ Move("stLock", "stClean")
             /\ lock' = [lock EXCEPT !.pending = target]
             /\ olds' = {lock.pending} \ {None, target, lock.version}
             /\ UNCHANGED <<tarballs, dir, prev, target, excuse>> /\ Quiet

StageClean == /\ Move("stClean", "up")
              /\ \E gone \in SUBSET olds : tarballs' = tarballs \ gone
              /\ olds' = {} /\ target' = None
              /\ UNCHANGED <<lock, dir, prev, excuse>> /\ Quiet

-----------------------------------------------------------------------------
(* What goes wrong, and what happens outside the process. *)

(* A removal of a folder that has begun. *)
Tear == /\ \/ pc \in {"reClear", "inClear"} /\ dir # None /\ dir' = Torn /\ UNCHANGED prev
           \/ pc \in {"swClear", "confirmClean"} /\ prev # None /\ prev' = Torn /\ UNCHANGED dir
        /\ UNCHANGED <<lock, tarballs, pc, target, olds, excuse>> /\ Quiet

(* A step that throws.  In a start the add-on is skipped, except that a    *)
(* switch goes back; in a repair the folder is set aside first, if it can  *)
(* be; an Update ends.                                                     *)
StepFails ==
  /\ count.failures < MaxFailures /\ count' = [count EXCEPT !.failures = @ + 1]
  /\ \/ /\ pc \in {"switch", "swClear", "swMove", "swUnpack"}
        /\ pc' = "swBack" /\ UNCHANGED <<dir, excuse>>
     \/ /\ pc \in {"verify", "reClear", "reMove"}
        /\ pc' = "up" /\ excuse' = TRUE /\ dir' \in {dir, None}
     \/ /\ pc \in {"undoAside", "undoRename", "undoLock", "switch", "swBack", "swLock", "discardLock",
                   "inTarball", "inClear", "inMove", "inLock", "confirm", "stTarball", "stLock"}
        /\ pc' = "up" /\ excuse' = TRUE /\ UNCHANGED dir
  /\ target' = None /\ olds' = {}
  /\ UNCHANGED <<lock, tarballs, prev, damaged, range, settling, tried, running>>

(* The process stops, at whatever step it is, and is started again: the    *)
(* switch that was not confirmed falls back first.                         *)
Crash == /\ count.crashes < MaxCrashes /\ count' = [count EXCEPT !.crashes = @ + 1]
         /\ pc # "down" /\ pc' = "down"
         /\ settling' = FALSE /\ target' = None /\ olds' = {}
         /\ tried' = "no" /\ running' = None /\ excuse' = FALSE
         /\ UNCHANGED <<disk, damaged, range>>

(* Mutant of Start: a switch that was never confirmed is taken as it is. *)
StartTrusts == /\ Move("down", "answer")
               /\ UNCHANGED <<disk, target, olds, excuse>> /\ Quiet

Start == /\ Move("down", IF lock.previous # None THEN "undoAside" ELSE "answer")
         /\ UNCHANGED <<disk, target, olds, excuse>> /\ Quiet

(* A stored tarball is lost or changed while the site is down. *)
Damage == /\ pc = "down" /\ count.damages < MaxDamages /\ count' = [count EXCEPT !.damages = @ + 1]
          /\ \E v \in tarballs : tarballs' = tarballs \ {v} /\ damaged' = damaged \cup {v}
          /\ UNCHANGED <<lock, dir, prev, range, pc, settling, target, olds, tried, running, excuse>>

(* The administrator edits the range; a start has read it already. *)
Configure == /\ pc \in {"down", "up"} /\ count.edits < MaxEdits /\ count' = [count EXCEPT !.edits = @ + 1]
             /\ range' \in Ranges
             /\ UNCHANGED <<disk, damaged, pc, settling, target, olds, tried, running, excuse>>

-----------------------------------------------------------------------------
InstallerInit ==
  /\ lock = NoLock /\ tarballs = {} /\ damaged = {}
  /\ dir \in {None, Foreign} /\ prev = None
  /\ range \in Ranges
  /\ pc = "down" /\ settling = FALSE /\ target = None /\ olds = {}
  /\ tried = "no" /\ running = None /\ excuse = FALSE
  /\ count = [crashes |-> 0, failures |-> 0, damages |-> 0, edits |-> 0, updates |-> 0]

Undo == UndoAside \/ UndoRename \/ UndoTarball \/ UndoLock
SwitchSteps == Switch \/ SwitchClear \/ SwitchMove \/ SwitchUnpack \/ SwitchLock \/ SwitchBack \/ Discard \/ DiscardLock
Installed == Answer \/ Verify \/ RepairClear \/ RepairMove
Install == InstallTarball \/ InstallClear \/ InstallMove \/ InstallLock \/ InstallClean
Settle == Load \/ ConfirmLock \/ ConfirmClean
Stage == Update \/ StageTarball \/ StageLock \/ StageClean

InstallerNext == \/ Start \/ Undo \/ SwitchSteps \/ Installed \/ Install \/ Settle \/ Stage
                 \/ Tear \/ StepFails \/ Crash \/ Damage \/ Configure

InstallerSpec == InstallerInit /\ [][InstallerNext]_installerVars

(* Every step of a start and of an Update ends, and a site that stopped is *)
(* started again.                                                          *)
Progress == Start \/ Undo \/ SwitchSteps \/ Installed \/ Install \/ Settle
FairInstaller == InstallerSpec /\ WF_installerVars(Progress)

-----------------------------------------------------------------------------
Entry == [version : Releases \cup {None}, pending : Releases \cup {None}, previous : Releases \cup {None}]
Folder == Releases \cup {None, Torn, Foreign}

(* Types: what can be staged or kept is newer or older than what is        *)
(* installed, never both at once; only releases have tarballs.             *)
InstallerTypeOK ==
  /\ lock \in Entry
  /\ tarballs \subseteq Releases /\ damaged \subseteq Releases /\ olds \subseteq Releases
  /\ dir \in Folder /\ prev \in Folder /\ target \in Releases \cup {None} /\ running \in Folder
  /\ range \in Ranges /\ settling \in BOOLEAN /\ excuse \in BOOLEAN
  /\ tried \in {"no", "loaded", "failed", "off"}
  /\ lock.version = None => lock = NoLock
  /\ lock.pending # None => lock.previous = None /\ lock.pending # lock.version
  /\ lock.previous # lock.version \/ lock = NoLock

(* The release the next start falls back to. *)
Kept == IF lock.previous # None THEN lock.previous ELSE lock.version

(* Wherever a start, an Update or its settling stops, the release the next *)
(* start runs without the registry still has its tarball: that of the      *)
(* release an unconfirmed update replaced, else that of the lock.          *)
FallbackKept == lock.version # None => Kept \in tarballs \cup damaged

(* What is loaded is the release the lock names, unpacked in full and in   *)
(* the configured range, and the lock goes on naming it while it runs.     *)
LoadedIsPinned == /\ pc \in {"load", "loadNew"} => dir = lock.version /\ lock.version \in range
                  /\ running # None => running = lock.version

(* A start in which nothing throws offers the add-on to the load pass,     *)
(* whatever earlier starts stopped in the middle of, unless the registry   *)
(* was needed and did not help, a folder stood in the way, or the stored   *)
(* tarball was damaged.                                                    *)
CrashCostsNothing == pc = "up" /\ ~excuse => tried # "no"

(* An unconfirmed update ends in one of two ways: the release it replaced  *)
(* is restored, or the new one loaded in this very start or is off.        *)
UpdateSettled == [][lock.previous # None /\ lock'.previous # lock.previous =>
                      \/ lock' = [version |-> lock.previous, pending |-> None, previous |-> None]
                      \/ lock' = [lock EXCEPT !.previous = None] /\ tried \in {"loaded", "off"}]_installerVars

(* Every switch is confirmed or undone, unless a step of settling throws.  *)
UpdateEnds == (lock.previous # None /\ ~excuse) ~> (lock.previous = None \/ excuse)

(* What the installer says of a folder without a lock entry, and the       *)
(* add-on guide after it: it was not installed by the installer.           *)
ForeignIsForeign == pc = "answer" /\ lock.version = None => dir \in {None, Foreign}
=============================================================================
